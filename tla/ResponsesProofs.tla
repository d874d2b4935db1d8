--------------------------- MODULE ResponsesProofs ---------------------------
(***************************************************************************)
(* What holds of the three SDKs for every set of replies, every number of  *)
(* retries and every longest wait.                                         *)
(***************************************************************************)
EXTENDS Responses, WellFoundedInduction, TLAPS

USE DEF Second, Millisecond

-----------------------------------------------------------------------------
(* Arithmetic of waits.                                                    *)
LEMMA WordIsEven ==
  /\ Word \in Nat /\ Word \div 2 \in Nat /\ Word = 2 * (Word \div 2)
  /\ Word \div 2 > Second
  /\ MaxInt \in Int /\ MinInt \in Int
  /\ MaxInt = Word \div 2 - 1 /\ MinInt = - (Word \div 2)
BY WordAssumption DEF MaxInt, MinInt

LEMMA WholeSeconds ==
  ASSUME NEW n \in Int
  PROVE  /\ Truncated(n) \in Int
         /\ n >= 0 => /\ Truncated(n) >= 0
                      /\ Truncated(n) * Second <= n
                      /\ n - Truncated(n) * Second <= Second - 1
         /\ n < 0 => Truncated(n) <= 0
         /\ n % Second = 0 /\ n >= 0 => Truncated(n) * Second = n
BY DEF Truncated

LEMMA WholeNat ==
  ASSUME NEW n \in Nat
  PROVE  /\ n \in Int /\ Truncated(n) \in Int /\ Truncated(n) >= 0 /\ Truncated(n) <= n
         /\ Truncated(n) * Second <= n /\ n - Truncated(n) * Second <= Second - 1
BY DEF Truncated

LEMMA NextNat ==
  ASSUME NEW n \in Nat
  PROVE  /\ Ceiling(n) \in Int /\ Ceiling(n) >= 0 /\ Ceiling(n) * Second >= n
BY DEF Ceiling

LEMMA NextSecond ==
  ASSUME NEW n \in Int
  PROVE  /\ Ceiling(n) \in Int
         /\ Ceiling(n) * Second >= n
         /\ Ceiling(n) * Second - n <= Second - 1
         /\ n <= 0 => Ceiling(n) <= 0
         /\ n >= 0 => Ceiling(n) >= 0
BY DEF Ceiling

LEMMA FitsDuration ==
  ASSUME NEW n \in Int
  PROVE  /\ Duration(n) \in Int
         /\ n \in - (Word \div 2) .. Word \div 2 - 1 => Duration(n) = n
<1>1. Word \in Nat /\ Word > 0 /\ Word = 2 * (Word \div 2) /\ Word \div 2 \in Nat
  BY WordIsEven
<1> DEFINE H == Word \div 2
<1>2. (n + H) % Word \in Int
  BY <1>1
<1>3. ASSUME n \in -H .. H - 1 PROVE (n + H) % Word = n + H
  <2>1. n + H \in 0 .. Word - 1
    BY <1>1, <1>3
  <2> QED BY <1>1, <2>1
<1> QED BY <1>1, <1>2, <1>3 DEF Duration

-----------------------------------------------------------------------------
(* What is read of a header.                                               *)
LEMMA GreatestOfSet ==
  ASSUME NEW n \in Nat, NEW T \in SUBSET (1 .. n), T # {}
  PROVE  Max(T) \in T
<1> DEFINE Gaps == {k \in 0 .. n : n - k \in T}
           Under == {ss \in Nat \X Nat : ss[1] < ss[2]}
<1>1. PICK t \in T : TRUE
  OBVIOUS
<1>2. n - t \in Gaps
  BY <1>1
<1>3. IsWellFoundedOn(Under, Nat)
  BY NatLessThanWellFounded DEF OpToRel
<1>4. PICK m \in Gaps : \A k \in Gaps : ~ (<<k, m>> \in Under)
  <2>1. Gaps \subseteq Nat
    OBVIOUS
  <2>2. Gaps # {}
    BY <1>2
  <2> HIDE DEF Gaps, Under
  <2> QED BY <1>3, <2>1, <2>2, WFMin
<1>5. ASSUME NEW k \in Gaps PROVE ~ (k < m)
  <2>1. ~ (<<k, m>> \in Under) /\ k \in Nat /\ m \in Nat
    BY <1>4
  <2> QED BY <2>1
<1>6. n - m \in T
  OBVIOUS
<1>7. ASSUME NEW u \in T PROVE n - m >= u
  <2>1. n - u \in Gaps
    OBVIOUS
  <2>2. ~ (n - u < m) /\ u \in Nat /\ m \in Nat
    BY <1>5, <2>1
  <2> QED BY <2>2
<1> QED BY <1>6, <1>7 DEF Max

LEMMA ParameterIsOfItem ==
  ASSUME NEW item \in Items, NEW key
  PROVE  \/ Parameter(item, key) = Nothing
         \/ \E i \in DOMAIN item : Parameter(item, key) = item[i].value
<1> DEFINE places == {i \in DOMAIN item : item[i].key = key}
<1>1. PICK n \in Nat : DOMAIN item = 1 .. n
  BY DEF Items
<1>2. CASE places = {}
  BY <1>2 DEF Parameter
<1>3. CASE places # {}
  <2>1. Max(places) \in places
    BY <1>1, <1>3, GreatestOfSet
  <2>2. Parameter(item, key) = item[Max(places)].value
    BY <1>3 DEF Parameter
  <2> QED BY <2>1, <2>2
<1> QED BY <1>2, <1>3

LEMMA ParameterIsField ==
  ASSUME NEW item \in Items, NEW key
  PROVE  Parameter(item, key) \in Texts
<1>1. Nothing \in Texts
  BY DEF Nothing, Field, Texts
<1>2. ASSUME NEW i \in DOMAIN item PROVE item[i].value \in Texts
  <2>1. item \in Seq([key : STRING, value : Texts])
    BY DEF Items
  <2>2. DOMAIN item = 1 .. Len(item)
    BY <2>1
  <2>3. item[i] \in [key : STRING, value : Texts]
    <3> DEFINE E == [key : STRING, value : Texts]
    <3>1. item \in Seq(E) /\ i \in 1 .. Len(item)
      BY <2>1, <2>2
    <3> HIDE DEF E
    <3>2. item[i] \in E
      BY <3>1
    <3> QED BY <3>2 DEF E
  <2> QED BY <2>3
<1> QED BY <1>1, <1>2, ParameterIsOfItem

-----------------------------------------------------------------------------
(* A number, or none.                                                      *)
Maybe == {<<>>} \cup {<<n>> : n \in Int}

LEMMA MaybeIs ==
  ASSUME NEW number \in Maybe
  PROVE  number # <<>> => number[1] \in Int /\ number = <<number[1]>>
BY DEF Maybe

LEMMA MaybeOr ==
  ASSUME NEW first \in Maybe, NEW second \in Maybe
  PROVE  /\ Or(first, second) \in Maybe
         /\ first # <<>> => Or(first, second) = first
         /\ first = <<>> => Or(first, second) = second
BY DEF Or

Fields == Texts \cup Dates

LEMMA FieldIs ==
  ASSUME NEW field \in Fields
  PROVE  field.value \in Int
BY DEF Fields, Texts, Dates

LEMMA GoInts ==
  ASSUME NEW sdk, NEW n \in Int, NEW form
  PROVE  /\ IntOfFloat(sdk, n) \in Int
         /\ n \in MinInt .. MaxInt => IntOfFloat(sdk, n) = n
         /\ n <= 0 => IntOfFloat(sdk, n) <= 0
         /\ IntOfSpecial(sdk, form) \in Int
<1>1. MaxInt \in Int /\ MinInt \in Int /\ MinInt <= 0 /\ MaxInt > 0
  BY WordIsEven
<1>2. IntOfFloat(sdk, n) \in Int
  BY <1>1 DEF IntOfFloat
<1>3. ASSUME n \in MinInt .. MaxInt PROVE IntOfFloat(sdk, n) = n
  BY <1>3 DEF IntOfFloat
<1>4. IntOfSpecial(sdk, form) \in Int
  BY <1>1 DEF IntOfSpecial
<1>5. ASSUME n <= 0 PROVE IntOfFloat(sdk, n) <= 0
  <2>1. CASE n \in MinInt .. MaxInt
    BY <1>5, <2>1 DEF IntOfFloat
  <2>2. CASE n \notin MinInt .. MaxInt
    <3>1. n < 0
      BY <1>1, <1>5, <2>2
    <3>2. IntOfFloat(sdk, n) = MinInt
      BY <2>2, <3>1 DEF IntOfFloat
    <3> QED BY <1>1, <3>2
  <2> QED BY <2>1, <2>2
<1> QED BY <1>2, <1>3, <1>4, <1>5

NumberRead(sdk, n) ==
  CASE sdk = "ts" -> n
    [] sdk = "python" -> Truncated(n) * Second
    [] OTHER -> IntOfFloat(sdk, Truncated(n)) * Second

LEMMA NumberReadIs ==
  ASSUME NEW sdk, NEW n \in Int
  PROVE  NumberRead(sdk, n) \in Int
<1>1. Truncated(n) \in Int
  BY WholeSeconds
<1>2. IntOfFloat(sdk, Truncated(n)) * Second \in Int /\ Truncated(n) * Second \in Int
  BY <1>1, GoInts
<1> QED BY <1>2 DEF NumberRead

LEMMA NumberOf ==
  ASSUME NEW sdk \in Sdks, NEW field \in Fields
  PROVE  /\ ToNumber(sdk, field) \in Maybe
         /\ field.form = "number" =>
              ToNumber(sdk, field) = <<NumberRead(sdk, field.value)>>
         /\ field.form # "number" /\ ~ (field.form \in {"nan", "infinity"} /\ IsGo(sdk))
              => ToNumber(sdk, field) = <<>>
         /\ field.form \in {"nan", "infinity"} /\ IsGo(sdk) => ToNumber(sdk, field) # <<>>
<1>1. field.value \in Int
  BY FieldIs
<1>2. /\ IntOfSpecial(sdk, field.form) * Second \in Int
      /\ NumberRead(sdk, field.value) \in Int
  BY <1>1, GoInts, NumberReadIs
<1>3. CASE field.form = "number"
  <2>1. ToNumber(sdk, field) = <<NumberRead(sdk, field.value)>>
    BY <1>3 DEF ToNumber, NumberRead
  <2>2. <<NumberRead(sdk, field.value)>> \in Maybe
    BY <1>2 DEF Maybe
  <2> QED BY <1>3, <2>1, <2>2
<1>4. CASE field.form \in {"nan", "infinity"} /\ IsGo(sdk)
  <2>1. ToNumber(sdk, field) = <<IntOfSpecial(sdk, field.form) * Second>>
    BY <1>4 DEF ToNumber
  <2>2. <<IntOfSpecial(sdk, field.form) * Second>> \in Maybe
    BY <1>2 DEF Maybe
  <2>3. ToNumber(sdk, field) # <<>>
    BY <2>1
  <2> QED BY <1>4, <2>1, <2>2, <2>3
<1>5. CASE /\ field.form # "number"
           /\ ~ (field.form \in {"nan", "infinity"} /\ IsGo(sdk))
  <2>1. ToNumber(sdk, field) = <<>>
    BY <1>5 DEF ToNumber
  <2> QED BY <1>5, <2>1 DEF Maybe
<1> QED BY <1>3, <1>4, <1>5

LEMMA Truncates ==
  ASSUME NEW n \in Int
  PROVE  /\ AtLeastZero(n) \in Nat
         /\ AtLeastZero(n) >= n
         /\ n >= 0 => AtLeastZero(n) = n
         /\ n <= 0 => AtLeastZero(n) = 0
BY DEF AtLeastZero

(* The seconds that an SDK counts to a date.                               *)
SecondsTo(sdk, n) ==
  Second * IF sdk = "python" THEN Truncated(n + Second - Millisecond)
                             ELSE Ceiling(Until(sdk, n))

LEMMA UntilIs ==
  ASSUME NEW sdk, NEW n \in Int
  PROVE  /\ Until(sdk, n) \in Int
         /\ ~ IsGo(sdk) => Until(sdk, n) = n
         /\ n < 0 => Until(sdk, n) <= 0
         /\ n \in 0 .. MaxInt => Until(sdk, n) = n
<1>1. MaxInt \in Int /\ MinInt \in Int /\ MinInt <= 0 /\ MaxInt > 0
  BY WordIsEven
<1>2. Until(sdk, n) \in Int
  BY <1>1 DEF Until
<1>3. ASSUME n \in 0 .. MaxInt PROVE Until(sdk, n) = n
  <2>1. n \in MinInt .. MaxInt
    BY <1>1, <1>3
  <2> QED BY <2>1 DEF Until
<1>4. ASSUME n < 0 PROVE Until(sdk, n) <= 0
  BY <1>1, <1>4 DEF Until
<1> QED BY <1>2, <1>3, <1>4 DEF Until

LEMMA SecondsToIs ==
  ASSUME NEW sdk, NEW n \in Int
  PROVE  SecondsTo(sdk, n) \in Int
<1>1. n + Second - Millisecond \in Int
  OBVIOUS
<1>2. Truncated(n + Second - Millisecond) \in Int
  BY <1>1, WholeSeconds
<1>3. Ceiling(Until(sdk, n)) \in Int
  BY UntilIs, NextSecond
<1> QED BY <1>2, <1>3 DEF SecondsTo

LEMMA RetryAfterOf ==
  ASSUME NEW sdk \in Sdks, NEW field \in Fields
  PROVE  /\ RetryAfter(sdk, field) \in Maybe
         /\ RetryAfter(sdk, field) # <<>> => RetryAfter(sdk, field)[1] \in Nat
         /\ ToNumber(sdk, field) # <<>> =>
              RetryAfter(sdk, field) = <<AtLeastZero(ToNumber(sdk, field)[1])>>
         /\ field.form = "date" =>
              RetryAfter(sdk, field) = <<AtLeastZero(SecondsTo(sdk, field.value))>>
         /\ ToNumber(sdk, field) = <<>> /\ field.form # "date" =>
              RetryAfter(sdk, field) = <<>>
<1>1. field.value \in Int /\ ToNumber(sdk, field) \in Maybe
  BY FieldIs, NumberOf
<1>2. CASE ToNumber(sdk, field) # <<>>
  <2>1. field.form # "date"
    BY <1>2, NumberOf
  <2>2. RetryAfter(sdk, field) = <<AtLeastZero(ToNumber(sdk, field)[1])>>
    BY <1>2 DEF RetryAfter
  <2>3. AtLeastZero(ToNumber(sdk, field)[1]) \in Nat
    BY <1>1, <1>2, MaybeIs, Truncates
  <2>4. <<AtLeastZero(ToNumber(sdk, field)[1])>> \in Maybe
    BY <2>3 DEF Maybe
  <2>5. <<AtLeastZero(ToNumber(sdk, field)[1])>>[1] \in Nat
    BY <2>3
  <2> QED BY <1>2, <2>1, <2>2, <2>4, <2>5
<1>3. CASE ToNumber(sdk, field) = <<>> /\ field.form = "date"
  <2>1. RetryAfter(sdk, field) = <<AtLeastZero(SecondsTo(sdk, field.value))>>
    BY <1>3 DEF RetryAfter, SecondsTo
  <2>2. AtLeastZero(SecondsTo(sdk, field.value)) \in Nat
    BY <1>1, SecondsToIs, Truncates
  <2>3. <<AtLeastZero(SecondsTo(sdk, field.value))>> \in Maybe
    BY <2>2 DEF Maybe
  <2>4. <<AtLeastZero(SecondsTo(sdk, field.value))>>[1] \in Nat
    BY <2>2
  <2> QED BY <1>3, <2>1, <2>3, <2>4
<1>4. CASE ToNumber(sdk, field) = <<>> /\ field.form # "date"
  <2>1. RetryAfter(sdk, field) = <<>>
    BY <1>4 DEF RetryAfter
  <2> QED BY <1>4, <2>1 DEF Maybe
<1>5. field.form = "date" => ToNumber(sdk, field) = <<>>
  BY NumberOf
<1> QED BY <1>2, <1>3, <1>4, <1>5

-----------------------------------------------------------------------------
(* What follows from the headers: the rate limit, and the wait.            *)
LEMMA HeaderTypes ==
  ASSUME NEW h \in HeaderSets
  PROVE  /\ h.policy \in Items /\ h.state \in Items
         /\ h.limit \in Fields /\ h.remaining \in Fields /\ h.retryAfter \in Fields
         /\ \A key : Parameter(h.policy, key) \in Texts /\ Parameter(h.state, key) \in Texts
         /\ \A key : Parameter(h.policy, key) \in Fields /\ Parameter(h.state, key) \in Fields
<1>1. /\ h.policy \in Items /\ h.state \in Items
      /\ h.limit \in Texts /\ h.remaining \in Texts /\ h.retryAfter \in Texts \cup Dates
  BY DEF HeaderSets
<1>2. \A key : Parameter(h.policy, key) \in Texts /\ Parameter(h.state, key) \in Texts
  BY <1>1, ParameterIsField
<1> QED BY <1>1, <1>2 DEF Fields

LEMMA InfoIs ==
  ASSUME NEW sdk \in Sdks, NEW h \in HeaderSets
  PROVE  LET info == ParseRateLimit(sdk, h) IN
         /\ info = [limit |-> info.limit, remaining |-> info.remaining,
                    reset |-> info.reset, window |-> info.window,
                    retryAfter |-> info.retryAfter]
         /\ info.limit \in Maybe /\ info.remaining \in Maybe /\ info.reset \in Maybe
         /\ info.window \in Maybe /\ info.retryAfter \in Maybe
         /\ info.reset = ToNumber(sdk, Parameter(h.state, "t"))
         /\ info.retryAfter = RetryAfter(sdk, h.retryAfter)
<1> DEFINE q == ToNumber(sdk, Parameter(h.policy, "q"))
           r == ToNumber(sdk, Parameter(h.state, "r"))
           t == ToNumber(sdk, Parameter(h.state, "t"))
           w == ToNumber(sdk, Parameter(h.policy, "w"))
           limit == Or(q, ToNumber(sdk, h.limit))
           remaining == Or(r, ToNumber(sdk, h.remaining))
           after == RetryAfter(sdk, h.retryAfter)
<1>1. /\ q \in Maybe /\ r \in Maybe /\ t \in Maybe /\ w \in Maybe
      /\ ToNumber(sdk, h.limit) \in Maybe /\ ToNumber(sdk, h.remaining) \in Maybe
      /\ after \in Maybe
  <2>1. /\ Parameter(h.policy, "q") \in Fields /\ Parameter(h.state, "r") \in Fields
        /\ Parameter(h.state, "t") \in Fields /\ Parameter(h.policy, "w") \in Fields
        /\ h.limit \in Fields /\ h.remaining \in Fields /\ h.retryAfter \in Fields
    BY HeaderTypes
  <2>2. \A field \in Fields : ToNumber(sdk, field) \in Maybe
    BY NumberOf
  <2>3. after \in Maybe
    BY <2>1, RetryAfterOf
  <2> QED BY <2>1, <2>2, <2>3
<1>2. limit \in Maybe /\ remaining \in Maybe
  BY <1>1, MaybeOr
<1>3. ParseRateLimit(sdk, h) = [limit |-> limit, remaining |-> remaining, reset |-> t,
                                window |-> w, retryAfter |-> after]
  BY DEF ParseRateLimit
<1>4. t = ToNumber(sdk, Parameter(h.state, "t")) /\ after = RetryAfter(sdk, h.retryAfter)
  OBVIOUS
<1> HIDE DEF q, r, t, w, limit, remaining, after
<1> DEFINE info == ParseRateLimit(sdk, h)
<1>5. /\ info.limit = limit /\ info.remaining = remaining /\ info.reset = t
      /\ info.window = w /\ info.retryAfter = after
  BY <1>3
<1>6. info = [limit |-> info.limit, remaining |-> info.remaining,
              reset |-> info.reset, window |-> info.window,
              retryAfter |-> info.retryAfter]
  BY <1>3, <1>5
<1> HIDE DEF info
<1>7. /\ info.limit \in Maybe /\ info.remaining \in Maybe /\ info.reset \in Maybe
      /\ info.window \in Maybe /\ info.retryAfter \in Maybe
  BY <1>1, <1>2, <1>5
<1>8. /\ info.reset = ToNumber(sdk, Parameter(h.state, "t"))
      /\ info.retryAfter = RetryAfter(sdk, h.retryAfter)
  BY <1>4, <1>5
<1> QED BY <1>6, <1>7, <1>8 DEF info

Wait(sdk, h) ==
  IF RetryAfter(sdk, h.retryAfter) # <<>> THEN RetryAfter(sdk, h.retryAfter)[1]
  ELSE IF ToNumber(sdk, Parameter(h.state, "t")) # <<>>
    THEN ToNumber(sdk, Parameter(h.state, "t"))[1]
  ELSE Second

LEMMA DelayIs ==
  ASSUME NEW sdk \in Sdks, NEW h \in HeaderSets
  PROVE  /\ Wait(sdk, h) \in Int
         /\ RetryDelay(sdk, ParseRateLimit(sdk, h)) \in Int
         /\ RetryDelay(sdk, ParseRateLimit(sdk, h)) =
              CASE sdk = "ts" -> AtLeastZero(Wait(sdk, h))
                [] sdk = "python" -> Wait(sdk, h)
                [] OTHER -> Duration(Wait(sdk, h))
<1> DEFINE info == ParseRateLimit(sdk, h)
           wait == Or(info.retryAfter, Or(info.reset, <<Second>>))[1]
<1>1. /\ info.reset \in Maybe /\ info.retryAfter \in Maybe
      /\ info.reset = ToNumber(sdk, Parameter(h.state, "t"))
      /\ info.retryAfter = RetryAfter(sdk, h.retryAfter)
  BY InfoIs
<1>2. RetryDelay(sdk, info) =
        CASE sdk = "ts" -> AtLeastZero(wait)
          [] sdk = "python" -> wait
          [] OTHER -> Duration(wait)
  BY DEF RetryDelay
<1> HIDE DEF info
<1>3. <<Second>> \in Maybe /\ <<Second>>[1] = Second
  BY DEF Maybe
<1>4. Or(info.reset, <<Second>>) \in Maybe
  BY <1>1, <1>3, MaybeOr
<1>5. wait = Wait(sdk, h) /\ wait \in Int
  <2>1. CASE info.retryAfter # <<>>
    BY <1>1, <1>4, <2>1, MaybeOr, MaybeIs DEF Wait
  <2>2. CASE info.retryAfter = <<>> /\ info.reset # <<>>
    BY <1>1, <1>3, <1>4, <2>2, MaybeOr, MaybeIs DEF Wait
  <2>3. CASE info.retryAfter = <<>> /\ info.reset = <<>>
    BY <1>1, <1>3, <1>4, <2>3, MaybeOr DEF Wait
  <2> QED BY <2>1, <2>2, <2>3
<1> HIDE DEF wait
<1>6. AtLeastZero(wait) \in Int /\ Duration(wait) \in Int
  BY <1>5, Truncates, FitsDuration
<1> QED BY <1>2, <1>5, <1>6 DEF info

-----------------------------------------------------------------------------
(* A wait is as long as the time that the headers name.                    *)
Lag(sdk, form) ==
  IF sdk = "ts" THEN 0
  ELSE IF form = "number" THEN Second - 1
  ELSE IF form = "date" /\ sdk = "python" THEN Millisecond - 1
  ELSE 0

LEMMA EarlyIs ==
  ASSUME NEW sdk \in Sdks, NEW field \in Fields
  PROVE  Early(sdk, field) = Lag(sdk, field.form) /\ Lag(sdk, field.form) \in Nat
<1>1. CASE sdk = "ts"
  BY <1>1 DEF Early, Lag
<1>2. CASE sdk # "ts" /\ field.form = "number"
  BY <1>2 DEF Early, Lag
<1>3. CASE sdk # "ts" /\ field.form # "number"
  BY <1>3 DEF Early, Lag
<1>4. Lag(sdk, field.form) \in Nat
  BY DEF Lag
<1> QED BY <1>1, <1>2, <1>3, <1>4

LEMMA NumberInTime ==
  ASSUME NEW sdk \in Sdks, NEW v \in Nat, IsGo(sdk) => v < Word \div 2
  PROVE  /\ NumberRead(sdk, v) \in 0 .. v
         /\ v - NumberRead(sdk, v) <= Lag(sdk, "number")
<1> DEFINE k == Truncated(v)
<1>1. /\ v \in Int /\ k \in Int /\ k >= 0 /\ k <= v
      /\ k * Second <= v /\ v - k * Second <= Second - 1
  BY WholeNat
<1>2. CASE sdk = "ts"
  BY <1>2 DEF NumberRead, Lag
<1>3. CASE sdk # "ts"
  <2>1. NumberRead(sdk, v) = k * Second
    <3>1. CASE sdk = "python"
      BY <3>1 DEF NumberRead
    <3>2. CASE sdk # "python"
      <4>1. IsGo(sdk)
        BY <1>3, <3>2 DEF Sdks, IsGo
      <4>2. k \in MinInt .. MaxInt
        <5>1. /\ v < Word \div 2 /\ MaxInt = Word \div 2 - 1 /\ Word \div 2 \in Nat
              /\ MinInt = - (Word \div 2)
          BY <4>1, WordIsEven
        <5> HIDE DEF k
        <5> QED BY <1>1, <5>1
      <4>3. IntOfFloat(sdk, k) = k
        BY <1>1, <4>2, GoInts
      <4>4. NumberRead(sdk, v) = IntOfFloat(sdk, k) * Second
        BY <1>3, <3>2 DEF NumberRead
      <4> QED BY <4>3, <4>4
    <3> QED BY <3>1, <3>2
  <2>2. Lag(sdk, "number") = Second - 1
    BY <1>3 DEF Lag
  <2> HIDE DEF k
  <2>3. k * Second \in 0 .. v /\ v - k * Second <= Second - 1
    BY <1>1
  <2> QED BY <2>1, <2>2, <2>3
<1> QED BY <1>2, <1>3

LEMMA DateInTime ==
  ASSUME NEW sdk \in Sdks, NEW v \in Nat,
         IsGo(sdk) => Ceiling(v) * Second < Word \div 2
  PROVE  /\ SecondsTo(sdk, v) \in Nat
         /\ v - SecondsTo(sdk, v) <= Lag(sdk, "date")
         /\ IsGo(sdk) => SecondsTo(sdk, v) < Word \div 2
<1> DEFINE n == SecondsTo(sdk, v)
<1>1. v \in Int
  OBVIOUS
<1>2. CASE sdk = "python"
  <2> DEFINE k == Truncated(v + Second - Millisecond)
  <2>1. n = Second * k
    BY <1>2 DEF SecondsTo
  <2>2. v + Second - Millisecond \in Int /\ v + Second - Millisecond >= 0
    BY <1>1
  <2>3. k \in Int /\ k >= 0 /\ v + Second - Millisecond - k * Second <= Second - 1
    <3>1. PICK u \in Nat : u = v + Second - Millisecond
      BY <2>2
    <3>2. /\ Truncated(u) \in Int /\ Truncated(u) >= 0
          /\ u - Truncated(u) * Second <= Second - 1
      BY WholeNat
    <3> QED BY <3>1, <3>2
  <2>4. Lag(sdk, "date") = Millisecond - 1
    BY <1>2 DEF Lag
  <2>5. ~ IsGo(sdk)
    BY <1>2 DEF IsGo
  <2> HIDE DEF k, n
  <2>6. n \in Nat /\ v - n <= Millisecond - 1
    BY <1>1, <2>1, <2>3
  <2> QED BY <2>4, <2>5, <2>6 DEF n
<1>3. CASE sdk # "python"
  <2>1. /\ Ceiling(v) \in Int /\ Ceiling(v) >= 0 /\ Ceiling(v) * Second >= v
    BY NextNat
  <2>2. Until(sdk, v) = v
    <3>1. CASE IsGo(sdk)
      <4>1. v \in 0 .. MaxInt
        BY <1>1, <2>1, <3>1, WordIsEven
      <4> QED BY <4>1, UntilIs
    <3>2. CASE ~ IsGo(sdk)
      BY <1>1, <3>2, UntilIs
    <3> QED BY <3>1, <3>2
  <2>3. n = Second * Ceiling(v)
    BY <1>3, <2>2 DEF SecondsTo
  <2>4. Lag(sdk, "date") = 0
    BY <1>3 DEF Lag
  <2>5. IsGo(sdk) => Ceiling(v) * Second < Word \div 2
    OBVIOUS
  <2> HIDE DEF n
  <2>6. n \in Nat /\ n >= v /\ (IsGo(sdk) => n < Word \div 2)
    BY <1>1, <2>1, <2>3, <2>5
  <2>7. v - n <= Lag(sdk, "date")
    BY <1>1, <2>4, <2>6
  <2> QED BY <2>6, <2>7 DEF n
<1> QED BY <1>2, <1>3

(* Where a client waits for so long, it waits as it computed.              *)
LEMMA DelayOfWait ==
  ASSUME NEW sdk \in Sdks, NEW h \in HeaderSets,
         IsGo(sdk) => Wait(sdk, h) \in - (Word \div 2) .. Word \div 2 - 1
  PROVE  LET delay == RetryDelay(sdk, ParseRateLimit(sdk, h)) IN
         /\ Wait(sdk, h) >= 0 => delay = Wait(sdk, h)
         /\ Wait(sdk, h) <= 0 => delay <= 0
<1>1. Wait(sdk, h) \in Int
  BY DelayIs
<1>2. CASE sdk = "ts"
  BY <1>1, <1>2, DelayIs, Truncates
<1>3. CASE sdk = "python"
  BY <1>1, <1>3, DelayIs
<1>4. CASE sdk # "ts" /\ sdk # "python"
  <2>1. IsGo(sdk)
    BY <1>4 DEF Sdks, IsGo
  <2>2. Duration(Wait(sdk, h)) = Wait(sdk, h)
    BY <1>1, <2>1, FitsDuration
  <2> QED BY <1>1, <1>4, <2>2, DelayIs
<1> QED BY <1>2, <1>3, <1>4

LEMMA WaitIsLong ==
  ASSUME NEW sdk \in Sdks, NEW h \in HeaderSets
  PROVE  LET delay == RetryDelay(sdk, ParseRateLimit(sdk, h)) IN
         \/ Named(Naming(h)) - AtLeastZero(delay) <= Early(sdk, Naming(h))
         \/ IsGo(sdk) /\ BeyondGo(h)
<1> DEFINE field == Naming(h)
           v == field.value
           delay == RetryDelay(sdk, ParseRateLimit(sdk, h))
           t == Parameter(h.state, "t")
<1>1. /\ h.retryAfter \in Fields /\ t \in Fields /\ t \in Texts
      /\ field \in Fields /\ v \in Int
  BY HeaderTypes, FieldIs DEF Naming
<1>2. t.form # "date"
  BY <1>1 DEF Texts
<1>3. delay \in Int /\ AtLeastZero(delay) \in Nat
  BY DelayIs, Truncates
<1>4. Early(sdk, field) = Lag(sdk, field.form) /\ Lag(sdk, field.form) \in Nat
  BY <1>1, EarlyIs
<1>5. CASE Named(field) = 0
  BY <1>3, <1>4, <1>5
<1>6. CASE Named(field) # 0 /\ (IsGo(sdk) => ~ BeyondGo(h))
  <2>1. field.form \in {"number", "date"} /\ Named(field) = v /\ v \in Nat
    BY <1>1, <1>6 DEF Named, AtLeastZero
  <2>2. IsGo(sdk) => InDuration(field) /\ h.retryAfter.form \notin {"nan", "infinity"}
    BY <1>6 DEF BeyondGo
  <2>3. SUFFICES /\ Wait(sdk, h) \in Nat
                 /\ IsGo(sdk) => Wait(sdk, h) < Word \div 2
                 /\ v - Wait(sdk, h) <= Lag(sdk, field.form)
    <3>1. delay = Wait(sdk, h)
      <4>1. Word \div 2 \in Nat
        BY WordIsEven
      <4>2. IsGo(sdk) => Wait(sdk, h) \in - (Word \div 2) .. Word \div 2 - 1
        BY <2>3, <4>1
      <4> QED BY <2>3, <4>2, DelayOfWait
    <3>2. AtLeastZero(delay) = Wait(sdk, h)
      BY <2>3, <3>1, Truncates
    <3> QED BY <1>4, <2>1, <2>3, <3>2
  <2>4. CASE field.form = "number"
    <3> DEFINE n == NumberRead(sdk, v)
    <3>1. IsGo(sdk) => v < Word \div 2
      BY <2>1, <2>2, <2>4, WordIsEven DEF InDuration
    <3>2. n \in 0 .. v /\ v - n <= Lag(sdk, "number")
      BY <2>1, <3>1, NumberInTime
    <3>3. ToNumber(sdk, field) = <<n>>
      BY <1>1, <2>4, NumberOf
    <3>4. Wait(sdk, h) = n
      <4>1. CASE h.retryAfter.form \in {"number", "date"}
        <5>1. field = h.retryAfter
          BY <4>1 DEF Naming
        <5>2. RetryAfter(sdk, h.retryAfter) = <<AtLeastZero(n)>>
          BY <1>1, <3>3, <5>1, RetryAfterOf
        <5>3. AtLeastZero(n) = n
          BY <2>1, <3>2, Truncates
        <5> QED BY <5>2, <5>3 DEF Wait
      <4>2. CASE h.retryAfter.form \notin {"number", "date"}
        <5>1. field = t
          BY <4>2 DEF Naming
        <5>2. ToNumber(sdk, h.retryAfter) = <<>>
          BY <1>1, <2>2, <4>2, NumberOf
        <5>3. RetryAfter(sdk, h.retryAfter) = <<>>
          BY <1>1, <4>2, <5>2, RetryAfterOf
        <5> QED BY <3>3, <5>1, <5>3 DEF Wait
      <4> QED BY <4>1, <4>2
    <3> HIDE DEF n
    <3>5. n \in Nat /\ (IsGo(sdk) => n < Word \div 2)
      BY <2>1, <3>1, <3>2, WordIsEven
    <3> QED BY <2>4, <3>2, <3>4, <3>5
  <2>5. CASE field.form = "date"
    <3> DEFINE n == SecondsTo(sdk, v)
    <3>1. h.retryAfter.form \in {"number", "date"} /\ field = h.retryAfter
      BY <1>2, <2>5 DEF Naming
    <3>2. IsGo(sdk) => Ceiling(v) * Second < Word \div 2
      BY <2>1, <2>2, <2>5 DEF InDuration
    <3>3. n \in Nat /\ v - n <= Lag(sdk, "date") /\ (IsGo(sdk) => n < Word \div 2)
      BY <2>1, <3>2, DateInTime
    <3>4. RetryAfter(sdk, h.retryAfter) = <<AtLeastZero(n)>>
      BY <1>1, <2>5, <3>1, RetryAfterOf
    <3>5. AtLeastZero(n) = n
      BY <3>3, Truncates
    <3>6. Wait(sdk, h) = n
      BY <3>4, <3>5 DEF Wait
    <3> HIDE DEF n
    <3> QED BY <2>5, <3>3, <3>6
  <2> QED BY <2>1, <2>4, <2>5
<1> QED BY <1>5, <1>6

(* ... and no longer: it is what the headers name, in whole seconds.        *)
LEMMA ReadBelowZero ==
  ASSUME NEW sdk \in Sdks, NEW v \in Int, v < 0
  PROVE  /\ NumberRead(sdk, v) \in Int /\ NumberRead(sdk, v) <= 0
         /\ IsGo(sdk) /\ v >= - (Word \div 2) => NumberRead(sdk, v) >= v
<1> DEFINE k == Truncated(v)
<1>1. k \in Int /\ k <= 0 /\ k * Second >= v /\ k >= v
  BY DEF Truncated
<1>2. IntOfFloat(sdk, k) \in Int /\ IntOfFloat(sdk, k) <= 0
  BY <1>1, GoInts
<1>3. IsGo(sdk) => NumberRead(sdk, v) = IntOfFloat(sdk, k) * Second
  <2>1. IsGo(sdk) => sdk # "ts" /\ sdk # "python"
    BY DEF IsGo
  <2> HIDE DEF k
  <2>2. sdk # "ts" /\ sdk # "python" => NumberRead(sdk, v) = IntOfFloat(sdk, k) * Second
    BY DEF NumberRead, k
  <2> QED BY <2>1, <2>2
<1>4. v >= - (Word \div 2) => IntOfFloat(sdk, k) = k
  <2>1. /\ MinInt = - (Word \div 2) /\ MaxInt = Word \div 2 - 1
        /\ Word \div 2 \in Nat /\ Word \div 2 > Second
    BY WordIsEven
  <2> HIDE DEF k
  <2>2. v >= - (Word \div 2) => k \in MinInt .. MaxInt
    BY <1>1, <2>1
  <2> QED BY <1>1, <2>2, GoInts
<1>5. NumberRead(sdk, v) \in {v, k * Second, IntOfFloat(sdk, k) * Second}
  BY DEF NumberRead
<1> HIDE DEF k
<1> QED BY <1>1, <1>2, <1>3, <1>4, <1>5

LEMMA DateNoLater ==
  ASSUME NEW sdk \in Sdks, NEW v \in Int,
         IsGo(sdk) => Ceiling(AtLeastZero(v)) * Second < Word \div 2
  PROVE  /\ AtLeastZero(SecondsTo(sdk, v)) <= AtLeastZero(v) + Second - 1
         /\ IsGo(sdk) => AtLeastZero(SecondsTo(sdk, v)) < Word \div 2
<1>1. AtLeastZero(v) \in Nat /\ Word \div 2 \in Nat /\ Word \div 2 > Second
  BY Truncates, WordIsEven
<1>2. SecondsTo(sdk, v) \in Int
  BY SecondsToIs
<1>3. CASE v < 0
  <2>1. SecondsTo(sdk, v) <= 0
    <3>1. v + Second - Millisecond < Second
      BY <1>3
    <3>2. Truncated(v + Second - Millisecond) <= 0
      BY <1>3 DEF Truncated
    <3>3. Until(sdk, v) \in Int /\ Until(sdk, v) <= 0
      BY <1>3, UntilIs
    <3>4. Ceiling(Until(sdk, v)) \in Int /\ Ceiling(Until(sdk, v)) <= 0
      BY <3>3, NextSecond
    <3>5. Truncated(v + Second - Millisecond) \in Int
      BY WholeSeconds
    <3> QED BY <3>2, <3>4, <3>5 DEF SecondsTo
  <2>2. AtLeastZero(SecondsTo(sdk, v)) = 0
    BY <1>2, <2>1, Truncates
  <2> QED BY <1>1, <2>2
<1>4. CASE v >= 0
  <2>1. v \in Nat /\ AtLeastZero(v) = v
    BY <1>4, Truncates
  <2>2. /\ SecondsTo(sdk, v) \in Nat
        /\ IsGo(sdk) => SecondsTo(sdk, v) < Word \div 2
    BY <2>1, DateInTime
  <2>3. SecondsTo(sdk, v) <= v + Second - 1
    <3>1. CASE sdk = "python"
      <4>1. SecondsTo(sdk, v) = Second * Truncated(v + Second - Millisecond)
        BY <3>1 DEF SecondsTo
      <4>2. PICK u \in Nat : u = v + Second - Millisecond
        BY <2>1
      <4>3. Truncated(u) \in Int /\ Truncated(u) * Second <= u
        BY WholeNat
      <4> QED BY <2>1, <4>1, <4>2, <4>3
    <3>2. CASE sdk # "python"
      <4>1. SecondsTo(sdk, v) = Second * Ceiling(Until(sdk, v))
        BY <3>2 DEF SecondsTo
      <4>2. /\ Ceiling(v) \in Int /\ Ceiling(v) * Second >= v
            /\ Ceiling(v) * Second - v <= Second - 1
        BY NextSecond
      <4>3. IsGo(sdk) => v \in 0 .. MaxInt
        BY <1>1, <2>1, <4>2, WordIsEven
      <4>4. Until(sdk, v) = v
        BY <4>3, UntilIs
      <4> QED BY <2>1, <4>1, <4>2, <4>4
    <3> QED BY <3>1, <3>2
  <2>4. AtLeastZero(SecondsTo(sdk, v)) = SecondsTo(sdk, v)
    BY <2>2, Truncates
  <2> QED BY <2>1, <2>2, <2>3, <2>4
<1> QED BY <1>3, <1>4

LEMMA WaitIsShort ==
  ASSUME NEW sdk \in Sdks, NEW h \in HeaderSets, IsGo(sdk) => ~ BeyondGo(h)
  PROVE  /\ Latest(h) \in Nat
         /\ RetryDelay(sdk, ParseRateLimit(sdk, h)) <= Latest(h)
<1> DEFINE field == Naming(h)
           v == field.value
           delay == RetryDelay(sdk, ParseRateLimit(sdk, h))
           t == Parameter(h.state, "t")
           H == Word \div 2
<1>1. /\ h.retryAfter \in Fields /\ t \in Fields /\ t \in Texts
      /\ field \in Fields /\ v \in Int
  BY HeaderTypes, FieldIs DEF Naming
<1>2. t.form # "date"
  BY <1>1 DEF Texts
<1>3. delay \in Int /\ Wait(sdk, h) \in Int
  BY DelayIs
<1>4. H \in Nat /\ H > Second
  BY WordIsEven
<1>5. AtLeastZero(v) \in Nat /\ AtLeastZero(v) >= v
  BY <1>1, Truncates
<1>6. IsGo(sdk) => InDuration(field) /\ h.retryAfter.form \notin {"nan", "infinity"}
  BY DEF BeyondGo
<1>7. Latest(h) = CASE field.form = "date" -> AtLeastZero(v) + Second - 1
                    [] field.form = "number" -> AtLeastZero(v)
                    [] OTHER -> Second
  BY DEF Latest
<1>8. Latest(h) \in Nat
  BY <1>5, <1>7
<1>9. SUFFICES /\ Wait(sdk, h) <= Latest(h)
               /\ IsGo(sdk) => Wait(sdk, h) \in -H .. H - 1
  <2>1. /\ Wait(sdk, h) >= 0 => delay = Wait(sdk, h)
        /\ Wait(sdk, h) <= 0 => delay <= 0
    BY <1>9, DelayOfWait
  <2> HIDE DEF delay
  <2>2. delay <= Latest(h)
    BY <1>3, <1>8, <1>9, <2>1
  <2> QED BY <1>8, <2>2 DEF delay
<1>10. CASE field.form = "date"
  <2> DEFINE n == AtLeastZero(SecondsTo(sdk, v))
  <2>1. field = h.retryAfter
    BY <1>2, <1>10 DEF Naming
  <2>2. IsGo(sdk) => Ceiling(AtLeastZero(v)) * Second < H
    BY <1>6, <1>10 DEF InDuration, Named
  <2>3. n <= AtLeastZero(v) + Second - 1 /\ (IsGo(sdk) => n < H)
    BY <1>1, <2>2, DateNoLater
  <2>4. n \in Nat
    BY <1>1, SecondsToIs, Truncates
  <2>5. RetryAfter(sdk, h.retryAfter) = <<n>>
    BY <1>1, <1>10, <2>1, RetryAfterOf
  <2>6. Wait(sdk, h) = n
    BY <2>5 DEF Wait
  <2> HIDE DEF n
  <2> QED BY <1>4, <1>7, <1>10, <2>3, <2>4, <2>6
<1>11. CASE field.form = "number"
  <2> DEFINE n == NumberRead(sdk, v)
  <2>1. IsGo(sdk) => v \in -H .. H - 1
    BY <1>6, <1>11 DEF InDuration
  <2>2. ToNumber(sdk, field) = <<n>>
    BY <1>1, <1>11, NumberOf
  <2>3. /\ n \in Int /\ n <= AtLeastZero(v)
        /\ IsGo(sdk) => n \in -H .. H - 1
    <3>1. CASE v < 0
      <4>1. n \in Int /\ n <= 0 /\ (IsGo(sdk) /\ v >= -H => n >= v)
        BY <1>1, <3>1, ReadBelowZero
      <4> HIDE DEF n
      <4> QED BY <1>1, <1>4, <1>5, <2>1, <4>1
    <3>2. CASE v >= 0
      <4>1. v \in Nat /\ AtLeastZero(v) = v
        BY <1>1, <3>2, Truncates
      <4>2. n \in 0 .. v
        BY <1>4, <2>1, <4>1, NumberInTime
      <4> HIDE DEF n
      <4> QED BY <1>4, <2>1, <4>1, <4>2
    <3> QED BY <1>1, <3>1, <3>2
  <2>4. Wait(sdk, h) \in {n, AtLeastZero(n)}
    <3>1. CASE h.retryAfter.form \in {"number", "date"}
      <4>1. field = h.retryAfter
        BY <3>1 DEF Naming
      <4>2. RetryAfter(sdk, h.retryAfter) = <<AtLeastZero(n)>>
        BY <1>1, <2>2, <4>1, RetryAfterOf
      <4> QED BY <4>2 DEF Wait
    <3>2. CASE h.retryAfter.form \notin {"number", "date"}
      <4>1. field = t
        BY <3>2 DEF Naming
      <4>2. ToNumber(sdk, h.retryAfter) = <<>>
        BY <1>1, <1>6, <3>2, NumberOf
      <4>3. RetryAfter(sdk, h.retryAfter) = <<>>
        BY <1>1, <3>2, <4>2, RetryAfterOf
      <4> QED BY <2>2, <4>1, <4>3 DEF Wait
    <3> QED BY <3>1, <3>2
  <2> HIDE DEF n
  <2>5. /\ AtLeastZero(n) \in Nat /\ AtLeastZero(n) <= AtLeastZero(v)
        /\ n >= 0 => AtLeastZero(n) = n
        /\ n <= 0 => AtLeastZero(n) = 0
    BY <1>5, <2>3, Truncates
  <2> QED BY <1>4, <1>7, <1>11, <2>3, <2>4, <2>5
<1>12. CASE field.form \notin {"date", "number"}
  <2>1. h.retryAfter.form \notin {"number", "date"} /\ field = t
    BY <1>12 DEF Naming
  <2>2. IsGo(sdk) => t.form \notin {"nan", "infinity"}
    BY <1>6, <1>12, <2>1 DEF InDuration
  <2>3. ToNumber(sdk, h.retryAfter) = <<>> /\ ToNumber(sdk, t) = <<>>
    BY <1>1, <1>6, <1>12, <2>1, <2>2, NumberOf
  <2>4. RetryAfter(sdk, h.retryAfter) = <<>>
    BY <1>1, <2>1, <2>3, RetryAfterOf
  <2>5. Wait(sdk, h) = Second
    BY <2>3, <2>4 DEF Wait
  <2> QED BY <1>4, <1>7, <1>12, <2>5
<1> QED BY <1>10, <1>11, <1>12

-----------------------------------------------------------------------------
(* What a reply makes of a call.                                           *)
LEMMA FinishedIs ==
  ASSUME NEW sdk, NEW r, NEW info
  PROVE  /\ Finished(sdk, r, info).kind \in {"ok", "error"}
         /\ Finished(sdk, r, info) # Pending
         /\ Succeeds(r.status) /\ Readable(sdk, r.body) => Finished(sdk, r, info).kind = "ok"
<1>1. ErrorFromResponse(sdk, r.status, r.body, info).kind = "error"
  BY DEF ErrorFromResponse, Outcome
<1>2. Finished(sdk, r, info).kind \in {"ok", "error"}
  BY <1>1 DEF Finished, Outcome
<1>3. Pending.kind = "pending"
  BY DEF Pending, Outcome
<1>4. Succeeds(r.status) /\ Readable(sdk, r.body) => Finished(sdk, r, info).kind = "ok"
  BY DEF Finished, Outcome
<1> QED BY <1>2, <1>3, <1>4

LEMMA EndedIs ==
  ASSUME NEW attempt, NEW outcome
  PROVE  LET ended == Ended(attempt, outcome) IN
         /\ ended.at = "over" /\ ended.attempt = attempt /\ ended.wait = 0
         /\ ended.outcome = outcome
BY DEF Ended

LEMMA SentIs ==
  ASSUME NEW attempt
  PROVE  LET sent == Sent(attempt) IN
         /\ sent.at = "sent" /\ sent.attempt = attempt /\ sent.wait = 0
         /\ sent.outcome = Pending
BY DEF Sent

LEMMA AfterIs ==
  ASSUME NEW sdk \in Sdks, NEW r, NEW info
  PROVE  LET delay == RetryDelay(sdk, info)
             attempt == call[sdk].attempt
             after == After(sdk, r, info)
         IN \/ /\ after = Ended(attempt, Raised)
               /\ \/ ParseRaises(sdk, r.headers)
                  \/ sdk = "python" /\ delay < 0 /\ r.status = 429
            \/ /\ after = Ended(attempt, Finished(sdk, r, info))
               /\ ~ (r.status = 429 /\ attempt < MaxRetries /\ delay <= MaxRetryDelay)
            \/ /\ after = [at |-> "sleeping", attempt |-> attempt,
                           wait |-> AtLeastZero(delay), outcome |-> Pending]
               /\ attempt < MaxRetries /\ delay <= MaxRetryDelay
               /\ ~ ParseRaises(sdk, r.headers)
<1> DEFINE delay == RetryDelay(sdk, info)
           attempt == call[sdk].attempt
           retries == r.status = 429 /\ attempt < MaxRetries /\ delay <= MaxRetryDelay
<1>1. After(sdk, r, info) =
        IF ParseRaises(sdk, r.headers) THEN Ended(attempt, Raised)
        ELSE IF ~ retries THEN Ended(attempt, Finished(sdk, r, info))
        ELSE IF sdk = "python" /\ delay < 0 THEN Ended(attempt, Raised)
        ELSE [at |-> "sleeping", attempt |-> attempt, wait |-> AtLeastZero(delay),
              outcome |-> Pending]
  BY DEF After
<1> HIDE DEF delay, attempt
<1> QED BY <1>1 DEF delay, attempt

(* Whatever the reply, a call that was sent is over or sleeps.             *)
LEMMA AfterAt ==
  ASSUME NEW sdk \in Sdks, NEW r, NEW info
  PROVE  /\ After(sdk, r, info).at \in {"sleeping", "over"}
         /\ After(sdk, r, info).attempt = call[sdk].attempt
<1>1. CASE \E outcome : After(sdk, r, info) = Ended(call[sdk].attempt, outcome)
  BY <1>1, EndedIs
<1>2. CASE \E wait : After(sdk, r, info) =
                       [at |-> "sleeping", attempt |-> call[sdk].attempt,
                        wait |-> wait, outcome |-> Pending]
  BY <1>2
<1> QED BY <1>1, <1>2, AfterIs

-----------------------------------------------------------------------------
(* The inductive invariant.  The three calls move together: none is still  *)
(* to be answered while another sleeps, so the reply in the state is the   *)
(* one that a sleeping call waits for.                                     *)
InPhase ==
  /\ \A a, b \in Sdks : ~ (call[a].at = "sent" /\ call[b].at = "sleeping")
  /\ \A sdk \in Sdks : call[sdk].at = "sleeping" => call[sdk].attempt < MaxRetries

IInv == TypeOK /\ NeverEarly /\ InPhase

Typed(c) ==
  /\ c.at \in {"sent", "sleeping", "over"}
  /\ c.attempt \in 0 .. MaxRetries
  /\ c.wait \in 0 .. MaxRetryDelay
  /\ c.at = "over" <=> c.outcome # Pending

InfoTyped(info) ==
  \A f \in DOMAIN NoInfo : info[f] = <<>> \/ info[f][1] \in Int

LEMMA TypeIs ==
  TypeOK <=> \A sdk \in Sdks : Typed(call[sdk]) /\ InfoTyped(rateLimit[sdk])
BY DEF TypeOK, Typed, InfoTyped

LEMMA SentTyped ==
  ASSUME NEW attempt \in 0 .. MaxRetries
  PROVE  Typed(Sent(attempt))
BY SentIs, ResponsesAssumption DEF Typed

LEMMA NoInfoTyped == InfoTyped(NoInfo)
BY DEF InfoTyped, NoInfo

LEMMA ParsedTyped ==
  ASSUME NEW sdk \in Sdks, NEW h \in HeaderSets
  PROVE  InfoTyped(ParseRateLimit(sdk, h))
<1> DEFINE info == ParseRateLimit(sdk, h)
<1>1. /\ info.limit \in Maybe /\ info.remaining \in Maybe /\ info.reset \in Maybe
      /\ info.window \in Maybe /\ info.retryAfter \in Maybe
  BY InfoIs
<1> HIDE DEF info
<1>2. DOMAIN NoInfo = {"limit", "remaining", "reset", "window", "retryAfter"}
  BY DEF NoInfo
<1>3. \A number \in Maybe : number = <<>> \/ number[1] \in Int
  BY MaybeIs
<1> QED BY <1>1, <1>2, <1>3 DEF InfoTyped, info

LEMMA AfterTyped ==
  ASSUME NEW sdk \in Sdks, NEW r, r.headers \in HeaderSets, Typed(call[sdk])
  PROVE  LET info == ParseRateLimit(sdk, r.headers)
             after == After(sdk, r, info)
         IN /\ Typed(after)
            /\ after.at = "sleeping" =>
                 /\ after.attempt < MaxRetries
                 /\ after.wait = AtLeastZero(RetryDelay(sdk, info))
<1> DEFINE info == ParseRateLimit(sdk, r.headers)
           after == After(sdk, r, info)
           delay == RetryDelay(sdk, info)
           attempt == call[sdk].attempt
<1>1. delay \in Int /\ AtLeastZero(delay) \in Nat /\ attempt \in 0 .. MaxRetries
  BY DelayIs, Truncates DEF Typed
<1>2. MaxRetryDelay \in Nat /\ MaxRetries \in Nat
  BY ResponsesAssumption
<1>3. Raised # Pending /\ Finished(sdk, r, info) # Pending
  BY FinishedIs DEF Raised, Pending, Outcome
<1>4. \A outcome : outcome # Pending =>
        Typed(Ended(attempt, outcome)) /\ Ended(attempt, outcome).at = "over"
  BY <1>1, <1>2, EndedIs DEF Typed
<1>5. CASE after = Ended(attempt, Raised) \/ after = Ended(attempt, Finished(sdk, r, info))
  BY <1>3, <1>4, <1>5
<1>6. CASE /\ after = [at |-> "sleeping", attempt |-> attempt,
                       wait |-> AtLeastZero(delay), outcome |-> Pending]
           /\ attempt < MaxRetries /\ delay <= MaxRetryDelay
  <2>1. AtLeastZero(delay) \in 0 .. MaxRetryDelay
    BY <1>1, <1>2, <1>6 DEF AtLeastZero
  <2>2. /\ after.at = "sleeping" /\ after.attempt = attempt
        /\ after.wait = AtLeastZero(delay) /\ after.outcome = Pending
    BY <1>6
  <2> HIDE DEF after, delay, attempt
  <2>3. Typed(after)
    BY <1>1, <2>1, <2>2 DEF Typed
  <2> QED BY <1>6, <2>2, <2>3 DEF after, delay, attempt
<1> QED BY <1>5, <1>6, AfterIs

LEMMA InitEstablishes == Init => IInv
<1> SUFFICES ASSUME Init PROVE IInv
  OBVIOUS
<1>1. \A sdk \in Sdks : call[sdk] = Sent(0) /\ rateLimit[sdk] = NoInfo
  BY DEF Init
<1>2. \A sdk \in Sdks : Typed(call[sdk]) /\ InfoTyped(rateLimit[sdk])
  BY <1>1, SentTyped, NoInfoTyped, ResponsesAssumption
<1>3. \A sdk \in Sdks : call[sdk].at = "sent"
  BY <1>1, SentIs
<1>4. TypeOK
  BY <1>2, TypeIs
<1> QED BY <1>3, <1>4 DEF IInv, NeverEarly, InPhase

(* All calls that were sent get the reply.                                 *)
LEMMA ReceiveKeeps ==
  ASSUME IInv, NEW r \in Replies, Receive(r)
  PROVE  IInv'
<1>1. r.headers \in HeaderSets
  BY ResponsesAssumption
<1>2. \A sdk \in Sdks : Typed(call[sdk]) /\ InfoTyped(rateLimit[sdk])
  BY TypeIs DEF IInv
<1>3. \A sdk \in Sdks : call[sdk].at # "sleeping"
  BY DEF IInv, InPhase, Receive
<1> DEFINE info(sdk) == ParseRateLimit(sdk, r.headers)
<1>4. ASSUME NEW sdk \in Sdks
      PROVE  /\ rateLimit'[sdk] = Known(sdk, r, info(sdk))
             /\ call'[sdk] = IF call[sdk].at = "sent" THEN After(sdk, r, info(sdk))
                                                      ELSE call[sdk]
  BY DEF Receive
<1>5. reply' = <<r>>
  BY DEF Receive
<1>6. ASSUME NEW sdk \in Sdks
      PROVE  Typed(call'[sdk]) /\ InfoTyped(rateLimit'[sdk])
  <2>1. Typed(call'[sdk])
    BY <1>1, <1>2, <1>4, AfterTyped
  <2>2. InfoTyped(rateLimit'[sdk])
    BY <1>1, <1>2, <1>4, ParsedTyped DEF Known
  <2> QED BY <2>1, <2>2
<1>7. TypeOK'
  BY <1>6 DEF TypeOK, Typed, InfoTyped
<1>8. ASSUME NEW sdk \in Sdks, call'[sdk].at = "sleeping"
      PROVE  /\ call'[sdk].attempt < MaxRetries
             /\ call'[sdk].wait = AtLeastZero(RetryDelay(sdk, info(sdk)))
  <2>1. call'[sdk] = After(sdk, r, info(sdk))
    BY <1>3, <1>4, <1>8
  <2> QED BY <1>1, <1>2, <1>8, <2>1, AfterTyped
<1>9. \A sdk \in Sdks : call'[sdk].at # "sent"
  BY <1>2, <1>4, AfterAt
<1>10. InPhase'
  BY <1>8, <1>9 DEF InPhase
<1>11. NeverEarly'
  <2>1. ASSUME NEW sdk \in Sdks, call'[sdk].at = "sleeping"
        PROVE  \/ Named(Naming(r.headers)) - call'[sdk].wait <= Early(sdk, Naming(r.headers))
               \/ IsGo(sdk) /\ BeyondGo(r.headers)
    BY <1>1, <1>8, <2>1, WaitIsLong
  <2>2. reply'[1] = r
    BY <1>5
  <2> QED BY <2>1, <2>2 DEF NeverEarly
<1> QED BY <1>7, <1>10, <1>11 DEF IInv

LEMMA RetryKeeps ==
  ASSUME IInv, Retry
  PROVE  IInv'
<1>1. \A sdk \in Sdks : Typed(call[sdk]) /\ InfoTyped(rateLimit[sdk])
  BY TypeIs DEF IInv
<1>2. ASSUME NEW sdk \in Sdks
      PROVE  /\ rateLimit'[sdk] = rateLimit[sdk]
             /\ call'[sdk] = IF call[sdk].at = "sleeping" THEN Sent(call[sdk].attempt + 1)
                                                          ELSE call[sdk]
  BY DEF Retry
<1>3. ASSUME NEW sdk \in Sdks
      PROVE  Typed(call'[sdk]) /\ call'[sdk].at # "sleeping"
  <2>1. CASE call[sdk].at = "sleeping"
    <3>1. call[sdk].attempt < MaxRetries /\ call[sdk].attempt \in 0 .. MaxRetries
      BY <1>1, <2>1 DEF IInv, InPhase, Typed
    <3>2. call[sdk].attempt + 1 \in 0 .. MaxRetries
      BY <3>1, ResponsesAssumption
    <3> QED BY <1>2, <2>1, <3>2, SentTyped, SentIs
  <2>2. CASE call[sdk].at # "sleeping"
    BY <1>1, <1>2, <2>2
  <2> QED BY <2>1, <2>2
<1>4. TypeOK'
  BY <1>1, <1>2, <1>3 DEF TypeOK, Typed, InfoTyped
<1> QED BY <1>3, <1>4 DEF IInv, NeverEarly, InPhase

LEMMA NextCallKeeps ==
  ASSUME IInv, NextCall
  PROVE  IInv'
<1>1. \A sdk \in Sdks : Typed(call[sdk]) /\ InfoTyped(rateLimit[sdk])
  BY TypeIs DEF IInv
<1>2. \A sdk \in Sdks : rateLimit'[sdk] = rateLimit[sdk] /\ call'[sdk] = Sent(0)
  BY DEF NextCall
<1>3. \A sdk \in Sdks : Typed(call'[sdk]) /\ call'[sdk].at # "sleeping"
  BY <1>2, SentTyped, SentIs, ResponsesAssumption
<1>4. TypeOK'
  BY <1>1, <1>2, <1>3 DEF TypeOK, Typed, InfoTyped
<1> QED BY <1>3, <1>4 DEF IInv, NeverEarly, InPhase

LEMMA Inductive == Spec => []IInv
<1>1. Init => IInv
  BY InitEstablishes
<1>2. IInv /\ [Next]_vars => IInv'
  <2> SUFFICES ASSUME IInv, [Next]_vars PROVE IInv'
    OBVIOUS
  <2>1. CASE \E r \in Replies : Receive(r)
    BY <2>1, ReceiveKeeps
  <2>2. CASE Retry
    BY <2>2, RetryKeeps
  <2>3. CASE NextCall
    BY <2>3, NextCallKeeps
  <2>4. CASE UNCHANGED vars
    BY <2>4 DEF vars, IInv, TypeOK, NeverEarly, InPhase
  <2> QED BY <2>1, <2>2, <2>3, <2>4 DEF Next
<1> QED BY <1>1, <1>2, PTL DEF Spec

(* The variables keep their types: no call is tried more than MaxRetries   *)
(* times again, and no wait is longer than MaxRetryDelay.                  *)
THEOREM TypeCorrect == Spec => []TypeOK
<1>1. IInv => TypeOK
  BY DEF IInv
<1> QED BY <1>1, Inductive, PTL

(* No SDK comes back before the time that a 429 named, but for the         *)
(* fractions of a second it drops and, in Go, what a Duration cannot hold: *)
(* for every header, whatever its numbers and dates.                       *)
THEOREM CallsWaitOut == Spec => []NeverEarly
<1>1. IInv => NeverEarly
  BY DEF IInv
<1> QED BY <1>1, Inductive, PTL

(* A call that was sent and waits does so no longer than the headers of    *)
(* its own 429 name, and gives up while it has attempts left only where    *)
(* that is more than the longest wait.                                     *)
LEMMA AfterInTime ==
  ASSUME NEW sdk \in Sdks, NEW r, r.headers \in HeaderSets,
         IsGo(sdk) => ~ BeyondGo(r.headers)
  PROVE  InTime(r, After(sdk, r, ParseRateLimit(sdk, r.headers)))
<1> DEFINE info == ParseRateLimit(sdk, r.headers)
           after == After(sdk, r, info)
           delay == RetryDelay(sdk, info)
           latest == Latest(r.headers)
           attempt == call[sdk].attempt
<1>1. delay \in Int /\ latest \in Nat /\ delay <= latest /\ MaxRetryDelay \in Nat
  BY DelayIs, WaitIsShort, ResponsesAssumption
<1>2. /\ AtLeastZero(delay) \in Nat
      /\ delay >= 0 => AtLeastZero(delay) = delay
      /\ delay <= 0 => AtLeastZero(delay) = 0
  BY <1>1, Truncates
<1>3. CASE after = Ended(attempt, Raised)
  <2>1. after.at = "over" /\ after.outcome = Raised
    BY <1>3, EndedIs
  <2>2. Raised.kind = "raised"
    BY DEF Raised, Outcome
  <2> QED BY <2>1, <2>2 DEF InTime
<1>4. CASE /\ after = Ended(attempt, Finished(sdk, r, info))
           /\ ~ (r.status = 429 /\ attempt < MaxRetries /\ delay <= MaxRetryDelay)
  <2>1. after.at = "over" /\ after.attempt = attempt
    BY <1>4, EndedIs
  <2>2. r.status = 429 /\ attempt < MaxRetries => latest > MaxRetryDelay
    <3> HIDE DEF delay, latest, attempt, after, info
    <3> QED BY <1>1, <1>4
  <2> QED BY <2>1, <2>2 DEF InTime
<1>5. CASE after = [at |-> "sleeping", attempt |-> attempt,
                    wait |-> AtLeastZero(delay), outcome |-> Pending]
  <2>1. after.at = "sleeping" /\ after.wait = AtLeastZero(delay)
    BY <1>5
  <2>2. AtLeastZero(delay) <= latest
    <3> HIDE DEF delay, latest
    <3> QED BY <1>1, <1>2
  <2> QED BY <2>1, <2>2 DEF InTime
<1> QED BY <1>3, <1>4, <1>5, AfterIs

(* Each wait follows from the 429 that it comes after, whatever was known  *)
(* of the rate limit before: no SDK waits longer than that names, in whole *)
(* seconds, or gives up with attempts left for less than the longest wait. *)
THEOREM CallsWaitNoLonger == Spec => NeverLater
<1> DEFINE Kept == \A sdk \in Sdks :
                     call[sdk].at = "sent" /\ call'[sdk].at # "sent" =>
                       \/ InTime(reply'[1], call'[sdk])
                       \/ IsGo(sdk) /\ BeyondGo(reply'[1].headers)
<1>1. [Next]_vars => [Kept]_vars
  <2> SUFFICES ASSUME Next, NEW sdk \in Sdks,
                      call[sdk].at = "sent", call'[sdk].at # "sent"
               PROVE  \/ InTime(reply'[1], call'[sdk])
                      \/ IsGo(sdk) /\ BeyondGo(reply'[1].headers)
    OBVIOUS
  <2>1. ASSUME NEW r \in Replies, Receive(r)
        PROVE  \/ InTime(reply'[1], call'[sdk])
               \/ IsGo(sdk) /\ BeyondGo(reply'[1].headers)
    <3>1. /\ reply'[1] = r
          /\ call'[sdk] = After(sdk, r, ParseRateLimit(sdk, r.headers))
      BY <2>1 DEF Receive
    <3>2. r.headers \in HeaderSets
      BY ResponsesAssumption
    <3> QED BY <3>1, <3>2, AfterInTime
  <2>2. CASE Retry
    BY <2>2 DEF Retry
  <2>3. CASE NextCall
    BY <2>3, SentIs DEF NextCall
  <2> QED BY <2>1, <2>2, <2>3 DEF Next
<1> QED BY <1>1, PTL DEF Spec, NeverLater

-----------------------------------------------------------------------------
(* What makes the Python client raise what is no error of its own.         *)
LEMMA RaisesOfInfinity ==
  ASSUME NEW sdk \in Sdks, NEW h \in HeaderSets, ParseRaises(sdk, h)
  PROVE  sdk = "python" /\ InfiniteIn(h)
<1>1. sdk = "python"
  BY DEF ParseRaises
<1>2. PICK field : /\ Overflows(field)
                   /\ \/ field \in {h.limit, h.remaining, h.retryAfter}
                      \/ \E key : field = Parameter(h.policy, key)
                      \/ \E key : field = Parameter(h.state, key)
  BY DEF ParseRaises
<1>3. field # Nothing
  BY <1>2 DEF Overflows, Nothing, Field
<1>4. h.policy \in Items /\ h.state \in Items
  BY HeaderTypes
<1>5. \/ field \in {h.limit, h.remaining, h.retryAfter}
      \/ \E i \in DOMAIN h.policy : field = h.policy[i].value
      \/ \E i \in DOMAIN h.state : field = h.state[i].value
  BY <1>2, <1>3, <1>4, ParameterIsOfItem
<1> QED BY <1>1, <1>2, <1>5 DEF InfiniteIn

LEMMA NegativeNumber ==
  ASSUME NEW n \in Int, NumberRead("python", n) < 0
  PROVE  n < 0
<1>1. NumberRead("python", n) = Truncated(n) * Second
  BY DEF NumberRead
<1>2. n >= 0 => Truncated(n) >= 0 /\ Truncated(n) \in Int
  BY WholeSeconds
<1> QED BY <1>1, <1>2

LEMMA BelowZeroOfReset ==
  ASSUME NEW h \in HeaderSets, RetryDelay("python", ParseRateLimit("python", h)) < 0
  PROVE  Below(Parameter(h.state, "t"))
<1> DEFINE t == Parameter(h.state, "t")
           v == t.value
<1>1. "python" \in Sdks /\ t \in Fields /\ h.retryAfter \in Fields /\ v \in Int
  BY HeaderTypes, FieldIs DEF Sdks
<1>2. Wait("python", h) \in Int /\ Wait("python", h) < 0
  BY <1>1, DelayIs
<1>3. RetryAfter("python", h.retryAfter) = <<>>
  <2>1. RetryAfter("python", h.retryAfter) # <<>> => Wait("python", h) \in Nat
    BY <1>1, RetryAfterOf DEF Wait
  <2> QED BY <1>2, <2>1
<1>4. ToNumber("python", t) # <<>> /\ ToNumber("python", t)[1] < 0
  BY <1>2, <1>3 DEF Wait
<1>5. t.form = "number"
  BY <1>1, <1>4, NumberOf DEF IsGo
<1>6. ToNumber("python", t) = <<NumberRead("python", v)>>
  BY <1>1, <1>5, NumberOf
<1>7. v < 0
  BY <1>1, <1>4, <1>6, NegativeNumber
<1> QED BY <1>5, <1>7 DEF Below

LEMMA AfterSurvives ==
  ASSUME NEW sdk \in Sdks, NEW r, r.headers \in HeaderSets,
         After(sdk, r, ParseRateLimit(sdk, r.headers)).at = "over"
  PROVE  Survives(sdk, r, After(sdk, r, ParseRateLimit(sdk, r.headers)).outcome)
<1> DEFINE info == ParseRateLimit(sdk, r.headers)
           after == After(sdk, r, info)
           attempt == call[sdk].attempt
<1>1. CASE /\ after = Ended(attempt, Raised)
           /\ \/ ParseRaises(sdk, r.headers)
              \/ sdk = "python" /\ RetryDelay(sdk, info) < 0 /\ r.status = 429
  <2>1. after.outcome.kind = "raised"
    <3>1. after.outcome = Raised
      BY <1>1, EndedIs
    <3>2. Raised.kind = "raised"
      BY DEF Raised, Outcome
    <3> QED BY <3>1, <3>2
  <2>2. sdk = "python" /\ PythonFails(r)
    BY <1>1, RaisesOfInfinity, BelowZeroOfReset DEF PythonFails
  <2> QED BY <2>1, <2>2 DEF Survives
<1>2. CASE after = Ended(attempt, Finished(sdk, r, info))
  <2>1. after.outcome = Finished(sdk, r, info)
    BY <1>2, EndedIs
  <2>2. r.body.form = "data" => Readable(sdk, r.body)
    BY DEF Readable
  <2> QED BY <2>1, <2>2, FinishedIs DEF Survives
<1>3. CASE after = [at |-> "sleeping", attempt |-> attempt,
                    wait |-> AtLeastZero(RetryDelay(sdk, info)), outcome |-> Pending]
  BY <1>3
<1> QED BY <1>1, <1>2, <1>3, AfterIs

(* The result of a booking never falls victim to a rate-limit header, but  *)
(* for the two that Python raises on: for every header and every body.     *)
THEOREM ResultsSurvive == Spec => ResultSurvivesHeaders
<1> DEFINE Kept == \A sdk \in Sdks : call[sdk].at # "over" /\ call'[sdk].at = "over"
                      => Survives(sdk, reply'[1], call'[sdk].outcome)
<1>1. Next => Kept
  <2> SUFFICES ASSUME Next, NEW sdk \in Sdks,
                      call[sdk].at # "over", call'[sdk].at = "over"
               PROVE  Survives(sdk, reply'[1], call'[sdk].outcome)
    OBVIOUS
  <2>1. CASE \E r \in Replies : Receive(r)
    <3>1. PICK r \in Replies : Receive(r)
      BY <2>1
    <3>2. r.headers \in HeaderSets
      BY ResponsesAssumption
    <3>3. /\ reply'[1] = r
          /\ call'[sdk] = IF call[sdk].at = "sent"
                            THEN After(sdk, r, ParseRateLimit(sdk, r.headers))
                            ELSE call[sdk]
      BY <3>1 DEF Receive
    <3>4. call'[sdk] = After(sdk, r, ParseRateLimit(sdk, r.headers))
      BY <3>3
    <3> QED BY <3>2, <3>3, <3>4, AfterSurvives
  <2>2. CASE Retry
    BY <2>2, SentIs DEF Retry
  <2>3. CASE NextCall
    BY <2>3, SentIs DEF NextCall
  <2> QED BY <2>1, <2>2, <2>3 DEF Next
<1>2. [Next]_vars => [Kept]_vars
  BY <1>1
<1> QED BY <1>2, PTL DEF Spec, ResultSurvivesHeaders

-----------------------------------------------------------------------------
(* Plain headers mean the same to all.                                     *)
Whole(n) == n \in 0 .. Word \div 2 - 1 /\ n % Second = 0
PlainMoment(n) == /\ n % Second \notin 1 .. Millisecond - 1
             /\ Ceiling(n) * Second < Word \div 2

LEMMA PlainRead ==
  ASSUME NEW sdk \in Sdks, NEW n \in Nat, Whole(n)
  PROVE  NumberRead(sdk, n) = n
<1>1. Word \div 2 \in Nat /\ MaxInt = Word \div 2 - 1
  BY WordIsEven
<1>2. Truncated(n) \in Int /\ Truncated(n) >= 0 /\ Truncated(n) <= n
  BY WholeNat
<1>3. Truncated(n) * Second = n /\ Truncated(n) \in Int
  BY <1>2 DEF Truncated, Whole
<1>4. Truncated(n) \in MinInt .. MaxInt
  BY <1>1, <1>2, WordIsEven DEF Whole
<1>5. IntOfFloat(sdk, Truncated(n)) = Truncated(n)
  BY <1>3, <1>4, GoInts
<1> QED BY <1>3, <1>5 DEF NumberRead

LEMMA PlainParameter ==
  ASSUME NEW item \in Items, PlainItem(item), NEW key
  PROVE  PlainField(Parameter(item, key))
<1>1. PlainField(Nothing)
  BY DEF PlainField, Nothing, Field
<1> QED BY <1>1, ParameterIsOfItem DEF PlainItem

LEMMA PlainNumberOf ==
  ASSUME NEW sdk \in Sdks, NEW field \in Fields, PlainField(field)
  PROVE  /\ ToNumber(sdk, field) = IF field.form = "number" THEN <<field.value>> ELSE <<>>
         /\ field.form = "number" => field.value \in 0 .. Word \div 2 - 1
         /\ ~ Overflows(field)
<1>1. CASE field.form = "number"
  <2>1. Whole(field.value)
    BY <1>1 DEF PlainField, PlainNumber, Whole
  <2>2. field.value \in 0 .. Word \div 2 - 1 /\ field.value \in Nat
    BY <2>1, WordIsEven DEF Whole
  <2>3. NumberRead(sdk, field.value) = field.value
    BY <2>1, <2>2, PlainRead
  <2> QED BY <1>1, <2>2, <2>3, NumberOf DEF Overflows
<1>2. CASE field.form # "number"
  <2>1. field.form \in {"absent", "blank", "words"}
    BY <1>2 DEF PlainField
  <2> QED BY <1>2, <2>1, NumberOf DEF Overflows
<1> QED BY <1>1, <1>2

LEMMA PlainDate ==
  ASSUME NEW sdk \in Sdks, NEW n \in Int, PlainMoment(n)
  PROVE  AtLeastZero(SecondsTo(sdk, n)) = AtLeastZero(Ceiling(n) * Second)
<1>1. Ceiling(n) \in Int
  BY NextSecond
<1>2. CASE sdk = "python"
  <2>1. SecondsTo(sdk, n) = Second * Truncated(n + Second - Millisecond)
    BY <1>2 DEF SecondsTo
  <2>2. CASE n >= 0
    <3>1. Truncated(n + Second - Millisecond) = Ceiling(n)
      BY <2>2 DEF Truncated, Ceiling, PlainMoment
    <3> QED BY <1>1, <2>1, <3>1
  <2>3. CASE n < 0
    <3>1. /\ Truncated(n + Second - Millisecond) \in Int
          /\ Truncated(n + Second - Millisecond) <= 0
      BY <2>3 DEF Truncated
    <3>2. Ceiling(n) <= 0
      BY <2>3, NextSecond
    <3>3. /\ Second * Truncated(n + Second - Millisecond) \in Int
          /\ Second * Truncated(n + Second - Millisecond) <= 0
          /\ Ceiling(n) * Second \in Int /\ Ceiling(n) * Second <= 0
      BY <1>1, <3>1, <3>2
    <3> QED BY <2>1, <3>3, Truncates
  <2> QED BY <2>2, <2>3
<1>3. CASE sdk # "python"
  <2>1. SecondsTo(sdk, n) = Second * Ceiling(Until(sdk, n))
    BY <1>3 DEF SecondsTo
  <2>2. CASE n >= 0
    <3>1. n \in 0 .. MaxInt
      <4>1. Ceiling(n) * Second >= n
        BY NextSecond
      <4>2. Ceiling(n) * Second < Word \div 2
        BY DEF PlainMoment
      <4> QED BY <1>1, <2>2, <4>1, <4>2, WordIsEven
    <3>2. Until(sdk, n) = n
      BY <3>1, UntilIs
    <3> QED BY <1>1, <2>1, <3>2
  <2>3. CASE n < 0
    <3>1. Until(sdk, n) \in Int /\ Until(sdk, n) <= 0
      BY <2>3, UntilIs
    <3>2. /\ Ceiling(Until(sdk, n)) \in Int /\ Ceiling(Until(sdk, n)) <= 0
          /\ Ceiling(n) <= 0
      BY <2>3, <3>1, NextSecond
    <3>3. /\ Second * Ceiling(Until(sdk, n)) \in Int
          /\ Second * Ceiling(Until(sdk, n)) <= 0
          /\ Ceiling(n) * Second \in Int /\ Ceiling(n) * Second <= 0
      BY <1>1, <3>2
    <3> QED BY <2>1, <3>3, Truncates
  <2> QED BY <2>2, <2>3
<1> QED BY <1>2, <1>3

LEMMA PlainMomentFits ==
  ASSUME NEW n \in Int, PlainMoment(n)
  PROVE  AtLeastZero(Ceiling(n) * Second) \in 0 .. Word \div 2 - 1
<1>1. Ceiling(n) * Second \in Int
  BY NextSecond
<1>2. Ceiling(n) * Second < Word \div 2 /\ Word \div 2 \in Nat /\ Word \div 2 > 0
  BY WordIsEven DEF PlainMoment
<1> QED BY <1>1, <1>2 DEF AtLeastZero

LEMMA PlainRetryAfterOf ==
  ASSUME NEW sdk \in Sdks, NEW field \in Fields, PlainRetryAfter(field)
  PROVE  /\ RetryAfter(sdk, field) = RetryAfter("ts", field)
         /\ RetryAfter(sdk, field) # <<>> => RetryAfter(sdk, field)[1] \in 0 .. Word \div 2 - 1
         /\ ~ Overflows(field)
<1>1. "ts" \in Sdks /\ field.value \in Int /\ Word \div 2 \in Nat /\ Word \div 2 > 0
  <2>1. "ts" \in Sdks
    BY DEF Sdks
  <2>2. Word \div 2 \in Nat /\ Word \div 2 > 0
    BY WordIsEven
  <2> QED BY <2>1, <2>2, FieldIs
<1>2. CASE field.form = "date"
  <2> DEFINE n == AtLeastZero(Ceiling(field.value) * Second)
  <2>1. PlainMoment(field.value)
    BY <1>2 DEF PlainRetryAfter, PlainMoment
  <2>2. \A s \in Sdks : AtLeastZero(SecondsTo(s, field.value)) = n
    BY <1>1, <2>1, PlainDate
  <2>3. \A s \in Sdks : RetryAfter(s, field) = <<n>>
    BY <1>2, <2>2, RetryAfterOf
  <2>4. n \in 0 .. Word \div 2 - 1
    BY <1>1, <2>1, PlainMomentFits
  <2> HIDE DEF n
  <2> QED BY <1>1, <1>2, <2>3, <2>4 DEF Overflows
<1>3. CASE field.form = "number"
  <2>1. PlainField(field)
    BY <1>3 DEF PlainRetryAfter
  <2>2. /\ \A s \in Sdks : ToNumber(s, field) = <<field.value>>
        /\ field.value \in 0 .. Word \div 2 - 1
        /\ ~ Overflows(field)
    BY <1>3, <2>1, PlainNumberOf
  <2>3. \A s \in Sdks : RetryAfter(s, field) = <<AtLeastZero(field.value)>>
    BY <2>2, RetryAfterOf
  <2>4. AtLeastZero(field.value) = field.value
    BY <1>1, <2>2 DEF AtLeastZero
  <2> QED BY <1>1, <2>2, <2>3, <2>4
<1>4. CASE field.form \notin {"number", "date"}
  <2>1. PlainField(field)
    BY <1>4 DEF PlainRetryAfter
  <2>2. /\ \A s \in Sdks : ToNumber(s, field) = <<>>
        /\ ~ Overflows(field)
    BY <1>4, <2>1, PlainNumberOf
  <2>3. \A s \in Sdks : RetryAfter(s, field) = <<>>
    BY <1>4, <2>2, RetryAfterOf
  <2> QED BY <1>1, <2>2, <2>3
<1> QED BY <1>2, <1>3, <1>4

LEMMA PlainHeadersMean ==
  ASSUME NEW sdk \in Sdks, NEW h \in HeaderSets, PlainHeaders(h)
  PROVE  /\ ParseRateLimit(sdk, h) = ParseRateLimit("ts", h)
         /\ ~ ParseRaises(sdk, h)
         /\ RetryDelay(sdk, ParseRateLimit(sdk, h)) = Wait("ts", h)
         /\ Wait("ts", h) \in Nat
<1>1. /\ "ts" \in Sdks
      /\ h.policy \in Items /\ h.state \in Items
      /\ h.limit \in Fields /\ h.remaining \in Fields /\ h.retryAfter \in Fields
      /\ \A key : Parameter(h.policy, key) \in Fields /\ Parameter(h.state, key) \in Fields
  BY HeaderTypes DEF Sdks
<1>2. /\ PlainItem(h.policy) /\ PlainItem(h.state) /\ PlainField(h.limit)
      /\ PlainField(h.remaining) /\ PlainRetryAfter(h.retryAfter)
  BY DEF PlainHeaders
<1>3. \A key : PlainField(Parameter(h.policy, key)) /\ PlainField(Parameter(h.state, key))
  BY <1>1, <1>2, PlainParameter
<1>4. ASSUME NEW field \in Fields, PlainField(field)
      PROVE  ToNumber(sdk, field) = ToNumber("ts", field) /\ ~ Overflows(field)
  BY <1>1, <1>4, PlainNumberOf
<1>5. /\ \A key : ToNumber(sdk, Parameter(h.policy, key)) = ToNumber("ts", Parameter(h.policy, key))
      /\ \A key : ToNumber(sdk, Parameter(h.state, key)) = ToNumber("ts", Parameter(h.state, key))
      /\ ToNumber(sdk, h.limit) = ToNumber("ts", h.limit)
      /\ ToNumber(sdk, h.remaining) = ToNumber("ts", h.remaining)
      /\ RetryAfter(sdk, h.retryAfter) = RetryAfter("ts", h.retryAfter)
  BY <1>1, <1>2, <1>3, <1>4, PlainRetryAfterOf
<1>6. ParseRateLimit(sdk, h) = ParseRateLimit("ts", h)
  BY <1>5 DEF ParseRateLimit
<1>7. ~ ParseRaises(sdk, h)
  <2>1. /\ \A key : ~ Overflows(Parameter(h.policy, key)) /\ ~ Overflows(Parameter(h.state, key))
        /\ ~ Overflows(h.limit) /\ ~ Overflows(h.remaining) /\ ~ Overflows(h.retryAfter)
    BY <1>1, <1>2, <1>3, <1>4, PlainRetryAfterOf
  <2> QED BY <2>1 DEF ParseRaises
<1>8. Wait("ts", h) \in Nat /\ Wait("ts", h) < Word \div 2
  <2> DEFINE after == RetryAfter("ts", h.retryAfter)
             t == Parameter(h.state, "t")
             reset == ToNumber("ts", t)
  <2>1. Word \div 2 \in Nat /\ Second < Word \div 2 /\ Second \in Nat
    BY WordIsEven
  <2>2. after # <<>> => after[1] \in 0 .. Word \div 2 - 1
    BY <1>1, <1>2, PlainRetryAfterOf
  <2>3. reset # <<>> => reset[1] \in 0 .. Word \div 2 - 1
    <3>1. t \in Fields /\ PlainField(t)
      BY <1>1, <1>3
    <3>2. /\ reset = IF t.form = "number" THEN <<t.value>> ELSE <<>>
          /\ t.form = "number" => t.value \in 0 .. Word \div 2 - 1
      BY <1>1, <3>1, PlainNumberOf
    <3> QED BY <3>2
  <2>4. Wait("ts", h) = IF after # <<>> THEN after[1]
                        ELSE IF reset # <<>> THEN reset[1] ELSE Second
    BY DEF Wait
  <2> HIDE DEF after, reset
  <2> QED BY <2>1, <2>2, <2>3, <2>4
<1>9. Wait(sdk, h) = Wait("ts", h)
  BY <1>5 DEF Wait
<1>10. RetryDelay(sdk, ParseRateLimit(sdk, h)) = Wait("ts", h)
  <2>1. Word \div 2 \in Nat
    BY WordIsEven
  <2>2. Wait(sdk, h) \in - (Word \div 2) .. Word \div 2 - 1 /\ Wait(sdk, h) >= 0
    BY <1>8, <1>9, <2>1
  <2> QED BY <1>9, <2>2, DelayOfWait
<1> QED BY <1>6, <1>7, <1>8, <1>10

(* So do the bodies that AOA documents.                                    *)
LEMMA PlainBodiesMean ==
  ASSUME NEW sdk \in Sdks, NEW r, PlainBody(r.status, r.body), NEW info
  PROVE  Finished(sdk, r, info) = Finished("ts", r, info)
<1>1. CASE Succeeds(r.status)
  <2>1. r.body.form \in {"data", "error", "text", "string"}
    BY <1>1 DEF PlainBody
  <2>2. Readable(sdk, r.body) <=> Readable("ts", r.body)
    BY <2>1 DEF Readable
  <2> QED BY <1>1, <2>2 DEF Finished
<1>2. CASE ~ Succeeds(r.status) /\ r.body.form # "error"
  <2>1. ~ HasEnvelope(sdk, r.body) /\ ~ HasEnvelope("ts", r.body)
    BY <1>2 DEF HasEnvelope
  <2> QED BY <1>2, <2>1 DEF Finished, ErrorFromResponse
<1>3. CASE /\ ~ Succeeds(r.status) /\ r.body.form = "error"
           /\ r.body.code \in NotAString
  <2>1. ~ HasEnvelope(sdk, r.body) /\ ~ HasEnvelope("ts", r.body)
    BY <1>3 DEF HasEnvelope, NotAString, IsGo
  <2> QED BY <1>3, <2>1 DEF Finished, ErrorFromResponse
<1>4. CASE /\ ~ Succeeds(r.status) /\ r.body.form = "error"
           /\ r.body.code \notin NotAString
  <2>1. r.body.code # "" /\ r.body.message \notin NotAString /\ r.body.hint # "number"
    BY <1>4 DEF PlainBody, PlainError
  <2>2. HasEnvelope(sdk, r.body) /\ HasEnvelope("ts", r.body)
    BY <1>4, <2>1 DEF HasEnvelope, NotAString, IsGo
  <2>3. ASSUME NEW s, HasEnvelope(s, r.body)
        PROVE  ErrorFromResponse(s, r.status, r.body, info) =
                 Outcome("error", r.body.code, r.body.message, OrElse(r.body.hint, ""), info)
    <3>1. OrElse(r.body.message, IF IsGo(s) THEN "" ELSE "reason") = r.body.message
      BY <2>1 DEF OrElse
    <3> QED BY <2>3, <3>1 DEF ErrorFromResponse
  <2> QED BY <1>4, <2>2, <2>3 DEF Finished
<1> QED BY <1>1, <1>2, <1>3, <1>4

LEMMA PlainAfter ==
  ASSUME NEW a \in Sdks, NEW b \in Sdks, call[a] = call[b],
         NEW r, r.headers \in HeaderSets, Plain(r)
  PROVE  /\ ParseRateLimit(a, r.headers) = ParseRateLimit(b, r.headers)
         /\ ~ ParseRaises(a, r.headers) /\ ~ ParseRaises(b, r.headers)
         /\ After(a, r, ParseRateLimit(a, r.headers)) = After(b, r, ParseRateLimit(b, r.headers))
<1> DEFINE info == ParseRateLimit("ts", r.headers)
           wait == Wait("ts", r.headers)
           attempt == call[a].attempt
           retries == r.status = 429 /\ attempt < MaxRetries /\ wait <= MaxRetryDelay
<1>1. PlainHeaders(r.headers) /\ PlainBody(r.status, r.body)
  BY DEF Plain
<1>2. ASSUME NEW sdk \in Sdks
      PROVE  /\ ParseRateLimit(sdk, r.headers) = info
             /\ ~ ParseRaises(sdk, r.headers)
             /\ RetryDelay(sdk, info) = wait /\ wait \in Nat
             /\ Finished(sdk, r, info) = Finished("ts", r, info)
  BY <1>1, PlainHeadersMean, PlainBodiesMean
<1>3. ASSUME NEW sdk \in Sdks, call[sdk] = call[a]
      PROVE  After(sdk, r, info) =
               IF retries
                 THEN [at |-> "sleeping", attempt |-> attempt,
                       wait |-> AtLeastZero(wait), outcome |-> Pending]
                 ELSE Ended(attempt, Finished("ts", r, info))
  <2>1. ~ (sdk = "python" /\ RetryDelay(sdk, info) < 0)
    BY <1>2
  <2> QED BY <1>2, <1>3, <2>1 DEF After
<1> QED BY <1>2, <1>3

(* One contract, three implementations: clients in the same state are in   *)
(* the same state after every plain reply.                                 *)
THEOREM SdksMoveTogether == Spec => SdksAgree
<1> DEFINE Agree == InStep /\ (reply' # <<>> => Plain(reply'[1])) => InStep'
<1>1. Next => Agree
  <2> SUFFICES ASSUME Next, InStep, reply' # <<>> => Plain(reply'[1]),
                      NEW a \in Sdks, NEW b \in Sdks
               PROVE  call'[a] = call'[b] /\ rateLimit'[a] = rateLimit'[b]
    BY DEF InStep
  <2>1. call[a] = call[b] /\ rateLimit[a] = rateLimit[b]
    BY DEF InStep
  <2>2. CASE \E r \in Replies : Receive(r)
    <3>1. PICK r \in Replies : Receive(r)
      BY <2>2
    <3>2. r.headers \in HeaderSets
      BY ResponsesAssumption
    <3>3. reply' = <<r>>
      BY <3>1 DEF Receive
    <3>4. Plain(r)
      BY <3>3
    <3>5. ASSUME NEW sdk \in Sdks
          PROVE  /\ rateLimit'[sdk] = Known(sdk, r, ParseRateLimit(sdk, r.headers))
                 /\ call'[sdk] = IF call[sdk].at = "sent"
                                   THEN After(sdk, r, ParseRateLimit(sdk, r.headers))
                                   ELSE call[sdk]
      BY <3>1 DEF Receive
    <3>6. call'[a] = call'[b]
      BY <2>1, <3>2, <3>4, <3>5, PlainAfter
    <3>7. rateLimit'[a] = rateLimit'[b]
      BY <2>1, <3>2, <3>4, <3>5, PlainAfter DEF Known
    <3> QED BY <3>6, <3>7
  <2>3. CASE Retry
    BY <2>1, <2>3 DEF Retry
  <2>4. CASE NextCall
    BY <2>1, <2>4 DEF NextCall
  <2> QED BY <2>2, <2>3, <2>4 DEF Next
<1>2. [Next]_vars => [Agree]_vars
  BY <1>1
<1> QED BY <1>2, PTL DEF Spec, SdksAgree
=============================================================================

--------------------------- MODULE GoClientProofs ---------------------------
(***************************************************************************)
(* Proofs about GoClient, for any number of goroutines, keys, retries and  *)
(* replays: its types, its waits, and that it implements BookingCalls, by  *)
(* way of KeyedCalls.                                                      *)
(***************************************************************************)
EXTENDS GoClient, TLAPS

(* A call that sleeps has an attempt left, and one that has headers keeps  *)
(* the response they came with.                                            *)
Shape ==
  \A c \in Calls :
    /\ pc[c] = "sleeping" => attempt[c] < MaxRetries
    /\ pc[c] \in {"reading", "parsed"} => reply[c] # NoReply

IInv == TypeOK /\ Shape

(* A wait lasts as long as the 429 asked for.                              *)
WaitInv ==
  \A c \in Calls :
    /\ pc[c] = "sleeping" => owed[c] <= timer[c] /\ timer[c] <= MaxRetryDelay
    /\ pc[c] # "sleeping" => owed[c] = 0

(* No server asks for a wait beyond the 292 years of a time.Duration.      *)
WaitsFitDurations == \A info \in Infos : Announced(info) < MaxDuration

-----------------------------------------------------------------------------
USE ApiAssumption, SdkAssumption, GoAssumption

(* A product of int64 that does not overflow is the product.               *)
LEMMA SecondsFit ==
  ASSUME NEW n \in Nat, n < MaxDuration
  PROVE  Seconds(n) = n
<1>1. n + MaxDuration \in Nat /\ n + MaxDuration < 2 * MaxDuration
  OBVIOUS
<1>2. ASSUME NEW a \in Nat, NEW b \in Nat, a < b
      PROVE  a % b = a
  BY <1>2
<1>3. (n + MaxDuration) % (2 * MaxDuration) = n + MaxDuration
  BY <1>1, <1>2
<1> QED
  BY <1>3 DEF Seconds

LEMMA SecondsAreIntegers ==
  ASSUME NEW n \in Int
  PROVE  Seconds(n) \in Int
<1>1. 2 * MaxDuration \in Nat \ {0} /\ n + MaxDuration \in Int
  OBVIOUS
<1>2. ASSUME NEW a \in Int, NEW b \in Nat \ {0}
      PROVE  a % b \in Int
  BY <1>2
<1>3. (n + MaxDuration) % (2 * MaxDuration) \in Int
  BY <1>1, <1>2
<1> QED
  BY <1>3 DEF Seconds

(* A wait is a number of seconds, whatever the headers say, and at least   *)
(* as long as the 429 asked for unless that overflows.                     *)
LEMMA WaitsAreNaturals ==
  ASSUME NEW info \in Infos \cup {NoInfo}
  PROVE  /\ RetryDelay(info) \in Int
         /\ AtLeastZero(RetryDelay(info)) \in Nat
         /\ Announced(info) \in Nat
         /\ WaitsFitDurations => Announced(info) <= AtLeastZero(RetryDelay(info))
<1>1. CASE info = NoInfo
  <2>1. Seconds(1) \in Int
    BY SecondsAreIntegers
  <2> QED
    BY <1>1, <2>1 DEF RetryDelay, Announced, AtLeastZero
<1>2. CASE info \in Infos /\ info.retryAfter # Absent
  <2>1. info.retryAfter \in Nat /\ info # NoInfo
    BY <1>2
  <2>2. RetryDelay(info) = Seconds(info.retryAfter)
        /\ Announced(info) = info.retryAfter
    BY <1>2, <2>1 DEF RetryDelay, Announced
  <2>3. Seconds(info.retryAfter) \in Int
    BY <2>1, SecondsAreIntegers
  <2>4. WaitsFitDurations => Seconds(info.retryAfter) = info.retryAfter
    BY <1>2, <2>1, <2>2, SecondsFit DEF WaitsFitDurations
  <2> QED
    BY <2>1, <2>2, <2>3, <2>4 DEF AtLeastZero
<1>3. CASE info \in Infos /\ info.retryAfter = Absent /\ info.reset # Absent
  <2>1. info.reset \in Int /\ info # NoInfo
    BY <1>3
  <2>2. RetryDelay(info) = Seconds(info.reset)
        /\ Announced(info) = AtLeastZero(info.reset)
    BY <1>3, <2>1 DEF RetryDelay, Announced
  <2>3. Seconds(info.reset) \in Int
    BY <2>1, SecondsAreIntegers
  <2>4. WaitsFitDurations /\ info.reset >= 0 => Seconds(info.reset) = info.reset
    BY <1>3, <2>1, <2>2, SecondsFit DEF WaitsFitDurations, AtLeastZero
  <2> QED
    BY <2>1, <2>2, <2>3, <2>4 DEF AtLeastZero
<1>4. CASE info \in Infos /\ info.retryAfter = Absent /\ info.reset = Absent
  <2>1. Seconds(1) \in Int
    BY SecondsAreIntegers
  <2> QED
    BY <1>4, <2>1 DEF RetryDelay, Announced, AtLeastZero
<1> QED
  BY <1>1, <1>2, <1>3, <1>4

(* The key of a call is its caller's, a generated one, or none.            *)
LEMMA KeysChosen ==
  ASSUME NEW c \in Calls, NEW k \in KeyChoices(c)
  PROVE  k \in Keys \cup {NoKey}
  BY DEF KeyChoices

(* do may return from anywhere, with any error.                            *)
LEMMA ReturnType ==
  ASSUME IInv, NEW c \in Calls, NEW o \in Outcomes, Return(c, o),
         {rateLimit', newest'} \subseteq Infos \cup {NoInfo}
  PROVE  IInv'
<1>1. TypeOK'
  BY DEF IInv, TypeOK, ApiTypeOK, Return, Others, PcValues, Replies
<1>2. Shape'
  BY DEF IInv, TypeOK, Shape, Return
<1> QED
  BY <1>1, <1>2 DEF IInv

LEMMA DoType ==
  ASSUME IInv, NEW c \in Calls, NEW n \in 0..MaxRetries,
         NEW k \in Keys \cup {NoKey}, Do(c, n, k),
         UNCHANGED <<rateLimit, newest>>
  PROVE  IInv'
<1>1. CASE cancelled[c]
  BY <1>1, ReturnType DEF Do, Outcomes, IInv, TypeOK
<1>2. CASE ~cancelled[c]
  <2>1. NewRequest(c, n, k) \in Request
    BY DEF NewRequest, Request
  <2>2. requests' \subseteq Request
    BY <1>2, <2>1 DEF Do, IInv, TypeOK, ApiTypeOK
  <2>3. TypeOK'
    BY <1>2, <2>2 DEF Do, IInv, TypeOK, ApiTypeOK, PcValues
  <2>4. Shape'
    BY <1>2 DEF Do, IInv, TypeOK, Shape
  <2> QED
    BY <2>3, <2>4 DEF IInv
<1> QED
  BY <1>1, <1>2

(* The network and the API keep the types of what they exchange.           *)
LEMMA ServeType ==
  ASSUME ApiTypeOK, NEW m \in requests, NEW waiting \in BOOLEAN,
         Serve(m, waiting)
  PROVE  ApiTypeOK'
<1>1. m \in Request
  BY DEF ApiTypeOK
<1>2. ASSUME NEW kinds \in SUBSET ResponseKinds, Answer(m, kinds, waiting)
      PROVE  responses' \subseteq Response
  BY <1>1, <1>2 DEF Answer, ApiTypeOK, Response, Request
<1>3. CASE Limit(m, waiting)
  BY <1>2, <1>3 DEF Limit, ApiTypeOK, ResponseKinds
<1>4. CASE Refuse(m, waiting)
  BY <1>2, <1>4 DEF Refuse, ApiTypeOK, ResponseKinds
<1>5. CASE Book(m, waiting)
  BY <1>1, <1>2, <1>5 DEF Book, ApiTypeOK, ResponseKinds
<1>6. CASE Replay(m)
  <2>1. [m EXCEPT !.copy = m.copy + 1] \in Request
    BY <1>1, <1>6 DEF Replay, Request
  <2> QED
    BY <1>6, <2>1 DEF Replay, ApiTypeOK
<1> QED
  BY <1>3, <1>4, <1>5, <1>6 DEF Serve

LEMMA RespondType ==
  ASSUME IInv, NEW c \in Calls, Respond(c)
  PROVE  IInv'
<1>1. PICK r \in responses :
        reply' = [reply EXCEPT ![c] = [kind |-> r.kind, info |-> r.info]]
  BY DEF Respond
<1>2. /\ [kind |-> r.kind, info |-> r.info] \in Replies
      /\ r.kind # "none"
  BY DEF IInv, TypeOK, ApiTypeOK, Response, ResponseKinds, Replies
<1>3. TypeOK'
  BY <1>1, <1>2 DEF Respond, Others, IInv, TypeOK, ApiTypeOK, PcValues
<1>4. Shape'
  BY <1>1, <1>2 DEF Respond, IInv, TypeOK, Shape, NoReply
<1> QED
  BY <1>3, <1>4 DEF IInv

LEMMA ReplyTypes ==
  ASSUME IInv, NEW c \in Calls, pc[c] \in {"reading", "parsed"}
  PROVE  /\ reply[c].kind \in ResponseKinds
         /\ reply[c].info \in Infos \cup {NoInfo}
         /\ OutcomeOf(reply[c].kind) \in Outcomes
<1>1. reply[c] \in [kind : ResponseKinds, info : Infos \cup {NoInfo}]
  BY DEF IInv, TypeOK, Shape, Replies
<1> QED
  BY <1>1 DEF ResponseKinds, OutcomeOf, Outcomes

LEMMA ProceedType ==
  ASSUME IInv, NEW c \in Calls, Proceed(c)
  PROVE  IInv'
<1>1. {rateLimit', newest'} \subseteq Infos \cup {NoInfo}
  BY ReplyTypes DEF Proceed, IInv, TypeOK
<1>2. CASE ~Retries(c, reply[c])
  BY <1>1, <1>2, ReplyTypes, ReturnType DEF Proceed
<1>3. CASE Retries(c, reply[c])
  <2>1. /\ AtLeastZero(RetryDelay(reply[c].info)) \in Nat
        /\ Announced(reply[c].info) \in Nat
    BY ReplyTypes, WaitsAreNaturals DEF Proceed
  <2>2. TypeOK'
    <3>1. ApiTypeOK' /\ outcome' \in [Calls -> Outcomes]
      BY <1>3 DEF Proceed, apiVars, IInv, TypeOK, ApiTypeOK
    <3>2. /\ pc' \in [Calls -> PcValues]
          /\ reply' \in [Calls -> Replies]
      BY <1>3 DEF Proceed, IInv, TypeOK, PcValues, Replies
    <3>3. /\ timer' \in [Calls -> Nat]
          /\ owed' \in [Calls -> Nat]
      BY <1>3, <2>1 DEF Proceed, IInv, TypeOK
    <3>4. /\ attempt' \in [Calls -> 0..MaxRetries]
          /\ key' \in [Calls -> Keys \cup {NoKey}]
          /\ cancelled' \in [Calls -> BOOLEAN]
      BY <1>3 DEF Proceed, IInv, TypeOK
    <3> QED
      BY <1>1, <3>1, <3>2, <3>3, <3>4 DEF TypeOK
  <2>3. Shape'
    BY <1>3 DEF Proceed, Retries, IInv, TypeOK, Shape
  <2> QED
    BY <2>2, <2>3 DEF IInv
<1> QED
  BY <1>2, <1>3

(* One step at a time: whatever a goroutine, the network or the process    *)
(* does keeps the types.                                                   *)
LEMMA InvStep == IInv /\ [Next]_vars => IInv'
<1> SUFFICES ASSUME IInv, [Next]_vars
             PROVE  IInv'
  OBVIOUS
<1>1. ASSUME NEW c \in Calls, Start(c)
      PROVE  IInv'
  <2>1. CASE \E o \in {"not_confirmed", "no_api_key", "bad_params"} : Return(c, o)
    BY <1>1, <2>1, ReturnType DEF Start, Outcomes, IInv, TypeOK
  <2>2. CASE \E k \in KeyChoices(c) : Do(c, 0, k)
    BY <1>1, <2>2, KeysChosen, DoType DEF Start
  <2> QED
    BY <1>1, <2>1, <2>2 DEF Start
<1>2. ASSUME NEW c \in Calls, ReadAll(c)
      PROVE  IInv'
  <2>1. TypeOK'
    BY <1>2, ReplyTypes DEF ReadAll, apiVars, IInv, TypeOK, ApiTypeOK, PcValues
  <2>2. Shape'
    BY <1>2 DEF ReadAll, IInv, TypeOK, Shape
  <2> QED
    BY <2>1, <2>2 DEF IInv
<1>3. ASSUME NEW c \in Calls, Fail(c) \/ NetworkError(c) \/ SleepCancelled(c)
      PROVE  IInv'
  <2>1. \E o \in {"cancelled", "timeout", "network"} : Return(c, o)
    BY <1>3 DEF Fail, NetworkError, SleepCancelled
  <2>2. {rateLimit', newest'} \subseteq Infos \cup {NoInfo}
    BY <1>3 DEF Fail, NetworkError, SleepCancelled, IInv, TypeOK
  <2> QED
    BY <2>1, <2>2, ReturnType DEF Outcomes
<1>4. ASSUME NEW c \in Calls, SleepEnds(c)
      PROVE  IInv'
  <2>1. attempt[c] + 1 \in 0..MaxRetries /\ key[c] \in Keys \cup {NoKey}
    BY <1>4 DEF SleepEnds, IInv, TypeOK, Shape
  <2> QED
    BY <1>4, <2>1, DoType DEF SleepEnds
<1>5. ASSUME NEW c \in Calls, Cancel(c)
      PROVE  IInv'
  BY <1>5 DEF Cancel, apiVars, IInv, TypeOK, ApiTypeOK, Shape
<1>6. CASE Crash
  BY <1>6 DEF Crash, IInv, TypeOK, ApiTypeOK, Shape, PcValues, Replies, Running,
     OnTheWire
<1>7. CASE Tick
  BY <1>7 DEF Tick, apiVars, AtLeastZero, IInv, TypeOK, ApiTypeOK, Shape
<1>8. CASE Network
  <2>1. PICK m \in requests : Serve(m, Waiting(m))
    BY <1>8 DEF Network
  <2>2. ApiTypeOK'
    BY <2>1, ServeType DEF Waiting, IInv, TypeOK
  <2> QED
    BY <1>8, <2>2 DEF Network, clientVars, IInv, TypeOK, Shape
<1>9. CASE UNCHANGED vars
  BY <1>9 DEF vars, apiVars, clientVars, IInv, TypeOK, ApiTypeOK, Shape
<1> QED
  BY <1>1, <1>2, <1>3, <1>4, <1>5, <1>6, <1>7, <1>8, <1>9, RespondType,
     ProceedType DEF Next, CallNext

LEMMA Invariance == Spec => []IInv
<1>1. Init => IInv
  BY DEF Init, ApiInit, ClientInit, IInv, TypeOK, ApiTypeOK, Shape, PcValues,
     Outcomes, Replies
<1> QED
  BY <1>1, InvStep, PTL DEF Spec

(* The attempts of do stay within WithMaxRetries, and every wait is one.   *)
THEOREM TypeCorrect == Spec => []TypeOK
  BY Invariance, PTL DEF IInv

-----------------------------------------------------------------------------
(* Returning ends a wait; only the call that returns is touched.           *)
LEMMA ReturnWait ==
  ASSUME IInv, WaitInv, NEW c \in Calls, NEW o, Return(c, o)
  PROVE  WaitInv'
  BY DEF Return, IInv, TypeOK, WaitInv

LEMMA DoWait ==
  ASSUME IInv, WaitInv, NEW c \in Calls, NEW n, NEW k, Do(c, n, k)
  PROVE  WaitInv'
<1>1. CASE cancelled[c]
  BY <1>1, ReturnWait DEF Do
<1>2. CASE ~cancelled[c]
  BY <1>2 DEF Do, IInv, TypeOK, WaitInv
<1> QED
  BY <1>1, <1>2

LEMMA WaitStep ==
  WaitsFitDurations /\ IInv /\ WaitInv /\ [Next]_vars => WaitInv'
<1> SUFFICES ASSUME WaitsFitDurations, IInv, WaitInv, [Next]_vars
             PROVE  WaitInv'
  OBVIOUS
<1>1. ASSUME NEW c \in Calls, Start(c) \/ SleepEnds(c) \/ Fail(c)
                                \/ NetworkError(c) \/ SleepCancelled(c)
      PROVE  WaitInv'
  BY <1>1, ReturnWait, DoWait DEF Start, SleepEnds, Fail, NetworkError,
     SleepCancelled
<1>2. ASSUME NEW c \in Calls, Respond(c) \/ ReadAll(c) \/ Cancel(c)
      PROVE  WaitInv'
  BY <1>2 DEF Respond, ReadAll, Cancel, IInv, TypeOK, WaitInv, Running, OnTheWire
<1>3. ASSUME NEW c \in Calls, Proceed(c)
      PROVE  WaitInv'
  <2>1. CASE ~Retries(c, reply[c])
    BY <1>3, <2>1, ReturnWait DEF Proceed
  <2>2. CASE Retries(c, reply[c])
    <3>1. reply[c].info \in Infos \cup {NoInfo}
      BY <1>3, ReplyTypes DEF Proceed
    <3> DEFINE wait == AtLeastZero(RetryDelay(reply[c].info))
    <3>2. Announced(reply[c].info) <= wait
      BY <3>1, WaitsAreNaturals
    <3>3. wait <= MaxRetryDelay
      BY <2>2, <3>1, WaitsAreNaturals DEF Retries, AtLeastZero
    <3>4. /\ pc' = [pc EXCEPT ![c] = "sleeping"]
          /\ timer' = [timer EXCEPT ![c] = wait]
          /\ owed' = [owed EXCEPT ![c] = Announced(reply[c].info)]
      BY <1>3, <2>2 DEF Proceed
    <3> HIDE DEF wait
    <3> QED
      BY <3>2, <3>3, <3>4 DEF IInv, TypeOK, WaitInv
  <2> QED
    BY <2>1, <2>2
<1>4. CASE Crash
  BY <1>4 DEF Crash, IInv, TypeOK, WaitInv, Running
<1>5. CASE Tick
  BY <1>5 DEF Tick, AtLeastZero, IInv, TypeOK, WaitInv
<1>6. CASE Network \/ UNCHANGED vars
  BY <1>6 DEF Network, vars, clientVars, WaitInv
<1> QED
  BY <1>1, <1>2, <1>3, <1>4, <1>5, <1>6 DEF Next, CallNext

LEMMA WaitInvariance == WaitsFitDurations /\ Spec => [](IInv /\ WaitInv)
<1>1. Init => WaitInv
  BY DEF Init, ClientInit, WaitInv
<1>2. WaitsFitDurations /\ IInv /\ IInv' /\ WaitInv /\ [Next]_vars => WaitInv'
  BY WaitStep
<1>3. WaitsFitDurations => []WaitsFitDurations
  <2>1. WaitsFitDurations => WaitsFitDurations'
    BY DEF WaitsFitDurations, Announced, AtLeastZero
  <2> QED
    BY <2>1, PTL
<1> QED
  BY <1>1, <1>2, <1>3, Invariance, PTL DEF Spec

(* A goroutine waits at least as long as the 429 asked for and never       *)
(* longer than maxRetryDelay, whichever headers the wait comes from.       *)
THEOREM CallsWaitAsAsked == WaitsFitDurations /\ Spec => []WaitsAsAsked
<1>1. WaitInv => WaitsAsAsked
  BY DEF WaitInv, WaitsAsAsked
<1> QED
  BY <1>1, WaitInvariance, PTL

(* Who adds a request: do, for a call that starts or whose wait is over.   *)
LEMMA DoSends ==
  ASSUME NEW c \in Calls, NEW n, NEW k, Do(c, n, k),
         NEW m \in requests' \ requests
  PROVE  m.call = c /\ ~cancelled[c]
<1>1. CASE cancelled[c]
  BY <1>1 DEF Do, Return
<1>2. CASE ~cancelled[c]
  <2>1. m = NewRequest(c, n, k)
    BY <1>2 DEF Do
  <2> QED
    BY <1>2, <2>1 DEF NewRequest
<1> QED
  BY <1>1, <1>2

LEMMA ServeSends ==
  ASSUME ApiTypeOK, NEW m \in requests, NEW waiting, Serve(m, waiting),
         NEW n \in requests' \ requests
  PROVE  n.copy # 0
<1>1. Replay(m) /\ n = [m EXCEPT !.copy = m.copy + 1]
  BY DEF Serve, Limit, Refuse, Book, Replay
<1>2. m.copy \in Nat /\ m \in Request
  BY DEF ApiTypeOK, Request
<1> QED
  BY <1>1, <1>2 DEF Request

LEMMA DueStep ==
  IInv /\ WaitInv /\ [Next]_vars =>
    \A m \in requests' \ requests :
      m.copy = 0 => /\ pc[m.call] \in {"idle", "sleeping"}
                    /\ ~cancelled[m.call]
                    /\ owed[m.call] = 0
<1> SUFFICES ASSUME IInv, WaitInv, [Next]_vars, NEW m \in requests' \ requests,
                    m.copy = 0
             PROVE  /\ pc[m.call] \in {"idle", "sleeping"}
                    /\ ~cancelled[m.call]
                    /\ owed[m.call] = 0
  OBVIOUS
<1>1. ASSUME NEW c \in Calls, Start(c)
      PROVE  pc[c] = "idle" /\ m.call = c /\ ~cancelled[c]
  BY <1>1, DoSends DEF Start, Return
<1>2. ASSUME NEW c \in Calls, SleepEnds(c)
      PROVE  pc[c] = "sleeping" /\ timer[c] = 0 /\ m.call = c /\ ~cancelled[c]
  BY <1>2, DoSends DEF SleepEnds
<1>3. CASE \E c \in Calls : Start(c) \/ SleepEnds(c)
  BY <1>1, <1>2, <1>3 DEF WaitInv, IInv, TypeOK
<1>4. CASE \E c \in Calls : \/ Respond(c) \/ ReadAll(c) \/ Fail(c) \/ Proceed(c)
                            \/ NetworkError(c) \/ SleepCancelled(c) \/ Cancel(c)
  BY <1>4 DEF Respond, ReadAll, Fail, Proceed, NetworkError, SleepCancelled,
     Cancel, Return, apiVars
<1>5. CASE Network
  BY <1>5, ServeSends DEF Network, IInv, TypeOK
<1>6. CASE Crash \/ Tick \/ UNCHANGED vars
  BY <1>6 DEF Crash, Tick, vars, apiVars
<1> QED
  BY <1>3, <1>4, <1>5, <1>6 DEF Next, CallNext

(* A request leaves only for a call that starts or has waited as long as   *)
(* it was asked to, and never after its context is done.                   *)
THEOREM CallsSendWhenDue == WaitsFitDurations /\ Spec => SendsOnlyWhenDue
  BY WaitInvariance, DueStep, PTL DEF Spec, SendsOnlyWhenDue

-----------------------------------------------------------------------------
(* The state of KeyedCalls this client stands for: a response is being     *)
(* read until the goroutine has acted on it.                               *)
phase ==
  [c \in Calls |->
     IF pc[c] = "sending" THEN "fetching"
     ELSE IF pc[c] \in {"reading", "parsed"} THEN "reading"
     ELSE IF pc[c] = "sleeping" THEN "sleeping" ELSE status[c]]
said ==
  [c \in Calls |->
     IF pc[c] \in {"reading", "parsed"} THEN reply[c].kind ELSE "none"]
Choices == [c \in Calls |-> KeyChoices(c)]

K == INSTANCE KeyedCallsProofs

(* WithIdempotencyKey may be given to any operation (client.go:156), but   *)
(* the API honours it for two of them only.                                *)
KeysWhereHonoured == \A c \in Calls : CallerKey[c] \in Keys => c \in KeyRequired

(* A key is the caller's, or generated for one call, or none.              *)
LEMMA KeyChoicesSound == KeysWhereHonoured => K!ChoicesSound
<1> SUFFICES ASSUME KeysWhereHonoured
             PROVE  K!ChoicesSound
  OBVIOUS
<1>1. Choices \in [Calls -> SUBSET (Keys \cup {NoKey})]
  BY KeysChosen DEF Choices
<1>2. \A c \in Calls : NoKey \in KeyChoices(c) => KeyChoices(c) = {NoKey}
  BY DEF KeyChoices
<1>3. \A c \in Calls \ KeyRequired : KeyChoices(c) = {NoKey}
  BY DEF KeyChoices, KeysWhereHonoured
<1>4. \A c \in Calls : HasCallerKey(c) => KeyChoices(c) = {CallerKey[c]}
  BY DEF KeyChoices, HasCallerKey
<1>5. ASSUME NEW c \in Calls, NEW d \in Calls,
             NEW k \in (KeyChoices(c) \cap KeyChoices(d)) \ {NoKey}
      PROVE  PurchaseOf[c] = PurchaseOf[d]
  <2>1. c \in KeyRequired /\ d \in KeyRequired
    BY <1>3
  <2>2. \A e \in {c, d} :
          IF CallerKey[e] \in Keys THEN k = CallerKey[e] ELSE k \in Generated[e]
    BY <2>1 DEF KeyChoices
  <2>3. CASE c = d
    BY <2>3
  <2>4. CASE c # d
    <3>1. CallerKey[c] \in Keys /\ CallerKey[d] \in Keys
      BY <2>2, <2>4
    <3>2. CallerKey[c] = CallerKey[d]
      BY <2>2, <3>1
    <3> QED
      BY <2>1, <3>1, <3>2 DEF PurchaseOf, HasCallerKey
  <2> QED
    BY <2>3, <2>4
<1>6. \A c \in Calls : Choices[c] = KeyChoices(c)
  BY DEF Choices
<1>7. ASSUME NEW c \in Calls, NEW d \in Calls
      PROVE  /\ K!HasCallerKey(c) <=> HasCallerKey(c)
             /\ K!PurchaseOf[c] = PurchaseOf[c]
  BY DEF K!HasCallerKey, K!PurchaseOf, HasCallerKey, PurchaseOf
<1> QED
  BY <1>1, <1>2, <1>3, <1>4, <1>5, <1>6, <1>7 DEF K!ChoicesSound

(* The state of a call in KeyedCalls, by where do is with it.              *)
Viewed ==
  \A c \in Calls :
    /\ pc[c] = "idle" => phase[c] = "new"
    /\ pc[c] = "sending" => phase[c] = "fetching"
    /\ pc[c] \in {"reading", "parsed"} =>
         phase[c] = "reading" /\ said[c] = reply[c].kind
    /\ pc[c] = "sleeping" => phase[c] = "sleeping"
    /\ pc[c] = "crashed" => phase[c] = "unsure"
    /\ pc[c] = "returned" => phase[c] = StatusOf(outcome[c])
    /\ pc[c] \notin {"reading", "parsed"} => said[c] = "none"

LEMMA AlwaysViewed == Viewed /\ Viewed'
<1>1. Viewed
  BY DEF Viewed, phase, said, status, Running, OnTheWire
<1>2. Viewed'
  BY DEF Viewed, phase, said, status, Running, OnTheWire
<1> QED
  BY <1>1, <1>2

(* A step of one call changes the view of that call alone.                 *)
LEMMA OthersKept ==
  ASSUME NEW c \in Calls,
         \A d \in Calls \ {c} : /\ pc'[d] = pc[d] /\ outcome'[d] = outcome[d]
                                /\ reply'[d] = reply[d]
  PROVE  /\ phase' = [phase EXCEPT ![c] = phase'[c]]
         /\ said' = [said EXCEPT ![c] = said'[c]]
<1>1. \A d \in Calls \ {c} : phase'[d] = phase[d] /\ said'[d] = said[d]
  BY DEF phase, said, status, Running, OnTheWire
<1>2. /\ DOMAIN phase = Calls /\ DOMAIN said = Calls
      /\ phase = [d \in Calls |-> phase[d]] /\ said = [d \in Calls |-> said[d]]
  BY DEF phase, said
<1>3. /\ phase' = [d \in Calls |-> phase'[d]]
      /\ said' = [d \in Calls |-> said'[d]]
  BY DEF phase, said
<1> QED
  BY <1>1, <1>2, <1>3

(* The requests and responses of KeyedCalls are the client's.              *)
LEMMA SameMessages ==
  /\ \A c \in Calls : K!Others(c) = Others(c)
  /\ \A c, n, k : K!NewRequest(c, n, k) = NewRequest(c, n, k)
  BY DEF K!Others, Others, K!NewRequest, NewRequest

(* How do returns: the errors that tell a caller nothing about its booking *)
(* are one.                                                                *)
LEMMA StatusOfOutcomes ==
  /\ \A o \in Refusals : StatusOf(o) = "refused"
  /\ StatusOf("ok") = "ok" /\ StatusOf("limited") = "limited"
  /\ \A o \in {"invalid_response", "failed", "timeout", "cancelled", "network"} :
       StatusOf(o) = "unsure"
  BY DEF StatusOf, Refusals

LEMMA ReturnEnds ==
  ASSUME IInv, NEW c \in Calls, NEW o \in Outcomes, Return(c, o)
  PROVE  K!End(c, StatusOf(o))
<1>1. pc'[c] = "returned" /\ outcome'[c] = o
  BY DEF Return, IInv, TypeOK
<1>2. phase'[c] = StatusOf(o) /\ said'[c] = "none"
  BY <1>1, AlwaysViewed DEF Viewed
<1>3. \A d \in Calls \ {c} : /\ pc'[d] = pc[d] /\ outcome'[d] = outcome[d]
                             /\ reply'[d] = reply[d]
  BY DEF Return, IInv, TypeOK
<1> QED
  BY <1>2, <1>3, OthersKept, SameMessages DEF K!End, Return

(* A call whose context is done gives up instead of sending.               *)
LEMMA DoSendsOrEnds ==
  ASSUME IInv, NEW c \in Calls, NEW n, NEW k, Do(c, n, k),
         pc[c] \in {"idle", "sleeping"}
  PROVE  K!Send(c, n, k) \/ K!End(c, "unsure")
<1>1. CASE cancelled[c]
  <2>1. Return(c, "cancelled")
    BY <1>1 DEF Do
  <2> QED
    BY <2>1, ReturnEnds, StatusOfOutcomes DEF Outcomes
<1>2. CASE ~cancelled[c]
  <2>1. pc'[c] = "sending" /\ reply' = reply /\ outcome' = outcome
    BY <1>2 DEF Do, IInv, TypeOK
  <2>2. phase'[c] = "fetching" /\ said'[c] = said[c]
    BY <2>1, AlwaysViewed DEF Viewed
  <2>3. \A d \in Calls \ {c} : /\ pc'[d] = pc[d] /\ outcome'[d] = outcome[d]
                               /\ reply'[d] = reply[d]
    BY <1>2 DEF Do, IInv, TypeOK
  <2>4. said' = said
    BY <2>2, <2>3, OthersKept DEF said
  <2> QED
    BY <1>2, <2>2, <2>3, <2>4, OthersKept, SameMessages DEF K!Send, Do
<1> QED
  BY <1>1, <1>2

(* do is called: it sends the first request, or returns before.            *)
LEMMA StartStep ==
  ASSUME IInv, NEW c \in Calls, Start(c)
  PROVE  K!CallNext(c)
<1>1. pc[c] = "idle" /\ phase[c] = "new"
  BY AlwaysViewed DEF Start, Viewed
<1>2. CASE \E o \in Refusals : Return(c, o)
  <2>1. K!End(c, "refused")
    BY <1>2, ReturnEnds, StatusOfOutcomes DEF Refusals, Outcomes
  <2> QED
    BY <1>1, <2>1 DEF K!CallNext, K!Refused
<1>3. CASE \E k \in KeyChoices(c) : Do(c, 0, k)
  <2>1. (\E k \in Choices[c] : K!Send(c, 0, k)) \/ K!End(c, "unsure")
    BY <1>1, <1>3, DoSendsOrEnds DEF Choices
  <2> QED
    BY <1>1, <2>1 DEF K!CallNext, K!First, K!GiveUp
<1> QED
  BY <1>2, <1>3 DEF Start, Refusals

(* A wait is over, or its context done when the timer fires.               *)
LEMMA SleepEndsStep ==
  ASSUME IInv, NEW c \in Calls, SleepEnds(c)
  PROVE  K!CallNext(c)
<1>1. pc[c] = "sleeping" /\ phase[c] = "sleeping"
  BY AlwaysViewed DEF SleepEnds, Viewed
<1>2. K!Send(c, attempt[c] + 1, key[c]) \/ K!End(c, "unsure")
  BY <1>1, DoSendsOrEnds DEF SleepEnds
<1> QED
  BY <1>1, <1>2 DEF K!CallNext, K!Again, K!GiveUp, K!Running

LEMMA RespondStep ==
  ASSUME IInv, NEW c \in Calls, Respond(c)
  PROVE  K!CallNext(c)
<1>1. phase[c] = "fetching"
  BY AlwaysViewed DEF Respond, Viewed
<1>2. pc'[c] = "reading" /\ phase'[c] = "reading" /\ said'[c] = reply'[c].kind
  BY AlwaysViewed DEF Respond, Viewed, IInv, TypeOK
<1>3. \A d \in Calls \ {c} : /\ pc'[d] = pc[d] /\ outcome'[d] = outcome[d]
                             /\ reply'[d] = reply[d]
  BY DEF Respond, IInv, TypeOK
<1>4. PICK r \in responses :
        /\ r.call = c
        /\ reply' = [reply EXCEPT ![c] = [kind |-> r.kind, info |-> r.info]]
  BY DEF Respond
<1>5. said'[c] = r.kind
  BY <1>2, <1>4 DEF IInv, TypeOK
<1>6. /\ phase' = [phase EXCEPT ![c] = "reading"]
      /\ said' = [said EXCEPT ![c] = r.kind]
  BY <1>2, <1>3, <1>5, OthersKept
<1> QED
  BY <1>1, <1>4, <1>6, SameMessages DEF K!CallNext, K!Headers, Respond

(* What the goroutine does with a response it has read and parsed.         *)
LEMMA ProceedStep ==
  ASSUME IInv, NEW c \in Calls, Proceed(c)
  PROVE  K!CallNext(c)
<1>1. pc[c] = "parsed" /\ phase[c] = "reading" /\ said[c] = reply[c].kind
  BY AlwaysViewed DEF Proceed, Viewed
<1>2. reply[c].kind \in ResponseKinds /\ OutcomeOf(reply[c].kind) \in Outcomes
  BY <1>1, ReplyTypes
<1>3. CASE Retries(c, reply[c])
  <2>1. /\ pc' = [pc EXCEPT ![c] = "sleeping"]
        /\ reply' = [reply EXCEPT ![c] = NoReply]
        /\ UNCHANGED <<requests, responses, bookings, attempt, key, outcome>>
    BY <1>3 DEF Proceed, apiVars
  <2>2. pc'[c] = "sleeping" /\ phase'[c] = "sleeping" /\ said'[c] = "none"
    BY <2>1, AlwaysViewed DEF Viewed, IInv, TypeOK
  <2>3. \A d \in Calls \ {c} : /\ pc'[d] = pc[d] /\ outcome'[d] = outcome[d]
                               /\ reply'[d] = reply[d]
    BY <2>1 DEF IInv, TypeOK
  <2>4. /\ phase' = [phase EXCEPT ![c] = "sleeping"]
        /\ said' = [said EXCEPT ![c] = "none"]
    BY <2>2, <2>3, OthersKept
  <2>5. said[c] = "limited"
    BY <1>1, <1>3 DEF Retries
  <2> QED
    BY <1>1, <2>1, <2>4, <2>5 DEF K!CallNext, K!Pause, K!apiVars
<1>4. CASE ~Retries(c, reply[c])
  <2>1. Return(c, OutcomeOf(reply[c].kind))
    BY <1>4 DEF Proceed
  <2>2. K!End(c, StatusOf(OutcomeOf(reply[c].kind)))
    BY <1>2, <2>1, ReturnEnds
  <2>3. CASE reply[c].kind \in {"ok", "limited"}
    <3>1. StatusOf(OutcomeOf(reply[c].kind)) = said[c]
      BY <1>1, <2>3, StatusOfOutcomes DEF OutcomeOf
    <3> QED
      BY <1>1, <2>2, <2>3, <3>1 DEF K!CallNext, K!Finish
  <2>4. CASE reply[c].kind \in {"text", "failed"}
    <3>1. StatusOf(OutcomeOf(reply[c].kind)) = "unsure"
      BY <2>4, StatusOfOutcomes DEF OutcomeOf
    <3> QED
      BY <1>1, <2>2, <3>1 DEF K!CallNext, K!GiveUp, K!Running
  <2> QED
    BY <1>2, <2>3, <2>4 DEF ResponseKinds
<1> QED
  BY <1>3, <1>4

(* An attempt or a wait that fails ends the call with an error.            *)
LEMMA FailStep ==
  ASSUME IInv, NEW c \in Calls, Fail(c) \/ NetworkError(c) \/ SleepCancelled(c)
  PROVE  K!CallNext(c)
<1>1. phase[c] \in {"fetching", "reading", "sleeping"}
  BY AlwaysViewed DEF Fail, NetworkError, SleepCancelled, Viewed, OnTheWire
<1>2. \E o \in {"timeout", "cancelled", "network"} : Return(c, o)
  BY DEF Fail, NetworkError, SleepCancelled
<1>3. K!End(c, "unsure")
  BY <1>2, ReturnEnds, StatusOfOutcomes DEF Outcomes
<1> QED
  BY <1>1, <1>3 DEF K!CallNext, K!GiveUp, K!Running

(* What changes no call's place, outcome or response, and that a response  *)
(* is read, KeyedCalls does not see.                                       *)
LEMMA Unseen ==
  ASSUME UNCHANGED <<requests, responses, bookings, attempt, key, reply,
                     outcome>>,
         \/ UNCHANGED pc
         \/ IInv /\ \E c \in Calls : pc[c] = "reading"
                                     /\ pc' = [pc EXCEPT ![c] = "parsed"]
  PROVE  UNCHANGED K!keyedVars
<1>1. phase' = phase /\ said' = said
  BY DEF phase, said, status, Running, OnTheWire, IInv, TypeOK
<1> QED
  BY <1>1 DEF K!keyedVars, K!apiVars, K!callVars

(* The process ends: every call that runs gives up.                        *)
LEMMA CrashStep ==
  ASSUME IInv, Crash
  PROVE  K!Crash
<1>1. \A c \in Calls : /\ Running(c) => pc'[c] = "crashed"
                       /\ ~Running(c) => pc'[c] = pc[c]
  BY DEF Crash
<1>2. ASSUME NEW c \in Calls
      PROVE  Running(c) <=> phase[c] \in K!Running
  <2>1. CASE Running(c)
    BY <2>1, AlwaysViewed DEF Viewed, Running, OnTheWire, K!Running
  <2>2. CASE ~Running(c)
    <3>1. pc[c] \in {"idle", "returned", "crashed"}
      BY <2>2 DEF IInv, TypeOK, PcValues, Running, OnTheWire
    <3>2. phase[c] \in {"new", "ok", "refused", "limited", "unsure"}
      BY <3>1, AlwaysViewed DEF Viewed, StatusOf
    <3> QED
      BY <2>2, <3>2 DEF K!Running
  <2> QED
    BY <2>1, <2>2
<1>3. \A c \in Calls :
        phase'[c] = IF phase[c] \in K!Running THEN "unsure" ELSE phase[c]
  <2>1. ASSUME NEW c \in Calls, Running(c)
        PROVE  phase'[c] = "unsure"
    BY <1>1, <2>1, AlwaysViewed DEF Viewed
  <2>2. ASSUME NEW c \in Calls, ~Running(c)
        PROVE  phase'[c] = phase[c]
    BY <1>1, <2>2 DEF phase, status, Running, OnTheWire, Crash
  <2> QED
    BY <1>2, <2>1, <2>2
<1>4. \A c \in Calls : said'[c] = "none"
  BY <1>1, AlwaysViewed DEF Viewed, Running, OnTheWire
<1>5. phase' = [c \in Calls |-> phase'[c]] /\ said' = [c \in Calls |-> said'[c]]
  BY DEF phase, said
<1>6. /\ phase' = [c \in Calls |->
                    IF phase[c] \in K!Running THEN "unsure" ELSE phase[c]]
      /\ said' = [c \in Calls |-> "none"]
  BY <1>3, <1>4, <1>5
<1>7. \E c \in Calls : phase[c] \in K!Running
  BY <1>2 DEF Crash
<1> QED
  BY <1>6, <1>7 DEF K!Crash, Crash

(* The network and the API do the same to both.                            *)
LEMMA NetworkStep ==
  ASSUME IInv, Network
  PROVE  K!Network
<1>1. PICK m \in requests : Serve(m, Waiting(m))
  BY DEF Network
<1>2. m.call \in Calls
  BY DEF IInv, TypeOK, ApiTypeOK, Request
<1>3. pc[m.call] = "sending" <=> phase[m.call] = "fetching"
  BY <1>2, AlwaysViewed DEF IInv, TypeOK, PcValues, Viewed, StatusOf
<1>4. Waiting(m) = K!Awaits(m)
  BY <1>3 DEF Waiting, K!Awaits
<1>5. K!Serve(m, K!Awaits(m))
  BY <1>1, <1>4 DEF Serve, Limit, Refuse, Book, Replay, Answer, Answered,
     Acceptable, Remembered, K!Serve, K!Limit, K!Refuse, K!Book, K!Replay,
     K!Answer, K!Answered, K!Acceptable, K!Remembered
<1>6. UNCHANGED K!callVars
  BY DEF Network, clientVars, phase, said, status, Running, OnTheWire, K!callVars
<1> QED
  BY <1>5, <1>6 DEF K!Network

(* The step-by-step part of the refinement.                                *)
LEMMA StepIsKeyed == IInv /\ [Next]_vars => [K!Next]_(K!keyedVars)
<1> SUFFICES ASSUME IInv, [Next]_vars
             PROVE  K!Next \/ UNCHANGED K!keyedVars
  OBVIOUS
<1>1. ASSUME NEW c \in Calls, CallNext(c)
      PROVE  K!CallNext(c) \/ UNCHANGED K!keyedVars
  <2>1. CASE ReadAll(c) \/ Cancel(c)
    BY <2>1, Unseen DEF ReadAll, Cancel, apiVars
  <2> QED
    BY <1>1, <2>1, StartStep, RespondStep, FailStep, ProceedStep, SleepEndsStep
       DEF CallNext
<1>2. CASE Crash
  BY <1>2, CrashStep DEF K!Next
<1>3. CASE Tick
  BY <1>3, Unseen DEF Tick, apiVars
<1>4. CASE Network
  BY <1>4, NetworkStep DEF K!Next
<1>5. CASE UNCHANGED vars
  BY <1>5, Unseen DEF vars, apiVars, clientVars
<1> QED
  BY <1>1, <1>2, <1>3, <1>4, <1>5 DEF Next, K!Next

LEMMA InitIsKeyed == Init => K!Init
  BY AlwaysViewed DEF Init, ApiInit, ClientInit, Viewed, phase, said, K!Init,
     K!ApiInit

(* do follows the protocol of KeyedCalls: one key per call, and a new      *)
(* request only after a 429.                                               *)
THEOREM GoFollowsKeyedCalls == Spec => K!Spec
  BY Invariance, InitIsKeyed, StepIsKeyed, PTL DEF Spec, K!Spec

-----------------------------------------------------------------------------
(* Both see the same purchases, bookings and ends of calls.                *)
SameView ==
  /\ K!status = status
  /\ K!times = times

LEMMA SamePurchases ==
  /\ K!PurchaseOf = PurchaseOf
  /\ K!Purchases = Purchases
  /\ KeysWhereHonoured => K!CarriesKey = KeyRequired
<1>1. K!PurchaseOf = PurchaseOf
  BY DEF K!PurchaseOf, PurchaseOf, K!HasCallerKey, HasCallerKey
<1>2. K!Purchases = Purchases
  BY <1>1 DEF K!Purchases, Purchases
<1>3. ASSUME KeysWhereHonoured, NEW c \in Calls
      PROVE  NoKey \notin KeyChoices(c) <=> c \in KeyRequired
  <2>1. NoKey \notin Generated[c] /\ NoKey \notin Keys
    OBVIOUS
  <2> QED
    BY <1>3, <2>1 DEF KeyChoices, KeysWhereHonoured
<1>4. KeysWhereHonoured => K!CarriesKey = KeyRequired
  BY <1>3 DEF K!CarriesKey, Choices
<1> QED
  BY <1>1, <1>2, <1>4

LEMMA ViewsAgree == IInv => SameView
<1> SUFFICES ASSUME IInv
             PROVE  SameView
  OBVIOUS
<1>1. ASSUME NEW c \in Calls
      PROVE  K!status[c] = status[c]
  <2>1. CASE Running(c)
    <3>1. K!status[c] = "open"
      BY <2>1, AlwaysViewed DEF Viewed, Running, OnTheWire, K!status, K!Running
    <3>2. pc[c] \notin {"idle", "crashed"}
      BY <2>1 DEF Running, OnTheWire
    <3> QED
      BY <2>1, <3>1, <3>2 DEF status
  <2>2. CASE ~Running(c)
    <3>1. pc[c] \in {"idle", "returned", "crashed"}
      BY <2>2 DEF IInv, TypeOK, PcValues, Running, OnTheWire
    <3>2. phase[c] = status[c]
      BY <3>1 DEF phase
    <3>3. phase[c] \notin K!Running
      BY <3>1, AlwaysViewed DEF Viewed, StatusOf, K!Running
    <3> QED
      BY <3>2, <3>3 DEF K!status
  <2> QED
    BY <2>1, <2>2
<1>2. K!status = status
  BY <1>1 DEF K!status, status
<1>3. K!times = times
  BY SamePurchases DEF K!times, times, K!BookingsOf, BookingsOf
<1> QED
  BY <1>2, <1>3 DEF SameView

LEMMA InitAgrees == SameView /\ K!Abstract!Init => Abstract!Init
  BY SamePurchases DEF SameView, K!Abstract!Init, Abstract!Init

LEMMA StepAgrees ==
  KeysWhereHonoured /\ SameView /\ SameView'
      /\ [K!Abstract!Next]_(K!Abstract!bookingVars)
    => [Abstract!Next]_(Abstract!bookingVars)
  BY SamePurchases DEF SameView,
     K!Abstract!Next, K!Abstract!Open, K!Abstract!Refuse, K!Abstract!Succeed,
     K!Abstract!Limit, K!Abstract!Book, K!Abstract!GiveUp, K!Abstract!Become,
     K!Abstract!bookingVars,
     Abstract!Next, Abstract!Open, Abstract!Refuse, Abstract!Succeed,
     Abstract!Limit, Abstract!Book, Abstract!GiveUp, Abstract!Become,
     Abstract!bookingVars

(* The Go client keeps the promise about bookings, for every number of     *)
(* goroutines, cancelled contexts, crashes, retries and replays, of every  *)
(* caller that gives keys only to the operations that honour them.         *)
THEOREM GoImplementsBookingCalls ==
  KeysWhereHonoured /\ Spec => ImplementsBookingCalls
<1>1. K!ChoicesSound /\ K!Spec => K!Abstract!Spec
  BY K!KeyedCallsBookOnce, ApiAssumption, SdkAssumption
<1>2. Spec => []SameView
  BY Invariance, ViewsAgree, PTL
<1>3. KeysWhereHonoured => []KeysWhereHonoured
  <2>1. KeysWhereHonoured => KeysWhereHonoured'
    BY DEF KeysWhereHonoured
  <2> QED
    BY <2>1, PTL
<1> QED
  BY <1>1, <1>2, <1>3, KeyChoicesSound, GoFollowsKeyedCalls, InitAgrees,
     StepAgrees, PTL DEF ImplementsBookingCalls, Abstract!Spec, K!Abstract!Spec
=============================================================================

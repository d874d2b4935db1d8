-------------------------- MODULE RateLimitHeaders --------------------------
(***************************************************************************)
(* parseRateLimit of the three SDKs (rateLimit.ts, ratelimit.go,           *)
(* rate_limit.py) and the wait before a retry that follows from it.        *)
(*                                                                         *)
(* Numbers, waits and offsets are in units of 1 / Second.  A field of a    *)
(* header is what its text says: absent, blank, a number, nan, infinity,   *)
(* overflow (1e999, infinite to some parsers), a date (value: its distance *)
(* from now), words.  What may be undefined is <<>> or <<value>>.          *)
(*                                                                         *)
(* Go is there twice: what int() makes of a float that does not fit is     *)
(* the processor's choice.                                                 *)
(***************************************************************************)
EXTENDS Integers, FiniteSetsExt, Sequences

CONSTANT Word  \* 2^64, scaled down: the values of Go's int and Duration

Second == 10000
Millisecond == Second \div 1000

ASSUME WordAssumption == Word \in Nat /\ Word % 2 = 0 /\ Word > 2 * Second

Sdks == {"ts", "go amd64", "go arm64", "python"}
IsGo(sdk) == sdk \in {"go amd64", "go arm64"}

Field(form, value) == [form |-> form, value |-> value]
Nothing == Field("absent", 0)

(* What headers may say.  A date means something in Retry-After alone: in  *)
(* the other headers it is words.                                          *)
Texts == [form : {"absent", "blank", "number", "nan", "infinity", "overflow", "words"},
          value : Int]
Dates == [form : {"date"}, value : Int]
Items == Seq([key : STRING, value : Texts])
HeaderSets == [policy : Items, state : Items, limit : Texts, remaining : Texts,
               retryAfter : Texts \union Dates]

MaxInt == Word \div 2 - 1
MinInt == -MaxInt - 1

AtLeastZero(n) == IF n < 0 THEN 0 ELSE n
Truncated(n) == IF n < 0 THEN -((-n) \div Second) ELSE n \div Second
Ceiling(n) == -((-n) \div Second)

(* int(parsed)                                                             *)
IntOfFloat(sdk, n) ==
  IF n \in MinInt .. MaxInt THEN n
  ELSE IF sdk = "go amd64" \/ n < 0 THEN MinInt ELSE MaxInt
IntOfSpecial(sdk, form) ==
  IF sdk = "go amd64" THEN MinInt ELSE IF form = "nan" THEN 0 ELSE MaxInt

(* Python's int() of an infinite float is an OverflowError, no ValueError. *)
Overflows(field) == field.form \in {"infinity", "overflow"}

(* toNumber, parseInt, _to_int                                             *)
ToNumber(sdk, field) ==
  CASE field.form = "number" ->
         <<CASE sdk = "ts" -> field.value
             [] sdk = "python" -> Truncated(field.value) * Second
             [] OTHER -> IntOfFloat(sdk, Truncated(field.value)) * Second>>
    [] field.form \in {"nan", "infinity"} /\ IsGo(sdk) ->
         <<IntOfSpecial(sdk, field.form) * Second>>
    [] OTHER -> <<>>

(* Of a key that comes twice the last one counts.                          *)
Parameter(item, key) ==
  LET places == {i \in DOMAIN item : item[i].key = key}
  IN IF places = {} THEN Nothing ELSE item[Max(places)].value

(* moment.Sub(now) is what a Duration holds.                               *)
Until(sdk, n) ==
  IF ~ IsGo(sdk) \/ n \in MinInt .. MaxInt THEN n
  ELSE IF n < 0 THEN MinInt ELSE MaxInt

(* Mutant: a date is rounded down.                                         *)
RetryAfterDown(sdk, field) ==
  LET seconds == ToNumber(sdk, field)
  IN IF seconds # <<>> THEN <<AtLeastZero(seconds[1])>>
     ELSE IF field.form # "date" THEN <<>>
     ELSE <<AtLeastZero(Truncated(field.value) * Second)>>

(* Python rounds up by adding 0.999 before it truncates.                   *)
RetryAfter(sdk, field) ==
  LET seconds == ToNumber(sdk, field)
  IN IF seconds # <<>> THEN <<AtLeastZero(seconds[1])>>
     ELSE IF field.form # "date" THEN <<>>
     ELSE <<AtLeastZero(Second *
              IF sdk = "python" THEN Truncated(field.value + Second - Millisecond)
                                ELSE Ceiling(Until(sdk, field.value)))>>

Or(first, second) == IF first # <<>> THEN first ELSE second

ParseRateLimit(sdk, headers) ==
  LET Of(item, key) == ToNumber(sdk, Parameter(item, key)) IN
    [limit |-> Or(Of(headers.policy, "q"), ToNumber(sdk, headers.limit)),
     remaining |-> Or(Of(headers.state, "r"), ToNumber(sdk, headers.remaining)),
     reset |-> Of(headers.state, "t"),
     window |-> Of(headers.policy, "w"),
     retryAfter |-> RetryAfter(sdk, headers.retryAfter)]

(* null, nil, None                                                         *)
NoInfo == [f \in {"limit", "remaining", "reset", "window", "retryAfter"} |-> <<>>]

(* Mutant: ... and no ValueError is caught.                                *)
RaisesOnWords(sdk, headers) ==
  /\ sdk = "python"
  /\ \E field \in {headers.limit, headers.remaining, headers.retryAfter} :
       Overflows(field) \/ field.form \in {"words", "date"}

(* Python looks at the historical pair only where it needs it.             *)
ParseRaises(sdk, headers) ==
  LET q == Parameter(headers.policy, "q")
      r == Parameter(headers.state, "r")
      read == {q, r, Parameter(headers.policy, "w"), Parameter(headers.state, "t"),
               headers.retryAfter}
                \union (IF ToNumber(sdk, q) = <<>> THEN {headers.limit} ELSE {})
                \union (IF ToNumber(sdk, r) = <<>> THEN {headers.remaining} ELSE {})
  IN sdk = "python" /\ \E field \in read : Overflows(field)

-----------------------------------------------------------------------------
(* time.Duration(seconds) * time.Second                                    *)
Duration(n) == ((n + Word \div 2) % Word) - Word \div 2

(* retryDelayMs, retryDelay, _retry_delay                                  *)
RetryDelay(sdk, info) ==
  LET wait == Or(info.retryAfter, Or(info.reset, <<Second>>))[1]
  IN CASE sdk = "ts" -> AtLeastZero(wait)
       [] sdk = "python" -> wait
       [] OTHER -> Duration(wait)
=============================================================================

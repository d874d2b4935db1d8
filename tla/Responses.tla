------------------------------ MODULE Responses ------------------------------
(***************************************************************************)
(* One AOA, three SDKs: the same call is made with each of them, and each  *)
(* gets the same replies.  What a reply means to the caller (a result, an  *)
(* error of which code, a retry after how long) and what the client knows  *)
(* of its rate limit afterwards.                                           *)
(*                                                                         *)
(* A reply has a status, headers (RateLimitHeaders) and a body: empty,     *)
(* text (no JSON), string, null, list, data (an envelope with the data of  *)
(* the operation), other (one with other data) or error, whose members     *)
(* code, message and hint are strings unless they are in NotAString.       *)
(***************************************************************************)
EXTENDS RateLimitHeaders, TLC

CONSTANTS
  Replies,        \* what AOA, or a proxy in front of it, may reply
  MaxRetries,
  MaxRetryDelay

ASSUME ResponsesAssumption ==
  /\ MaxRetries \in Nat
  /\ MaxRetryDelay \in Nat /\ MaxRetryDelay < Word \div 2
  /\ \A r \in Replies : r.headers \in HeaderSets

NotAString == {"absent", "null", "number"}
Succeeds(status) == status \in 200 .. 299

VARIABLES
  reply,      \* to the last attempt, <<>> while it is awaited
  rateLimit,  \* client.rateLimit, RateLimit(), rate_limit
  call        \* the call on each client: where it is, attempts made, the wait
              \* before the next, how it ended

vars == <<reply, rateLimit, call>>

Outcome(kind, code, message, hint, info) ==
  [kind |-> kind, code |-> code, message |-> message, hint |-> hint,
   rateLimit |-> info]
Pending == Outcome("pending", "", "", "", NoInfo)
Raised == Outcome("raised", "", "", "", NoInfo)
Sent(attempt) == [at |-> "sent", attempt |-> attempt, wait |-> 0,
                  outcome |-> Pending]
Ended(attempt, outcome) == [at |-> "over", attempt |-> attempt, wait |-> 0,
                            outcome |-> outcome]

Init ==
  /\ reply = <<>>
  /\ rateLimit = [sdk \in Sdks |-> NoInfo]
  /\ call = [sdk \in Sdks |-> Sent(0)]

-----------------------------------------------------------------------------
(* TypeScript returns all JSON but a string, and undefined for no body;    *)
(* Python any object; Go what json.Unmarshal puts into the envelope.       *)
Readable(sdk, body) ==
  body.form \in CASE sdk = "ts" -> {"empty", "null", "list", "data", "other", "error"}
                  [] sdk = "python" -> {"data", "other", "error"}
                  [] OTHER -> {"null", "data", "error"}

HttpCode(status) == "http_" \o ToString(status)

(* Mutant: Go does not ask for a code.                                     *)
HasUncodedEnvelope(sdk, body) ==
  /\ body.form = "error"
  /\ IF IsGo(sdk) THEN "number" \notin {body.code, body.message, body.hint}
                  ELSE body.code \notin NotAString

(* Go asks for strings everywhere, or null, and for a code to speak of.    *)
HasEnvelope(sdk, body) ==
  /\ body.form = "error"
  /\ IF IsGo(sdk)
       THEN /\ "number" \notin {body.code, body.message, body.hint}
            /\ body.code \notin {"absent", "null", ""}
       ELSE body.code \notin NotAString

OrElse(member, default) == IF member \in NotAString THEN default ELSE member

(* errorFromResponse; reason stands for the status line.                   *)
ErrorFromResponse(sdk, status, body, info) ==
  IF HasEnvelope(sdk, body)
    THEN Outcome("error", body.code,
                 OrElse(body.message, IF IsGo(sdk) THEN "" ELSE "reason"),
                 OrElse(body.hint, ""), info)
    ELSE Outcome("error", HttpCode(status), "reason", "", info)

Finished(sdk, r, info) ==
  IF ~Succeeds(r.status) THEN ErrorFromResponse(sdk, r.status, r.body, info)
  ELSE IF Readable(sdk, r.body) THEN Outcome("ok", "", "", "", info)
  ELSE Outcome("error", "invalid_response", "expected JSON", "", info)

(* Mutant: the longest wait is not looked at.                              *)
AfterAnyWait(sdk, r, info) ==
  LET attempt == call[sdk].attempt IN
    IF r.status = 429 /\ attempt < MaxRetries
      THEN [at |-> "sleeping", attempt |-> attempt, outcome |-> Pending,
            wait |-> AtLeastZero(RetryDelay(sdk, info))]
      ELSE Ended(attempt, Finished(sdk, r, info))

(* Mutant: the wait is taken from client.rateLimit, the last one known.    *)
AfterAsKnown(sdk, r, info) ==
  LET attempt == call[sdk].attempt
      delay == RetryDelay(sdk, IF info # NoInfo THEN info ELSE rateLimit[sdk])
      retries == r.status = 429 /\ attempt < MaxRetries /\ delay <= MaxRetryDelay
  IN IF ParseRaises(sdk, r.headers) THEN Ended(attempt, Raised)
     ELSE IF ~retries THEN Ended(attempt, Finished(sdk, r, info))
     ELSE IF sdk = "python" /\ delay < 0 THEN Ended(attempt, Raised)
     ELSE [at |-> "sleeping", attempt |-> attempt, wait |-> AtLeastZero(delay),
           outcome |-> Pending]

(* What follows from a reply to an attempt.  A wait below zero is none to  *)
(* a Go timer and a ValueError to time.sleep.                              *)
After(sdk, r, info) ==
  LET attempt == call[sdk].attempt
      delay == RetryDelay(sdk, info)
      retries == r.status = 429 /\ attempt < MaxRetries /\ delay <= MaxRetryDelay
  IN IF ParseRaises(sdk, r.headers) THEN Ended(attempt, Raised)
     ELSE IF ~retries THEN Ended(attempt, Finished(sdk, r, info))
     ELSE IF sdk = "python" /\ delay < 0 THEN Ended(attempt, Raised)
     ELSE [at |-> "sleeping", attempt |-> attempt, wait |-> AtLeastZero(delay),
           outcome |-> Pending]

Known(sdk, r, info) ==
  IF call[sdk].at = "sent" /\ ~ParseRaises(sdk, r.headers) /\ info # NoInfo
    THEN info ELSE rateLimit[sdk]

Receive(r) ==
  /\ \E sdk \in Sdks : call[sdk].at = "sent"
  /\ reply' = <<r>>
  /\ LET info == [sdk \in Sdks |-> ParseRateLimit(sdk, r.headers)] IN
       /\ rateLimit' = [sdk \in Sdks |-> Known(sdk, r, info[sdk])]
       /\ call' = [sdk \in Sdks |-> IF call[sdk].at = "sent"
                                      THEN After(sdk, r, info[sdk]) ELSE call[sdk]]

(* The waits are over.                                                     *)
Retry ==
  /\ \E sdk \in Sdks : call[sdk].at = "sleeping"
  /\ call' = [sdk \in Sdks |-> IF call[sdk].at = "sleeping"
                                 THEN Sent(call[sdk].attempt + 1) ELSE call[sdk]]
  /\ reply' = <<>>
  /\ UNCHANGED rateLimit

NextCall ==
  /\ \A sdk \in Sdks : call[sdk].at = "over"
  /\ call' = [sdk \in Sdks |-> Sent(0)]
  /\ reply' = <<>>
  /\ UNCHANGED rateLimit

Next == (\E r \in Replies : Receive(r)) \/ Retry \/ NextCall

Spec == Init /\ [][Next]_vars

-----------------------------------------------------------------------------
(* A call sleeps or is over only with what belongs there; waits fit.       *)
TypeOK ==
  /\ \A sdk \in Sdks :
       /\ call[sdk].at \in {"sent", "sleeping", "over"}
       /\ call[sdk].attempt \in 0 .. MaxRetries
       /\ call[sdk].wait \in 0 .. MaxRetryDelay
       /\ call[sdk].at = "over" <=> call[sdk].outcome # Pending
       /\ \A f \in DOMAIN NoInfo : rateLimit[sdk][f] = <<>> \/ rateLimit[sdk][f][1] \in Int

(* One contract, three implementations: where they were in the same state, *)
(* a reply with quotas in whole numbers and a body AOA documents, or none  *)
(* of its making, leaves them in the same state: the same wait or the same *)
(* result or error, the same rate limit known.  Left out is all they do    *)
(* not agree on: fractions, negative and infinite numbers, waits beyond    *)
(* Go's Duration, a date less than a millisecond past a whole second, a    *)
(* 2xx with JSON that is no envelope, members that are no strings.         *)
PlainNumber(field) == field.value \in 0 .. Word \div 2 - 1 /\ field.value % Second = 0
PlainField(field) ==
  CASE field.form = "number" -> PlainNumber(field)
    [] field.form \in {"absent", "blank", "words"} -> TRUE
    [] OTHER -> FALSE
PlainRetryAfter(field) ==
  IF field.form = "date" THEN /\ field.value % Second \notin 1 .. Millisecond - 1
                              /\ Ceiling(field.value) * Second < Word \div 2
                         ELSE PlainField(field)
PlainItem(item) == \A i \in DOMAIN item : PlainField(item[i].value)
PlainHeaders(h) == /\ PlainItem(h.policy) /\ PlainItem(h.state)
                   /\ PlainField(h.limit) /\ PlainField(h.remaining)
                   /\ PlainRetryAfter(h.retryAfter)
PlainError(body) ==
  \/ body.code \in NotAString
  \/ body.code # "" /\ body.message \notin NotAString /\ body.hint # "number"
PlainBody(status, body) ==
  IF Succeeds(status) THEN body.form \in {"data", "error", "text", "string"}
                      ELSE body.form = "error" => PlainError(body)
Plain(r) == PlainHeaders(r.headers) /\ PlainBody(r.status, r.body)
InStep == \A a, b \in Sdks : call[a] = call[b] /\ rateLimit[a] = rateLimit[b]
SdksAgree == [][InStep /\ (reply' # <<>> => Plain(reply'[1])) => InStep']_vars

(* "Waiting for Retry-After each time": no SDK comes back before the time  *)
(* the 429 named, in seconds or as a date, or before the reset where there *)
(* is no Retry-After.  Go and Python drop fractions of a number, Python    *)
(* is up to a millisecond early at a date, and Go is early after what      *)
(* neither int nor Duration holds.                                         *)
Naming(h) == IF h.retryAfter.form \in {"number", "date"} THEN h.retryAfter
             ELSE Parameter(h.state, "t")
Named(field) == IF field.form \in {"number", "date"} THEN AtLeastZero(field.value) ELSE 0
Early(sdk, field) ==
  CASE sdk # "ts" /\ field.form = "number" -> Second - 1
    [] sdk = "python" /\ field.form = "date" -> Millisecond - 1
    [] OTHER -> 0
InDuration(field) ==
  CASE field.form = "date" -> Ceiling(Named(field)) * Second < Word \div 2
    [] field.form = "number" -> field.value \in - (Word \div 2) .. Word \div 2 - 1
    [] OTHER -> field.form \notin {"nan", "infinity"}
BeyondGo(h) == ~ InDuration(Naming(h)) \/ h.retryAfter.form \in {"nan", "infinity"}
NeverEarly ==
  \A sdk \in Sdks : call[sdk].at = "sleeping" =>
    LET h == reply[1].headers IN
      \/ Named(Naming(h)) - call[sdk].wait <= Early(sdk, Naming(h))
      \/ IsGo(sdk) /\ BeyondGo(h)

(* The result of a booking never falls victim to a rate-limit header: the  *)
(* data of a 2xx reaches the caller, and what is not a result is an error  *)
(* of the SDK's own class.  Python is the exception: an infinite number in *)
(* a header, or a reset below zero that it is to wait for, raises what its *)
(* callers do not catch.                                                   *)
Below(field) == field.form = "number" /\ field.value < 0
InfiniteIn(h) ==
  \E field \in {h.limit, h.remaining, h.retryAfter}
                  \union {h.policy[i].value : i \in DOMAIN h.policy}
                  \union {h.state[i].value : i \in DOMAIN h.state} : Overflows(field)
PythonFails(r) == \/ InfiniteIn(r.headers)
                  \/ r.status = 429 /\ Below(Parameter(r.headers.state, "t"))
Survives(sdk, r, outcome) ==
  IF outcome.kind = "raised" THEN sdk = "python" /\ PythonFails(r)
  ELSE Succeeds(r.status) /\ r.body.form = "data" => outcome.kind = "ok"
ResultSurvivesHeaders ==
  [][\A sdk \in Sdks : call[sdk].at # "over" /\ call'[sdk].at = "over"
                        => Survives(sdk, reply'[1], call'[sdk].outcome)]_vars

(* "Do not wait longer than this for one retry; a longer Retry-After       *)
(* surfaces as an AoaApiError instead": no SDK waits longer than its own   *)
(* 429 names, in whole seconds, or a second where it names nothing,        *)
(* whatever earlier responses said; and it gives a 429 up while attempts   *)
(* are left only if that is more than the longest wait.                    *)
Latest(h) ==
  CASE Naming(h).form = "date" -> AtLeastZero(Naming(h).value) + Second - 1
    [] Naming(h).form = "number" -> AtLeastZero(Naming(h).value)
    [] OTHER -> Second
InTime(r, next) ==
  /\ next.at = "sleeping" => next.wait <= Latest(r.headers)
  /\ /\ r.status = 429 /\ next.attempt < MaxRetries
     /\ next.at = "over" /\ next.outcome.kind # "raised"
     => Latest(r.headers) > MaxRetryDelay
NeverLater ==
  [][\A sdk \in Sdks :
       call[sdk].at = "sent" /\ call'[sdk].at # "sent" =>
         \/ InTime(reply'[1], call'[sdk])
         \/ IsGo(sdk) /\ BeyondGo(reply'[1].headers)]_vars
=============================================================================

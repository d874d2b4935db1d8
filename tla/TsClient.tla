------------------------------ MODULE TsClient ------------------------------
(***************************************************************************)
(* The TypeScript client (sdk/typescript/src/client.ts): request() and     *)
(* sendOnce() of concurrent calls on one client, their timers, the         *)
(* callers' AbortSignals, and a crash of the process.                      *)
(*                                                                         *)
(* JavaScript runs one macrotask at a time; a step here is what runs       *)
(* between two awaits that can be interrupted:                             *)
(*   idle      request() not called yet                                    *)
(*   fetching  sendOnce awaits fetchImpl                                   *)
(*   reading   the headers are in, sendOnce awaits response.text()         *)
(*   sleeping  request awaits sleep() before the next attempt              *)
(*   settled   the promise of request() is resolved or rejected            *)
(*   crashed   the process ended while the call was running                *)
(* Time is counted in seconds and only as the seconds left on each timer.  *)
(***************************************************************************)
EXTENDS SdkCalls

CONSTANTS
  MaxRetries,     \* maxRetries of a call
  TimerLimit,     \* the longest setTimeout (2^31 - 1 ms); beyond, it fires at once
  HonoursSignal   \* fetchImpl rejects when its signal aborts

ASSUME TsAssumption ==
  /\ MaxRetries \in [Calls -> Nat]
  /\ TimerLimit \in Nat
  /\ HonoursSignal \in BOOLEAN

VARIABLES
  pc,             \* where each call is
  attempt,        \* the loop counter of request()
  key,            \* idempotencyKey of request(), chosen once per call
  timer,          \* seconds left on the timer of sendOnce or of sleep
  aborted,        \* requestOptions.signal.aborted
  reason,         \* controller.signal.reason of the current attempt
  reply,          \* the response whose body is being read
  outcome,        \* how the promise of request() settled
  lastRateLimit,  \* client.rateLimit
  owed            \* seconds left of the wait the last 429 asked for (history)

clientVars == <<pc, attempt, key, timer, aborted, reason, reply, outcome,
                lastRateLimit, owed>>
vars == <<apiVars, clientVars>>

PcValues == {"idle", "fetching", "reading", "sleeping", "settled", "crashed"}
Outcomes == {"none", "ok", "invalid_response", "limited", "failed",
             "timeout", "aborted", "network", "no_api_key", "bad_params"}

InFlight(c) == pc[c] \in {"fetching", "reading"}
Running(c) == InFlight(c) \/ pc[c] = "sleeping"

-----------------------------------------------------------------------------
(* setTimeout(f, seconds): a delay above the limit is taken as 1 ms.       *)
SetTimeout(seconds) == IF seconds > TimerLimit THEN 0 ELSE seconds

(* Mutant: the reset bound is preferred to Retry-After.                    *)
ResetBeforeRetryAfter(info) ==
  AtLeastZero(
    IF info # NoInfo /\ info.reset # Absent THEN info.reset
    ELSE IF info # NoInfo /\ info.retryAfter # Absent THEN info.retryAfter
    ELSE 1)

(* retryDelayMs: Retry-After, else the reset bound, else one second.       *)
RetryDelay(info) ==
  AtLeastZero(
    IF info # NoInfo /\ info.retryAfter # Absent THEN info.retryAfter
    ELSE IF info # NoInfo /\ info.reset # Absent THEN info.reset
    ELSE 1)

(* Mutant: a generated key is used although the caller gave one.           *)
AlwaysGenerated(c) == IF c \in KeyRequired THEN Generated[c] ELSE {NoKey}

(* idempotencyKey ?? (required ? newIdempotencyKey() : undefined); an      *)
(* empty string is "given", and then no header is set.                     *)
KeyChoices(c) ==
  IF CallerKey[c] = EmptyKey THEN {NoKey}
  ELSE IF CallerKey[c] # NotGiven THEN {CallerKey[c]}
  ELSE IF c \in KeyRequired THEN Generated[c] ELSE {NoKey}

Waiting(m) == pc[m.call] = "fetching" /\ attempt[m.call] = m.attempt

-----------------------------------------------------------------------------
ClientInit ==
  /\ pc = [c \in Calls |-> "idle"]
  /\ attempt = [c \in Calls |-> 0]
  /\ key = [c \in Calls |-> NoKey]
  /\ timer = [c \in Calls |-> 0]
  /\ aborted = [c \in Calls |-> FALSE]
  /\ reason = [c \in Calls |-> "none"]
  /\ reply = [c \in Calls |-> NoReply]
  /\ outcome = [c \in Calls |-> "none"]
  /\ lastRateLimit = NoInfo
  /\ owed = [c \in Calls |-> 0]

Init == ApiInit /\ ClientInit

(* The promise of request() settles; finally clears the timer.             *)
Settle(c, o) ==
  /\ pc' = [pc EXCEPT ![c] = "settled"]
  /\ outcome' = [outcome EXCEPT ![c] = o]
  /\ timer' = [timer EXCEPT ![c] = 0]
  /\ owed' = [owed EXCEPT ![c] = 0]
  /\ reason' = [reason EXCEPT ![c] = "none"]
  /\ reply' = [reply EXCEPT ![c] = NoReply]
  /\ responses' = Others(c)
  /\ UNCHANGED <<requests, bookings, attempt, key, aborted>>

(* sendOnce up to its first await, for attempt n under key k.              *)
SendOnce(c, n, k) ==
  /\ requests' = requests \cup {NewRequest(c, n, k)}
  /\ pc' = [pc EXCEPT ![c] = "fetching"]
  /\ attempt' = [attempt EXCEPT ![c] = n]
  /\ key' = [key EXCEPT ![c] = k]
  /\ timer' = [timer EXCEPT ![c] = SetTimeout(Timeout)]
  /\ owed' = [owed EXCEPT ![c] = 0]
  /\ UNCHANGED <<responses, bookings, aborted, reason, reply, outcome>>

(* Mutant: sendOnce does not look at signal.aborted before it fetches.     *)
StartUnchecked(c) ==
  /\ pc[c] = "idle"
  /\ UNCHANGED lastRateLimit
  /\ c \in NeedsAuth => c \in HasApiKey
  /\ c \notin BadParams
  /\ \E k \in KeyChoices(c) : SendOnce(c, 0, k)

(* Mutant: the checks come after the first request.                        *)
StartThenCheck(c) ==
  /\ pc[c] = "idle"
  /\ UNCHANGED lastRateLimit
  /\ requests' = requests \cup {NewRequest(c, 0, k) : k \in KeyChoices(c)}
  /\ pc' = [pc EXCEPT ![c] = "settled"]
  /\ outcome' = [outcome EXCEPT ![c] = "bad_params"]
  /\ UNCHANGED <<responses, bookings, attempt, key, timer, aborted, reason,
                 reply, owed>>

(* request(): the checks that refuse a call before anything is sent, then  *)
(* the first attempt.  bad_params is a throw for an unknown operation, in  *)
(* buildRequest, by newIdempotencyKey without crypto.randomUUID, or by     *)
(* JSON.stringify.                                                         *)
Start(c) ==
  /\ pc[c] = "idle"
  /\ UNCHANGED lastRateLimit
  /\ \/ /\ c \in NeedsAuth \ HasApiKey
        /\ Settle(c, "no_api_key")
     \/ /\ c \in NeedsAuth => c \in HasApiKey
        /\ c \in BadParams
        /\ Settle(c, "bad_params")
     \/ /\ c \in NeedsAuth => c \in HasApiKey
        /\ c \notin BadParams
        /\ IF aborted[c] THEN Settle(c, "aborted")
                         ELSE \E k \in KeyChoices(c) : SendOnce(c, 0, k)

(* fetchImpl resolves: the headers of the response are in.                 *)
Headers(c) ==
  /\ pc[c] = "fetching"
  /\ HonoursSignal => reason[c] = "none"
  /\ \E r \in responses :
       /\ r.call = c
       /\ reply' = [reply EXCEPT ![c] = [kind |-> r.kind, info |-> r.info]]
  /\ responses' = Others(c)
  /\ pc' = [pc EXCEPT ![c] = "reading"]
  /\ UNCHANGED <<requests, bookings, attempt, key, timer, aborted, reason,
                 outcome, lastRateLimit, owed>>

(* await sleep(delay, signal): rejects at once when the signal has fired.  *)
Sleep(c, info) ==
  IF aborted[c]
    THEN Settle(c, "aborted")
    ELSE /\ pc' = [pc EXCEPT ![c] = "sleeping"]
         /\ timer' = [timer EXCEPT ![c] = SetTimeout(RetryDelay(info))]
         /\ owed' = [owed EXCEPT ![c] = Announced(info)]
         /\ reason' = [reason EXCEPT ![c] = "none"]
         /\ reply' = [reply EXCEPT ![c] = NoReply]
         /\ UNCHANGED <<requests, responses, bookings, attempt, key, aborted,
                        outcome>>

(* Mutant: server errors are tried again as well.                          *)
RetriesFailures(c, r) ==
  /\ r.kind \in {"limited", "failed"}
  /\ attempt[c] < MaxRetries[c]
  /\ RetryDelay(r.info) <= MaxRetryDelay

(* Mutant: one retry too many.                                             *)
RetriesOnceMore(c, r) ==
  /\ r.kind = "limited"
  /\ attempt[c] <= MaxRetries[c]
  /\ RetryDelay(r.info) <= MaxRetryDelay

(* Only a 429 is tried again, and only within both limits.                 *)
Retries(c, r) ==
  /\ r.kind = "limited"
  /\ attempt[c] < MaxRetries[c]
  /\ RetryDelay(r.info) <= MaxRetryDelay

RateLimitAfter(r) == IF r.info # NoInfo THEN r.info ELSE lastRateLimit

(* response.text() resolves, sendOnce returns, request() goes on.          *)
Receive(c) ==
  /\ pc[c] = "reading"
  /\ HonoursSignal => reason[c] = "none"
  /\ lastRateLimit' = RateLimitAfter(reply[c])
  /\ IF Retries(c, reply[c])
       THEN Sleep(c, reply[c].info)
       ELSE Settle(c, OutcomeOf(reply[c].kind))

(* The timer of sleep() fires; the loop goes on to the next attempt.       *)
Wake(c) ==
  /\ pc[c] = "sleeping"
  /\ timer[c] = 0
  /\ SendOnce(c, attempt[c] + 1, key[c])
  /\ UNCHANGED lastRateLimit

(* Mutant: the timer is cleared when the headers are in.                   *)
TimerFiresBeforeHeaders(c) ==
  /\ pc[c] = "fetching"
  /\ timer[c] = 0
  /\ reason[c] = "none"
  /\ reason' = [reason EXCEPT ![c] = "timeout"]
  /\ UNCHANGED <<apiVars, pc, attempt, key, timer, aborted, reply, outcome,
                 lastRateLimit, owed>>

(* The timer of sendOnce fires: controller.abort(timeoutError).            *)
TimerFires(c) ==
  /\ InFlight(c)
  /\ timer[c] = 0
  /\ reason[c] = "none"
  /\ reason' = [reason EXCEPT ![c] = "timeout"]
  /\ UNCHANGED <<apiVars, pc, attempt, key, timer, aborted, reply, outcome,
                 lastRateLimit, owed>>

(* The caller aborts its signal: the controller of a running attempt is    *)
(* aborted for that reason unless it was before, and a sleep rejects.      *)
CallerAbort(c) ==
  /\ pc[c] = "idle" \/ Running(c)
  /\ ~aborted[c]
  /\ aborted' = [aborted EXCEPT ![c] = TRUE]
  /\ UNCHANGED lastRateLimit
  /\ IF pc[c] = "sleeping"
       THEN /\ pc' = [pc EXCEPT ![c] = "settled"]
            /\ outcome' = [outcome EXCEPT ![c] = "aborted"]
            /\ timer' = [timer EXCEPT ![c] = 0]
            /\ owed' = [owed EXCEPT ![c] = 0]
            /\ UNCHANGED <<apiVars, attempt, key, reason, reply>>
       ELSE /\ reason' = [reason EXCEPT ![c] =
                            IF InFlight(c) /\ @ = "none" THEN "caller" ELSE @]
            /\ UNCHANGED <<apiVars, pc, attempt, key, timer, reply, outcome,
                           owed>>

(* An aborted fetch or body read rejects; the catch of sendOnce tells the  *)
(* timeout from the caller's abort by the reason.                          *)
Reject(c) ==
  /\ InFlight(c)
  /\ HonoursSignal
  /\ reason[c] # "none"
  /\ Settle(c, IF reason[c] = "timeout" THEN "timeout" ELSE "aborted")
  /\ UNCHANGED lastRateLimit

(* fetch or the body fails by itself: reset connection, DNS, TLS.          *)
NetworkError(c) ==
  /\ InFlight(c)
  /\ Settle(c, IF reason[c] = "timeout" THEN "timeout" ELSE "network")
  /\ UNCHANGED lastRateLimit

(* The process ends and a new one starts: what ran is lost, what is in     *)
(* flight is not, and the new client knows no rate limit.                  *)
Crash ==
  /\ MayCrash
  /\ \E c \in Calls : Running(c)
  /\ pc' = [c \in Calls |-> IF Running(c) THEN "crashed" ELSE pc[c]]
  /\ timer' = [c \in Calls |-> 0]
  /\ owed' = [c \in Calls |-> 0]
  /\ reason' = [c \in Calls |-> "none"]
  /\ reply' = [c \in Calls |-> NoReply]
  /\ responses' = {}
  /\ lastRateLimit' = NoInfo
  /\ UNCHANGED <<requests, bookings, attempt, key, aborted, outcome>>

(* A second passes.                                                        *)
Tick ==
  /\ \E c \in Calls : timer[c] > 0
  /\ timer' = [c \in Calls |-> AtLeastZero(timer[c] - 1)]
  /\ owed' = [c \in Calls |-> AtLeastZero(owed[c] - 1)]
  /\ UNCHANGED <<apiVars, pc, attempt, key, aborted, reason, reply, outcome,
                 lastRateLimit>>

(* The API or the network deals with a request in flight.                  *)
Network ==
  /\ \E m \in requests : Serve(m, Waiting(m))
  /\ UNCHANGED clientVars

CallNext(c) ==
  \/ Start(c) \/ Headers(c) \/ Receive(c) \/ Wake(c) \/ TimerFires(c)
  \/ CallerAbort(c) \/ Reject(c) \/ NetworkError(c)

Next ==
  \/ \E c \in Calls : CallNext(c)
  \/ Crash
  \/ Tick
  \/ Network

(* Time passes, and the event loop runs what is due.  Nothing is assumed   *)
(* of the network, of the API or of the caller.                            *)
Fairness ==
  /\ WF_vars(Tick)
  /\ \A c \in Calls : /\ WF_vars(TimerFires(c))
                      /\ WF_vars(Reject(c))
                      /\ WF_vars(Wake(c))

Spec == Init /\ [][Next]_vars
FairSpec == Spec /\ Fairness
-----------------------------------------------------------------------------
(* Types, and the bounds the loop counter and the timers keep.             *)
TypeOK ==
  /\ ApiTypeOK
  /\ pc \in [Calls -> PcValues]
  /\ attempt \in [Calls -> Nat]
  /\ \A c \in Calls : /\ attempt[c] <= MaxRetries[c]
                      /\ pc[c] = "sleeping" => attempt[c] < MaxRetries[c]
  /\ key \in [Calls -> Keys \cup {NoKey}]
  /\ timer \in [Calls -> Nat]
  /\ aborted \in [Calls -> BOOLEAN]
  /\ reason \in [Calls -> {"none", "timeout", "caller"}]
  /\ reply \in [Calls -> Replies]
  /\ outcome \in [Calls -> Outcomes]
  /\ lastRateLimit \in Infos \cup {NoInfo}
  /\ owed \in [Calls -> Nat]

(* A key protects only the two operations that require one: a caller's key *)
(* on any other is sent all the same, and ignored.                         *)
Protected(c) == c \in KeyRequired \/ CallerKey[c] \in {NotGiven, EmptyKey}

(* However often request() tries, times out or is replayed by the network, *)
(* one call books or pays at most once: it retries only a 429, and sends   *)
(* every attempt under the key it chose at the start (client.ts:272-324).  *)
OncePerCall ==
  \A b1, b2 \in bookings :
    b1.call = b2.call /\ Protected(b1.call) => b1 = b2

(* options.ts:46-51: calls that carry the same caller's key, such as the   *)
(* repeat of a purchase after a crash or a timeout, book at most once      *)
(* between them.                                                           *)
OncePerPurchase ==
  \A b1, b2 \in bookings :
    /\ {b1.call, b2.call} \subseteq KeyRequired
    /\ CallerKey[b1.call] = CallerKey[b2.call]
    /\ CallerKey[b1.call] \in Keys
    => b1 = b2

(* What request() reports is so: a resolved promise means the booking of   *)
(* this call or of its key exists; a refusal before sending means nothing  *)
(* was or will be sent; a rate_limited error on a call without a key means *)
(* no booking exists or can still come of it.                              *)
OutcomeTellsTruth ==
  \A c \in Calls :
    /\ outcome[c] = "ok" =>
         \E b \in bookings : b.call = c \/ (b.key = key[c] /\ key[c] # NoKey)
    /\ outcome[c] \in {"no_api_key", "bad_params"} =>
         \A m \in requests \cup bookings : m.call # c
    /\ outcome[c] = "limited" /\ key[c] = NoKey =>
         \A m \in requests \cup bookings : m.call # c

(* A call waits at least as long as the 429 asked for, and never longer    *)
(* than maxRetryDelayMs (options.ts:21-33).                                *)
WaitsAsAsked ==
  \A c \in Calls :
    pc[c] = "sleeping" => owed[c] <= timer[c] /\ timer[c] <= MaxRetryDelay

(* A step sends a request for a call only when the call starts or its wait *)
(* is over, never once its signal is aborted or its promise is settled     *)
(* (client.ts:103-118, 221).                                               *)
SendsOnlyWhenDue ==
  [][\A m \in requests' \ requests :
       m.copy = 0 => /\ pc[m.call] \in {"idle", "sleeping"}
                     /\ ~aborted[m.call]
                     /\ owed[m.call] = 0]_vars

(* A timeout is per attempt and covers the body, a wait is bounded and an  *)
(* abort ends either: every call settles whatever the network does.        *)
EverySettles ==
  \A c \in Calls : Running(c) ~> pc[c] \in {"settled", "crashed"}
=============================================================================

------------------------------ MODULE GoClient ------------------------------
(***************************************************************************)
(* The Go client (sdk/go/client.go): do[T] of concurrent calls on one      *)
(* *Client, each in a goroutine of its caller, with their contexts, the    *)
(* timeout of the http.Client, and the rate-limit state they share.        *)
(*                                                                         *)
(*   idle      do not called yet                                           *)
(*   sending   inside httpClient.Do                                        *)
(*   reading   inside io.ReadAll(resp.Body)                                *)
(*   parsed    the response is read and its headers parsed                 *)
(*   sleeping  inside sleepContext                                         *)
(*   returned  do has returned                                             *)
(*   crashed   the process ended while do was running                      *)
(* Any goroutine may be delayed at any of these points.  Durations are     *)
(* counted in seconds; a time.Duration holds less than MaxDuration.        *)
(***************************************************************************)
EXTENDS SdkCalls

CONSTANTS
  Unconfirmed,    \* CreateTableReservation without ConfirmedByUser
  MaxRetries,     \* WithMaxRetries
  MaxDuration     \* 2^63 ns: a longer time.Duration wraps around

ASSUME GoAssumption ==
  /\ Unconfirmed \subseteq KeyRequired
  /\ MaxRetries \in Nat
  /\ MaxDuration \in Nat \ {0}

VARIABLES
  pc,         \* where each call is
  attempt,    \* the loop counter of do
  key,        \* the Idempotency-Key of do, chosen once per call
  timer,      \* seconds left of the attempt's timeout or of the sleep
  cancelled,  \* the call's context is done
  reply,      \* the response that is read or was parsed last
  outcome,    \* what do returned
  rateLimit,  \* c.rateLimit, under c.mu
  newest,     \* the headers parsed last by any goroutine (history)
  owed        \* seconds left of the wait the last 429 asked for (history)

clientVars == <<pc, attempt, key, timer, cancelled, reply, outcome, rateLimit,
                newest, owed>>
vars == <<apiVars, clientVars>>

PcValues == {"idle", "sending", "reading", "parsed", "sleeping", "returned",
             "crashed"}
Outcomes == {"none", "ok", "invalid_response", "limited", "failed", "timeout",
             "cancelled", "network", "not_confirmed", "no_api_key",
             "bad_params"}

OnTheWire(c) == pc[c] \in {"sending", "reading"}
Running(c) == OnTheWire(c) \/ pc[c] \in {"parsed", "sleeping"}
Refused(c) == c \in Unconfirmed \cup BadParams \cup (NeedsAuth \ HasApiKey)

-----------------------------------------------------------------------------
(* time.Duration(n) * time.Second is a product of int64.                   *)
Seconds(n) == ((n + MaxDuration) % (2 * MaxDuration)) - MaxDuration

(* Mutant: the default wait is taken although the server gave a reset.     *)
RetryAfterOrDefault(info) ==
  IF info # NoInfo /\ info.retryAfter # Absent THEN Seconds(info.retryAfter)
  ELSE Seconds(1)

RetryDelay(info) ==
  IF info # NoInfo /\ info.retryAfter # Absent THEN Seconds(info.retryAfter)
  ELSE IF info # NoInfo /\ info.reset # Absent THEN Seconds(info.reset)
  ELSE Seconds(1)

KeyChoices(c) ==
  IF CallerKey[c] \in Keys THEN {CallerKey[c]}
  ELSE IF c \in KeyRequired THEN Generated[c] ELSE {NoKey}

Waiting(m) == pc[m.call] = "sending" /\ attempt[m.call] = m.attempt

-----------------------------------------------------------------------------
ClientInit ==
  /\ pc = [c \in Calls |-> "idle"]
  /\ attempt = [c \in Calls |-> 0]
  /\ key = [c \in Calls |-> NoKey]
  /\ timer = [c \in Calls |-> 0]
  /\ cancelled = [c \in Calls |-> FALSE]
  /\ reply = [c \in Calls |-> NoReply]
  /\ outcome = [c \in Calls |-> "none"]
  /\ rateLimit = NoInfo
  /\ newest = NoInfo
  /\ owed = [c \in Calls |-> 0]

Init == ApiInit /\ ClientInit

Return(c, o) ==
  /\ pc' = [pc EXCEPT ![c] = "returned"]
  /\ outcome' = [outcome EXCEPT ![c] = o]
  /\ timer' = [timer EXCEPT ![c] = 0]
  /\ owed' = [owed EXCEPT ![c] = 0]
  /\ reply' = [reply EXCEPT ![c] = NoReply]
  /\ responses' = Others(c)
  /\ UNCHANGED <<requests, bookings, attempt, key, cancelled>>

(* Mutant: Do sends the request although the context is done.              *)
DoIgnoringContext(c, n, k) ==
  /\ requests' = requests \cup {NewRequest(c, n, k)}
  /\ pc' = [pc EXCEPT ![c] = "sending"]
  /\ attempt' = [attempt EXCEPT ![c] = n]
  /\ key' = [key EXCEPT ![c] = k]
  /\ timer' = [timer EXCEPT ![c] = Timeout]
  /\ owed' = [owed EXCEPT ![c] = 0]
  /\ UNCHANGED <<responses, bookings, cancelled, reply, outcome>>

(* httpClient.Do of attempt n: net/http sends nothing once the context is  *)
(* done.                                                                   *)
Do(c, n, k) ==
  IF cancelled[c] THEN Return(c, "cancelled")
  ELSE /\ requests' = requests \cup {NewRequest(c, n, k)}
       /\ pc' = [pc EXCEPT ![c] = "sending"]
       /\ attempt' = [attempt EXCEPT ![c] = n]
       /\ key' = [key EXCEPT ![c] = k]
       /\ timer' = [timer EXCEPT ![c] = Timeout]
       /\ owed' = [owed EXCEPT ![c] = 0]
       /\ UNCHANGED <<responses, bookings, cancelled, reply, outcome>>

(* Mutant: the confirmation is looked at after the first Do.               *)
ConfirmAfterDo(c) ==
  /\ pc[c] = "idle"
  /\ UNCHANGED <<rateLimit, newest>>
  /\ c \in NeedsAuth => c \in HasApiKey
  /\ c \notin BadParams
  /\ IF c \in Unconfirmed
       THEN /\ requests' = requests \cup
                            {NewRequest(c, 0, k) : k \in KeyChoices(c)}
            /\ pc' = [pc EXCEPT ![c] = "returned"]
            /\ outcome' = [outcome EXCEPT ![c] = "not_confirmed"]
            /\ UNCHANGED <<responses, bookings, attempt, key, timer,
                           cancelled, reply, owed>>
       ELSE \E k \in KeyChoices(c) : Do(c, 0, k)

(* The method of the operation and do up to its first Do.  bad_params is   *)
(* an error for a path parameter, of json.Marshal or, in the first turn of *)
(* the loop, of NewRequestWithContext.                                     *)
Start(c) ==
  /\ pc[c] = "idle"
  /\ UNCHANGED <<rateLimit, newest>>
  /\ \/ /\ c \in Unconfirmed
        /\ Return(c, "not_confirmed")
     \/ /\ c \notin Unconfirmed
        /\ c \in NeedsAuth \ HasApiKey
        /\ Return(c, "no_api_key")
     \/ /\ c \notin Unconfirmed
        /\ c \in NeedsAuth => c \in HasApiKey
        /\ c \in BadParams
        /\ Return(c, "bad_params")
     \/ /\ ~Refused(c)
        /\ \E k \in KeyChoices(c) : Do(c, 0, k)

(* Do returns the response.  A response may win against a context or a     *)
(* timeout that is done at the same time.                                  *)
Respond(c) ==
  /\ pc[c] = "sending"
  /\ \E r \in responses :
       /\ r.call = c
       /\ reply' = [reply EXCEPT ![c] = [kind |-> r.kind, info |-> r.info]]
  /\ responses' = Others(c)
  /\ pc' = [pc EXCEPT ![c] = "reading"]
  /\ UNCHANGED <<requests, bookings, attempt, key, timer, cancelled, outcome,
                 rateLimit, newest, owed>>

(* ReadAll returns and parseRateLimit looks at the headers.                *)
ReadAll(c) ==
  /\ pc[c] = "reading"
  /\ pc' = [pc EXCEPT ![c] = "parsed"]
  /\ timer' = [timer EXCEPT ![c] = 0]
  /\ newest' = IF reply[c].info # NoInfo THEN reply[c].info ELSE newest
  /\ UNCHANGED <<apiVars, attempt, key, cancelled, reply, outcome, rateLimit,
                 owed>>

(* Mutant: the timeout covers Do but not the body.                         *)
FailBeforeBody(c) ==
  /\ OnTheWire(c)
  /\ \/ cancelled[c] /\ Return(c, "cancelled")
     \/ timer[c] = 0 /\ pc[c] = "sending" /\ Return(c, "timeout")
  /\ UNCHANGED <<rateLimit, newest>>

(* Do or ReadAll fails: the context is done, the client's timeout is over, *)
(* or the connection broke.                                                *)
Fail(c) ==
  /\ OnTheWire(c)
  /\ \/ cancelled[c] /\ Return(c, "cancelled")
     \/ timer[c] = 0 /\ Return(c, "timeout")
  /\ UNCHANGED <<rateLimit, newest>>

NetworkError(c) ==
  /\ OnTheWire(c)
  /\ Return(c, "network")
  /\ UNCHANGED <<rateLimit, newest>>

(* Mutant: every 5xx is tried again like a 429.                            *)
RetriesFailures(c, r) ==
  /\ r.kind \in {"limited", "failed"}
  /\ attempt[c] < MaxRetries
  /\ RetryDelay(r.info) <= MaxRetryDelay

(* Mutant: one retry too many.                                             *)
RetriesOnceMore(c, r) ==
  /\ r.kind = "limited"
  /\ attempt[c] <= MaxRetries
  /\ RetryDelay(r.info) <= MaxRetryDelay

Retries(c, r) ==
  /\ r.kind = "limited"
  /\ attempt[c] < MaxRetries
  /\ RetryDelay(r.info) <= MaxRetryDelay

(* The goroutine takes the mutex, stores what it parsed, and goes on: it   *)
(* returns, or it creates the timer of sleepContext.                       *)
Proceed(c) ==
  /\ pc[c] = "parsed"
  /\ rateLimit' = IF reply[c].info # NoInfo THEN reply[c].info ELSE rateLimit
  /\ UNCHANGED newest
  /\ \/ /\ ~Retries(c, reply[c])
        /\ Return(c, OutcomeOf(reply[c].kind))
     \/ /\ Retries(c, reply[c])
        /\ pc' = [pc EXCEPT ![c] = "sleeping"]
        /\ timer' = [timer EXCEPT ![c] = AtLeastZero(RetryDelay(reply[c].info))]
        /\ owed' = [owed EXCEPT ![c] = Announced(reply[c].info)]
        /\ reply' = [reply EXCEPT ![c] = NoReply]
        /\ UNCHANGED <<apiVars, attempt, key, cancelled, outcome>>

(* Mutant: every attempt chooses its key anew.                             *)
SleepEndsWithNewKey(c) ==
  /\ pc[c] = "sleeping"
  /\ timer[c] = 0
  /\ \E k \in KeyChoices(c) : Do(c, attempt[c] + 1, k)
  /\ UNCHANGED <<rateLimit, newest>>

(* The select of sleepContext: when the context is done and the timer has  *)
(* fired, either case may be taken.                                        *)
SleepEnds(c) ==
  /\ pc[c] = "sleeping"
  /\ timer[c] = 0
  /\ Do(c, attempt[c] + 1, key[c])
  /\ UNCHANGED <<rateLimit, newest>>

SleepCancelled(c) ==
  /\ pc[c] = "sleeping"
  /\ cancelled[c]
  /\ Return(c, "cancelled")
  /\ UNCHANGED <<rateLimit, newest>>

(* The caller cancels the context of a call, or its deadline passes.       *)
Cancel(c) ==
  /\ pc[c] = "idle" \/ Running(c)
  /\ ~cancelled[c]
  /\ cancelled' = [cancelled EXCEPT ![c] = TRUE]
  /\ UNCHANGED <<apiVars, pc, attempt, key, timer, reply, outcome, rateLimit,
                 newest, owed>>

(* The process ends and a new one starts with a new client.                *)
Crash ==
  /\ MayCrash
  /\ \E c \in Calls : Running(c)
  /\ pc' = [c \in Calls |-> IF Running(c) THEN "crashed" ELSE pc[c]]
  /\ timer' = [c \in Calls |-> 0]
  /\ owed' = [c \in Calls |-> 0]
  /\ reply' = [c \in Calls |-> NoReply]
  /\ responses' = {}
  /\ rateLimit' = NoInfo
  /\ newest' = NoInfo
  /\ UNCHANGED <<requests, bookings, attempt, key, cancelled, outcome>>

(* A second passes.                                                        *)
Tick ==
  /\ \E c \in Calls : timer[c] > 0
  /\ timer' = [c \in Calls |-> AtLeastZero(timer[c] - 1)]
  /\ owed' = [c \in Calls |-> AtLeastZero(owed[c] - 1)]
  /\ UNCHANGED <<apiVars, pc, attempt, key, cancelled, reply, outcome,
                 rateLimit, newest>>

Network ==
  /\ \E m \in requests : Serve(m, Waiting(m))
  /\ UNCHANGED clientVars

CallNext(c) ==
  \/ Start(c) \/ Respond(c) \/ ReadAll(c) \/ Fail(c) \/ NetworkError(c)
  \/ Proceed(c) \/ SleepEnds(c) \/ SleepCancelled(c) \/ Cancel(c)

Next ==
  \/ \E c \in Calls : CallNext(c)
  \/ Crash
  \/ Tick
  \/ Network

(* Time passes and runnable goroutines run; nothing is assumed of the      *)
(* network, of the API or of the caller.                                   *)
Fairness ==
  /\ WF_vars(Tick)
  /\ \A c \in Calls : WF_vars(Fail(c)) /\ WF_vars(Proceed(c))
                      /\ WF_vars(SleepEnds(c))

Spec == Init /\ [][Next]_vars
FairSpec == Spec /\ Fairness

-----------------------------------------------------------------------------
TypeOK ==
  /\ ApiTypeOK
  /\ pc \in [Calls -> PcValues]
  /\ attempt \in [Calls -> 0..MaxRetries]
  /\ key \in [Calls -> Keys \cup {NoKey}]
  /\ timer \in [Calls -> Nat]
  /\ cancelled \in [Calls -> BOOLEAN]
  /\ reply \in [Calls -> Replies]
  /\ outcome \in [Calls -> Outcomes]
  /\ {rateLimit, newest} \subseteq Infos \cup {NoInfo}
  /\ owed \in [Calls -> Nat]

(* A call waits at least as long as the 429 asked for and never longer     *)
(* than maxRetryDelay: a longer Retry-After is an error instead            *)
(* (client.go:73-75, 286-307).                                             *)
WaitsAsAsked ==
  \A c \in Calls :
    pc[c] = "sleeping" => owed[c] <= timer[c] /\ timer[c] <= MaxRetryDelay

(* No request leaves before the wait is over, nor once the context is      *)
(* done, although the select of sleepContext may still pick the timer.     *)
SendsOnlyWhenDue ==
  [][\A m \in requests' \ requests :
       m.copy = 0 => /\ pc[m.call] \in {"idle", "sleeping"}
                     /\ ~cancelled[m.call]
                     /\ owed[m.call] = 0]_vars

(* client.go:115: RateLimit() is the state of the most recent response.    *)
(* When no goroutine is between parsing headers and storing them, the      *)
(* stored state is the one parsed last.                                    *)
RateLimitIsNewest ==
  (\A c \in Calls : pc[c] # "parsed") => rateLimit = newest

(* A call ends whatever the network does.                                  *)
EveryReturns ==
  \A c \in Calls : Running(c) ~> pc[c] \in {"returned", "crashed"}

-----------------------------------------------------------------------------
(* The state of BookingCalls this client stands for.                       *)
status ==
  [c \in Calls |->
     CASE pc[c] = "idle" -> "new"
       [] Running(c) -> "open"
       [] pc[c] = "crashed" -> "unsure"
       [] OTHER -> StatusOf(outcome[c])]

Abstract == INSTANCE BookingCalls WITH Keyed <- KeyRequired

(* Concurrent goroutines, cancelled contexts, timeouts and a crash         *)
(* notwithstanding, the Go client books a purchase at most once and        *)
(* reports what may still happen.                                          *)
ImplementsBookingCalls == Abstract!Spec
=============================================================================

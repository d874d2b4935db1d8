------------------------------ MODULE PyClient ------------------------------
(***************************************************************************)
(* The Python client (sdk/python/src/aoa_sdk): request of client.py with   *)
(* urllib_transport of transport.py under it, called from several threads  *)
(* that share one AoaClient.                                               *)
(*                                                                         *)
(*   idle      request not called yet                                      *)
(*   opening   inside _opener.open                                         *)
(*   reading   inside read() of a 2xx, or of an HTTPError                  *)
(*   sleeping  inside time.sleep, which nothing interrupts                 *)
(*   returned  request returned or raised                                  *)
(*   crashed   the process ended while request was running                 *)
(* The timeout is one of each socket operation: it starts again whenever   *)
(* bytes come in.                                                          *)
(***************************************************************************)
EXTENDS SdkCalls

CONSTANTS
  Unconfirmed,   \* create_table_reservation without confirmed_by_user
  MaxRetries     \* max_retries of a call, or of the client

ASSUME PyAssumption ==
  /\ Unconfirmed \subseteq KeyRequired
  /\ MaxRetries \in [Calls -> Nat]

VARIABLES
  pc,         \* where each call is
  attempt,    \* attempt of request
  key,        \* the Idempotency-Key in request_headers
  timer,      \* seconds left of the socket operation or of the sleep
  reply,      \* the response whose body is being read
  outcome,    \* what request returned or raised
  rateLimit,  \* _rate_limit
  owed        \* seconds left of the wait the last 429 asked for (history)

clientVars == <<pc, attempt, key, timer, reply, outcome, rateLimit, owed>>
vars == <<apiVars, clientVars>>

PcValues == {"idle", "opening", "reading", "sleeping", "returned", "crashed"}

(* connection: AoaConnectionError; the last four are errors that are no    *)
(* AoaError: TimeoutError, another OSError, IncompleteRead, and the        *)
(* ValueError of time.sleep.                                               *)
Outcomes == {"none", "ok", "invalid_response", "limited", "failed",
             "connection", "timeout_error", "os_error", "incomplete_read",
             "negative_sleep"} \cup Refusals

OnTheWire(c) == pc[c] \in {"opening", "reading"}
Running(c) == OnTheWire(c) \/ pc[c] = "sleeping"

-----------------------------------------------------------------------------
(* Mutant: the reset bound is preferred to Retry-After.                    *)
ResetBeforeRetryAfter(info) ==
  IF info # NoInfo /\ info.reset # Absent THEN info.reset
  ELSE IF info # NoInfo /\ info.retryAfter # Absent THEN info.retryAfter
  ELSE 1

RetryDelay(info) ==
  IF info # NoInfo /\ info.retryAfter # Absent THEN info.retryAfter
  ELSE IF info # NoInfo /\ info.reset # Absent THEN info.reset
  ELSE 1

(* idempotency_key or (uuid4() if generate_idempotency_key else None)      *)
KeyChoices(c) ==
  IF CallerKey[c] \in Keys THEN {CallerKey[c]}
  ELSE IF c \in KeyRequired THEN Generated[c] ELSE {NoKey}

Waiting(m) == pc[m.call] = "opening" /\ attempt[m.call] = m.attempt

ClientInit ==
  /\ pc = [c \in Calls |-> "idle"]
  /\ attempt = [c \in Calls |-> 0]
  /\ key = [c \in Calls |-> NoKey]
  /\ timer = [c \in Calls |-> 0]
  /\ reply = [c \in Calls |-> NoReply]
  /\ outcome = [c \in Calls |-> "none"]
  /\ rateLimit = NoInfo
  /\ owed = [c \in Calls |-> 0]

Init == ApiInit /\ ClientInit

Return(c, o) ==
  /\ pc' = [pc EXCEPT ![c] = "returned"]
  /\ outcome' = [outcome EXCEPT ![c] = o]
  /\ timer' = [timer EXCEPT ![c] = 0]
  /\ owed' = [owed EXCEPT ![c] = 0]
  /\ reply' = [reply EXCEPT ![c] = NoReply]
  /\ responses' = Others(c)
  /\ UNCHANGED <<requests, bookings, attempt, key>>

(* The transport is called for attempt n.                                  *)
Open(c, n, k) ==
  /\ requests' = requests \cup {NewRequest(c, n, k)}
  /\ pc' = [pc EXCEPT ![c] = "opening"]
  /\ attempt' = [attempt EXCEPT ![c] = n]
  /\ key' = [key EXCEPT ![c] = k]
  /\ timer' = [timer EXCEPT ![c] = Timeout]
  /\ owed' = [owed EXCEPT ![c] = 0]
  /\ UNCHANGED <<responses, bookings, reply, outcome>>

(* The method of the operation and request up to its first transport call. *)
(* bad_params is a ValueError for a path parameter or an error of          *)
(* json.dumps.                                                             *)
Start(c) ==
  /\ pc[c] = "idle"
  /\ UNCHANGED rateLimit
  /\ \/ c \in Unconfirmed /\ Return(c, "not_confirmed")
     \/ /\ c \in (NeedsAuth \ HasApiKey) \ Unconfirmed
        /\ Return(c, "no_api_key")
     \/ /\ c \in BadParams \ (Unconfirmed \cup (NeedsAuth \ HasApiKey))
        /\ Return(c, "bad_params")
     \/ /\ c \notin Unconfirmed \cup BadParams \cup (NeedsAuth \ HasApiKey)
        /\ \E k \in KeyChoices(c) : Open(c, 0, k)

(* The headers are in: open returns the response, or raises HTTPError.     *)
Headers(c) ==
  /\ pc[c] = "opening"
  /\ \E r \in responses :
       /\ r.call = c
       /\ reply' = [reply EXCEPT ![c] = [kind |-> r.kind, info |-> r.info]]
  /\ responses' = Others(c)
  /\ pc' = [pc EXCEPT ![c] = "reading"]
  /\ timer' = [timer EXCEPT ![c] = Timeout]
  /\ UNCHANGED <<requests, bookings, attempt, key, outcome, rateLimit, owed>>

(* Some bytes of the headers or of the body come in, but not all.          *)
Trickle(c) ==
  /\ pc[c] = "reading" \/ (pc[c] = "opening" /\ Others(c) # responses)
  /\ timer[c] < Timeout
  /\ timer' = [timer EXCEPT ![c] = Timeout]
  /\ UNCHANGED <<apiVars, pc, attempt, key, reply, outcome, rateLimit, owed>>

-----------------------------------------------------------------------------
(* Mutant: server errors are tried again as well.                          *)
RetriesFailures(c, r) ==
  /\ r.kind \in {"limited", "failed"}
  /\ attempt[c] < MaxRetries[c]
  /\ RetryDelay(r.info) <= MaxRetryDelay

(* Mutant: one retry too many.                                             *)
RetriesOnceMore(c, r) ==
  /\ r.kind = "limited"
  /\ attempt[c] <= MaxRetries[c]
  /\ RetryDelay(r.info) <= MaxRetryDelay

Retries(c, r) ==
  /\ r.kind = "limited"
  /\ attempt[c] < MaxRetries[c]
  /\ RetryDelay(r.info) <= MaxRetryDelay

Sleep(c, info) ==
  /\ pc' = [pc EXCEPT ![c] = "sleeping"]
  /\ timer' = [timer EXCEPT ![c] = RetryDelay(info)]
  /\ owed' = [owed EXCEPT ![c] = Announced(info)]
  /\ reply' = [reply EXCEPT ![c] = NoReply]
  /\ UNCHANGED <<apiVars, attempt, key, outcome>>

(* The body is in; request stores the rate limit and returns, raises, or   *)
(* sleeps.  time.sleep of a negative delay raises.                         *)
Receive(c) ==
  /\ pc[c] = "reading"
  /\ rateLimit' = IF reply[c].info # NoInfo THEN reply[c].info ELSE rateLimit
  /\ \/ ~Retries(c, reply[c]) /\ Return(c, OutcomeOf(reply[c].kind))
     \/ /\ Retries(c, reply[c])
        /\ RetryDelay(reply[c].info) < 0
        /\ Return(c, "negative_sleep")
     \/ /\ Retries(c, reply[c])
        /\ RetryDelay(reply[c].info) >= 0
        /\ Sleep(c, reply[c].info)

(* The time of a socket operation is over, or the connection breaks.  What *)
(* open or the read of a 2xx raises becomes an AoaConnectionError; the     *)
(* read of an HTTPError is inside an except clause and escapes the others. *)
ReadsError(c) == pc[c] = "reading" /\ reply[c].kind \in {"limited", "failed"}

(* Mutant: the body of a response is read without a timeout.               *)
TimesOutOpening(c) ==
  /\ pc[c] = "opening"
  /\ timer[c] = 0
  /\ Return(c, "connection")
  /\ UNCHANGED rateLimit

TimesOut(c) ==
  /\ OnTheWire(c)
  /\ timer[c] = 0
  /\ Return(c, IF ReadsError(c) THEN "timeout_error" ELSE "connection")
  /\ UNCHANGED rateLimit

Breaks(c) ==
  /\ OnTheWire(c)
  /\ Return(c, IF ReadsError(c) THEN "os_error" ELSE "connection")
  /\ UNCHANGED rateLimit

(* The peer closes before the length it announced: IncompleteRead is no    *)
(* OSError.                                                                *)
CutShort(c) ==
  /\ pc[c] = "reading"
  /\ Return(c, "incomplete_read")
  /\ UNCHANGED rateLimit

Wake(c) ==
  /\ pc[c] = "sleeping"
  /\ timer[c] = 0
  /\ Open(c, attempt[c] + 1, key[c])
  /\ UNCHANGED rateLimit

(* The process ends and a new one starts with a new client.                *)
Crash ==
  /\ MayCrash
  /\ \E c \in Calls : Running(c)
  /\ pc' = [c \in Calls |-> IF Running(c) THEN "crashed" ELSE pc[c]]
  /\ timer' = [c \in Calls |-> 0]
  /\ owed' = [c \in Calls |-> 0]
  /\ reply' = [c \in Calls |-> NoReply]
  /\ responses' = {}
  /\ rateLimit' = NoInfo
  /\ UNCHANGED <<requests, bookings, attempt, key, outcome>>

(* A second passes.                                                        *)
Tick ==
  /\ \E c \in Calls : timer[c] > 0
  /\ timer' = [c \in Calls |-> AtLeastZero(timer[c] - 1)]
  /\ owed' = [c \in Calls |-> AtLeastZero(owed[c] - 1)]
  /\ UNCHANGED <<apiVars, pc, attempt, key, reply, outcome, rateLimit>>

Network ==
  /\ \E m \in requests : Serve(m, Waiting(m))
  /\ UNCHANGED clientVars

CallNext(c) ==
  \/ Start(c) \/ Headers(c) \/ Trickle(c) \/ Receive(c) \/ TimesOut(c)
  \/ Breaks(c) \/ CutShort(c) \/ Wake(c)

Next ==
  \/ \E c \in Calls : CallNext(c)
  \/ Crash
  \/ Tick
  \/ Network

(* Time passes, and a thread whose timer is over runs.                     *)
Fairness ==
  /\ WF_vars(Tick)
  /\ \A c \in Calls : WF_vars(TimesOut(c)) /\ WF_vars(Wake(c))

Spec == Init /\ [][Next]_vars
FairSpec == Spec /\ Fairness

-----------------------------------------------------------------------------
TypeOK ==
  /\ ApiTypeOK
  /\ pc \in [Calls -> PcValues]
  /\ attempt \in [Calls -> Nat]
  /\ \A c \in Calls : attempt[c] <= MaxRetries[c]
  /\ key \in [Calls -> Keys \cup {NoKey}]
  /\ timer \in [Calls -> Nat]
  /\ reply \in [Calls -> Replies]
  /\ outcome \in [Calls -> Outcomes]
  /\ rateLimit \in Infos \cup {NoInfo}
  /\ owed \in [Calls -> Nat]

(* client.py:91-93: a thread sleeps at least as long as the 429 asked for, *)
(* and never longer than max_retry_delay.                                  *)
WaitsAsAsked ==
  \A c \in Calls :
    pc[c] = "sleeping" => owed[c] <= timer[c] /\ timer[c] <= MaxRetryDelay

(* request ends whatever the network does, unless the server keeps sending *)
(* a few bytes within every timeout, for ever (transport.py:62).           *)
EveryReturns ==
  \A c \in Calls :
    \/ []<><<Trickle(c)>>_vars
    \/ Running(c) ~> pc[c] \in {"returned", "crashed"}

(* errors.py:57-58: a call that ran into its timeout raises                *)
(* AoaConnectionError, wherever in the exchange the time was lost.         *)
TimeoutsAreConnectionErrors == \A c \in Calls : outcome[c] # "timeout_error"

(* The state of BookingCalls this client stands for.                       *)
status ==
  [c \in Calls |->
     CASE pc[c] = "idle" -> "new"
       [] Running(c) -> "open"
       [] pc[c] = "crashed" -> "unsure"
       [] OTHER -> StatusOf(outcome[c])]

Abstract == INSTANCE BookingCalls WITH Keyed <- KeyRequired

(* Threads, retries, errors of every kind and a crash notwithstanding, the *)
(* Python client books a purchase at most once and reports what may still  *)
(* happen.                                                                 *)
ImplementsBookingCalls == Abstract!Spec
=============================================================================

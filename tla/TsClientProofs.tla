--------------------------- MODULE TsClientProofs ---------------------------
(***************************************************************************)
(* Proofs about TsClient, for any number of calls, keys, retries and       *)
(* replays.  IInv is the inductive invariant: it says which requests and   *)
(* responses of a call can be in flight in each of its phases, which is    *)
(* what makes "at most one booking" survive retries and late requests.     *)
(*                                                                         *)
(* The last part proves TsBookings: each step of the client is one of      *)
(* KeyedCalls, or changes nothing KeyedCalls sees, and KeyedCalls          *)
(* implements BookingCalls.                                                *)
(***************************************************************************)
EXTENDS TsBookings, TLAPS

(* An attempt has a response on its way only while it waits for headers.   *)
ResponsesAwaited ==
  \A r \in responses : pc[r.call] = "fetching" /\ r.attempt = attempt[r.call]

(* Every request of a call carries the key chosen at its start.            *)
OneKeyPerCall ==
  \A m \in requests \cup bookings :
    /\ pc[m.call] # "idle"
    /\ m.key = key[m.call]
    /\ m.key \in KeyChoices(m.call)
    /\ outcome[m.call] \notin {"no_api_key", "bad_params"}

(* The API holds at most one booking of a key, and none without where a    *)
(* key is required.                                                        *)
OneBookingPerKey ==
  /\ \A b \in bookings : b.call \in KeyRequired => b.key # NoKey
  /\ \A b1, b2 \in bookings :
       /\ b1.call \in KeyRequired /\ b2.call \in KeyRequired
       /\ b1.key = b2.key
       => b1 = b2

(* A request without a key is the only one of its call, is of the current  *)
(* attempt, and nothing is known of it yet.                                *)
UnkeyedRequestUnanswered ==
  \A m \in requests : m.key = NoKey =>
    /\ m.copy = 0
    /\ m.attempt = attempt[m.call]
    /\ pc[m.call] \notin {"reading", "sleeping"}
    /\ outcome[m.call] # "limited"
    /\ \A r \in responses : r.call # m.call
    /\ \A b \in bookings : b.call # m.call

(* A booking without a key is of the current attempt, and no 429 answers   *)
(* that attempt.                                                           *)
UnkeyedBookingNotLimited ==
  \A b \in bookings : b.key = NoKey =>
    /\ b.copy = 0
    /\ b.attempt = attempt[b.call]
    /\ pc[b.call] # "sleeping"
    /\ outcome[b.call] # "limited"
    /\ pc[b.call] = "reading" => reply[b.call].kind # "limited"
    /\ \A r \in responses : r.call = b.call => r.kind # "limited"

Booked(c) ==
  \E b \in bookings : b.call = c \/ (b.key = key[c] /\ key[c] # NoKey)

(* A 2xx that carries JSON is the answer to a booking.                     *)
OkMeansBooked ==
  /\ \A r \in responses : r.kind = "ok" => Booked(r.call)
  /\ \A c \in Calls : pc[c] = "reading" /\ reply[c].kind = "ok" => Booked(c)
  /\ \A c \in Calls : outcome[c] = "ok" => Booked(c)

(* A call has no outcome while it runs, and its key is a legal choice.     *)
Phases ==
  \A c \in Calls :
    /\ pc[c] \in {"idle", "fetching", "reading", "sleeping"} => outcome[c] = "none"
    /\ pc[c] = "reading" => reply[c] # NoReply
    /\ Running(c) => key[c] \in KeyChoices(c)
    /\ outcome[c] # "none" => pc[c] = "settled"

IInv ==
  /\ TypeOK
  /\ ResponsesAwaited
  /\ OneKeyPerCall
  /\ OneBookingPerKey
  /\ UnkeyedRequestUnanswered
  /\ UnkeyedBookingNotLimited
  /\ OkMeansBooked
  /\ Phases

(* A wait lasts as long as the 429 asked for, and an abort ends it.        *)
WaitInv ==
  \A c \in Calls :
    /\ pc[c] = "sleeping" => /\ owed[c] <= timer[c]
                             /\ timer[c] <= MaxRetryDelay
                             /\ aborted[c] = FALSE
    /\ pc[c] # "sleeping" => owed[c] = 0

-----------------------------------------------------------------------------
USE ApiAssumption, SdkAssumption, TsAssumption

(* A wait is a number of seconds, whatever the headers say.                *)
LEMMA WaitsAreNaturals ==
  ASSUME NEW info \in Infos \cup {NoInfo}
  PROVE  /\ RetryDelay(info) \in Nat
         /\ SetTimeout(RetryDelay(info)) \in Nat
         /\ Announced(info) \in Nat
         /\ Announced(info) <= RetryDelay(info)
<1>1. CASE info = NoInfo
  BY <1>1 DEF RetryDelay, SetTimeout, Announced, AtLeastZero
<1>2. CASE info \in Infos
  <2>1. /\ info.retryAfter \in Nat \cup {Absent}
        /\ info.reset \in Int \cup {Absent}
    BY <1>2
  <2> QED
    BY <1>2, <2>1 DEF RetryDelay, SetTimeout, Announced, AtLeastZero
<1> QED
  BY <1>1, <1>2

(* The key of a call is one of its callers' or generated keys, or none.    *)
LEMMA KeysChosen ==
  ASSUME NEW c \in Calls, NEW k \in KeyChoices(c)
  PROVE  k \in Keys \cup {NoKey}
  BY DEF KeyChoices

(* Settling a call with any outcome keeps the types.                       *)
LEMMA SettleType ==
  ASSUME TypeOK, NEW c \in Calls, NEW o \in Outcomes, Settle(c, o),
         lastRateLimit' \in Infos \cup {NoInfo}
  PROVE  TypeOK'
  BY DEF TypeOK, ApiTypeOK, Settle, Others, PcValues, Replies

(* So does sending the request of an attempt within maxRetries.            *)
LEMMA SendOnceType ==
  ASSUME TypeOK, NEW c \in Calls, NEW n \in Nat, n <= MaxRetries[c],
         NEW k \in Keys \cup {NoKey}, SendOnce(c, n, k),
         UNCHANGED lastRateLimit
  PROVE  TypeOK'
<1>1. NewRequest(c, n, k) \in Request
  BY DEF NewRequest, Request
<1>2. requests' \subseteq Request
  BY <1>1 DEF SendOnce, TypeOK, ApiTypeOK
<1>3. SetTimeout(Timeout) \in Nat
  BY DEF SetTimeout
<1> QED
  BY <1>2, <1>3 DEF TypeOK, ApiTypeOK, SendOnce, PcValues

(* The network and the API keep the types of what they exchange.           *)
LEMMA ServeType ==
  ASSUME ApiTypeOK, NEW m \in requests, NEW waiting \in BOOLEAN,
         Serve(m, waiting)
  PROVE  ApiTypeOK'
<1>1. m \in Request
  BY DEF ApiTypeOK
<1>2. ASSUME NEW kinds \in SUBSET ResponseKinds, Answer(m, kinds, waiting)
      PROVE  responses' \subseteq Response
  BY <1>1, <1>2 DEF Answer, ApiTypeOK, Response, Request
<1>3. CASE Limit(m, waiting)
  BY <1>2, <1>3 DEF Limit, ApiTypeOK, ResponseKinds
<1>4. CASE Refuse(m, waiting)
  BY <1>2, <1>4 DEF Refuse, ApiTypeOK, ResponseKinds
<1>5. CASE Book(m, waiting)
  BY <1>1, <1>2, <1>5 DEF Book, ApiTypeOK, ResponseKinds
<1>6. CASE Replay(m)
  <2>1. [m EXCEPT !.copy = m.copy + 1] \in Request
    BY <1>1, <1>6 DEF Replay, Request
  <2> QED
    BY <1>6, <2>1 DEF Replay, ApiTypeOK
<1> QED
  BY <1>3, <1>4, <1>5, <1>6 DEF Serve

LEMMA InitType == Init => TypeOK
  BY DEF Init, ApiInit, ClientInit, TypeOK, ApiTypeOK, PcValues, Outcomes,
         Replies

LEMMA TypeStep == TypeOK /\ [Next]_vars => TypeOK'
<1> SUFFICES ASSUME TypeOK, [Next]_vars
             PROVE  TypeOK'
  OBVIOUS
<1>1. ASSUME NEW c \in Calls, Start(c)
      PROVE  TypeOK'
  <2>1. CASE \E o \in {"no_api_key", "bad_params", "aborted"} : Settle(c, o)
    BY <1>1, <2>1, SettleType DEF Start, Outcomes, TypeOK
  <2>2. CASE \E k \in KeyChoices(c) : SendOnce(c, 0, k)
    BY <1>1, <2>2, SendOnceType, KeysChosen DEF Start
  <2> QED
    BY <1>1, <2>1, <2>2 DEF Start
<1>2. ASSUME NEW c \in Calls, Headers(c)
      PROVE  TypeOK'
  <2>1. PICK r \in responses :
          reply' = [reply EXCEPT ![c] = [kind |-> r.kind, info |-> r.info]]
    BY <1>2 DEF Headers
  <2>2. [kind |-> r.kind, info |-> r.info] \in Replies
    BY <2>1 DEF TypeOK, ApiTypeOK, Response, Replies
  <2> QED
    BY <1>2, <2>1, <2>2 DEF Headers, TypeOK, ApiTypeOK, PcValues, Others
<1>3. ASSUME NEW c \in Calls, Receive(c)
      PROVE  TypeOK'
  <2>1. /\ reply[c] \in Replies
        /\ reply[c].info \in Infos \cup {NoInfo}
        /\ reply[c].kind \in ResponseKinds \cup {"none"}
    BY DEF TypeOK, Replies, NoReply
  <2>2. lastRateLimit' \in Infos \cup {NoInfo}
    BY <1>3, <2>1 DEF Receive, RateLimitAfter, TypeOK
  <2>3. OutcomeOf(reply[c].kind) \in Outcomes
    BY <2>1 DEF OutcomeOf, ResponseKinds, Outcomes
  <2>4. CASE Settle(c, OutcomeOf(reply[c].kind)) \/ Settle(c, "aborted")
    BY <2>2, <2>3, <2>4, SettleType DEF Outcomes
  <2>5. CASE Sleep(c, reply[c].info) /\ ~aborted[c] /\ Retries(c, reply[c])
    <3>1. /\ SetTimeout(RetryDelay(reply[c].info)) \in Nat
          /\ Announced(reply[c].info) \in Nat
      BY <2>1, WaitsAreNaturals
    <3>2. attempt[c] < MaxRetries[c]
      BY <2>5 DEF Retries
    <3>3. /\ pc' = [pc EXCEPT ![c] = "sleeping"]
          /\ timer' = [timer EXCEPT ![c] = SetTimeout(RetryDelay(reply[c].info))]
          /\ owed' = [owed EXCEPT ![c] = Announced(reply[c].info)]
          /\ reason' = [reason EXCEPT ![c] = "none"]
          /\ reply' = [reply EXCEPT ![c] = NoReply]
          /\ UNCHANGED <<requests, responses, bookings, attempt, key, aborted,
                         outcome>>
      BY <2>5 DEF Sleep
    <3>4. /\ timer' \in [Calls -> Nat]
          /\ owed' \in [Calls -> Nat]
      BY <3>1, <3>3 DEF TypeOK
    <3>5. /\ pc' \in [Calls -> PcValues]
          /\ reason' \in [Calls -> {"none", "timeout", "caller"}]
          /\ reply' \in [Calls -> Replies]
      BY <3>3 DEF TypeOK, PcValues, Replies
    <3>6. \A d \in Calls : pc'[d] = "sleeping" => attempt'[d] < MaxRetries[d]
      BY <3>2, <3>3 DEF TypeOK
    <3> QED
      BY <2>2, <3>3, <3>4, <3>5, <3>6 DEF TypeOK, ApiTypeOK
  <2> QED
    BY <1>3, <2>4, <2>5 DEF Receive, Sleep
<1>4. ASSUME NEW c \in Calls, Wake(c)
      PROVE  TypeOK'
  <2>1. /\ attempt[c] + 1 \in Nat
        /\ attempt[c] + 1 <= MaxRetries[c]
        /\ key[c] \in Keys \cup {NoKey}
    BY <1>4 DEF Wake, TypeOK
  <2> QED
    BY <1>4, <2>1, SendOnceType DEF Wake
<1>5. ASSUME NEW c \in Calls, TimerFires(c)
      PROVE  TypeOK'
  BY <1>5 DEF TimerFires, TypeOK, ApiTypeOK, apiVars
<1>6. ASSUME NEW c \in Calls, CallerAbort(c)
      PROVE  TypeOK'
  <2>1. aborted' \in [Calls -> BOOLEAN] /\ ApiTypeOK'
    BY <1>6 DEF CallerAbort, TypeOK, ApiTypeOK, apiVars
  <2>2. CASE pc[c] = "sleeping"
    <3>1. /\ pc' = [pc EXCEPT ![c] = "settled"]
          /\ outcome' = [outcome EXCEPT ![c] = "aborted"]
          /\ timer' = [timer EXCEPT ![c] = 0]
          /\ owed' = [owed EXCEPT ![c] = 0]
          /\ UNCHANGED <<attempt, key, reason, reply, lastRateLimit>>
      BY <1>6, <2>2 DEF CallerAbort
    <3> QED
      BY <2>1, <3>1 DEF TypeOK, PcValues, Outcomes
  <2>3. CASE pc[c] # "sleeping"
    BY <1>6, <2>1, <2>3 DEF CallerAbort, TypeOK
  <2> QED
    BY <2>2, <2>3
<1>7. ASSUME NEW c \in Calls, Reject(c)
      PROVE  TypeOK'
  BY <1>7, SettleType DEF Reject, Outcomes, TypeOK
<1>8. ASSUME NEW c \in Calls, NetworkError(c)
      PROVE  TypeOK'
  BY <1>8, SettleType DEF NetworkError, Outcomes, TypeOK
<1>9. CASE Crash
  BY <1>9 DEF Crash, TypeOK, ApiTypeOK, PcValues, Replies
<1>10. CASE Tick
  BY <1>10 DEF Tick, TypeOK, ApiTypeOK, apiVars, AtLeastZero
<1>11. CASE Network
  <2>1. PICK m \in requests : Serve(m, Waiting(m))
    BY <1>11 DEF Network
  <2>2. ApiTypeOK'
    BY <2>1, ServeType DEF TypeOK, Waiting
  <2> QED
    BY <1>11, <2>2 DEF Network, TypeOK, clientVars
<1>12. CASE UNCHANGED vars
  BY <1>12 DEF vars, apiVars, clientVars, TypeOK, ApiTypeOK
<1> QED
  BY <1>1, <1>2, <1>3, <1>4, <1>5, <1>6, <1>7, <1>8, <1>9, <1>10, <1>11,
     <1>12 DEF Next, CallNext

(* Every reachable state of the client has the types of TypeOK, and no     *)
(* call makes more than maxRetries + 1 attempts.                           *)
THEOREM TypeCorrect == Spec => []TypeOK
  BY InitType, TypeStep, PTL DEF Spec

-----------------------------------------------------------------------------
(* What is in flight or booked belongs to a call.                          *)
LEMMA MessageTypes ==
  ASSUME TypeOK
  PROVE  /\ \A m \in requests \cup bookings :
              /\ m.call \in Calls /\ m.attempt \in Nat
              /\ m.key \in Keys \cup {NoKey}
              /\ m = [call |-> m.call, attempt |-> m.attempt,
                      copy |-> m.copy, key |-> m.key]
         /\ \A r \in responses : r.call \in Calls /\ r.kind \in ResponseKinds
  BY DEF TypeOK, ApiTypeOK, Request, Response

(* The parts of IInv survive the end of a call, provided that its outcome  *)
(* is what the response said, or that nothing was sent.                    *)
LEMMA SettleInv ==
  ASSUME IInv, TypeOK', NEW c \in Calls, NEW o \in Outcomes \ {"none"},
         Settle(c, o),
         o \in {"no_api_key", "bad_params"} => pc[c] = "idle",
         o \in {"ok", "limited"} => pc[c] = "reading" /\ reply[c].kind = o
  PROVE  IInv'
<1> USE MessageTypes DEF IInv
<1>1. /\ requests' = requests /\ bookings' = bookings
      /\ responses' = {r \in responses : r.call # c}
      /\ key' = key /\ attempt' = attempt
      /\ \A d \in Calls \ {c} : /\ pc'[d] = pc[d] /\ outcome'[d] = outcome[d]
                                /\ reply'[d] = reply[d]
      /\ pc'[c] = "settled" /\ outcome'[c] = o /\ reply'[c] = NoReply
  BY DEF Settle, Others, TypeOK
<1>2. ResponsesAwaited'
  BY <1>1 DEF ResponsesAwaited
<1>3. OneKeyPerCall'
  BY <1>1 DEF OneKeyPerCall, KeyChoices
<1>4. OneBookingPerKey'
  BY <1>1 DEF OneBookingPerKey
<1>5. UnkeyedRequestUnanswered'
  BY <1>1 DEF UnkeyedRequestUnanswered
<1>6. UnkeyedBookingNotLimited'
  BY <1>1 DEF UnkeyedBookingNotLimited
<1>7. OkMeansBooked'
  <2>1. \A d \in Calls : Booked(d) <=> Booked(d)'
    BY <1>1 DEF Booked
  <2>2. \A r \in responses' : r.kind = "ok" => Booked(r.call)
    BY <1>1 DEF OkMeansBooked
  <2>3. \A d \in Calls : pc'[d] = "reading" /\ reply'[d].kind = "ok" => Booked(d)
    BY <1>1 DEF OkMeansBooked
  <2>4. \A d \in Calls : outcome'[d] = "ok" => Booked(d)
    BY <1>1 DEF OkMeansBooked
  <2> QED
    BY <1>1, <2>1, <2>2, <2>3, <2>4 DEF OkMeansBooked
<1>8. Phases'
  BY <1>1 DEF Phases, Running, InFlight, KeyChoices
<1> QED
  BY <1>2, <1>3, <1>4, <1>5, <1>6, <1>7, <1>8

(* They survive the request of an attempt: the first one of a call of      *)
(* which nothing is known, or one after a wait, under the same key.        *)
LEMMA SendOnceInv ==
  ASSUME IInv, TypeOK', NEW c \in Calls, NEW n \in Nat,
         NEW k \in KeyChoices(c), SendOnce(c, n, k),
         \/ pc[c] = "idle"
         \/ pc[c] = "sleeping" /\ key[c] = k /\ n > attempt[c]
  PROVE  IInv'
<1> USE MessageTypes DEF IInv
<1> DEFINE new == NewRequest(c, n, k)
<1>1. /\ requests' = requests \cup {new} /\ bookings' = bookings
      /\ responses' = responses /\ reply' = reply /\ outcome' = outcome
      /\ \A d \in Calls \ {c} : /\ pc'[d] = pc[d] /\ key'[d] = key[d]
                                /\ attempt'[d] = attempt[d]
      /\ pc'[c] = "fetching" /\ key'[c] = k /\ attempt'[c] = n
  BY DEF SendOnce, TypeOK
<1>2. new.call = c /\ new.attempt = n /\ new.copy = 0 /\ new.key = k
  BY DEF NewRequest
<1>3. \A r \in responses : r.call # c
  BY DEF ResponsesAwaited
<1>4. /\ \A m \in requests \cup bookings : m.call = c => m.key = k
      /\ k = NoKey => \A m \in requests \cup bookings : m.call # c
  BY DEF OneKeyPerCall, UnkeyedRequestUnanswered, UnkeyedBookingNotLimited
<1>5. outcome[c] = "none"
  BY DEF Phases
<1>6. ResponsesAwaited'
  BY <1>1, <1>3 DEF ResponsesAwaited
<1>7. OneKeyPerCall'
  <2>1. \A d \in Calls : KeyChoices(d)' = KeyChoices(d)
    BY DEF KeyChoices
  <2> QED
    BY <1>1, <1>2, <1>4, <1>5, <2>1 DEF OneKeyPerCall
<1>8. OneBookingPerKey'
  BY <1>1 DEF OneBookingPerKey
<1>9. UnkeyedRequestUnanswered'
  BY <1>1, <1>2, <1>3, <1>4, <1>5 DEF UnkeyedRequestUnanswered
<1>10. UnkeyedBookingNotLimited'
  BY <1>1, <1>4 DEF UnkeyedBookingNotLimited
<1>11. OkMeansBooked'
  <2>1. \A d \in Calls \ {c} : Booked(d) => Booked(d)'
    BY <1>1 DEF Booked
  <2> QED
    BY <1>1, <1>3, <1>5, <2>1 DEF OkMeansBooked
<1>12. Phases'
  BY <1>1, <1>5 DEF Phases, Running, InFlight, KeyChoices
<1> QED
  BY <1>6, <1>7, <1>8, <1>9, <1>10, <1>11, <1>12

(* The headers of a response arrive.                                       *)
LEMMA HeadersInv ==
  ASSUME IInv, TypeOK', NEW c \in Calls, Headers(c)
  PROVE  IInv'
<1> USE MessageTypes DEF IInv
<1>1. PICK r \in responses :
        /\ r.call = c
        /\ reply' = [reply EXCEPT ![c] = [kind |-> r.kind, info |-> r.info]]
  BY DEF Headers
<1>2. /\ requests' = requests /\ bookings' = bookings
      /\ responses' = {s \in responses : s.call # c}
      /\ key' = key /\ attempt' = attempt /\ outcome' = outcome
      /\ \A d \in Calls \ {c} : pc'[d] = pc[d] /\ reply'[d] = reply[d]
      /\ pc[c] = "fetching" /\ pc'[c] = "reading" /\ reply'[c].kind = r.kind
  BY <1>1 DEF Headers, Others, TypeOK
<1>3. r.kind \in ResponseKinds /\ reply'[c] # NoReply
  BY <1>2 DEF NoReply, ResponseKinds
<1>4. ResponsesAwaited'
  BY <1>2 DEF ResponsesAwaited
<1>5. OneKeyPerCall'
  BY <1>2 DEF OneKeyPerCall, KeyChoices
<1>6. OneBookingPerKey'
  BY <1>2 DEF OneBookingPerKey
<1>7. UnkeyedRequestUnanswered'
  BY <1>1, <1>2 DEF UnkeyedRequestUnanswered
<1>8. UnkeyedBookingNotLimited'
  BY <1>1, <1>2 DEF UnkeyedBookingNotLimited
<1>9. OkMeansBooked'
  <2>1. \A d \in Calls : Booked(d) <=> Booked(d)'
    BY <1>2 DEF Booked
  <2> QED
    BY <1>1, <1>2, <2>1 DEF OkMeansBooked
<1>10. Phases'
  BY <1>2, <1>3 DEF Phases, Running, InFlight, KeyChoices
<1> QED
  BY <1>4, <1>5, <1>6, <1>7, <1>8, <1>9, <1>10

(* A call begins to wait after a 429.                                      *)
LEMMA SleepInv ==
  ASSUME IInv, TypeOK', NEW c \in Calls, pc[c] = "reading",
         Retries(c, reply[c]), ~aborted[c], Sleep(c, reply[c].info)
  PROVE  IInv'
<1> USE MessageTypes DEF IInv
<1>1. /\ requests' = requests /\ bookings' = bookings
      /\ responses' = responses
      /\ key' = key /\ attempt' = attempt /\ outcome' = outcome
      /\ \A d \in Calls \ {c} : pc'[d] = pc[d] /\ reply'[d] = reply[d]
      /\ pc'[c] = "sleeping"
  BY DEF Sleep, TypeOK
<1>2. reply[c].kind = "limited"
  BY DEF Retries
<1>3. ResponsesAwaited'
  BY <1>1 DEF ResponsesAwaited
<1>4. OneKeyPerCall'
  BY <1>1 DEF OneKeyPerCall, KeyChoices
<1>5. OneBookingPerKey'
  BY <1>1 DEF OneBookingPerKey
<1>6. UnkeyedRequestUnanswered'
  BY <1>1 DEF UnkeyedRequestUnanswered
<1>7. UnkeyedBookingNotLimited'
  BY <1>1, <1>2 DEF UnkeyedBookingNotLimited
<1>8. OkMeansBooked'
  <2>1. \A d \in Calls : Booked(d) <=> Booked(d)'
    BY <1>1 DEF Booked
  <2> QED
    BY <1>1, <2>1 DEF OkMeansBooked
<1>9. Phases'
  BY <1>1 DEF Phases, Running, InFlight, KeyChoices
<1> QED
  BY <1>3, <1>4, <1>5, <1>6, <1>7, <1>8, <1>9

(* An abort during a wait settles the call.                                *)
LEMMA AbortInv ==
  ASSUME IInv, TypeOK', NEW c \in Calls, CallerAbort(c)
  PROVE  IInv'
<1> USE MessageTypes DEF IInv
<1>1. /\ requests' = requests /\ bookings' = bookings
      /\ responses' = responses /\ reply' = reply
      /\ key' = key /\ attempt' = attempt
      /\ \A d \in Calls \ {c} : pc'[d] = pc[d] /\ outcome'[d] = outcome[d]
      /\ \/ pc'[c] = pc[c] /\ outcome'[c] = outcome[c]
         \/ pc[c] = "sleeping" /\ pc'[c] = "settled" /\ outcome'[c] = "aborted"
  BY DEF CallerAbort, TypeOK, apiVars
<1>2. ResponsesAwaited'
  BY <1>1 DEF ResponsesAwaited
<1>3. OneKeyPerCall'
  BY <1>1 DEF OneKeyPerCall, KeyChoices
<1>4. OneBookingPerKey'
  BY <1>1 DEF OneBookingPerKey
<1>5. UnkeyedRequestUnanswered'
  BY <1>1 DEF UnkeyedRequestUnanswered
<1>6. UnkeyedBookingNotLimited'
  BY <1>1 DEF UnkeyedBookingNotLimited
<1>7. OkMeansBooked'
  <2>1. \A d \in Calls : Booked(d) <=> Booked(d)'
    BY <1>1 DEF Booked
  <2> QED
    BY <1>1, <2>1 DEF OkMeansBooked
<1>8. Phases'
  BY <1>1 DEF Phases, Running, InFlight, KeyChoices
<1> QED
  BY <1>2, <1>3, <1>4, <1>5, <1>6, <1>7, <1>8

(* A crash forgets every running call but no request in flight.            *)
LEMMA CrashInv ==
  ASSUME IInv, TypeOK', Crash
  PROVE  IInv'
<1> USE MessageTypes DEF IInv
<1>1. /\ requests' = requests /\ bookings' = bookings /\ responses' = {}
      /\ key' = key /\ attempt' = attempt /\ outcome' = outcome
      /\ \A d \in Calls : \/ pc'[d] = "crashed" /\ Running(d)
                          \/ pc'[d] = pc[d] /\ ~Running(d)
  BY DEF Crash
<1>2. \A d \in Calls : /\ pc'[d] \notin {"fetching", "reading", "sleeping"}
                       /\ pc[d] = "settled" => pc'[d] = "settled"
                       /\ pc'[d] = "idle" => pc[d] = "idle"
  BY <1>1 DEF Running, InFlight
<1>3. ResponsesAwaited'
  BY <1>1 DEF ResponsesAwaited
<1>4. OneKeyPerCall'
  BY <1>1, <1>2 DEF OneKeyPerCall, KeyChoices
<1>5. OneBookingPerKey'
  BY <1>1 DEF OneBookingPerKey
<1>6. UnkeyedRequestUnanswered'
  BY <1>1, <1>2 DEF UnkeyedRequestUnanswered
<1>7. UnkeyedBookingNotLimited'
  BY <1>1, <1>2 DEF UnkeyedBookingNotLimited
<1>8. OkMeansBooked'
  <2>1. \A d \in Calls : Booked(d) <=> Booked(d)'
    BY <1>1 DEF Booked
  <2> QED
    BY <1>1, <1>2, <2>1 DEF OkMeansBooked
<1>9. Phases'
  BY <1>1, <1>2 DEF Phases, Running, InFlight, KeyChoices
<1> QED
  BY <1>3, <1>4, <1>5, <1>6, <1>7, <1>8, <1>9

(* A response answers a request, to the attempt that waits for it.         *)
LEMMA AnswerAdds ==
  ASSUME NEW m \in requests, NEW kinds, Answer(m, kinds, Waiting(m)),
         NEW r \in responses'
  PROVE  \/ r \in responses
         \/ /\ r.call = m.call /\ r.attempt = m.attempt /\ r.kind \in kinds
            /\ pc[m.call] = "fetching" /\ attempt[m.call] = m.attempt
  BY DEF Answer, Waiting

(* A 429 or a refusal answers a request and takes it out of flight.        *)
LEMMA NoEffectInv ==
  ASSUME IInv, TypeOK', NEW m \in requests, UNCHANGED clientVars,
         Limit(m, Waiting(m)) \/ Refuse(m, Waiting(m))
  PROVE  IInv'
<1> USE MessageTypes DEF IInv
<1>1. /\ requests' = requests \ {m} /\ bookings' = bookings
      /\ pc' = pc /\ key' = key /\ attempt' = attempt /\ outcome' = outcome
      /\ reply' = reply
  BY DEF Limit, Refuse, clientVars
<1>2. \A r \in responses' :
        \/ r \in responses
        \/ /\ r.call = m.call /\ r.attempt = m.attempt
           /\ r.kind \in {"limited", "failed"}
           /\ pc[m.call] = "fetching" /\ attempt[m.call] = m.attempt
  BY AnswerAdds DEF Limit, Refuse
<1>3. m.key = NoKey =>
        /\ \A n \in requests \ {m} : n.key = NoKey => n.call # m.call
        /\ \A b \in bookings : b.call # m.call
  BY DEF UnkeyedRequestUnanswered
<1>4. \A n \in requests \cup bookings :
        n.key = NoKey => key[n.call] = NoKey
  BY DEF OneKeyPerCall
<1>5. ResponsesAwaited'
  BY <1>1, <1>2 DEF ResponsesAwaited
<1>6. OneKeyPerCall'
  BY <1>1 DEF OneKeyPerCall, KeyChoices
<1>7. OneBookingPerKey'
  BY <1>1 DEF OneBookingPerKey
<1>8. UnkeyedRequestUnanswered'
  <2>1. \A n \in requests \ {m} : n.key = NoKey => n.call # m.call
    BY <1>3, <1>4 DEF OneKeyPerCall
  <2> QED
    BY <1>1, <1>2, <2>1 DEF UnkeyedRequestUnanswered
<1>9. UnkeyedBookingNotLimited'
  <2>1. \A b \in bookings : b.key = NoKey => b.call # m.call
    BY <1>3, <1>4 DEF OneKeyPerCall
  <2> QED
    BY <1>1, <1>2, <2>1 DEF UnkeyedBookingNotLimited
<1>10. OkMeansBooked'
  <2>1. \A d \in Calls : Booked(d) <=> Booked(d)'
    BY <1>1 DEF Booked
  <2>2. \A r \in responses' : r.kind = "ok" => r \in responses
    BY <1>2
  <2> QED
    BY <1>1, <2>1, <2>2 DEF OkMeansBooked
<1>11. Phases'
  BY <1>1 DEF Phases, Running, InFlight, KeyChoices
<1> QED
  BY <1>5, <1>6, <1>7, <1>8, <1>9, <1>10, <1>11

(* The API acts on a request, or remembers that it did.                    *)
LEMMA BookInv ==
  ASSUME IInv, TypeOK', NEW m \in requests, UNCHANGED clientVars,
         Book(m, Waiting(m))
  PROVE  IInv'
<1> USE MessageTypes DEF IInv
<1>1. /\ requests' = requests \ {m}
      /\ bookings' = IF Remembered(m) THEN bookings ELSE bookings \cup {m}
      /\ pc' = pc /\ key' = key /\ attempt' = attempt /\ outcome' = outcome
      /\ reply' = reply
  BY DEF Book, clientVars
<1>2. \A r \in responses' :
        \/ r \in responses
        \/ /\ r.call = m.call /\ r.attempt = m.attempt /\ r.kind # "limited"
           /\ pc[m.call] = "fetching" /\ attempt[m.call] = m.attempt
  BY AnswerAdds DEF Book
<1>3. m.key = NoKey =>
        /\ \A n \in requests \ {m} : n.key = NoKey => n.call # m.call
        /\ \A r \in responses : r.call # m.call
        /\ pc[m.call] \notin {"reading", "sleeping"}
        /\ outcome[m.call] # "limited"
        /\ m.copy = 0 /\ m.attempt = attempt[m.call]
  BY DEF UnkeyedRequestUnanswered
<1>4. \A n \in requests \cup bookings : n.key = key[n.call]
  BY DEF OneKeyPerCall
<1>5. bookings \subseteq bookings' /\ bookings' \subseteq bookings \cup {m}
  BY <1>1
<1>6. ResponsesAwaited'
  BY <1>1, <1>2 DEF ResponsesAwaited
<1>7. OneKeyPerCall'
  BY <1>1, <1>5 DEF OneKeyPerCall, KeyChoices
<1>8. OneBookingPerKey'
  <2>1. m.call \in KeyRequired => m.key # NoKey
    BY DEF Book, Acceptable
  <2>2. m \in bookings' =>
          \/ m \in bookings
          \/ \A b \in bookings :
               b.call \in KeyRequired /\ m.call \in KeyRequired
                 => b.key # m.key
    BY <1>1 DEF Remembered
  <2> QED
    BY <1>5, <2>1, <2>2 DEF OneBookingPerKey
<1>9. UnkeyedRequestUnanswered'
  <2>1. \A n \in requests \ {m} : n.key = NoKey => n.call # m.call
    BY <1>3, <1>4
  <2> QED
    BY <1>1, <1>2, <1>5, <2>1 DEF UnkeyedRequestUnanswered
<1>10. UnkeyedBookingNotLimited'
  <2>1. \A b \in bookings' : b.key = NoKey =>
          \A r \in responses' : r.call = b.call => r.kind # "limited"
    BY <1>2, <1>3, <1>5 DEF UnkeyedBookingNotLimited
  <2> QED
    BY <1>1, <1>3, <1>5, <2>1 DEF UnkeyedBookingNotLimited
<1>11. OkMeansBooked'
  <2>1. \A d \in Calls : Booked(d) => Booked(d)'
    BY <1>1, <1>5 DEF Booked
  <2>2. Booked(m.call)'
    <3>1. CASE Remembered(m)
      BY <1>1, <1>4, <3>1 DEF Remembered, Booked, Book, Acceptable
    <3>2. CASE ~Remembered(m)
      BY <1>1, <3>2 DEF Booked
    <3> QED
      BY <3>1, <3>2
  <2> QED
    BY <1>1, <1>2, <2>1, <2>2 DEF OkMeansBooked
<1>12. Phases'
  BY <1>1 DEF Phases, Running, InFlight, KeyChoices
<1> QED
  BY <1>6, <1>7, <1>8, <1>9, <1>10, <1>11, <1>12

(* A replay is one more request under the key of its call.                 *)
LEMMA ReplayInv ==
  ASSUME IInv, TypeOK', NEW m \in requests, UNCHANGED clientVars, Replay(m)
  PROVE  IInv'
<1> USE MessageTypes DEF IInv
<1> DEFINE copy == [m EXCEPT !.copy = m.copy + 1]
<1>1. /\ requests' = requests \cup {copy} /\ bookings' = bookings
      /\ responses' = responses
      /\ pc' = pc /\ key' = key /\ attempt' = attempt /\ outcome' = outcome
      /\ reply' = reply
  BY DEF Replay, clientVars
<1>2. copy.call = m.call /\ copy.attempt = m.attempt /\ copy.key = m.key
      /\ m.key # NoKey
  BY DEF Replay, TypeOK, ApiTypeOK, Request
<1>3. ResponsesAwaited'
  BY <1>1 DEF ResponsesAwaited
<1>4. OneKeyPerCall'
  <2>1. \A d \in Calls : KeyChoices(d)' = KeyChoices(d)
    BY DEF KeyChoices
  <2> QED
    BY <1>1, <1>2, <2>1 DEF OneKeyPerCall
<1>5. OneBookingPerKey'
  BY <1>1 DEF OneBookingPerKey
<1>6. UnkeyedRequestUnanswered'
  BY <1>1, <1>2 DEF UnkeyedRequestUnanswered
<1>7. UnkeyedBookingNotLimited'
  BY <1>1 DEF UnkeyedBookingNotLimited
<1>8. OkMeansBooked'
  <2>1. \A d \in Calls : Booked(d) <=> Booked(d)'
    BY <1>1 DEF Booked
  <2> QED
    BY <1>1, <2>1 DEF OkMeansBooked
<1>9. Phases'
  BY <1>1 DEF Phases, Running, InFlight, KeyChoices
<1> QED
  BY <1>3, <1>4, <1>5, <1>6, <1>7, <1>8, <1>9

LEMMA InitInv == Init => IInv
<1> SUFFICES ASSUME Init PROVE IInv
  OBVIOUS
<1>1. TypeOK
  BY InitType
<1> QED
  BY <1>1 DEF Init, ApiInit, ClientInit, IInv, ResponsesAwaited, OneKeyPerCall,
     OneBookingPerKey, UnkeyedRequestUnanswered, UnkeyedBookingNotLimited,
     OkMeansBooked, Phases, Running, InFlight

LEMMA InvStep == IInv /\ [Next]_vars => IInv'
<1> SUFFICES ASSUME IInv, [Next]_vars
             PROVE  IInv'
  OBVIOUS
<1>0. TypeOK /\ TypeOK'
  BY TypeStep DEF IInv
<1>1. ASSUME NEW c \in Calls, Start(c)
      PROVE  IInv'
  <2>1. CASE \E o \in {"no_api_key", "bad_params", "aborted"} : Settle(c, o)
    BY <1>0, <1>1, <2>1, SettleInv DEF Start, Outcomes
  <2>2. CASE \E k \in KeyChoices(c) : SendOnce(c, 0, k)
    BY <1>0, <1>1, <2>2, SendOnceInv DEF Start
  <2> QED
    BY <1>1, <2>1, <2>2 DEF Start
<1>2. ASSUME NEW c \in Calls, Headers(c)
      PROVE  IInv'
  BY <1>0, <1>2, HeadersInv
<1>3. ASSUME NEW c \in Calls, Receive(c)
      PROVE  IInv'
  <2>1. pc[c] = "reading" /\ reply[c].kind \in ResponseKinds
    BY <1>0, <1>3 DEF Receive, IInv, Phases, TypeOK, Replies
  <2>2. CASE Settle(c, OutcomeOf(reply[c].kind))
    <3>1. /\ OutcomeOf(reply[c].kind) \in Outcomes
                                    \ {"none", "no_api_key", "bad_params"}
          /\ OutcomeOf(reply[c].kind) \in {"ok", "limited"}
               => reply[c].kind = OutcomeOf(reply[c].kind)
      BY <2>1 DEF OutcomeOf, ResponseKinds, Outcomes
    <3> QED
      BY <1>0, <2>1, <2>2, <3>1, SettleInv
  <2>3. CASE Settle(c, "aborted")
    BY <1>0, <2>3, SettleInv DEF Outcomes
  <2>4. CASE Retries(c, reply[c]) /\ Sleep(c, reply[c].info) /\ ~aborted[c]
    BY <1>0, <2>1, <2>4, SleepInv
  <2> QED
    BY <1>3, <2>2, <2>3, <2>4 DEF Receive, Sleep
<1>4. ASSUME NEW c \in Calls, Wake(c)
      PROVE  IInv'
  <2>1. key[c] \in KeyChoices(c) /\ attempt[c] + 1 \in Nat
        /\ attempt[c] + 1 > attempt[c]
    BY <1>0, <1>4 DEF Wake, IInv, Phases, Running, TypeOK
  <2> QED
    BY <1>0, <1>4, <2>1, SendOnceInv DEF Wake
<1>5. ASSUME NEW c \in Calls, CallerAbort(c)
      PROVE  IInv'
  BY <1>0, <1>5, AbortInv
<1>6. ASSUME NEW c \in Calls, Reject(c)
      PROVE  IInv'
  BY <1>0, <1>6, SettleInv DEF Reject, Outcomes
<1>7. ASSUME NEW c \in Calls, NetworkError(c)
      PROVE  IInv'
  BY <1>0, <1>7, SettleInv DEF NetworkError, Outcomes
<1>8. CASE Crash
  BY <1>0, <1>8, CrashInv
<1>9. CASE Network
  <2>1. PICK m \in requests : Serve(m, Waiting(m))
    BY <1>9 DEF Network
  <2> QED
    BY <1>0, <1>9, <2>1, NoEffectInv, BookInv, ReplayInv DEF Network, Serve
<1>10. CASE \/ \E c \in Calls : TimerFires(c)
            \/ Tick
            \/ UNCHANGED vars
  <2>1. /\ requests' = requests /\ responses' = responses
        /\ bookings' = bookings
        /\ pc' = pc /\ attempt' = attempt /\ key' = key
        /\ reply' = reply /\ outcome' = outcome
    BY <1>10 DEF TimerFires, Tick, vars, apiVars, clientVars
  <2>2. ResponsesAwaited' /\ OneKeyPerCall' /\ OneBookingPerKey'
    BY <2>1 DEF IInv, ResponsesAwaited, OneKeyPerCall, KeyChoices,
       OneBookingPerKey
  <2>3. UnkeyedRequestUnanswered' /\ UnkeyedBookingNotLimited'
    BY <2>1 DEF IInv, UnkeyedRequestUnanswered, UnkeyedBookingNotLimited
  <2>4. OkMeansBooked' /\ Phases'
    BY <2>1 DEF IInv, OkMeansBooked, Booked, Phases, Running, InFlight,
       KeyChoices
  <2> QED
    BY <1>0, <2>2, <2>3, <2>4 DEF IInv
<1> QED
  BY <1>1, <1>2, <1>3, <1>4, <1>5, <1>6, <1>7, <1>8, <1>9, <1>10
     DEF Next, CallNext

LEMMA Invariance == Spec => []IInv
  BY InitInv, InvStep, PTL DEF Spec

-----------------------------------------------------------------------------
(* However often a call is tried or replayed, it books at most once.       *)
THEOREM CallsBookOnce == Spec => []OncePerCall
<1>1. IInv => OncePerCall
  <2> SUFFICES ASSUME IInv, NEW b1 \in bookings, NEW b2 \in bookings,
                      b1.call = b2.call, Protected(b1.call)
               PROVE  b1 = b2
    BY DEF OncePerCall
  <2>1. b1.key = b2.key /\ b1.key \in KeyChoices(b1.call)
    BY DEF IInv, OneKeyPerCall
  <2>2. CASE b1.call \in KeyRequired
    BY <2>1, <2>2 DEF IInv, OneBookingPerKey
  <2>3. CASE b1.call \notin KeyRequired
    <3>1. b1.key = NoKey /\ b2.key = NoKey
      BY <2>1, <2>3 DEF Protected, KeyChoices
    <3>2. b1.attempt = b2.attempt /\ b1.copy = b2.copy
      BY <3>1 DEF IInv, UnkeyedBookingNotLimited
    <3>3. b1 \in Request /\ b2 \in Request
      BY DEF IInv, TypeOK, ApiTypeOK
    <3> QED
      BY <2>1, <3>2, <3>3 DEF Request
  <2> QED
    BY <2>2, <2>3
<1> QED
  BY <1>1, Invariance, PTL

(* Calls under one caller's key book at most once between them, also when  *)
(* the process that made the first one is gone.                            *)
THEOREM PurchasesBookOnce == Spec => []OncePerPurchase
<1>1. IInv => OncePerPurchase
  <2> SUFFICES ASSUME IInv, NEW b1 \in bookings, NEW b2 \in bookings,
                      b1.call \in KeyRequired, b2.call \in KeyRequired,
                      CallerKey[b1.call] = CallerKey[b2.call],
                      CallerKey[b1.call] \in Keys
               PROVE  b1 = b2
    BY DEF OncePerPurchase
  <2>1. b1.key = CallerKey[b1.call] /\ b2.key = CallerKey[b2.call]
    BY DEF IInv, OneKeyPerCall, KeyChoices
  <2> QED
    BY <2>1 DEF IInv, OneBookingPerKey
<1> QED
  BY <1>1, Invariance, PTL

(* What a settled call reports of its booking is so, and stays so.         *)
THEOREM OutcomesTellTruth == Spec => []OutcomeTellsTruth
<1>1. IInv => OutcomeTellsTruth
  <2> SUFFICES ASSUME IInv, NEW c \in Calls
               PROVE  /\ outcome[c] = "ok" => Booked(c)
                      /\ outcome[c] \in {"no_api_key", "bad_params"} =>
                           \A m \in requests \cup bookings : m.call # c
                      /\ outcome[c] = "limited" /\ key[c] = NoKey =>
                           \A m \in requests \cup bookings : m.call # c
    BY DEF OutcomeTellsTruth, Booked
  <2>1. outcome[c] = "ok" => Booked(c)
    BY DEF IInv, OkMeansBooked
  <2>2. outcome[c] \in {"no_api_key", "bad_params"} =>
          \A m \in requests \cup bookings : m.call # c
    BY DEF IInv, OneKeyPerCall
  <2>3. outcome[c] = "limited" /\ key[c] = NoKey =>
          \A m \in requests \cup bookings : m.call # c
    BY DEF IInv, OneKeyPerCall, UnkeyedRequestUnanswered,
       UnkeyedBookingNotLimited
  <2> QED
    BY <2>1, <2>2, <2>3
<1> QED
  BY <1>1, Invariance, PTL

-----------------------------------------------------------------------------
(* Timers as long as maxRetryDelayMs exist: setTimeout takes them at their *)
(* word.                                                                   *)
DelaysFitTimers == MaxRetryDelay <= TimerLimit

LEMMA WaitStep ==
  ASSUME DelaysFitTimers, TypeOK, TypeOK', WaitInv, [Next]_vars
  PROVE  WaitInv'
<1>1. ASSUME NEW c \in Calls, NEW o, Settle(c, o)
      PROVE  WaitInv'
  BY <1>1 DEF Settle, WaitInv, TypeOK
<1>2. ASSUME NEW c \in Calls, NEW n, NEW k, SendOnce(c, n, k)
      PROVE  WaitInv'
  BY <1>2 DEF SendOnce, WaitInv, TypeOK
<1>3. ASSUME NEW c \in Calls, Headers(c) \/ TimerFires(c)
      PROVE  WaitInv'
  BY <1>3 DEF Headers, TimerFires, InFlight, WaitInv, TypeOK
<1>4. ASSUME NEW c \in Calls, Receive(c), Retries(c, reply[c]),
             Sleep(c, reply[c].info), aborted[c] = FALSE
      PROVE  WaitInv'
  <2> DEFINE info == reply[c].info
  <2>1. info \in Infos \cup {NoInfo}
    BY DEF TypeOK, Replies, NoReply
  <2>2. /\ RetryDelay(info) \in Nat /\ Announced(info) \in Nat
        /\ Announced(info) <= RetryDelay(info)
    BY <2>1, WaitsAreNaturals
  <2>3. SetTimeout(RetryDelay(info)) = RetryDelay(info)
        /\ RetryDelay(info) <= MaxRetryDelay
    BY <1>4, <2>2 DEF Retries, SetTimeout, DelaysFitTimers
  <2>4. /\ pc' = [pc EXCEPT ![c] = "sleeping"]
        /\ timer' = [timer EXCEPT ![c] = RetryDelay(info)]
        /\ owed' = [owed EXCEPT ![c] = Announced(info)]
        /\ aborted' = aborted
    BY <1>4, <2>3 DEF Sleep
  <2> HIDE DEF info
  <2> QED
    BY <1>4, <2>2, <2>3, <2>4 DEF WaitInv, TypeOK
<1>5. ASSUME NEW c \in Calls, CallerAbort(c)
      PROVE  WaitInv'
  BY <1>5 DEF CallerAbort, WaitInv, TypeOK
<1>6. CASE Crash
  BY <1>6 DEF Crash, Running, InFlight, WaitInv, TypeOK
<1>7. CASE Tick
  BY <1>7 DEF Tick, AtLeastZero, WaitInv, TypeOK
<1>8. CASE Network \/ UNCHANGED vars
  BY <1>8 DEF Network, vars, clientVars, WaitInv
<1>9. ASSUME NEW c \in Calls, Start(c) \/ Reject(c) \/ NetworkError(c)
      PROVE  WaitInv'
  BY <1>1, <1>2, <1>9 DEF Start, Reject, NetworkError
<1>10. ASSUME NEW c \in Calls, Wake(c)
       PROVE  WaitInv'
  BY <1>2, <1>10 DEF Wake
<1>11. ASSUME NEW c \in Calls, Receive(c)
       PROVE  WaitInv'
  <2>1. aborted[c] \in BOOLEAN
    BY DEF TypeOK
  <2> QED
    BY <1>1, <1>4, <1>11, <2>1 DEF Receive, Sleep
<1> QED
  BY <1>3, <1>5, <1>6, <1>7, <1>8, <1>9, <1>10, <1>11 DEF Next, CallNext

LEMMA WaitInvariance == DelaysFitTimers /\ Spec => []WaitInv
<1>1. Init => WaitInv
  BY DEF Init, ClientInit, WaitInv
<1>2. DelaysFitTimers /\ TypeOK /\ TypeOK' /\ WaitInv /\ [Next]_vars => WaitInv'
  BY WaitStep
<1>3. DelaysFitTimers => []DelaysFitTimers
  <2>1. DelaysFitTimers => DelaysFitTimers'
    BY DEF DelaysFitTimers
  <2> QED
    BY <2>1, PTL
<1> QED
  BY <1>1, <1>2, <1>3, TypeCorrect, PTL DEF Spec

(* A call waits at least as long as a 429 asked for, and no longer than    *)
(* the client accepts.                                                     *)
THEOREM CallsWaitAsAsked == DelaysFitTimers /\ Spec => []WaitsAsAsked
<1>1. WaitInv => WaitsAsAsked
  BY DEF WaitInv, WaitsAsAsked
<1> QED
  BY <1>1, WaitInvariance, PTL

(* No request leaves before the wait is over, after an abort, or after the *)
(* call has settled.                                                       *)
THEOREM CallsSendWhenDue == DelaysFitTimers /\ Spec => SendsOnlyWhenDue
<1> DEFINE Due == \A m \in requests' \ requests :
                    m.copy = 0 => /\ pc[m.call] \in {"idle", "sleeping"}
                                  /\ ~aborted[m.call]
                                  /\ owed[m.call] = 0
<1>1. TypeOK /\ WaitInv /\ [Next]_vars => [Due]_vars
  <2> SUFFICES ASSUME TypeOK, WaitInv, Next,
                      NEW m \in requests' \ requests, m.copy = 0
               PROVE  /\ pc[m.call] \in {"idle", "sleeping"}
                      /\ ~aborted[m.call]
                      /\ owed[m.call] = 0
    OBVIOUS
  <2>1. ASSUME NEW c \in Calls, Start(c), ~aborted[c],
               \E k \in KeyChoices(c) : SendOnce(c, 0, k)
        PROVE  c = m.call /\ pc[c] = "idle" /\ ~aborted[c]
    BY <2>1 DEF Start, SendOnce, NewRequest
  <2>2. ASSUME NEW c \in Calls, Start(c)
        PROVE  c = m.call /\ pc[c] = "idle" /\ ~aborted[c]
    BY <2>1, <2>2 DEF Start, Settle
  <2>3. ASSUME NEW c \in Calls, Wake(c)
        PROVE  /\ c = m.call /\ pc[c] = "sleeping"
               /\ ~aborted[c] /\ timer[c] = 0
    BY <2>3 DEF Wake, SendOnce, NewRequest, WaitInv
  <2>4. ASSUME NEW c \in Calls,
               \/ Headers(c) \/ Receive(c) \/ TimerFires(c) \/ CallerAbort(c)
               \/ Reject(c) \/ NetworkError(c)
        PROVE  FALSE
    BY <2>4 DEF Headers, Receive, Sleep, TimerFires, CallerAbort, Reject,
       NetworkError, Settle, apiVars
  <2>5. CASE Crash \/ Tick
    BY <2>5 DEF Crash, Tick, apiVars
  <2>6. CASE Network
    <3>1. PICK n \in requests : Serve(n, Waiting(n))
      BY <2>6 DEF Network
    <3>2. Replay(n) /\ m = [n EXCEPT !.copy = n.copy + 1]
      BY <3>1 DEF Serve, Limit, Refuse, Book, Replay
    <3>3. n.copy \in Nat /\ m.copy = n.copy + 1
      BY <3>2 DEF TypeOK, ApiTypeOK, Request
    <3> QED
      BY <3>3
  <2>7. CASE \E c \in Calls : Start(c) \/ Wake(c)
    <3>1. PICK c \in Calls : Start(c) \/ Wake(c)
      BY <2>7
    <3>2. owed[c] \in Nat /\ timer[c] \in Nat
      BY DEF TypeOK
    <3> QED
      BY <2>2, <2>3, <3>1, <3>2 DEF WaitInv
  <2> QED
    BY <2>4, <2>5, <2>6, <2>7 DEF Next, CallNext
<1> QED
  BY <1>1, TypeCorrect, WaitInvariance, PTL DEF Spec, SendsOnlyWhenDue

-----------------------------------------------------------------------------
(* The state of KeyedCalls the client stands for.                          *)
phase == [c \in Calls |-> IF Running(c) THEN pc[c] ELSE status[c]]
said == [c \in Calls |-> IF pc[c] = "reading" THEN reply[c].kind ELSE "none"]
Choices == [c \in Calls |-> KeyChoices(c)]

K == INSTANCE KeyedCallsProofs

-----------------------------------------------------------------------------
(* A key is the caller's, or generated for one call, or none.              *)
LEMMA KeyChoicesSound == K!ChoicesSound
<1>1. Choices \in [Calls -> SUBSET (Keys \cup {NoKey})]
  BY KeysChosen DEF Choices
<1>2. \A c \in Calls : NoKey \in KeyChoices(c) => KeyChoices(c) = {NoKey}
  BY DEF KeyChoices
<1>3. \A c \in Calls \ KeyRequired : KeyChoices(c) = {NoKey}
  BY ProtectedAssumption DEF KeyChoices, Protected
<1>4. \A c \in Calls : HasCallerKey(c) => KeyChoices(c) = {CallerKey[c]}
  BY DEF KeyChoices, HasCallerKey
<1>5. ASSUME NEW c \in Calls, NEW d \in Calls,
             NEW k \in (KeyChoices(c) \cap KeyChoices(d)) \ {NoKey}
      PROVE  PurchaseOf[c] = PurchaseOf[d]
  <2>1. c \in KeyRequired /\ d \in KeyRequired
    BY <1>3
  <2>2. \A e \in {c, d} :
          IF CallerKey[e] \in Keys THEN k = CallerKey[e] ELSE k \in Generated[e]
    BY <2>1 DEF KeyChoices
  <2>3. CASE c = d
    BY <2>3
  <2>4. CASE c # d
    <3>1. CallerKey[c] \in Keys /\ CallerKey[d] \in Keys
      BY <2>2, <2>4
    <3>2. CallerKey[c] = CallerKey[d]
      BY <2>2, <3>1
    <3> QED
      BY <2>1, <3>1, <3>2 DEF PurchaseOf, HasCallerKey
  <2> QED
    BY <2>3, <2>4
<1>6. \A c \in Calls : Choices[c] = KeyChoices(c)
  BY DEF Choices
<1>7. ASSUME NEW c \in Calls, NEW d \in Calls
      PROVE  /\ K!HasCallerKey(c) <=> HasCallerKey(c)
             /\ K!PurchaseOf[c] = PurchaseOf[c]
  BY DEF K!HasCallerKey, K!PurchaseOf, HasCallerKey, PurchaseOf
<1> QED
  BY <1>1, <1>2, <1>3, <1>4, <1>5, <1>6, <1>7 DEF K!ChoicesSound

-----------------------------------------------------------------------------
(* The state of a call in KeyedCalls, by where the client is with it.      *)
Viewed ==
  \A c \in Calls :
    /\ pc[c] = "idle" => phase[c] = "new"
    /\ Running(c) => phase[c] = pc[c]
    /\ pc[c] = "crashed" => phase[c] = "unsure"
    /\ pc[c] = "settled" => phase[c] = StatusOf(outcome[c])
    /\ pc[c] = "reading" => said[c] = reply[c].kind
    /\ pc[c] # "reading" => said[c] = "none"

LEMMA AlwaysViewed == Viewed /\ Viewed'
<1>1. Viewed
  BY DEF Viewed, phase, said, status, Running, InFlight
<1>2. Viewed'
  BY DEF Viewed, phase, said, status, Running, InFlight
<1> QED
  BY <1>1, <1>2

(* A step of one call changes the view of that call alone.                 *)
LEMMA OthersKept ==
  ASSUME NEW c \in Calls,
         \A d \in Calls \ {c} : /\ pc'[d] = pc[d] /\ outcome'[d] = outcome[d]
                                /\ reply'[d] = reply[d]
  PROVE  /\ phase' = [phase EXCEPT ![c] = phase'[c]]
         /\ said' = [said EXCEPT ![c] = said'[c]]
<1>1. \A d \in Calls \ {c} : phase'[d] = phase[d] /\ said'[d] = said[d]
  BY DEF phase, said, status, Running, InFlight
<1>2. /\ DOMAIN phase = Calls /\ DOMAIN said = Calls
      /\ phase = [d \in Calls |-> phase[d]] /\ said = [d \in Calls |-> said[d]]
  BY DEF phase, said
<1>3. /\ phase' = [d \in Calls |-> phase'[d]]
      /\ said' = [d \in Calls |-> said'[d]]
  BY DEF phase, said
<1> QED
  BY <1>1, <1>2, <1>3

(* The requests and responses of KeyedCalls are the client's.              *)
LEMMA SameMessages ==
  /\ \A c \in Calls : K!Others(c) = Others(c)
  /\ \A c, n, k : K!NewRequest(c, n, k) = NewRequest(c, n, k)
  BY DEF K!Others, Others, K!NewRequest, NewRequest

(* How a call settles: the error classes that tell a caller nothing about  *)
(* its booking are one.                                                    *)
LEMMA SettleEnds ==
  ASSUME TypeOK, NEW c \in Calls, NEW o \in Outcomes, Settle(c, o)
  PROVE  K!End(c, StatusOf(o))
<1>1. pc'[c] = "settled" /\ outcome'[c] = o
  BY DEF Settle, TypeOK
<1>2. phase'[c] = StatusOf(o) /\ said'[c] = "none"
  BY <1>1, AlwaysViewed DEF Viewed
<1>3. \A d \in Calls \ {c} : /\ pc'[d] = pc[d] /\ outcome'[d] = outcome[d]
                             /\ reply'[d] = reply[d]
  BY DEF Settle, TypeOK
<1> QED
  BY <1>2, <1>3, OthersKept, SameMessages DEF K!End, Settle

LEMMA SendOnceSends ==
  ASSUME TypeOK, NEW c \in Calls, NEW n, NEW k, SendOnce(c, n, k),
         pc[c] # "reading"
  PROVE  K!Send(c, n, k)
<1>1. pc'[c] = "fetching"
  BY DEF SendOnce, TypeOK
<1>2. phase'[c] = "fetching" /\ said'[c] = said[c]
  BY <1>1, AlwaysViewed DEF Viewed, Running, InFlight
<1>3. \A d \in Calls \ {c} : /\ pc'[d] = pc[d] /\ outcome'[d] = outcome[d]
                             /\ reply'[d] = reply[d]
  BY DEF SendOnce, TypeOK
<1>4. said' = said
  BY <1>2, <1>3, OthersKept DEF said
<1> QED
  BY <1>2, <1>3, <1>4, OthersKept, SameMessages DEF K!Send, SendOnce

-----------------------------------------------------------------------------
(* How a call ends, by its outcome.                                        *)
LEMMA StatusOfOutcomes ==
  /\ \A o \in Refusals : StatusOf(o) = "refused"
  /\ StatusOf("ok") = "ok" /\ StatusOf("limited") = "limited"
  /\ \A o \in {"invalid_response", "failed", "timeout", "aborted", "network"} :
       StatusOf(o) = "unsure"
  BY DEF StatusOf, Refusals

(* request() is called: it sends the first request, or settles before.     *)
LEMMA StartStep ==
  ASSUME TypeOK, NEW c \in Calls, Start(c)
  PROVE  K!CallNext(c)
<1>1. pc[c] = "idle" /\ phase[c] = "new"
  BY AlwaysViewed DEF Start, Viewed
<1>2. CASE Settle(c, "no_api_key") \/ Settle(c, "bad_params")
  <2>1. K!End(c, "refused")
    BY <1>2, SettleEnds, StatusOfOutcomes DEF Refusals, Outcomes
  <2> QED
    BY <1>1, <2>1 DEF K!CallNext, K!Refused
<1>3. CASE Settle(c, "aborted")
  <2>1. K!End(c, "unsure")
    BY <1>3, SettleEnds, StatusOfOutcomes DEF Outcomes
  <2> QED
    BY <1>1, <2>1 DEF K!CallNext, K!GiveUp
<1>4. CASE \E k \in KeyChoices(c) : SendOnce(c, 0, k)
  <2>1. \E k \in Choices[c] : K!Send(c, 0, k)
    BY <1>1, <1>4, SendOnceSends DEF Choices
  <2> QED
    BY <1>1, <2>1 DEF K!CallNext, K!First
<1> QED
  BY <1>2, <1>3, <1>4 DEF Start

(* fetch resolves: the headers of the response the call waits for.         *)
LEMMA HeadersStep ==
  ASSUME TypeOK, NEW c \in Calls, Headers(c)
  PROVE  K!CallNext(c)
<1>1. phase[c] = "fetching"
  BY AlwaysViewed DEF Headers, Viewed, Running, InFlight
<1>2. pc'[c] = "reading" /\ phase'[c] = "reading" /\ said'[c] = reply'[c].kind
  BY AlwaysViewed DEF Headers, Viewed, Running, InFlight, TypeOK
<1>3. \A d \in Calls \ {c} : /\ pc'[d] = pc[d] /\ outcome'[d] = outcome[d]
                             /\ reply'[d] = reply[d]
  BY DEF Headers, TypeOK
<1>4. PICK r \in responses :
        /\ r.call = c
        /\ reply' = [reply EXCEPT ![c] = [kind |-> r.kind, info |-> r.info]]
  BY DEF Headers
<1>5. said'[c] = r.kind
  BY <1>2, <1>4 DEF TypeOK
<1>6. /\ phase' = [phase EXCEPT ![c] = "reading"]
      /\ said' = [said EXCEPT ![c] = r.kind]
  BY <1>2, <1>3, <1>5, OthersKept
<1> QED
  BY <1>1, <1>4, <1>6, SameMessages DEF K!CallNext, K!Headers, Headers

(* The body is in: a 429 within the limits is slept on, anything else      *)
(* settles the call.                                                       *)
LEMMA ReceiveStep ==
  ASSUME IInv, NEW c \in Calls, Receive(c)
  PROVE  K!CallNext(c)
<1>1. TypeOK
  BY DEF IInv
<1>2. pc[c] = "reading" /\ phase[c] = "reading" /\ said[c] = reply[c].kind
  BY AlwaysViewed DEF Receive, Viewed, Running, InFlight
<1>3. reply[c].kind \in ResponseKinds
  BY <1>1, <1>2 DEF IInv, Phases, TypeOK, Replies
<1>4. CASE Retries(c, reply[c]) /\ ~aborted[c]
  <2>1. /\ pc' = [pc EXCEPT ![c] = "sleeping"]
        /\ reply' = [reply EXCEPT ![c] = NoReply]
        /\ UNCHANGED <<requests, responses, bookings, attempt, key, outcome>>
    BY <1>4 DEF Receive, Sleep
  <2>2. pc'[c] = "sleeping" /\ phase'[c] = "sleeping" /\ said'[c] = "none"
    BY <1>1, <2>1, AlwaysViewed DEF Viewed, Running, TypeOK
  <2>3. \A d \in Calls \ {c} : /\ pc'[d] = pc[d] /\ outcome'[d] = outcome[d]
                               /\ reply'[d] = reply[d]
    BY <1>1, <2>1 DEF TypeOK
  <2>4. /\ phase' = [phase EXCEPT ![c] = "sleeping"]
        /\ said' = [said EXCEPT ![c] = "none"]
    BY <2>2, <2>3, OthersKept
  <2>5. said[c] = "limited"
    BY <1>2, <1>4 DEF Retries
  <2> QED
    BY <1>2, <2>1, <2>4, <2>5 DEF K!CallNext, K!Pause, K!apiVars
<1>5. CASE Retries(c, reply[c]) /\ aborted[c]
  <2>1. Settle(c, "aborted")
    BY <1>5 DEF Receive, Sleep
  <2>2. K!End(c, "unsure")
    BY <1>1, <2>1, SettleEnds, StatusOfOutcomes DEF Outcomes
  <2> QED
    BY <1>2, <2>2 DEF K!CallNext, K!GiveUp, K!Running
<1>6. CASE ~Retries(c, reply[c])
  <2>1. Settle(c, OutcomeOf(reply[c].kind))
    BY <1>6 DEF Receive
  <2>2. OutcomeOf(reply[c].kind) \in Outcomes
    BY <1>3 DEF OutcomeOf, Outcomes, ResponseKinds
  <2>3. K!End(c, StatusOf(OutcomeOf(reply[c].kind)))
    BY <1>1, <2>1, <2>2, SettleEnds
  <2>4. CASE reply[c].kind \in {"ok", "limited"}
    <3>1. StatusOf(OutcomeOf(reply[c].kind)) = said[c]
      BY <1>2, <2>4, StatusOfOutcomes DEF OutcomeOf
    <3> QED
      BY <1>2, <2>3, <2>4, <3>1 DEF K!CallNext, K!Finish
  <2>5. CASE reply[c].kind \in {"text", "failed"}
    <3>1. StatusOf(OutcomeOf(reply[c].kind)) = "unsure"
      BY <2>5, StatusOfOutcomes DEF OutcomeOf
    <3> QED
      BY <1>2, <2>3, <3>1 DEF K!CallNext, K!GiveUp, K!Running
  <2> QED
    BY <1>3, <2>4, <2>5 DEF ResponseKinds
<1> QED
  BY <1>4, <1>5, <1>6

(* A wait is over: the next request, under the same key.                   *)
LEMMA WakeStep ==
  ASSUME TypeOK, NEW c \in Calls, Wake(c)
  PROVE  K!CallNext(c)
<1>1. phase[c] = "sleeping" /\ pc[c] # "reading"
  BY AlwaysViewed DEF Wake, Viewed, Running
<1>2. K!Send(c, attempt[c] + 1, key[c])
  BY <1>1, SendOnceSends DEF Wake
<1> QED
  BY <1>1, <1>2 DEF K!CallNext, K!Again

(* An aborted or broken attempt ends the call with an error.               *)
LEMMA RejectStep ==
  ASSUME TypeOK, NEW c \in Calls, Reject(c) \/ NetworkError(c)
  PROVE  K!CallNext(c)
<1>1. phase[c] \in {"fetching", "reading"}
  BY AlwaysViewed DEF Reject, NetworkError, Viewed, Running, InFlight
<1>2. \E o \in {"timeout", "aborted", "network"} : Settle(c, o)
  BY DEF Reject, NetworkError
<1>3. K!End(c, "unsure")
  BY <1>2, SettleEnds, StatusOfOutcomes DEF Outcomes
<1> QED
  BY <1>1, <1>3 DEF K!CallNext, K!GiveUp, K!Running

(* What changes no call's place, outcome or response, KeyedCalls does not  *)
(* see.                                                                    *)
LEMMA Unseen ==
  ASSUME UNCHANGED <<requests, responses, bookings, pc, attempt, key, reply,
                     outcome>>
  PROVE  UNCHANGED K!keyedVars
<1>1. phase' = phase /\ said' = said
  BY DEF phase, said, status, Running, InFlight
<1> QED
  BY <1>1 DEF K!keyedVars, K!apiVars, K!callVars

(* The caller's abort ends a wait at once, and is only noted otherwise.    *)
LEMMA AbortStep ==
  ASSUME IInv, NEW c \in Calls, CallerAbort(c)
  PROVE  K!CallNext(c) \/ UNCHANGED K!keyedVars
<1>1. CASE pc[c] = "sleeping"
  <2>1. TypeOK
    BY DEF IInv
  <2>2. phase[c] = "sleeping"
    BY <1>1, AlwaysViewed DEF Viewed, Running
  <2>3. /\ pc' = [pc EXCEPT ![c] = "settled"]
        /\ outcome' = [outcome EXCEPT ![c] = "aborted"]
        /\ UNCHANGED <<requests, responses, bookings, attempt, key, reply>>
    BY <1>1 DEF CallerAbort, apiVars
  <2>4. pc'[c] = "settled" /\ outcome'[c] = "aborted"
    BY <2>1, <2>3 DEF TypeOK
  <2>5. phase'[c] = "unsure" /\ said'[c] = "none"
    BY <2>4, AlwaysViewed, StatusOfOutcomes DEF Viewed
  <2>6. \A d \in Calls \ {c} : /\ pc'[d] = pc[d] /\ outcome'[d] = outcome[d]
                               /\ reply'[d] = reply[d]
    BY <2>1, <2>3 DEF TypeOK
  <2>7. /\ phase' = [phase EXCEPT ![c] = "unsure"]
        /\ said' = [said EXCEPT ![c] = "none"]
    BY <2>5, <2>6, OthersKept
  <2>8. responses = Others(c)
    BY <1>1 DEF IInv, ResponsesAwaited, Others
  <2> QED
    BY <2>2, <2>3, <2>7, <2>8, SameMessages DEF K!CallNext, K!GiveUp, K!Running,
       K!End
<1>2. CASE pc[c] # "sleeping"
  BY <1>2, Unseen DEF CallerAbort, apiVars
<1> QED
  BY <1>1, <1>2

(* The process ends: every call that runs gives up.                        *)
LEMMA CrashStep ==
  ASSUME TypeOK, Crash
  PROVE  K!Crash
<1>1. \A c \in Calls : /\ Running(c) <=> phase[c] \in K!Running
                       /\ Running(c) => pc'[c] = "crashed"
                       /\ ~Running(c) => pc'[c] = pc[c]
  <2>1. \A c \in Calls : /\ Running(c) => pc'[c] = "crashed"
                         /\ ~Running(c) => pc'[c] = pc[c]
    BY DEF Crash
  <2>2. ASSUME NEW c \in Calls
        PROVE  Running(c) <=> phase[c] \in K!Running
    <3>1. CASE Running(c)
      BY <3>1, AlwaysViewed DEF Viewed, Running, InFlight, K!Running
    <3>2. CASE ~Running(c)
      <4>1. pc[c] \in {"idle", "settled", "crashed"}
        BY <3>2 DEF TypeOK, PcValues, Running, InFlight
      <4>2. phase[c] \in {"new", "ok", "refused", "limited", "unsure"}
        BY <4>1, AlwaysViewed DEF Viewed, StatusOf
      <4> QED
        BY <3>2, <4>2 DEF K!Running
    <3> QED
      BY <3>1, <3>2
  <2> QED
    BY <2>1, <2>2
<1>2. \A c \in Calls :
        phase'[c] = IF phase[c] \in K!Running THEN "unsure" ELSE phase[c]
  <2>1. ASSUME NEW c \in Calls, Running(c)
        PROVE  phase'[c] = "unsure"
    BY <1>1, <2>1, AlwaysViewed DEF Viewed
  <2>2. ASSUME NEW c \in Calls, ~Running(c)
        PROVE  phase'[c] = phase[c]
    BY <1>1, <2>2 DEF phase, status, Running, InFlight, Crash
  <2> QED
    BY <1>1, <2>1, <2>2
<1>3. \A c \in Calls : said'[c] = "none"
  BY <1>1, AlwaysViewed DEF Viewed, Running, InFlight
<1>4. /\ phase' = [c \in Calls |-> phase'[c]] /\ said' = [c \in Calls |-> said'[c]]
  BY DEF phase, said
<1>5. /\ phase' = [c \in Calls |->
                    IF phase[c] \in K!Running THEN "unsure" ELSE phase[c]]
      /\ said' = [c \in Calls |-> "none"]
  BY <1>2, <1>3, <1>4
<1>6. \E c \in Calls : phase[c] \in K!Running
  BY <1>1 DEF Crash
<1> QED
  BY <1>5, <1>6 DEF K!Crash, Crash

(* The network and the API do the same to both.                            *)
LEMMA NetworkStep ==
  ASSUME IInv, Network
  PROVE  K!Network
<1>1. PICK m \in requests : Serve(m, Waiting(m))
  BY DEF Network
<1>2. m.call \in Calls
  BY DEF IInv, TypeOK, ApiTypeOK, Request
<1>3. Waiting(m) <=> K!Awaits(m)
  <2>1. pc[m.call] = "fetching" <=> phase[m.call] = "fetching"
    BY <1>2, AlwaysViewed DEF IInv, TypeOK, PcValues, Viewed, Running, InFlight,
       StatusOf
  <2> QED
    BY <2>1 DEF Waiting, K!Awaits
<1>4. Waiting(m) = K!Awaits(m)
  BY <1>3 DEF Waiting, K!Awaits
<1>5. K!Serve(m, K!Awaits(m))
  BY <1>1, <1>4 DEF Serve, Limit, Refuse, Book, Replay, Answer, Answered,
     Acceptable, Remembered, K!Serve, K!Limit, K!Refuse, K!Book, K!Replay,
     K!Answer, K!Answered, K!Acceptable, K!Remembered
<1>6. UNCHANGED K!callVars
  BY DEF Network, clientVars, phase, said, status, Running, InFlight, K!callVars
<1> QED
  BY <1>5, <1>6 DEF K!Network

-----------------------------------------------------------------------------
(* The step-by-step part of the refinement.                                *)
LEMMA StepIsKeyed == IInv /\ [Next]_vars => [K!Next]_(K!keyedVars)
<1> SUFFICES ASSUME IInv, [Next]_vars
             PROVE  K!Next \/ UNCHANGED K!keyedVars
  OBVIOUS
<1>1. TypeOK
  BY DEF IInv
<1>2. ASSUME NEW c \in Calls, CallNext(c)
      PROVE  K!CallNext(c) \/ UNCHANGED K!keyedVars
  <2>1. CASE TimerFires(c)
    BY <2>1, Unseen DEF TimerFires, apiVars
  <2> QED
    BY <1>1, <1>2, <2>1, StartStep, HeadersStep, ReceiveStep, WakeStep,
       AbortStep, RejectStep DEF CallNext
<1>3. CASE Crash
  BY <1>1, <1>3, CrashStep DEF K!Next
<1>4. CASE Tick
  BY <1>4, Unseen DEF Tick, apiVars
<1>5. CASE Network
  BY <1>5, NetworkStep DEF K!Next
<1>6. CASE UNCHANGED vars
  BY <1>6, Unseen DEF vars, apiVars, clientVars
<1> QED
  BY <1>2, <1>3, <1>4, <1>5, <1>6 DEF Next, K!Next

LEMMA InitIsKeyed == Init => K!Init
  BY AlwaysViewed DEF Init, ApiInit, ClientInit, Viewed, phase, said, Running,
     InFlight, K!Init, K!ApiInit

(* The TypeScript client follows the protocol of KeyedCalls: one key per   *)
(* call, and a new request only after a 429.                               *)
THEOREM TsFollowsKeyedCalls == Spec => K!Spec
<1>1. Spec => []IInv
  BY Invariance
<1> QED
  BY <1>1, InitIsKeyed, StepIsKeyed, PTL DEF Spec, K!Spec

(* Both see the same purchases, bookings and ends of calls.                *)
SameView ==
  /\ K!status = status
  /\ K!times = times

LEMMA SamePurchases ==
  /\ K!PurchaseOf = PurchaseOf
  /\ K!Purchases = Purchases
  /\ K!CarriesKey = CarriesKey
<1>1. K!PurchaseOf = PurchaseOf
  BY DEF K!PurchaseOf, PurchaseOf, K!HasCallerKey, HasCallerKey
<1>2. K!Purchases = Purchases
  BY <1>1 DEF K!Purchases, Purchases
<1>3. ASSUME NEW c \in Calls
      PROVE  NoKey \notin KeyChoices(c) <=>
               c \in KeyRequired /\ CallerKey[c] # EmptyKey
  <2>1. NoKey \notin Generated[c] /\ NoKey \notin Keys
    OBVIOUS
  <2>2. c \in KeyRequired \/ CallerKey[c] \in {NotGiven, EmptyKey}
    BY ProtectedAssumption DEF Protected
  <2> QED
    BY <2>1, <2>2 DEF KeyChoices
<1>4. K!CarriesKey = CarriesKey
  BY <1>3 DEF K!CarriesKey, CarriesKey, Choices
<1> QED
  BY <1>1, <1>2, <1>4

LEMMA ViewsAgree == IInv => SameView
<1> SUFFICES ASSUME IInv
             PROVE  SameView
  OBVIOUS
<1>1. ASSUME NEW c \in Calls
      PROVE  K!status[c] = status[c]
  <2>1. CASE Running(c)
    <3>1. K!status[c] = "open"
      BY <2>1, AlwaysViewed DEF Viewed, Running, InFlight, K!status, K!Running
    <3>2. pc[c] \notin {"idle", "crashed"}
      BY <2>1 DEF Running, InFlight
    <3> QED
      BY <2>1, <3>1, <3>2 DEF status
  <2>2. CASE ~Running(c)
    <3>1. pc[c] \in {"idle", "settled", "crashed"}
      BY <2>2 DEF IInv, TypeOK, PcValues, Running, InFlight
    <3>2. phase[c] = status[c]
      BY <2>2 DEF phase
    <3>3. phase[c] \notin K!Running
      BY <3>1, AlwaysViewed DEF Viewed, StatusOf, K!Running
    <3> QED
      BY <3>2, <3>3 DEF K!status
  <2> QED
    BY <2>1, <2>2
<1>2. K!status = status
  BY <1>1 DEF K!status, status
<1>3. K!times = times
  BY SamePurchases DEF K!times, times, K!BookingsOf, BookingsOf
<1> QED
  BY <1>2, <1>3 DEF SameView

LEMMA InitAgrees == SameView /\ K!Abstract!Init => Abstract!Init
  BY SamePurchases DEF SameView, K!Abstract!Init, Abstract!Init

LEMMA StepAgrees ==
  SameView /\ SameView' /\ [K!Abstract!Next]_(K!Abstract!bookingVars)
    => [Abstract!Next]_(Abstract!bookingVars)
  BY SamePurchases DEF SameView,
     K!Abstract!Next, K!Abstract!Open, K!Abstract!Refuse, K!Abstract!Succeed,
     K!Abstract!Limit, K!Abstract!Book, K!Abstract!GiveUp, K!Abstract!Become,
     K!Abstract!bookingVars,
     Abstract!Next, Abstract!Open, Abstract!Refuse, Abstract!Succeed,
     Abstract!Limit, Abstract!Book, Abstract!GiveUp, Abstract!Become,
     Abstract!bookingVars

(* The TypeScript client keeps the promise about bookings, for every       *)
(* number of calls, callers, crashes, retries and replays: a purchase is   *)
(* booked at most once, and never after the client reported that it will   *)
(* not be.                                                                 *)
THEOREM TsImplementsBookingCalls == Spec => ImplementsBookingCalls
<1>1. K!ChoicesSound /\ K!Spec => K!Abstract!Spec
  BY K!KeyedCallsBookOnce, ApiAssumption, SdkAssumption
<1>2. Spec => []SameView
  BY Invariance, ViewsAgree, PTL
<1> QED
  BY <1>1, <1>2, KeyChoicesSound, TsFollowsKeyedCalls, InitAgrees, StepAgrees,
     PTL DEF ImplementsBookingCalls, Abstract!Spec, K!Abstract!Spec
=============================================================================

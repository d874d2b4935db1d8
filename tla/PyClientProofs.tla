--------------------------- MODULE PyClientProofs ---------------------------
(***************************************************************************)
(* Proofs about PyClient, for any number of threads, keys, retries and     *)
(* replays: its types, its waits, and that it implements BookingCalls, by  *)
(* way of KeyedCalls.                                                      *)
(***************************************************************************)
EXTENDS PyClient, TLAPS

(* A call that sleeps has an attempt left, and one that has headers keeps  *)
(* the response they came with.                                            *)
Shape ==
  \A c \in Calls :
    /\ pc[c] = "sleeping" => attempt[c] < MaxRetries[c]
    /\ pc[c] = "reading" => reply[c] # NoReply

(* A wait lasts as long as the 429 asked for.                              *)
WaitInv ==
  \A c \in Calls :
    pc[c] = "sleeping" => owed[c] <= timer[c] /\ timer[c] <= MaxRetryDelay

IInv == TypeOK /\ Shape /\ WaitInv

-----------------------------------------------------------------------------
USE ApiAssumption, SdkAssumption, PyAssumption

(* A wait that time.sleep accepts is at least as long as the 429 asks for. *)
LEMMA WaitsAreIntegers ==
  ASSUME NEW info \in Infos \cup {NoInfo}
  PROVE  /\ RetryDelay(info) \in Int
         /\ Announced(info) \in Nat
         /\ RetryDelay(info) >= 0 => Announced(info) <= RetryDelay(info)
<1>1. CASE info = NoInfo
  BY <1>1 DEF RetryDelay, Announced
<1>2. CASE info \in Infos
  <2>1. /\ info.retryAfter \in Nat \cup {Absent}
        /\ info.reset \in Int \cup {Absent}
    BY <1>2
  <2> QED
    BY <1>2, <2>1 DEF RetryDelay, Announced, AtLeastZero
<1> QED
  BY <1>1, <1>2

(* The key of a call is its caller's, a generated one, or none.            *)
LEMMA KeysChosen ==
  ASSUME NEW c \in Calls, NEW k \in KeyChoices(c)
  PROVE  k \in Keys \cup {NoKey}
  BY DEF KeyChoices

(* request may return or raise from anywhere.                              *)
LEMMA ReturnInv ==
  ASSUME IInv, NEW c \in Calls, NEW o \in Outcomes, Return(c, o),
         rateLimit' \in Infos \cup {NoInfo}
  PROVE  IInv'
<1>1. TypeOK'
  BY DEF IInv, TypeOK, ApiTypeOK, Return, Others, PcValues, Replies
<1>2. Shape' /\ WaitInv'
  BY DEF IInv, TypeOK, Shape, WaitInv, Return
<1> QED
  BY <1>1, <1>2 DEF IInv

LEMMA OpenInv ==
  ASSUME IInv, NEW c \in Calls, NEW n \in Nat, n <= MaxRetries[c],
         NEW k \in Keys \cup {NoKey}, Open(c, n, k), UNCHANGED rateLimit
  PROVE  IInv'
<1>1. NewRequest(c, n, k) \in Request
  BY DEF NewRequest, Request
<1>2. requests' \subseteq Request
  BY <1>1 DEF Open, IInv, TypeOK, ApiTypeOK
<1>3. TypeOK'
  BY <1>2 DEF Open, IInv, TypeOK, ApiTypeOK, PcValues
<1>4. Shape' /\ WaitInv'
  BY DEF Open, IInv, TypeOK, Shape, WaitInv
<1> QED
  BY <1>3, <1>4 DEF IInv

(* The network and the API keep the types of what they exchange.           *)
LEMMA ServeType ==
  ASSUME ApiTypeOK, NEW m \in requests, NEW waiting \in BOOLEAN,
         Serve(m, waiting)
  PROVE  ApiTypeOK'
<1>1. m \in Request
  BY DEF ApiTypeOK
<1>2. ASSUME NEW kinds \in SUBSET ResponseKinds, Answer(m, kinds, waiting)
      PROVE  responses' \subseteq Response
  BY <1>1, <1>2 DEF Answer, ApiTypeOK, Response, Request
<1>3. CASE Limit(m, waiting)
  BY <1>2, <1>3 DEF Limit, ApiTypeOK, ResponseKinds
<1>4. CASE Refuse(m, waiting)
  BY <1>2, <1>4 DEF Refuse, ApiTypeOK, ResponseKinds
<1>5. CASE Book(m, waiting)
  BY <1>1, <1>2, <1>5 DEF Book, ApiTypeOK, ResponseKinds
<1>6. CASE Replay(m)
  <2>1. [m EXCEPT !.copy = m.copy + 1] \in Request
    BY <1>1, <1>6 DEF Replay, Request
  <2> QED
    BY <1>6, <2>1 DEF Replay, ApiTypeOK
<1> QED
  BY <1>3, <1>4, <1>5, <1>6 DEF Serve

LEMMA HeadersInv ==
  ASSUME IInv, NEW c \in Calls, Headers(c)
  PROVE  IInv'
<1>1. PICK r \in responses :
        reply' = [reply EXCEPT ![c] = [kind |-> r.kind, info |-> r.info]]
  BY DEF Headers
<1>2. /\ [kind |-> r.kind, info |-> r.info] \in Replies
      /\ r.kind # "none"
  BY DEF IInv, TypeOK, ApiTypeOK, Response, ResponseKinds, Replies
<1>3. TypeOK'
  BY <1>1, <1>2 DEF Headers, Others, IInv, TypeOK, ApiTypeOK, PcValues
<1>4. Shape' /\ WaitInv'
  BY <1>1, <1>2 DEF Headers, IInv, TypeOK, Shape, WaitInv, NoReply
<1> QED
  BY <1>3, <1>4 DEF IInv

LEMMA ReplyTypes ==
  ASSUME IInv, NEW c \in Calls, pc[c] = "reading"
  PROVE  /\ reply[c].kind \in ResponseKinds
         /\ reply[c].info \in Infos \cup {NoInfo}
         /\ OutcomeOf(reply[c].kind) \in Outcomes
<1>1. reply[c] \in [kind : ResponseKinds, info : Infos \cup {NoInfo}]
  BY DEF IInv, TypeOK, Shape, Replies
<1> QED
  BY <1>1 DEF ResponseKinds, OutcomeOf, Outcomes

LEMMA ReceiveInv ==
  ASSUME IInv, NEW c \in Calls, Receive(c)
  PROVE  IInv'
<1>1. rateLimit' \in Infos \cup {NoInfo}
  BY ReplyTypes DEF Receive, IInv, TypeOK
<1>2. CASE Return(c, OutcomeOf(reply[c].kind)) \/ Return(c, "negative_sleep")
  BY <1>1, <1>2, ReplyTypes, ReturnInv DEF Receive, Outcomes
<1>3. CASE /\ Retries(c, reply[c]) /\ RetryDelay(reply[c].info) >= 0
           /\ Sleep(c, reply[c].info)
  <2> DEFINE wait == RetryDelay(reply[c].info)
             asked == Announced(reply[c].info)
  <2>1. wait \in Nat /\ asked \in Nat /\ asked <= wait /\ wait <= MaxRetryDelay
    BY <1>3, ReplyTypes, WaitsAreIntegers DEF Receive, Retries
  <2>2. /\ pc' = [pc EXCEPT ![c] = "sleeping"]
        /\ timer' = [timer EXCEPT ![c] = wait]
        /\ owed' = [owed EXCEPT ![c] = asked]
        /\ reply' = [reply EXCEPT ![c] = NoReply]
        /\ UNCHANGED <<requests, responses, bookings, attempt, key, outcome>>
    BY <1>3 DEF Sleep, apiVars
  <2>3. attempt[c] < MaxRetries[c]
    BY <1>3 DEF Retries
  <2> HIDE DEF wait, asked
  <2>4. TypeOK'
    BY <1>1, <2>1, <2>2 DEF IInv, TypeOK, ApiTypeOK, PcValues, Replies
  <2>5. Shape' /\ WaitInv'
    BY <2>1, <2>2, <2>3 DEF IInv, TypeOK, Shape, WaitInv
  <2> QED
    BY <2>4, <2>5 DEF IInv
<1> QED
  BY <1>2, <1>3 DEF Receive

(* One step at a time: whatever a thread, the network or the process does  *)
(* keeps the types and the waits.                                          *)
LEMMA InvStep == IInv /\ [Next]_vars => IInv'
<1> SUFFICES ASSUME IInv, [Next]_vars
             PROVE  IInv'
  OBVIOUS
<1>1. ASSUME NEW c \in Calls, Start(c)
      PROVE  IInv'
  <2>1. CASE \E o \in Refusals : Return(c, o)
    BY <1>1, <2>1, ReturnInv DEF Start, Outcomes, IInv, TypeOK
  <2>2. CASE \E k \in KeyChoices(c) : Open(c, 0, k)
    BY <1>1, <2>2, KeysChosen, OpenInv DEF Start
  <2> QED
    BY <1>1, <2>1, <2>2 DEF Start, Refusals
<1>2. ASSUME NEW c \in Calls, Trickle(c)
      PROVE  IInv'
  BY <1>2 DEF Trickle, apiVars, IInv, TypeOK, ApiTypeOK, Shape, WaitInv
<1>3. ASSUME NEW c \in Calls, TimesOut(c) \/ Breaks(c) \/ CutShort(c)
      PROVE  IInv'
  <2>1. \E o \in {"timeout_error", "connection", "os_error", "incomplete_read"} :
          Return(c, o)
    BY <1>3 DEF TimesOut, Breaks, CutShort
  <2>2. rateLimit' \in Infos \cup {NoInfo}
    BY <1>3 DEF TimesOut, Breaks, CutShort, IInv, TypeOK
  <2> QED
    BY <2>1, <2>2, ReturnInv DEF Outcomes
<1>4. ASSUME NEW c \in Calls, Wake(c)
      PROVE  IInv'
  <2>1. /\ attempt[c] + 1 \in Nat /\ attempt[c] + 1 <= MaxRetries[c]
        /\ key[c] \in Keys \cup {NoKey}
    BY <1>4 DEF Wake, IInv, TypeOK, Shape
  <2> QED
    BY <1>4, <2>1, OpenInv DEF Wake
<1>5. CASE Crash
  BY <1>5 DEF Crash, IInv, TypeOK, ApiTypeOK, Shape, WaitInv, PcValues, Replies,
     Running, OnTheWire
<1>6. CASE Tick
  BY <1>6 DEF Tick, apiVars, AtLeastZero, IInv, TypeOK, ApiTypeOK, Shape, WaitInv
<1>7. CASE Network
  <2>1. PICK m \in requests : Serve(m, Waiting(m))
    BY <1>7 DEF Network
  <2>2. ApiTypeOK'
    BY <2>1, ServeType DEF Waiting, IInv, TypeOK
  <2> QED
    BY <1>7, <2>2 DEF Network, clientVars, IInv, TypeOK, Shape, WaitInv
<1>8. CASE UNCHANGED vars
  BY <1>8 DEF vars, apiVars, clientVars, IInv, TypeOK, ApiTypeOK, Shape, WaitInv
<1> QED
  BY <1>1, <1>2, <1>3, <1>4, <1>5, <1>6, <1>7, <1>8, HeadersInv, ReceiveInv
     DEF Next, CallNext

LEMMA Invariance == Spec => []IInv
<1>1. Init => IInv
  BY DEF Init, ApiInit, ClientInit, IInv, TypeOK, ApiTypeOK, Shape, WaitInv,
     PcValues, Outcomes, Replies
<1> QED
  BY <1>1, InvStep, PTL DEF Spec

(* The attempts of a call stay within max_retries, and every wait is one   *)
(* that time.sleep accepts.                                                *)
THEOREM TypeCorrect == Spec => []TypeOK
  BY Invariance, PTL DEF IInv

(* A thread sleeps at least as long as the 429 asked for and never longer  *)
(* than max_retry_delay, whichever headers the wait comes from.            *)
THEOREM CallsWaitAsAsked == Spec => []WaitsAsAsked
<1>1. IInv => WaitsAsAsked
  BY DEF IInv, WaitInv, WaitsAsAsked
<1> QED
  BY <1>1, Invariance, PTL

-----------------------------------------------------------------------------
(* The state of KeyedCalls this client stands for.                         *)
phase ==
  [c \in Calls |->
     IF pc[c] = "opening" THEN "fetching"
     ELSE IF pc[c] \in {"reading", "sleeping"} THEN pc[c] ELSE status[c]]
said == [c \in Calls |-> IF pc[c] = "reading" THEN reply[c].kind ELSE "none"]
Choices == [c \in Calls |-> KeyChoices(c)]

K == INSTANCE KeyedCallsProofs

(* request takes an idempotency_key for any operation (client.py:138), but *)
(* the API honours it for two of them only.                                *)
KeysWhereHonoured == \A c \in Calls : CallerKey[c] \in Keys => c \in KeyRequired

(* A key is the caller's, or generated for one call, or none.              *)
LEMMA KeyChoicesSound == KeysWhereHonoured => K!ChoicesSound
<1> SUFFICES ASSUME KeysWhereHonoured
             PROVE  K!ChoicesSound
  OBVIOUS
<1>1. Choices \in [Calls -> SUBSET (Keys \cup {NoKey})]
  BY KeysChosen DEF Choices
<1>2. \A c \in Calls : NoKey \in KeyChoices(c) => KeyChoices(c) = {NoKey}
  BY DEF KeyChoices
<1>3. \A c \in Calls \ KeyRequired : KeyChoices(c) = {NoKey}
  BY DEF KeyChoices, KeysWhereHonoured
<1>4. \A c \in Calls : HasCallerKey(c) => KeyChoices(c) = {CallerKey[c]}
  BY DEF KeyChoices, HasCallerKey
<1>5. ASSUME NEW c \in Calls, NEW d \in Calls,
             NEW k \in (KeyChoices(c) \cap KeyChoices(d)) \ {NoKey}
      PROVE  PurchaseOf[c] = PurchaseOf[d]
  <2>1. c \in KeyRequired /\ d \in KeyRequired
    BY <1>3
  <2>2. \A e \in {c, d} :
          IF CallerKey[e] \in Keys THEN k = CallerKey[e] ELSE k \in Generated[e]
    BY <2>1 DEF KeyChoices
  <2>3. CASE c = d
    BY <2>3
  <2>4. CASE c # d
    <3>1. CallerKey[c] \in Keys /\ CallerKey[d] \in Keys
      BY <2>2, <2>4
    <3>2. CallerKey[c] = CallerKey[d]
      BY <2>2, <3>1
    <3> QED
      BY <2>1, <3>1, <3>2 DEF PurchaseOf, HasCallerKey
  <2> QED
    BY <2>3, <2>4
<1>6. \A c \in Calls : Choices[c] = KeyChoices(c)
  BY DEF Choices
<1>7. ASSUME NEW c \in Calls, NEW d \in Calls
      PROVE  /\ K!HasCallerKey(c) <=> HasCallerKey(c)
             /\ K!PurchaseOf[c] = PurchaseOf[c]
  BY DEF K!HasCallerKey, K!PurchaseOf, HasCallerKey, PurchaseOf
<1> QED
  BY <1>1, <1>2, <1>3, <1>4, <1>5, <1>6, <1>7 DEF K!ChoicesSound

(* The state of a call in KeyedCalls, by where request is with it.         *)
Viewed ==
  \A c \in Calls :
    /\ pc[c] = "idle" => phase[c] = "new"
    /\ pc[c] = "opening" => phase[c] = "fetching"
    /\ pc[c] = "reading" => phase[c] = "reading" /\ said[c] = reply[c].kind
    /\ pc[c] = "sleeping" => phase[c] = "sleeping"
    /\ pc[c] = "crashed" => phase[c] = "unsure"
    /\ pc[c] = "returned" => phase[c] = StatusOf(outcome[c])
    /\ pc[c] # "reading" => said[c] = "none"

LEMMA AlwaysViewed == Viewed /\ Viewed'
<1>1. Viewed
  BY DEF Viewed, phase, said, status, Running, OnTheWire
<1>2. Viewed'
  BY DEF Viewed, phase, said, status, Running, OnTheWire
<1> QED
  BY <1>1, <1>2

(* A step of one call changes the view of that call alone.                 *)
LEMMA OthersKept ==
  ASSUME NEW c \in Calls,
         \A d \in Calls \ {c} : /\ pc'[d] = pc[d] /\ outcome'[d] = outcome[d]
                                /\ reply'[d] = reply[d]
  PROVE  /\ phase' = [phase EXCEPT ![c] = phase'[c]]
         /\ said' = [said EXCEPT ![c] = said'[c]]
<1>1. \A d \in Calls \ {c} : phase'[d] = phase[d] /\ said'[d] = said[d]
  BY DEF phase, said, status, Running, OnTheWire
<1>2. /\ DOMAIN phase = Calls /\ DOMAIN said = Calls
      /\ phase = [d \in Calls |-> phase[d]] /\ said = [d \in Calls |-> said[d]]
  BY DEF phase, said
<1>3. /\ phase' = [d \in Calls |-> phase'[d]]
      /\ said' = [d \in Calls |-> said'[d]]
  BY DEF phase, said
<1> QED
  BY <1>1, <1>2, <1>3

(* The requests and responses of KeyedCalls are the client's.              *)
LEMMA SameMessages ==
  /\ \A c \in Calls : K!Others(c) = Others(c)
  /\ \A c, n, k : K!NewRequest(c, n, k) = NewRequest(c, n, k)
  BY DEF K!Others, Others, K!NewRequest, NewRequest

(* How request ends: the errors that tell a caller nothing about its       *)
(* booking are one.                                                        *)
LEMMA StatusOfOutcomes ==
  /\ \A o \in Refusals : StatusOf(o) = "refused"
  /\ StatusOf("ok") = "ok" /\ StatusOf("limited") = "limited"
  /\ \A o \in {"invalid_response", "failed", "connection", "timeout_error",
               "os_error", "incomplete_read", "negative_sleep"} :
       StatusOf(o) = "unsure"
  BY DEF StatusOf, Refusals

LEMMA ReturnEnds ==
  ASSUME IInv, NEW c \in Calls, NEW o \in Outcomes, Return(c, o)
  PROVE  K!End(c, StatusOf(o))
<1>1. pc'[c] = "returned" /\ outcome'[c] = o
  BY DEF Return, IInv, TypeOK
<1>2. phase'[c] = StatusOf(o) /\ said'[c] = "none"
  BY <1>1, AlwaysViewed DEF Viewed
<1>3. \A d \in Calls \ {c} : /\ pc'[d] = pc[d] /\ outcome'[d] = outcome[d]
                             /\ reply'[d] = reply[d]
  BY DEF Return, IInv, TypeOK
<1> QED
  BY <1>2, <1>3, OthersKept, SameMessages DEF K!End, Return

LEMMA OpenSends ==
  ASSUME IInv, NEW c \in Calls, NEW n, NEW k, Open(c, n, k),
         pc[c] \in {"idle", "sleeping"}
  PROVE  K!Send(c, n, k)
<1>1. pc'[c] = "opening" /\ reply' = reply /\ outcome' = outcome
  BY DEF Open, IInv, TypeOK
<1>2. phase'[c] = "fetching" /\ said'[c] = said[c]
  BY <1>1, AlwaysViewed DEF Viewed
<1>3. \A d \in Calls \ {c} : /\ pc'[d] = pc[d] /\ outcome'[d] = outcome[d]
                             /\ reply'[d] = reply[d]
  BY DEF Open, IInv, TypeOK
<1>4. said' = said
  BY <1>2, <1>3, OthersKept DEF said
<1> QED
  BY <1>2, <1>3, <1>4, OthersKept, SameMessages DEF K!Send, Open

(* request is called: it sends the first request, or raises before.        *)
LEMMA StartStep ==
  ASSUME IInv, NEW c \in Calls, Start(c)
  PROVE  K!CallNext(c)
<1>1. pc[c] = "idle" /\ phase[c] = "new"
  BY AlwaysViewed DEF Start, Viewed
<1>2. CASE \E o \in Refusals : Return(c, o)
  <2>1. K!End(c, "refused")
    BY <1>2, ReturnEnds, StatusOfOutcomes DEF Refusals, Outcomes
  <2> QED
    BY <1>1, <2>1 DEF K!CallNext, K!Refused
<1>3. CASE \E k \in KeyChoices(c) : Open(c, 0, k)
  <2>1. \E k \in Choices[c] : K!Send(c, 0, k)
    BY <1>1, <1>3, OpenSends DEF Choices
  <2> QED
    BY <1>1, <2>1 DEF K!CallNext, K!First
<1> QED
  BY <1>2, <1>3 DEF Start, Refusals

(* A wait is over: the next request, under the same key.                   *)
LEMMA WakeStep ==
  ASSUME IInv, NEW c \in Calls, Wake(c)
  PROVE  K!CallNext(c)
<1>1. pc[c] = "sleeping" /\ phase[c] = "sleeping"
  BY AlwaysViewed DEF Wake, Viewed
<1>2. K!Send(c, attempt[c] + 1, key[c])
  BY <1>1, OpenSends DEF Wake
<1> QED
  BY <1>1, <1>2 DEF K!CallNext, K!Again

LEMMA HeadersStep ==
  ASSUME IInv, NEW c \in Calls, Headers(c)
  PROVE  K!CallNext(c)
<1>1. phase[c] = "fetching"
  BY AlwaysViewed DEF Headers, Viewed
<1>2. pc'[c] = "reading" /\ phase'[c] = "reading" /\ said'[c] = reply'[c].kind
  BY AlwaysViewed DEF Headers, Viewed, IInv, TypeOK
<1>3. \A d \in Calls \ {c} : /\ pc'[d] = pc[d] /\ outcome'[d] = outcome[d]
                             /\ reply'[d] = reply[d]
  BY DEF Headers, IInv, TypeOK
<1>4. PICK r \in responses :
        /\ r.call = c
        /\ reply' = [reply EXCEPT ![c] = [kind |-> r.kind, info |-> r.info]]
  BY DEF Headers
<1>5. said'[c] = r.kind
  BY <1>2, <1>4 DEF IInv, TypeOK
<1>6. /\ phase' = [phase EXCEPT ![c] = "reading"]
      /\ said' = [said EXCEPT ![c] = r.kind]
  BY <1>2, <1>3, <1>5, OthersKept
<1> QED
  BY <1>1, <1>4, <1>6, SameMessages DEF K!CallNext, K!Headers, Headers

(* What request does with a response it has read.                          *)
LEMMA ReceiveStep ==
  ASSUME IInv, NEW c \in Calls, Receive(c)
  PROVE  K!CallNext(c)
<1>1. pc[c] = "reading" /\ phase[c] = "reading" /\ said[c] = reply[c].kind
  BY AlwaysViewed DEF Receive, Viewed
<1>2. reply[c].kind \in ResponseKinds /\ OutcomeOf(reply[c].kind) \in Outcomes
  BY <1>1, ReplyTypes
<1>3. CASE Retries(c, reply[c]) /\ Sleep(c, reply[c].info)
  <2>1. /\ pc' = [pc EXCEPT ![c] = "sleeping"]
        /\ reply' = [reply EXCEPT ![c] = NoReply]
        /\ UNCHANGED <<requests, responses, bookings, attempt, key, outcome>>
    BY <1>3 DEF Sleep, apiVars
  <2>2. pc'[c] = "sleeping" /\ phase'[c] = "sleeping" /\ said'[c] = "none"
    BY <2>1, AlwaysViewed DEF Viewed, IInv, TypeOK
  <2>3. \A d \in Calls \ {c} : /\ pc'[d] = pc[d] /\ outcome'[d] = outcome[d]
                               /\ reply'[d] = reply[d]
    BY <2>1 DEF IInv, TypeOK
  <2>4. /\ phase' = [phase EXCEPT ![c] = "sleeping"]
        /\ said' = [said EXCEPT ![c] = "none"]
    BY <2>2, <2>3, OthersKept
  <2>5. said[c] = "limited"
    BY <1>1, <1>3 DEF Retries
  <2> QED
    BY <1>1, <2>1, <2>4, <2>5 DEF K!CallNext, K!Pause, K!apiVars
<1>4. CASE Return(c, "negative_sleep")
  <2>1. K!End(c, "unsure")
    BY <1>4, ReturnEnds, StatusOfOutcomes DEF Outcomes
  <2> QED
    BY <1>1, <2>1 DEF K!CallNext, K!GiveUp, K!Running
<1>5. CASE Return(c, OutcomeOf(reply[c].kind))
  <2>1. K!End(c, StatusOf(OutcomeOf(reply[c].kind)))
    BY <1>2, <1>5, ReturnEnds
  <2>2. CASE reply[c].kind \in {"ok", "limited"}
    <3>1. StatusOf(OutcomeOf(reply[c].kind)) = said[c]
      BY <1>1, <2>2, StatusOfOutcomes DEF OutcomeOf
    <3> QED
      BY <1>1, <2>1, <2>2, <3>1 DEF K!CallNext, K!Finish
  <2>3. CASE reply[c].kind \in {"text", "failed"}
    <3>1. StatusOf(OutcomeOf(reply[c].kind)) = "unsure"
      BY <2>3, StatusOfOutcomes DEF OutcomeOf
    <3> QED
      BY <1>1, <2>1, <3>1 DEF K!CallNext, K!GiveUp, K!Running
  <2> QED
    BY <1>2, <2>2, <2>3 DEF ResponseKinds
<1> QED
  BY <1>3, <1>4, <1>5 DEF Receive

(* An attempt that times out, breaks or is cut short ends the call with an *)
(* error.                                                                  *)
LEMMA FailStep ==
  ASSUME IInv, NEW c \in Calls, TimesOut(c) \/ Breaks(c) \/ CutShort(c)
  PROVE  K!CallNext(c)
<1>1. phase[c] \in {"fetching", "reading"}
  BY AlwaysViewed DEF TimesOut, Breaks, CutShort, Viewed, OnTheWire
<1>2. \E o \in {"timeout_error", "connection", "os_error", "incomplete_read"} :
        Return(c, o)
  BY DEF TimesOut, Breaks, CutShort
<1>3. K!End(c, "unsure")
  BY <1>2, ReturnEnds, StatusOfOutcomes DEF Outcomes
<1> QED
  BY <1>1, <1>3 DEF K!CallNext, K!GiveUp, K!Running

(* What changes no call's place, outcome or response, KeyedCalls does not  *)
(* see.                                                                    *)
LEMMA Unseen ==
  ASSUME UNCHANGED <<requests, responses, bookings, pc, attempt, key, reply,
                     outcome>>
  PROVE  UNCHANGED K!keyedVars
<1>1. phase' = phase /\ said' = said
  BY DEF phase, said, status, Running, OnTheWire
<1> QED
  BY <1>1 DEF K!keyedVars, K!apiVars, K!callVars

(* The process ends: every call that runs gives up.                        *)
LEMMA CrashStep ==
  ASSUME IInv, Crash
  PROVE  K!Crash
<1>1. \A c \in Calls : /\ Running(c) => pc'[c] = "crashed"
                       /\ ~Running(c) => pc'[c] = pc[c]
  BY DEF Crash
<1>2. ASSUME NEW c \in Calls
      PROVE  Running(c) <=> phase[c] \in K!Running
  <2>1. CASE Running(c)
    BY <2>1, AlwaysViewed DEF Viewed, Running, OnTheWire, K!Running
  <2>2. CASE ~Running(c)
    <3>1. pc[c] \in {"idle", "returned", "crashed"}
      BY <2>2 DEF IInv, TypeOK, PcValues, Running, OnTheWire
    <3>2. phase[c] \in {"new", "ok", "refused", "limited", "unsure"}
      BY <3>1, AlwaysViewed DEF Viewed, StatusOf
    <3> QED
      BY <2>2, <3>2 DEF K!Running
  <2> QED
    BY <2>1, <2>2
<1>3. \A c \in Calls :
        phase'[c] = IF phase[c] \in K!Running THEN "unsure" ELSE phase[c]
  <2>1. ASSUME NEW c \in Calls, Running(c)
        PROVE  phase'[c] = "unsure"
    BY <1>1, <2>1, AlwaysViewed DEF Viewed
  <2>2. ASSUME NEW c \in Calls, ~Running(c)
        PROVE  phase'[c] = phase[c]
    BY <1>1, <2>2 DEF phase, status, Running, OnTheWire, Crash
  <2> QED
    BY <1>2, <2>1, <2>2
<1>4. \A c \in Calls : said'[c] = "none"
  BY <1>1, AlwaysViewed DEF Viewed, Running, OnTheWire
<1>5. phase' = [c \in Calls |-> phase'[c]] /\ said' = [c \in Calls |-> said'[c]]
  BY DEF phase, said
<1>6. /\ phase' = [c \in Calls |->
                    IF phase[c] \in K!Running THEN "unsure" ELSE phase[c]]
      /\ said' = [c \in Calls |-> "none"]
  BY <1>3, <1>4, <1>5
<1>7. \E c \in Calls : phase[c] \in K!Running
  BY <1>2 DEF Crash
<1> QED
  BY <1>6, <1>7 DEF K!Crash, Crash

(* The network and the API do the same to both.                            *)
LEMMA NetworkStep ==
  ASSUME IInv, Network
  PROVE  K!Network
<1>1. PICK m \in requests : Serve(m, Waiting(m))
  BY DEF Network
<1>2. m.call \in Calls
  BY DEF IInv, TypeOK, ApiTypeOK, Request
<1>3. pc[m.call] = "opening" <=> phase[m.call] = "fetching"
  BY <1>2, AlwaysViewed DEF IInv, TypeOK, PcValues, Viewed, StatusOf
<1>4. Waiting(m) = K!Awaits(m)
  BY <1>3 DEF Waiting, K!Awaits
<1>5. K!Serve(m, K!Awaits(m))
  BY <1>1, <1>4 DEF Serve, Limit, Refuse, Book, Replay, Answer, Answered,
     Acceptable, Remembered, K!Serve, K!Limit, K!Refuse, K!Book, K!Replay,
     K!Answer, K!Answered, K!Acceptable, K!Remembered
<1>6. UNCHANGED K!callVars
  BY DEF Network, clientVars, phase, said, status, Running, OnTheWire, K!callVars
<1> QED
  BY <1>5, <1>6 DEF K!Network

(* The step-by-step part of the refinement.                                *)
LEMMA StepIsKeyed == IInv /\ [Next]_vars => [K!Next]_(K!keyedVars)
<1> SUFFICES ASSUME IInv, [Next]_vars
             PROVE  K!Next \/ UNCHANGED K!keyedVars
  OBVIOUS
<1>1. ASSUME NEW c \in Calls, CallNext(c)
      PROVE  K!CallNext(c) \/ UNCHANGED K!keyedVars
  <2>1. CASE Trickle(c)
    BY <2>1, Unseen DEF Trickle, apiVars
  <2> QED
    BY <1>1, <2>1, StartStep, HeadersStep, FailStep, ReceiveStep, WakeStep
       DEF CallNext
<1>2. CASE Crash
  BY <1>2, CrashStep DEF K!Next
<1>3. CASE Tick
  BY <1>3, Unseen DEF Tick, apiVars
<1>4. CASE Network
  BY <1>4, NetworkStep DEF K!Next
<1>5. CASE UNCHANGED vars
  BY <1>5, Unseen DEF vars, apiVars, clientVars
<1> QED
  BY <1>1, <1>2, <1>3, <1>4, <1>5 DEF Next, K!Next

LEMMA InitIsKeyed == Init => K!Init
  BY AlwaysViewed DEF Init, ApiInit, ClientInit, Viewed, phase, said, K!Init,
     K!ApiInit

(* request follows the protocol of KeyedCalls: one key per call, and a new *)
(* request only after a 429.                                               *)
THEOREM PyFollowsKeyedCalls == Spec => K!Spec
  BY Invariance, InitIsKeyed, StepIsKeyed, PTL DEF Spec, K!Spec

-----------------------------------------------------------------------------
(* Both see the same purchases, bookings and ends of calls.                *)
SameView ==
  /\ K!status = status
  /\ K!times = times

LEMMA SamePurchases ==
  /\ K!PurchaseOf = PurchaseOf
  /\ K!Purchases = Purchases
  /\ KeysWhereHonoured => K!CarriesKey = KeyRequired
<1>1. K!PurchaseOf = PurchaseOf
  BY DEF K!PurchaseOf, PurchaseOf, K!HasCallerKey, HasCallerKey
<1>2. K!Purchases = Purchases
  BY <1>1 DEF K!Purchases, Purchases
<1>3. ASSUME KeysWhereHonoured, NEW c \in Calls
      PROVE  NoKey \notin KeyChoices(c) <=> c \in KeyRequired
  <2>1. NoKey \notin Generated[c] /\ NoKey \notin Keys
    OBVIOUS
  <2> QED
    BY <1>3, <2>1 DEF KeyChoices, KeysWhereHonoured
<1>4. KeysWhereHonoured => K!CarriesKey = KeyRequired
  BY <1>3 DEF K!CarriesKey, Choices
<1> QED
  BY <1>1, <1>2, <1>4

LEMMA ViewsAgree == IInv => SameView
<1> SUFFICES ASSUME IInv
             PROVE  SameView
  OBVIOUS
<1>1. ASSUME NEW c \in Calls
      PROVE  K!status[c] = status[c]
  <2>1. CASE Running(c)
    <3>1. K!status[c] = "open"
      BY <2>1, AlwaysViewed DEF Viewed, Running, OnTheWire, K!status, K!Running
    <3>2. pc[c] \notin {"idle", "crashed"}
      BY <2>1 DEF Running, OnTheWire
    <3> QED
      BY <2>1, <3>1, <3>2 DEF status
  <2>2. CASE ~Running(c)
    <3>1. pc[c] \in {"idle", "returned", "crashed"}
      BY <2>2 DEF IInv, TypeOK, PcValues, Running, OnTheWire
    <3>2. phase[c] = status[c]
      BY <3>1 DEF phase
    <3>3. phase[c] \notin K!Running
      BY <3>1, AlwaysViewed DEF Viewed, StatusOf, K!Running
    <3> QED
      BY <3>2, <3>3 DEF K!status
  <2> QED
    BY <2>1, <2>2
<1>2. K!status = status
  BY <1>1 DEF K!status, status
<1>3. K!times = times
  BY SamePurchases DEF K!times, times, K!BookingsOf, BookingsOf
<1> QED
  BY <1>2, <1>3 DEF SameView

LEMMA InitAgrees == SameView /\ K!Abstract!Init => Abstract!Init
  BY SamePurchases DEF SameView, K!Abstract!Init, Abstract!Init

LEMMA StepAgrees ==
  KeysWhereHonoured /\ SameView /\ SameView'
      /\ [K!Abstract!Next]_(K!Abstract!bookingVars)
    => [Abstract!Next]_(Abstract!bookingVars)
  BY SamePurchases DEF SameView,
     K!Abstract!Next, K!Abstract!Open, K!Abstract!Refuse, K!Abstract!Succeed,
     K!Abstract!Limit, K!Abstract!Book, K!Abstract!GiveUp, K!Abstract!Become,
     K!Abstract!bookingVars,
     Abstract!Next, Abstract!Open, Abstract!Refuse, Abstract!Succeed,
     Abstract!Limit, Abstract!Book, Abstract!GiveUp, Abstract!Become,
     Abstract!bookingVars

(* The Python client keeps the promise about bookings, for every number of *)
(* threads, errors of every kind, crashes, retries and replays, of every   *)
(* caller that gives keys only to the operations that honour them.         *)
THEOREM PyImplementsBookingCalls ==
  KeysWhereHonoured /\ Spec => ImplementsBookingCalls
<1>1. K!ChoicesSound /\ K!Spec => K!Abstract!Spec
  BY K!KeyedCallsBookOnce, ApiAssumption, SdkAssumption
<1>2. Spec => []SameView
  BY Invariance, ViewsAgree, PTL
<1>3. KeysWhereHonoured => []KeysWhereHonoured
  <2>1. KeysWhereHonoured => KeysWhereHonoured'
    BY DEF KeysWhereHonoured
  <2> QED
    BY <2>1, PTL
<1> QED
  BY <1>1, <1>2, <1>3, KeyChoicesSound, PyFollowsKeyedCalls, InitAgrees,
     StepAgrees, PTL DEF ImplementsBookingCalls, Abstract!Spec, K!Abstract!Spec
=============================================================================

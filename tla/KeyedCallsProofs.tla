-------------------------- MODULE KeyedCallsProofs --------------------------
(***************************************************************************)
(* Proofs about the protocol the SDKs have in common: IInv is inductive,   *)
(* and with it KeyedCalls implements BookingCalls.  The proofs about each  *)
(* client instantiate this module and cite KeyedCallsBookOnce.             *)
(***************************************************************************)
EXTENDS KeyedCalls, TLAPS

TypeOK ==
  /\ ApiTypeOK
  /\ phase \in [Calls -> Phases]
  /\ attempt \in [Calls -> Nat]
  /\ key \in [Calls -> Keys \cup {NoKey}]
  /\ said \in [Calls -> ResponseKinds \cup {"none"}]

(* An attempt has a response on its way only while it waits for headers.   *)
ResponsesAwaited ==
  \A r \in responses :
    phase[r.call] = "fetching" /\ r.attempt = attempt[r.call]

(* Every request of a call carries the key chosen at its start.            *)
OneKeyPerCall ==
  \A m \in requests \cup bookings :
    /\ phase[m.call] \notin {"new", "refused"}
    /\ m.key = key[m.call]
    /\ m.key \in Choices[m.call]

(* The API holds at most one booking of a key, and none without where a    *)
(* key is required.                                                        *)
OneBookingPerKey ==
  /\ \A b \in bookings : b.call \in KeyRequired => b.key # NoKey
  /\ \A b1, b2 \in bookings :
       /\ b1.call \in KeyRequired /\ b2.call \in KeyRequired
       /\ b1.key = b2.key
       => b1 = b2

(* A request without a key is the only one of its call, is of the current  *)
(* attempt, and nothing is known of it yet.                                *)
UnkeyedRequestUnanswered ==
  \A m \in requests : m.key = NoKey =>
    /\ m.copy = 0
    /\ m.attempt = attempt[m.call]
    /\ phase[m.call] \notin {"reading", "sleeping", "limited"}
    /\ \A r \in responses : r.call # m.call
    /\ \A b \in bookings : b.call # m.call

(* A booking without a key is of the current attempt, and no 429 answers   *)
(* that attempt.                                                           *)
UnkeyedBookingNotLimited ==
  \A b \in bookings : b.key = NoKey =>
    /\ b.copy = 0
    /\ b.attempt = attempt[b.call]
    /\ phase[b.call] \notin {"sleeping", "limited"}
    /\ phase[b.call] = "reading" => said[b.call] # "limited"
    /\ \A r \in responses : r.call = b.call => r.kind # "limited"

Booked(c) ==
  \E b \in bookings : b.call = c \/ (b.key = key[c] /\ key[c] # NoKey)

(* A 2xx that carries JSON is the answer to a booking.                     *)
OkMeansBooked ==
  /\ \A r \in responses : r.kind = "ok" => Booked(r.call)
  /\ \A c \in Calls : phase[c] = "reading" /\ said[c] = "ok" => Booked(c)
  /\ \A c \in Calls : phase[c] = "ok" => Booked(c)

(* The key of a call that has sent something is a legal choice.            *)
KeyChosen ==
  \A c \in Calls : phase[c] \in Running \cup {"ok"} => key[c] \in Choices[c]

IInv ==
  /\ TypeOK
  /\ ResponsesAwaited
  /\ OneKeyPerCall
  /\ OneBookingPerKey
  /\ UnkeyedRequestUnanswered
  /\ UnkeyedBookingNotLimited
  /\ OkMeansBooked
  /\ KeyChosen

-----------------------------------------------------------------------------
USE ApiAssumption, SdkAssumption

(* What is in flight or booked belongs to a call.                          *)
LEMMA MessageTypes ==
  ASSUME TypeOK
  PROVE  /\ \A m \in requests \cup bookings :
              /\ m.call \in Calls /\ m.attempt \in Nat
              /\ m.key \in Keys \cup {NoKey}
              /\ m = [call |-> m.call, attempt |-> m.attempt,
                      copy |-> m.copy, key |-> m.key]
         /\ \A r \in responses : r.call \in Calls /\ r.kind \in ResponseKinds
  BY DEF TypeOK, ApiTypeOK, Request, Response

(* The network and the API keep the types of what they exchange.           *)
LEMMA ServeType ==
  ASSUME ApiTypeOK, NEW m \in requests, NEW waiting \in BOOLEAN,
         Serve(m, waiting)
  PROVE  ApiTypeOK'
<1>1. m \in Request
  BY DEF ApiTypeOK
<1>2. ASSUME NEW kinds \in SUBSET ResponseKinds, Answer(m, kinds, waiting)
      PROVE  responses' \subseteq Response
  BY <1>1, <1>2 DEF Answer, ApiTypeOK, Response, Request
<1>3. CASE Limit(m, waiting)
  BY <1>2, <1>3 DEF Limit, ApiTypeOK, ResponseKinds
<1>4. CASE Refuse(m, waiting)
  BY <1>2, <1>4 DEF Refuse, ApiTypeOK, ResponseKinds
<1>5. CASE Book(m, waiting)
  BY <1>1, <1>2, <1>5 DEF Book, ApiTypeOK, ResponseKinds
<1>6. CASE Replay(m)
  <2>1. [m EXCEPT !.copy = m.copy + 1] \in Request
    BY <1>1, <1>6 DEF Replay, Request
  <2> QED
    BY <1>6, <2>1 DEF Replay, ApiTypeOK
<1> QED
  BY <1>3, <1>4, <1>5, <1>6 DEF Serve

LEMMA TypeStep == ChoicesSound /\ TypeOK /\ [Next]_keyedVars => TypeOK'
<1> SUFFICES ASSUME ChoicesSound, TypeOK, [Next]_keyedVars
             PROVE  TypeOK'
  OBVIOUS
<1>1. ASSUME NEW c \in Calls, NEW n \in Nat, NEW k \in Keys \cup {NoKey},
             Send(c, n, k)
      PROVE  TypeOK'
  <2>1. NewRequest(c, n, k) \in Request
    BY DEF NewRequest, Request
  <2> QED
    BY <1>1, <2>1 DEF Send, TypeOK, ApiTypeOK, Phases, Running
<1>2. ASSUME NEW c \in Calls, NEW how \in Ends, End(c, how)
      PROVE  TypeOK'
  BY <1>2 DEF End, Others, TypeOK, ApiTypeOK, Phases
<1>3. ASSUME NEW c \in Calls, First(c) \/ Again(c)
      PROVE  TypeOK'
  <2>1. Choices[c] \subseteq Keys \cup {NoKey}
    BY DEF ChoicesSound
  <2>2. attempt[c] + 1 \in Nat /\ key[c] \in Keys \cup {NoKey}
    BY DEF TypeOK
  <2> QED
    BY <1>1, <1>3, <2>1, <2>2 DEF First, Again
<1>4. ASSUME NEW c \in Calls, Headers(c)
      PROVE  TypeOK'
  BY <1>4, MessageTypes DEF Headers, Others, TypeOK, ApiTypeOK, Phases, Running
<1>5. ASSUME NEW c \in Calls, Pause(c)
      PROVE  TypeOK'
  BY <1>5 DEF Pause, apiVars, TypeOK, ApiTypeOK, Phases, Running
<1>6. ASSUME NEW c \in Calls, Refused(c) \/ Finish(c) \/ GiveUp(c)
      PROVE  TypeOK'
  BY <1>2, <1>6 DEF Refused, Finish, GiveUp, Ends
<1>7. CASE Crash
  BY <1>7 DEF Crash, TypeOK, ApiTypeOK, Phases, Ends
<1>8. CASE Network
  BY <1>8, ServeType DEF Network, Awaits, callVars, TypeOK
<1>9. CASE UNCHANGED keyedVars
  BY <1>9 DEF keyedVars, apiVars, callVars, TypeOK, ApiTypeOK
<1> QED
  BY <1>3, <1>4, <1>5, <1>6, <1>7, <1>8, <1>9 DEF Next, CallNext

-----------------------------------------------------------------------------
(* The ways in which a call goes on without sending anything.              *)
Moves(c) ==
  \/ phase'[c] = phase[c] /\ (phase[c] = "reading" => said'[c] = said[c])
  \/ /\ phase[c] = "fetching" /\ phase'[c] = "reading"
     /\ \E r \in responses : r.call = c /\ said'[c] = r.kind
  \/ phase[c] = "reading" /\ said[c] = "limited" /\ phase'[c] = "sleeping"
  \/ phase[c] = "new" /\ phase'[c] = "refused"
  \/ /\ phase[c] = "reading" /\ said[c] \in {"ok", "limited"}
     /\ phase'[c] = said[c]
  \/ phase[c] \in {"new"} \cup Running /\ phase'[c] = "unsure"

(* Calls that go on so, and leave no response behind that they awaited,    *)
(* keep every part of IInv: a 429 that is read or reported is the only     *)
(* answer to the only request of a call without a key.                     *)
LEMMA MoveInv ==
  ASSUME IInv, TypeOK', UNCHANGED <<requests, bookings, attempt, key>>,
         \A c \in Calls : Moves(c),
         \A r \in responses' : r \in responses /\ phase'[r.call] = phase[r.call]
  PROVE  IInv'
<1> USE MessageTypes DEF IInv, Running
<1>1. ResponsesAwaited'
  BY DEF ResponsesAwaited
<1>2. OneKeyPerCall'
  BY DEF OneKeyPerCall, Moves
<1>3. OneBookingPerKey'
  BY DEF OneBookingPerKey
<1>4. UnkeyedRequestUnanswered'
  BY DEF UnkeyedRequestUnanswered, OneKeyPerCall, Moves
<1>5. UnkeyedBookingNotLimited'
  BY DEF UnkeyedBookingNotLimited, OneKeyPerCall, Moves
<1>6. OkMeansBooked'
  <2>1. \A c \in Calls : Booked(c)' <=> Booked(c)
    BY DEF Booked
  <2> QED
    BY <2>1 DEF OkMeansBooked, Moves
<1>7. KeyChosen'
  BY DEF KeyChosen, Moves
<1> QED
  BY <1>1, <1>2, <1>3, <1>4, <1>5, <1>6, <1>7

(* They survive the request of an attempt: the first one of a call of      *)
(* which nothing is known, or one after a wait, under the same key.        *)
LEMMA SendInv ==
  ASSUME IInv, TypeOK', NEW c \in Calls, NEW n \in Nat, NEW k \in Choices[c],
         Send(c, n, k),
         \/ phase[c] = "new"
         \/ phase[c] = "sleeping" /\ key[c] = k
  PROVE  IInv'
<1> USE MessageTypes DEF IInv
<1> DEFINE new == NewRequest(c, n, k)
<1>1. /\ requests' = requests \cup {new} /\ bookings' = bookings
      /\ responses' = responses /\ said' = said
      /\ \A d \in Calls \ {c} : /\ phase'[d] = phase[d] /\ key'[d] = key[d]
                                /\ attempt'[d] = attempt[d]
      /\ phase'[c] = "fetching" /\ key'[c] = k /\ attempt'[c] = n
  BY DEF Send, TypeOK
<1>2. new.call = c /\ new.attempt = n /\ new.copy = 0 /\ new.key = k
  BY DEF NewRequest
<1>3. \A r \in responses : r.call # c
  BY DEF ResponsesAwaited
<1>4. /\ \A m \in requests \cup bookings : m.call = c => m.key = k
      /\ k = NoKey => \A m \in requests \cup bookings : m.call # c
  BY DEF OneKeyPerCall, UnkeyedRequestUnanswered, UnkeyedBookingNotLimited
<1>5. ResponsesAwaited'
  BY <1>1, <1>3 DEF ResponsesAwaited
<1>6. OneKeyPerCall'
  BY <1>1, <1>2, <1>4 DEF OneKeyPerCall
<1>7. OneBookingPerKey'
  BY <1>1 DEF OneBookingPerKey
<1>8. UnkeyedRequestUnanswered'
  BY <1>1, <1>2, <1>3, <1>4 DEF UnkeyedRequestUnanswered
<1>9. UnkeyedBookingNotLimited'
  BY <1>1, <1>4 DEF UnkeyedBookingNotLimited
<1>10. OkMeansBooked'
  <2>1. \A d \in Calls \ {c} : Booked(d) => Booked(d)'
    BY <1>1 DEF Booked
  <2> QED
    BY <1>1, <1>3, <2>1 DEF OkMeansBooked
<1>11. KeyChosen'
  BY <1>1 DEF KeyChosen
<1> QED
  BY <1>5, <1>6, <1>7, <1>8, <1>9, <1>10, <1>11

(* A response answers a request, to the attempt that waits for it.         *)
LEMMA AnswerAdds ==
  ASSUME NEW m \in requests, NEW kinds, Answer(m, kinds, Awaits(m)),
         NEW r \in responses'
  PROVE  \/ r \in responses
         \/ /\ r.call = m.call /\ r.attempt = m.attempt /\ r.kind \in kinds
            /\ phase[m.call] = "fetching" /\ attempt[m.call] = m.attempt
  BY DEF Answer, Awaits

(* A 429 or a refusal answers a request and takes it out of flight.        *)
LEMMA NoEffectInv ==
  ASSUME IInv, TypeOK', NEW m \in requests, UNCHANGED callVars,
         Limit(m, Awaits(m)) \/ Refuse(m, Awaits(m))
  PROVE  IInv'
<1> USE MessageTypes DEF IInv
<1>1. /\ requests' = requests \ {m} /\ bookings' = bookings
      /\ phase' = phase /\ key' = key /\ attempt' = attempt /\ said' = said
  BY DEF Limit, Refuse, callVars
<1>2. \A r \in responses' :
        \/ r \in responses
        \/ /\ r.call = m.call /\ r.attempt = m.attempt
           /\ r.kind \in {"limited", "failed"}
           /\ phase[m.call] = "fetching" /\ attempt[m.call] = m.attempt
  BY AnswerAdds DEF Limit, Refuse
<1>3. m.key = NoKey =>
        /\ \A n \in requests \ {m} : n.key = NoKey => n.call # m.call
        /\ \A b \in bookings : b.call # m.call
  BY DEF UnkeyedRequestUnanswered
<1>4. \A n \in requests \cup bookings : n.key = key[n.call]
  BY DEF OneKeyPerCall
<1>5. ResponsesAwaited'
  BY <1>1, <1>2 DEF ResponsesAwaited
<1>6. OneKeyPerCall'
  BY <1>1 DEF OneKeyPerCall
<1>7. OneBookingPerKey'
  BY <1>1 DEF OneBookingPerKey
<1>8. UnkeyedRequestUnanswered'
  <2>1. \A n \in requests \ {m} : n.key = NoKey => n.call # m.call
    BY <1>3, <1>4
  <2> QED
    BY <1>1, <1>2, <2>1 DEF UnkeyedRequestUnanswered
<1>9. UnkeyedBookingNotLimited'
  <2>1. \A b \in bookings : b.key = NoKey => b.call # m.call
    BY <1>3, <1>4
  <2> QED
    BY <1>1, <1>2, <2>1 DEF UnkeyedBookingNotLimited
<1>10. OkMeansBooked'
  <2>1. \A d \in Calls : Booked(d) <=> Booked(d)'
    BY <1>1 DEF Booked
  <2>2. \A r \in responses' : r.kind = "ok" => r \in responses
    BY <1>2
  <2> QED
    BY <1>1, <2>1, <2>2 DEF OkMeansBooked
<1>11. KeyChosen'
  BY <1>1 DEF KeyChosen
<1> QED
  BY <1>5, <1>6, <1>7, <1>8, <1>9, <1>10, <1>11

(* The API acts on a request, or remembers that it did.                    *)
LEMMA BookInv ==
  ASSUME IInv, TypeOK', NEW m \in requests, UNCHANGED callVars,
         Book(m, Awaits(m))
  PROVE  IInv'
<1> USE MessageTypes DEF IInv
<1>1. /\ requests' = requests \ {m}
      /\ bookings' = IF Remembered(m) THEN bookings ELSE bookings \cup {m}
      /\ phase' = phase /\ key' = key /\ attempt' = attempt /\ said' = said
  BY DEF Book, callVars
<1>2. \A r \in responses' :
        \/ r \in responses
        \/ /\ r.call = m.call /\ r.attempt = m.attempt /\ r.kind # "limited"
           /\ phase[m.call] = "fetching" /\ attempt[m.call] = m.attempt
  BY AnswerAdds DEF Book
<1>3. m.key = NoKey =>
        /\ \A n \in requests \ {m} : n.key = NoKey => n.call # m.call
        /\ \A r \in responses : r.call # m.call
        /\ phase[m.call] \notin {"reading", "sleeping", "limited"}
        /\ m.copy = 0 /\ m.attempt = attempt[m.call]
  BY DEF UnkeyedRequestUnanswered
<1>4. \A n \in requests \cup bookings : n.key = key[n.call]
  BY DEF OneKeyPerCall
<1>5. bookings \subseteq bookings' /\ bookings' \subseteq bookings \cup {m}
  BY <1>1
<1>6. ResponsesAwaited'
  BY <1>1, <1>2 DEF ResponsesAwaited
<1>7. OneKeyPerCall'
  BY <1>1, <1>5 DEF OneKeyPerCall
<1>8. OneBookingPerKey'
  <2>1. m.call \in KeyRequired => m.key # NoKey
    BY DEF Book, Acceptable
  <2>2. m \in bookings' =>
          \/ m \in bookings
          \/ \A b \in bookings :
               b.call \in KeyRequired /\ m.call \in KeyRequired
                 => b.key # m.key
    BY <1>1 DEF Remembered
  <2> QED
    BY <1>5, <2>1, <2>2 DEF OneBookingPerKey
<1>9. UnkeyedRequestUnanswered'
  <2>1. \A n \in requests \ {m} : n.key = NoKey => n.call # m.call
    BY <1>3, <1>4
  <2> QED
    BY <1>1, <1>2, <1>5, <2>1 DEF UnkeyedRequestUnanswered
<1>10. UnkeyedBookingNotLimited'
  <2>1. \A b \in bookings' : b.key = NoKey =>
          \A r \in responses' : r.call = b.call => r.kind # "limited"
    BY <1>2, <1>3, <1>5 DEF UnkeyedBookingNotLimited
  <2> QED
    BY <1>1, <1>3, <1>5, <2>1 DEF UnkeyedBookingNotLimited
<1>11. OkMeansBooked'
  <2>1. \A d \in Calls : Booked(d) => Booked(d)'
    BY <1>1, <1>5 DEF Booked
  <2>2. Booked(m.call)'
    <3>1. CASE Remembered(m)
      BY <1>1, <1>4, <3>1 DEF Remembered, Booked, Book, Acceptable
    <3>2. CASE ~Remembered(m)
      BY <1>1, <3>2 DEF Booked
    <3> QED
      BY <3>1, <3>2
  <2> QED
    BY <1>1, <1>2, <2>1, <2>2 DEF OkMeansBooked
<1>12. KeyChosen'
  BY <1>1 DEF KeyChosen
<1> QED
  BY <1>6, <1>7, <1>8, <1>9, <1>10, <1>11, <1>12

(* A replay is one more request under the key of its call.                 *)
LEMMA ReplayInv ==
  ASSUME IInv, TypeOK', NEW m \in requests, UNCHANGED callVars, Replay(m)
  PROVE  IInv'
<1> USE MessageTypes DEF IInv
<1> DEFINE copy == [m EXCEPT !.copy = m.copy + 1]
<1>1. /\ requests' = requests \cup {copy} /\ bookings' = bookings
      /\ responses' = responses
      /\ phase' = phase /\ key' = key /\ attempt' = attempt /\ said' = said
  BY DEF Replay, callVars
<1>2. copy.call = m.call /\ copy.attempt = m.attempt /\ copy.key = m.key
      /\ m.key # NoKey
  BY DEF Replay, TypeOK, ApiTypeOK, Request
<1>3. ResponsesAwaited'
  BY <1>1 DEF ResponsesAwaited
<1>4. OneKeyPerCall'
  BY <1>1, <1>2 DEF OneKeyPerCall
<1>5. OneBookingPerKey'
  BY <1>1 DEF OneBookingPerKey
<1>6. UnkeyedRequestUnanswered'
  BY <1>1, <1>2 DEF UnkeyedRequestUnanswered
<1>7. UnkeyedBookingNotLimited'
  BY <1>1 DEF UnkeyedBookingNotLimited
<1>8. OkMeansBooked'
  <2>1. \A d \in Calls : Booked(d) <=> Booked(d)'
    BY <1>1 DEF Booked
  <2> QED
    BY <1>1, <2>1 DEF OkMeansBooked
<1>9. KeyChosen'
  BY <1>1 DEF KeyChosen
<1> QED
  BY <1>3, <1>4, <1>5, <1>6, <1>7, <1>8, <1>9

LEMMA InitInv == Init => IInv
  BY DEF Init, ApiInit, IInv, TypeOK, ApiTypeOK, Phases, ResponsesAwaited,
     OneKeyPerCall, OneBookingPerKey, UnkeyedRequestUnanswered,
     UnkeyedBookingNotLimited, OkMeansBooked, KeyChosen, Running

LEMMA InvStep == ChoicesSound /\ IInv /\ [Next]_keyedVars => IInv'
<1> SUFFICES ASSUME ChoicesSound, IInv, [Next]_keyedVars
             PROVE  IInv'
  OBVIOUS
<1>0. TypeOK /\ TypeOK'
  BY TypeStep DEF IInv
<1>1. ASSUME NEW c \in Calls, First(c) \/ Again(c)
      PROVE  IInv'
  <2>1. attempt[c] + 1 \in Nat
    BY <1>0 DEF TypeOK
  <2>2. phase[c] = "sleeping" => key[c] \in Choices[c]
    BY DEF IInv, KeyChosen, Running
  <2> QED
    BY <1>0, <1>1, <2>1, <2>2, SendInv DEF First, Again
<1>2. ASSUME NEW c \in Calls,
             Headers(c) \/ Pause(c) \/ Refused(c) \/ Finish(c) \/ GiveUp(c)
      PROVE  IInv'
  <2>1. UNCHANGED <<requests, bookings, attempt, key>>
    BY <1>2 DEF Headers, Pause, apiVars, Refused, Finish, GiveUp, End
  <2>2. \A d \in Calls : Moves(d)
    BY <1>0, <1>2 DEF Headers, Pause, Refused, Finish, GiveUp, End, Moves,
       TypeOK
  <2>3. \A r \in responses' : r \in responses /\ phase'[r.call] = phase[r.call]
    <3>1. CASE Pause(c)
      BY <1>0, <3>1, MessageTypes
         DEF Pause, apiVars, TypeOK, IInv, ResponsesAwaited
    <3>2. CASE ~Pause(c)
      BY <1>0, <1>2, <3>2, MessageTypes
         DEF Headers, Refused, Finish, GiveUp, End, Others, TypeOK
    <3> QED
      BY <3>1, <3>2
  <2> QED
    BY <1>0, <2>1, <2>2, <2>3, MoveInv
<1>3. CASE Crash \/ UNCHANGED keyedVars
  <2>1. UNCHANGED <<requests, bookings, attempt, key>>
    BY <1>3 DEF Crash, keyedVars, apiVars, callVars
  <2>2. \A d \in Calls : Moves(d)
    BY <1>3 DEF Crash, keyedVars, callVars, Moves, Running
  <2>3. \A r \in responses' : r \in responses /\ phase'[r.call] = phase[r.call]
    BY <1>3 DEF Crash, keyedVars, callVars, apiVars
  <2> QED
    BY <1>0, <2>1, <2>2, <2>3, MoveInv
<1>4. CASE Network
  <2>1. PICK m \in requests : Serve(m, Awaits(m))
    BY <1>4 DEF Network
  <2> QED
    BY <1>0, <1>4, <2>1, NoEffectInv, BookInv, ReplayInv DEF Network, Serve
<1> QED
  BY <1>1, <1>2, <1>3, <1>4 DEF Next, CallNext

LEMMA Invariance == ChoicesSound /\ Spec => []IInv
<1>1. ChoicesSound => []ChoicesSound
  <2>1. ChoicesSound => ChoicesSound'
    BY DEF ChoicesSound, HasCallerKey, PurchaseOf
  <2> QED
    BY <2>1, PTL
<1> QED
  BY <1>1, InitInv, InvStep, PTL DEF Spec

-----------------------------------------------------------------------------
(* A purchase is the caller's key, or the call.                            *)
LEMMA PurchaseIs ==
  ASSUME NEW c \in Calls, NEW d \in Calls
  PROVE  /\ PurchaseOf[c] \in Purchases
         /\ PurchaseOf[c] = PurchaseOf[d] /\ c # d =>
              HasCallerKey(c) /\ HasCallerKey(d) /\ CallerKey[c] = CallerKey[d]
  BY DEF PurchaseOf, Purchases, HasCallerKey

(* Bookings of one purchase are one booking.                               *)
LEMMA OneBookingPerPurchase ==
  ASSUME ChoicesSound, IInv, NEW b1 \in bookings, NEW b2 \in bookings,
         PurchaseOf[b1.call] = PurchaseOf[b2.call]
  PROVE  b1 = b2
<1> USE MessageTypes DEF IInv
<1>1. CASE b1.call # b2.call
  BY <1>1, PurchaseIs DEF ChoicesSound, OneKeyPerCall, OneBookingPerKey,
     HasCallerKey
<1>2. CASE b1.call = b2.call /\ b1.call \in KeyRequired
  BY <1>2 DEF OneKeyPerCall, OneBookingPerKey
<1>3. CASE b1.call = b2.call /\ b1.call \notin KeyRequired
  <2>1. b1.key = NoKey /\ b2.key = NoKey
    BY <1>3 DEF ChoicesSound, OneKeyPerCall
  <2> QED
    BY <1>3, <2>1 DEF UnkeyedBookingNotLimited
<1> QED
  BY <1>1, <1>2, <1>3

(* So a purchase was booked never or once.                                 *)
LEMMA TimesAre ==
  ASSUME ChoicesSound, IInv
  PROVE  times = [p \in Purchases |->
                    IF \E b \in bookings : PurchaseOf[b.call] = p THEN 1 ELSE 0]
<1> SUFFICES ASSUME NEW p \in Purchases
             PROVE  times[p] = IF \E b \in bookings : PurchaseOf[b.call] = p
                                 THEN 1 ELSE 0
  BY DEF times
<1>1. ASSUME NEW b \in bookings, PurchaseOf[b.call] = p
      PROVE  BookingsOf(p) = {b}
  BY <1>1, OneBookingPerPurchase DEF BookingsOf
<1> QED
  BY <1>1 DEF times, BookingsOf

(* A call whose key is on a booking is of the same purchase.               *)
LEMMA BookedIsPaid ==
  ASSUME ChoicesSound, IInv, NEW c \in Calls, Booked(c),
         key[c] \in Choices[c]
  PROVE  times[PurchaseOf[c]] = 1
<1>1. PICK b \in bookings : b.call = c \/ (b.key = key[c] /\ key[c] # NoKey)
  BY DEF Booked
<1>2. b.call \in Calls /\ b.key \in Choices[b.call]
  BY MessageTypes DEF IInv, OneKeyPerCall
<1>3. PurchaseOf[b.call] = PurchaseOf[c]
  BY <1>1, <1>2 DEF ChoicesSound
<1> QED
  BY <1>1, <1>3, PurchaseIs, TimesAre

(* A call without a key that was answered with a 429 has no booking.       *)
LEMMA LimitedIsUnpaid ==
  ASSUME ChoicesSound, IInv, NEW c \in Calls, phase[c] = "reading",
         said[c] = "limited", c \notin CarriesKey
  PROVE  times[PurchaseOf[c]] = 0
<1>1. Choices[c] = {NoKey}
  BY DEF ChoicesSound, CarriesKey
<1>2. ASSUME NEW b \in bookings, PurchaseOf[b.call] = PurchaseOf[c]
      PROVE  FALSE
  <2>1. b.call \in Calls
    BY MessageTypes DEF IInv
  <2>2. ~HasCallerKey(c)
    BY <1>1 DEF ChoicesSound, HasCallerKey
  <2>3. b.call = c
    BY <1>2, <2>1, <2>2, PurchaseIs
  <2>4. b.key = NoKey
    BY <1>1, <2>3 DEF IInv, OneKeyPerCall
  <2> QED
    BY <2>3, <2>4 DEF IInv, UnkeyedBookingNotLimited
<1> QED
  BY <1>2, PurchaseIs, TimesAre

(* A request the API acts on pays for a purchase that nothing paid for, of *)
(* a call whose caller does not know that there is no booking.             *)
LEMMA NewBooking ==
  ASSUME ChoicesSound, IInv, NEW m \in requests, Acceptable(m), ~Remembered(m)
  PROVE  /\ m.call \in Calls
         /\ \/ phase[m.call] \in Running \cup {"unsure"}
            \/ phase[m.call] = "limited" /\ m.call \in CarriesKey
         /\ ~\E b \in bookings : PurchaseOf[b.call] = PurchaseOf[m.call]
<1>1. /\ m.call \in Calls
      /\ phase[m.call] \in Phases \ {"new", "refused"}
      /\ m.key = key[m.call] /\ m.key \in Choices[m.call]
  BY MessageTypes DEF IInv, OneKeyPerCall, TypeOK
<1>2. \A b \in bookings : /\ b.call \in Calls
                          /\ b.key \in Choices[b.call]
                          /\ b.call \in KeyRequired => b.key # NoKey
  BY MessageTypes DEF IInv, OneKeyPerCall, OneBookingPerKey
<1>3. CASE m.key = NoKey
  <2>1. \A b \in bookings : b.call # m.call
    BY <1>3 DEF IInv, UnkeyedRequestUnanswered
  <2>2. phase[m.call] \notin {"ok", "limited"}
    <3>1. phase[m.call] # "limited"
      BY <1>3 DEF IInv, UnkeyedRequestUnanswered
    <3>2. ~Booked(m.call)
      BY <1>1, <1>3, <2>1 DEF Booked
    <3> QED
      BY <1>1, <3>1, <3>2 DEF IInv, OkMeansBooked
  <2>3. ~HasCallerKey(m.call)
    BY <1>3 DEF Acceptable, HasCallerKey, IInv, OneKeyPerCall, ChoicesSound
  <2> QED
    BY <1>1, <1>2, <2>1, <2>2, <2>3, PurchaseIs DEF Phases, Ends
<1>4. CASE m.key # NoKey
  <2>1. m.call \in KeyRequired /\ m.call \in CarriesKey
    BY <1>1, <1>4 DEF ChoicesSound, CarriesKey
  <2>2. \A b \in bookings : b.call \in KeyRequired => b.key # m.key
    BY <2>1 DEF Remembered
  <2>3. phase[m.call] # "ok"
    BY <1>1, <1>2, <1>4, <2>1, <2>2
       DEF IInv, OkMeansBooked, Booked, ChoicesSound, OneKeyPerCall
  <2>4. ASSUME NEW b \in bookings, PurchaseOf[b.call] = PurchaseOf[m.call]
        PROVE  FALSE
    <3>1. CASE b.call = m.call
      BY <1>1, <2>1, <2>2, <3>1 DEF IInv, OneKeyPerCall
    <3>2. CASE b.call # m.call
      BY <1>1, <1>2, <2>1, <2>2, <2>4, <3>2, PurchaseIs
         DEF ChoicesSound, HasCallerKey
    <3> QED
      BY <3>1, <3>2
  <2> QED
    BY <1>1, <2>1, <2>3, <2>4 DEF Phases, Ends
<1> QED
  BY <1>3, <1>4

-----------------------------------------------------------------------------
LEMMA InitRefines == Init => Abstract!Init
  BY DEF Init, ApiInit, Abstract!Init, status, times, BookingsOf, Running

(* Bookings that stay as they are count as they did.                       *)
LEMMA TimesStay ==
  ASSUME UNCHANGED bookings
  PROVE  UNCHANGED times
  BY DEF times, BookingsOf, Purchases, PurchaseOf, HasCallerKey

(* The end of a call.                                                      *)
LEMMA EndRefines ==
  ASSUME ChoicesSound, IInv, NEW c \in Calls,
         Refused(c) \/ Finish(c) \/ GiveUp(c)
  PROVE  [Abstract!Next]_(Abstract!bookingVars)
<1> USE DEF Running
<1>1. phase \in [Calls -> Phases]
  BY DEF IInv, TypeOK
<1>2. UNCHANGED times
  BY TimesStay DEF Refused, Finish, GiveUp, End
<1>3. CASE Refused(c)
  <2>1. status[c] = "new" /\ status' = [status EXCEPT ![c] = "refused"]
    BY <1>1, <1>3 DEF Refused, End, status
  <2> QED
    BY <1>2, <2>1 DEF Abstract!Next, Abstract!Refuse, Abstract!Become
<1>4. CASE Finish(c) /\ said[c] = "ok"
  <2>1. status[c] = "open" /\ status' = [status EXCEPT ![c] = "ok"]
    BY <1>1, <1>4 DEF Finish, End, status
  <2>2. times[PurchaseOf[c]] = 1
    BY <1>4, BookedIsPaid DEF Finish, IInv, OkMeansBooked, KeyChosen
  <2> QED
    BY <1>2, <2>1, <2>2 DEF Abstract!Next, Abstract!Succeed, Abstract!Become
<1>5. CASE Finish(c) /\ said[c] = "limited"
  <2>1. status[c] = "open" /\ status' = [status EXCEPT ![c] = "limited"]
    BY <1>1, <1>5 DEF Finish, End, status
  <2>2. c \in CarriesKey \/ times[PurchaseOf[c]] = 0
    BY <1>5, LimitedIsUnpaid DEF Finish
  <2> QED
    BY <1>2, <2>1, <2>2 DEF Abstract!Next, Abstract!Limit, Abstract!Become
<1>6. CASE GiveUp(c)
  <2>1. /\ status[c] \in {"new", "open"}
        /\ status' = [d \in Calls |-> IF d \in {c} THEN "unsure" ELSE status[d]]
    BY <1>1, <1>6 DEF GiveUp, End, status
  <2>2. Abstract!GiveUp({c})
    BY <1>2, <2>1 DEF Abstract!GiveUp
  <2> QED
    BY <2>2 DEF Abstract!Next
<1> QED
  BY <1>3, <1>4, <1>5, <1>6 DEF Finish

(* Many calls end at once.                                                 *)
LEMMA CrashRefines ==
  ASSUME IInv, Crash
  PROVE  [Abstract!Next]_(Abstract!bookingVars)
<1> DEFINE lost == {c \in Calls : phase[c] \in Running}
<1>1. UNCHANGED times
  BY TimesStay DEF Crash
<1>2. /\ lost # {}
      /\ \A c \in lost : status[c] \in {"new", "open"}
      /\ status' = [c \in Calls |-> IF c \in lost THEN "unsure" ELSE status[c]]
  BY DEF Crash, status, Running
<1>3. Abstract!GiveUp(lost)
  BY <1>1, <1>2 DEF Abstract!GiveUp
<1> QED
  BY <1>3 DEF Abstract!Next

(* The API acts on a request: once per purchase.                           *)
LEMMA BookRefines ==
  ASSUME ChoicesSound, IInv, NEW m \in requests, UNCHANGED callVars,
         Book(m, Awaits(m))
  PROVE  [Abstract!Next]_(Abstract!bookingVars)
<1>1. UNCHANGED status
  BY DEF callVars, status
<1>2. CASE Remembered(m)
  BY <1>1, <1>2, TimesStay DEF Book, Abstract!bookingVars
<1>3. CASE ~Remembered(m)
  <2> DEFINE c == m.call
             p == PurchaseOf[c]
  <2>1. bookings' = bookings \cup {m} /\ Acceptable(m)
    BY <1>3 DEF Book
  <2>2. /\ c \in Calls
        /\ \/ phase[c] \in Running \cup {"unsure"}
           \/ phase[c] = "limited" /\ c \in CarriesKey
        /\ ~\E b \in bookings : PurchaseOf[b.call] = p
    BY <1>3, <2>1, NewBooking
  <2>3. p \in Purchases
    BY <2>2, PurchaseIs
  <2>4. times[p] = 0
    BY <2>2, <2>3, TimesAre
  <2>5. times' = [times EXCEPT ![p] = 1]
    <3>1. \A q \in Purchases \ {p} : BookingsOf(q)' = BookingsOf(q)
      BY <2>1 DEF BookingsOf, PurchaseOf
    <3>2. BookingsOf(p)' = {m}
      BY <2>1, <2>2 DEF BookingsOf, PurchaseOf
    <3>3. /\ \A q \in Purchases \ {p} : times'[q] = times[q]
          /\ times'[p] = 1
      <4>1. Purchases' = Purchases
        BY DEF Purchases, PurchaseOf, HasCallerKey
      <4>2. /\ DOMAIN times = Purchases
            /\ times' = [q \in Purchases |->
                 IF BookingsOf(q)' = {} THEN 0
                 ELSE IF \E b \in bookings' : BookingsOf(q)' = {b} THEN 1 ELSE 2]
        BY <4>1 DEF times
      <4>3. ASSUME NEW q \in Purchases \ {p}
            PROVE  times'[q] = times[q]
        <5>1. \A b \in bookings' : BookingsOf(q) = {b} => b \in bookings
          BY DEF BookingsOf
        <5> QED
          BY <2>1, <3>1, <4>2, <4>3, <5>1 DEF times
      <4> QED
        BY <2>1, <2>3, <3>2, <4>2, <4>3
    <3> QED
      BY <2>3, <3>3, TimesAre DEF times
  <2>6. status[c] \in {"open", "unsure"} \/ (status[c] = "limited" /\ c \in CarriesKey)
    BY <2>2 DEF status, Running
  <2> HIDE DEF c, p
  <2>7. Abstract!Book(c)
    BY <1>1, <2>4, <2>5, <2>6 DEF Abstract!Book, p
  <2> QED
    BY <2>2, <2>7 DEF Abstract!Next
<1> QED
  BY <1>2, <1>3

LEMMA StepRefines ==
  ChoicesSound /\ IInv /\ [Next]_keyedVars
    => [Abstract!Next]_(Abstract!bookingVars)
<1> SUFFICES ASSUME ChoicesSound, IInv, [Next]_keyedVars
             PROVE  [Abstract!Next]_(Abstract!bookingVars)
  OBVIOUS
<1> USE DEF Running
<1>0. phase \in [Calls -> Phases]
  BY DEF IInv, TypeOK
<1>1. ASSUME NEW c \in Calls, First(c)
      PROVE  [Abstract!Next]_(Abstract!bookingVars)
  <2>1. status[c] = "new" /\ status' = [status EXCEPT ![c] = "open"]
    BY <1>0, <1>1 DEF First, Send, status
  <2>2. UNCHANGED times
    BY <1>1, TimesStay DEF First, Send
  <2> QED
    BY <2>1, <2>2 DEF Abstract!Next, Abstract!Open, Abstract!Become
<1>2. ASSUME NEW c \in Calls, Again(c) \/ Headers(c) \/ Pause(c)
      PROVE  UNCHANGED Abstract!bookingVars
  <2>1. UNCHANGED status
    BY <1>0, <1>2 DEF Again, Headers, Pause, Send, status
  <2>2. UNCHANGED bookings
    BY <1>2 DEF Again, Headers, Pause, Send, apiVars
  <2> QED
    BY <2>1, <2>2, TimesStay DEF Abstract!bookingVars
<1>3. CASE Network
  <2>1. PICK m \in requests : Serve(m, Awaits(m))
    BY <1>3 DEF Network
  <2>2. CASE Limit(m, Awaits(m)) \/ Refuse(m, Awaits(m)) \/ Replay(m)
    <3>1. UNCHANGED <<bookings, status>>
      BY <1>3, <2>2 DEF Network, Limit, Refuse, Replay, callVars, status
    <3> QED
      BY <3>1, TimesStay DEF Abstract!bookingVars
  <2> QED
    BY <1>3, <2>1, <2>2, BookRefines DEF Serve, Network
<1>4. CASE UNCHANGED keyedVars
  <2>1. UNCHANGED <<bookings, status>>
    BY <1>4 DEF keyedVars, apiVars, callVars, status
  <2> QED
    BY <2>1, TimesStay DEF Abstract!bookingVars
<1> QED
  BY <1>1, <1>2, <1>3, <1>4, EndRefines, CrashRefines DEF Next, CallNext

(* What the protocol of the SDKs makes of retries, replays, crashes and    *)
(* late answers is what BookingCalls allows: one booking per purchase, and *)
(* none after the caller was told that there is and will be none.          *)
THEOREM KeyedCallsBookOnce == ChoicesSound /\ Spec => Abstract!Spec
<1>1. ChoicesSound => []ChoicesSound
  <2>1. ChoicesSound => ChoicesSound'
    BY DEF ChoicesSound, HasCallerKey, PurchaseOf
  <2> QED
    BY <2>1, PTL
<1> QED
  BY <1>1, Invariance, InitRefines, StepRefines, PTL DEF Spec, Abstract!Spec
=============================================================================

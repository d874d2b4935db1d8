---------------------------- MODULE BookingCalls ----------------------------
(***************************************************************************)
(* What an SDK promises its caller about bookings and payments, whatever   *)
(* it does underneath (retries, timeouts, keys): each purchase is booked   *)
(* at most once, and the way a call ends says what may still happen.       *)
(*   ok       the purchase is booked                                       *)
(*   refused  the SDK sent nothing, the call books nothing, ever           *)
(*   limited  a 429: the call books nothing, ever, unless it carries an    *)
(*            Idempotency-Key, whose requests the network may replay       *)
(*   unsure   every other error: the purchase may be booked, even later    *)
(***************************************************************************)
EXTENDS Naturals

CONSTANTS Calls, Purchases,
          PurchaseOf,   \* calls of one purchase share an Idempotency-Key
          Keyed         \* the calls that carry an Idempotency-Key

VARIABLES status,   \* how far each call is
          times     \* how often each purchase was booked

bookingVars == <<status, times>>

Statuses == {"new", "open", "ok", "refused", "limited", "unsure"}

Init ==
  /\ status = [c \in Calls |-> "new"]
  /\ times = [p \in Purchases |-> 0]

Become(c, s) == status' = [status EXCEPT ![c] = s] /\ UNCHANGED times

Open(c) == status[c] = "new" /\ Become(c, "open")

Refuse(c) == status[c] = "new" /\ Become(c, "refused")

Succeed(c) ==
  /\ status[c] = "open"
  /\ times[PurchaseOf[c]] = 1
  /\ Become(c, "ok")

Limit(c) ==
  /\ status[c] = "open"
  /\ c \in Keyed \/ times[PurchaseOf[c]] = 0
  /\ Become(c, "limited")

(* One call gives up, or all that run do when their process ends.          *)
GiveUp(calls) ==
  /\ calls # {}
  /\ \A c \in calls : status[c] \in {"new", "open"}
  /\ status' = [c \in Calls |-> IF c \in calls THEN "unsure" ELSE status[c]]
  /\ UNCHANGED times

(* The API books a purchase on behalf of a call that is still open, or     *)
(* whose caller was told that it may.                                      *)
Book(c) ==
  /\ \/ status[c] \in {"open", "unsure"}
     \/ status[c] = "limited" /\ c \in Keyed
  /\ times[PurchaseOf[c]] = 0
  /\ times' = [times EXCEPT ![PurchaseOf[c]] = 1]
  /\ UNCHANGED status

Next ==
  \/ \E c \in Calls :
       Open(c) \/ Refuse(c) \/ Succeed(c) \/ Limit(c) \/ Book(c)
  \/ \E calls \in SUBSET Calls : GiveUp(calls)

Spec == Init /\ [][Next]_bookingVars
=============================================================================

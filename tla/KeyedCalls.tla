----------------------------- MODULE KeyedCalls -----------------------------
(***************************************************************************)
(* The protocol the three SDKs have in common, without their clocks, their *)
(* error classes and the points at which they can be interrupted: a call   *)
(* chooses one key, sends a request under it, sends the next one only      *)
(* after a 429, and ends at any time.  It lies between the clients and     *)
(* BookingCalls: each client implements it, and it implements BookingCalls *)
(* for all of them.                                                        *)
(***************************************************************************)
EXTENDS SdkCalls

CONSTANT Choices  \* the keys, or NoKey, under which a call may be sent

(* What the clients' choices of keys have in common: a caller's key is     *)
(* used as it is, other operations send none, and two calls share a key    *)
(* only as one purchase.                                                   *)
ChoicesSound ==
  /\ Choices \in [Calls -> SUBSET (Keys \cup {NoKey})]
  /\ \A c \in Calls : NoKey \in Choices[c] => Choices[c] = {NoKey}
  /\ \A c \in Calls \ KeyRequired : Choices[c] = {NoKey}
  /\ \A c \in Calls : HasCallerKey(c) => Choices[c] = {CallerKey[c]}
  /\ \A c, d \in Calls : \A k \in (Choices[c] \cap Choices[d]) \ {NoKey} :
       PurchaseOf[c] = PurchaseOf[d]

VARIABLES
  phase,    \* new, in one of the Running phases, or how the call ended
  attempt,  \* the number of its current request
  key,      \* chosen with the first request
  said      \* the kind of the response that is being read

callVars == <<phase, attempt, key, said>>
keyedVars == <<apiVars, callVars>>

Running == {"fetching", "reading", "sleeping"}
Ends == {"ok", "refused", "limited", "unsure"}
Phases == {"new"} \cup Running \cup Ends

Awaits(m) == phase[m.call] = "fetching" /\ attempt[m.call] = m.attempt

-----------------------------------------------------------------------------
Init ==
  /\ ApiInit
  /\ phase = [c \in Calls |-> "new"]
  /\ attempt = [c \in Calls |-> 0]
  /\ key = [c \in Calls |-> NoKey]
  /\ said = [c \in Calls |-> "none"]

Send(c, n, k) ==
  /\ requests' = requests \cup {NewRequest(c, n, k)}
  /\ phase' = [phase EXCEPT ![c] = "fetching"]
  /\ attempt' = [attempt EXCEPT ![c] = n]
  /\ key' = [key EXCEPT ![c] = k]
  /\ UNCHANGED <<responses, bookings, said>>

First(c) == phase[c] = "new" /\ \E k \in Choices[c] : Send(c, 0, k)

Again(c) == phase[c] = "sleeping" /\ Send(c, attempt[c] + 1, key[c])

Headers(c) ==
  /\ phase[c] = "fetching"
  /\ \E r \in responses : r.call = c /\ said' = [said EXCEPT ![c] = r.kind]
  /\ responses' = Others(c)
  /\ phase' = [phase EXCEPT ![c] = "reading"]
  /\ UNCHANGED <<requests, bookings, attempt, key>>

(* Only a 429 is followed by another request.                              *)
Pause(c) ==
  /\ phase[c] = "reading"
  /\ said[c] = "limited"
  /\ phase' = [phase EXCEPT ![c] = "sleeping"]
  /\ said' = [said EXCEPT ![c] = "none"]
  /\ UNCHANGED <<apiVars, attempt, key>>

End(c, how) ==
  /\ phase' = [phase EXCEPT ![c] = how]
  /\ said' = [said EXCEPT ![c] = "none"]
  /\ responses' = Others(c)
  /\ UNCHANGED <<requests, bookings, attempt, key>>

Refused(c) == phase[c] = "new" /\ End(c, "refused")

Finish(c) ==
  /\ phase[c] = "reading"
  /\ said[c] \in {"ok", "limited"}
  /\ End(c, said[c])

GiveUp(c) == phase[c] \in {"new"} \cup Running /\ End(c, "unsure")

(* The process ends: so do all calls that run.                             *)
Crash ==
  /\ \E c \in Calls : phase[c] \in Running
  /\ phase' = [c \in Calls |-> IF phase[c] \in Running THEN "unsure" ELSE phase[c]]
  /\ said' = [c \in Calls |-> "none"]
  /\ responses' = {}
  /\ UNCHANGED <<requests, bookings, attempt, key>>

Network ==
  /\ \E m \in requests : Serve(m, Awaits(m))
  /\ UNCHANGED callVars

CallNext(c) ==
  \/ First(c) \/ Again(c) \/ Headers(c) \/ Pause(c)
  \/ Refused(c) \/ Finish(c) \/ GiveUp(c)

Next == (\E c \in Calls : CallNext(c)) \/ Crash \/ Network

Spec == Init /\ [][Next]_keyedVars

-----------------------------------------------------------------------------
(* The state of BookingCalls this stands for; a call whose requests carry  *)
(* a key may be booked even after a 429.                                   *)
status ==
  [c \in Calls |-> IF phase[c] \in Running THEN "open" ELSE phase[c]]

CarriesKey == {c \in Calls : NoKey \notin Choices[c]}

Abstract == INSTANCE BookingCalls WITH Keyed <- CarriesKey
=============================================================================

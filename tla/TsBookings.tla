----------------------------- MODULE TsBookings -----------------------------
(* The TypeScript client implements BookingCalls, for calls whose key, if  *)
(* they carry one, is one the API honours.                                 *)
EXTENDS TsClient

ASSUME ProtectedAssumption == \A c \in Calls : Protected(c)

CarriesKey == {c \in KeyRequired : CallerKey[c] # EmptyKey}

status ==
  [c \in Calls |->
     CASE pc[c] = "idle" -> "new"
       [] Running(c) -> "open"
       [] pc[c] = "crashed" -> "unsure"
       [] OTHER -> StatusOf(outcome[c])]

Abstract == INSTANCE BookingCalls WITH Keyed <- CarriesKey

(* Every behaviour of the client, its callers, the network and the API is  *)
(* one BookingCalls allows: at most one booking per purchase, and none     *)
(* after the SDK reported that there is and will be none.                  *)
ImplementsBookingCalls == Abstract!Spec
=============================================================================

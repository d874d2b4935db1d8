----------------------------- MODULE MCPyClient -----------------------------
(* Small instances of PyClient for TLC.                                    *)
EXTENDS PyClient

CONSTANTS hold, buy,          \* a ticket hold, a checkout
          seat,               \* a table reservation
          k1, k2, k3          \* generated keys

(* A Retry-After next to a nearer reset bound, and a bound below zero.     *)
BothWaits == [retryAfter |-> 1, reset |-> 0]
ResetIn(seconds) == [retryAfter |-> Absent, reset |-> seconds]
InfosTwo == {BothWaits, ResetIn(-1)}

EveryCall == Calls
OnlyHold == {hold}
OnlySeat == {seat}
BuyAndSeat == {buy, seat}
HoldBuySeat == {hold, buy, seat}

ThreeKeys == {k1, k2, k3}
NoCallerKey == [c \in Calls |-> NotGiven]
KeysOfEach == [c \in Calls |-> CASE c = hold -> {k1} [] c = buy -> {k2}
                                 [] OTHER -> {k3}]
OneRetry == [c \in Calls |-> 1]
=============================================================================

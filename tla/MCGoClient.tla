----------------------------- MODULE MCGoClient -----------------------------
(* Small instances of GoClient for TLC.                                    *)
EXTENDS GoClient

CONSTANTS hold, buy, again,       \* a ticket hold, a checkout, its repeat
          seat, look,             \* a table reservation, a getOrder
          cart, k1, k2, k3, k4, k5  \* a caller's key, generated keys

RetryIn(seconds) == [retryAfter |-> seconds, reset |-> Absent]
ResetIn(seconds) == [retryAfter |-> Absent, reset |-> seconds]

InfosWait == {RetryIn(1), ResetIn(2), RetryIn(3)}
InfosTwo == {RetryIn(1), RetryIn(3)}
InfosOne == {RetryIn(1)}

EveryCall == Calls
OnlyBuy == {buy}
OnlySeat == {seat}
OnlyLook == {look}
HoldAndBuy == {hold, buy}
HoldAndLook == {hold, look}
HoldSeatLook == {hold, seat, look}
BuyAgainSeat == {buy, again, seat}

AllKeys == {cart, k1, k2, k3, k4, k5}
NoCallerKey == [c \in Calls |-> NotGiven]
CartKey == [c \in Calls |-> IF c \in {buy, again} THEN cart ELSE NotGiven]
KeysOfEach == [c \in Calls |-> CASE c = hold -> {k1} [] c = buy -> {k2}
                                 [] c = again -> {k3} [] c = seat -> {k4}
                                 [] OTHER -> {k5}]
(* Two possible keys, so that a call which chose again would show.         *)
TwoKeys == [c \in Calls |-> IF c = buy THEN {k1, k2} ELSE {k3}]
=============================================================================

----------------------------- MODULE MCTsClient -----------------------------
(* Small instances of TsClient for TLC.                                    *)
EXTENDS TsBookings

CONSTANTS hold, buy, again,     \* a ticket hold, a checkout, its repeat
          look,                 \* a getOrder
          cart, u1, u2, u3, u4  \* a caller's key, generated keys

(* A 429 that gives Retry-After, one that gives the reset bound only, one  *)
(* whose wait is longer than the client accepts, one with quotas only.     *)
Wait(seconds) == [retryAfter |-> seconds, reset |-> Absent]
ResetIn(seconds) == [retryAfter |-> Absent, reset |-> seconds]
BothWaits == [retryAfter |-> 1, reset |-> 0]

InfosAll == {BothWaits, ResetIn(2), Wait(3)}
InfosTwo == {BothWaits, Wait(3)}

EveryCall == Calls
OnlyLook == {look}
OnlyAgain == {again}
BuyAndAgain == {buy, again}
HoldAndLook == {hold, look}
HoldLookAgain == {hold, look, again}

KeysOfCarts == {cart, u1, u2, u3, u4}
NoCallerKey == [c \in Calls |-> NotGiven]
CartKey == [c \in Calls |-> IF c \in KeyRequired THEN cart ELSE NotGiven]
KeysOfEach == [c \in Calls |-> CASE c = hold -> {u1} [] c = buy -> {u2}
                                 [] c = again -> {u3}
                                 [] OTHER -> {u4}]

TwoRetries == [c \in Calls |-> 2]
BuyRetries == [c \in Calls |-> IF c = buy THEN 1 ELSE 0]
=============================================================================

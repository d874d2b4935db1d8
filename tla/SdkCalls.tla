------------------------------ MODULE SdkCalls ------------------------------
(***************************************************************************)
(* What the calls of the three SDKs have in common: how a call may be made *)
(* (its API key, parameters and idempotency key), the request it sends,    *)
(* and the view of its bookings under which an SDK implements              *)
(* BookingCalls.                                                           *)
(*                                                                         *)
(* A call of an operation that needs a key may be made on a second client  *)
(* that has none; it is refused there and touches nothing of the first.    *)
(***************************************************************************)
EXTENDS AoaApi

CONSTANTS
  NeedsAuth,      \* calls of operations with requiresAuth
  HasApiKey,      \* calls on a client with an API key
  BadParams,      \* calls refused for what they are given: no such operation,
                  \* a path parameter that is missing, a body or URL that
                  \* cannot be made, no key where none can be generated
  CallerKey,      \* the idempotency key the caller gives a call
  NotGiven,       \* ... undefined, None
  EmptyKey,       \* ... an empty string
  Generated,      \* the keys the SDK may generate for a call
  MaxRetryDelay,  \* the longest wait for a retry that is accepted
  Timeout,        \* the timeout of an attempt
  MayCrash        \* the process may end while calls run

ASSUME SdkAssumption ==
  /\ NeedsAuth \subseteq Calls
  /\ HasApiKey \subseteq Calls
  /\ Calls \ HasApiKey \subseteq NeedsAuth
  /\ BadParams \subseteq Calls
  /\ NotGiven \notin Keys
  /\ EmptyKey \notin Keys
  /\ NotGiven # EmptyKey
  /\ CallerKey \in [Calls -> Keys \cup {NotGiven, EmptyKey}]
  /\ Generated \in [Calls -> SUBSET Keys]
  /\ \A c \in Calls : Generated[c] # {}
  /\ \A c, d \in Calls : c # d => Generated[c] \cap Generated[d] = {}
  /\ \A c, d \in Calls : CallerKey[c] \notin Generated[d]
  /\ MaxRetryDelay \in Nat
  /\ Timeout \in Nat
  /\ MayCrash \in BOOLEAN

-----------------------------------------------------------------------------
AtLeastZero(n) == IF n < 0 THEN 0 ELSE n

(* The wait a 429 asks for, by the documentation of the API.               *)
Announced(info) ==
  IF info = NoInfo THEN 0
  ELSE IF info.retryAfter # Absent THEN info.retryAfter
  ELSE IF info.reset # Absent THEN AtLeastZero(info.reset) ELSE 0

(* The request of attempt n of call c, under idempotency key k.            *)
NewRequest(c, n, k) == [call |-> c, attempt |-> n, copy |-> 0, key |-> k]

(* A response as its attempt sees it.                                      *)
NoReply == [kind |-> "none", info |-> NoInfo]
Replies == [kind : ResponseKinds, info : Infos \cup {NoInfo}] \cup {NoReply}

(* Responses that no attempt of c waits for any more are dropped.          *)
Others(c) == {r \in responses : r.call # c}

(* A 2xx whose body is not JSON is an error of its own.                    *)
OutcomeOf(kind) == IF kind = "text" THEN "invalid_response" ELSE kind

-----------------------------------------------------------------------------
(* BookingCalls: a purchase is named by the caller's key, or by its only   *)
(* call; it was booked never, once, or more often.                         *)
HasCallerKey(c) == c \in KeyRequired /\ CallerKey[c] \in Keys
PurchaseOf ==
  [c \in Calls |-> IF HasCallerKey(c) THEN <<"key", CallerKey[c]>>
                                      ELSE <<"call", c>>]
Purchases == {PurchaseOf[c] : c \in Calls}

BookingsOf(p) == {b \in bookings : PurchaseOf[b.call] = p}

times ==
  [p \in Purchases |->
     IF BookingsOf(p) = {} THEN 0
     ELSE IF \E b \in bookings : BookingsOf(p) = {b} THEN 1 ELSE 2]

Refusals == {"not_confirmed", "no_api_key", "bad_params"}

(* What the caller may conclude from how its call ended.                   *)
StatusOf(o) ==
  CASE o = "ok" -> "ok"
    [] o \in Refusals -> "refused"
    [] o = "limited" -> "limited"
    [] OTHER -> "unsure"
=============================================================================

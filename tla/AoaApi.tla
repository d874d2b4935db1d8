------------------------------- MODULE AoaApi -------------------------------
(***************************************************************************)
(* The AOA REST API and the network in front of it, as the SDKs see them.  *)
(* Neither is in this repository: the module states what the SDKs rely on  *)
(* (skills/aoa-api-integration/SKILL.md, "Rate limits" and "Idempotency"), *)
(* so every definition here is external.                                   *)
(*                                                                         *)
(* A call of an SDK makes one request per attempt.  A request stays in     *)
(* flight until the API gets to it, which may be long after the client     *)
(* gave up on it, or never.  Requests overtake each other.  A request with *)
(* an Idempotency-Key may be replayed on its way (net/http does so itself, *)
(* and so do proxies); a POST without one is never replayed.               *)
(***************************************************************************)
EXTENDS Integers, FiniteSets

CONSTANTS
  Calls,        \* the SDK calls made in a behaviour, one per order step
  Keys,         \* idempotency keys: the callers' and the generated ones
  NoKey,        \* the request carries no Idempotency-Key header
  KeyRequired,  \* calls of createTableReservation and createTicketCheckout
  Infos,        \* what rate-limit headers parse to, NoInfo apart
  NoInfo,       \* the response carries no rate-limit header
  Absent,       \* a field the headers do not give
  MaxCopies     \* how often one request may be replayed on its way

ASSUME ApiAssumption ==
  /\ NoKey \notin Keys
  /\ KeyRequired \subseteq Calls
  /\ Absent \notin Int
  /\ Infos \subseteq [retryAfter : Nat \cup {Absent}, reset : Int \cup {Absent}]
  /\ NoInfo \notin Infos
  /\ MaxCopies \in Nat

VARIABLES
  requests,   \* requests in flight
  responses,  \* responses on their way to an attempt that still waits
  bookings    \* the requests the API acted upon: reservations, payments

apiVars == <<requests, responses, bookings>>

Request == [call : Calls, attempt : Nat, copy : 0..MaxCopies,
            key : Keys \cup {NoKey}]

(* ok: a 2xx with JSON; text: a 2xx whose body is not JSON (a proxy's or   *)
(* captive portal's page); limited: a 429; failed: every other status.     *)
ResponseKinds == {"ok", "text", "limited", "failed"}

Response == [call : Calls, attempt : Nat, kind : ResponseKinds,
             info : Infos \cup {NoInfo}]

ApiTypeOK ==
  /\ requests \subseteq Request
  /\ responses \subseteq Response
  /\ bookings \subseteq Request

ApiInit == requests = {} /\ responses = {} /\ bookings = {}

-----------------------------------------------------------------------------
(* What the API promises about Idempotency-Key: the two operations that    *)
(* require one remember the result of a key and return it to every repeat. *)
Remembered(m) ==
  /\ m.call \in KeyRequired
  /\ \E b \in bookings : b.call \in KeyRequired /\ b.key = m.key

Acceptable(m) == m.call \in KeyRequired => m.key # NoKey

Answered(m) == \E r \in responses : r.call = m.call /\ r.attempt = m.attempt

(* An attempt gets one response, and only while it still waits for it.     *)
Answer(m, kinds, waiting) ==
  \/ /\ waiting /\ ~Answered(m)
     /\ \E kind \in kinds, info \in Infos \cup {NoInfo} :
          responses' = responses \cup {[call |-> m.call, attempt |-> m.attempt,
                                       kind |-> kind, info |-> info]}
  \/ /\ ~waiting \/ Answered(m)
     /\ UNCHANGED responses

(* 429: the request had no effect. *)
Limit(m, waiting) ==
  /\ requests' = requests \ {m}
  /\ Answer(m, {"limited"}, waiting)
  /\ UNCHANGED bookings

(* Validation, authorization, stock, an internal error: no effect either.  *)
Refuse(m, waiting) ==
  /\ requests' = requests \ {m}
  /\ Answer(m, {"failed"}, waiting)
  /\ UNCHANGED bookings

(* The API acts on the request, unless its key is remembered.  The answer  *)
(* may still be lost to a gateway: an error status or an HTML page.        *)
Book(m, waiting) ==
  /\ Acceptable(m)
  /\ requests' = requests \ {m}
  /\ bookings' = IF Remembered(m) THEN bookings ELSE bookings \cup {m}
  /\ Answer(m, {"ok", "text", "failed"}, waiting)

(* The transport or a proxy sends a request again that carries a key.      *)
Replay(m) ==
  /\ m.key # NoKey
  /\ m.copy < MaxCopies
  /\ requests' = requests \cup {[m EXCEPT !.copy = m.copy + 1]}
  /\ UNCHANGED <<responses, bookings>>

Serve(m, waiting) ==
  \/ Limit(m, waiting)
  \/ Refuse(m, waiting)
  \/ Book(m, waiting)
  \/ Replay(m)
=============================================================================

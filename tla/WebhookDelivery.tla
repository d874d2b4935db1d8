--------------------------- MODULE WebhookDelivery ----------------------------
(***************************************************************************)
(* AOA's delivery queue, the network, and a receiver written as the skill  *)
(* says (skills/aoa-webhooks): verify, persist, answer 2xx, work later.    *)
(*                                                                         *)
(* A delivery is queued when its event happens, sent until an attempt is   *)
(* answered 2xx in time, and given up after the last attempt.  An attempt  *)
(* AOA gave up waiting for may still be running at the receiver, next to   *)
(* its retry.  A crash of the receiver kills its handlers and keeps what   *)
(* they persisted.                                                         *)
(***************************************************************************)
EXTENDS WebhookSignature

CONSTANTS
  Deliveries,   \* ids
  MaxAttempts,  \* attempts before a delivery is given up, 6
  DisableAt,    \* failures in a row that switch the endpoint off, 20
  Sdk,          \* the SDK the receiver verifies with
  Bodies,       \* what may become of the raw body on its way, "raw" untouched
  Headers,      \* the headers AOA may sign an attempt with
  Offsets,      \* the receiver's clock at arrival, after t, in ticks
  MaxCrashes    \* a bound of the model

ASSUME DeliveryAssumption ==
  /\ MaxAttempts \in Nat \ {0} /\ DisableAt \in Nat \ {0} /\ MaxCrashes \in Nat
  /\ Sdk \in Sdks /\ "raw" \in Bodies /\ Offsets \subseteq Int
  /\ {Absent, "done"} \cap Bodies = {}

Attempts == Deliveries \X (1 .. MaxAttempts)

VARIABLES
  endpoint, \* isActive and failureCount of GET /webhooks
  delivery, \* status of each delivery and how often it was sent
  handler,  \* where the receiver's handler of each attempt is
  inbox,    \* what the receiver persisted, by delivery id (durable)
  handled,  \* how often the work of each delivery was done (durable)
  arrival,  \* the attempt that arrived in this step, and who accepts it
  crashes

vars == <<endpoint, delivery, handler, inbox, handled, arrival, crashes>>

Steps == {"none", "travelling", "refused", "verified", "stored", "over"}
At(step) == [step |-> step, body |-> Absent]
NoArrival == [signed |-> {}, offset |-> 0, accepted |-> {}]

Init ==
  /\ endpoint = [isActive |-> TRUE, failureCount |-> 0]
  /\ delivery = [d \in Deliveries |-> [status |-> "none", attempts |-> 0]]
  /\ handler = [a \in Attempts |-> At("none")]
  /\ inbox = [d \in Deliveries |-> Absent]
  /\ handled = [d \in Deliveries |-> 0]
  /\ arrival = NoArrival
  /\ crashes = 0

Quiet == arrival' = NoArrival

-----------------------------------------------------------------------------
(* AOA (external: the skill's sections 5 and 6)                            *)

(* While the endpoint is off, new events are not queued for it.            *)
Happen(d) ==
  /\ delivery[d].status = "none"
  /\ delivery' = [delivery EXCEPT ![d].status =
                    IF endpoint.isActive THEN "queued" ELSE "missed"]
  /\ UNCHANGED <<endpoint, handler, inbox, handled, crashes>>
  /\ Quiet

(* Mutant: a delivery that was given up is sent once more.                 *)
SendAgain(d) ==
  /\ endpoint.isActive
  /\ delivery[d].status \in {"queued", "given up"}
  /\ delivery' = [delivery EXCEPT ![d] = [status |-> "sent",
                                          attempts |-> @.attempts + 1]]
  /\ UNCHANGED <<endpoint, handler, inbox, handled, crashes>>
  /\ Quiet

Send(d) ==
  /\ endpoint.isActive
  /\ delivery[d].status = "queued"
  /\ delivery' = [delivery EXCEPT ![d] = [status |-> "sent",
                                          attempts |-> @.attempts + 1]]
  /\ handler' = [handler EXCEPT ![<<d, delivery[d].attempts + 1>>] =
                    At("travelling")]
  /\ UNCHANGED <<endpoint, inbox, handled, crashes>>
  /\ Quiet

(* An answer counts for the attempt AOA still waits for.                   *)
Awaited(d, n) == delivery[d].status = "sent" /\ delivery[d].attempts = n

Delivered(d) ==
  /\ delivery' = [delivery EXCEPT ![d].status = "delivered"]
  /\ endpoint' = [endpoint EXCEPT !.failureCount = 0]

Failed(d) ==
  /\ delivery' = [delivery EXCEPT ![d].status =
                    IF @ = "sent" /\ delivery[d].attempts < MaxAttempts
                      THEN "queued" ELSE "given up"]
  /\ endpoint' = [isActive |-> endpoint.isActive
                                 /\ endpoint.failureCount + 1 < DisableAt,
                  failureCount |-> endpoint.failureCount + 1]

(* No answer within 10 seconds; the handler may be running for all AOA     *)
(* knows.                                                                  *)
AttemptFails(d) ==
  /\ delivery[d].status = "sent"
  /\ Failed(d)
  /\ UNCHANGED <<handler, inbox, handled, crashes>>
  /\ Quiet

(* Deliveries to the endpoint that are not among Deliveries.               *)
OtherDelivery ==
  /\ endpoint.isActive
  /\ endpoint' \in { [isActive |-> TRUE, failureCount |-> 0],
                     [isActive |-> endpoint.failureCount + 1 < DisableAt,
                      failureCount |-> endpoint.failureCount + 1] }
  /\ UNCHANGED <<delivery, handler, inbox, handled, crashes>>
  /\ Quiet

(* PATCH /webhooks/{endpointId} { isActive: true }                         *)
Reenable ==
  /\ ~endpoint.isActive
  /\ endpoint' = [isActive |-> TRUE, failureCount |-> 0]
  /\ UNCHANGED <<delivery, handler, inbox, handled, crashes>>
  /\ Quiet

-----------------------------------------------------------------------------
(* The receiver                                                            *)

(* The hex in which the header holds the endpoint's signature of the body. *)
SignedBy(header, body) ==
  {hex \in {"lower", "upper"} :
     Signature(Hmac("secret", Timestamp(header), body), hex)
       \in Signatures(header)}

(* constructWebhookEvent: AoaWebhookSignatureError is answered 401.        *)
Construct(d, n, header, body, offset) ==
  LET accepted == {sdk \in Sdks :
                     Verify(sdk, header, body, "secret", offset)}
  IN /\ handler[<<d, n>>].step = "travelling"
     /\ handler' = [handler EXCEPT ![<<d, n>>] =
                      IF Sdk \in accepted
                        THEN [step |-> "verified", body |-> body]
                        ELSE At("refused")]
     /\ arrival' = [signed |-> SignedBy(header, body), offset |-> offset,
                    accepted |-> accepted]
     /\ UNCHANGED <<endpoint, delivery, inbox, handled, crashes>>

(* Mutant: no look at what is recorded already.                            *)
EnqueueAgain(d, n) ==
  /\ handler[<<d, n>>].step = "verified"
  /\ handler' = [handler EXCEPT ![<<d, n>>] = At("stored")]
  /\ inbox' = [inbox EXCEPT ![d] = handler[<<d, n>>].body]
  /\ UNCHANGED <<endpoint, delivery, handled, crashes>>
  /\ Quiet

(* Recorded under its id, once: a unique index, SET NX.                    *)
Record(d, body) ==
  inbox' = [inbox EXCEPT ![d] = IF @ = Absent THEN body ELSE @]

Enqueue(d, n) ==
  /\ handler[<<d, n>>].step = "verified"
  /\ handler' = [handler EXCEPT ![<<d, n>>] = At("stored")]
  /\ Record(d, handler[<<d, n>>].body)
  /\ UNCHANGED <<endpoint, delivery, handled, crashes>>
  /\ Quiet

(* enqueue throws, which is answered 500: nothing was recorded, or it was  *)
(* and the receiver does not know.                                         *)
EnqueueFails(d, n) ==
  /\ handler[<<d, n>>].step = "verified"
  /\ handler' = [handler EXCEPT ![<<d, n>>] = At("refused")]
  /\ UNCHANGED inbox \/ Record(d, handler[<<d, n>>].body)
  /\ UNCHANGED <<endpoint, delivery, handled, crashes>>
  /\ Quiet

(* Mutant: as in the handlers of the SDKs' READMEs, 2xx before anything is *)
(* stored.                                                                 *)
AnswerFirst(d, n) ==
  /\ handler[<<d, n>>].step \in {"verified", "refused"}
  /\ handler' = [handler EXCEPT ![<<d, n>>] = At("over")]
  /\ IF ~Awaited(d, n) THEN UNCHANGED <<delivery, endpoint>>
     ELSE IF handler[<<d, n>>].step = "verified" THEN Delivered(d)
                                                 ELSE Failed(d)
  /\ UNCHANGED <<inbox, handled, crashes>>
  /\ Quiet

(* 200 for what is stored, 401 or 500 for what is refused.                 *)
Answer(d, n) ==
  /\ handler[<<d, n>>].step \in {"stored", "refused"}
  /\ handler' = [handler EXCEPT ![<<d, n>>] = At("over")]
  /\ IF ~Awaited(d, n) THEN UNCHANGED <<delivery, endpoint>>
     ELSE IF handler[<<d, n>>].step = "stored" THEN Delivered(d) ELSE Failed(d)
  /\ UNCHANGED <<inbox, handled, crashes>>
  /\ Quiet

(* The work and its record, in one transaction.                            *)
Work(d) ==
  /\ inbox[d] \notin {Absent, "done"}
  /\ inbox' = [inbox EXCEPT ![d] = "done"]
  /\ handled' = [handled EXCEPT ![d] = @ + 1]
  /\ UNCHANGED <<endpoint, delivery, handler, crashes>>
  /\ Quiet

(* Mutant: the queue of what is to be worked on is in memory.              *)
CrashOfMemory ==
  /\ crashes < MaxCrashes
  /\ crashes' = crashes + 1
  /\ inbox' = [d \in Deliveries |-> Absent]
  /\ UNCHANGED <<endpoint, delivery, handler, handled>>
  /\ Quiet

Crash ==
  /\ crashes < MaxCrashes
  /\ crashes' = crashes + 1
  /\ handler' = [a \in Attempts |->
                    IF handler[a].step \in {"none", "travelling"}
                      THEN handler[a] ELSE At("over")]
  /\ UNCHANGED <<endpoint, delivery, inbox, handled>>
  /\ Quiet

Arrive(d, n) == \E header \in Headers, body \in Bodies, offset \in Offsets :
                  Construct(d, n, header, body, offset)

Next ==
  \/ \E d \in Deliveries : Happen(d) \/ Send(d) \/ AttemptFails(d) \/ Work(d)
  \/ \E a \in Attempts : \/ Arrive(a[1], a[2]) \/ Enqueue(a[1], a[2])
                         \/ EnqueueFails(a[1], a[2]) \/ Answer(a[1], a[2])
  \/ OtherDelivery \/ Reenable
  \/ Crash

(* The receiver's worker runs on; nothing is asked of AOA or the network.  *)
Spec == Init /\ [][Next]_vars /\ \A d \in Deliveries : WF_vars(Work(d))

-----------------------------------------------------------------------------
(* Attempts and failures stay within AOA's limits, handlers at known steps.*)
TypeOK ==
  /\ endpoint.isActive \in BOOLEAN
  /\ endpoint.failureCount \in Nat
  /\ endpoint.isActive => endpoint.failureCount < DisableAt
  /\ \A d \in Deliveries :
       /\ delivery[d].status \in {"none", "missed", "queued", "sent",
                                  "delivered", "given up"}
       /\ delivery[d].attempts \in 0 .. MaxAttempts
  /\ \A a \in Attempts :
       handler[a] \in [step : Steps, body : Bodies \union {Absent}]

(* The three SDKs give one verdict: what the endpoint's secret signed and  *)
(* is fresh, nothing else.  They part in two places only: within the last  *)
(* second of the tolerance Go, which counts fractions, refuses what the    *)
(* others accept; and Python does not know a signature in capitals.        *)
Fresh(offset) == Distance(offset, 0) <= Tolerance * TicksPerSecond
OnTheEdge(offset) == /\ offset > Tolerance * TicksPerSecond
                     /\ offset < (Tolerance + 1) * TicksPerSecond
VerdictsAgree ==
  arrival # NoArrival =>
    arrival.accepted =
      {sdk \in Sdks : /\ arrival.signed # {}
                      /\ sdk = "python" => "lower" \in arrival.signed
                      /\ \/ Fresh(arrival.offset)
                         \/ sdk # "go" /\ OnTheEdge(arrival.offset)}

(* After a 2xx AOA never resends, so an acknowledged delivery is already   *)
(* in the receiver's store, whatever crashes next.                         *)
AcknowledgedIsStored ==
  \A d \in Deliveries : delivery[d].status = "delivered" => inbox[d] # Absent

(* At-least-once delivery, late answers and handlers that run next to      *)
(* each other do the work of a delivery at most once.                      *)
WorkOnce == \A d \in Deliveries : handled[d] <= 1

(* Whatever AOA was told is done is done in the end.                       *)
AcknowledgedIsHandled ==
  \A d \in Deliveries : delivery[d].status = "delivered" ~> handled[d] > 0
=============================================================================

---------------------------- MODULE WebhookProofs ----------------------------
(***************************************************************************)
(* Proofs about WebhookDelivery, for any number of deliveries, attempts    *)
(* and crashes: its types, what an acknowledged delivery is worth, that    *)
(* work is done once, and the one verdict of the three SDKs.               *)
(***************************************************************************)
EXTENDS WebhookDelivery, TLAPS

Statuses == {"none", "missed", "queued", "sent", "delivered", "given up"}

TypeInv ==
  /\ endpoint \in [isActive : BOOLEAN, failureCount : Nat]
  /\ endpoint.isActive => endpoint.failureCount < DisableAt
  /\ delivery \in [Deliveries -> [status : Statuses, attempts : 0 .. MaxAttempts]]
  /\ handler \in [Attempts -> [step : Steps, body : Bodies \union {Absent}]]
  /\ inbox \in [Deliveries -> Bodies \union {Absent, "done"}]
  /\ handled \in [Deliveries -> Nat]

(* A delivery that is queued or not known yet has an attempt left.         *)
AttemptLeft ==
  \A d \in Deliveries :
    delivery[d].status \in {"none", "queued"} => delivery[d].attempts < MaxAttempts

(* What a handler verified is a body, and what it stored is there.         *)
HandlersStore ==
  \A a \in Attempts :
    /\ handler[a].step = "verified" => handler[a].body \in Bodies
    /\ handler[a].step = "stored" => inbox[a[1]] # Absent

(* The record that the work is done is as durable as the work.             *)
DoneIsRecorded ==
  \A d \in Deliveries : handled[d] = IF inbox[d] = "done" THEN 1 ELSE 0

IInv ==
  /\ TypeInv
  /\ AttemptLeft
  /\ HandlersStore
  /\ AcknowledgedIsStored
  /\ DoneIsRecorded

-----------------------------------------------------------------------------
USE SignatureAssumption, DeliveryAssumption

Delivery == [status : Statuses, attempts : 0 .. MaxAttempts]

LEMMA AttemptsAre ==
  \A a \in Attempts : /\ a[1] \in Deliveries /\ a[2] \in 1 .. MaxAttempts
                      /\ a = <<a[1], a[2]>>
  BY DEF Attempts

(* The status of one delivery changes.                                     *)
LEMMA SetStatus ==
  ASSUME TypeInv, NEW d \in Deliveries, NEW s \in Statuses,
         delivery' = [delivery EXCEPT ![d].status = s]
  PROVE  /\ delivery' \in [Deliveries -> Delivery]
         /\ delivery'[d].status = s /\ delivery'[d].attempts = delivery[d].attempts
         /\ \A e \in Deliveries \ {d} : delivery'[e] = delivery[e]
<1> DEFINE new == [delivery[d] EXCEPT !.status = s]
<1>1. delivery \in [Deliveries -> Delivery] /\ delivery[d] \in Delivery
  BY DEF TypeInv, Delivery
<1>2. /\ new \in Delivery
      /\ new.status = s /\ new.attempts = delivery[d].attempts
  BY <1>1 DEF Delivery
<1>3. delivery' = [delivery EXCEPT ![d] = new]
  OBVIOUS
<1> HIDE DEF new
<1> QED
  BY <1>1, <1>2, <1>3

LEMMA InitInv == Init => IInv
<1> SUFFICES ASSUME Init
             PROVE  IInv
  OBVIOUS
<1>1. TypeInv
  BY DEF Init, At, TypeInv, Statuses, Steps
<1>2. AttemptLeft /\ AcknowledgedIsStored /\ DoneIsRecorded
  BY DEF Init, AttemptLeft, AcknowledgedIsStored, DoneIsRecorded, Absent
<1>3. HandlersStore
  BY DEF Init, At, HandlersStore
<1> QED
  BY <1>1, <1>2, <1>3 DEF IInv

(* What AOA knows after an answer, or after none.                          *)
AoaInv ==
  /\ endpoint \in [isActive : BOOLEAN, failureCount : Nat]
  /\ endpoint.isActive => endpoint.failureCount < DisableAt
  /\ delivery \in [Deliveries -> Delivery]
  /\ AttemptLeft
  /\ AcknowledgedIsStored

(* A failure is counted, and the last one that may be switches it off.     *)
LEMMA CountedFailure ==
  ASSUME TypeInv
  PROVE  LET after == [isActive |-> endpoint.isActive
                                      /\ endpoint.failureCount + 1 < DisableAt,
                       failureCount |-> endpoint.failureCount + 1]
         IN /\ after \in [isActive : BOOLEAN, failureCount : Nat]
            /\ after.isActive => after.failureCount < DisableAt
<1> DEFINE active == endpoint.isActive /\ endpoint.failureCount + 1 < DisableAt
           count == endpoint.failureCount + 1
<1>1. active \in BOOLEAN
  OBVIOUS
<1>2. count \in Nat
  BY DEF TypeInv
<1>3. active => count < DisableAt
  OBVIOUS
<1> HIDE DEF active, count
<1>4. LET after == [isActive |-> active, failureCount |-> count]
      IN /\ after \in [isActive : BOOLEAN, failureCount : Nat]
         /\ after.isActive => after.failureCount < DisableAt
  BY <1>1, <1>2, <1>3
<1> QED
  BY <1>4 DEF active, count

(* A failure leads to another attempt, while there is one, or to none.     *)
LEMMA FailedInv ==
  ASSUME IInv, NEW d \in Deliveries, Failed(d), UNCHANGED <<inbox, handled>>
  PROVE  AoaInv'
<1>1. PICK s \in {"queued", "given up"} :
        /\ delivery' = [delivery EXCEPT ![d].status = s]
        /\ s = "queued" => delivery[d].attempts < MaxAttempts
  <2> DEFINE more == delivery[d].status = "sent"
                       /\ delivery[d].attempts < MaxAttempts
             next == IF more THEN "queued" ELSE "given up"
  <2>1. delivery' = [delivery EXCEPT ![d].status = next]
    BY DEF Failed
  <2>2. next \in {"queued", "given up"}
    OBVIOUS
  <2>3. next = "queued" => delivery[d].attempts < MaxAttempts
    OBVIOUS
  <2> HIDE DEF next
  <2> QED
    BY <2>1, <2>2, <2>3
<1>2. /\ delivery' \in [Deliveries -> Delivery]
      /\ delivery'[d].status = s /\ delivery'[d].attempts = delivery[d].attempts
      /\ \A e \in Deliveries \ {d} : delivery'[e] = delivery[e]
  BY <1>1, SetStatus DEF IInv, Statuses
<1>3. /\ endpoint' \in [isActive : BOOLEAN, failureCount : Nat]
      /\ endpoint'.isActive => endpoint'.failureCount < DisableAt
  BY CountedFailure DEF Failed, IInv
<1>4. AttemptLeft' /\ AcknowledgedIsStored'
  BY <1>1, <1>2 DEF IInv, AttemptLeft, AcknowledgedIsStored
<1> QED
  BY <1>2, <1>3, <1>4 DEF AoaInv

(* A 2xx is answered once the delivery is stored.                          *)
LEMMA DeliveredInv ==
  ASSUME IInv, NEW d \in Deliveries, Delivered(d), inbox[d] # Absent,
         UNCHANGED <<inbox, handled>>
  PROVE  AoaInv'
<1>1. /\ delivery' \in [Deliveries -> Delivery]
      /\ delivery'[d].status = "delivered"
      /\ \A e \in Deliveries \ {d} : delivery'[e] = delivery[e]
  BY SetStatus DEF Delivered, IInv, Statuses
<1>2. /\ endpoint' \in [isActive : BOOLEAN, failureCount : Nat]
      /\ endpoint'.isActive => endpoint'.failureCount < DisableAt
  BY DEF Delivered, IInv, TypeInv
<1>3. AttemptLeft' /\ AcknowledgedIsStored'
  BY <1>1 DEF IInv, AttemptLeft, AcknowledgedIsStored
<1> QED
  BY <1>1, <1>2, <1>3 DEF AoaInv

-----------------------------------------------------------------------------
(* An event is queued for an endpoint that is on, and missed by one that   *)
(* is off.                                                                 *)
LEMMA HappenInv ==
  ASSUME IInv, NEW d \in Deliveries, Happen(d)
  PROVE  IInv'
<1>1. PICK s \in {"queued", "missed"} : delivery' = [delivery EXCEPT ![d].status = s]
  <2> DEFINE next == IF endpoint.isActive THEN "queued" ELSE "missed"
  <2>1. next \in {"queued", "missed"} /\ delivery' = [delivery EXCEPT ![d].status = next]
    BY DEF Happen
  <2> HIDE DEF next
  <2> QED
    BY <2>1
<1>2. /\ delivery' \in [Deliveries -> Delivery]
      /\ delivery'[d].status = s /\ delivery'[d].attempts = delivery[d].attempts
      /\ \A e \in Deliveries \ {d} : delivery'[e] = delivery[e]
  BY <1>1, SetStatus DEF IInv, Statuses
<1>3. TypeInv'
  BY <1>2 DEF Happen, IInv, TypeInv, Delivery
<1>4. AttemptLeft' /\ AcknowledgedIsStored'
  BY <1>1, <1>2 DEF Happen, IInv, AttemptLeft, AcknowledgedIsStored
<1>5. HandlersStore' /\ DoneIsRecorded'
  BY DEF Happen, IInv, HandlersStore, DoneIsRecorded
<1> QED
  BY <1>3, <1>4, <1>5 DEF IInv

(* A delivery that is queued has an attempt left; it travels on its own.   *)
LEMMA SendInv ==
  ASSUME IInv, NEW d \in Deliveries, Send(d)
  PROVE  IInv'
<1> DEFINE n == delivery[d].attempts + 1
           new == [status |-> "sent", attempts |-> n]
<1>1. n \in 1 .. MaxAttempts
  BY DEF Send, IInv, TypeInv, AttemptLeft
<1>2. delivery' = [delivery EXCEPT ![d] = new]
  BY DEF Send
<1>3. new \in Delivery /\ new.status = "sent"
  BY <1>1 DEF Delivery, Statuses
<1>4. <<d, n>> \in Attempts /\ handler' = [handler EXCEPT ![<<d, n>>] = At("travelling")]
  BY <1>1 DEF Send, Attempts
<1>5. /\ At("travelling") \in [step : Steps, body : Bodies \union {Absent}]
      /\ At("travelling").step = "travelling"
  BY DEF At, Steps
<1> HIDE DEF n, new
<1>6. TypeInv'
  <2>1. delivery \in [Deliveries -> Delivery]
    BY DEF IInv, TypeInv, Delivery
  <2>2. delivery' \in [Deliveries -> Delivery]
    BY <1>2, <1>3, <2>1
  <2>3. handler' \in [Attempts -> [step : Steps, body : Bodies \union {Absent}]]
    BY <1>4, <1>5 DEF IInv, TypeInv
  <2> QED
    BY <2>2, <2>3 DEF Send, IInv, TypeInv, Delivery
<1>7. AttemptLeft' /\ AcknowledgedIsStored'
  BY <1>2, <1>3 DEF Send, IInv, TypeInv, AttemptLeft, AcknowledgedIsStored
<1>8. HandlersStore' /\ DoneIsRecorded'
  BY <1>4, <1>5 DEF Send, IInv, TypeInv, HandlersStore, DoneIsRecorded
<1> QED
  BY <1>6, <1>7, <1>8 DEF IInv

LEMMA AttemptFailsInv ==
  ASSUME IInv, NEW d \in Deliveries, AttemptFails(d)
  PROVE  IInv'
<1>1. AoaInv'
  BY FailedInv DEF AttemptFails
<1> QED
  BY <1>1 DEF AttemptFails, AoaInv, IInv, TypeInv, Delivery, HandlersStore,
     DoneIsRecorded

(* What happens to other deliveries, and an endpoint that is switched on   *)
(* again, leave these alone.                                               *)
LEMMA EndpointInv ==
  ASSUME IInv, OtherDelivery \/ Reenable
  PROVE  IInv'
<1>1. /\ endpoint' \in [isActive : BOOLEAN, failureCount : Nat]
      /\ endpoint'.isActive => endpoint'.failureCount < DisableAt
  <2> DEFINE count == endpoint.failureCount + 1
             more == count < DisableAt
             on(active, n) == [isActive |-> active, failureCount |-> n]
  <2>1. endpoint' = on(TRUE, 0) \/ endpoint' = on(more, count)
    BY DEF OtherDelivery, Reenable
  <2>2. count \in Nat /\ more \in BOOLEAN /\ (more => count < DisableAt)
    BY DEF IInv, TypeInv
  <2> HIDE DEF more, count
  <2>3. CASE endpoint' = on(TRUE, 0)
    BY <2>3
  <2>4. CASE endpoint' = on(more, count)
    <3>1. /\ on(more, count) \in [isActive : BOOLEAN, failureCount : Nat]
          /\ on(more, count).isActive => on(more, count).failureCount < DisableAt
      BY <2>2
    <3> HIDE DEF on
    <3> QED
      BY <2>4, <3>1
  <2> QED
    BY <2>1, <2>3, <2>4
<1> QED
  BY <1>1 DEF OtherDelivery, Reenable, IInv, TypeInv, AttemptLeft, HandlersStore,
     AcknowledgedIsStored, DoneIsRecorded

(* What a handler does to its own attempt and to nothing else.             *)
LEMMA ConstructInv ==
  ASSUME IInv, NEW a \in Attempts, Arrive(a[1], a[2])
  PROVE  IInv'
<1>1. PICK new \in [step : Steps, body : Bodies \union {Absent}] :
        /\ handler' = [handler EXCEPT ![a] = new]
        /\ new.step \in {"verified", "refused"}
        /\ new.step = "verified" => new.body \in Bodies
  <2>1. PICK header \in Headers, body \in Bodies, offset \in Offsets :
          Construct(a[1], a[2], header, body, offset)
    BY DEF Arrive
  <2> DEFINE good == [step |-> "verified", body |-> body]
  <2>2. \/ handler' = [handler EXCEPT ![a] = good]
        \/ handler' = [handler EXCEPT ![a] = At("refused")]
    BY <2>1, AttemptsAre DEF Construct
  <2>3. /\ good \in [step : Steps, body : Bodies \union {Absent}]
        /\ good.step = "verified" /\ good.body \in Bodies
        /\ At("refused") \in [step : Steps, body : Bodies \union {Absent}]
        /\ At("refused").step = "refused"
    BY DEF At, Steps
  <2> HIDE DEF good
  <2> QED
    BY <2>2, <2>3
<1>2. UNCHANGED <<endpoint, delivery, inbox, handled>>
  BY DEF Arrive, Construct
<1> QED
  BY <1>1, <1>2 DEF IInv, TypeInv, AttemptLeft, HandlersStore,
     AcknowledgedIsStored, DoneIsRecorded

(* A delivery is recorded once, whichever of its handlers comes first and  *)
(* whatever that one answers.                                              *)
LEMMA RecordInv ==
  ASSUME IInv, NEW a \in Attempts, NEW step \in {"stored", "refused"},
         handler[a].step = "verified", Record(a[1], handler[a].body),
         handler' = [handler EXCEPT ![a] = At(step)],
         UNCHANGED <<endpoint, delivery, handled>>
  PROVE  IInv'
<1> DEFINE d == a[1]
<1>1. d \in Deliveries
  BY AttemptsAre
<1>2. PICK value : /\ inbox' = [inbox EXCEPT ![d] = value]
                   /\ value = IF inbox[d] = Absent THEN handler[a].body ELSE inbox[d]
  BY AttemptsAre DEF Record
<1>3. /\ value \in Bodies \union {"done"}
      /\ value # Absent
      /\ value = "done" <=> inbox[d] = "done"
  BY <1>1, <1>2 DEF IInv, TypeInv, HandlersStore, Absent
<1>4. /\ At(step) \in [step : Steps, body : Bodies \union {Absent}]
      /\ At(step).step = step
  BY DEF At, Steps
<1> HIDE DEF d
<1>5. /\ inbox'[d] = value
      /\ \A e \in Deliveries \ {d} : inbox'[e] = inbox[e]
  BY <1>1, <1>2 DEF IInv, TypeInv
<1>6. TypeInv'
  BY <1>1, <1>2, <1>3, <1>4 DEF IInv, TypeInv
<1>7. HandlersStore'
  BY <1>1, <1>3, <1>4, <1>5, AttemptsAre DEF IInv, TypeInv, HandlersStore, d
<1>8. AttemptLeft' /\ AcknowledgedIsStored' /\ DoneIsRecorded'
  BY <1>1, <1>3, <1>5 DEF IInv, AttemptLeft, AcknowledgedIsStored, DoneIsRecorded
<1> QED
  BY <1>6, <1>7, <1>8 DEF IInv

LEMMA EnqueueInv ==
  ASSUME IInv, NEW a \in Attempts,
         Enqueue(a[1], a[2]) \/ EnqueueFails(a[1], a[2])
  PROVE  IInv'
<1>1. /\ handler[a].step = "verified"
      /\ UNCHANGED <<endpoint, delivery, handled>>
      /\ \/ /\ handler' = [handler EXCEPT ![a] = At("stored")]
            /\ Record(a[1], handler[a].body)
         \/ /\ handler' = [handler EXCEPT ![a] = At("refused")]
            /\ UNCHANGED inbox \/ Record(a[1], handler[a].body)
  BY AttemptsAre DEF Enqueue, EnqueueFails
<1>2. CASE Record(a[1], handler[a].body)
  BY <1>1, <1>2, RecordInv
<1>3. CASE UNCHANGED inbox /\ handler' = [handler EXCEPT ![a] = At("refused")]
  <2>1. /\ At("refused") \in [step : Steps, body : Bodies \union {Absent}]
        /\ At("refused").step = "refused"
    BY DEF At, Steps
  <2> QED
    BY <1>1, <1>3, <2>1 DEF IInv, TypeInv, AttemptLeft, HandlersStore,
       AcknowledgedIsStored, DoneIsRecorded
<1> QED
  BY <1>1, <1>2, <1>3

(* A handler answers what it stored with a 2xx; a late answer is ignored.  *)
LEMMA AnswerInv ==
  ASSUME IInv, NEW a \in Attempts, Answer(a[1], a[2])
  PROVE  IInv'
<1>1. /\ a[1] \in Deliveries
      /\ handler[a].step \in {"stored", "refused"}
      /\ handler' = [handler EXCEPT ![a] = At("over")]
      /\ UNCHANGED <<inbox, handled>>
  BY AttemptsAre DEF Answer
<1>2. \/ UNCHANGED <<delivery, endpoint>>
      \/ handler[a].step = "stored" /\ Delivered(a[1])
      \/ Failed(a[1])
  BY AttemptsAre DEF Answer
<1>3. handler[a].step = "stored" => inbox[a[1]] # Absent
  BY DEF IInv, HandlersStore
<1>4. AoaInv'
  <2>1. CASE UNCHANGED <<delivery, endpoint>>
    BY <1>1, <2>1 DEF AoaInv, IInv, TypeInv, Delivery, AttemptLeft,
       AcknowledgedIsStored
  <2> QED
    BY <1>1, <1>2, <1>3, <2>1, DeliveredInv, FailedInv
<1>5. /\ At("over") \in [step : Steps, body : Bodies \union {Absent}]
      /\ At("over").step = "over"
  BY DEF At, Steps
<1>6. TypeInv'
  BY <1>1, <1>4, <1>5 DEF AoaInv, IInv, TypeInv, Delivery
<1>7. HandlersStore' /\ DoneIsRecorded'
  BY <1>1, <1>5 DEF IInv, TypeInv, HandlersStore, DoneIsRecorded
<1> QED
  BY <1>4, <1>6, <1>7 DEF AoaInv, IInv

(* The work is done on what is stored and was not done before.             *)
LEMMA WorkInv ==
  ASSUME IInv, NEW d \in Deliveries, Work(d)
  PROVE  IInv'
<1>1. /\ inbox' = [inbox EXCEPT ![d] = "done"]
      /\ handled' = [handled EXCEPT ![d] = handled[d] + 1]
      /\ inbox[d] # "done"
      /\ UNCHANGED <<endpoint, delivery, handler>>
  BY DEF Work
<1>2. "done" # Absent
  BY DEF Absent
<1>3. TypeInv'
  BY <1>1 DEF IInv, TypeInv
<1>4. HandlersStore' /\ AcknowledgedIsStored'
  BY <1>1, <1>2, AttemptsAre DEF IInv, TypeInv, HandlersStore,
     AcknowledgedIsStored
<1>5. AttemptLeft' /\ DoneIsRecorded'
  BY <1>1 DEF IInv, TypeInv, AttemptLeft, DoneIsRecorded
<1> QED
  BY <1>3, <1>4, <1>5 DEF IInv

(* A crash ends the handlers and leaves what is stored.                    *)
LEMMA CrashInv ==
  ASSUME IInv, Crash
  PROVE  IInv'
<1>1. /\ At("over") \in [step : Steps, body : Bodies \union {Absent}]
      /\ At("over").step = "over"
  BY DEF At, Steps
<1>2. \A a \in Attempts : handler'[a] \in {handler[a], At("over")}
  BY DEF Crash
<1>3. TypeInv'
  BY <1>1, <1>2 DEF Crash, IInv, TypeInv
<1>4. HandlersStore'
  BY <1>1, <1>2 DEF Crash, IInv, HandlersStore
<1> QED
  BY <1>3, <1>4 DEF Crash, IInv, AttemptLeft, AcknowledgedIsStored, DoneIsRecorded

LEMMA InvStep == IInv /\ [Next]_vars => IInv'
<1> SUFFICES ASSUME IInv, [Next]_vars
             PROVE  IInv'
  OBVIOUS
<1>1. CASE UNCHANGED vars
  BY <1>1 DEF vars, IInv, TypeInv, AttemptLeft, HandlersStore,
     AcknowledgedIsStored, DoneIsRecorded
<1> QED
  BY <1>1, HappenInv, SendInv, AttemptFailsInv, WorkInv, ConstructInv, EnqueueInv,
     AnswerInv, EndpointInv, CrashInv DEF Next

LEMMA Invariance == Spec => []IInv
  BY InitInv, InvStep, PTL DEF Spec

(* AOA's limits hold: an endpoint that is on has failed less than          *)
(* DisableAt times in a row, and no delivery is sent more than MaxAttempts *)
(* times.                                                                  *)
THEOREM TypeCorrect == Spec => []TypeOK
<1>1. IInv => TypeOK
  <2> SUFFICES ASSUME IInv
               PROVE  TypeOK
    OBVIOUS
  <2>1. \A d \in Deliveries : delivery[d].status \in Statuses
                              /\ delivery[d].attempts \in 0 .. MaxAttempts
    BY DEF IInv, TypeInv
  <2>2. \A a \in Attempts :
          handler[a] \in [step : Steps, body : Bodies \union {Absent}]
    BY DEF IInv, TypeInv
  <2>3. /\ endpoint.isActive \in BOOLEAN /\ endpoint.failureCount \in Nat
        /\ endpoint.isActive => endpoint.failureCount < DisableAt
    BY DEF IInv, TypeInv
  <2> QED
    BY <2>1, <2>2, <2>3 DEF TypeOK, Statuses
<1> QED
  BY <1>1, Invariance, PTL

(* A delivery AOA was told is accepted is in the receiver's store: of all  *)
(* attempts, answers that come late, crashes and handlers side by side.    *)
THEOREM AcknowledgedStaysStored == Spec => []AcknowledgedIsStored
  BY Invariance, PTL DEF IInv

(* At-least-once delivery makes no work be done twice: the store records   *)
(* under the delivery's id that it is done, with the work.                 *)
THEOREM WorkedOnce == Spec => []WorkOnce
<1>1. IInv => WorkOnce
  BY DEF IInv, DoneIsRecorded, WorkOnce
<1> QED
  BY <1>1, Invariance, PTL

-----------------------------------------------------------------------------
(* Comparing multiples of a positive number compares the factors.          *)
LEMMA Multiples ==
  ASSUME NEW a \in Int, NEW b \in Int, NEW t \in Nat \ {0}
  PROVE  a <= b <=> a * t <= b * t
  OBVIOUS

(* The whole seconds of a clock.                                           *)
LEMMA WholeSeconds ==
  ASSUME NEW n \in Int, NEW t \in Nat \ {0}
  PROVE  /\ n \div t \in Int
         /\ (n \div t) * t <= n
         /\ n < (n \div t) * t + t
  OBVIOUS

(* Dropping the fraction of the clock moves the end of the tolerance by    *)
(* the rest of a second, and its beginning by nothing.                     *)
LEMMA AgeWithin ==
  ASSUME NEW sdk \in Sdks, NEW now \in Int
  PROVE  Age(sdk, now, 0) <= Tolerance * TicksPerSecond
           <=> Fresh(now) \/ (sdk # "go" /\ OnTheEdge(now))
<1> DEFINE t == TicksPerSecond
           q == now \div t
           most == Tolerance * t
<1>1. /\ q \in Int /\ t \in Nat \ {0}
      /\ q * t <= now /\ now < q * t + t
  BY WholeSeconds
<1>2. q * t \in Int /\ most \in Nat /\ 0 * t = 0
  BY <1>1
<1>3. /\ q <= Tolerance <=> q * t <= most
      /\ -Tolerance <= q <=> (-Tolerance) * t <= q * t
      /\ 0 <= q <=> 0 * t <= q * t
  BY <1>1, Multiples
<1>4. (-Tolerance) * t = -most /\ (Tolerance + 1) * t = most + t
  BY <1>1
<1>5. CASE sdk = "go"
  BY <1>2, <1>5 DEF Age, Distance, Fresh
<1>6. CASE sdk # "go"
  <2>1. Age(sdk, now, 0) = Distance(q * t, 0)
    BY <1>2, <1>6 DEF Age
  <2>2. Tolerance + 1 <= q <=> (Tolerance + 1) * t <= q * t
    BY <1>1, Multiples
  <2>3. q + 1 <= -Tolerance <=> (q + 1) * t <= (-Tolerance) * t
    BY <1>1, Multiples
  <2>4. (q + 1) * t = q * t + t
    BY <1>1
  <2> DEFINE w == q * t
  <2>5. w \in Int /\ w <= now /\ now < w + t
    BY <1>1, <1>2
  <2>6. CASE 0 <= q
    <3>1. 0 <= w /\ Distance(w, 0) = w
      BY <1>2, <1>3, <2>6 DEF Distance
    <3>2. w <= most <=> now < most + t
      BY <1>1, <1>2, <1>3, <1>4, <2>2
    <3> QED
      BY <1>1, <1>2, <1>4, <1>6, <2>1, <2>5, <3>1, <3>2 DEF Distance, Fresh, OnTheEdge
  <2>7. CASE q < 0
    <3>1. w < 0 /\ Distance(w, 0) = -w
      BY <1>1, <1>2, <1>3, <2>7 DEF Distance
    <3>2. now < 0
      BY <1>1, <1>2, <1>3, <2>4, <2>5, <2>7, Multiples
    <3>3. -w <= most <=> -now <= most
      BY <1>1, <1>2, <1>3, <1>4, <2>3, <2>4, <2>5
    <3> QED
      BY <1>1, <1>2, <1>6, <2>1, <2>5, <3>1, <3>2, <3>3 DEF Distance, Fresh, OnTheEdge
  <2> QED
    BY <1>1, <2>6, <2>7
<1> QED
  BY <1>5, <1>6

(* What AOA writes, or another sender without the endpoint's secret: every *)
(* v1 is a signature in hex, and what is signed with the secret says when. *)
(* Offsets count from there.                                               *)
SignedAsDocumented ==
  \A header \in Headers :
    /\ \A s \in Signatures(header) : s = Signature(s.hmac, s.hex)
    /\ \A body \in Bodies :
         SignedBy(header, body) # {} => Timestamp(header) = Time("digits", 0)

(* An SDK accepts what is signed, in a case it knows, and fresh.           *)
LEMMA VerifyMeans ==
  ASSUME SignedAsDocumented, NEW sdk \in Sdks, NEW header \in Headers,
         NEW body \in Bodies, NEW offset \in Offsets
  PROVE  Verify(sdk, header, body, "secret", offset) <=>
           /\ SignedBy(header, body) # {}
           /\ sdk = "python" => "lower" \in SignedBy(header, body)
           /\ Fresh(offset) \/ (sdk # "go" /\ OnTheEdge(offset))
<1> DEFINE signed == SignedBy(header, body)
           signature(hex) == Signature(Hmac("secret", Timestamp(header), body), hex)
<1>1. \A hex \in {"lower", "upper"} :
        hex \in signed <=> signature(hex) \in Signatures(header)
  BY DEF SignedBy
<1>2. (\E s \in Signatures(header) :
         /\ s.hex \in HexTexts(sdk)
         /\ s.hmac = Hmac("secret", Timestamp(header), body))
        <=> \E hex \in HexTexts(sdk) : hex \in signed
  <2>1. \A hex : signature(hex).hex = hex
                 /\ signature(hex).hmac = Hmac("secret", Timestamp(header), body)
    BY DEF Signature
  <2>2. \A s \in Signatures(header) : s = Signature(s.hmac, s.hex)
    BY DEF SignedAsDocumented
  <2>3. HexTexts(sdk) \subseteq {"lower", "upper"}
    BY DEF HexTexts
  <2> HIDE DEF signed
  <2> QED
    BY <1>1, <2>1, <2>2, <2>3
<1>3. (\E hex \in HexTexts(sdk) : hex \in signed)
        <=> signed # {} /\ (sdk = "python" => "lower" \in signed)
  BY DEF HexTexts, SignedBy
<1>4. signed # {} => Timestamp(header).text = "digits" /\ Timestamp(header).second = 0
  BY DEF SignedAsDocumented, Time
<1>5. offset \in Int /\ "secret" # Absent
  BY DEF Absent
<1> HIDE DEF signed, signature
<1> QED
  BY <1>2, <1>3, <1>4, <1>5, AgeWithin DEF Verify, signed

(* The three SDKs give one verdict on every header, body and time, but for *)
(* the last second of the tolerance and signatures in capitals: nothing    *)
(* that the endpoint's secret did not sign is accepted by any of them.     *)
THEOREM OneVerdict == SignedAsDocumented /\ Spec => []VerdictsAgree
<1>1. Init => VerdictsAgree
  BY DEF Init, VerdictsAgree
<1>2. SignedAsDocumented /\ VerdictsAgree /\ [Next]_vars => VerdictsAgree'
  <2> SUFFICES ASSUME SignedAsDocumented, VerdictsAgree, [Next]_vars
               PROVE  VerdictsAgree'
    OBVIOUS
  <2>1. CASE \E a \in Attempts : Arrive(a[1], a[2])
    <3>1. PICK header \in Headers, body \in Bodies, offset \in Offsets :
            arrival' = [signed |-> SignedBy(header, body), offset |-> offset,
                        accepted |-> {sdk \in Sdks :
                          Verify(sdk, header, body, "secret", offset)}]
      BY <2>1 DEF Arrive, Construct
    <3> QED
      BY <3>1, VerifyMeans DEF VerdictsAgree
  <2>2. CASE arrival' = NoArrival \/ UNCHANGED arrival
    BY <2>2 DEF VerdictsAgree
  <2> QED
    BY <2>1, <2>2 DEF Next, vars, Quiet, Happen, Send, AttemptFails, Work,
       Enqueue, EnqueueFails, Answer, OtherDelivery, Reenable, Crash
<1>3. SignedAsDocumented => []SignedAsDocumented
  <2>1. SignedAsDocumented => SignedAsDocumented'
    BY DEF SignedAsDocumented
  <2> QED
    BY <2>1, PTL
<1> QED
  BY <1>1, <1>2, <1>3, PTL DEF Spec
=============================================================================

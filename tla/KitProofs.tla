------------------------------ MODULE KitProofs ------------------------------
(***************************************************************************)
(* The safety properties of Kit, for every set of documents AOA may        *)
(* publish, any operations, parameters and options of callers, and runs of *)
(* the generator that fail or are interrupted anywhere.                    *)
(*                                                                         *)
(* What a green CI means and what is released depend on what the generator *)
(* compared, which is over by then: IInv adds what a run holds in memory   *)
(* and what a check that passed has seen.  That the calls of a released    *)
(* package arrive is then a fact about CollectOperation, ParamsDeclaration *)
(* and BuildRequest: ReadBack.                                             *)
(***************************************************************************)
EXTENDS Kit, TLAPS

Pcs == {"idle", "spec", "snapshot", "generate", "output"}
Exits == {"none", "ok", "failed"}

GeneratorType ==
  generator \in [pc : Pcs, mode : Modes,
                 spec : DOMAIN Documents \union {None}, exit : Exits]

(* A check has the snapshot in memory, and only a run that is no check     *)
(* writes, what can be generated.                                          *)
RunSound ==
  /\ generator.pc = "generate" /\ ~Fetches(generator.mode) =>
       snapshot = generator.spec /\ snapshot \in DOMAIN Documents
  /\ generator.pc = "output" =>
       ~Checks(generator.mode) /\ ~Refuses[generator.spec]

(* A check that passed saw the files that are there now.                   *)
CheckSound ==
  generator.pc = "idle" /\ generator.mode = "check" /\ generator.exit = "ok" =>
    /\ snapshot \in DOMAIN Documents
    /\ ~Refuses[snapshot]
    /\ schemaTs = Module[snapshot]

IInv ==
  /\ TypeOK
  /\ GeneratorType
  /\ RunSound
  /\ CheckSound
  /\ released.snapshot \in DOMAIN Documents
  /\ ReleasedIsOfItsSnapshot

-----------------------------------------------------------------------------
USE DocumentsAssumption

LEMMA InitInv == Init => IInv
  BY DEF Init, Idle, IInv, TypeOK, GeneratorType, Pcs, Modes, Exits, RunSound,
     CheckSound, ReleasedIsOfItsSnapshot

(* AOA publishes, people port: the tree and the generator are as before.   *)
LEMMA PublishKeeps ==
  ASSUME IInv, NEW doc \in DOMAIN Documents, Publish(doc)
  PROVE  IInv'
  BY DEF Publish, tree, IInv, TypeOK, GeneratorType, RunSound, CheckSound,
     ReleasedIsOfItsSnapshot

LEMMA PortKeeps ==
  ASSUME IInv, NEW p \in Ports, PortOperations(p)
  PROVE  IInv'
  BY DEF PortOperations, IInv, TypeOK, GeneratorType, RunSound, CheckSound,
     ReleasedIsOfItsSnapshot

LEMMA StartKeeps ==
  ASSUME IInv, NEW mode \in Modes, Start(mode)
  PROVE  IInv'
  BY DEF Start, tree, IInv, TypeOK, GeneratorType, Pcs, Exits, RunSound,
     CheckSound, ReleasedIsOfItsSnapshot

(* The run is over: with ok only after a comparison or a whole write.      *)
LEMMA FailKeeps ==
  ASSUME IInv, Exit("failed"), UNCHANGED <<live, publications, tree, released>>
  PROVE  IInv'
  BY DEF Exit, Idle, tree, IInv, TypeOK, GeneratorType, Pcs, Exits, RunSound,
     CheckSound, ReleasedIsOfItsSnapshot

LEMMA FetchKeeps ==
  ASSUME IInv, FetchSpec
  PROVE  IInv'
<1>1. CASE Exit("failed") /\ UNCHANGED snapshot
  BY <1>1, FailKeeps DEF FetchSpec, tree
<1>2. CASE /\ generator' = [generator EXCEPT !.pc = "snapshot", !.spec = live]
           /\ snapshot' = TornFile
  BY <1>2 DEF FetchSpec, IInv, TypeOK, GeneratorType, Pcs, RunSound,
     CheckSound, ReleasedIsOfItsSnapshot
<1> QED
  BY <1>1, <1>2 DEF FetchSpec

LEMMA WriteSnapshotKeeps ==
  ASSUME IInv, WriteSnapshot
  PROVE  IInv'
  BY DEF WriteSnapshot, IInv, TypeOK, GeneratorType, Pcs, RunSound, CheckSound,
     ReleasedIsOfItsSnapshot

LEMMA ReadSnapshotKeeps ==
  ASSUME IInv, ReadSnapshot
  PROVE  IInv'
<1>1. CASE snapshot = TornFile
  BY <1>1, FailKeeps DEF ReadSnapshot
<1>2. CASE snapshot # TornFile
  BY <1>2 DEF ReadSnapshot, tree, IInv, TypeOK, GeneratorType, Pcs, RunSound,
     CheckSound, ReleasedIsOfItsSnapshot
<1> QED
  BY <1>1, <1>2

LEMMA CompareKeeps ==
  ASSUME IInv, Compare
  PROVE  IInv'
<1>1. CASE schemaTs = Module[generator.spec]
  BY <1>1 DEF Compare, Checks, Fetches, Exit, Idle, tree, IInv, TypeOK,
     GeneratorType, Pcs, Exits, RunSound, CheckSound, ReleasedIsOfItsSnapshot
<1>2. CASE schemaTs # Module[generator.spec]
  BY <1>2, FailKeeps DEF Compare
<1> QED
  BY <1>1, <1>2

LEMMA OutputKeeps ==
  ASSUME IInv, OpenOutput \/ WriteOutput
  PROVE  IInv'
<1>1. CASE OpenOutput
  BY <1>1 DEF OpenOutput, IInv, TypeOK, GeneratorType, Pcs, RunSound,
     CheckSound, ReleasedIsOfItsSnapshot
<1>2. CASE WriteOutput
  BY <1>2 DEF WriteOutput, Checks, Exit, Idle, IInv, TypeOK, GeneratorType, Pcs, Exits,
     RunSound, CheckSound, ReleasedIsOfItsSnapshot
<1> QED
  BY <1>1, <1>2

(* npm publish takes what npm test has just passed.                        *)
LEMMA ReleaseKeeps ==
  ASSUME IInv, Release
  PROVE  IInv'
<1>1. /\ snapshot \in DOMAIN Documents /\ ~Refuses[snapshot]
      /\ schemaTs = Module[snapshot]
  BY DEF Release, NpmTest, IInv, CheckSound
<1> QED
  BY <1>1 DEF Release, tree, IInv, TypeOK, GeneratorType, RunSound, CheckSound,
     ReleasedIsOfItsSnapshot

LEMMA InvStep == IInv /\ [Next]_vars => IInv'
<1> SUFFICES ASSUME IInv, [Next]_vars
             PROVE  IInv'
  OBVIOUS
<1>1. CASE GenerationFails \/ Interrupt
  BY <1>1, FailKeeps DEF GenerationFails, Interrupt
<1>2. CASE UNCHANGED vars
  BY <1>2 DEF vars, IInv, TypeOK, GeneratorType, RunSound, CheckSound,
     ReleasedIsOfItsSnapshot
<1> QED
  BY <1>1, <1>2, PublishKeeps, PortKeeps, StartKeeps, FetchKeeps,
     WriteSnapshotKeeps, ReadSnapshotKeeps, CompareKeeps, OutputKeeps,
     ReleaseKeeps DEF Next

LEMMA Invariance == Spec => []IInv
  BY InitInv, InvStep, PTL DEF Spec

(* The files, the run in memory and what it holds fit together wherever    *)
(* the generator is interrupted.                                           *)
THEOREM TypeCorrect == Spec => []TypeOK
<1>1. IInv => TypeOK
  BY DEF IInv
<1> QED
  BY <1>1, Invariance, PTL

(* What is on npm is what the generator makes of the snapshot it was       *)
(* released with, after any failures, interruptions and other fetches.     *)
THEOREM ReleasesAreGenerated == Spec => []ReleasedIsOfItsSnapshot
<1>1. IInv => ReleasedIsOfItsSnapshot
  BY DEF IInv
<1> QED
  BY <1>1, Invariance, PTL

-----------------------------------------------------------------------------
(* The generator's tables                                                  *)

(* A patch changes nothing but a body.                                     *)
LEMMA PatchKeeps ==
  ASSUME NEW doc \in DOMAIN Documents, NEW id \in DOMAIN Documents[doc]
  PROVE  LET op == Patched(Documents[doc])[id]
             given == Documents[doc][id]
         IN /\ op.path = given.path
            /\ PathNames(op) = PathNames(given)
            /\ RequiresAuth(op) = RequiresAuth(given)
            /\ IdempotencyKey(op) = IdempotencyKey(given)
<1> DEFINE op == Patched(Documents[doc])[id]
           given == Documents[doc][id]
<1>1. DOMAIN given = OperationFields
  OBVIOUS
<1>2. op = given \/ op = [given EXCEPT !.body = UpdateWebhookBody]
  BY DEF Patched
<1>3. /\ op.path = given.path /\ op.security = given.security
      /\ op.shared = given.shared /\ op.own = given.own
  BY <1>1, <1>2 DEF OperationFields
<1> HIDE DEF op, given
<1>4. Parameters(op) = Parameters(given)
  BY <1>3 DEF Parameters
<1>5. PathNames(op) = PathNames(given)
  BY <1>4 DEF PathNames, Names, ParametersIn
<1>6. RequiresAuth(op) = RequiresAuth(given)
  BY <1>3 DEF RequiresAuth
<1>7. IdempotencyKey(op) = IdempotencyKey(given)
  BY <1>4 DEF IdempotencyKey, ParametersIn
<1> QED
  BY <1>3, <1>5, <1>6, <1>7 DEF op, given

(* Each row and each type is made of the operation of its name.            *)
LEMMA ModuleRows ==
  ASSUME NEW doc \in DOMAIN Documents, NEW id \in DOMAIN Module[doc].table
  PROVE  LET op == Patched(Documents[doc])[id] IN
           /\ id \in DOMAIN Documents[doc]
           /\ id \in DOMAIN Module[doc].params
           /\ Module[doc].table[id] = CollectOperation(op)
           /\ Module[doc].params[id] = ParamsDeclaration(op)
           /\ ~Refuses[doc] => ~FlatParams(op).clash
<1> DEFINE patched == Patched(Documents[doc])
           ids == Generated(patched)
<1>1. /\ Module[doc].table = [i \in ids |-> CollectOperation(patched[i])]
      /\ Module[doc].params = [i \in ids |-> ParamsDeclaration(patched[i])]
  BY DEF Module, GenerateSchemaModule
<1>2. id \in ids
  BY <1>1
<1>3. id \in DOMAIN Documents[doc]
  BY <1>2 DEF Generated, Patched
<1> QED
  BY <1>1, <1>2, <1>3 DEF Refuses, Refused

(* The types declare the path params, which are required, the query params *)
(* and what goes into the body.                                            *)
LEMMA DeclaredNames ==
  ASSUME NEW op
  PROVE  LET types == ParamsDeclaration(op) IN
           /\ AllNames(types) = PathNames(op) \union QueryNames(op)
                                   \union BodyParams(op.body)
           /\ PathNames(op) \subseteq types.required
           /\ types.required \subseteq AllNames(types)
<1> DEFINE query == {i \in ParametersIn(op, "query") : Parameters(op)[i].required}
           body == CASE BodyMode(op.body) = "flat" ->
                          op.body.required \intersect op.body.fields
                     [] BodyMode(op.body) = "wrapped" /\ op.body.mandatory -> {"body"}
                     [] OTHER -> {}
           required == PathNames(op) \union Names(op, query) \union body
           names == PathNames(op) \union QueryNames(op) \union BodyParams(op.body)
<1>1. FlatParams(op).names = names
  BY DEF FlatParams, PathNames, QueryNames, Names
<1>2. Names(op, query) \subseteq QueryNames(op)
  BY DEF QueryNames, Names
<1>3. body \subseteq BodyParams(op.body)
  BY DEF BodyParams
<1>4. ParamsDeclaration(op) = Declaration(required, FlatParams(op).names \ required)
  BY DEF ParamsDeclaration
<1> HIDE DEF query, body, names
<1> QED
  BY <1>1, <1>2, <1>3, <1>4 DEF names, Declaration, AllNames

(* What the generator accepts gives every param one place.                 *)
LEMMA OnePlace ==
  ASSUME NEW op, ~FlatParams(op).clash
  PROVE  /\ PathNames(op) \intersect QueryNames(op) = {}
         /\ PathNames(op) \intersect BodyParams(op.body) = {}
         /\ QueryNames(op) \intersect BodyParams(op.body) = {}
<1> DEFINE path == ParametersIn(op, "path")
           query == ParametersIn(op, "query")
<1>1. /\ \A i, j \in path \union query :
            Parameters(op)[i].name = Parameters(op)[j].name => i = j
      /\ Names(op, path \union query) \intersect BodyParams(op.body) = {}
  BY DEF FlatParams
<1>2. path \intersect query = {}
  BY DEF ParametersIn
<1> HIDE DEF path, query
<1>3. Names(op, path) \intersect Names(op, query) = {}
  BY <1>1, <1>2 DEF Names
<1>4. Names(op, path \union query) = Names(op, path) \union Names(op, query)
  BY DEF Names
<1> QED
  BY <1>1, <1>3, <1>4 DEF path, query, PathNames, QueryNames

-----------------------------------------------------------------------------
(* What "validate-kit.mjs fails until all three cover the spec" is worth:  *)
(* after npm test and the coverage check the table is what the document    *)
(* says of every operation, and each port has it, under its path or with   *)
(* that path at another's method.                                          *)
THEOREM GreenMeansCovered == Spec => []GreenIsCovered
<1>1. IInv => GreenIsCovered
  <2> SUFFICES ASSUME IInv, NpmTest, CheckSdkCoverage,
                      NEW id \in DOMAIN Documents[snapshot]
               PROVE  LET op == Patched(Documents[snapshot])[id] IN
                        /\ schemaTs.table[id] = CollectOperation(op)
                        /\ \A p \in Ports : PortHas(p, id, op.path)
    BY DEF GreenIsCovered, Green
  <2> DEFINE op == Patched(Documents[snapshot])[id]
  <2>1. snapshot \in DOMAIN Documents /\ schemaTs = Module[snapshot]
    BY DEF NpmTest, IInv, CheckSound
  <2>2. id \in DOMAIN Module[snapshot].table
    BY DEF NpmTest, TestsPass
  <2>3. schemaTs.table[id] = CollectOperation(op)
    BY <2>1, <2>2, ModuleRows
  <2>4. op.path = Documents[snapshot][id].path
    BY <2>1, PatchKeeps
  <2>5. ASSUME NEW p \in Ports
        PROVE  PortHas(p, id, op.path)
    <3>1. /\ id \in DOMAIN port[p]
          /\ Documents[snapshot][id].path \in Range(port[p])
      BY DEF CheckSdkCoverage
    <3>2. PICK other \in DOMAIN port[p] :
            port[p][other] = Documents[snapshot][id].path
      BY <3>1 DEF Range
    <3> QED
      BY <2>4, <3>1, <3>2 DEF PortHas
  <2> QED
    BY <2>3, <2>5
<1> QED
  BY <1>1, Invariance, PTL

-----------------------------------------------------------------------------
(* Calls of the released package                                           *)

(* A caller gives what a type requires, and only what some type declares.  *)
LEMMA VariedNames ==
  ASSUME NEW names, NEW required \in SUBSET names, NEW spec,
         NEW params \in Variations([n \in names |-> <<n>>], required, spec)
  PROVE  required \subseteq DOMAIN params /\ DOMAIN params \subseteq names
<1> DEFINE all == [n \in names |-> <<n>>]
<1>1. \/ params = all
      \/ params = Restrict(all, required)
      \/ \E n \in spec.pathParams, value \in {<<>>, <<Null>>, <<Blank>>} :
           params = [all EXCEPT ![n] = value]
      \/ \E n \in spec.queryParams : params = [all EXCEPT ![n] = <<n, Blank>>]
      \/ params = [n \in DOMAIN all |->
                     IF n \in spec.pathParams THEN all[n] ELSE <<Null>>]
  BY DEF Variations
<1>2. DOMAIN all = names
  OBVIOUS
<1> HIDE DEF all
<1>3. DOMAIN params = names \/ DOMAIN params = required
  BY <1>1, <1>2 DEF Restrict
<1> QED
  BY <1>3

LEMMA ArgumentNames ==
  ASSUME NEW id, NEW params \in Arguments(id)
  PROVE  LET types == released.schema.params[id] IN
           /\ DOMAIN params \subseteq
                AllNames(types) \union AllNames(Declared(live, id))
           /\ types.required \subseteq DOMAIN params
<1> DEFINE types == released.schema.params[id]
           names == AllNames(types) \union AllNames(Declared(live, id))
<1>1. params \in Variations([n \in names |-> <<n>>], types.required,
                           released.schema.table[id])
  BY DEF Arguments
<1>2. types.required \subseteq names
  BY DEF AllNames
<1> HIDE DEF names, types
<1>3. /\ types.required \subseteq DOMAIN params
      /\ DOMAIN params \subseteq names
  BY <1>1, <1>2, VariedNames
<1> QED
  BY <1>3 DEF names, types

(* Where buildRequest puts a param that is given, and in the query is no   *)
(* null.                                                                   *)
LEMMA BuiltParts ==
  ASSUME NEW spec, NEW params
  PROVE  LET request == BuildRequest(spec, params)
             rest == DOMAIN params \ spec.pathParams
             left == rest \ spec.queryParams
             body == CASE spec.body = "flat" -> left
                       [] spec.body = "wrapped" -> left \intersect {"body"}
                       [] OTHER -> {}
             Part(f, names) == DOMAIN f = names /\ \A n \in names : f[n] = params[n]
         IN /\ Part(request.segments, {n \in spec.pathParams : Given(params, n)})
            /\ Part(request.query, {n \in rest \ body : Valued(params, n)})
            /\ Part(request.body.fields, {n \in body : Given(params, n)})
            /\ request.body.kind =
                 IF spec.body = "wrapped" /\ ~Given(params, "body")
                   THEN "none" ELSE spec.body
            /\ request.path = spec.path
<1> DEFINE request == BuildRequest(spec, params)
           rest == DOMAIN params \ spec.pathParams
           left == rest \ spec.queryParams
           body == CASE spec.body = "flat" -> left
                     [] spec.body = "wrapped" -> left \intersect {"body"}
                     [] OTHER -> {}
           given(names) == {n \in names : Given(params, n)}
           valued(names) == {n \in names : Valued(params, n)}
<1>1. /\ request.segments = Restrict(params, given(spec.pathParams))
      /\ request.query =
           Restrict(params, valued(rest \ (IF spec.body = "flat" THEN left ELSE body)))
      /\ request.body = Payload(IF spec.body = "wrapped" /\ ~Given(params, "body")
                                  THEN "none" ELSE spec.body,
                                Restrict(params, given(body)))
      /\ request.path = spec.path
  BY DEF BuildRequest
<1>2. (IF spec.body = "flat" THEN left ELSE body) = body
  OBVIOUS
<1> HIDE DEF request, rest, left, body
<1> QED
  BY <1>1, <1>2 DEF Payload, Restrict, request, rest, left, body

(* A server whose operation the client's table describes reads what the    *)
(* caller gave: each param from its one place, where no path param is      *)
(* missing.                                                                *)
LEMMA ReadBack ==
  ASSUME NEW op, ~FlatParams(op).clash,
         NEW params, DOMAIN params \subseteq AllNames(ParamsDeclaration(op)),
         \A n \in PathNames(op) : Valued(params, n)
  PROVE  Read(op, BuildRequest(CollectOperation(op), params))
           = WhatIsGiven(op, params)
<1> DEFINE P == PathNames(op)
           Q == QueryNames(op)
           B == BodyParams(op.body)
           spec == CollectOperation(op)
           request == BuildRequest(spec, params)
           rest == DOMAIN params \ spec.pathParams
           left == rest \ spec.queryParams
           body == CASE spec.body = "flat" -> left
                     [] spec.body = "wrapped" -> left \intersect {"body"}
                     [] OTHER -> {}
           G(names) == {n \in names : Given(params, n)}
           V(names) == {n \in names : Valued(params, n)}
           inBody == IF request.body.kind = BodyMode(op.body) THEN B ELSE {}
<1>1. /\ spec.pathParams = P /\ spec.queryParams = Q
      /\ spec.body = BodyMode(op.body)
  BY DEF CollectOperation, OperationSpec
<1>2. /\ DOMAIN request.segments = G(P)
      /\ \A n \in G(P) : request.segments[n] = params[n]
      /\ DOMAIN request.query = V(rest \ body)
      /\ \A n \in V(rest \ body) : request.query[n] = params[n]
      /\ DOMAIN request.body.fields = G(body)
      /\ \A n \in G(body) : request.body.fields[n] = params[n]
      /\ request.body.kind = IF spec.body = "wrapped" /\ ~Given(params, "body")
                               THEN "none" ELSE spec.body
  <2> HIDE DEF spec
  <2>1. spec.pathParams = P
    BY <1>1
  <2> QED
    BY <2>1, BuiltParts
<1>3. /\ P \intersect Q = {} /\ P \intersect B = {} /\ Q \intersect B = {}
      /\ DOMAIN params \subseteq P \union Q \union B
  BY OnePlace, DeclaredNames
<1>4. /\ BodyMode(op.body) = "none" => B = {}
      /\ BodyMode(op.body) = "wrapped" => B = {"body"}
      /\ BodyMode(op.body) \in {"none", "flat", "wrapped"}
  BY DEF BodyParams, BodyMode
<1>5. left = DOMAIN params \intersect B
  BY <1>1, <1>3
<1>6. body = left /\ left = DOMAIN params \intersect B
  BY <1>1, <1>5, <1>4
<1>7. G(inBody) = G(body)
  BY <1>1, <1>2, <1>6, <1>4 DEF Given
<1>8. V(rest \ body) = V(Q)
  BY <1>1, <1>3, <1>6 DEF Valued, Given
<1> HIDE DEF P, Q, B, spec, request, rest, left, body
<1>9. {n \in DOMAIN params : IF n \in B THEN Given(params, n) ELSE Valued(params, n)}
        = G(P) \union V(Q) \union G(body)
  <2>1. \A n \in P : Valued(params, n)
    BY DEF P
  <2>2. G(P) = P /\ P \subseteq DOMAIN params
    BY <2>1 DEF Valued, Given
  <2> QED
    BY <1>3, <1>6, <2>1, <2>2 DEF Valued, Given
<1>10. Read(op, request) =
        Restrict(request.segments, P \intersect DOMAIN request.segments)
          \uplus Restrict(request.query, Q \intersect DOMAIN request.query)
          \uplus Restrict(request.body.fields, inBody \intersect DOMAIN request.body.fields)
  BY DEF Read, Those, P, Q, B
<1>11. G(P) \subseteq P /\ V(Q) \subseteq Q /\ G(inBody) \subseteq inBody
  OBVIOUS
<1>12. /\ Restrict(request.segments, P \intersect DOMAIN request.segments)
           = Restrict(params, G(P))
      /\ Restrict(request.query, Q \intersect DOMAIN request.query)
           = Restrict(params, V(Q))
      /\ Restrict(request.body.fields, inBody \intersect DOMAIN request.body.fields)
           = Restrict(params, G(body))
  BY <1>2, <1>7, <1>8, <1>11 DEF Restrict
<1>13. WhatIsGiven(op, params) = Restrict(params, G(P) \union V(Q) \union G(body))
  BY <1>9 DEF WhatIsGiven, B
<1> HIDE DEF inBody, G, V
<1>14. Restrict(params, G(P)) \uplus Restrict(params, V(Q))
          \uplus Restrict(params, G(body))
        = Restrict(params, G(P) \union V(Q) \union G(body))
  BY DEF Restrict, \uplus
<1> QED
  BY <1>10, <1>12, <1>13, <1>14 DEF request, spec

(* The head of request: the keys an operation asks for are sent.           *)
LEMMA KeysAreSent ==
  ASSUME NEW spec, NEW body, NEW options
  PROVE  LET headers == DOMAIN Headers(spec, body, options) IN
           /\ options.apiKey \notin {None, Blank} => "Authorization" \in headers
           /\ spec.idempotencyKey = "required" /\ options.idempotencyKey # Blank =>
                "Idempotency-Key" \in headers
<1>1. ASSUME NEW name, NEW value, value \notin {None, Blank}
      PROVE  name \in DOMAIN Header(name, value)
  BY <1>1 DEF Header
<1>2. spec.idempotencyKey = "required" /\ options.idempotencyKey # Blank =>
        KeyToSend(spec, options.idempotencyKey) \notin {None, Blank}
  BY DEF KeyToSend, NeedsNewKey, None, Blank
<1>3. \A f, g : DOMAIN (f \uplus g) = DOMAIN f \union DOMAIN g
  BY DEF \uplus
<1>4. /\ DOMAIN Header("Authorization", options.apiKey)
           \subseteq DOMAIN Headers(spec, body, options)
      /\ DOMAIN Header("Idempotency-Key", KeyToSend(spec, options.idempotencyKey))
           \subseteq DOMAIN Headers(spec, body, options)
  <2> DEFINE auth == Header("Authorization", options.apiKey)
             key == Header("Idempotency-Key", KeyToSend(spec, options.idempotencyKey))
             type == Header("Content-Type",
                            IF body.kind = "none" THEN None ELSE "application/json")
  <2>1. Headers(spec, body, options)
          = ((options.headers \uplus auth) \uplus key) \uplus type
    BY DEF Headers
  <2> HIDE DEF auth, key, type
  <2>2. DOMAIN (((options.headers \uplus auth) \uplus key) \uplus type)
          = ((DOMAIN options.headers \union DOMAIN auth) \union DOMAIN key)
              \union DOMAIN type
    <3>1. DOMAIN (((options.headers \uplus auth) \uplus key) \uplus type)
            = DOMAIN ((options.headers \uplus auth) \uplus key) \union DOMAIN type
      BY <1>3, Zenon
    <3>2. DOMAIN ((options.headers \uplus auth) \uplus key)
            = DOMAIN (options.headers \uplus auth) \union DOMAIN key
      BY <1>3, Zenon
    <3>3. DOMAIN (options.headers \uplus auth)
            = DOMAIN options.headers \union DOMAIN auth
      BY <1>3, Zenon
    <3> QED
      BY <3>1, <3>2, <3>3
  <2> QED
    BY <2>1, <2>2 DEF auth, key
<1> QED
  BY <1>1, <1>2, <1>4

(* request refuses a call or sends what buildRequest makes of it.          *)
LEMMA Requested ==
  ASSUME NEW table, NEW id \in DOMAIN table, NEW params, NEW options
  PROVE  LET spec == table[id]
             built == BuildRequest(spec, params)
             request == Request(table, id, params, options)
         IN /\ Sent(request) <=>
                 /\ spec.requiresAuth => options.apiKey \notin {None, Blank}
                 /\ ~MissingPathParam(spec, params)
                 /\ NeedsNewKey(spec, options.idempotencyKey) => options.crypto
            /\ Sent(request) =>
                 /\ request.method = spec.method /\ request.path = spec.path
                 /\ request.segments = built.segments
                 /\ request.query = built.query /\ request.body = built.body
                 /\ request.headers = Headers(spec, built.body, options)
<1> DEFINE spec == table[id]
           built == BuildRequest(spec, params)
           request == Request(table, id, params, options)
           whole == [method |-> spec.method, path |-> built.path,
                     segments |-> built.segments, query |-> built.query,
                     body |-> built.body,
                     headers |-> Headers(spec, built.body, options)]
           keyless == spec.requiresAuth /\ options.apiKey \in {None, Blank}
           unmade == NeedsNewKey(spec, options.idempotencyKey) /\ ~options.crypto
<1>1. request = IF keyless THEN Refusal("needs a partner API key")
                ELSE IF MissingPathParam(spec, params) THEN Refusal("is required")
                ELSE IF unmade THEN Refusal("crypto.randomUUID is unavailable")
                ELSE whole
  BY DEF Request
<1>2. \A why : ~Sent(Refusal(why))
  BY DEF Sent, Refusal
<1>3. Sent(whole)
  BY DEF Sent
<1>4. built.path = spec.path
  BY BuiltParts
<1>5. /\ whole.method = spec.method /\ whole.path = built.path
      /\ whole.segments = built.segments /\ whole.query = built.query
      /\ whole.body = built.body
      /\ whole.headers = Headers(spec, built.body, options)
  OBVIOUS
<1> HIDE DEF whole, built, request, keyless, unmade
<1>6. Sent(request) <=> ~keyless /\ ~MissingPathParam(spec, params) /\ ~unmade
  BY <1>1, <1>2, <1>3
<1>7. Sent(request) => request = whole
  BY <1>1, <1>6
<1> QED
  BY <1>4, <1>5, <1>6, <1>7 DEF built, request, keyless, unmade

(* While AOA serves the document the package was generated from, a call    *)
(* its types allow reaches its operation with all the caller gave, in the  *)
(* place the server reads it from, and with the keys that are asked for;   *)
(* and a call without a path param or key is refused: for every document   *)
(* the generator accepts.                                                  *)
THEOREM CallsArrive == Spec => []CallsReachServer
<1>1. IInv => CallsReachServer
  <2> SUFFICES
        ASSUME IInv, released.snapshot = live,
               NEW id \in CalledIds \intersect DOMAIN Module[live].table,
               NEW params \in Arguments(id), NEW options \in Options
        PROVE  LET op == Patched(Documents[live])[id]
                   request == Request(released.schema.table, id, params, options)
               IN IF ~MaySend(id, params, options) THEN ~Sent(request)
                  ELSE /\ Sent(request)
                       /\ request.method = Verb[op.method] /\ request.path = op.path
                       /\ Read(op, request) = WhatIsGiven(op, params)
                       /\ RequiresAuth(op) => "Authorization" \in DOMAIN request.headers
                       /\ IdempotencyKey(op) = "required"
                             /\ options.idempotencyKey # Blank =>
                            "Idempotency-Key" \in DOMAIN request.headers
    BY DEF CallsReachServer
  <2> DEFINE op == Patched(Documents[live])[id]
             table == released.schema.table
             spec == table[id]
             built == BuildRequest(spec, params)
             request == Request(table, id, params, options)
  <2>1. /\ live \in DOMAIN Documents
        /\ released.schema = Module[live] /\ ~Refuses[live]
    BY DEF IInv, ReleasedIsOfItsSnapshot
  <2>2. /\ id \in DOMAIN table /\ id \in DOMAIN Documents[live]
        /\ spec = CollectOperation(op)
        /\ released.schema.params[id] = ParamsDeclaration(op)
        /\ Declared(live, id) = ParamsDeclaration(op)
        /\ ~FlatParams(op).clash
    BY <2>1, ModuleRows DEF Declared
  <2>3. /\ PathNames(op) = PathNames(Documents[live][id])
        /\ RequiresAuth(op) = RequiresAuth(Documents[live][id])
        /\ IdempotencyKey(op) = IdempotencyKey(Documents[live][id])
    BY <2>1, <2>2, PatchKeeps
  <2>4. /\ DOMAIN params \subseteq AllNames(ParamsDeclaration(op))
        /\ ParamsDeclaration(op).required \subseteq DOMAIN params
    BY <2>2, ArgumentNames
  <2>5. /\ spec.pathParams = PathNames(op) /\ spec.requiresAuth = RequiresAuth(op)
        /\ spec.idempotencyKey = IdempotencyKey(op)
        /\ spec.method = Verb[op.method] /\ spec.path = op.path
    BY <2>2 DEF CollectOperation, OperationSpec
  <2>6. (\A n \in PathNames(op) : Valued(params, n)) =>
          Read(op, built) = WhatIsGiven(op, params)
    BY <2>2, <2>4, ReadBack
  <2> HIDE DEF op, spec, table
  <2>7. /\ Sent(request) <=>
             /\ spec.requiresAuth => options.apiKey \notin {None, Blank}
             /\ ~MissingPathParam(spec, params)
             /\ NeedsNewKey(spec, options.idempotencyKey) => options.crypto
        /\ Sent(request) =>
             /\ request.method = spec.method /\ request.path = spec.path
             /\ request.segments = built.segments
             /\ request.query = built.query /\ request.body = built.body
             /\ request.headers = Headers(spec, built.body, options)
    BY <2>2, Requested DEF spec
  <2>8. MaySend(id, params, options) <=> Sent(request)
    <3>1. MaySend(id, params, options) <=>
            /\ \A n \in PathNames(op) : Valued(params, n) /\ params[n] # <<Blank>>
            /\ RequiresAuth(op) => options.apiKey \notin {None, Blank}
            /\ IdempotencyKey(op) = "required" =>
                 options.idempotencyKey # None \/ options.crypto
      BY <2>2, <2>3, <2>4 DEF MaySend
    <3> QED
      BY <2>5, <2>7, <3>1 DEF MissingPathParam, NeedsNewKey
  <2>9. CASE Sent(request)
    <3>1. Read(op, request) = Read(op, built)
      BY <2>7, <2>9 DEF Read
    <3>2. request.method = Verb[op.method] /\ request.path = op.path
      BY <2>5, <2>7, <2>9
    <3>3. RequiresAuth(op) => "Authorization" \in DOMAIN request.headers
      BY <2>5, <2>7, <2>9, KeysAreSent
    <3>4. IdempotencyKey(op) = "required" /\ options.idempotencyKey # Blank =>
            "Idempotency-Key" \in DOMAIN request.headers
      BY <2>5, <2>7, <2>9, KeysAreSent
    <3>5. Read(op, built) = WhatIsGiven(op, params)
      BY <2>5, <2>6, <2>7, <2>9 DEF MissingPathParam
    <3> QED
      BY <2>8, <2>9, <3>1, <3>2, <3>3, <3>4, <3>5 DEF op, table
  <2> QED
    BY <2>8, <2>9 DEF op, table
<1> QED
  BY <1>1, Invariance, PTL

(* Of what a server reads, where each param comes from.                    *)
LEMMA ReadFrom ==
  ASSUME NEW op, NEW request
  PROVE  DOMAIN Read(op, request) =
           (PathNames(op) \intersect DOMAIN request.segments)
             \union (QueryNames(op) \intersect DOMAIN request.query)
             \union ((IF request.body.kind = BodyMode(op.body) THEN BodyParams(op.body)
                                                             ELSE {})
                       \intersect DOMAIN request.body.fields)
<1>1. \A f, g : DOMAIN (f \uplus g) = DOMAIN f \union DOMAIN g
  BY DEF \uplus
<1>2. \A f, names : DOMAIN Those(f, names) = names \intersect DOMAIN f
  BY DEF Those, Restrict
<1> DEFINE segments == Those(request.segments, PathNames(op))
           query == Those(request.query, QueryNames(op))
           fields == Those(request.body.fields,
                           IF request.body.kind = BodyMode(op.body)
                             THEN BodyParams(op.body) ELSE {})
<1>3. Read(op, request) = (segments \uplus query) \uplus fields
  BY DEF Read
<1> HIDE DEF segments, query, fields
<1>4. DOMAIN ((segments \uplus query) \uplus fields)
        = DOMAIN (segments \uplus query) \union DOMAIN fields
  BY <1>1, Zenon
<1>5. DOMAIN (segments \uplus query) = DOMAIN segments \union DOMAIN query
  BY <1>1, Zenon
<1> QED
  BY <1>2, <1>3, <1>4, <1>5 DEF segments, query, fields

(* The comment of buildRequest, made exact: a parameter of a newer         *)
(* document works with an older package if it is of the query of an        *)
(* operation without a body, or a field of a body that was flat before.    *)
THEOREM NewerArrive == Spec => []NewerParametersReach
<1>1. IInv => NewerParametersReach
  <2> SUFFICES
        ASSUME IInv,
               NEW id \in CalledIds \intersect DOMAIN Module[live].table
                                    \intersect DOMAIN released.schema.table,
               NEW params \in Arguments(id),
               Sent(Request(released.schema.table, id, params, KeyedOptions)),
               NEW n \in {x \in AllNames(Declared(live, id))
                                 \ AllNames(released.schema.params[id]) :
                            Valued(params, x)}
        PROVE  LET op == Patched(Documents[live])[id]
                   spec == released.schema.table[id]
                   request == Request(released.schema.table, id, params, KeyedOptions)
               IN n \in DOMAIN Read(op, request)
                    <=> IF spec.body = "flat"
                          THEN BodyMode(op.body) = "flat" /\ n \in op.body.fields
                          ELSE n \in QueryNames(op)
    BY DEF NewerParametersReach
  <2> DEFINE op == Patched(Documents[live])[id]
             older == Patched(Documents[released.snapshot])[id]
             table == released.schema.table
             spec == table[id]
             built == BuildRequest(spec, params)
             request == Request(table, id, params, KeyedOptions)
             rest == DOMAIN params \ spec.pathParams
             left == rest \ spec.queryParams
             body == CASE spec.body = "flat" -> left
                       [] spec.body = "wrapped" -> left \intersect {"body"}
                       [] OTHER -> {}
  <2>1. /\ live \in DOMAIN Documents /\ released.snapshot \in DOMAIN Documents
        /\ released.schema = Module[released.snapshot]
    BY DEF IInv, TypeOK, ReleasedIsOfItsSnapshot
  <2>2. /\ id \in DOMAIN table
        /\ spec = CollectOperation(older)
        /\ released.schema.params[id] = ParamsDeclaration(older)
        /\ Declared(live, id) = ParamsDeclaration(op)
    BY <2>1, ModuleRows DEF Declared
  <2>3. /\ spec.pathParams = PathNames(older) /\ spec.queryParams = QueryNames(older)
        /\ spec.body = BodyMode(older.body)
    BY <2>2 DEF CollectOperation, OperationSpec
  <2> HIDE DEF op, older, spec, table
  <2>4. n \notin PathNames(older) /\ n \notin QueryNames(older)
        /\ n \notin BodyParams(older.body)
    BY <2>2, DeclaredNames
  <2>5. Given(params, n) /\ Valued(params, n) /\ n \in DOMAIN params
    BY DEF Valued, Given
  <2>6. /\ request.segments = built.segments /\ request.query = built.query
        /\ request.body = built.body
    BY <2>2, Requested DEF spec, table
  <2>7. /\ n \in DOMAIN built.segments <=> n \in spec.pathParams
        /\ n \in DOMAIN built.query <=> n \in rest \ body
        /\ n \in DOMAIN built.body.fields <=> n \in body
        /\ spec.body # "wrapped" => built.body.kind = spec.body
    BY <2>5, BuiltParts
  <2>8. n \in left
    BY <2>3, <2>4, <2>5
  <2>9. /\ spec.body = "flat" => n \in body
        /\ spec.body # "flat" => n \notin body
    <3>1. spec.body = "wrapped" => n # "body"
      BY <2>3, <2>4 DEF BodyParams
    <3> QED
      BY <2>8, <3>1
  <2> HIDE DEF built, request, rest, left, body
  <2>10. n \in DOMAIN Read(op, request)
          <=> \/ n \in QueryNames(op) /\ n \in DOMAIN built.query
              \/ /\ built.body.kind = BodyMode(op.body) /\ n \in BodyParams(op.body)
                 /\ n \in DOMAIN built.body.fields
    <3> DEFINE names == IF request.body.kind = BodyMode(op.body) THEN BodyParams(op.body)
                                                              ELSE {}
    <3>1. DOMAIN Read(op, request) =
            (PathNames(op) \intersect DOMAIN request.segments)
              \union (QueryNames(op) \intersect DOMAIN request.query)
              \union (names \intersect DOMAIN request.body.fields)
      BY ReadFrom
    <3>2. n \in names <=> /\ built.body.kind = BodyMode(op.body)
                          /\ n \in BodyParams(op.body)
      BY <2>6
    <3> HIDE DEF names
    <3> QED
      BY <2>3, <2>4, <2>6, <2>7, <3>1, <3>2
  <2>11. CASE spec.body = "flat"
    <3>1. BodyMode(op.body) = "flat" => BodyParams(op.body) = op.body.fields
      BY DEF BodyParams
    <3> QED
      BY <2>7, <2>9, <2>10, <2>11, <3>1 DEF op, spec, table, request, rest
  <2>12. CASE spec.body # "flat"
    BY <2>7, <2>8, <2>9, <2>10, <2>12 DEF op, spec, table, request, left
  <2> QED
    BY <2>11, <2>12
<1> QED
  BY <1>1, Invariance, PTL
=============================================================================

--------------------------------- MODULE Kit ---------------------------------
(***************************************************************************)
(* How the kit follows AOA's OpenAPI document: AOA publishes one after     *)
(* another; generate-types.mjs fetches it, writes openapi.snapshot.json    *)
(* and src/generated/schema.ts; people port it to Go and Python; CI runs   *)
(* validate-kit.mjs and npm test; npm publish releases what npm test       *)
(* passed; and applications call AOA with what was released last, whatever *)
(* document AOA serves by then.                                            *)
(*                                                                         *)
(* generator.pc: idle; spec (about to fetch or read the document),         *)
(* snapshot (writing that file), generate, output (writing schema.ts).     *)
(* writeFile empties a file before it fills it.                            *)
(***************************************************************************)
EXTENDS OpenApiSnapshot, ClientRequests

CONSTANTS
  Documents,       \* what AOA may publish, by name; "repository" is Snapshot
  Ports,           \* the SDKs written by hand: Go and Python
  MaxPublications, \* a bound of the model
  CalledIds,       \* the operations applications call
  Options          \* the apiKey, idempotencyKey, headers they give, their crypto

Module == [doc \in DOMAIN Documents |-> GenerateSchemaModule(Documents[doc])]
Refuses == [doc \in DOMAIN Documents |-> Refused(Documents[doc])]

(* The commit passes its own generate:check.                               *)
ASSUME DocumentsAssumption ==
  /\ "repository" \in DOMAIN Documents
  /\ Documents["repository"] = Snapshot
  /\ ~Refuses["repository"]
  /\ Module["repository"] = GeneratedSchema
  /\ \A doc \in DOMAIN Documents : \A id \in DOMAIN Documents[doc] :
       DOMAIN Documents[doc][id] = OperationFields
  /\ MaxPublications \in Nat

Modes == {"generate", "fetch", "check", "fetch check"}
Fetches(mode) == mode \in {"fetch", "fetch check"}
Checks(mode) == mode \in {"check", "fetch check"}

VARIABLES
  live,         \* the document AOA serves
  publications,
  snapshot,     \* openapi.snapshot.json
  schemaTs,     \* src/generated/schema.ts
  port,         \* the path in each method of operations.go and client.py
  generator,    \* the run of generate-types.mjs: where it is, its mode, the
                \* document in memory, its exit status when it is over
  released      \* the package on npm, and the snapshot it was made from

vars == <<live, publications, snapshot, schemaTs, port, generator, released>>
tree == <<snapshot, schemaTs, port>>

TornFile == "torn"  \* a snapshot that was emptied and not filled
Torn == [torn |-> TRUE]  \* and a schema.ts
Idle(mode, exit) == [pc |-> "idle", mode |-> mode, spec |-> None, exit |-> exit]

MethodsOf(doc) == [id \in DOMAIN Module[doc].table |-> Documents[doc][id].path]

Init ==
  /\ live = "repository"
  /\ publications = 0
  /\ snapshot = "repository"
  /\ schemaTs = GeneratedSchema
  /\ port = [p \in Ports |-> MethodsOf("repository")]
  /\ generator = Idle("generate", "none")
  /\ released = [schema |-> GeneratedSchema, snapshot |-> "repository"]

(* AOA (external)                                                          *)
Publish(doc) ==
  /\ publications < MaxPublications
  /\ publications' = publications + 1
  /\ live' = doc
  /\ UNCHANGED <<tree, generator, released>>

-----------------------------------------------------------------------------
(* generate-types.mjs                                                      *)

(* Mutant: the document of the run is kept.                                *)
ExitKeeping(status) == generator' = [generator EXCEPT !.pc = "idle", !.exit = status]

Exit(status) == generator' = Idle(generator.mode, status)

Start(mode) ==
  /\ generator.pc = "idle"
  /\ generator' = [pc |-> "spec", mode |-> mode, spec |-> None, exit |-> "none"]
  /\ UNCHANGED <<live, publications, tree, released>>

(* fetchSpec throws on a status that is not 2xx; otherwise the snapshot is *)
(* opened for writing.                                                     *)
FetchSpec ==
  /\ generator.pc = "spec" /\ Fetches(generator.mode)
  /\ \/ Exit("failed") /\ UNCHANGED snapshot
     \/ /\ generator' = [generator EXCEPT !.pc = "snapshot", !.spec = live]
        /\ snapshot' = TornFile
  /\ UNCHANGED <<live, publications, schemaTs, port, released>>

WriteSnapshot ==
  /\ generator.pc = "snapshot"
  /\ snapshot' = generator.spec
  /\ generator' = [generator EXCEPT !.pc = "generate"]
  /\ UNCHANGED <<live, publications, schemaTs, port, released>>

(* JSON.parse throws on a torn snapshot.                                   *)
ReadSnapshot ==
  /\ generator.pc = "spec" /\ ~Fetches(generator.mode)
  /\ IF snapshot = TornFile THEN Exit("failed")
     ELSE generator' = [generator EXCEPT !.pc = "generate", !.spec = snapshot]
  /\ UNCHANGED <<live, publications, tree, released>>

(* Mutant: --check looks whether the file is there.                        *)
CompareLoosely ==
  /\ generator.pc = "generate" /\ ~Refuses[generator.spec]
  /\ Checks(generator.mode)
  /\ Exit(IF schemaTs = Torn THEN "failed" ELSE "ok")
  /\ UNCHANGED <<live, publications, tree, released>>

Compare ==
  /\ generator.pc = "generate" /\ ~Refuses[generator.spec]
  /\ Checks(generator.mode)
  /\ Exit(IF schemaTs = Module[generator.spec] THEN "ok" ELSE "failed")
  /\ UNCHANGED <<live, publications, tree, released>>

GenerationFails ==
  /\ generator.pc = "generate" /\ Refuses[generator.spec]
  /\ Exit("failed")
  /\ UNCHANGED <<live, publications, tree, released>>

OpenOutput ==
  /\ generator.pc = "generate" /\ ~Refuses[generator.spec]
  /\ ~Checks(generator.mode)
  /\ generator' = [generator EXCEPT !.pc = "output"]
  /\ schemaTs' = Torn
  /\ UNCHANGED <<live, publications, snapshot, port, released>>

WriteOutput ==
  /\ generator.pc = "output"
  /\ schemaTs' = Module[generator.spec]
  /\ Exit("ok")
  /\ UNCHANGED <<live, publications, snapshot, port, released>>

(* Interrupted: what is written stays.                                     *)
Interrupt ==
  /\ generator.pc # "idle"
  /\ Exit("failed")
  /\ UNCHANGED <<live, publications, tree, released>>

-----------------------------------------------------------------------------
(* People, CI and npm                                                      *)

(* A method for every operation of the snapshot (external).                *)
PortOperations(p) ==
  /\ snapshot # TornFile
  /\ port' = [port EXCEPT ![p] = MethodsOf(snapshot) \uplus @]
  /\ UNCHANGED <<live, publications, snapshot, schemaTs, generator, released>>

(* Mutant: the method is looked for and the path is not.                   *)
ChecksMethods ==
  /\ snapshot # TornFile /\ schemaTs # Torn
  /\ \A id \in DOMAIN Documents[snapshot] :
       id \in DOMAIN schemaTs.table /\ \A p \in Ports : id \in DOMAIN port[p]

(* checkSdkCoverage: of every operation, of HTTP_METHODS or not, a method  *)
(* of its name, and its path somewhere in the file.                        *)
CheckSdkCoverage ==
  /\ snapshot # TornFile /\ schemaTs # Torn
  /\ \A id \in DOMAIN Documents[snapshot] :
       /\ id \in DOMAIN schemaTs.table
       /\ \A p \in Ports : /\ id \in DOMAIN port[p]
                           /\ Documents[snapshot][id].path \in Range(port[p])

(* The test 'emits a method and a table row for every operation'.          *)
TestsPass == DOMAIN Module[snapshot].table = DOMAIN Documents[snapshot]

(* npm test: generate:check, then the tests.                               *)
NpmTest ==
  /\ generator.pc = "idle" /\ generator.mode = "check" /\ generator.exit = "ok"
  /\ TestsPass

(* npm publish runs npm test first.  Whoever publishes leaves the tree     *)
(* alone until the package is made: test and package are one step.         *)
Release ==
  /\ NpmTest
  /\ released' = [schema |-> schemaTs, snapshot |-> snapshot]
  /\ UNCHANGED <<live, publications, tree, generator>>

Next ==
  \/ \E doc \in DOMAIN Documents : Publish(doc)
  \/ \E mode \in Modes : Start(mode)
  \/ FetchSpec \/ WriteSnapshot \/ ReadSnapshot
  \/ Compare \/ GenerationFails \/ OpenOutput \/ WriteOutput \/ Interrupt
  \/ \E p \in Ports : PortOperations(p)
  \/ Release

Spec == Init /\ [][Next]_vars

-----------------------------------------------------------------------------
(* Applications on the released package.  A caller may give all there is,  *)
(* what is required, an array, a path param that is undefined, null or     *)
(* empty, null for all the others.                                         *)
Declared(doc, id) ==
  IF id \in DOMAIN Module[doc].params THEN Module[doc].params[id]
                                      ELSE Declaration({}, {})
AllNames(declaration) == declaration.required \union declaration.optional
Variations(all, required, spec) ==
  {all, Restrict(all, required)}
    \union {[all EXCEPT ![n] = value] :
              n \in spec.pathParams, value \in {<<>>, <<Null>>, <<Blank>>}}
    \union {[all EXCEPT ![n] = <<n, Blank>>] : n \in spec.queryParams}
    \union {[n \in DOMAIN all |-> IF n \in spec.pathParams THEN all[n] ELSE <<Null>>]}
Arguments(id) ==
  LET types == released.schema.params[id]
      names == AllNames(types) \union AllNames(Declared(live, id))
  IN Variations([n \in names |-> <<n>>], types.required, released.schema.table[id])

(* A file is torn while it is written or after an interruption, and holds  *)
(* something whole otherwise; a run that is over holds nothing.            *)
TypeOK ==
  /\ live \in DOMAIN Documents /\ publications \in 0 .. MaxPublications
  /\ snapshot \in DOMAIN Documents \union {TornFile}
  /\ schemaTs = Torn \/ \E doc \in DOMAIN Documents : schemaTs = Module[doc]
  /\ generator.pc = "snapshot" => snapshot = TornFile
  /\ generator.pc = "output" => schemaTs = Torn
  /\ generator.mode \in Modes /\ generator.exit \in {"none", "ok", "failed"}
  /\ IF generator.pc \in {"idle", "spec"} THEN generator.spec = None
                                          ELSE generator.spec \in DOMAIN Documents

(* Whatever run was interrupted, failed half way or fetched another        *)
(* document, the package on npm is what its own snapshot generates.        *)
ReleasedIsOfItsSnapshot ==
  /\ ~Refuses[released.snapshot]
  /\ released.schema = Module[released.snapshot]

(* While AOA serves the document the package was generated from, a call    *)
(* the types allow is sent, to the operation's own path, and the server    *)
(* reads there what the caller gave, all of it and nothing else (a null    *)
(* outside the body is nothing), with the key and the idempotency key the  *)
(* operation asks for.  An empty path param never turns it into a call of  *)
(* another operation, and no call of an operation that requires a key is   *)
(* sent without one where none can be made.                                *)
Sent(request) == "refused" \notin DOMAIN request
Those(f, names) == Restrict(f, names \intersect DOMAIN f)
Read(op, request) ==
  Those(request.segments, PathNames(op))
    \uplus Those(request.query, QueryNames(op))
    \uplus Those(request.body.fields, IF request.body.kind = BodyMode(op.body)
                                         THEN BodyParams(op.body) ELSE {})
WhatIsGiven(op, params) ==
  Restrict(params, {n \in DOMAIN params :
    IF n \in BodyParams(op.body) THEN Given(params, n) ELSE Valued(params, n)})
MaySend(id, params, options) ==
  LET op == Documents[live][id] IN
    /\ Declared(live, id).required \subseteq DOMAIN params
    /\ \A n \in PathNames(op) :
         Valued(params, n) /\ params[n] # <<Blank>>
    /\ RequiresAuth(op) => options.apiKey \notin {None, Blank}
    /\ IdempotencyKey(op) = "required" =>
         options.idempotencyKey # None \/ options.crypto
CallsReachServer ==
  released.snapshot = live =>
    \A id \in CalledIds \intersect DOMAIN Module[live].table :
      \A params \in Arguments(id), options \in Options :
        LET op == Patched(Documents[live])[id]
            request == Request(released.schema.table, id, params, options)
        IN IF ~MaySend(id, params, options) THEN ~Sent(request)
           ELSE /\ Sent(request)
                /\ request.method = Verb[op.method] /\ request.path = op.path
                /\ Read(op, request) = WhatIsGiven(op, params)
                /\ RequiresAuth(op) => "Authorization" \in DOMAIN request.headers
                /\ IdempotencyKey(op) = "required"
                      /\ options.idempotencyKey # Blank =>
                     "Idempotency-Key" \in DOMAIN request.headers

(* "A newer server parameter then works before the spec snapshot catches   *)
(* up": a query parameter of an operation that has no body, a field of one *)
(* that has one.  The others (a query parameter next to a body, a field of *)
(* a body that is new itself) do not arrive.                               *)
KeyedOptions == [apiKey |-> "key", idempotencyKey |-> None, headers |-> <<>>,
                 crypto |-> TRUE]
NewerParametersReach ==
  \A id \in CalledIds \intersect DOMAIN Module[live].table
                     \intersect DOMAIN released.schema.table :
    \A params \in Arguments(id) :
      LET op == Patched(Documents[live])[id]
          spec == released.schema.table[id]
          request == Request(released.schema.table, id, params, KeyedOptions)
          newer == {n \in AllNames(Declared(live, id))
                            \ AllNames(released.schema.params[id]) : Valued(params, n)}
      IN Sent(request) /\ op.path = spec.path =>
           \A n \in newer :
             n \in DOMAIN Read(op, request)
               <=> IF spec.body = "flat"
                     THEN BodyMode(op.body) = "flat" /\ n \in op.body.fields
                     ELSE n \in QueryNames(op)

(* "validate-kit.mjs fails until all three cover the spec": once CI is     *)
(* green, whatever runs came before, the package's table is the document's *)
(* and every port has every operation, under its path unless that path is  *)
(* in the file for another operation's sake.                               *)
Green == NpmTest /\ CheckSdkCoverage
PortHas(p, id, path) ==
  /\ id \in DOMAIN port[p]
  /\ port[p][id] # path =>
       \E other \in DOMAIN port[p] \ {id} : port[p][other] = path
GreenIsCovered ==
  Green =>
    \A id \in DOMAIN Documents[snapshot] :
      LET op == Patched(Documents[snapshot])[id] IN
        /\ schemaTs.table[id] = CollectOperation(op)
        /\ \A p \in Ports : PortHas(p, id, op.path)
=============================================================================

---------------------------- MODULE TypeGenerator ----------------------------
(***************************************************************************)
(* sdk/typescript/scripts/generate-types.mjs: from an OpenAPI document to  *)
(* the module src/generated/schema.ts.                                     *)
(*                                                                         *)
(* A document is a function from operationId to an operation:              *)
(*   method, path   as the document spells them                            *)
(*   shared, own    parameters of the path item, and its own: a sequence   *)
(*                  of [name, in, required]                                *)
(*   body           form   none | object | ref (to an object) | other      *)
(*                  fields, required   of its JSON schema                  *)
(*                  mandatory          requestBody.required                *)
(*   security       <<>> when the operation says nothing, or the one       *)
(*                  element set of its alternatives, each a set of schemes *)
(*   response       the schema of its 2xx reply (SchemaTypes)              *)
(*   refs           resolved, or broken: a $ref of a parameter, its body   *)
(*                  or a 2xx reply leads nowhere, or one inside a schema   *)
(*                  to what is no schema of the components                 *)
(***************************************************************************)
EXTENDS Sequences, FiniteSetsExt, Schemas

CONSTANT SpecSecurity  \* what the document says where an operation does not

OperationFields ==
  {"method", "path", "shared", "own", "body", "security", "response", "refs"}

(* A key of a path item and its toUpperCase().                             *)
Verb == [get |-> "GET", post |-> "POST", put |-> "PUT", patch |-> "PATCH",
         delete |-> "DELETE"]
HTTP_METHODS == DOMAIN Verb

Parameters(op) == op.shared \o op.own
ParametersIn(op, place) ==
  {i \in DOMAIN Parameters(op) : Parameters(op)[i].in = place}
Names(op, positions) == {Parameters(op)[i].name : i \in positions}
PathNames(op) == Names(op, ParametersIn(op, "path"))
QueryNames(op) == Names(op, ParametersIn(op, "query"))

-----------------------------------------------------------------------------
(* SPEC_PATCHES: an older document gives updateWebhook no body.            *)
UpdateWebhookBody == [form |-> "object", fields |-> {"isActive", "events"},
                      required |-> {}, mandatory |-> TRUE]
Patched(doc) ==
  [id \in DOMAIN doc |->
     IF id = "updateWebhook" /\ doc[id].body.form = "none"
       THEN [doc[id] EXCEPT !.body = UpdateWebhookBody] ELSE doc[id]]

(* isPlainObjectSchema asks for at least one property.                     *)
BodyMode(body) ==
  CASE body.form = "none" -> "none"
    [] body.form \in {"object", "ref"} /\ body.fields # {} -> "flat"
    [] OTHER -> "wrapped"

(* The first header of that name counts, however it is spelt: these are    *)
(* the spellings in use of what toLowerCase() makes one.                   *)
IdempotencyKeySpellings == {"Idempotency-Key", "idempotency-key", "IDEMPOTENCY-KEY"}
IdempotencyKey(op) ==
  LET keys == {i \in ParametersIn(op, "header") :
                 Parameters(op)[i].name \in IdempotencyKeySpellings}
  IN IF keys = {} THEN "none"
     ELSE IF Parameters(op)[Min(keys)].required THEN "required" ELSE "optional"

(* No alternative that asks for nothing.                                   *)
RequiresAuth(op) ==
  LET security == IF op.security = <<>> THEN SpecSecurity ELSE op.security[1]
  IN security # {} /\ {} \notin security

(* A row of OPERATIONS.                                                    *)
OperationSpec(method, path, pathParams, queryParams, body, key, auth) ==
  [method |-> method, path |-> path, pathParams |-> pathParams,
   queryParams |-> queryParams, body |-> body, idempotencyKey |-> key,
   requiresAuth |-> auth]

CollectOperation(op) ==
  OperationSpec(Verb[op.method], op.path, PathNames(op), QueryNames(op),
                BodyMode(op.body), IdempotencyKey(op), RequiresAuth(op))

-----------------------------------------------------------------------------
(* Path, query and body fields in one object.                              *)
BodyParams(body) ==
  CASE BodyMode(body) = "flat" -> body.fields
    [] BodyMode(body) = "wrapped" -> {"body"}
    [] OTHER -> {}

FlatParams(op) ==
  LET placed == ParametersIn(op, "path") \union ParametersIn(op, "query")
  IN [names |-> Names(op, placed) \union BodyParams(op.body),
      clash |-> \/ \E i, j \in placed :
                     i # j /\ Parameters(op)[i].name = Parameters(op)[j].name
                \/ Names(op, placed) \intersect BodyParams(op.body) # {}]

Declaration(required, optional) == [required |-> required, optional |-> optional]

ParamsDeclaration(op) ==
  LET query == {i \in ParametersIn(op, "query") : Parameters(op)[i].required}
      body == CASE BodyMode(op.body) = "flat" ->
                     op.body.required \intersect op.body.fields
                [] BodyMode(op.body) = "wrapped" /\ op.body.mandatory -> {"body"}
                [] OTHER -> {}
      required == PathNames(op) \union Names(op, query) \union body
  IN Declaration(required, FlatParams(op).names \ required)

-----------------------------------------------------------------------------
Generated(doc) == {id \in DOMAIN doc : doc[id].method \in HTTP_METHODS}

(* What the script throws on, once the patches are applied.                *)
Refused(inputSpec) ==
  LET doc == Patched(inputSpec) IN
    \/ Generated(doc) = {}
    \/ \E id \in Generated(doc) :
         doc[id].refs = "broken" \/ FlatParams(doc[id]).clash

(* response holds the schemas that TsType prints.                          *)
GenerateSchemaModule(inputSpec) ==
  LET doc == Patched(inputSpec) IN
    [table |-> [id \in Generated(doc) |-> CollectOperation(doc[id])],
     params |-> [id \in Generated(doc) |-> ParamsDeclaration(doc[id])],
     response |-> [id \in Generated(doc) |->
                     RequireEnvelopeData(doc[id].response)]]
=============================================================================

--------------------------- MODULE ClientRequests ---------------------------
(***************************************************************************)
(* What the TypeScript client makes of a call before it sends anything:    *)
(* createAoaClient's options, buildRequest and the head of request.        *)
(*                                                                         *)
(* Params are a function from the names the caller gave to the items of    *)
(* their values: <<>> is undefined, <<Null>> null, <<Blank>> the empty     *)
(* string, two items an array.  A request keeps the template of its path   *)
(* and what replaced each of its names, encoded by encodeURIComponent.     *)
(* options.crypto: the runtime has crypto.randomUUID.                      *)
(***************************************************************************)
EXTENDS Functions, Sequences

(* f, and g where f says nothing.                                          *)
f \uplus g ==
  [x \in DOMAIN f \union DOMAIN g |-> IF x \in DOMAIN f THEN f[x] ELSE g[x]]

None == "none"
Null == "null"
Blank == ""

Given(params, name) == name \in DOMAIN params /\ params[name] # <<>>
Valued(params, name) == Given(params, name) /\ params[name] # <<Null>>

Payload(kind, fields) == [kind |-> kind, fields |-> fields]

(* Mutant: what the table does not declare is dropped.                     *)
BuildDeclared(spec, params) ==
  LET Those(names) == Restrict(params, {n \in names : Given(params, n)})
      body == IF spec.body = "none" THEN {}
              ELSE DOMAIN params \ (spec.pathParams \union spec.queryParams)
  IN [path |-> spec.path, segments |-> Those(spec.pathParams),
      query |-> Those(spec.queryParams \intersect DOMAIN params),
      body |-> Payload(spec.body, Those(body))]

(* Declared path and query params go where the table says, what is left    *)
(* into the body where there is one, into the query where there is none.   *)
(* null stands in a body, and is nothing in a query.                       *)
BuildRequest(spec, params) ==
  LET rest == DOMAIN params \ spec.pathParams
      left == rest \ spec.queryParams
      body == CASE spec.body = "flat" -> left
                [] spec.body = "wrapped" -> left \intersect {"body"}
                [] OTHER -> {}
      Those(names) == Restrict(params, {n \in names : Given(params, n)})
  IN [path |-> spec.path,
      segments |-> Those(spec.pathParams),
      query |-> Restrict(params,
                  {n \in rest \ (IF spec.body = "flat" THEN left ELSE body) :
                     Valued(params, n)}),
      body |-> Payload(IF spec.body = "wrapped" /\ ~Given(params, "body")
                         THEN "none" ELSE spec.body, Those(body))]

(* Mutant: the empty string is a value like any other.                     *)
UndefinedPathParam(spec, params) ==
  \E n \in spec.pathParams : ~Given(params, n)

MissingPathParam(spec, params) ==
  \E n \in spec.pathParams : ~Valued(params, n) \/ params[n] = <<Blank>>

-----------------------------------------------------------------------------
(* options.apiKey ?? (AOA_API_KEY || undefined)                            *)
ApiKey(option, environment) == IF option # None THEN option ELSE environment

Header(name, value) == [n \in IF value \in {None, Blank} THEN {} ELSE {name} |-> value]

(* requestOptions.idempotencyKey ?? a UUID where one is required, for      *)
(* which newIdempotencyKey asks the runtime.                               *)
NeedsNewKey(spec, option) == option = None /\ spec.idempotencyKey = "required"
KeyToSend(spec, option) == IF NeedsNewKey(spec, option) THEN "uuid" ELSE option

(* Later headers replace earlier ones: Accept and User-Agent are left out. *)
Headers(spec, body, options) ==
  options.headers
        \uplus Header("Authorization", options.apiKey)
        \uplus Header("Idempotency-Key", KeyToSend(spec, options.idempotencyKey))
        \uplus Header("Content-Type",
                  IF body.kind = "none" THEN None ELSE "application/json")

Refusal(why) == [refused |-> why]

(* table is OPERATIONS of the module the client was released with.         *)
Request(table, id, params, options) ==
  IF id \notin DOMAIN table THEN Refusal("Unknown operation")
  ELSE LET spec == table[id]
           request == BuildRequest(spec, params)
       IN IF spec.requiresAuth /\ options.apiKey \in {None, Blank}
            THEN Refusal("needs a partner API key")
          ELSE IF MissingPathParam(spec, params) THEN Refusal("is required")
          ELSE IF NeedsNewKey(spec, options.idempotencyKey) /\ ~options.crypto
            THEN Refusal("crypto.randomUUID is unavailable")
          ELSE [method |-> spec.method, path |-> request.path,
                segments |-> request.segments, query |-> request.query,
                body |-> request.body,
                headers |-> Headers(spec, request.body, options)]
=============================================================================

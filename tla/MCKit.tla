-------------------------------- MODULE MCKit --------------------------------
(* A small instance of Kit for TLC: what AOA may publish next to the       *)
(* document in the repository, and schemas with values to try on them.     *)
EXTENDS KitReplies, TLC

CONSTANTS go, python
PortSymmetry == Permutations({go, python})

(* JSON values and schemas                                                 *)
JsonNull == [null |-> TRUE]
Text(s) == [string |-> s]
Whole == [number |-> "whole"]
Half == [number |-> "fraction"]
Array(items) == [array |-> items]
Object(fields) == [object |-> fields]

OneType(name) == [type |-> {name}]
Nullable(name) == [type |-> {name, "null"}]
Closed == [false |-> TRUE]
Price == [type |-> {"object"}, properties |-> [p |-> OneType("integer")],
          required |-> {"p"}]
ApiComponents == [price |-> Price]
P == [ref |-> "price"]

ReplySchemas == [
  anything    |-> NoProperties,
  count       |-> OneType("integer"),
  title       |-> Nullable("string"),
  flag        |-> [type |-> {"boolean"}, const |-> [boolean |-> TRUE]],
  status      |-> [type |-> {"string"}, enum |-> {Text("a"), Text("b")}],
  price       |-> P,
  ticket      |-> [allOf |-> <<P, [type |-> {"object"},
                                   properties |-> [q |-> Nullable("string")]]>>],
  either      |-> [anyOf |-> <<P, OneType("number")>>],
  prices      |-> [type |-> {"array"}, items |-> P],
  mixed       |-> OneType("array"),
  remaining   |-> [type |-> {"object"}, additionalProperties |-> OneType("integer")],
  extended    |-> [type |-> {"object"}, properties |-> [q |-> OneType("string")],
                   additionalProperties |-> OneType("number")],
  closed      |-> [type |-> {"object"}, additionalProperties |-> Closed],
  closedPrice |-> [type |-> {"object", "null"}, properties |-> [p |-> OneType("number")],
                   additionalProperties |-> Closed],
  unlisted    |-> [type |-> {"object"}, properties |-> [p |-> Nullable("integer")],
                   required |-> {"p", "q"}],
  untyped     |-> [properties |-> [p |-> OneType("integer")]] ]

ReplyValues == {
  JsonNull, Text("a"), Text("c"), Whole, Half, [boolean |-> TRUE], [boolean |-> FALSE],
  Array(<<>>), Array(<<Whole, Text("a")>>), Array(<<Object([p |-> Whole])>>),
  Object(NoProperties), Object([p |-> Whole]), Object([p |-> Half]),
  Object([p |-> JsonNull]), Object([q |-> Text("a")]), Object([q |-> Whole]),
  Object([p |-> Whole, q |-> JsonNull]), Object([p |-> Whole, q |-> Text("a")]),
  Object([p |-> Whole, q |-> Object([p |-> Whole])]) }

-----------------------------------------------------------------------------
Caller(option, environment, key, headers, crypto) ==
  [apiKey |-> ApiKey(option, environment), idempotencyKey |-> key,
   headers |-> headers, crypto |-> crypto]
CallerOptions == {
  Caller(None, None, None, <<>>, TRUE), Caller(Blank, "key", "mine", <<>>, TRUE),
  Caller(None, "key", None, [Authorization |-> "other"], TRUE),
  Caller("key", None, None, <<>>, FALSE), Caller("key", None, "mine", <<>>, FALSE),
  Caller("key", "key", Blank, <<>>, TRUE) }

-----------------------------------------------------------------------------
(* Edits of a document                                                     *)
With(doc, id, field, value) == [doc EXCEPT ![id] = [@ EXCEPT ![field] = value]]
Adding(doc, id, parameter) == [doc EXCEPT ![id].own = Append(@, parameter)]
OfForm(form) == [Snapshot.createTableReservation.body EXCEPT !.form = form]
ApiKeyOrNothing == <<{{}, {"ApiKeyAuth"}}>>
EndpointId == PathParams(<<"endpointId">>)
Thing == Open("get", "/things/{thingId}", PathParams(<<"thingId">>), NoBody)

PublishedDocuments == [
  repository |-> Snapshot,
  \* newer parameters: a query's, one next to a body, a body's, a body
  sort |-> With(Adding(Adding(Snapshot,
                 "searchEvents", Param("sort", "query", FALSE)),
                 "createTableReservation", Param("lang", "query", FALSE)),
                 "createTableReservation", "body",
                 Body(TableReservationFields, {"comment", "note"})),
  fields |-> With(Snapshot, "getEvent", "body", Body({"fields"}, {})),
  \* other shapes of a body
  allOf |-> With(Snapshot, "createTableReservation", "body", OfForm("other")),
  ref |-> With(With(Snapshot, "createTableReservation", "body", OfForm("ref")),
               "createTicketReservation", "security", ApiKeyOrNothing),
  older |-> With(With(Snapshot, "updateWebhook", "body", NoBody),
                 "updateWebhook", "path", "/hooks/{endpointId}"),
  \* keys
  keys |-> With(With(Snapshot, "createTicketReservation", "own",
                     HeaderParam("idempotency-key", TRUE)),
                "getEvent", "security", <<{{"ApiKeyAuth"}}>>),
  \* operations that are new, that HTTP_METHODS lacks, that change places
  thing |-> With(With([getThing |-> Thing] @@ Snapshot,
                      "updateWebhook", "own", <<>>),
                 "updateWebhook", "shared", EndpointId),
  head |-> [headEvents |-> Open("head", "/events", <<>>, NoBody)] @@ Snapshot,
  swapped |-> With(With(Snapshot,
                "getEvent", "path", Snapshot.getEventTicketTypes.path),
                "getEventTicketTypes", "path", Snapshot.getEvent.path),
  \* what cannot be generated
  nothing |-> [id \in {} |-> NoBody],
  repeated |-> With(Snapshot, "updateWebhook", "shared", EndpointId),
  clash |-> With(Snapshot, "updateWebhook", "body",
                 Body({}, {"isActive", "endpointId"})),
  broken |-> With(Snapshot, "updateWebhook", "refs", "broken"),
  replies |->
    [id \in DOMAIN ReplySchemas |->
       [Open("get", "/things", <<>>, NoBody) EXCEPT !.response =
          [type |-> {"object"}, properties |-> [data |-> ReplySchemas[id]]]]]
      @@ Snapshot ]
=============================================================================

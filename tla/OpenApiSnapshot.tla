--------------------------- MODULE OpenApiSnapshot ---------------------------
(***************************************************************************)
(* The two files the repository holds side by side, each written down from *)
(* itself: openapi.snapshot.json as a document of TypeGenerator, and what  *)
(* src/generated/schema.ts holds of it.                                    *)
(***************************************************************************)
EXTENDS TypeGenerator

Param(name, in, required) == [name |-> name, in |-> in, required |-> required]
PathParams(names) == [i \in DOMAIN names |-> Param(names[i], "path", TRUE)]
QueryParams(names) == [i \in DOMAIN names |-> Param(names[i], "query", FALSE)]
HeaderParam(name, required) == <<Param(name, "header", required)>>
Provider == HeaderParam("X-Agent-Provider", FALSE)
Key == HeaderParam("Idempotency-Key", TRUE)

NoBody == [form |-> "none", fields |-> {}, required |-> {}, mandatory |-> FALSE]
Body(required, optional) == [form |-> "object", fields |-> required \union optional,
                             required |-> required, mandatory |-> TRUE]
(* The schemas of the replies are left out: SchemaTypes is about them.     *)
AnyJson == NoProperties
Operation(method, path, parameters, body, security) ==
  [method |-> method, path |-> path, shared |-> <<>>, own |-> parameters,
   body |-> body, security |-> security, response |-> AnyJson,
   refs |-> "resolved"]
Open(method, path, parameters, body) ==
  Operation(method, path, parameters, body, <<>>)
Keyed(method, path, parameters, body) ==
  Operation(method, path, parameters, body, <<{{"ApiKeyAuth"}}>>)

TableReservationFields ==
  {"locationId", "date", "time", "partySize", "guest", "confirmedByUser"}

(* openapi.snapshot.json                                                   *)
Snapshot == [
  searchLocations |-> Open("get", "/locations",
    QueryParams(<<"query", "city", "bookable", "limit", "cursor">>), NoBody),
  getLocation |-> Open("get", "/locations/{locationId}",
    PathParams(<<"locationId">>), NoBody),
  getTableAvailability |-> Open("get", "/locations/{locationId}/availability",
    PathParams(<<"locationId">>) \o <<Param("date", "query", TRUE)>>, NoBody),
  searchEvents |-> Open("get", "/events",
    QueryParams(<<"category", "city", "limit", "cursor">>), NoBody),
  getEvent |-> Open("get", "/events/{eventId}", PathParams(<<"eventId">>), NoBody),
  getEventTicketTypes |-> Open("get", "/events/{eventId}/ticket-types",
    PathParams(<<"eventId">>), NoBody),
  getEventAvailability |-> Open("get", "/events/{eventId}/availability",
    PathParams(<<"eventId">>), NoBody),
  createTableReservation |-> Keyed("post", "/table-reservations", Key \o Provider,
    Body(TableReservationFields, {"comment"})),
  createTicketReservation |-> Keyed("post", "/reservations", Provider,
    Body({"eventId", "tickets"}, {})),
  createTicketCheckout |-> Keyed("post", "/checkout",
    Key \o HeaderParam("Prefer", FALSE) \o Provider,
    Body({"eventId", "tickets", "buyer"},
         {"couponCode", "referralCode", "reservationId"})),
  batchOperations |-> Open("post", "/batch", <<>>, Body({"operations"}, {})),
  listWebhooks |-> Keyed("get", "/webhooks", <<>>, NoBody),
  createWebhook |-> Keyed("post", "/webhooks", <<>>, Body({"url", "events"}, {})),
  updateWebhook |-> Keyed("patch", "/webhooks/{endpointId}",
    PathParams(<<"endpointId">>), Body({}, {"isActive", "events"})),
  deleteWebhook |-> Keyed("delete", "/webhooks/{endpointId}",
    PathParams(<<"endpointId">>), NoBody),
  getOrder |-> Keyed("get", "/orders/{paymentId}", PathParams(<<"paymentId">>),
    NoBody) ]

-----------------------------------------------------------------------------
(* src/generated/schema.ts                                                 *)
Get(path, pathParams, queryParams, auth) ==
  OperationSpec("GET", path, pathParams, queryParams, "none", "none", auth)
Post(path, key, auth) == OperationSpec("POST", path, {}, {}, "flat", key, auth)

OPERATIONS == [
  searchLocations |-> Get("/locations", {},
    {"query", "city", "bookable", "limit", "cursor"}, FALSE),
  getLocation |-> Get("/locations/{locationId}", {"locationId"}, {}, FALSE),
  getTableAvailability |-> Get("/locations/{locationId}/availability",
    {"locationId"}, {"date"}, FALSE),
  searchEvents |-> Get("/events", {}, {"category", "city", "limit", "cursor"}, FALSE),
  getEvent |-> Get("/events/{eventId}", {"eventId"}, {}, FALSE),
  getEventTicketTypes |-> Get("/events/{eventId}/ticket-types", {"eventId"}, {}, FALSE),
  getEventAvailability |-> Get("/events/{eventId}/availability", {"eventId"}, {}, FALSE),
  createTableReservation |-> Post("/table-reservations", "required", TRUE),
  createTicketReservation |-> Post("/reservations", "none", TRUE),
  createTicketCheckout |-> Post("/checkout", "required", TRUE),
  batchOperations |-> Post("/batch", "none", FALSE),
  listWebhooks |-> Get("/webhooks", {}, {}, TRUE),
  createWebhook |-> Post("/webhooks", "none", TRUE),
  updateWebhook |-> OperationSpec("PATCH", "/webhooks/{endpointId}",
    {"endpointId"}, {}, "flat", "none", TRUE),
  deleteWebhook |-> OperationSpec("DELETE", "/webhooks/{endpointId}",
    {"endpointId"}, {}, "none", "none", TRUE),
  getOrder |-> Get("/orders/{paymentId}", {"paymentId"}, {}, TRUE) ]

(* The ...Params types: what has no question mark, and what has one.       *)
ParamsTypes == [
  searchLocations |->
    Declaration({}, {"query", "city", "bookable", "limit", "cursor"}),
  getLocation |-> Declaration({"locationId"}, {}),
  getTableAvailability |-> Declaration({"locationId", "date"}, {}),
  searchEvents |-> Declaration({}, {"category", "city", "limit", "cursor"}),
  getEvent |-> Declaration({"eventId"}, {}),
  getEventTicketTypes |-> Declaration({"eventId"}, {}),
  getEventAvailability |-> Declaration({"eventId"}, {}),
  createTableReservation |-> Declaration({"locationId", "date", "time",
    "partySize", "guest", "confirmedByUser"}, {"comment"}),
  createTicketReservation |-> Declaration({"eventId", "tickets"}, {}),
  createTicketCheckout |-> Declaration({"eventId", "tickets", "buyer"},
    {"couponCode", "referralCode", "reservationId"}),
  batchOperations |-> Declaration({"operations"}, {}),
  listWebhooks |-> Declaration({}, {}),
  createWebhook |-> Declaration({"url", "events"}, {}),
  updateWebhook |-> Declaration({"endpointId"}, {"isActive", "events"}),
  deleteWebhook |-> Declaration({"endpointId"}, {}),
  getOrder |-> Declaration({"paymentId"}, {}) ]

GeneratedSchema == [table |-> OPERATIONS, params |-> ParamsTypes,
                    response |-> [id \in DOMAIN OPERATIONS |-> AnyJson]]
=============================================================================

# Formal models of the AOA agent kit

The kit (`src/`) is a set of agent skills and three SDKs of one REST API that books tables and
tickets: TypeScript (`sdk/typescript`), Go (`sdk/go`) and Python (`sdk/python`). The modules here
model what the SDKs do with time, failures, concurrency and retries, what they make of AOA's replies
and webhooks, and how the kit follows AOA's OpenAPI document. TLC checks them on small instances;
TLAPS proves nearly all safety results, the refinements among them, for every instance.

The question behind most of the project is the one a user of these SDKs pays for: **can a booking
or a payment happen twice, or happen although the caller was told that it did not?** The API
itself is not in the repository, so every answer is relative to what the SDKs rely on, which is
stated in one module (`AoaApi`). Around it stand three more: **do the three SDKs make the same of
the same reply? Is a webhook lost, forged or worked on twice? Does a call reach the server when the
document the SDK was generated from is not the one AOA serves?**

1. [Inventory](#1-inventory)
2. [Modules and how they correspond to the code](#2-modules-and-how-they-correspond-to-the-code)
3. [Properties](#3-properties)
4. [Runs, bounds and what they show](#4-runs-bounds-and-what-they-show)
5. [Fairness](#5-fairness)
6. [Proofs](#6-proofs)
7. [Where the code and its documentation disagree](#7-where-the-code-and-its-documentation-disagree)
8. [Assumptions and what is not modelled](#8-assumptions-and-what-is-not-modelled)
9. [Plan](#9-plan)

## 1. Inventory

### Clients

| | TypeScript | Go | Python |
|---|---|---|---|
| Code | `client.ts`, `options.ts` | `client.go`, `operations.go` | `client.py`, `transport.py` |
| State of a call | loop counter, key, `controller`, timer, caller's `AbortSignal` | attempt, key, `resp`, `context` | `attempt`, `request_headers`, socket |
| State of a client | `lastRateLimit` | `rateLimit` under `mu` | `_rate_limit` |
| Operations | `request`, `sendOnce`, `sleep`, `paginate`, one method per operation | `do`, `sleepContext`, one method per operation | `request`, `paginate`, `urllib_transport`, one method per operation |
| Concurrency | promises on one event loop | goroutines sharing a `*Client` | threads sharing an `AoaClient` |
| Talks to | `fetch`, timers, the caller's signal | `net/http`, `context`, `time.Timer` | `urllib`, `time.sleep` |

Hard behaviour: a request may be acted upon although the attempt that sent it timed out, was
aborted, lost its response or died with its process; a keyed request may be replayed on its way;
an abort, a timeout and an answer may race; a body may stall after its headers; a retry must not
leave before the wait a 429 asked for.

Correct means: one booking per purchase; what a call reports is true and stays true; nothing is
sent too early, or after an abort; every call ends.

### The other parts

| Component | State | Operations | Interacts with | Hard behaviour | Correct means |
|---|---|---|---|---|---|
| `paginate` (TypeScript, Python) | cursor, page counter, items not yet yielded | pull, leave the loop | its consumer, `request` | the consumer stops at any item; empty pages; repeated cursors; `maxPages` | every item once, and an end |
| Rate-limit headers (`rateLimit.ts`, `ratelimit.go`, `rate_limit.py`) | the client's last rate limit | `parseRateLimit` | the clients' retry loops | two header sets, a date or a number, numbers that do not fit | the three agree, no wait is shorter than asked, no result is lost to a header |
| Errors (`errors.ts`, `errors.go`, `errors.py`) | none | error from a response | the clients' callers | bodies that are not the documented envelope | the three report the same error |
| Webhook signatures (`webhooks.ts`, `webhooks.go`, `webhooks.py`) | none | verify, construct | the receiver's handler | several `v1`, the edge of the tolerance, two clocks | accepted exactly when signed and fresh, the same in all three |
| Webhook receiver (`skills/aoa-webhooks/SKILL.md`, README examples) | the receiver's store | handle a delivery, work on it | AOA's delivery queue | at-least-once delivery, late answers, handlers next to each other, a crash between reply and store | an acknowledged event is stored and handled once |
| Operation table and request building (`generated/schema.ts`, `client.ts`) | none | refuse, or build path, query, headers, body | the clients, the API | a table older than the API, empty path params, undeclared params | the server reads what the caller gave |
| Type generator (`generate-types.mjs`) | the snapshot and the generated file | `--fetch`, `--check`, generate | file system, AOA, CI, npm | a failure or interruption between two writes; documents it cannot take | what is released is what its snapshot generates; no type is too narrow |
| Kit validator (`scripts/validate-kit.mjs`) | none | coverage of the snapshot by the SDKs, text checks | file system, CI | coverage is judged by text | green means covered |
| Type declarations, manifests, skills, documents | none | none execute | | | |

Outside the repository: the AOA API and its webhook queue, the network and its proxies, the
language runtimes.

### How they interact

A method of an operation calls `request`/`do`, which refuses the call or sends one request per
attempt through the transport, parses the rate-limit headers of each response into the state of
the client, and returns, raises, or waits and tries again. `paginate` drives `request` page by
page at the pace of its consumer. The calls of one client share only that rate-limit state; what
really connects them is the API: two calls that carry the same `Idempotency-Key` are one purchase.

AOA's queue posts events to a receiver that verifies them with an SDK. The generator turns the
OpenAPI document into the snapshot and the operation table; people port it to Go and Python; the
validator and `npm test` stand between the tree and the registry, and the released table decides
what every call of the TypeScript client looks like.

## 2. Modules and how they correspond to the code

```
 BookingCalls              what an SDK promises about bookings (abstract)
      ^
 KeyedCalls                what the three have in common: one key, another request only after a 429
      ^  ImplementsBookingCalls
      |------------------+---------------------+
 TsBookings              |                     |
 TsClient             GoClient             PyClient        Pagination
      |                  |                     |
      +---------- SdkCalls (what calls share) -+
                         |
                      AoaApi  (API and network, external)

 RateLimitHeaders <- Responses         (the same replies through the three SDKs)
 WebhookSignature <- WebhookDelivery   (AOA's queue and a receiver)
 Schemas <- TypeGenerator <- OpenApiSnapshot <--+
                             ClientRequests <---+-- Kit <- KitReplies  (document to released package)
 Schemas <- SchemaTypes <----------------------------------+
```

| Module | Models |
|---|---|
| `AoaApi` | external: `requests` in flight, `responses` on their way, the `bookings` made |
| `SdkCalls` | how a call may be made, the request it sends, and which purchase a booking belongs to |
| `BookingCalls` | abstract specification: `status` of each call, `times` each purchase was booked |
| `TsClient`, `TsBookings` | `request`, `sendOnce`, `sleep` of `client.ts`; the mapping to `BookingCalls` |
| `GoClient` | `do`, `sleepContext`, `retryDelay` of `client.go`, `CreateTableReservation`'s check |
| `PyClient` | `request` of `client.py`, `urllib_transport` of `transport.py` |
| `Pagination` | `paginate` of both clients that have one |
| `RateLimitHeaders` | `parseRateLimit` and the retry delay of the three SDKs, as operators |
| `Responses` | calls of the three SDKs in lockstep, fed the same replies: results, errors, waits, known rate limit |
| `WebhookSignature` | `verifyWebhookSignature` of the three SDKs |
| `WebhookDelivery` | external: AOA's queue; a receiver as the skill writes it, around `WebhookSignature` |
| `Schemas` | `requireEnvelopeData`, and how schemas are written |
| `SchemaTypes` | `tsType` and `objectType`; JSON Schema validity and type membership as reference |
| `TypeGenerator` | `collectOperations`, `paramsDeclaration`, `generateSchemaModule` |
| `OpenApiSnapshot` | `openapi.snapshot.json` and `generated/schema.ts`, each written down from itself |
| `ClientRequests` | `buildRequest` and the head of `request` |
| `Kit` | `main` of the generator, `checkSdkCoverage`, `npm test`, releases, ports, and AOA's documents over time |
| `KeyedCalls` | between `BookingCalls` and the clients: keys, requests and retries without clocks, aborts and errors |
| `KeyedCallsProofs` | `KeyedCalls` implements `BookingCalls` |
| `KitReplies` | the reply types of a released package against its document |
| `TsClientProofs`, `GoClientProofs`, `PyClientProofs` | theorems about the clients, and that each implements `KeyedCalls` |
| `PaginationProofs`, `ResponsesProofs`, `WebhookProofs`, `KitProofs` | theorems about the other modules of these names; `WebhookProofs` covers the signatures too |
| `MC…` | constants of the instances TLC checks |

Definitions named "Mutant" in a comment are plausible bugs of the definition after them. No
specification uses one; each property is known to fail under one of them.

### AoaApi and SdkCalls

A request is `[call, attempt, copy, key]`; it stays in `requests` until the API gets to it, in any
order, possibly long after the attempt gave up, or never. Serving it is one of: a 429 (no effect),
a refusal (no effect), an effect (one booking, unless its key is remembered) with an answer that
may be a success, a page that is not JSON or an error of a gateway, or a replay of a keyed
request. A response reaches its attempt only while the attempt waits. "Booking" stands for any
effect of a call that must not be doubled: a reservation, a ticket hold, a payment.

Calls that an SDK refuses for what they are given are `BadParams`: an unknown operation, a missing path
parameter, a body or URL that cannot be encoded (`JSON.stringify`, `json.Marshal`, `json.dumps`,
`http.NewRequestWithContext`), a key that is required and cannot be generated. Which of them it is makes
no difference to what follows; `ClientRequests` has the conditions of the TypeScript client one by one.

A payload is abstracted away. Of the headers, a response keeps `Retry-After` and the reset bound
(`t` of `RateLimit`), already parsed: those two decide what the clients do.

### TsClient

A step is what the event loop runs between two interruptible awaits.

| Action | Code |
|---|---|
| `Start` | `request` from its checks (no API key, what makes the call impossible, signal already aborted) to the first `await fetchImpl` |
| `Headers` | `fetchImpl` resolves; `await response.text()` |
| `Receive` | the body is in: rate-limit state, then a result, an error, or `await sleep(...)` |
| `Wake` | the timer of `sleep` fires: the next attempt, same key |
| `TimerFires`, `CallerAbort` | `controller.abort` with its reason; `CallerAbort` also ends a `sleep` and makes a later `Start` throw |
| `Reject` | the aborted `fetch` or body read rejects; the reason says whether it was the timeout |
| `NetworkError` | `fetch` or the body read fails by itself |
| `Crash` | the process ends, a new one begins: what is in flight stays in flight |
| `Tick` | a second passes on every timer |
| `Network` | the API or the network serves a request |

`owed` is a history variable: what remains of the wait the last 429 asked for.

### GoClient

Goroutines are preempted anywhere, so the model has one more phase than TypeScript: `parsed`, after
`io.ReadAll` and `parseRateLimit` and before the mutex is taken. `SleepEnds` and `SleepCancelled`
are the two cases of the `select`, and both are possible when both are ready; `Do` then checks the
context, as net/http does. The timer of the `http.Client` covers the body. `Seconds` is
`time.Duration(n) * time.Second` on wrapping integers, with `MaxDuration` for 2^63 ns. `newest` is
a history variable: the headers parsed last.

### PyClient

`urllib`'s timeout is one of each socket operation: `Trickle` starts it again. `TimesOut` and
`Breaks` become `AoaConnectionError`, except while the body of a non-2xx is read, which happens
inside an `except` clause (`ReadsError`); `CutShort` is `http.client.IncompleteRead`, which no
clause catches. A negative wait makes `time.sleep` raise. Nothing interrupts a call but a crash.

### Pagination

The server's list is a graph: each cursor leads to a page of items and to a next cursor or none.
`Pull` is the consumer's `next()`, `Arrive` the page, `Error` a throwing `request`, `Close` the
consumer's `break`. TLC takes every list of three pages of at most two items, loops included, with
every start and every `maxPages` up to three and none. Python is the case `Unlimited`: its loop is
the same without `maxPages`.

### RateLimitHeaders and Responses

Numbers are in tenths of a millisecond, so that a fraction of a second and the part of a millisecond
that Python rounds away exist. A field of a header is what its text says: absent, blank, a number,
`nan`, `infinity`, a literal too large for a double, a date, words. Go appears twice, because
`int()` of a float that does not fit gives `MinInt` on amd64 and saturates on arm64; `Word` stands
for 2^64 and is scaled down to 2^18, `int` and `Duration` alike (one unit in place of one
nanosecond or one second: both wrap where the value no longer fits).

`Receive` gives one reply to all SDKs whose call waits for one. `After` is the loop's decision:
return, raise, or sleep and try again; `ParseRaises` is Python's `OverflowError`, which ends the
call before its body is looked at. `Known` is the assignment of `lastRateLimit`. The sequence of
calls is unbounded; the clients' rate limits persist from one to the next.

### WebhookSignature and WebhookDelivery

A header is a sequence of `key=value` parts. The HMAC is an injective function of secret, timestamp
and body; `Age` keeps the units (whole seconds in TypeScript and Python, fractions in Go) and
`HexTexts` the case of the hex that each accepts. `Construct` evaluates all three verifiers on what
arrives and follows the verdict of the receiver's own.

| Action | Stands for |
|---|---|
| `Happen`, `Send`, `AttemptFails`, `OtherDelivery`, `Reenable` | AOA, by sections 5 and 6 of the skill: a queue, attempts, 10 seconds, auto-disable |
| `Arrive` | the request reaches a handler, which verifies it; the body or the header may not be what AOA signed |
| `Enqueue` | `await enqueue(event)`, recorded once under its id, atomically |
| `EnqueueFails` | `enqueue` throws, whether or not the event was recorded |
| `Answer` | 200 after `Enqueue`, 401 after a refusal, 500 after `EnqueueFails`; it counts only for the attempt AOA still waits for |
| `Work` | the work and its record, in one transaction, after the answer |
| `Crash` | every running handler is gone; what is recorded stays |

### Schemas, SchemaTypes, TypeGenerator, OpenApiSnapshot, ClientRequests, Kit

A document is a function from operation ids to operations with their parameters, body, security and
reply schema; the generated module is the table (`OPERATIONS`), the `...Params` types and the reply
types. `OpenApiSnapshot` holds both files of the repository, read off each file and not one computed
from the other, and Init of `Kit` starts from them; that the second is what the generator makes of
the first is part of `DocumentsAssumption`, which TLC evaluates. `KitReplies` holds what is said of the
types of replies, whose recursive operators the prover does not take.

`main` is split at each write and each wait: `FetchSpec` (which also empties the snapshot, as
`writeFile` does first), `WriteSnapshot`, `ReadSnapshot`, then `Compare` or `OpenOutput` and
`WriteOutput`, or `GenerationFails`. `Interrupt` may come between any two. `Publish` changes what AOA
serves at any time, `PortOperations` brings a hand-written SDK up to the snapshot, `Release` is
`npm publish`, which `npm test` guards; that nobody touches the tree between the two is an assumption.

The params of a call are what a caller may write: values, arrays, `undefined`, `null` and the empty string.
`null` is a value in a JSON body, nothing in a query and missing in a path.

### BookingCalls

A purchase is named by its caller's key or, without one, by its only call. `Book` may happen while
a call is open, and also later if the call ended `unsure` (a timeout, an abort, a network error, a
5xx, a page that is not JSON, a crash), or ended in a 429 but carries a key, since a replay may
still be on its way. It may not happen after a refusal, nor after a 429 without a key; it happens
at most once per purchase; `ok` is reported only of a purchase that was booked. The clients map to
it by `status` (from `pc` and the outcome) and `times` (counted from `bookings`).

`KeyedCalls` stands between it and the clients. Its `phase` is `fetching`, `reading` or `sleeping` while a call
runs; `First` and `Again` send, `Headers` takes a response, `Pause` goes to sleep after a 429, `Finish` ends a
call with what its response says, `GiveUp` and `Crash` at any time. It has requests, responses and bookings of `AoaApi`, and a constant `Choices` for the keys
under which a call may be sent. Section 6 says what it is for.

## 3. Properties

| Property | Of | What it says, and what would break it |
|---|---|---|
| `ImplementsBookingCalls` | the three clients | every behaviour is one of `BookingCalls` |
| `OncePerCall` | TypeScript | a call books at most once over all its attempts; broken by a new key per attempt, or by retrying anything but a 429 |
| `OncePerPurchase` | TypeScript | calls under one caller's key book once between them, across a crash |
| `OutcomeTellsTruth` | TypeScript | success means booked; a refusal, or a 429 without a key, means not booked and nothing left in flight |
| `WaitsAsAsked` | the three clients | a wait covers what the 429 asked for and never exceeds the client's cap |
| `SendsOnlyWhenDue` | TypeScript, Go | no request before its wait is over, after an abort or cancellation, or after the call ended |
| `EverySettles`, `EveryReturns` | all | every call ends, whatever the network does |
| `RateLimitIsNewest` | Go | the shared rate-limit state is that of the headers parsed last (violated) |
| `TimeoutsAreConnectionErrors` | Python | a timeout is an `AoaConnectionError` (violated) |
| `NoItemTwice`, `EveryItemOnce`, `Ends` | pagination | what a consumer gets, and that it ends |
| `SdksAgree` | the three SDKs | in the same state, a plain reply leaves them in the same state: same wait, result, error and rate limit; broken by reading error codes differently |
| `NeverEarly` | the three SDKs | no retry before the time the 429 named, as seconds, as a date or as a reset; the exceptions (fractions, a millisecond in Python, what Go's integers do not hold) are in the formula |
| `ResultSurvivesHeaders` | the three SDKs | no rate-limit header costs the caller the result of a call, but an infinite number in Python |
| `NeverLater` | the three SDKs | a retry waits no longer than its own 429 names, and a 429 whose wait is accepted is retried; broken by waiting for what an earlier response left in the client |
| `VerdictsAgree` | webhooks | the SDKs accept what the endpoint's secret signed and is fresh, and nothing else; they part at the edge of the tolerance and on capitals only |
| `AcknowledgedIsStored` | webhooks | what AOA was told is delivered is in the store, whatever crashes; broken by answering first |
| `WorkOnce` | webhooks | a delivery is worked on at most once; broken by recording it without looking |
| `AcknowledgedIsHandled` | webhooks | what was acknowledged is worked on in the end; broken by a queue in memory |
| `ReleasedIsOfItsSnapshot` | kit | the package on npm is what its own snapshot generates, whatever was interrupted |
| `CallsReachServer` | kit | while AOA serves the package's document, the server reads what the caller gave, under the right method, path and keys (an empty idempotency key is not sent, `client.ts:275`), and a call that cannot be made is refused; broken by accepting an empty path param |
| `NewerParametersReach` | kit | which parameters of a newer document still arrive, and which cannot |
| `GreenIsCovered` | kit | after green CI the table is the document's and the ports have every operation under its path |
| `DataInhabitsType` | kit | no reply the document allows falls outside the type the package gives it |

One type invariant per module states types and the bound on attempts.

## 4. Runs, bounds and what they show

| Run | Instance | States | Shows |
|---|---|---|---|
| `ts_hold` | a hold without a key, two retries; two calls that are refused | 30 416 | only 429s are retried; refused calls send nothing; every call settles |
| `ts_repurchase` | a checkout and its repeat under one caller's key, one retry, crash | 78 295 | the repeat does not pay twice; refinement with two calls of a purchase |
| `go_hold` | a hold with two retries; two refused calls | 26 832 | as `ts_hold`, with contexts and `select` |
| `go_buy` | a checkout with two possible generated keys, two retries, one replay | 145 563 | the key is chosen once per call |
| `go_repurchase` | a checkout, its repeat, an unconfirmed reservation, crash | 270 760 | the repeat does not pay twice; nobody is booked a table unconfirmed |
| `go_rate_limit` | two goroutines | violation | section 7 |
| `py_calls` | a hold, a checkout, an unconfirmed reservation, one retry, crash, trickling bodies | 97 192 | refinement, waits, termination |
| `py_timeout` | one hold | violation | section 7 |
| `pages` | every list of three pages | 57 105 | items, order of checks, termination |
| `responses` | calls without end, one retry, 40 header sets, all kinds of bodies | 357 164 | what the SDKs agree on, and exactly where they do not |
| `webhooks` | one delivery of three attempts, a disabled endpoint, two crashes, eight headers, two bodies, five clocks | 60 255 | verdicts, durability, exactly-once work |
| `kit` | sixteen documents, two publications, two ports, four modes, interruptions | 71 569 | from document to call |

Bounds, and why they are enough:

* *Attempts.* Two retries give a first, a middle and a last attempt: a late request of attempt 0 can
  be served during the wait after attempt 1 and after attempt 2 answered. `MaxRetries` bounds it as
  it does in the code.
* *Replays.* `MaxCopies = 1` gives each keyed request one copy that can arrive before, between and
  after the others; more copies carry the same key and can only be remembered. Where two calls
  already share a key (`ts_repurchase`, `go_repurchase`) the second call plays that part, and
  `MaxCopies = 0`.
* *Keys.* A call that chose its key again would show, because two generated keys are possible where
  that matters.
* *Time.* Waits of 1, 2 and 3 seconds against a cap of 2: below, at and above it; `BothWaits` has a
  reset bound nearer than its `Retry-After`, so that the order of preference matters; a negative
  reset in Python. `Timeout` is 1, or 0 where only its occurrence matters. `TimerLimit` and
  `MaxDuration` are small numbers for 2^31-1 ms and 2^63 ns, above
  every wait of these runs: what happens beyond them is assumed away by name (sections 6 and 7).
* *Calls.* Two or three: one without a key, one under a generated key, two under the same key, and
  refused ones next to them. Calls interact only through a key and through the rate-limit state.
* *Pages.* Three pages allow a chain, a loop of one and of two, an unreachable page and a start in
  the middle; at most two items distinguish none, the last and another. `PageBound = 5` cuts only
  walks round a loop without `maxPages`, of which nothing is promised.

* *Replies.* `RetryAfters` and `Resets` hold one value of each kind: below, above and beyond every limit,
  fractions, dates on a second, just past one and a millisecond past one. One retry makes a first
  and a last attempt; two different replies follow each other in every combination.
* *Webhooks.* Three attempts stand for six: a first, a middle and a last one, of which any two may
  run at the receiver at once; an endpoint is switched off at two failures in place of twenty, which
  `OtherDelivery` can bring it to. Deliveries do not interact otherwise, so one is enough. A
  tolerance of two seconds with two ticks each has offsets inside, on, just past and beyond it.
* *Documents.* Each of the sixteen differs from the snapshot in what one branch of the generator or of
  the client looks at, a `$ref` that does not resolve and a header in another case included. Callers have a
  `crypto` or none. Two publications give a package one and two documents behind AOA, and a
  snapshot fetched between them. `Samples` has a schema for every branch of `tsType`.

`kit` uses the symmetry of the two ports, of which no property but safety ones speaks; no other run
uses symmetry. Deadlock is checked in `responses` and `kit`, which never stop; the calls of the other
runs come to an end, and then nothing need happen.

## 5. Fairness

`FairSpec` assumes that time passes (`Tick`) and that what is due runs: the callback of a timer that
is over and the rejection it causes (TypeScript: one event loop, whose queue is served in order),
a runnable goroutine (Go's scheduler is preemptive and fair), a thread whose socket operation or
sleep is over (Python). Nothing is assumed of the network, the API or the caller: requests may be
lost for ever, no response need come, nobody need abort.

* TypeScript: `Reject` needs a `fetch` that honours its signal (`HonoursSignal`), as the standard
  says; safety is proved without it.
* Go: the argument is for an `http.Client` with a timeout, which `NewClient` sets; a caller's own
  client without one has only the deadline of its context.
* Python: `EveryReturns` excepts the server that sends a few bytes within every timeout, for ever.
  That exception is in the formula, because the code has no timeout over all.
* Pagination: `Ends` assumes a consumer that keeps pulling and a server that keeps answering.
* Webhooks: only the receiver's worker is fair (`WF` of `Work`, "then do the work"). Nothing is
  assumed of AOA, the network or the handlers.

## 6. Proofs

TLAPS checks the theorems below with its SMT, Zenon and LS4 backends, for every value of the
constants: any sets of calls, keys, deliveries and pages, any number of retries and replays, any
waits, headers and clocks.

| Module | Theorem | Property | Assumes besides the named assumptions |
|---|---|---|---|
| `KeyedCallsProofs` | `KeyedCallsBookOnce` | `KeyedCalls` implements `BookingCalls` | `ChoicesSound` |
| `TsClientProofs` | `TypeCorrect` | `TypeOK` | |
| | `CallsBookOnce` | `OncePerCall` | |
| | `PurchasesBookOnce` | `OncePerPurchase` | |
| | `OutcomesTellTruth` | `OutcomeTellsTruth` | |
| | `CallsWaitAsAsked` | `WaitsAsAsked` | `DelaysFitTimers` |
| | `CallsSendWhenDue` | `SendsOnlyWhenDue` | `DelaysFitTimers` |
| | `TsFollowsKeyedCalls` | `TsClient` implements `KeyedCalls` | |
| | `TsImplementsBookingCalls` | `ImplementsBookingCalls` | `ProtectedAssumption` |
| `GoClientProofs` | `TypeCorrect` | `TypeOK` | |
| | `CallsWaitAsAsked` | `WaitsAsAsked` | `WaitsFitDurations` |
| | `CallsSendWhenDue` | `SendsOnlyWhenDue` | `WaitsFitDurations` |
| | `GoFollowsKeyedCalls` | `GoClient` implements `KeyedCalls` | |
| | `GoImplementsBookingCalls` | `ImplementsBookingCalls` | `KeysWhereHonoured` |
| `PyClientProofs` | `TypeCorrect` | `TypeOK` | |
| | `CallsWaitAsAsked` | `WaitsAsAsked` | |
| | `PyFollowsKeyedCalls` | `PyClient` implements `KeyedCalls` | |
| | `PyImplementsBookingCalls` | `ImplementsBookingCalls` | `KeysWhereHonoured` |
| `PaginationProofs` | `TypeCorrect` | `TypeOK` | |
| | `ItemsComeOnce` | `NoItemTwice` | |
| | `PromisedItemsCome` | `EveryItemOnce` | |
| `ResponsesProofs` | `TypeCorrect` | `TypeOK` | |
| | `CallsWaitOut` | `NeverEarly` | |
| | `CallsWaitNoLonger` | `NeverLater` | |
| | `ResultsSurvive` | `ResultSurvivesHeaders` | |
| | `SdksMoveTogether` | `SdksAgree` | |
| `WebhookProofs` | `TypeCorrect` | `TypeOK` | |
| | `AcknowledgedStaysStored` | `AcknowledgedIsStored` | |
| | `WorkedOnce` | `WorkOnce` | |
| | `OneVerdict` | `VerdictsAgree` | `SignedAsDocumented` |
| `KitProofs` | `TypeCorrect` | `TypeOK` | |
| | `ReleasesAreGenerated` | `ReleasedIsOfItsSnapshot` | |
| | `GreenMeansCovered` | `GreenIsCovered` | |
| | `CallsArrive` | `CallsReachServer` | |
| | `NewerArrive` | `NewerParametersReach` | |

### What is assumed

The named assumptions (`ApiAssumption`, `SdkAssumption`, `TsAssumption` and so on) speak of constants only:
sets have their types, generated keys differ from each other and from the callers' (UUIDs), a document's
operations have their fields, and the commit passes its own `generate:check` (`DocumentsAssumption`). TLC
evaluates them in every run. The hypotheses of single theorems:

* `DelaysFitTimers`: `maxRetryDelayMs` is at most what `setTimeout` can hold. `WaitsFitDurations`: no server asks
  for a wait beyond the 292 years of a `time.Duration`. Section 7 says what happens without them.
* `ProtectedAssumption`, `KeysWhereHonoured`: a caller gives a key only to an operation that honours one.
  All three SDKs send it anyway (`client.go:156`, `client.py:138`), the API ignores it there, and nothing
  protects a replay.
* `ChoicesSound`: keys are chosen as the clients choose them. Each client's proof establishes it from its own
  `KeyChoices`; no theorem about a client keeps it.
* `SignedAsDocumented`: every `v1` of a header is hex, and what is signed with the endpoint's secret carries the
  time of signing. It constrains headers, not SDKs.

### The TypeScript client

None of the safety properties is inductive. `OncePerCall` says nothing of requests still in flight,
which is where a second booking would come from, so `IInv` adds what can be in flight in each phase
of a call:

* `ResponsesAwaited`: a response is on its way only to an attempt that awaits headers.
* `OneKeyPerCall`: every request and booking of a call carries the key of that call.
* `OneBookingPerKey`: the API holds at most one booking of a key among the operations that
  require one.
* `UnkeyedRequestUnanswered`: a request without a key is the only one of its call, of the current
  attempt, and nothing has answered or booked it. This is the core of "only a 429 is retried": when a
  call sleeps, its previous request is gone.
* `UnkeyedBookingNotLimited`: once a call without a key is booked, no 429 is known to it or on
  its way, so it never tries again.
* `OkMeansBooked`: a 2xx with JSON answers a booking.
* `Phases`: a call has no outcome while it runs, and its key is one `KeyChoices` allows.

A lemma for each kind of step (settle, send, headers, sleep, abort, crash, 429 or refusal, booking,
replay) shows that it keeps these; `InvStep` splits on `Next` and cites them. `WaitInv`, for the last
two theorems, is separate: during a sleep `owed <= timer <= MaxRetryDelay` and no abort; otherwise
nothing is owed.

### The refinements

`BookingCalls` knows calls and purchases; the clients know keys, requests in flight, attempts, timers,
aborts, contexts, sockets. The argument goes through `KeyedCalls`, which is what the three have in common
and nothing else: a call chooses one key, sends under it, sends again only after a 429 and ends at any time.

1. `KeyedCallsBookOnce`, proved once: the invariant above, restated for `KeyedCalls`, and for each of its
   actions the step of `BookingCalls` it is. A booking at the API is `Book`, or nothing where the key is
   remembered; an end with `ok` needs `OkMeansBooked`; an end with a 429 needs that an unkeyed call has nothing
   in flight any more; replays of keyed calls may be booked after they ended, which `BookingCalls` allows for
   purchases that carry a key.
2. For each client, by an invariant that holds only what ties its program counter to a phase: `Init` maps to
   `Init`, and each action to an action of `KeyedCalls` or to nothing (`Tick`, `TimerFires`, `Parse`, `Trickle`).
   Go's `parsed` and Python's `reading` are the phase in which a response is being read.
3. Both levels see the same `status` and `times` (`SameView`), which gives the client's own
   `ImplementsBookingCalls`.

So a client is safe for bookings if it sends a second request only after a 429 and never changes its key; all
that is difficult about aborts, timers and `select` cannot matter. `go_buy` tries two possible generated keys;
the proof covers any number.

### Pagination

`NoItemTwice` compares what was yielded with the list, and is false half way through a page without knowing
which pages were walked. `IInv` says that there is a walk of `page` steps from the start to the cursor
(`Walked`), that of its pages all but the last were yielded whole and no other page at all (`Counts`), and how
far the last one is (`CountAtCursor`). On a list without loops a walk meets no page twice. `EveryItemOnce`
compares the walk with the one promised: both take the same steps (`WalksAgree`), because every page has one
next cursor. "The first place where they part" replaces an induction along the walk: lemma `LeastOfSet`, from
the library's `WFMin`, gives the least element of any set of naturals. For the same reason the pages reachable
from a start are the least set closed under `next`, and not a recursive function.

### Replies

`NeverEarly` becomes inductive with one more conjunct, `InPhase`: no SDK sends while another still sleeps, which is
what makes the comparison of the three meaningful. `CallsWaitOut` is arithmetic about the parsers: lemmas bound
what each makes of a number, a date and a reset (`Truncated`, `Ceiling`, `Seconds`, `Until`), and combine the
fields by the order each SDK prefers. `CallsWaitNoLonger` is the same from above (`WaitIsShort`, `DateNoLater`),
for a step: the wait is computed from the headers of the reply it answers (`AfterInTime`). `SdksMoveTogether` shows for each kind of reply that is `Plain` that the six
operators (parse, known limit, wait, retry, result, error) have the same value for every SDK.

### Webhooks

`AcknowledgedIsStored` needs that a handler about to answer 200 has its delivery in the store
(`HandlersStore`: `Enqueue` before `Answer`) and that nothing takes a record out of it. `WorkOnce` needs
`DoneIsRecorded`: the record that the work is done is there exactly when it is. `OneVerdict` reduces each verifier to "some `v1` is the HMAC, in a
case this SDK reads, and the age is within the tolerance", where `Multiples` compares seconds with fractions.

### The kit

What is released, and what a green CI is worth, depend on a comparison that is over by then. `IInv` adds that a
check holds the snapshot in memory while it runs, that only a run that is no check writes (`RunSound`), and that
a check that passed saw the files that are there now (`CheckSound`). From these follow `TypeOK`,
`ReleasedIsOfItsSnapshot` and the first half of `GreenIsCovered`. The theorems about calls are lemmas about the
operators the modules are built from: `DeclaredNames` (the types declare the path, the query and the body's
names), `OnePlace` (what the generator accepts gives each one place), `BuiltParts` (where `buildRequest` puts a
param) and `ReadBack` (a server whose operation the table describes reads what was given).

### What the proofs found

* A `Retry-After` date so far away that it does not fit a `time.Duration` makes `moment.Sub` saturate and the
  rounding up wrap (`ratelimit.go:68`). Neither the model nor the stated exception `BeyondGo` had it; both have it
  now, and `responses` tries such dates.
* The exceptions of `NeverEarly` overlapped for a number that is also too large, so that the formula said more
  than was meant for one SDK and less for another. They are disjoint now.
* The generator applies its patches before it looks for params that clash (`generate-types.mjs:259`), and
  `Refused` of the model looked at the document before them. A document whose `updateWebhook` has no body and a
  parameter named `events` is refused; the model would have generated it. `ModuleRows` did not go through.
* The params of an operation without a body took fields of the body that is not there, if a document had any
  (`ParamsDeclaration`), and `CallsReachServer` was false for an empty idempotency key, which no instance gave.
* Every part of a header needs a type (`HeaderSets`) and a delivery's id is not a mark of the store
  (`DeliveryAssumption`): both were tacit.

### Only model-checked

* Liveness (`EverySettles`, `EveryReturns`, `Ends`, `AcknowledgedIsHandled`): beyond this prover.
* What `TsType`, `Valid` and `Inhabits` compute, and so `DataInhabitsType`: they are recursive over schemas, and
  induction over data is beyond it too.
* `RateLimitIsNewest` and `TimeoutsAreConnectionErrors` are violated.

## 7. Where the code and its documentation disagree

Shown by a run that expects a violation:

* **`go_rate_limit`** (`client.go:256`). `do` parses the headers and stores the result under the mutex
  in two steps. A goroutine delayed in between overwrites the state of a later response.
  `client.go:115` calls it the state of the most recent response.
* **`py_timeout`** (`transport.py:73`). The body of a non-2xx is read inside an `except` clause, so a
  timeout there is a bare `TimeoutError`. `errors.py:58` names timeouts among the causes of
  `AoaConnectionError`, and `transport.py:54` says that non-2xx responses are returned.

Written into a property as its exception, or assumed away by name:

* `DelaysFitTimers`, `TimerLimit` (`client.ts:114`). `maxRetryDelayMs` may exceed 2^31-1 ms, and a
  `Retry-After` beyond 24.8 days then passes the cap; `setTimeout` takes such a delay as 1 ms and the
  retry leaves at once. `options.ts:20-21` says that it waits for `Retry-After` each time.
* `WaitsFitDurations` of `GoClientProofs` and `BeyondGo` in `NeverEarly` and `NeverLater` (`client.go:301`,
  `ratelimit.go:38`, `ratelimit.go:68`). `time.Duration(n) * time.Second` wraps around beyond about 9.2e9
  seconds either way, `int()` of a float that does not fit may be negative, and a date 292 years away
  saturates `Sub` and wraps when it is rounded up: the wait passes the cap and the retry leaves at once.
  `client.go:73-74` says that a longer wait is returned as an error. `responses` has such headers, and
  shows that nothing but these is early.
* `PythonFails` in `ResultSurvivesHeaders` (`rate_limit.py:34`, `client.py:251`). An infinite number in any
  rate-limit header raises `OverflowError` out of a call that may have succeeded; a negative reset makes
  `time.sleep` raise `ValueError`. `errors.py:14` says that every error of the package is an `AoaError`.
  `responses` has such headers too, and shows that no other header raises.
* `Early` in `NeverEarly` (`rate_limit.py:60`). Python drops up to a millisecond of a date, Go and Python
  the fraction of a number.
* `Plain` in `SdksAgree` (`errors.go:51`). Go reports `http_<status>` for an error whose `message` or
  `hint` is no string or whose `code` is empty, where the others report its code; the three differ on a
  2xx with JSON that is no envelope.
* `VerdictsAgree` (`webhooks.ts:96`). In the last second of the tolerance Go refuses what the others
  accept, and only Python refuses a signature in capitals.
* `AcknowledgedIsStored`: `skills/aoa-webhooks/SKILL.md:182` says to store the event before replying; the
  examples in `sdk/typescript/README.md:114` and `sdk/go/README.md:120` answer 200 and handle it
  afterwards, in memory. `AnswerFirst` is that order, and it loses events.
* `PortHas` in `GreenIsCovered` (`validate-kit.mjs:127`). Two operations that change places pass the
  validator although each port calls the wrong path.
* `NewerParametersReach` (`client.ts:134-141`). The comment says a newer server parameter works before the
  snapshot catches up; a query parameter of an operation with a body goes into the body, and a body of an
  operation that had none goes into the query.
* `DataInhabitsType` (`generate-types.mjs:229`). A schema with `properties` and no `type` allows what is no
  object, and its type does not.

## 8. Assumptions and what is not modelled

* The API remembers an `Idempotency-Key` for as long as a behaviour lasts (the documents say 24 hours),
  honours it on the two operations that require one, and answers a 429 only to a request that
  had no effect.
* A request without a key is not replayed below the SDK; one with a key may be, as `net/http` does on
  a connection that breaks. A redirect is a refusal: the Go and Python clients do not follow it
  (`client.go:98`, `transport.py`), `fetch` does, and where it does the exchange with the final URL is
  the one modelled.
* A caller's key on an operation that does not require one is sent and ignored; calls made that way are
  excluded from the refinement (`Protected`) since nothing protects a replay of them.
* A key set through `options.headers` counts as the caller's key.
* Each attempt's response is one event for its headers and one for its body; the microtasks between
  `await`s that nothing can interrupt are one step.
* Python: answers that are no HTTP at all (`BadStatusLine` and the like) are left out; parsing and
  storing `_rate_limit` is one step, so the interleaving `go_rate_limit` shows is not repeated.
* Logging, user agents, base URLs and the text of errors are abstracted away; bodies of requests are the
  names of their fields.
* Headers: `Parameter` does not split a value that holds a second `=`, on which TypeScript and the
  others differ; a negative infinity is like an infinity; `retryable` is a comparison of a string.
* Webhooks: JSON parsing of a verified body; a timestamp with a sign (`ParseInt` of Go takes one); headers
  AOA does not send and no proxy makes. AOA and its queue are as the skill describes them.
* Generator: the schemas of the snapshot's own replies are left out of `OpenApiSnapshot` (`AnyJson`), and
  `SchemaTypes` is tried on schemas of its own; `oneOf` is treated as `anyOf`, as the generator does; the
  names of enums and the printed text are left out. `validate-kit.mjs` compares text: a method's name
  inside a longer one, or a path in a comment, would satisfy it; that is not modelled.
* Kit: of the methods written by hand for Go and Python the model has names and paths; their HTTP
  methods, parameters, auth and keys are seen by no check of the kit. A document with a `head` operation
  keeps `npm test` red, since the generator skips it and the test does not. `--fetch --check` writes the
  snapshot too.
* Not to be modelled: `checkSkills` and `checkPlugin` (texts without state), type declarations,
  manifests, skills and documents (nothing executes).

## 9. Plan

Done, in the order of importance: `AoaApi`, `SdkCalls`, `BookingCalls`, `TsClient`; `GoClient`; `PyClient`;
`Pagination`; `RateLimitHeaders`, `Responses`; `WebhookSignature`, `WebhookDelivery`; `Schemas`, `SchemaTypes`,
`TypeGenerator`, `OpenApiSnapshot`, `ClientRequests`, `Kit`, `KitReplies`; `KeyedCalls`; and the proofs of all
safety properties but `DataInhabitsType`.

Left to prove: `DataInhabitsType` for schemas without references to themselves, whose operators would have to be
restated without recursion. `GeneratedSchema` is compared with the snapshot by TLC and not by a proof.

Left to model: the bodies of the methods written by hand for Go and Python, against the operation
table, and the polling of an asynchronous checkout, which the kit leaves to its callers.

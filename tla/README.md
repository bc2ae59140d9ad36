# A TLA+ model of the Mailkube Python SDK

The SDK (`src/src/mailkube/`) is a thin client of an HTTP API: a synchronous and an
asynchronous client over one shared base, resource namespaces on top, typed errors and
results, a page-walking generator, and a stateless webhook verifier. It keeps little state
and never retries, so what is hard is not an algorithm. It is what happens *around* each
round trip: who else is using the client, which side of a timeout the server is on, what
an exception lets the caller conclude, and what becomes of a listing that changes under a
walk. The modules here model exactly that.

Paths below are relative to the repository; `_client.py` stands for
`src/mailkube/_client.py`, and so on.

## 1. Inventory

| part | state it keeps | operations | talks to |
|---|---|---|---|
| Client core: `_base_client.py`, `_client.py`, `_async_client.py`, `_transport.py`, `_resource.py` | key, base URL, timeout, suffix (fixed at construction); the httpx client and whether it is owned | `__init__`, `_prepare`/`_build_url`, `_raw`, `send_email`, `request`, `close`/`aclose`, `with` | environment (read once), httpx |
| Response handling: `_ok_body`, `_process_response`, `_process_model` | none | turn status, body and headers into a result or an error | exceptions, response models |
| Exceptions: `_exceptions.py` | none | `raise_for_response`, the class hierarchy, `ErrorName` | callers branch on them |
| Sends: `resources/emails.py`, `_build_send_body` | none; the server remembers idempotency keys | `send` | the caller's retry loop, the server |
| Pagination: `resources/scheduled_emails.py` (`list`, `iter_all`) | the generator's frame: page in hand, position | pull, yield, follow the next link | the server's listing |
| Scheduled emails and batches: same file | none; the server holds the lifecycle | `get`, `update`, `cancel`, `batches.update`, `batches.cancel` | the server's dispatcher |
| Credential: `resources/credential.py` | none | `info` | |
| Webhooks: `webhooks.py`, `types/events.py` | none; a clock is read | `verify_signature`, `sign`, `parse_event`, `verify` | a receiver that gets retried deliveries |
| Serialization, logging, types, package surface | handlers of one logger | `to_iso`, `query_value`, `encode_attachments`, `enable_logging`, `redact_headers` | |

What makes each part correct:

* **Client core** - answers are never mixed up between concurrent calls; the key and the
  origin are those of construction; one call is one round trip; a client closes only what
  it owns; errors tell whether anything was sent; every call ends.
* **Response handling, exceptions** - one mapping for all verbs; a result only for a body
  that has its shape; class and name keep what callers branch on.
* **Sends** - with a key, one message at most however often and by whomever it is retried;
  an Email is for the message that was asked for; the replay flag is true.
* **Pagination** - in order as long as the listing only grows at its end; nothing missing as
  long as nothing leaves it; nothing twice as long as nothing joins it; lazy; forward only; it
  ends; an incomplete walk is told by an error, not by its end.
* **Scheduled emails** - a canceled email stays canceled; an outcome tells whether the call
  took effect; a lost answer means now, later or never; a batch moves and cancels together; a
  request is about what its call names.
* **Webhooks** - what was sent and is fresh is handed over, nothing else is; a receiver can act
  once per event with a finite memory; new event types are not refused.

`PROJECT.json` lists the hazards behind these properties, each at its line.

## 2. Modules

```
Responses
 |-- ResponseHandling                        ResponseHandlingProofs
 |-- Client                                  ClientProofs
 |-- IdempotentSend   -- refines SendOnce       IdempotentSendProofs
 `-- ScheduledEmails  -- refines EmailSchedule  ScheduledEmailsProofs
Pagination                                   PaginationProofs
Webhooks                                     WebhooksProofs
```

A module of the left column that hangs from `Responses` extends it; the proofs about it are in
`ResponsesProofs`, which the proof modules of those four extend. `MCx` modules give the constants
of the runs.

**Responses** - the pure part: `DecodeJson`, `ParseRetryAfter`, `ErrorClass`,
`RaiseForResponse`, `ProcessResponse`, `ProcessModel`, each the operator of the function
with the same name. A response keeps its status code, whether the body is a JSON object,
which of the parts the SDK reads are in it (an explicit null is not an absent field), the
models it would validate against, and three headers. Texts are present or absent, but for the
error name, which callers branch on: one that is documented, absent, or null, which `str()` turns
into the text "None". A body may also be "overlong": JSON with an integer of more digits than Python converts, on which
`json.loads` raises a `ValueError` that `_decode_json` does not catch; the outcome is then
`DigitsError`, for any status.

**ResponseHandling** - a behaviour picks one response and lets every kind of call process
it, so that verbs can be compared.

**Client** - the core. One action per step a thread switch, a cancellation or a failure
can separate from the next:

| variable | in the code |
|---|---|
| `env` | `os.environ`, `MAILKUBE_API_KEY` and `MAILKUBE_BASE_URL` |
| `client[k]` | `_api_key`, `_base_url`, `_owns_http`, `_http` of one SDK client |
| `http[h]` | an httpx client, made by an SDK client (then `h` is that client) or by the program |
| `call[c]` | one method call: its locals (`spec`, `url`, `headers`, `response`) and where it is |
| `wire`, `closers` | history: requests sent per call, owners that closed what they own |
| `answers` | the server's answers; one may arrive, be late or be lost |

`Construct` is `__init__` of both classes, `Prepare` is `_prepare` with `_build_url`,
`Transmit`, `ConnectFails`, `RequestOnClosed`, `Receive`, `TransportFails` and `Cancel`
are the ways through `_raw`, `ProcessReply` is the second line of `send_email` and
`request`, `Close` is `close`, `aclose` and the context manager. `Begin` stands for every
verb of every resource: they differ in the model and in whether the path is relative or a
link, and in whether httpx can encode its arguments: `BuildFails` is what it raises if not, while it
builds the request (a `UnicodeEncodeError` for an idempotency key that is not ASCII, a `TypeError` or
`ValueError` for a payload that is no JSON). The asynchronous client runs the same steps and switches only at the await of the
request, so its behaviours are among these. A URL is abstracted to its origin; a malformed
one is a URL urllib refuses to split.

**IdempotentSend** - callers, the SDK and the server around `emails.send`. `BuildSendBody`
lifts the key into its header, through `str()`: `KeyArgOf` is what a sender passes and `KeyOf` the
key it becomes, the text "None" for a null. `Process` is the same operator the client core uses. The
caller's loop (`Attempt`, `Settle`, `RetryLater`) follows the docstrings and
`examples/send_with_idempotency.py`; the server (`Claim`, `Commit`, `Abort`, `Limit`,
`ConflictRunning`, `AnswerUsed`, `AcceptUnkeyed`) follows the README, that example and
`ErrorName`. Both are external. A request whose call timed out stays in the inbox: the
server may act on it at any time, and its answer goes nowhere. `replies` holds what the server
answered to calls still open; each answer records the message it is about, so that the
properties can say what an Email stands for.

**SendOnce** - the promise: of the messages under one key one at most is accepted, and an
Email is for that one and is what the caller asked for. `IdempotentSend` implements it
with `told` as the mapping of each sender's last outcome.

**ScheduledEmails** - callers schedule, inspect, move and cancel emails, singly and by batch,
while the server dispatches those that are due.

| variable | stands for |
|---|---|
| `caller[c]` | the latest call of each caller: arguments, whether it waits, its outcome |
| `inbox` | requests the server has not looked at; a call that timed out leaves its own there |
| `answer[c]` | the answer on its way to the call that waits |
| `email`, `now` | the server's schedule (status, due time, batch of each email) and its clock |
| `carried`, `placed`, `assured` | history: calls carried out, batch last asked for each email, cancellations acknowledged |

`GetSpec`, `UpdateSpec`, `CancelSpec`, `BatchUpdateSpec`, `BatchCancelSpec`, `ItemPath` are the
request builders of `resources/scheduled_emails.py`; `Receive` and `TimeOut` are the two ends of
`request`. A path is a sequence of segments, because that is what `quote(identifier, safe="")`
is about: whatever the text, it stays one segment. It does leave `""`, `"."` and `".."` alone, and
`UrlJoin` then resolves them. `Route`, `Verdict`, `Carry`, `Reject`, `Dispatch` are the server,
external, from the docstrings, `ErrorName`, the README and the two examples about scheduling.
A request may be carried out and answered with an unreadable body or a server error.

**EmailSchedule** - what these verbs promise: a schedule that each call changes at one instant
while it runs and before it returns a result, or not at all if it is refused, or, if its caller
learns nothing, now, later on or never. `ScheduledEmails` implements it: `told` maps to what
each caller knows (`Phase`), `late` to the requests of calls given up.

**Pagination** - `iter_all` over a collection that changes. The frame of the generator is
`iter`; `Pull`, `Yield`, `FollowLink`, `Exhaust` are its statements, `Arrive` and
`FetchFails` the two ends of a page request, `Abandon` a consumer that leaves its loop,
`PullAgain` one that catches the error and pulls on: a generator that raised is finished, and
the pull ends like that of a complete walk. The server pages by number and issues the links.
The history `moves` says how the collection changed since the first page was made: an item left, one
was inserted, one was appended. Each promise of a walk is about the changes it survives.

**Webhooks** - `webhooks.py` between a platform that attempts each event again and again
(`Attempt`; the timestamp is that of the attempt, by a clock that is `skew` off) and a
receiver that verifies, skips ids it remembers, acts and remembers (`Receive`). `Fresh`,
`SignatureHex`, `Sign`, `VerifySignature`, `ParseEvent`, `Verify` are the functions of those
names. An event has one of the contents in `Events`: its type and the arms of the union it fits.
`Arrivals` is what becomes of a delivery on its way: a header lost or damaged, a signature that is
wrong or not even ASCII, the prefix dropped, two deliveries mixed up, the JSON written differently,
the signed text split elsewhere. Nothing in `sent` ever leaves it, so each attempt may arrive late,
repeatedly or never. HMAC-SHA256 is the text it signs, that is, free of collisions; the text is the
concatenation of id, timestamp and body, as in the code, and two ways to split it into timestamp and
body have one signature. `KeepAssumption` is what the SDK's stateless
verification asks of the receiver's memory: the platform's retry period plus twice
`tolerance_seconds`. The docs name no number; with the inclusive, two-sided window this is
enough, and nothing less is when the platform's clock may be ahead by the tolerance.

## 3. Runs

| run | instance | shows |
|---|---|---|
| `ResponseHandling` | every response: 16 statuses at the edges of the ranges, all body shapes for two models | one error mapping for all verbs; results have their shape; classes and names keep their meaning |
| `ClientShared` | two clients, one injected httpx client without a timeout, two calls, a server that may never answer | no cross-talk, no hidden retry, nobody closes what is not theirs, every call returns |
| `ClientConfig` | one client, two keys, two origins and a malformed URL, arguments that can be encoded or not, an environment that changes, two calls | types, key and origin fixed at construction, errors tell what was sent, no orphan pool |
| `IdempotentSend` | four senders: two handed the same job under one key (two tries and one), one that recycles the key with a body computed anew at each of two tries, one without a key | at most one message; Emails are for the sender's own message; the replay flag; the final 409 is final; every sender is told something; the refinement of `SendOnce` |
| `ScheduledEmails` | two emails, one of them in a batch, the other scheduled or not yet there; a caller that schedules, cancels and updates (two calls), one that moves (one call), identifiers that mean something in a path, three instants | cancellations and "not pending" are final; outcomes tell the effect; a batch is covered; a call alone is obeyed; requests touch what they name; the refinement of `EmailSchedule` |
| `Pagination` | up to five items, pages of two, starting at page one or two, two changes, page requests that fail | in order if items are only appended, complete if none left and no error was told, nothing twice if none joined, lazily, forward, and to an end |
| `Webhooks` | two events, each with any of four contents (of a known type or a newer one, with the parts its arm needs or not), tolerance 1, skew up to 2, seven ticks | verify hands over what was sent and is fresh; one action per event; no event is refused for being new, or accepted once and refused at another time |
| `NullId`, `OverlongNumber`, `UseAfterClose`, `MalformedUrl`, `PaginationShift` | the smallest that shows it | a documented claim the code does not keep, see section 6 |

Bounds. Two calls are enough for cross-talk and for closing under another call: both are
relations of two calls; two clients and one injected httpx client for shared ownership.
Keys and origins need two values to be confused. Two tries let the first time out and be
processed before, while or after the second is; a third repeats the second. Two senders with
one job and a third with another give each kind of answer a used key has; the sender without a
key tries once, since it is the key that makes a retry safe. In `ScheduledEmails` three calls of two callers let
a call that was given up take effect while, before and after others do, and a batch lose or gain
an email between the begin of a batch call and its effect; two instants after the first let an
email fall due before or after a call moves it. The menus hold one call of each verb and each of
the identifiers `.`, `..` and `batches/b1`; status "sent" stands for "failed" too, as both end the
email's life. Five
items on pages of two make full pages, a half page and pages that become empty; two changes
can both move the page at hand and empty the one to come. In `Webhooks` the skew exceeds the
tolerance, so that attempts can be dated too far ahead, and seven ticks let an id be forgotten
and its last attempt go stale; with two events one can be mistaken for the other. The bounds are `TriesOf`, `CallsOf`, `MaxChanges` and
`Horizon`; nothing else is cut off. Calls `c1`, `c2` and clients `k1`,
`k2` are interchangeable in `ClientConfig`, `UseAfterClose` and `MalformedUrl`, the events' ids in
`Webhooks`, items in `PaginationShift`: these runs use symmetry, and no run with a liveness property does.

Deadlock is not checked: programs and callers that have made all their calls, senders
that were told and walks that ended stop for good.

Every property of a passing run is broken by at least one of the mutants of `PROJECT.json`:
a definition of the model changed as a plausible bug would change the code. They are the
operators marked "Mutant".

## 4. Fairness

`Client`: weak fairness for each call's own steps (a thread or task keeps running), and for
`TransportFails` of a call sent through an httpx client that has timeouts (httpx raises a
timeout, `timeout=self._timeout`). The server, the network and the program promise nothing.
A call through an injected client without a timeout is not claimed to end.
`IdempotentSend`: the senders run on (one weak fairness condition over the steps of all of them
is enough, as their tries are bounded), and each call returns or raises, which is
`EveryCallReturns` of `Client`; the server promises nothing. `Pagination`: the consumer
keeps pulling and each page request ends; the collection promises nothing beyond the bound on
its changes. `ScheduledEmails` assumes no fairness and claims no liveness: nothing in the code or
its docs promises that an email that is due is sent, and that calls end is said of `Client`.

## 5. Proofs

`ResponsesProofs` proves what the pure operators return: every processed response is one of
the outcomes `Processed` lists, a bare malformed error only comes from a 2xx, the kinds are
disjoint.

`ClientProofs` proves all seven safety invariants of `Client` for any number of clients, calls,
httpx clients, keys, origins and replies, from the assumptions named in the module. The
argument is one inductive invariant,

    IInv == TypeOK /\ OwnershipInv /\ PoolInv /\ CallInv

because none of the properties is inductive alone. That an httpx client is closed by its
owner only (`OwnershipInv`) needs that a client which owns its httpx client uses no other
one; that no pool is an orphan (`PoolInv`) needs that a pool exists exactly for clients
that were made without an injected one. `CallInv` says what holds in each phase of a call:
before it is sent its wire is empty; from then on it holds exactly the request prepared,
which has the key and origin of its client; answers exist only for requests on the wire;
a reply received is one of the answers to this call; an outcome is what the phase it was
reached from allows. The fields of a constructed client never change, which makes the clauses
about keys and origins stable. There is one lemma per action, the step theorem `NextInv`
collects them, `Invariance` is the temporal step, and each property follows by a few lines.
TLC checked `IInv` on the instances of the two client runs before it was proved.
Two theorems go beyond the runs. `ForeignErrors` gives each of the four exceptions modelled that are
no `MailkubeError` its one cause: httpx's `RuntimeError`, a closed client; urllib's `ValueError`, a URL
it cannot split; the errors of encoding a request, its arguments; the `ValueError` of `json.loads`, an
overlong number in the answer to this very call. It is about these four, not about what else httpx or
the interpreter may raise. `CallsProgress` is the safety
half of `EveryCallReturns`: every step of a call leaves it fewer to take, steps of others take
it nowhere, a prepared call always finds an httpx client that is there, and one that was sent has a
timeout unless the program injected a client without (`UsableInv`).

`WebhooksProofs` proves all three properties of `Webhooks` for all numbers and contents of
events, skews, tolerances and retry periods. The invariant (`AttemptsInv`, `MemoryInv`, `ReadableInv`) says
that no attempt is dated more than `RetryFor` after another of its event, and that an event acted
on is remembered until `Keep` after the acceptance of one of its attempts, which came at most
`Tolerance` before its date. An attempt still fresh is then met by a receiver that remembers
(lemma `Remembered`). `NothingSwallowed` is the converse: a receiver that skips the ids it remembers
loses no event, since after each accepted delivery it has acted on it exactly once. That verification passes the
unaltered only is a fact about operators (`VerifiedIsAttempted`), but for one case: a timestamp whose
fraction of a second was moved to the front of the body passes `verify_signature`, and it is
`parse_event` that refuses it, as that is no JSON (`VerifiedEvent`). `NewEventsAreNotRefused` needs
`ReadableInv`: an event acted on is one that parses, and its contents never change.

`ResponseHandlingProofs` proves all four invariants of `ResponseHandling`: for every set of
statuses, names and models, not only those at the edges of the ranges. `FlawsDelimited` says how far
the first two disagreements of section 6 go: the bodies, the statuses and the calls they need,
and that no other call and no other body is touched.

`IdempotentSendProofs` proves the five invariants of `IdempotentSend` and that it implements
`SendOnce`, for any senders, keys, payloads and numbers of tries. The invariant is

    IInv == TypeOK /\ RequestsInv /\ StoreInv /\ RepliesInv /\ SendersInv

A request was made by its sender, and is in the inbox or accepted but not both (`RequestsInv`);
a key is done exactly when a message under it was accepted, and then that message is the only one
(`StoreInv`), which is why two answers can never tell of two messages; an answer on its way
(`RepliesInv`), and the outcome made from it (`SendersInv`), say the truth of a message accepted
or, for the final 409, of one that cannot be accepted any more. The steps that map to steps of
`SendOnce` are `Commit`, `AcceptUnkeyed` and those that tell a sender; all others stutter.
`SendersProgress` gives the measure `StepsLeft` of a sender: its own steps decrease it, nobody
else's change it, and it is zero exactly when the sender was told its outcome.

`PaginationProofs` proves the six safety properties of `Pagination` for any items, page size and
number of changes. The invariant is

    IInv == TypeOK /\ FrameInv /\ PageInv /\ PlaceInv /\ KeptInv /\ OnceInv

The frame's counters fit each other in each phase (`FrameInv`), and a page with a link to a next
one is full (`PageInv`). The three promises each have a part, under the changes they survive: what
was yielded and the page in hand lie where they did in the collection (`PlaceInv`); every item there
from the start is yielded, in the page in hand, or among the items beyond it (`KeptInv`); nothing
yielded is in the rest of the page or beyond it (`OnceInv`). `Beyond(n)` is the set of items after
position n: an item that leaves moves the items behind it up, so that `Beyond` only shrinks, and one
that joins pushes them down, so that it loses none. That is why items can go missing but not
come twice in the first case, and the reverse in the second. Inserting and removing are reasoned
about by position (`InsertionFacts`, `RemovalFacts`).

`WalkProgresses` is the safety half of `WalkEnds`: the pair of `PagesLeft` and `StepsInPage`, in
lexicographic order, decreases with every step of the walk, and no change of the collection
increases it. It is bounded because a link to a next page is issued only where an item
is listed, so that no page is asked for beyond the number of items that exist.

`ScheduledEmailsProofs` proves type correctness, the six safety properties of `ScheduledEmails` and
that it implements `EmailSchedule`, for any callers, emails, menus, identifiers and horizon. The
assumptions are that no email's id is `""`, `"."` or `".."`, that the statuses, names and
models the server uses are among those of `Responses`, that a call names an id unless it schedules
and a batch only when it schedules or updates, as the signatures have it (`CallSet`), and that an
email not there yet is in no batch (`BeforeAssumption`). Lemmas `ItemRoute` and `BatchRoute` say
where a path leads whatever the identifier; `WireFacts` concludes that a request is about what its
call names or meets no method. The invariant is

    IInv == TypesInv /\ CallsInv /\ AnswersInv /\ OutcomesInv /\ CanceledIsNeverSent

where `CallsInv` says that a request is in the inbox or may have been carried out, never both, and
the other parts that every answer and every outcome is `Honest`: a result or an unreadable 2xx
means carried out, a refusal means neither carried out nor still in the inbox, "not pending" means
canceled or sent, an acknowledged cancellation that the email is canceled. The effects that last
are the ends of an email's life, `FinalsStay`. In the refinement the instant a call takes effect is
`Carry`: as `Carry` of its caller's call, or as `CarryLate` of a request given up (`CarryTakesEffect`
shows that the request does what `EmailSchedule` says of the call, `ReturnStep` what a return
changes in what is given up).

Batches and calls made alone need a second invariant, `EffectsInv == PlacedInv /\ CoveredInv /\
AloneInv`, proved on top of `IInv`. The history `placed` agrees with the schedule, and each entry
names the call that made it, so that an entry once replaced never comes back, because no call is
carried out twice (`PlacedInv`). Of the emails a batch cancellation covers, those whose entry is
still the one it saw are not scheduled any more once it is carried out (`CoveredInv`): another call
would have to move them first, and then the entry is another. A call alone leaves nothing
but itself in the inbox, so that nothing undoes it before its caller begins another (`AloneInv`).

TLC checked each invariant, or the properties it implies, on the instance of the run before it was
proved.

Only model-checked: the three liveness properties `EveryCallReturns`, `EverySenderIsTold` and
`WalkEnds`, because fairness speaks of ENABLED, which is out of the prover's reach. What they rest
on besides is proved (`CallsProgress`, `SendersProgress`, `WalkProgresses`); the fairness conditions
and the induction over the measures are left to TLC. The theorems that go
beyond the runs were checked by TLC, too, on the instances of the runs, before they were proved.

## 6. Where code and documentation disagree

1. `NullId` - a null id in an accepted send becomes the text `"None"`
   (`_base_client.py:290`) instead of the base `MailkubeError`.
2. `OverlongNumber` - an answer with an integer of more than 4300 digits ends the call in a
   plain `ValueError` (`_base_client.py:43`), though decoding is "best-effort".
3. `UseAfterClose` - httpx's `RuntimeError` for a closed client escapes the hierarchy
   (`_client.py:82`).
4. `MalformedUrl` - so does urllib's `ValueError`, raised before the `try` of `_raw`
   (`_client.py:78`).
5. `PaginationShift` - "every scheduled email matching the filters" does not survive an
   earlier item leaving the listing between two pages (`scheduled_emails.py:212`).

Smaller ones have no run:

* `retry_after` is said to be "only set on RateLimitError" and is set on any API error that comes with
  the header (`_base_client.py:263`).
* `verify_signature` documents `SignatureVerificationError` for a signature that does not match; for one
  that is not ASCII `hmac.compare_digest` raises `TypeError` (`webhooks.py:99`).
* `parse_event` returns events of unknown types "rather than raising"; one without `created_at`, or whose
  `data` is no object, raises `ValidationError` (`events.py:300`), as `NewEventsAreNotRefused` says.
* The errors of encoding a request escape "Every failure raises a subclass of `MailkubeError`", too
  (`EncodeError`, `_client.py:81`); nothing is sent, says `ErrorsTellWhatWasSent`.
* An explicit null becomes the text "None": as the error name of an envelope (`_exceptions.py:165`) and
  as an idempotency key (`_base_client.py:230`).

Two are no disagreements. The signature vouches for the signed text, not for where the timestamp in
it ends; `verify` hands over nothing but what was sent all the same. And
`_item_path` escapes `/` and `?`, as its docstring says, but `""`, `"."` and `".."` have nothing to
escape and do lead to another route. `TouchesOnlyWhatItNames` shows that no email is changed there,
because the routes they reach have no method that changes one.

The positive counterparts hold. `FlawsDelimited` says exactly which answers the first two need;
`OnlyOwnersClose` and `ForeignErrors` what causes each of the modelled exceptions from outside the
hierarchy; and
what is left of a walk when items leave is `NothingTwice`, while `NothingMissingUntold` says that
only a departure, or an error the consumer was told of, makes an item go missing.

## 7. Not modelled

* Header texts, the User-Agent, messages of errors and the fields of models that are passed
  through: no property depends on them. Whether httpx can encode the arguments is kept, not why.
* Logging: `enable_logging` adds a handler at each call; nothing in the package reads back what
  is written, and no outcome depends on it.
* Serialization: pure conversions of datetimes and bytes to text.
* Package surface (`__init__.py`, version): re-exports.
* httpx: its clients are thread-safe, and a round trip is one request and one answer or error.
  Its timeouts apply to each phase of a request rather than to the whole; the model says that some
  timeout ends the call, not when.
* The expiry of idempotency keys after 24 hours: the caller's tries are taken to lie within it.
* Email delivery: an email dispatched is out of the SDK's sight; its fate comes back as a webhook.

## 8. Plan

What is left:

1. The 24 hours of an idempotency key, if the server's docs come to say what a try that straddles
   their end does.
2. Timeouts per phase, once there is a model of httpx to take them from.

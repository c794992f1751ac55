# ai-proxy2: a verification development in TLA+

`ai-proxy2` is a proxy between OpenAI-style clients and LLM providers. It
routes a chat completion to a provider, relays the answer (plain or as a
server-sent event stream), and writes one row per exchange into a database. A
React UI reads the rows. Paths below are relative to the repository; `B/` is
`src/backend/ai_proxy/` and `F/` is `src/frontend/src/`.

The modules here model the parts whose correctness depends on order, failure and
time, and the transformations of data whose cases no test enumerates. TLC checks
them on small instances; every safety property that a passing run checks is also proved with
TLAPS for every instance.

## 1. Inventory

Everything in the backend runs in one process on one asyncio event loop, so
*what runs between two awaits that really suspend is atomic*. All interleavings
come from awaits, all failures from the database, the providers, the clients
and the files.

| Component | State | Operations | Hard because |
|---|---|---|---|
| Rate limiter `B/core/rate_limiter.py`, `B/api/proxy/request_flow.py:59-67` | table of limiters; per limiter a deque of timestamps, `_pending`, `rpm`, `max_queue` | admit, reject, sleep, wake, cancel, rebuild on reload | sleepers wake in any order, are cancelled, or outlive their limiter |
| Logging service `B/logging/service.py` | bounded queue, flush task, provider id cache, the open transaction | enqueue, drop, collect a batch, resolve ids, commit, drain on shutdown | any await may fail or be cancelled; the cache is not transactional; a commit may take effect unseen |
| Configuration and hot reload `B/config/loader.py`, `B/config/watcher.py`, `B/adapters/registry.py`, `B/app.py` | the active configuration, the adapters, the watched file names | startup, watcher reload, admin reload | a load raises between its assignments; files are half written; notifications are late or absent |
| Model catalog cache `B/services/model_catalog.py` | list per provider with expiry, lock per provider, tasks under way | look up, lock, fetch, store, invalidate | invalidation while fetches run and locks are held |
| Proxy request and relay `B/api/proxy/router.py`, `B/api/proxy/streaming.py`, `B/adapters/openai_compat.py` | the stream state of one request, the HTTP client, what the client got | reject, send, relay a chunk, fail, finish, log | both sides may break off at any await; status is decided after the headers went out |
| Routing and mappings `B/core/routing.py`, `B/core/model_mappings.py`, `B/services/model_catalog.py:77-150` | none between requests; one request's snapshot of configuration and adapters | choose mapping, model and pins by priority, await the catalog | four stages that fall through; two computations of one answer; reloads during the await |
| Authentication, access rules, key resolution `B/security/auth.py`, `B/core/access.py`, `B/core/key_resolution.py` | none of its own | let in, allow, choose a key | each reads the configuration in force when it runs, with awaits between them |
| Request preparation `B/api/proxy/router.py:66-176`, `B/core/modification.py`, `B/adapters/openai_compat.py` | none | pin providers, apply rules, rewrite body and headers for a provider | steps that each look at what the ones before left; absent, null and explicit values |
| Request repository and list API `B/db/repositories/requests.py`, `B/api/ui/requests.py` | the rows | filter, page by cursor | rows are inserted between pages; late and equal timestamps |
| Conversation repository `B/db/repositories/chats.py`, the triggers of `src/backend/migrations/versions/0004...`, `0005...` | the rows and their derived columns | derive, group, page by offset, build the tree of messages | clients retry, branch and rewrite what they repeat; rows arrive out of order |
| UI request browser, chat view `F/components/`, `F/` hooks | the pages shown, a refresh under way | open, load more, refresh | a refresh reads pages one by one while rows are committed |
| Masking `B/logging/masking.py` | none | mask | pure |
| Settings, engine, other migrations | none | wiring | - |
| UI navigation `F/app/navigation.ts` | URL, history, the state they mirror | push, replace, pop | two sources of truth |
| UI cache boundary `F/utils/cacheBoundary.ts` | none | compute a common prefix | pure |

How they interact. A request handler asks routing (which may await the model
catalog), resolves a key, passes the rate limiter (which may sleep), calls the
adapter (which awaits the provider), relays the answer, and hands one entry to
the logging service with a call that never blocks. A reload (from the watcher
or the admin endpoint) replaces the configuration, then the adapters (which
invalidates the catalog), then the limiters, in one step without an await; it
may fall between any two awaits of any request. The flush task and the handlers
share only the queue. The UI sees the rows only.

What makes each component correct:

* **Rate limiter** - the queue counter is exact and the queue bounded; no
  window is exceeded; nobody sleeps beside a free slot; waiters of a replaced
  limiter are not forgotten.
* **Logging** - every accepted entry is stored once or given up, in order;
  failures cost a batch at most; a shutdown ends and leaves nothing behind.
* **Reload** - a failed reload changes as little as promised; the adapters fit
  the last good configuration; keys are granted and withdrawn as the files say; no
  edit is overlooked; edits take effect.
* **Catalog** - one fetch at a time unless a reload cuts in, none while a fresh list is there;
  invalidation invalidates; no lock is left locked.
* **Proxy request** - one entry per exchange which says how it ended and holds
  what was delivered; the HTTP client is released.
* **Routing** - the priority chain holds whatever the providers list; what is
  listed is what is served; nothing routable is answered with 404.
* **Access and keys** - a client's key is never sent on unless the bypass is on and
  it is none of the proxy's; an operator's key goes to its provider only, or for the
  client it is mapped for; reloads between the awaits change neither.
* **Preparation** - the pins reach the provider; what the client said of thinking,
  reasoning and streaming is what the provider is asked for, once.
* **Lists** - a sequence of pages shows no row twice and skips none that was there;
  with auto refresh every committed row is listed in the end.
* **Conversations** - the tree holds every message once, where it was said; every
  request is in one conversation, and in that of the request it goes on with.

## 2. Plan

Done in this order; the limiter first because it is the part that every request
passes and whose code is hardest to reason about informally.

1. `RateLimiter`, `RateLimiterMC`, `RateLimiterProofs` (done)
2. `AuditLog` (what a log promises) and `LogPipeline`, which implements it, with
   `LogPipelineProofs` (done)
3. `ConfigReload` (done)
4. `ModelCatalog` (done), and the theorems about both in `HotReloadProofs` (done)
5. `ProxyRequest` (done, the bodies' rewriting abstracted)
6. `Routing`, `RoutingMC`, `RoutingProofs` (done)
7. `Adaptation` (what is sent for a request) and `RequestFlow`, which composes keys,
   access, the route, the limiter, the adaptation and reloads between the awaits of
   one request, with `RequestFlowProofs` (done)
8. `ProxyRequestProofs` (done)
9. `Conversations`: columns, groups and the tree of messages against reference
   definitions (done)
10. `Browsing`: both infinite lists of the UI over the queries behind them (done)

11. `BrowsingProofs`, and the rewriting of bodies in `RequestFlowProofs` and the
    captured stream in `ProxyRequestProofs` (done)
12. `ConversationsProofs`: the tree, the counts and the columns (done)

Left, in order of worth: `Navigation`, the UI's URL, history and state; the choice of
visible branches in the chat view; the cache boundary; masking.

## 3. Modules and code

### RateLimiter (with RateLimiterMC, RateLimiterProofs)

One provider's limiter; providers share nothing. `Reqs` are requests, `Insts`
are the `ProviderRateLimiter` objects reloads create. The bodies under
`async with self._lock` contain no await, so the lock is never contended; the
only suspension in `acquire()` is its `asyncio.sleep`. Hence three atomic pieces:
arrival (`PassUnlimited`, `RejectFull` or `Acquire`), the pass after a sleep
(`Wake`), cancellation in the sleep (`Cancel`). `AcquirePass` is one turn of the
loop: `TakeSlot` or `GoToSleep`. `Reload` is `build_rate_limiters` for this
provider, in its three outcomes. Time is relative: `age[r]` is the time since r's
timestamp was appended, `timer[r]` what remains of its sleep; the deque is the
set `stamps[i]` of the requests that wrote it. The 0.05 s floor of a sleep is
below a tick. `Tick` does not wait for tasks whose sleep is over: the event loop
may resume them arbitrarily late.

### LogPipeline (with LogPipelineMC, LogPipelineProofs) and AuditLog

`Enqueue`/`DropFull` are `enqueue_log`; `Collect`, `Warm`, `ResolveUnknown`,
`ResolveNew`, `SendCommit` and the outcomes of the commit are `_flush_loop` and
`_write_batch`; `Shutdown` and `ShutdownAfterCommit` are the cancellation by
`stop_logging_service`, raised in whichever await the task is in, with the drain
of its handler; `Reconfigure` is a hot reload as far as the pipeline sees it.
`Unstorable` entries are those that fail in the database for what they contain; the
code may meet the refusal in an earlier flush (that of a later entry's provider
lookup), with the same outcome for the batch as in `CommitRefused`.
The database is external: it may fail any operation, may commit without the
answer arriving, and checks the constraints `db/models.py` declares. `history`,
`dropped`, `lost` and `faulty` record the past. What a row contains is left out.

`AuditLog` says what a request log promises, in terms of the status of entries
alone; `LogPipeline` implements it under the mapping `StatusOf`.

### ConfigReload (with ConfigReloadMC, HotReloadProofs)

A file is its shape, the providers it defines, those of them whose type has an
adapter (`build_registry` passes over any other, and a mapping may name it all the
same), the providers its mappings refer to, and (secrets) its keys. `LoadUnreadable`, `LoadInvalid` and `LoadGood` are
the three outcomes of a load, with the assignments each has made when it ends.
`EditMain` and `EditSecrets` are an operator's; a write that is not atomic is two
of them. `watchfiles` is external: it reports a change of a watched file at some
later time. `loaded`, `good` and `missed` record the past.

### ModelCatalog (with HotReloadProofs)

One provider's entry, lock and tasks. A lock lives in the table from the first
miss after an invalidation until the next, so it is identified by the
generation of the registry. `StartHit`, `StartFetch` and `StartQueue` are the
first step of a lookup, `Enter` is the second look under the lock, `Fetched` and
`Fail` its ends, `Reload` is `build_registry` with `invalidate_model_catalog`.

### Routing (with RoutingMC, RoutingProofs)

One request after another, as routing keeps no state. A mapping is a line of the
file: a model (name or glob), a slug if the key is qualified, and the provider,
target and pins of its value; what a glob matches is a constant. `Builds`,
`Qualified`, `Exact` and `Wildcard` are the stages of `resolve_model` as sets of
usable lines, `Explicit` and `Expanded` the two loops of
`get_proxy_model_catalog`. `ByQualifiedKey`, `ByExactKey` and `AskCatalog` are
the step up to the await, `ByCatalog`, `ByWildcard`, `NotFound` and
`CatalogRaises` the step after it, with any lists the providers may have given;
`Reload` replaces configuration and adapters and may come in between. Names are
taken up to case.

### ProxyRequest (with ProxyRequestProofs)

One chat completion. `pc` is the await the handler is in. A chunk is one of
seven kinds, a body one of four, by what the code does differently with them
(for instance `alien`: JSON that is not an object, on which tagging the chunk
raises). `FinishStream` is the end of `stream_generator` with its finally clause
that builds and enqueues the entry, `Respond` a response sent whole after its
entry was enqueued. The ASGI server is external: a handler is not told of a
disconnect before it has returned its response, sends to a disconnected client
do nothing, and a stream whose client is gone is cancelled where it waits for
the provider. Cancellation inside a send is not modelled, because the server
resumes a send that waits when the client disconnects.

### Adaptation and RequestFlow (with RequestFlowMC, RequestFlowProofs)

`Adaptation` is what happens to a request between its route and the wire, as
operators: `Pinned` (`_apply_provider_pinning`), `Modified` (the rules, one after the
other over body and headers), `GoogleBody` and `FireworksBody` (`_prepare_request_body`),
`BuiltHeaders`. A body is a record of the fields these read or write. A field is absent
(`None`), has the shape a step looks for, is a text, or is `Null`: JSON's null, and any
other value that is neither. The code tells absent from null in places (`"order" not in
existing`, `setdefault`) and not in others (`isinstance`, truth), so the model does too. A
rule may be about any of the fields, with or without a value, and its action may be
misspelt, which no check of the configuration refuses.

`RequestFlow` is the handler from the key to the answer. `Unauthorized`, `NoModel`,
`Forbidden`, `RouteAtOnce` and `AwaitCatalog` are its step up to the first await;
`CatalogArrives` and `CatalogRaises` the one after the catalog; `Dispatch` chooses
the key and asks the limiter; `LimiterAdmits` is the return from it; the provider's
answers end it. `Reload` may come at any await; what a reload that failed half-way leaves (the mappings
and keys of one file, the adapters and limiters of another) is a configuration like any
other, one of those in `RequestFlowMC`. A client may send an empty key: under the bypass it
is let in, and served with the adapter's key. The code asks for the
configuration several times: routing works with the one it captured at the start
(`origin`: mappings and adapters), the key is chosen and the limiter found in the
one in force after the catalog's await, and the rules are those in force after the
limiter's (both `config`). `since` records all that were in force since the
request came. How a route is found, how a limiter queues and what becomes of a
stream's chunks are the business of `Routing`, `RateLimiter` and `ProxyRequest`.

### Conversations (with ConversationsMC, ConversationsProofs)

`Row` is what the triggers of migrations 0004 and 0005 make of a committed request,
`GroupLabel`, `GroupKey` and `ListedConversations` are the query of
`get_conversations`, `Insert`, `Tree` and `ToList` the tree builder of
`build_conversation_messages`; a node's id is the path of signatures to it. The
recursion of `to_list` is a list of the messages still to be walked (`Walk`); Python's
limit on the depth of a recursion, which a very long history would meet, is left out. The rows
come from modelled clients: they send their whole history, retry, go back, and
repeat an answer with or without the fields a client may drop (`Echoes`). `Commit`
puts a row at any place in the order of timestamps. Folds are recursive functions
(`Selected`, `InsertRow`, `Tree`, `ToList`, `Total`), which can be reasoned about.

### Browsing (with BrowsingMC, BrowsingProofs)

The request list (cursor: older than the last row's time) and the conversation list
(offset), as answered by the server (`Answers`, rows of equal time in any order) and
read by an infinite query: `LoadMore` is a page more, `RefreshPage` one page of a
refresh, which replaces what is shown when its last page is there, `RefreshFails` a
refresh that fails. `Commit` is the log worker, with any timestamp. The query
library is external and modelled by its documented behaviour.

## 4. Runs

| Run | Shows | Bounds, and why they are enough |
|---|---|---|
| `rate_limiter` | `PendingCountsWaiters`; `QueueBound`; `WindowRespected`; `NoOversleep`; `WaitersAreServed` | 4 requests fill rpm 2 or rpm 1 with a queue of 1 or none and are turned away; a `max_queue` of -1 admits nobody; 2 limiters: one replaced while requests sleep on it; window 3 has an inside and both borders. A waiter may be overtaken by the others and may sleep on a replaced object. The safety part is proved for all values. |
| `log_pipeline` | `Conservation`; `NoLossWithoutFault`; `LossPerStepBounded`; `ImplementsAuditLog`; `EntriesAreSettled`; `ShutdownEnds` | 4 entries, queue 3, batch 2: full queue, batches that are full and not, both with entries left; 2 providers, one shared by the entries of a batch, known or unknown to the database; one unstorable entry |
| `config_reload` | `AdaptersAreLastGood`; `KeysAreThoseOnDisk`; `NoChangeOverlooked`; `EditsTakeEffect` | 4 edits: a file breaks and is repaired while the other changes; 2 providers that come, go, swap, and lose their adapter by a change of type; good, unreadable, invalid and missing files |
| `model_catalog` | `SingleFlight`; `QuietReloadIsClean`; `TasksEnd` | 3 tasks: a holder and two that wait, or two generations of locks; 2 reloads; an entry that expires |
| `routing` | `PriorityHolds`; `FoundIfRoutable`; `RoutedAsListed`; `PinsAreRespected` | 2 names, 2 globs, 2 providers and 2 slugs; seven configurations with each kind of key before and behind each other, missing adapters and a reload that fails; every subset of the names as a provider's list. Proved for all values. |
| `proxy_request` | `LoggedOnce`; `LogTellsHowItEnded`; `CaptureMatchesDelivery`; `StreamsAreReleased` | up to 5 chunks of 7 kinds: each kind before and after each other, and a disconnect between any two. The safety part is proved for all values. |
| `request_flow` | `KeyIsolation`; `TenantsUseTheirKeys`; `PinsReachTheProvider`; `ThinkingAsAsked`; `StreamAsAsked`; `Answered` | 7 configurations that differ in keys, bypass, mappings, access, routes, headers, rules and limiters, one of them half of two others; rules about every field that a property reads; 2 reloads: three configurations in force during one request, one for each stretch between its awaits; a plain provider, Google and Fireworks; bodies with every combination of the fields a rewriting reads, absent, null and ill-shaped ones among them. About 370 thousand states. The safety part is proved for all values. |
| `conversations` | `TypeOK`; `TreeOfWhatWasSaid`; `EveryRequestIsCountedOnce`; `FollowUpsJoinTheirConversation` | 2 chats, 3 rows in any order: a branch, a retry and a failure; answers with a text, with calls and with a stream's calls; openings with and without a system message, one of them empty |
| `browsing` | `RequestsAreListedOnce`; `NothingIsSkipped`; `IdleConversationsAreListed`; `EveryRowIsListedInTheEnd` | 4 rows and 3 timestamps: equal, late and in order; pages of 2 requests (full, short, empty) and of 1 conversation (2 pages, the second moving up between them). The safety part is proved for all values. |

The type invariants that no run names are proved (section 5), as are `ExitsEmpty`,
`FetchOnlyOnMiss` and `GlobsPassThrough`.

The runs that look for a violation each confirm that the code departs from what
the repository says of it; TLC's trace is the shortest scenario.

| Run | Property | What happens |
|---|---|---|
| `config_reload_last_good` | `LastKnownGoodStaysActive` | `load_config` assigns the global before it validates the mappings; a reload reported as failed is in force |
| `log_pipeline_shutdown` | `ShutdownFlushesRemaining` | the id of a new provider row is cached before the commit; a cancellation in between leaves an id without a row, and the final write fails as a whole |
| `conversations_split` | `SameConversationSameGroup` | a first answer that is a tool call has no text; in the follow-up the next answer takes its place, and the two requests of one conversation are in two groups |

Three more configurations have TLC find where the code and a text of the repository
disagree. They belong to no run of `PROJECT.json` and are started by hand (section 8).
`NoChangeOverlooked`, `TenantsUseTheirKeys` and `ThinkingAsAsked` leave these cases open;
`KeyIsolation` allows a client's key to be forwarded only if it has no mapping, as the code
has it.

| Configuration | Property | What happens |
|---|---|---|
| `ConfigReloadUnwatched.cfg` | `ChangesAreAlwaysPickedUp` | a secrets file that is created after the watcher has started is not among the watched names (`B/config/watcher.py:52`), and an edit between the first load and the watcher's first look is not reported; `B/config/watcher.py:12` has "changes are always picked up". Such a change comes into force with the next reload that something else triggers |
| `RequestFlowBypass.cfg` | `UnknownKeysAreForwarded` | under the bypass a key that is none of the proxy's but has a mapping is replaced by the mapped key (`B/core/key_resolution.py:26`); line 6 there has "Unknown key + bypass enabled -> forward client key as-is", and so does `config.yml:399` |
| `RequestFlowThinking.cfg` | `EffortBecomesLevel` | for names that begin with `gemini-` an effort is sent to Google as `reasoning_effort` (`B/adapters/openai_compat.py:88`); `README.md:53` has it mapped to `thinking_config.thinking_level` |

`CHECK_DEADLOCK FALSE` is set where the model really stops: a request that is
over, tasks that have all ended, a configuration without further edits.

### Fairness

* `RateLimiter`: time passes (`Tick`), and a task whose sleep is over is resumed
  (`Wake`); both are the event loop's. Nothing is assumed of arrivals, reloads or
  cancellations, and no order among waiters.
* `LogPipeline`: the flush task is scheduled and the database answers, well or
  badly (`FlushStep`, which includes every failure). Nothing makes it answer well.
* `ConfigReload`: the watcher task starts and `watchfiles` reports what it saw.
* `ModelCatalog`: each task is scheduled, and a fetch ends, if only by the
  timeout of `list_models`.
* `ProxyRequest`: an await on the provider ends, if only by the adapter's
  timeout; the server delivers a disconnect to a stream; the loop finalizes
  generators that were dropped. `Disconnect` itself is not fair.
* `RequestFlow`: the catalog's call and the provider's answer end, if only by their
  timeouts; the limiter admits, which is `WaitersAreServed` of `RateLimiter`. Each
  has a fairness condition of its own, and reloads are bounded by nothing but
  `MaxReloads`.
* `Browsing`: the reader keeps scrolling (the request list does it by itself while
  its end is in view) and auto refresh is on. `EveryRowIsListedInTheEnd` has as its
  premise that refreshes do not fail for ever.

## 5. Proofs

All theorems hold for every value of the constants under the assumptions of the
module (`ASSUME`), which TLC evaluates in the runs. Each proof module has an
inductive invariant `IInv`, a lemma that it holds initially, a lemma that a step
keeps it with a case per action, and theorems that combine these with PTL.

### RateLimiterProofs

For every set of requests, every set of configurations and limiter objects and
every window length:

* `TypeCorrect`: `Spec => []TypeOK`
* `PendingCorrect`: `Spec => []PendingCountsWaiters`
* `QueueCorrect`: `Spec => []QueueBound`
* `WindowCorrect`: `Spec => []WindowRespected`
* `SleepCorrect`: `Spec => []NoOversleep`

The assumptions are those of the module: `WindowAssumption` (the window is at
least a tick), `ConfigsAssumption` (an rpm that is absent or not
positive is written 0; `max_queue` is any integer) and `NoneAssumption`, which
only fixes what the name means.

None of the properties is inductive alone. The inductive invariant is

    IInv == TypeOK /\ WaitersHaveLimiter /\ PendingCountsWaiters /\ QueueBound
            /\ DequeInv /\ StampsGranted /\ SleepInv

* `WaitersHaveLimiter`: a sleeping request sleeps on an object that exists, so
  that a cancellation decrements a counter that counted it.
* `DequeInv`: a limiter object has a positive rpm; its deque is finite, has at
  most rpm entries, and holds the timestamp of every grant of that limiter within
  the window. `WindowRespected` follows by counting.
* `StampsGranted`: only requests that were let through have left a timestamp.
* `SleepInv`: while a request sleeps its limiter's window is full, and no entry of
  the deque outlives the sleep. `NoOversleep` follows; that the second part is
  preserved needs the sleeper to wait for the *oldest* entry and time to be the
  same for all.

### LogPipelineProofs

For any entries and providers, any queue and batch size of at least one, and any
entries the database refuses:

* `TypeCorrect`, `ConservationCorrect`, `NoLossCorrect`, `ExitCorrect`: the types,
  the two invariants of `log_pipeline` and `ExitsEmpty`
* `LossCorrect`: its action property `LossPerStepBounded`
* `RefinementCorrect`: `Spec => ImplementsAuditLog`

The inductive invariant is

    IInv == TypeOK /\ IsInjective(history) /\ Layout /\ Outcomes /\ Control /\ Clean

* `Layout` says of `Conservation`'s equation, position by position, that the batch
  and the queue are the end of the history. The lemmas `Appended`, `Collected`,
  `Finished` and `Drained` say what each kind of step does to the three sequences,
  and `Parts` that they hold no entry twice.
* `Outcomes` places the stored and the lost entries: a stored entry is finished
  with or, after a cancellation that followed a commit, back in the batch.
* `Control` says what the task may hold at each await; `ExitsEmpty` needs that
  it only ends in the cancellation's handler, after the queue is drained.
* `Clean` says that before shutdown the batch holds nothing that is stored, and that
  without a failure every cached id is that of a row. Both are false after an
  interrupted write (`log_pipeline_shutdown`, and the first of section 6), so the
  invariant has to follow the service up to there: this is what makes
  `NoLossWithoutFault` inductive.

For the refinement, `AuditStep` maps each step to one of `AuditLog` or to none;
`Holding` counts the entries in the pipeline, which are distinct, for the guards
of `Accept` and `Drop`.

### HotReloadProofs

A reload replaces the configuration and the adapters, and with them the catalog. Of
`ConfigReload`: `TypeCorrect`, `AdaptersCorrect`, `KeysCorrect` and `NoChangeCorrect`,
for any contents of the files and any number of edits. The inductive invariant adds

* `GoodIsValid`: the last good configuration passed the validation, so that one
  that fails it is told apart from it although both may be in force;
* `WatchedLater`: nothing is watched before the watcher runs;
* `KeysAsLoaded`: the keys are those the last load found, unless it could not read a
  file. With `NoChangeOverlooked` it gives `KeysAreThoseOnDisk`.

Of `ModelCatalog`: `CatalogTypeCorrect`, `SingleFlightCorrect`, `QuietReloadCorrect`
and `FetchCorrect`, the last an action property, for any set of tasks and any number
of reloads. The module is extended together with `ConfigReload`, hence the names
`CatalogInit`, `CatalogNext` and so on. `CatalogInv` adds to the type invariant and `QuietReloadIsClean`

* `LockExcludes`: the task that fetches is the holder of its generation's lock;
* `QuietTasksShareTheLock`, `QuietFetchMisses`: unless a task was at work at the last
  reload, the tasks share one lock and whoever fetches has missed. `SingleFlight`, which
  speaks of all fetches of the provider's list, follows from the three;
* `QuietTasksAreCurrent`: without an overlap of a fetch and a reload, the tasks at
  work belong to the configuration in force, so that what they store is current.

### RoutingProofs

`TypeCorrect`, `PriorityCorrect`, `FoundCorrect`, `ListedCorrect`, `PinsCorrect` and
`GlobsCorrect`: what `routing` checks and `GlobsPassThrough`, for any names, patterns,
configurations of any length and requests with any number of slugs. One lemma per
stage shows that its route satisfies the properties, from `FirstIn` (a set of positions has a
first element), `WantedSlugs` (which slugs come first) and `Keyed` (which stage
a usable line belongs to). The inductive invariant adds `NothingKeyed`: a request
that waits for the catalog has no usable key of its own, through any reload.

### ProxyRequestProofs

`TypeCorrect`, `LoggedCorrect` (`LoggedOnce`), `LogTellsCorrect`
(`LogTellsHowItEnded`) and `CaptureCorrect` (`CaptureMatchesDelivery`), for streams of
any length. The inductive invariant adds
`Running`: before a request is over nothing is logged, no answer is complete and the
client saw no error event. `Responded` and `Finished` say what the two ways to end a
request leave, `Ended` that this keeps the invariant.

`CaptureCorrect` has an invariant of its own, `Captured`, kept by every step of a
well-typed state. It adds to the property that a client that is there has been sent
all that arrived, as long as the stream runs: without it, a chunk more could be sent
after a gap. What a chunk, an error event and an alien chunk do to it are the lemmas
`AgreeChunk`, `AgreeError` and `AgreeAlien`. They rest on `WithoutOneMore`: a sequence
filtered with one line more is the filtered sequence, with that line or without.
`Without` is a recursive function, so that this needs an induction over its domain;
the library's induction rules take an operator and cannot be applied, but
well-foundedness of `<` is stated of a relation, and gives the rule as a lemma about
sets (`UpTo`).

### RequestFlowProofs

`TypeCorrect`, `KeyIsolationCorrect`, `TenantsCorrect`, `PinsCorrect`,
`ThinkingCorrect` and `StreamCorrect`, for any keys, providers, rules, configurations
and number of reloads. The inductive invariant is

    IInv == TypeOK /\ SentAsRouted /\ ChosenSince /\ Control

* `SentAsRouted`: what was sent went to the provider of the route, with the header
  of the route's adapter, else the key that was chosen, else the adapter's. What was
  forwarded is the request with its route's model and pins (`Original`) as the rules of
  one configuration in force since left it; the body is that as the adapter prepares it.
* `ChosenSince`: the adapter is that of the configuration the request came under, and
  the key was chosen by `ProviderKey` under one of those in force since then. Without
  the history variable this cannot be said: by the time the request is sent that
  configuration may be gone.
* `Control`: what is set at which await; `known` is as it was at arrival.

`KeyIsolated` and `TenantsServed` follow from these by cases over `ProviderKey`. The
contents of the body are no part of that argument.

The other three are about the body. `ModifiedFacts` is their centre: whatever rules
there are, however many and about whatever fields, they leave a well-typed body, in which
each field is untouched that no rule that applies is about. It is an induction over the
list of rules (`UpTo`, as above; `StepsCanBeTaken` shows that the recursive function
exists). `PinnedFacts` and `OriginalFacts` go through the cases of the pinning,
`GoogleThinks` through those of Google's thinking. They rest on `ShapesAssumption`: an
absent value, null, texts, slugs and the records of the shapes looked for are told apart.

### BrowsingProofs

`TypeCorrect`, `ListedOnceCorrect` (`RequestsAreListedOnce`), `NothingSkippedCorrect`
(`NothingIsSkipped`) and `IdleListedCorrect` (`IdleConversationsAreListed`), for any
rows and times, any page sizes and any number of commits between pages. The inductive
invariant says `Good` of the pages shown and of those a refresh has read so far:

* `InOrder` and `Reached`, for requests: the pages are in order, each begins below the
  last row of the one before, and what was there at the beginning is shown, tied with
  the last row of a page, or below all that is shown.
* `IdleReached`, for conversations: one that nothing was added to is shown, or at
  least as many conversations are ahead of it as the pages have places. The rank of an
  idle conversation only grows (`PlaceIsRank`, `NextConversations`), while the offset of
  the next page is that number of places: so a page cannot pass it. The property speaks
  of the end of the list only and is not inductive.

`SortedPlaces` and `PageCut` say of the server's answers what the rest needs: where an
item of a sorted result stands, and what a page cuts from it.

### ConversationsProofs

`TypeCorrect`, `TreeCorrect` (`TreeOfWhatWasSaid`), `CountsCorrect`
(`EveryRequestIsCountedOnce`) and `FollowUpsCorrect` (`FollowUpsJoinTheirConversation`),
for any chats, openings, follow-ups and answers and any number of rows.

The first two hold of every sequence of rows, whatever their histories (`TreeSays`,
`EveryRequestIsCounted`); the work is in the recursive functions. `Recursion` shows that
such a function exists, `RecursionKeeps` that what its steps keep holds at its end:

* `Grown`, for the tree after some rows and some messages of the next: its nodes are
  the messages met so far, each counts the rows through it and names the first and the
  last, and the children of each, and the roots, are in the order of the rows that first
  had them. A message is met again (`CountedAgain`) or added (`AddedMessage`).
* `Walked`, for the depth-first list after some steps: it is in the order of `Before`,
  holds nothing twice, and what is not on it goes through one of the messages still to be
  walked, which are in order too. With all nodes of the tree walked none is left, so the
  list ends with the count that `ToList` takes (`ListIs`).
* `Takes`, for `Selected`: the places taken, in their order. The children of a message
  are both sorted by the first row through them and by their places in the list, hence
  the same sequence (`SameOrder`, `ChildrenAre`).
* for `Total`, the number of rows of the entries so far (`CountedMore`), which the labels
  divide. `KeyOfLabel`: equal labels have equal keys, so a key's rows are divided as well.

The last needs the system, and an inductive invariant:

    IInv == TypeOK /\ HistoriesBegin /\ RowsBegin

A chat's history goes on from its opening and has no other system message; so do the
messages of a row, whose columns are what the triggers make of them. The columns for
the system and the user message are then the opening's (`OpeningColumns`), for all rows
of a chat. Of two rows of which one goes on from the other, the first answer with a text
is the same (`SameFirstAnswer`), because an echo has its answer's text (`EchoType`).

### What is only model-checked

Liveness under fairness (`WaitersAreServed`, `EntriesAreSettled`, `ShutdownEnds`,
`EditsTakeEffect`, `TasksEnd`, `StreamsAreReleased`, `Answered`,
`EveryRowIsListedInTheEnd`), which is out of the prover's reach. No safety property of a
passing run is left to TLC alone. The three runs that look for a violation are TLC's by
nature.

## 6. Observations without a run

Behaviours the models have and that a reader of the code may want to know; no
document promises otherwise strongly enough, or another run shows the cause.

Logging, reload, catalog:

* An entry the database refuses, in the batch that adds its provider's row, leaves a
  cached provider id without a row (`B/logging/service.py:173`): every later batch
  of that provider fails. `NoLossWithoutFault` counts this as a fault.
* A mapping may name a provider of an unsupported type: the file is valid, the provider
  has no adapter (`B/adapters/registry.py:38`), and its names are not routed
  (`Builds` of `Routing`).
* A list whose fetch began before a reload is stored after the invalidation and
  served until it expires (`B/services/model_catalog.py:215`).
  `QuietReloadIsClean` says when this cannot happen.
* A list that cannot be fetched is cached as empty for 300 seconds
  (`B/adapters/openai_compat.py:211`).
* An answer that is JSON but neither object nor array, or has a token count that is
  no integer, fails the entry's validation: it is answered with 500 and not logged
  (`B/logging/models.py:27-37`). `LoggedOnce` excepts it (`CanBeLogged`).

Limits and routing:

* A reload that changes rpm starts an empty window (`ReloadReplace`), so within
  one window the provider can get the old limit and the new one together
  (`B/core/rate_limiter.py:99`). `WindowRespected` is per limiter object.
* A reload that changes `max_queue` only has no effect (`B/core/rate_limiter.py:96`).
* `README.md:81` says requests over the limit are delayed rather than rejected;
  past `max_queue + 1` waiters they are answered with 429 (`RejectFull`).
* Waiters are not served in order, and with requests that keep arriving one may
  lose every slot to later arrivals. `WaitersAreServed` therefore takes a finite
  number of requests.
* A shutdown whose cancellation is raised after the commit took effect writes
  the batch again; the duplicate ids fail, and the rest of the queue is lost with
  it (`ShutdownAfterCommit`).
* A model's own key with a glob target that does not match it (`"alias":
  "p:gpt-*"`) is not built by the exact stage but is in the catalog, and the glob
  itself is sent upstream (`B/services/model_catalog.py:103`); the exception in
  `GlobsPassThrough`. `README.md:45` says glob-mapped names pass through.
* A literal key with a glob target also lists, and routes, every other model of
  the provider that the target matches (`Expanded`), with its pins.
* When a provider's list cannot be fetched, a name it would have listed is routed
  by the first pattern that fits, which may belong to another provider.
* A provider unknown to the configuration is cached without an id for good, also
  after a reload that adds it (`ResolveUnknown`).

Requests:

* Every chunk of a stream carries the route (`B/api/proxy/streaming.py:136`), also
  when `response.include_ai_proxy_route` is off, which
  `src/backend/tests/unit/test_router_and_service_paths.py:185` tests for plain
  responses (`StreamAnswers` and `MayTag` of `RequestFlow`).
* A client's null for `provider.order` keeps the pins out on a route that it did not
  select (`B/api/proxy/router.py:83`), and its null for `allow_fallbacks` stays;
  `PinsReachTheProvider` has both. An explicit null for `reasoning_effort` keeps
  Fireworks from being sent `reasoning.effort` (`FireworksBody`).
* The body kept for the log is a shallow copy (`B/api/proxy/router.py:93`): pins that
  are put into the client's own `provider` object show in the stored client request.
* The body logged for a transport error is built anew from what was forwarded, with
  the headers of the adapter the request was routed to (`TransportFails`).
* A rule that removes a header removes nothing if its key has capitals: the client's
  headers are in lower case.
* The HTTP client of a streaming request is not closed when the request cannot
  be encoded or the body of an error answer cannot be read (`SendRaises`,
  `ErrorBodyFails`). `StreamsAreReleased` is about streams that were opened.

Lists and conversations:

* The cursor is a time and the next page is strictly older: rows as old as the last
  row of a page are skipped (the exception in `NothingIsSkipped`).
* A conversation may be listed twice when others move up between two offset pages,
  until the next refresh.
* `NULL` and the empty text have the same group key but not the same label: the list
  shows two conversations under one key, which is also the key of the UI's rows, and
  opening either shows both. The key joins the quoted texts without escaping them.
* A client that repeats a streamed tool call without its `index`, or leaves out a
  null `content`, makes a second node of the same answer
  (`B/db/repositories/chats.py:98-103`).
* `_group_identity` and `delete_old_requests` have no caller.

## 7. Not modelled

* Masking, settings, database engine, migrations other than the two triggers: pure
  data shaping or wiring, without order or failure of their own.
* Of the proxy: the extraction of usage, cost and error messages for a log entry, the
  merging of stream deltas into one response, `list_models`' own endpoint, the key of
  the UI's endpoints (one comparison).
* Of the repositories: search, statistics, export and the serialization of rows.
* Of the UI: navigation, the choice of visible branches, the cache boundary (planned,
  section 2) and everything that only renders.

Contents of bodies, headers and rows are abstracted everywhere to what the control
flow or a property depends on.

## 8. Running

    tlc -workers 2 -config LogPipeline.cfg LogPipelineMC
    tlc -workers 2 -config RequestFlowBypass.cfg RequestFlowMC
    tlapm RoutingProofs.tla

`PROJECT.json` lists for each run its module, configuration and properties; for
each definition the lines it stands for; and for each property a mutant: a
definition changed as a plausible bug would change it (the operators commented
`Mutant:` in the modules), under which TLC finds the property violated.

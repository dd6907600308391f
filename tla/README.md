# ilonasin: verification project

ilonasin is a local router for LLM accounts written in Go. Clients talk to it
with the OpenAI or Anthropic protocol and a local token; it picks an upstream
account, keeps that account's OAuth bearer fresh, knows which models each
account may serve, falls back to another account on failure, and records
metadata in SQLite. A terminal user interface manages it over a Unix socket.

This directory holds TLA+ models of the parts whose correctness depends on the
order in which goroutines, upstream answers and restarts meet, the TLC
configurations that check them, and proofs for TLAPS. `PROJECT.json` lists
components, runs, hazards, findings, and the source lines of each definition.

    tlc -workers 2 -config CredentialPool.cfg MCCredentialPool
    tlc -workers 2 -config StreamExchange.cfg MCStreamExchange
    tlapm CredentialPoolProofs.tla
    tlapm ModelCatalogProofs.tla
    tlapm OAuthRefreshProofs.tla
    tlapm CredentialDiscoveryProofs.tla
    tlapm StreamExchangeProofs.tla
    tlapm DaemonPartsProofs.tla
    tlapm ConversationProofs.tla
    tlapm RequestRoutesProofs.tla

## 1. Inventory

Paths are below `src/internal/`. "Hard" names what tests hardly reach.

| Component | State it keeps | Operations | Hard | Correct when |
|---|---|---|---|---|
| Credential pool (`server/credential_pool.go`, `chat_nonstream.go`, `chat_stream.go`, `responses_native.go`) | tracker: reservations per route and credential, cursor per route and token; locals of a request | plan, reserve, release, auth retry, fallback, record | handlers in parallel, early returns, retry inside an attempt, bytes already sent | counts equal running attempts, the whole plan is tried, nothing is retried after the first byte, reports tell what happened |
| OAuth refresh (`credentials/upstream.go`, `storage/sqlite/oauth_*.go`, `provider/oauth.go`) | tokens, expiry, failure class, count and retry-after of each row; flights in memory | resolve bearers, refresh one, refresh if bearer, refresh provider, record failure | single-use refresh tokens, lost answers, cancelled leaders, restart, re-login | an account is locked out only by real loss, stays so until re-login, refused bearers are replaced once, calls return |
| Credential discovery (`server/credential_model_discovery.go`, `credential_model_catalog.go`, `credentials.go`) | flights and a bounded cache per credential and bearer generation | observe, share, refresh inside a flight, store, look up, decide | the bearer changes under the flight, transient failures, eviction | proofs belong to their bearer and survive transient failures, an account is not asked without need |
| Quota blocks (`storage/sqlite/quota_blocks.go`) | quota observations | record, list active blocks | latest observation only, timestamps as text | a block lasts until its reset |
| Model catalog refresh (`server/model_catalog.go`) | one flight, the last result, the model cache table | refresh, discover, replace or merge | error half-way, cooldown replays errors | a failed pass loses nothing |
| Ephemeral model cache (`server/model_ephemeral_cache.go`) | 8 entries, byte count, recency sequence | put, get, remove | renumbering, byte accounting, expiry | limits hold, least recent goes first |
| Routes and preflight (`server/*_route.go`, `route_preflight.go`) | locals of a request | authorize, read, resolve, decode, convert, select, execute | five handlers, each with an order of its own | refused requests cost nothing and are recorded as told |
| Conversions (`openai/`, `anthropic/`, `provider/codex_responses_request.go`) | accumulators of one document | validate, convert, marshal | dialects with different ideas of a turn; calls and results apart | the upstream is sent the conversation the client wrote |
| Stream adapters (`provider/http_stream.go`, `codex_responses_stream.go`, `_parse.go`, `_relay.go`, `server/chat_stream_sink.go`) | per-stream state, summary, sink | connect, read, convert, relay, finish | events lost, repeated, out of place; a client or upstream that leaves at any chunk | the client has each piece once, or is told; the summary agrees |
| Pool usage header (`app/subscription_pool_usage.go`, `server/pool_usage.go`, `management/subscription_usage.go`) | shared reads, usage rows | read, refresh stale rows, project, write | rows of different ages, windows that reset, deadlines | the header never speaks for a window that was reset |
| Device login (`credentials/upstream.go`, `provider/oauth_device.go`) | sessions in memory | start, take, poll, exchange, store | capacity checked before an await, one-shot take, restarts | never above the limit, a handle is used once |
| Console's side of it (`tui/oauth_actions.go`, `tui/update.go`) | the code on the screen, contexts of commands | start, cancel, handle results | results that come late | the shown code is one a completion waits for |
| Keep-alive scheduler (`app/keepalive.go`) | completed slots | tick, run due slot | runs longer than a slot, a clock put back | once per slot and account |
| IO log (`logging/io.go`) | files, size | record, rotate, roll back | failure at each step, crash | the files are the newest records, whole |
| Daemon start (`app/commands.go`, `storage/sqlite/migrations.go`, `management/socket.go`) | schema and its version, socket file, port | migrate, probe, remove, bind, listen, shut down | two processes, two releases, crash, signal | versions match the schema, a lone daemon is reached |
| Local tokens, API keys, telemetry tables | rows | insert, update, summarise, prune | bounded deletes | rows match |
| Redaction, TUI views, configuration | none that outlives a call | | | data and layout, not modelled |

How they interact: a route handler checks and converts the request
(`RequestRoutes`), resolves credentials (OAuth refresh for OAuth routes),
filters them by what discovery proved, plans an order without quota-blocked
ones and runs the attempt loop of the pool; an attempt is a stream exchange. A
401 leads back into OAuth refresh, an ineligible model into discovery.
Discovery itself refreshes bearers. A native stream waits at its first event
for the pool usage header, which reads the rows that the console and the
keep-alive run refresh too. All persistent state is in SQLite, all coordination
(tracker, flights, sessions, caches) in the memory of the one serving process;
the console reaches it over the socket that a start takes possession of.

## 2. Modules

### `CredentialPool`

A value of `Requests` is a handler goroutine, serving one request after
another. The completed, streamed and native loops share their control flow and
are one loop with `KindOf`; they differ in the discovery 401 (not retried by
the native loop), in the first byte (none for completed answers), and nowhere
else that the properties see.

| Action | Code |
|---|---|
| `Plan` | `planCredentialAttempts`: affinity order, removal of quota-blocked credentials; a failed read of the blocks keeps all |
| `Reserve` | one pass of the loop up to the reservation: `reserveCredentialAttempt`, under the tracker's mutex, with the fallback event it reports |
| `FindEligible`, `FindIneligible` | the re-check of model entitlement before the call; the deferred release is part of the early return |
| `FirstByte`, `Reply` | the sink's header; the adapter's outcome, with the deferred release |
| `RefreshFails`, `Reattempt` | the refresh after a 401 and the second attempt, which is tracked without choosing |
| `Settle` | final outcome of the attempt: quota refusal noted, fall back or stop |
| `Record` | `record...Chat`: the refusals reach the store in so far as they can be written |
| `Expire` | a block's cooldown has passed |

Order matters in the tracker: candidates are slots of a slice, taken from a
tie-break position going round. Slices are sublists of the store's list turned
by the affinity hash, so a position is a credential and `Distance` on
`CredentialOrder` gives the source's scan without sequences per request.

### `OAuthRefresh`

The accounts of one provider instance, their rows, the flights of
`OAuthRefreshCalls` (one per credential, one for the provider, which runs
credential flights inside), and the issuer as an external party that honours
a set `live` of refresh tokens. Tokens are numbers; a rotating issuer uses a
token up when it answers. Each await or transaction of the code is a step:
`Enter`, `Check`, `Select`, `Send`, (`Exchange`, `Refuse`, `Fail`), `Store`,
`Describe`, `ReadFailure`, `MarkFailure`, `Close`, `Delete`. `Close` and
`Delete` are apart because the code closes `done` before it takes the lock to
remove the call. `Cancel` ends a caller's context, `Restart` the process,
`Login` stores a completed device login outside of any flight.

Abstractions: classes other than the terminal ones are one class "transient";
the failure count saturates at `MaxFailures`. The compare-and-set on class and
count therefore matches at least whenever the code's does, so no race of the
code is lost. Time is a three-valued expiry and a boolean retry-after.

`spoiled` and `blame` are history variables: the grant of the row was lost or
revoked; the token whose refusal set the terminal class.

### `CredentialDiscovery`

A key is a credential with a generation of its bearer. Flights go through
list, refresh, relist, reject, write, publish as the goroutine of
`observeCredentialModels` does; the cache's eviction, its two lifetimes, the
transient failure that keeps a fresh proof, and the callers' join, abandon and
verdict are those of the code. The refresh of the bearer is one step here, the
module above is its detail. Ages count ticks up to the longer lifetime.

### `ModelCatalog`

One pass over all providers at a time (`modelCatalogRefresh`), shared by
listings and by bare names that the stored rows do not resolve. Goroutines ask
the providers at the same time (`Discover`); the pass takes their answers in
the registry's order and writes rows as it goes, so an error or the end of its
ninety seconds leaves the earlier providers replaced and the later ones not.

| Action | Code |
|---|---|
| `ListModels`, `ResolveModelAddress`, `Abandon` | a caller shares the pass, takes the replayed result, starts a pass, or leaves |
| `ReadCache` | the rows are read once, before anything is asked |
| `Discover` | what one provider's goroutine brings: an error of the resolver, or an answer or none for each account |
| `TakeStatic`, `TakeLive`, `TakeNothing` | the three ways through the loop's body: keep the rows, replace or merge them, fall back |
| `TakeError`, `WriteFails`, `Overdue`, `Conclude` | the ends of the pass; `Finish` keeps the result and wakes the callers |
| `CoolDown`, `ForgetLastGood`, `Restart` | the second is over; the memory drops a listing; the process restarts |

`discoverModelsWithCredentials` takes the first account that answers, or for a
Codex provider the union, which is complete only if every account answered.
How one account is observed is the module above. `last` is dropped at the
moment the code stops replaying it, and waiters wake in the step that closes
`done`; account selectors in bare names are left out.

### `EphemeralModelCache` and `RecencyCache`

`RecencyCache` is the abstract specification of the memory of last listings:
an identifier has at most one listing, `older` orders identifiers by use, and
`Put` keeps as many of the most recently used ones as fit. `EphemeralModelCache`
is the code: slots, a running number that is wound back at the end of its range
(`nextSequenceLocked`), a byte count beside the entries, a purge, and a loop
that removes the oldest entry until there is room. The refinement mapping reads
`held` and `left` off the slots and `older` off the running numbers. The size
of a listing stands for `retainedCodexModelsBytes`. `ModelCatalog`, its only
caller, sees it as a choice to keep or forget; calls do not overlap because
there is one pass at a time.

### `RequestRoutes`, `Joining`, `Transcript`, `ChatRequest`, `ResponsesRequest`, `AnthropicRequest`

One request on its way through its route to the document that is sent
upstream. The client is external: it writes a conversation turn by turn
(`Speak`), in its dialect, each turn a message of its own or turns of one
speaker grouped; `Send` ends it. Then each stage of the handler is a step, and
`Stages` holds the five orders the handlers have.

| Module | Code |
|---|---|
| `Joining` | sequences put together of sequences, as loops that append do; the stream readers use it too |
| `Transcript` | what a conversation is made of: parts, messages, items, and the places of a call and its results |
| `ChatRequest` | `openai/chat_validation.go`; the transcript check and the body of the Codex adapter (`CodexToolTranscript`, `MarshalCodex`); the body of the other adapters |
| `ResponsesRequest` | `openai/responses.go`: which items and fields are allowed, and `ToChatCompletionRequest` with its loop over items, a message for each run of calls (`RunStarts`, `ChatOf`) |
| `AnthropicRequest` | `anthropic/content.go`, `chat_conversion.go`: blocks to messages (`Turn`), which results are answers (`ResultsAnswer`), options by provider |
| `RequestRoutes` | the stages (`Authorize`, `ReadBody`, `DecodeBody`, `ResolveModel`, `Convert`, `Accept`, `Credentials`, `Execute`, `CountTokens`), who is told what, and what is recorded |

Words are model values; whether an option is present matters, its value does
not, except that it is not the default, and that the stop strings of an
Anthropic client are a list of another Go type (`stop`), which `StopAllowed`
refuses. Fields the decoder of a dialect does not
know are refused; of the two places a Codex client has for its service tier, the
one in `provider_options` wins, so that the other is `LocalOptions` then. The
loops of the source that append to a list are written with `Flatten`, what each
element adds one after the other, and those that group elements with `Cut`, the
runs between two places; a loop's sets of pending and answered ids are written
as what they decide, a result with a call before it and no other result of that
call. So a definition has no state of its own, and proofs can speak of places in
a conversation. `stage` is where
the handler is, `told` the answer of a refusal, `recorded` the row of
metadata, `asked` whether the credentials were resolved (which may refresh a
bearer). An unknown token and a body that is not JSON are told to the client
without a row.

### `StreamExchange`, `ClientStream`, `StreamSink`, `StreamRelay`, `CodexStream`, `CodexCollect`

`ClientStream` is the abstract specification of what a streaming client is
promised: chunks, then one end, which is `[DONE]`, one error event, an error
document in place of a stream, or a cut; an answer composed here is finished
before it is done. `StreamExchange` implements it (`KeepsPromise`) with all
three adapters.

| Module | Code |
|---|---|
| `StreamSink` | what the adapters share: connecting and its refusals, reading one event, writing its chunks one by one while the client may leave at each, the summary, the handler's return with its error event or error document |
| `StreamRelay` | `http_stream.go` (chat completion chunks: choices, calls, logprobs, usage, `[DONE]`) and `codex_responses_relay.go` (blocks passed on until a terminal one) |
| `CodexStream` | `codex_responses_stream.go`: deltas, whole texts and finished items to chat chunks; the table of calls, the aggregate limit, what is kept until the end |
| `CodexCollect` | `codex_responses_parse.go`: the same events collected into one answer, with its three texts, the entries of calls, the custom calls and their aliases |
| `StreamExchange` | the upstream: a message of items, each sent as deltas, whole, as an item, or several of these; `Lose`, `Repeat` and `Stray` disturb at most `MaxFaults` events; the connection may end at any of them |

The two readers of Codex run on the same events in one step, so what they make
of an answer can be compared. A piece of text is a number, so that a chunk
tells which piece it holds; `Suffix` is what is left of a whole text after its
deltas. The native relay writes what it reads, so `Phase` takes its own end
from the summary.

### `DeviceLogin` and `LoginConsole`

`DeviceLogin` is the daemon: a start looks at the limit of sessions
(`CheckCapacity`), asks the issuer (`IssueCode`), and puts the session under
the lock (`Put`); a completion takes it out (`Take`), polls until the code is
approved or the deadline passes, exchanges and stores. Each start and
completion is a job of its own; sessions expire, and a `Restart` drops all.
`LoginConsole` composes it with the terminal: keys and messages of the update
loop are atomic, the two calls of a login run beside it under a context each,
and their reports arrive later. A second client may complete a handle too.

### `PoolUsage`, `Keepalive`, `IOLog`, `DaemonStart`

`PoolUsage`: streams that share a read of the accounts' usage (`Read`,
`Refresh`, `Skip`, `Finish`, `Deadline`, `Abandon`), an operator's refresh of a
row at any time, and a clock. A row has one window; `HoldsUntil` is when what
it says ends. `row` is the "codex" row of an account; an additional metered
limit that names itself so would be stored there too.

`Keepalive`: the ticker holds one tick (`Minute`), a run goes over providers
and accounts (`RunDue`, `Resolve`, `RunCredential`, `ListModels`,
`CompleteChat`, `RefreshUsage`) and any of these may fail; `completed` says
what is done in a slot. `Clock` maps minutes to the date and time of day.

`IOLog`: a file is a sequence of bytes that name their record. `Record` rotates
if the record does not fit, with a failure at the close, at every rename and at
the reopening, and then writes it wholly or cut short, with a rollback that may
fail too; `Crash` is the same cut off anywhere, `SetupIO` the next start.

`DaemonStart`: the sixteen migrations with the form of their statements over
sets of columns; a start begins (`Begin`), migrates in one transaction that a
concurrent one makes fail, then looks at the path, probes, compares and removes
a stale socket, binds, listens, owns; then the port, a signal, and the way
back. `crossed` is a history variable: another process was on its way up or
down meanwhile, or a signal interrupted a probe. Inode numbers are reused, as
the comparison before a removal must allow for.

### `DaemonParts`

These five and `EphemeralModelCache` share no state, so a product of them
would only multiply the states. `DaemonParts` is their sum: the first state
picks a part, all steps are of that part, the other variables keep their
initial values, and a part's property is asked of its own states. The
refinement of the cache is asked of the steps of its own part. Its constants
are those of all parts; `MCDaemonParts` has values for the run.

## 3. Runs

All runs are exhaustive. States are distinct ones.

| Run | Question | Instance | States |
|---|---|---|---|
| `CredentialPool` | accounting, exhaustion, reports, nothing after the first byte, fair spread | a streaming request with affinity and a completed one, two OAuth accounts, all kinds of outcome | 2.2 M |
| `OAuthRefresh` | lock-outs, refused bearers | two callers, one cancellable, one account, two tokens to hand out | 0.88 M |
| `OAuthProgress` | every call returns, with a device login in between | two callers, both kinds of flight, one login | 231 k |
| `OAuthReauth` | does re-login end a lock-out | two callers, one login; **violated**, see 6 | |
| `CredentialDiscovery` | proofs and bearers, observers return | two callers, two generations of one account, room for one catalog | 135 k |
| `ModelCatalog` | lost hints, replayed results, every caller answered | two callers; a Codex provider with two accounts, a plain one, one without discovery | 62 k |
| `StreamExchange` | the client's answer, the summary, the promise | eight messages of one or two items, four ways to send text and five to send calls, six endings, nine chat streams, one fault of any kind | 1.5 M |
| `LateText` | is text that came whole delivered beside a call | one message, no faults; **violated**, see 6 | |
| `RequestRoutes` | the conversation, its order, refusals, options | all conversations of up to four turns in three dialects for three kinds of provider, all pairs of options, tool sets and choices, and ten troubles | 730 k |
| `StopSequences` | are an Anthropic client's options accepted that the upstream knows | as `RequestRoutes`; **violated**, see 6 | |
| `DaemonParts` | the six parts | one session at a time and two logins; two accounts and three minutes; three slots for four listings; two accounts and a clock put back; three files of three bytes and four records; two processes of two releases | 846 k |
| `LiveSocket` | does a start spare a live socket | two processes; **violated**, see 6 | |

Why the bounds are enough: the races found in these protocols are between two
callers and one row, or two flights of one credential; a third caller can only
join a flight like the second. Two accounts allow one fallback, and a handler
that would pile up on the account the other holds is seen at its first
reservation; `SpreadFairly` is for any number of handlers. Two tokens allow a refresh
of the result of a refresh; `OAuthProgress` has none to hand out, for an answer
and a refusal end a call in the same way. A cache with room for one catalog of
one or two bytes makes every observation evict. In `ModelCatalog` two accounts
make a partial union, the plain provider a first answer, and three providers an
error with one before and one after it. `MarkTries` is two where the code
has 8: a failure record that loses to a login is read and tried again, also in
`OAuthProgress`, and that all tries lose ends the call like any failure.

In `StreamExchange` two items make every order of text, call and custom call;
a piece of two deltas makes a whole text that is partly written; `MaxAggregate`
and `MaxEvents` lie between the shortest and the longest stream, so that both
limits act. One fault is enough to lose, repeat or misplace any event;
the properties that compare the answer with the message ask only undisturbed
streams, the promise and the summary are asked of all. In `RequestRoutes` four
turns are two calls and two results in any order, with the turns around a call
in the other conversations. DeepSeek and grouped items of Responses get two
turns, since they take the same paths as their neighbours.

In `DaemonParts` two logins with room for one make the second look at the limit
race the first put; a pool with a window of one length makes age and reset
differ; the header's choice among windows of several lengths is left out.
Sequence numbers to four over three slots make the renumbering happen with
every set of survivors. Records of one, two and four bytes fit, just fit and
never fit a file of three. Releases 9 and 16 stand for an older program and the
newest; one spare inode lets a number be used again.

Fairness: weak fairness for what a goroutine does by itself (the Go scheduler
is fair to runnable goroutines), and for the outcome of an external call,
because every call has a timeout: the streaming adapter's header and idle
timeouts (`provider/http_stream.go:195-221`, `305-340`), 30 s for the OAuth
refresher (`provider/oauth.go:67-78`), and the discovery timeout
(`server/credential_model_discovery.go:56`); in `ModelCatalog` every goroutine
ends or is cut off by the ninety seconds of the pass
(`server/model_catalog.go:77`). No fairness is assumed for new requests, time,
logins, cancellation, or success of a call. The runs without liveness
(`CredentialPool`, `StreamExchange`, `RequestRoutes`, `DaemonParts`) assume none,
and the systems of the last three may stop: a stream ends, a request is answered, nobody starts a daemon.

## 4. Properties

Each property is stated in a comment at its definition. In short:

* Pool: `PressureAccounting`, tracker counts are the running attempts, through
  early returns and the auth retry; `PoolExhaustedBeforeFailure`, no retryable
  failure is returned while a planned credential is untried and nothing was
  sent; `FallbackTrail` and `RefusalsExplainFallbacks`, the reports are one path
  through the plan and agree with counts and refusals;
  `NoAttemptAfterFirstByte`; `FairShare`, no account carries more than its share
  of the attempts when a handler reserves it.
* OAuth: `LockedOutOnlyByLoss`, `TerminalUntilReauth`,
  `RefusedTokenNotPresented`, `RefusedBearerOnly`, `EveryCallReturns`. The
  first and `RefusedBearerOnly` exempt an account that was logged in again,
  where finding `OAuthReauth` shows them to fail; the other two do not.
* Discovery: `ProofMatchesBearer`, `DiscoveredBearerIsUsed`,
  `ProofOutlivesTransientFailure`, `NoHammering`, `EveryObserverReturns`.
* Catalog: `HintsLostOnlyIfDisowned`, a failed, partial or late pass loses no
  stored model; `AddressesAreRows` and `ListedIsAddressable`, what a pass pieces
  together agrees with the store; `EveryCallerReturns`.
* Streams: `StreamedExactly` and `CollectedExactly`, both readers of an
  undisturbed Codex stream make of it exactly the message that was sent;
  `HonestEventsAccepted`, they take none of its events for an invalid one;
  `CompletedMeansDelivered`, what is recorded is what the client has, and of a
  failure it is told; `KeepsPromise`, every adapter implements `ClientStream`.
* Requests: `SameConversation`, every turn, once, in order, with its speaker;
  `PairedResults`, a result follows its call; `WellFormedAccepted`, a
  conversation whose calls are answered is refused nowhere;
  `OnlyLocalOptionsDropped`, no other option is lost in silence (what is refused
  is not lost: finding `StopSequences`);
  `RefusedBeforeCredentials`.
* Parts: `SessionsBounded` and `SingleUse` of logins, `ShownCodeIsAwaited` of
  the console, `HeaderTellsTruth` of the pool header, `OncePerSlot` of the
  keep-alive, `LogIsBoundedTail` of the log, `SchemaAsVersioned` and
  `ReachedAtPath` of daemons, `ImplementsRecencyCache`.

Not claimed: that every idle credential of a token is eventually chosen. With
overlapping handlers it is false for the code, since the cursor only breaks
ties and a steady overlap can keep one credential's pressure above another's.

Behaviour that was met while modelling, and that no property speaks against:

* Escape in the console cancels the client's context only; the daemon's
  completion polls on and may store an account the user gave up.
* A clean shutdown closes its listener, which unlinks whatever is at the path,
  another daemon's socket included; `ReachedAtPath` is therefore asked only
  while starts and stops do not cross.
* The keep-alive run reads an account's usage and does not store it, whereas
  `docs/ilonasin-architecture.md:525` speaks of a refresh of the rows.
* A tool result without words is sent to Codex as an item without output
  (`provider/codex_responses_request.go:100`).
* Two texts of one Anthropic user message become an array, which the DeepSeek
  adapter refuses; `StringsOnly` keeps such requests out of
  `WellFormedAccepted`.
* A call that is ended by its arguments and again by its item ends a stream
  with an error, also if both ends agree, whereas the collecting reader takes
  it; `TwiceEnded` keeps the case out of `HonestEventsAccepted`.

## 5. Proofs

`CredentialPoolProofs` proves, for all values of the constants that satisfy
the assumptions of `CredentialPool` (finite set of handlers, distinct
credentials, well-typed request attributes):

* `TypeCorrect`: `Spec => []TypeOK`. `TypeOK` is not inductive: a release
  indexes the tracker with `current[r]`, which must be a credential then.
  `Engaged` adds that, and that only a handler about to choose has a reason
  to fall back.
* `AccountingCorrect`: `Spec => []PressureAccounting`, inductive given the
  types. `Joins` and `Leaves` say what a handler that starts or ends an attempt
  does to the set of holders of a key; `Release`'s floor at zero never acts
  because a holder exists.
* `WholePoolTried`: `Spec => []PoolExhaustedBeforeFailure`, by an invariant
  (`LoopInv`) on the loop: what is used is in the plan, and a handler that
  records a retryable failure without bytes sent has none remaining.
* `NothingAfterFirstByte`: `Spec => NoAttemptAfterFirstByte`, from an invariant
  that a handler before its call has sent nothing.
* `TrailIsPath` (`Spec => []FallbackTrail`) and `RefusalsExplained`
  (`Spec => []RefusalsExplainFallbacks`), by one invariant, `Reported`. The
  trail so far is a path through the used credentials, each left once, that ends
  at the current one; the attempts are the credentials used and the retries
  after a refused bearer; the refusals are the credentials left for their quota,
  and the current one between its refusal and the fallback. A step of another
  handler leaves all of that alone (`OthersRest`).
* `SpreadFairly`: `Spec => FairShare`. `Reserve` takes a credential of least
  pressure, which a handler holds at most once: the holders of the credentials
  that remain are disjoint sets of other handlers, so that pressure times the
  number of these credentials is at most the number of other handlers (`Crowd`,
  by an injection).

`ModelCatalogProofs` proves, for every registry without repetitions and all
accounts, callers and models:

* `TypeCorrect`, with `Sound`: only discovering providers have something found.
* `HintsKept`: `Spec => HintsLostOnlyIfDisowned`. Only `TakeLive` removes
  rows, only a complete answer does, and completeness of a union is an answer
  of every account.
* `ReplayAgrees` and `ListingRoutable`, by the invariant `Agreement`: while a
  pass collects, its addresses are the rows of the providers in `Taken`, and
  what it read of the others is still stored, since only the pass writes. A
  provider is taken once because the registry does not repeat one; at the end
  `Taken` is the whole registry. Listed models are addresses because the memory
  of a provider is part of its rows.

`DaemonPartsProofs` proves first, for every number of logins, clients, accounts
and sessions:

* `LimitKept` and `HandleUsedOnce`: `SessionsBounded` and `SingleUse`, by one
  invariant. `Started` says that only a login that has started has a session or
  a completion, so a put cannot bring back a used handle; `OneTook` that a
  handle whose completion took it is gone and has no other; `Bought` that
  tokens are asked for, and stored, only for an approved code. A restart ends
  every job, and turns the completions that had not taken anything into refused
  ones.
* `ConsoleIsClient`: `ConsoleSpec => Spec`, the composition with the terminal
  implements the daemon's specification; the mapping is the identity.
* `ShownAwaited`: `ConsoleSpec => []ShownCodeIsAwaited`, since a report comes
  only of a call that was made (`Heard`), and what was called stays called
  (`CalledForGood`), a restart included.
* `LoginsOfParts`: `PartsSpec => ConsoleSpec`, so all of this holds of the
  composition as well.

It then proves of the five other parts, for all values of their constants, that
each keeps its properties on its own and in the composition `DaemonParts`, where
only the part of the first state moves (`PartNext`):

* `PingedOncePerSlot` (`Ping!Spec => []Ping!OncePerSlot`) for every clock, also
  one that repeats times, every schedule and set of accounts, if slots are pairs
  and a catalog has a model ID once. The invariant says that the run's slot and
  every completed one are among the times the clock showed (`InSlot`), that an
  account's pings in a slot are at most the restarts, and one more only if it is
  completed, and that an account on its way to its ping is not completed
  (`Counted`): the loop is one goroutine, so nothing completes it meanwhile.
* `HeaderTrue` (`Pool!Spec => []Pool!HeaderTellsTruth`) for every set of
  accounts and streams, threshold and windows. The invariant (`Fair`) says of
  what a stream was told that it is true up to the time it carries as its end, of
  the requested accounts and no other. Later fetches change rows but not the
  answer, and the end is the least of the accounts' `HoldsUntil`; that a set of
  numbers has a least is taken from the library's well-foundedness theorems.
* `BoundedTail` (`Log!Spec => []Log!LogIsBoundedTail`) for every number of files
  and records, every limit and all lengths of bodies. Unless a rollback failed,
  the files are `Good`: besides what the property says, that their bytes are of
  records begun (`Begun`), which makes a new record the newest, and that
  generations are filled one after the other (`NoGap`), which is why a rotation
  that drops a record finds all of them in use. `ShiftKeeps` finds the oldest
  record that is still whole when a file is dropped: the one after the last byte
  in it, as the bytes are in order and no record is in two files. What is rolled
  back leaves the files as they were only because the logger knows the length of
  a file that is not closed (`KnownIsLength`).
* `ReachedWhereBound` (`Daemons!Spec => []Daemons!ReachedAtPath`) for any number
  of processes, inodes and crashes. As long as nothing crossed (`InTurn`), one
  process comes or goes (`Alone`), whoever holds a socket has it at the path
  (`Reached`), and whoever is past the probe, or on its way down, knows that no
  other serves (`Cleared`); who serves has the port. That inode numbers are
  given out again does not matter then. What is at the path only counts for a
  process that touches it, so an action needs to show no more than what
  `InTurnKept` asks.
* `SchemaVersioned` (`Daemons!Spec => []Daemons!SchemaAsVersioned`) for every set
  of processes and of releases. A process that migrates has read a database of
  some version (`Versioned`), which it may write only if nobody has committed
  since. `BroughtTo` says what the missing migrations make of it: what all of
  them would have made of nothing. That rests on facts about the loop over the
  migrations, which are inductions (`Inductive`, over a set of numbers, from the
  least-number principle): what has run is passed over (`DonePassed`), and two
  schemas that agree once agree from then on (`MigratedOn`). The old database,
  which lacks a column, agrees from migration 6 on (`OldCatchesUp`), as
  migrations 2 to 5 leave the table of tokens alone (`EarlySteps`).
* `CacheIsRecency` (`Cache!Spec => Cache!Recency!Spec`) for all identifiers,
  listings, sizes, lifetimes, limits and ranges of the running number, if an
  entry is neither a listing nor an answer and the range has room for a number
  more than there are slots. The invariant (`Orderly`) is that no identifier and
  no number is there twice, that no number is beyond the running one, and that
  the byte count is that of the entries (`Sound`), so that the floor at zero
  never acts. `WithoutSome` and `EvictedSome` say what the loops leave, by
  induction over their rounds: an eviction ends with room, and no set of most
  recently used entries that fits is more than it kept. `RankOrder` is why the
  renumbering keeps the order, and `FittingNames` takes sets of entries to the
  sets of identifiers the abstract specification speaks of, with their bytes.

`RequestRoutesProofs` proves, for all requests, sets of options, conversations
of any length and both upstream formats, if a request's dialect is one of the
four and its provider one of the three kinds (`DialectAssumption`), if a call
and its result have an id, only the user shows images, and a turn is one of the
five kinds (`ConversationAssumption`), and if the limit of tools is a number
(`MaxToolsAssumption`):

* `RefusedFirst` (`Spec => []RefusedBeforeCredentials`): a request is at a stage
  of its route, and what follows the credentials is the document on every route
  (`CredentialsLast`); what the checks themselves decide does not matter.
* `OnlyLocalDropped` (`Spec => []OnlyLocalOptionsDropped`). The checks are in
  another order on each route, so the invariant (`OptionsInv`) says what a check
  has established as a fact of every stage that is `Past` it: what fields the
  decoder let in, what the conversion made of them, and which of these the
  provider refuses. `Onward` is why such a fact need only be shown once, at its
  stage. At the document all of them hold (`AtExecute`), and `OptionsReach`
  follows each option through the conversion and the marshalling; that nothing
  falls between the fields one step knows and those the next handles is the
  content of the theorem.
* `ResultsPaired` (`Spec => []PairedResults`). `DeliveryInv` says, stage by
  stage as above, what the route has established of the conversation, so that a
  document that is sent is `Prepared`. Each message and item is then taken to
  the calls and results in it, its events (`MsgEvents`, `ItemEvents`), and a
  sequence of events is `Tidy` if every result has its call before it and none is
  there twice. `TranscriptTidy`, `ToolsTidy` and `AnswersTidy` get that from the
  three checks of the source, each of which looks at another form of the
  conversation, and no conversion adds, loses or moves an event
  (`MessagesEvents`, `InputMessagesEvents`, `MessagesAre`).
* `ConversationKept` (`Spec => []SameConversation`). What a turn, a message, a
  block and an item say is a sequence of words (`TurnSays`, `MsgSays`,
  `BlockSays`, `ItemSays`), each by its speaker. `MessagesSay` shows that the
  messages of a request say what was said, from each dialect, and `SaidSent`
  that what is sent says what the messages do, the system's words apart. Grouped
  turns are where order could be lost, since a message has its results first and
  its calls last; `SplitSpread` is why a run in that order loses nothing.
* `WellFormedNeverRefused` (`Spec => []WellFormedAccepted`). `FineInv` says that
  a request nothing is wrong with (`Fine`) has been told of no refusal; it is
  inductive beside the three invariants above, which say what a check is given.
  `FinePasses` takes the checks one by one. That they accept what a client
  writes is a fact about its document: each message or item has the form its
  decoder asks for (`ChatFine`, `ItemsFine`, `AnthropicTurns`), and what it
  becomes is something the provider takes (`ChatPresentable`,
  `ResponsesPresentable`, `AnthropicPresentable`). The checks of calls and results look
  at the whole document: `SaidTidy` says that the calls and results of what is
  said are in order, and what is written of a run has those of the run
  (`ChatRunEv`, `ARunEv`), so `FineTranscript`, `ItemsTranscript` and
  `TidyAnswers` get from the order what each of the three checks asks for.
  `RunsAlone` is where `StringsOnly` is needed.

The facts about conversations these rest on are in `ConversationProofs`. The
sequences are arbitrarily long, and every conversion is a `Flatten` of what
its elements become (`Spread`). `JoinedStep` gets from the recursive function the
two facts the rest needs, by induction over a set of numbers; `SpreadConcat`,
`SpreadFlatten` and `SpreadSpread` are the algebra of it, and `SpreadPlaces` and
`SpreadOrder` say where an element of the result comes from and that places keep
their order. `SaidRuns` and `SpreadRuns` say that cutting into runs loses nothing.

`OAuthRefreshProofs` proves, for every number of callers, accounts, tokens and
logins, whoever cancels and however often the process restarts:

* `OneFlight`: one caller at a time works on a refresh of a credential. The
  invariant `SingleFlight` says that whoever is at a stage of `Leading` is the
  leader in the map; it is what makes everything below a matter of one caller
  per account.
* `NeverPresented` (`Spec => []RefusedTokenNotPresented`). `NotLockedOut` says
  that an account is not locked out while its leader asks; only the leader locks
  it out, as its last act. Logins do not disturb this.
* `LockedOutByLoss` (`Spec => []LockedOutOnlyByLoss`). `Held` is the invariant
  needed: with no login beside it and no loss, the issuer honours the stored
  refresh token, or the leader carries the answer with the next one; a token
  under way is the stored one; a leader has no terminal answer. A login breaks
  `Held`, since the leader may hold a token of the grant before.
* `LockedUntilLogin` (`Spec => TerminalUntilReauth`) and `RefusedBearerReplaced`
  (`Spec => RefusedBearerOnly`). `Refused` says that a leader which answers a
  refused bearer goes on only while that is the stored one; it is checked in
  `Select` and nobody else can change it before `Store`.

Most steps are `Calm`: they touch no row, and bring no caller between its lookup
and its last word. `CalmSteps` deals with them at once.

`CredentialDiscoveryProofs` proves, for all callers, accounts, generations and
catalogs:

* `ProofsAreEvidence` (`Spec => []ProofMatchesBearer`). `Evidence` says that
  what a flight has seen was said of the bearer it observes now, and that it has
  seen only failures as long as it may still refresh; a refresh moves the flight
  to the next generation and forgets. The cache's operations keep an entry, drop
  it, or put what the flight saw (`EvidenceKept`).
* `ProvedIsServed` (`Spec => []DiscoveredBearerIsUsed`), with `Informed`: a
  caller was told of the key it holds or of none.
* `AskedOnlyIfUnknown` (`Spec => NoHammering`), from the lookup under the lock.
* `CacheWithinLimits` (`Spec => []WithinLimits`): the count of retained bytes is
  that of the entries, and the limits hold; by itself inductive. The bytes of
  entries are counted as cells, one for a byte of a key, so that a sum over
  entries is a cardinality and the library's facts about unions and products of
  finite sets apply (`TotalOfBoth`, `TotalOfMore`, `StoredBytes`). It assumes
  that there are finitely many credentials.
* `ProofsOutliveFailures` (`Spec => ProofOutlivesTransientFailure`). That an entry
  is evicted only from a full cache (`PutEvicts`) needs the true count.

`StreamExchangeProofs` proves, for all messages, events, faults and limits, and
so for streams of any length:

* `DeliveredAsTold` (`Spec => []CompletedMeansDelivered`).
* `PromiseKept` (`Spec => KeepsPromise`): the adapters implement `ClientStream`,
  each step as one of its steps or none.
* `StreamDelivers` (`Spec => []StreamedExactly`), for messages of any length whose
  texts and calls are sent in any of the ways `CodexAssumption` allows.

`CompletedMeansDelivered` is not inductive. `InOrder` says that the chunks yet to
be written continue what the client has (`Follows`), and that those of an end
are only written while the reader still reads; `Stages` ties reader, client and
answer together; `Told` says at each stage what the summary already tells. A
handler's effect on them is one of three (`Effect`): it adds content, ends the
answer, or gives up, and each event of the three readers is shown to have one,
for any event, so also for one the upstream repeats or makes up.

For `StreamDelivers`, a place in the stream is an item `k` and how many of the five
events that an item may have are past, `s`. `Stands` says that what is still to
come is what follows that place, and `Reading` what the reader has made of what is
past: the text the client has is that of the deltas, the kept texts are those that
came whole and in items (`TextPart`), and the calls it was told of are those of the
items before, each with its arguments, and of item `k` as much as was sent
(`CallPart`, `Partial`). An event that is read takes the reader to the next place
that has one (`Handled`), and after the last, `EndHandled` writes the
text it kept and the end. `ReaderInv` says so of the steps: as long as nothing
disturbed the stream, the reader is at some place with all that was read written
or about to be, or has failed, or has said all. That the events of an
item are at the head of the rest, and that its text follows that of the items
before it, is shown by induction over the items, which is done with the least
number of a set (`LeastNumber`). `CodexAssumption` says of the upstream that an
item comes in full in at least one way, and that arguments come in pieces or as a
whole only after the call was announced.

Only model-checked: what the collecting reader makes of a message
(`CollectedExactly`) and that neither reader takes an honest event for an invalid
one (`HonestEventsAccepted`). The library's induction theorems
take an operator, which the provers cannot instantiate, and its `FoldLeft` is
defined by such an operator too, so nothing about it can be proved; the loops
over the migrations, over the slots of the model cache and over conversations
are written as functions for that reason, and an induction over a set of numbers
does. All liveness is model-checked only, which is out of the prover's reach.

## 6. Findings

`OAuthReauth`: `recordOAuthRefreshFailure` reads the failure state after the
issuer refused and then compares class and count only. If a device login
stores new tokens and clears the failure in between, the state it reads is
`('', 0)`, the compare matches, and the re-authenticated account is marked
terminal for the refusal of a token it no longer holds. The architecture
document (`docs/ilonasin-architecture.md:761-763`) says a lock-out lasts until
the account is reauthed and the failure cleared.

`LateText`: `docs/plans/016-codex-streaming-chat.md:74-75` says that text which
came without deltas is mapped to one content chunk. At the end of the stream
the kept text is written only if no tool call was streamed either
(`provider/codex_responses_stream.go:499`), so an answer of text and a call
whose text came whole loses its text and ends as completed. `StreamedExactly`
says what holds beside it.

`StopSequences`: `docs/plans/191-anthropic-messages-compat.md:50-51` has
`stop_sequences` accepted where they can be represented. `ToChatCompletion` keeps
them as a `[]string` (`anthropic/chat_conversion.go:85-88`), and `validateStop`
knows a string and a `[]any` (`openai/chat_validation.go:949-966`), so that the
route answers 400 to every such request for OpenRouter or DeepSeek
(`server/anthropic_route.go:59`). A Codex request has none of these options and is
not concerned. No test sends `stop_sequences`.

`LiveSocket`: `docs/plans/078-daemon-management-local-tokens.md:150` says that a
second daemon refuses to unlink or replace a live socket. A start takes every
failed probe for a stale socket, also a probe that its own signal interrupted
(`management/socket.go:46`, `90-98`), and so removes the socket of a running
daemon; between another's bind and listen the probe fails too.

## 7. Not modelled

Local tokens, API keys, telemetry, pruning: single transactions on rows that no
other step of the models reads. Redaction, views, configuration and the wire
formats of models: conversions of one value without order. The Responses and
Anthropic SSE writers turn a finished answer into events without any state. In
the modelled parts: the ranges of numbers and the schemas of tools and formats,
token, cost and latency figures, the inventory of banked resets, selectors of
accounts in bare names, and the times of quota blocks. `PROJECT.json` gives the
reason for each part.

## 8. Plan

1. Refinement: an abstract bearer store (a bearer is replaced only by its
   successor or a login) implemented by `OAuthRefresh`, and the one-step
   refresh of `CredentialDiscovery` implemented by it.
2. `QuotaBlocks`: observations with times, the text order of timestamps, the
   plan that reads them.

# mcp-gitea-rs in TLA+

TLA+ models of `mcp-gitea-rs`, an MCP server in Rust that exposes the Gitea API
as tools: what it keeps in memory between requests, what happens when requests
interleave, and what it tells its clients about the changes it makes upstream.
Every definition is translated from the code under `src/crates/`;
`PROJECT.json` (`map`) names the lines of each. Modules are checked with TLC on
small instances; the retained stores, the key cache, uploads, downloads, calls,
the bootstrap workflow, reply shaping and selection, lists and tokens, and what
the tools tell a client are proved correct with TLAPS for every instance.

## The system

| Component | State it keeps | Operations | What is hard |
|---|---|---|---|
| Retained stores (`gitea-mcp/resources.rs`, `owners.rs`) | a store of payloads per identity, one byte budget for the process | insert, read, page, expire, evict, reclaim; get an identity's store | the budget is an atomic counter shared by stores with different locks; payloads outlive their entry while a reader holds them; clock readings are older than the lock they are used under |
| File plane (`files.rs`, `files/downloads.rs`, file routes of `server.rs`) | upload tickets, staged uploads, download grants, each map under its own lock | authorize, verify, receive, take a secret; authorize and read a download; sweep | single use, expiry between two steps, one cap over two maps |
| Identity keys (`gitea-server/identity.rs`) | cached signing keys, next refresh time | refresh on demand, verify an assertion | failed, slow and cancelled refreshes against the revocation bound |
| Admission (`server.rs`, `auth.rs`, execution slots in `gitea-mcp/lib.rs`) | ingress and execution semaphores | admit, run a tool, time out, cancel | a cancelled HTTP request whose tool still runs |
| Call outcomes (`gitea-api/lib.rs`, `execute.rs`, `token.rs`, failure reports in `gitea-mcp/lib.rs`) | none | send one request, classify its failure, advise a retry | claiming "not sent" of a request that took effect |
| Bootstrap workflow (`bootstrap.rs`, `bootstrap/extensions.rs`) | a report of steps and compensations | the ordered changes that set a repository up | lost answers, concurrent changes, partial failure without rollback |
| Requests (`gitea-api/execute.rs`, checks in `lib.rs`) | none | arguments to path, query, headers, body; refuse what cannot be sent | a value that moves the request elsewhere or is dropped |
| Reply shaping (`lib.rs`), selection (`selection.rs`) | the retained payload | decode, inline or displace, excerpt; select text, matches, rows | every boundary twice: the caller's limit and the reply's |
| Access tokens and pagination (`token.rs`, `pagination.rs`, the searches of the workflow) | none; Gitea's list of tokens | create, list, revoke; read to the end of a list | pages that are capped, headers that lie, names that are numbers |
| Surface: catalogue, lanes, discovery (`catalog.rs`, `lanes.rs`, `discovery.rs`, `lib.rs`) | static | look up, search, describe, route a call | names of four sorts that overlap; guidance that must lead somewhere |
| Refusals (`gitea-api/lib.rs`) | none | read, redact and cut Gitea's reason | secrets that hold or adjoin one another, at the cut |
| Schema portability, configuration, logging | static | validate, parse | little: static data and start-up |
| Generators and evaluation scripts | files | build-time tooling | outside the running program |

A request passes the gateway bearer, takes an ingress slot, is read under a
deadline and authenticated with the cached keys. The MCP transport then runs its
handler as a task of its own, which may outlive the HTTP request: the handler
finds its identity's store, takes an execution slot, and runs one tool. The tool
may take a staged secret, call Gitea once or, for bootstrap, many times, and
displaces a large reply into the store, from which a resource read or a
download grant later takes it. Nothing is persisted: a restart forgets
everything, so no module has a crash-and-recover action.

What makes each component correct:

- **Retained stores**: the counter equals the bytes that exist; neither budget
  nor cap is exceeded; an identity's inserts cost only its own live entries; an
  expired payload is not served; a store in use is never replaced; no lock waits
  for another store's lock.
- **File plane**: a ticket and a reference work once, within their lifetimes;
  the cap holds over both maps; secrets are wiped on time with nobody asking.
- **Identity keys**: withdrawn keys stop verifying in bounded time; an outage
  rejects nobody early; a key service is not hammered.
- **Admission, outcomes**: slots are conserved; a client that follows the
  reports makes its change at most once.
- **Bootstrap**: a report names everything the run created and nothing it did
  not (of a collaborator it names the step and no compensation); outcomes are true; a second run converges; nothing is begun that the
  declaration already shows cannot be sent.
- **Requests**: what reaches Gitea is what was asked for, at the operation's own
  address, or nothing is sent (of a path argument with tabs or line breaks in it this
  is not so: see what is not modelled or not claimed).
- **Replies, selection**: a reply keeps to its ceiling with as much as fits; what
  is read back in pieces is what Gitea sent.
- **Lists**: nothing that stayed is missed; absence is claimed only with proof.
- **Surface**: an operation is called under the hints of its risk; following what
  a row, a description or a refusal says reaches what was asked for.
- **Refusals**: nothing secret is in the reason, wherever it is cut.

## The modules

| Module | Models | Extends |
|---|---|---|
| `Weights` | sums of charges over sets of payloads | |
| `RetainedStore` | stores, budget, registry of identities, step by step | `Weights` |
| `PayloadLedger` | what a retained-result service promises, without budgets, locks or clocks | |
| `RetainedStoreProofs` | its proofs and that of the refinement | `RetainedStore` |
| `KeyCache` | the key cache | |
| `KeyCacheProofs` | its proofs | `KeyCache` |
| `FilePlane` | uploads of secrets | |
| `FilePlaneProofs` | its proofs | `FilePlane` |
| `Calls` | a tool call from admission to report, and the client that follows it | |
| `CallsProofs` | its proofs | `Calls` |
| `Bootstrap` | the bootstrap workflow | |
| `BootstrapProofs` | its proofs | `Bootstrap` |
| `Downloads` | grants, reads and streams of retained payloads | |
| `DownloadsProofs` | its proofs | `Downloads` |
| `Selection` | `result.select`, as operators | |
| `Replies` | decoding, and inlining or displacing a reply, as operators | `Selection` |
| `RetainedResults` | one answer: its reply, its payload, a walk through it | `Replies` |
| `ResultsProofs` | its proofs, and those of what `Selection` and `Replies` compute | `RetainedResults` |
| `Catalogue` | operations, lanes, tools, search, description, as operators | |
| `Requests` | from arguments to a request, as operators | |
| `Surface` | a client that searches, describes, calls and follows pointers | `Catalogue`, `Requests` |
| `Recency` | what is newer than an entry, and pages newest first, as operators | |
| `Listing` | page walks through one store | `Recency` |
| `Tokens` | Gitea's tokens, their readers, creation and revocation | `Recency` |
| `Refusals` | the reason of a refusal | `Requests` |
| `Client` | composes `Surface`, `Listing`, `Tokens` and `Refusals`: one client does one of these | `Surface`, instances |
| `ClientProofs` | the proofs of `Surface`, `Requests`, `Listing`, `Tokens` and `Refusals`, and of all for such a client | `Client`, `Recency` |
| `MC*` | symmetry sets, declarations, the small catalogue | the module they name |

### RetainedStore

One step is what runs under one lock, or one atomic operation of the budget
counter. `used` is `ResourceBudget.used`; `entries`, `total` and `lock` are the
`State` of each store and its mutex; `registry` is `OwnerStores.stores`; `store`
and `pin` are the `Arc`s a request holds, on a store and on a payload.
`insert_at` is split where another identity's request can get in between:
`LockAndMakeRoom` (expire, check the cap, evict), `Reserve`/`ReserveFails`
(the compare-exchange of the counter), `ReclaimOne`, once for each store that
was upgraded and whose lock is free (`try_lock`), `EvictOldest`, `Refuse` and
`Commit`. The
first is one step because nothing outside the store is touched; the counter only
goes down in it, and a later step sees that. `GetNew` is `OwnerStores::get`
with its retain pass: idle empty stores are collected before the limit is
compared. `DropBody` and `Leave` let a reader keep a payload past its request.
Payloads are numbered in the order inserts take their store's lock, which in one
store is the order of its sequence numbers. Pages of a listing are in `Listing`.

`PayloadLedger` is the abstract specification: an identity sees payloads it
inserted and that have not been forgotten, each insert ends once, and a
request reads only what its own identity sees. `ImplementsLedger` is the
refinement, with the mapping at the end of `RetainedStore`.

### KeyCache

`keys`, `fetchedAt` and `nextRefresh` are `CachedKeys`; the request in state
`"fetching"` holds the mutex. `Present` starts a request, `UseCache` is the
path that finds the cache fresh, `StartFetch` to `FetchSucceeds`/`FetchFails`
the path that refreshes, `Cancel` the drop of the request's future at either
await. The key service (`Change`, `Answer`) publishes and withdraws keys and
answers with what it published at some moment during the fetch. Judging an
assertion is one step with the end of its wait, because `verify` awaits nothing
in between; a fetch lasts at most the client's timeout, which `Tick` respects.

### FilePlane

`tickets` and `staged` are the two maps. `receive` holds the lock of the first
over two steps (`Receive`, `Stage`) because it inserts into the second before it
releases the first; every other access is one step per lock, with the clock
reading it took before. `Verify`, `TakeSlot` and `Abandon` are the upload route:
the answer of `verify_upload` is old when a slot is free and the body is there.
The worker sweeps map after map and sleeps until the next expiry. A clock unit
is the worker's millisecond: a step that is due (the end of its sleep) happens
before the clock moves on.

### Calls

`http` is the middleware's future with its ingress slot, `call` the handler with
its execution slot. `Disconnect` drops the first and not the second, since the
transport runs handlers as tasks. `Prepare` validates and takes the staged
secret in one step, nothing being awaited between. `SendFails`,
`TransportFails` and `Receive` are the three places a call fails, with the errors
each can raise; `Delivered` and `CallOutcome` are `ApiError::delivered_with` and
`call_outcome`, `Failure` is `upstream_failure` and `map_operation_error`. Gitea
executes what is on its way at any time, also after the client gave up.

### Bootstrap

A declaration is a set of targets with their kinds, and what is wrong with it
(`flaw`): a name no path can carry, a protection or a schema that Gitea would
refuse. Of the things that may be absent at first a created one has a compensation,
but for a collaborator (`Unreversed`): the code adds one by a PUT without
reading, and records none, where it does for a team. `Attributes` (owner, settings,
topics, archive) are never absent. `Validate` is everything the code checks before the first request; that
it checks the edits a lost race may lead to as well is what `SoundRequests` is
about. After it one action is one request and what the workflow does with the
answer: `Begin` picks the next target in
the code's order (`Rank`), `Lookup` and `LoadInventory` read, `Create` and
`Edit` write, `Reread` is the reconciliation after a conflict. Executing a
request and receiving its answer are one step: the run does nothing between,
and other users' changes (`Meddle`) fit before or after it. A lost answer leaves
the request executed, unexecuted, or on its way (`Late`). `Rerun` starts the
workflow again.

### Downloads

`registered` and `entries` are the registry and the stores, `grants` and `ticket`
the map of download tickets, `stream` is `DownloadStream`, with the slot and the
share of the payload it holds. A grant names its store weakly: `Upgrades` is
`Weak::upgrade`. `StartDownload` is `send_download` with the sweep of
`read_download`, `LookUp` its lookup and upgrade, `ReadPayload` the read of the store
and the answer. From `LookUp` to `ReadPayload` the download holds the lock of the grants
(`NoReader`) and the store, and the read waits while an insertion has the entries
locked (`Unlocked`); time may pass in each wait, and the read uses a clock from any
moment of it. Under pressure on the budget an insertion holds every store while it expires
them one by one (`Reclaim`, `ReclaimStore`). `HeldElsewhere` is therefore
three kinds of holders of a store, which the registry's `strong_count` does not tell apart: calls,
insertions of others, and the download that reads. `GrantsPinNoPlace` says what is left
of "a grant keeps no place": an unread grant, an answered download and a stalled
stream keep none, while an insertion keeps all, and a read one, for as long as
they last. `retain` in `OwnerStores::get` is one step: a store that is upgraded
after it was counted is empty, so its read is refused in either order. `PollChunk`, `PollLate` and `PollEnd` are the three outcomes of `poll_next`. The
stream is polled when its client makes room, so nothing makes `PollLate` happen
at the deadline: the documentation leaves stalled clients to the proxy.

### Selection, Replies, RetainedResults

Bytes are sequences in which `w1 w2 w3` is one character of three bytes and `x`
is no UTF-8; documents are trees; a size is a number of units. Decoding, the
wrapping of bytes as base64, unwrapping when they are retained, windows moved to
character boundaries, halving of what exceeds the reply bound, context around a
match and projection of rows are translated as they are computed. `Respond` makes
the reply and the payload; `Begin` and `SelectNext` follow `next_offset`; `Lose`
is an expiry or eviction, the link to `RetainedStore`.

### Catalogue, Requests, Surface

The catalogue is a constant: fourteen operations in `MCSurface`, eleven of them
exposed, with every lane, a deprecated one, one that a hand-written tool replaces, and
parameters in each place. `SearchStart` and `SearchNext` page through a search;
`TakeRow` and `Call` name a tool from a row or from nowhere; `LaneResult` is a
lane's answer, `Follow` and `FollowNearest` do what it says. `Requests` builds
the request as `execute.rs` does, path segment by path segment; `ReadBy` and
`Bound` are how a server would route it, against which `RequestFaithful`
compares. A rendered segment is the sequence of the texts it is put together from.
`Pushed` is what the url crate's `push` makes of the segments: one that is `.` or `..`
is passed over; of any other, tabs and line breaks are left out (`Stripped`; the
constant `Loose` holds the texts that have some), and if only `.` is left the segment
is empty, if only `..` is left it is empty and the one before it is removed. The
pairs of the query are a name with the texts that its value is put together from:
an array in the format `multi` has a pair for each item, any other is one pair whose
value holds the items and separators.

### Listing, Tokens, Refusals, Client

A store and Gitea's list of tokens are sets of entries whose identifiers grow, so
the order of a page is that of the identifiers (`Recency`). `ReadPage` is one page
of `resources/list` with the clock reading it took before the lock. `FindPage`, `LoadPage` and `ListPage` are one page each of the search
for a token, of an inventory, and of a client's own listing under each style of
continuation header. `Revoke` deletes as Gitea does, where a number in the path
is an identifier. `Refuse` builds the text a caller is told from a text Gitea
wrote: the model keeps the position of every character, so that a remnant of a
secret can be told from equal characters elsewhere. `Replace` is `str::replace`,
from left to right; `Pass` strikes the forms of one length in the order of the
values, as the stable sort of `redact` leaves them, and `Redact` goes through the
lengths from the longest. (The code compares lengths in bytes: of two forms of
which one holds the other the order is the same.) `Client` gives one client
one of these to do; they share no state.

## The runs

| Run | Question | Instance |
|---|---|---|
| `retained_budget` | Is the budget exact, whose entries does an insert cost, are stores shared and collected safely? | three identities for two places, two requests, three payloads of two sizes, a cap and a budget that both overflow |
| `retained_progress` | Is the ledger implemented, and every lock released? | two identities that reclaim from each other |
| `keys_ages` | Are the bounds on revocation, outage and rotation kept? | two keys, two requests, lifetimes 1, 1, 3 and time for one full maximum age after a change |
| `keys_spacing` | Are all fetches spaced out, as the comment says? | the same; **violated** |
| `file_uploads` | Single use, one cap, validity windows, wiping on time | three uploads for two places, two transfers, one slot, a clock of two lifetimes |
| `file_downloads` | Whole or failed, nothing outlives its time, no place is pinned | two places for three identities, three stores, two calls, one payload and one grant, which expire apart, two downloads and an upload on two slots |
| `calls_retries` | At most once, truthful outcomes, slots | two jobs of every combination of kinds, one slot of each sort, three tries |
| `bootstrap_runs` | Compensations, truth of the report, convergence, nothing unsound begun | three declarations that cover every kind of target, two runs, two changes by others |
| `results_walks` | Is what is retained, excerpted and selected what Gitea sent? | logs, files, documents and rows of several types, two ceilings, every mode with and without limits |
| `results_envelope` | Is a payload always made of Gitea's bytes? | the logs; **violated** |
| `client_session` | Lanes, guidance, requests, searches, page walks, absence, revocation, redaction | the small catalogue; two walks over five payloads, four at a time; three tokens, page caps of 1 and 3 around a limit of 2, six header styles; secrets of up to three characters in reasons cut at three |
| `surface_rows` | Does a row name a hand-written tool itself? | the catalogue; **violated** |

The properties are in the modules, each with the behaviour it is about.

Why the bounds suffice. The hazards need two actors (two inserts, two
transfers, two fetches, two walks, one run and one other user) and one resource at its
limit, which every instance has. Caps and budgets are set so that each overflows
alone and together; lifetimes of one or two units separate before, at and after
expiry. Two tries show a change made twice, the third a retry after a retry. Characters of
one and of three bytes, windows from one unit on and ceilings on both sides of a
row's cost put every cut before, inside and after a character, a match and a row. Pages of
one and three around a limit of two are the server that caps and the server that
ignores the limit. The
bounds that only end behaviours (`MaxId`, `MaxTime`, `MaxTries`, `MaxRuns`,
`MaxMeddling`, `MaxToken`) are guards of the actions that would pass them; where the system
may then stop, the configuration says `CHECK_DEADLOCK FALSE`. The retained
runs check deadlock: a reader can always leave and a store can always be
asked for.

Every property of a passing run has a mutant in `PROJECT.json`: an operator that
changes a definition the way a plausible bug would and violates the property.

### Findings

`keys_spacing` checks what the comment at `identity.rs:98-99` says, that
refreshes are serialized and failed ones spaced out, so that requests cannot
force unbounded requests to the key service. `next_refresh` is only set when a
fetch has ended. A request dropped during its fetch releases the lock
with the cache still due, and the next request fetches at once. `OutcomesSpaced`
is what does hold: a fetch that ended is followed by none for `RETRY_AFTER`.

`results_envelope` checks what the comment at `lib.rs:973-977` says, that the
condition under which bytes are restored mirrors the one under which `gitea-api`
wraps them. `decode_response_body` also wraps a body under `text/*` or XML that
is not UTF-8; the restoring side takes these types for text. A Latin-1 file
served as `text/plain` is retained as the JSON document around its base64.
`ReadsBack` is what holds: everything else reads back as Gitea sent it.

`surface_rows` checks what `docs/operations.md:41-42` says, that hand-written
tools name themselves as the execution tool. A search row takes its execution
tool from the operation id (`match_row`), and `repository.secret.set_from_file`
publishes the id of a generated operation: its row names `api.destroy`.
`catalog.describe` of the tool's name does name the tool.

### Fairness and time

`LockReleased` assumes weak fairness of the steps an insert makes while it holds
its lock: `insert_at` awaits nothing, so the thread that runs it goes on.
`SlotsReturn` assumes it of each request under admission (its body has a
deadline, its identity a client timeout) and of each handler (which waits for
nothing but a client with a timeout). Nothing is assumed of Gitea, of clients or
of the network. The other properties are safety properties and need no fairness;
`WipedOnTime` is one because the model's clock waits for a timer that is due,
as the code's one-millisecond rounding intends.

## The proofs

`RetainedStoreProofs` proves of `RetainedStore`, for every value of its
constants that satisfies `StoreAssumption` (sizes are natural numbers, a
lifetime is positive, a charge is a body and its overhead):

| Theorem | |
|---|---|
| `TypeCorrect` | types; the unsigned counters never go below zero |
| `BudgetIsExact` | `used` is the sum over stored, pinned and reserved payloads |
| `BudgetIsBounded` | and never exceeds the budget |
| `StoresAreBounded` | each store's total is exact and within its cap |
| `AgesAreOrdered` | insertion order is age order |
| `NoStoreIsOrphaned` | a request's store is the registered one |
| `NoExpiredIsServed` | a payload handed out was live at the reader's clock reading |
| `OnlyOwnIsEvicted` | only an insert of the same identity evicts a live payload, oldest first |

The invariant `IInv` adds to these what they need to be inductive. `ShapeOK` is
the types without the counters. `Structure` says that a holder of a lock is
alone, that the reference it is inserting is new and stored nowhere, that
stores share no entry, and that an admitted body fits. `RoomMade` says that
after making room the new payload still fits under the cap. `BudgetExact` is not
inductive without `Structure`: a reference reserved twice would be charged
once. That the counters stay natural numbers follows from exactness, not the
other way round. The module begins with what sums over changed sets and changed
charges do, then proves the shape and the structure, and then the rest, one case
per action. `OnlyOwnIsEvicted` needs
two facts more: no clock reading is ahead of the clock (`NowPast`), and what the
cap evicts is a prefix (`OverflowIsPrefix`, since totals only grow along it).

Its last part proves `LedgerIsImplemented`: `RetainedStore` implements
`PayloadLedger`, by the refinement mapping at the end of `RetainedStore`. There is one lemma for each
kind of step: what expires or evicts is a `Forget`, a request that begins an
`Enter`, `Commit` a `Store`, `Refuse` an `Abandon`. `Store` must fit the budget the
ledger computes from what it sees; `HeldFits` has that from `BudgetExact`, since
what the ledger sees and the insert itself are all paid for, once. The mapping
reads the registry, so `RegistryInv` adds to `IInv` that identities share no store
and that a store which lost its place is empty.

`CallsProofs` proves of `Calls`, for every finite set of jobs, every limit the
configuration accepts and every number of tries (`CallsAssumption`):

| Theorem | |
|---|---|
| `ChangesAtMostOnce` | a change is made at most once, a staged secret stored at most once |
| `OutcomesAreTruthful` | reports say what happened, or that nothing will |
| `SlotsAreConserved` | each slot is free or held once |
| `FileIsKept` | the file is taken only for a call past validation |
| `TypeCorrect` | types; the slot counters stay in range |

`AtMostOnce` says nothing of requests still on their way, so its invariant does: a
job is `Quiet` while nothing of it is applied or on the wire. `BeforeSending` says
that a job which can still be sent is quiet, `AfterSending` that only the last
try can be on its way and that an answer tells what happened, `Reported` that a
report stays true until the next try. `FileOnce` says that at most one secret job
is `Spent`, past taking the file, and none before it is taken. That reports are
right for each error is stated in three lemmas about `Failure`. `Slots` needs
`BeforeSending` too: a handler that started over a running one would lose its
slot.

`FilePlaneProofs` proves of `FilePlane`, for any sets of uploads, transfers and
authorizing calls, any cap, lifetime and bound on the clock
(`FilePlaneAssumption`: these are natural numbers, and the markers for nobody and
nothing are not members):

| Theorem | |
|---|---|
| `InvariantHolds` | the inductive invariant `IInv` |
| `TypeCorrect` | types |
| `CapacityHolds` | tickets, staged bodies and the one between them are no more than the cap |
| `SingleUseHolds` | one body for a ticket, one secret for a reference |
| `WipedOnTimeHolds` | what has expired is gone a millisecond later |
| `WithinWindowHolds` | a body within one lifetime of its authorization, a secret within two |
| `LiveKeptHolds` | no sweep drops what is live |

None of these is inductive alone. `Structure` says that whoever is between the two
maps holds the lock of the first, so there is one body in transit at most, which
is what the cap needs. `Stages` puts each upload in one stage, each passed once;
`Windows` bounds each stage's expiry by the authorization and every sweep's clock
reading by the clock; `Waking` bounds the worker's sleep by the first expiry,
which exists because a set of natural numbers has a least element
(`LeastNatural`, by the library's theorem on finite subsets). The two action
properties then follow from `IInv` and one step.

`KeyCacheProofs` proves of `KeyCache`, for any sets of keys and requests, any
bound on the clock, and any retry interval, cache period, maximum age and
timeout in that order (`KeyCacheAssumption`; the constants of `identity.rs` are
one such choice):

| Theorem | |
|---|---|
| `InvariantHolds`, `TypeCorrect` | the inductive invariant `IInv`; types |
| `RevokedSoonHolds` | a withdrawn key verifies no longer than the maximum age and one fetch |
| `KnownKeyVerifiesHolds` | an outage rejects no known key before the maximum age |
| `RotationTakesEffectHolds` | a new key verifies a cache period and a fetch later |
| `OutcomesSpacedHolds` | fetches that ended are the retry interval apart |

`RevokedSoon` speaks of the moment a key is judged; what makes it true lies
further back. `Serial` says that one request fetches at a time and no longer than
the timeout, `AnswerFresh` that an answer on its way is wrong only about keys
that changed since the fetch started, `CacheFresh` that the cache is wrong only
about keys that changed since then, which is where one timeout enters the bound.
`InStep` ties the cache and the next refresh to the last fetch that ended, and so
to the last one that succeeded.

`DownloadsProofs` proves of `Downloads`, for any number of identities, stores,
payloads, grants, downloads and uploads and any limits and lifetimes
(`DownloadsAssumption`: these are natural numbers, and the markers for nobody and
nothing are not members):

| Theorem | |
|---|---|
| `InvariantHolds`, `TypeCorrect` | the inductive invariant `IInv`; types |
| `WholeOrFailedHolds` | a body that ends without an error is whole |
| `GrantExtendsNothingHolds` | no download begins with what had expired when its request came, or in a store without a place |
| `GrantsPinNoPlaceHolds` | grants and downloads keep no identity's place, but for the one being read |

`StreamsCount` is what makes `WholeOrFailed` inductive: a client that has seen no
error has, with what is left in the stream, the length of the payload its grant
names, and a stream that failed has shown an error first. It needs `GrantsName`
(an issued grant names a retained payload and is never changed) since
payloads are evicted under a stream. `Places` says that a store that anybody
holds is some identity's, and no two identities' the same: the registry drops no store in use, so a
grant that can still be upgraded names a registered store. `Readers` says that the lock of the
grants lets one download read at a time, with a grant its own sweep left; with `Places` it
bounds what reads keep to one place.

`BootstrapProofs` proves of `Bootstrap`, for any declarations of any targets with
any flaws, any number of runs and of changes by others (`BootstrapAssumption`: the
two bounds are natural numbers, and the marker for no target is not a target):

| Theorem | |
|---|---|
| `TypeCorrect` | types; nothing is reported both as applied and as unchanged |
| `CompensationsAreOwn` | following the compensations deletes only what the run created |
| `CreationsAreAccounted` | whatever the run created has its compensation in the report, or a step that says so or may be it |
| `ReportsAreTrue` | the outcomes of a report are true of Gitea, also of late requests |
| `CompleteRunsConverge` | after a complete run nobody interfered with, all is as declared |
| `RequestsAreSound` | nothing begun meets what is wrong with the declaration |

`OnItsWay` ties the step the workflow is at to the kind of its target, which says
what a lost answer can have been the answer of. `ReportExact` holds while a run
goes on: its report is exactly what it changed, and its compensations what it created but
for collaborators. A failed step ends
that, and `EndAccounted` says what may differ from then on: one target, with an
outcome that allows for it. `LateUnknown` says that what Gitea may still execute of
the run is that one request, reported as unknown, so that the report stays true
after it. `FlawsUnrefused` (what the checks let pass) gives `RequestsAreSound`.
Convergence needs `StaysSettled`: what was done or seen as declared stays so while
nobody else changes it; `AttributesHeld` covers the attributes, which exist from
the start.

`ClientProofs` proves of `Surface`, for every catalogue, ledger and set of
queries:

| Theorem | |
|---|---|
| `SurfaceInvariant` | the inductive invariant `SurfaceInv` |
| `LanesKeepRisk` | what a lane sends runs under hints for at least its risk |
| `GuidanceIsTrue` | rows, descriptions and refusals lead to what bears or replaces the name |
| `SearchesShowAll` | a search paged to its end has shown every row, once |
| `RequestsAreFaithful` | what is sent carries each argument where it was meant, as it was given |

`CatalogueAssumption` is what they need of the static data: the names and
identifiers of the exposed operations identify one, and no hand-written tool's
name is among them; a hand-written tool that stands for an exposed operation
publishes its risk; every hidden operation is in the ledger, and what the ledger
names as replacement exists. The generated table satisfies it (467 exposed
operations; the four hidden ones are the ledger's entries), the tests of
`catalog.rs` check the uniqueness, and TLC evaluates it for the small catalogue.
`SurfaceAssumption` adds the shape of an exposed operation: its parameters have
distinct names, those of the path are the placeholders of its template, no segment
of the template is `.` or `..`, and it has a body or a form, not both. All 471
operations of `generated/gitea-1.26.4-operations.json` have it. Its last part says
that the arguments tried are JSON values whose scalars are texts.

`SurfaceInv` is `PagingHeld` and `CallHeld`. `PagingHeld`: the rows shown so far are
the first ones of the ranking, as many as the next offset. The ranking is total
(`RowsAreOrdered`), so every place in it is taken once (`EveryPlaceTaken`), and a
page is empty only at the end. `CallHeld` says of the chain of calls a client
follows that what it was told is true of the name it started from (`ToldHeld`), that
what was sent has the hints of its lane (`SentHeld`), and that the pointer of an
answer leads to what the name stands for (`GuideHeld`); the three are inductive only
together, because following a pointer turns one into the next. `LanesAnswer` and
`ToolsAnswer` list what a lane and a tool can answer at all.

`RequestsAreFaithful` rests on `RequestHeld`: an answer that says that a request was
sent holds the request of an exposed operation with the arguments its schema
accepted and that did not fail. From there `SentAsGiven` is about the operators of
`Requests`. `PathIsFaithful`: no rendered segment is one the url crate passes over or
takes for a dot segment (`SegmentIsKept`, `NoDotSegment`; that placeholders are never
empty or dots, with their tabs and line breaks or without, is needed here), so the
address has the template's segments and the server reads each value, less its tabs
and line breaks, where it was put (`AddressIsWhole`).
`QueryIsFaithful`: the pairs are put together parameter by parameter, so what is
carried under a name grows by that parameter's pairs only (`CarriedOfBoth`,
`PairsAreTexts`; each item of an array has a pair of its own, as every array in the
query of the 471 operations is `multi`), and names are distinct. `RestIsFaithful`: the headers and the
payload.

It proves of `Client`, for any number of walks, entries, tokens and
pages, any page sizes, caps and lifetimes (`ClientAssumption`: positive natural
numbers, markers that are no members, and a numeric name has an unsigned
spelling of the same number):

| Theorem | |
|---|---|
| `ClientInvariant` | `ListingInv`, `TokensInv` and `SurfaceInv` together |
| `WalksMissNothing` | a finished walk showed all that was there throughout, nothing twice |
| `EndProvesAbsence` | the end of a search or inventory proves what it concludes |
| `RevocationNamesOne` | a revocation deletes at most what its one selector names |
| `NothingSecretIsTold` | a reason holds no character of a secret of its request, wherever it is cut |
| `ClientLanesKeepRisk`, `ClientGuidanceIsTrue`, `ClientSearchesShowAll`, `ClientRequestsAreFaithful` | those of `Surface`, of such a client |

`ListingInv` says that a walk's cursor is the oldest of what it showed, and that what is
newer and was there from the start has been shown (`CursorHeld`, `ShownDown`, `Descended`); removal of the oldest
entries and growth at the new end keep this, which is why eviction order matters.
`TokensInv` says that a reader that is at page `p` has seen what has a place before
`p` pages of the server's cap (`ReadSoFar`), as long as nothing was deleted; a new
token moves the others back and cannot hide one. Its lemmas show, for each style
of header, that a page is called the last only if it is (`HeadersTrue`), and that an
empty page is past the end because no place below the number of entries is free.

`NothingSecretIsTold` rests on `RefusalHeld`: what was told is nothing, or what
`Reduce` leaves of what Gitea wrote. `Scan` is the invariant of `str::replace` while it
reads: what it has written comes from the places it has read, in their order, and each
place it has read was copied where nothing matches, or lies in a match. At its end
(`ReplaceStrikes`) a position of Gitea's text that is gone stood in an occurrence of
the form that is gone as a whole, and no occurrence is left whole, because
positions that follow one another in Gitea's text and are both left still do so
(`Kept`, `RunUp`, `RunDown`). Take now an occurrence of a secret that no other one
partly overlaps. Forms at least as long as it either do not touch it or remove all of it
(`StrikeFate`), so by the time its own length is struck it is whole or gone, and
after that it is gone (`PassFate`, `RedactFate`). Shorter first would leave
halves, which is why the order matters. Cutting comes last and only shortens
(`CutKeeps`). `TextsAssumption` is what this needs: what Gitea may write and what is
secret are sequences of characters; that the recursive walk over the arguments
(`SensitiveValues`) collects such sequences is part of it, because a filter of the
community modules cannot be expanded in a proof. TLC evaluates it.

`ResultsProofs` proves of `RetainedResults`, for all answers, ceilings and
selections:

| Theorem | |
|---|---|
| `HandleReadsBack` | what is retained reads back as what Gitea sent |
| `ExcerptIsLongest` | a displaced reply keeps to its ceiling with the longest excerpt that does |
| `TextIsRecovered` | following `next_offset` shows a text once, in order, without a gap |
| `RowsAreRecovered` | and every row of an array, projected, whatever cuts the pages |
| `EveryMatchIsShown` | a search visits every match once, in order, each shown whole |

`RetainedResultsAssumption` is what they need: sizes are natural numbers, bodies
and arguments are what decoding and deserialising make of them, and the reply
bound leaves room for the fixed part of a reply and one character, as the
constants of `selection.rs` do by orders of magnitude. That a document has a size
(`ValueCost`) is part of it, because the fold that computes it cannot be expanded
in a proof; so is that the rows of an array are a sequence.

What a search or a sum computes is proved without an induction theorem: a set of
natural numbers that is not empty has a least member (`LeastNatural`), so a
recursion that goes wrong somewhere goes wrong at a first place, and the step
before it was right. `SearchFindsLast` has from this that the binary search ends
at the last member of any downward closed set, `HalvingEnds` that halving a
limit ends where the reply fits or the limit is one, `CostGrows` that a longer
excerpt costs no less, which is what makes the fitting ones downward closed.
`BoundariesInOrder` says that the ends of characters are counted in order;
`BoundaryNear`, that one lies at most two bytes back, so a window of a character is
never empty. `SelectHalves` says what `Select` returns after its halving, and
`TextSelected` and `RowsSelected` what it shows: from the offset on, without a
gap, no more than the limit, and refused for one reason only. `FlattenGrows` adds
a reply to what has been shown.

For a search, `MatchesChain` says of the recursive list of matches what one step
does: from an offset on, the first occurrence and then the matches after its end,
or none. `OccursBetween` says that in UTF-8 what occurs begins and ends between
characters, so that a continuation at the end of a match is an offset the next
window accepts. `ContextStartIn` and `ContextEndIn` bound the lines of context by
the text, `MatchShows` says that the window, after context, limit and moving to
characters, still contains the match, and `SearchSelected` the same of what is
left after halving, unless the caller's limit is below the text searched for.

The invariants are `Made` (the reply and the payload are those of the answer),
`WalkShape` (a walk has the arguments it began with, but for the offset),
`TextWalk`, `RowsWalk` and `SearchWalk`: what the replies showed, put together, is the
text up to the offset, the projection of the rows before it, or the matches that
come before those from the offset on. They hold for the payload the
answer made (`Held`), also after it expired.

Every invariant and every action property of the passing runs is a theorem.
Model-checked only are the liveness properties, `LockReleased` and `SlotsReturn`,
because liveness and `ENABLED` are out of the prover's reach.

## What is left out, and why

- **Secrets and randomness.** References, tickets and credentials never collide
  and are never guessed; a failing entropy source only refuses. Wrong
  credentials change nothing and have no action.
- **Contents.** In `RetainedStore`, `FilePlane` and `Downloads` bodies are sizes;
  in `KeyCache` keys are names; in `Calls` arguments are valid or not.
- **Claims of an assertion** (its times, audience and signature) are an input of
  the judgement.
- **Configuration of an adopted repository.** `if_exists: adopt` does not
  re-apply its creation attributes, which is why `Converged` asks only that an
  adopted repository or team exists.
- **Compensation of an added collaborator.** The code offers none, and no document
  says that it does, so `CreationsAccounted` asks only that the report has the step as applied.
- **The MCP transport.** Sessions and streams are an external library; of it
  `Calls` uses that handlers are tasks and reports reach a request still there.
- **Pages in `Bootstrap`.** It reads an inventory or a token list at one moment;
  reading it page by page is in `Tokens`. `AbsenceProved` asks that nothing was
  removed meanwhile: offset pages over a list that shrinks skip an entry, which
  Gitea's API does not let a client see. That a walk ends is not stated, since
  others may add entries as fast as it reads.
- **Sizes of replies** are units. `RetainedResults` assumes that the reply bound
  leaves room for the largest fixed part of a reply, as the code's constants do,
  and for the longest text that may be searched for.
  Text selected from a JSON document (its pretty-printed form) is left out.
- **Tabs and line breaks in a path argument.** `validate_path_segment` looks at the
  value as given, and the url crate leaves tabs, line feeds and carriage returns out of
  a segment afterwards. So such a value reaches Gitea without them, and one that is
  nothing, `.` or `..` without them gets past the check and leaves an empty segment, in
  the last case in place of the segment before: the request goes to another address
  than the operation's. The code does this; `Pushed` models it and the runs send such
  values. `RequestFaithful` therefore takes a path argument to arrive
  without its tabs and line breaks, and claims nothing of the path when an argument
  is one of the latter (`Keeps`). Names of tokens and of the service account cannot
  hold such characters (`validate_bounded_text`, `validate_credential`).
- **Values of headers.** No operation of the catalogue has a header parameter;
  that `HeaderValue` refuses control characters is left out.
- **Schemas.** Types, required fields and unknown fields of an operation's
  arguments are checked; enumerations, formats and numeric bounds are not. The
  hand-written tools are modelled in `Surface` up to accepting their arguments.
- **Redaction** is promised in `Scrubbed` for secrets whose occurrences do not
  partly overlap others': of two that share some of their characters, `str::replace`
  can find one. Secrets that contain the replacement text itself are outside the
  promise. Of a secret that ends in a quote, `trim_matches` takes the escaped form
  without it: where Gitea writes that form, the quote itself may stay.
- **Stalled downloads** keep their slot until their client reads again or leaves;
  the documentation gives that to the proxy, and no property says otherwise.
- Components with status `not_modelled` in `PROJECT.json`, with the reason.

## Plan

Done, in order of importance: the retained stores with their proofs, the key
cache and the uploads with their proofs, the bootstrap workflow, calls and their
outcomes with their proofs, downloads with their proofs, page walks and bounded
searches with their proofs, reply shaping and selection with theirs, the catalogue
with its lanes and discovery with their proofs, requests and refusals with
theirs. What remains:

1. Enumerations and bounds of the generated schemas in `Requests`.

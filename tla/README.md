# A TLA+ development of oh-my-emby

oh-my-emby presents several upstream Emby servers to one local user as one
Emby server. It federates their catalogs, decides which of their items are one
title, keeps the user's own state (played, favorite, position) per title, and
replicates that state to every upstream that has the title. It runs as a Bun
process on SQLite or as a Cloudflare Worker on D1.

This directory models the parts of it whose correctness depends on the order
in which things happen, checks them with TLC on small instances, and proves
what TLAPS can prove for every value of the constants. Paths are relative to
`src/apps/server/` unless they start with `docs/`; SQ stands for
`src/platform/bun/sqlite-repositories.ts`, D1 for
`src/platform/workers/d1-repositories.ts`, and "the design" for
`docs/superpowers/specs/2026-09-20-emby-aggregation-architecture-design.md`.

Contents

1. Inventory of the system
2. The modules and the code
3. What the runs check
4. What is proved
5. Disagreements between the code and its documents
6. What the models leave out
7. Plan


## 1. Inventory of the system

Two facts shape everything below. On SQLite a repository operation is one
transaction, so it is one atomic step. On D1 there is no interactive
transaction: an operation reads with separate statements and then commits one
atomic batch, so what it read may be old when the batch runs. And several
handlers are always under way at once: requests of several clients, and
maintenance runs. A Bun process starts a run every five minutes unless its last
one is still going (`platform/bun/index.ts`); a Worker starts one per
`scheduled` event whatever the others do (`platform/workers/index.ts:198`).

| Component | State | Operations | What must hold | Model |
|---|---|---|---|---|
| User-state outbox (`core/outbox.ts`, SQ 1749-1940, 3404-3643) | `state_outbox`: desired and delivered revision, payload, lease, dispatch mark, uncertainty, failure | enqueue, cancel, claim, mark dispatched, acknowledge, mark uncertain, record failure, the `deliverClaimed` fiber | a settled row never lies about the upstream; every write that may still arrive is remembered; the latest state is delivered in the end | Outbox, OutboxD1 |
| Maintenance (`core/maintenance.ts`, SQ 3645-3785) | none of its own | prune, release leases, cancel, enqueue the missing, claim and deliver | overlapping runs, and runs that die, do no harm | Outbox; prunings with the tables they prune |
| User state (`core/user-state.ts`, SQ 3150-3222) | `user_state` per canonical, with a revision | write a patch, record a playback event, then invalidate lists | no write is lost; lists follow the state | Outbox, OutboxD1, Playback, QueryGenerations |
| Playback reports (`api/emby.ts` 1936-1960, SQ 3240-3374) | `playback_sessions`, `playback_watermarks` | start, progress, stop | the session that began last moves the item, a stop counts one play | Playback, PlaybackD1 |
| Identity (`core/identity.ts`, SQ 1942-2459, D1 1988-2560) | `canonical_items`, `canonical_aliases`, `identity_claims`, `source_items` | resolve an observed item, merge canonicals, quarantine | one canonical per title; an id once given leads somewhere for ever | Identity; the effect of a merge on other tables in Outbox, Playback, QueryGenerations |
| Federation (`core/federation.ts`) | `query_generations`, `query_generation_items`, detail projections | list, open a title, search, studios, seasons | pages of one list neither skip nor repeat; a list that calls itself complete is; versions survive outages | QueryGenerations, Details |
| Server configuration (`core/server-service.ts`) | `upstream_servers` with a generation, endpoints, token, health, verified catalog | create, update, delete, test the connection | a result is saved under the configuration it was obtained with | Configuration; its effect on the outbox in Outbox |
| Upstream client (`core/upstream-client.ts`) | none (saves tokens and health) | a request with failover, authentication after a 401, replay, redirections | no answer of an old configuration is used; failover ends | Configuration, Resources, Outbox |
| Virtual libraries (`core/library-service.ts`) | `virtual_libraries`, `library_sources` | create, edit, reorder, delete | bindings refer to verified libraries of the current generation | Configuration |
| Authentication (`core/auth.ts`) | `users.auth_generation`, `dashboard_sessions`, `emby_tokens`, `auth_rate_limits` | claim, login, logout, change of the password, lookups with a sliding expiry, attempts | one owner; no session outlives its password; attempts are limited | Accounts |
| Drivemby compatibility (`core/drivemby-compat.ts`) | `emby_connections`, devices linked to them, settings | create, update, remove connections, log in with one, unlink a device | the removal of a connection takes its tokens; the limit on connections | Connections; settings and history not modelled |
| Collections (`core/collection-repositories.ts`, `core/collections.ts`) | collections, their sources, evidence, snapshots, scans | register a box set, scan it, snapshot it, learn from TMDB, list, open | a proven member stays; a listed collection opens | Collections |
| Metadata providers (`core/metadata-providers.ts`, settings) | settings and statuses, caches, in-memory locks | edit, refresh, read a TMDB collection | one request per collection at a time; a status speaks of the present credential | Metadata |
| Library covers (`core/library-covers.ts` and repositories) | covers, manifests, tokens | prepare, upload, commit, drop by triggers | a cover replaces what its maker saw | Covers |
| Playback media (`core/playback.ts`) | none (signed paths) | choose versions, pass images, subtitles and videos on | a delivery ends; a failed endpoint is not tried again | Resources |
| Resource cache (`core/resource-cache.ts`, Bun and Worker caches) | bytes with an expiry, least recently used | get, put, prune | only complete bodies within the limits | Resources |
| D1 repositories | the tables above | the operations above as reads and a batch | as on SQLite | OutboxD1, PlaybackD1, and the `D1...` actions of the other modules |
| HTTP API | none | decode, call, encode | - | the handlers whose calls have an order that matters |
| Dashboard, contracts | none | forms, schemas | - | not modelled |

How they interact. A request handler of the HTTP API calls one service; the
services share nothing but the repositories, so all interaction goes through
the tables. Federation calls identity for every item it receives, which may
merge canonicals; a merge rewrites the user state, the outbox, the playback
tables and the rows of lists in one transaction. A write of the user state
enqueues outbox rows in its own transaction and invalidates lists in a later
one. An edit of a server advances its generation; everything that was obtained
under the old one (an observation, a row, a claim, a token, an answer, a cover's
manifest, a cached image) is recognised by the generation it carries.
Maintenance repairs what edits of servers and libraries leave behind in the
outbox.

Where it is hard:

- A write that was posted and whose answer was lost may be applied later, in
  any order with the writes that follow it. The outbox can neither wait for it
  nor assume it is gone.
- A maintenance run may die between the mark that it dispatched a row and the
  record of the answer. Its lease is the only trace of it.
- Leases may expire under a fiber that is alive, so two fibers may deliver one
  row at once.
- A handler stamps a report before it records it: reports are recorded in any
  order of their stamps, repeated by devices that lost an answer, and may
  belong to canonicals that were merged in between.
- Two requests extend one list from the same revision while a third merges
  canonicals the list shows, and a fourth invalidates it.
- A login derives a password for a long while between the read of the user and
  the grant; the removal of a connection is four statements among which devices
  log in and out.
- A connection test, an authentication after a 401 and an edit overlap on one
  server, and each writes what it found at its start.
- On D1 everything that was read may be stale when the batch commits.

`PROJECT.json` lists these and the others as hazards, each at its line, with
the properties that would catch it.


## 2. The modules and the code

| Module | What it is | Code it stands for |
|---|---|---|
| `StateReplication` | abstract promise of the outbox | - |
| `Outbox` | user state, outbox, runs, fibers, upstreams on SQLite | SQ 1749-2459 (parts), 3150-3222, 3404-3785, `core/outbox.ts`, `core/upstream-client.ts` 813-960 |
| `OutboxD1` | the same with reads and batches of D1; extends `Outbox` | D1 2399-2504, 3375-3512, 3773-4157 |
| `PlaybackFold` | abstract promise of the playback reports | - |
| `Playback` | reports, sessions, watermarks on SQLite | `api/emby.ts` 789-805, 1522-1550, 1936-1960, SQ 2310-2420, 3240-3374 |
| `PlaybackD1` | the same with reads and batches of D1; extends `Playback` | D1 3396-3742 |
| `QueryGenerations` | the pages of one federated list, on both storages | `core/federation.ts` 290-405, 857-1171, SQ 2265-2296, 2613-2759, 3101-3148, D1 2737-2967 |
| `Accounts` | the owner, sessions, Emby tokens, attempts | `core/auth.ts`, `api/dashboard.ts` 311-384, `api/emby.ts` 1106-1116, SQ 587-912, D1 582-943 |
| `Connections` | connections and their tokens; extends `Accounts` | `core/drivemby-compat.ts` 314-679, `api/emby.ts` 941-1273 |
| `Configuration` | servers, endpoints, tokens, authenticated requests, libraries | `core/server-service.ts`, `core/upstream-client.ts`, `core/library-service.ts`, SQ 330-1694, D1 1022-1738 |
| `Identity` | resolution and merges of identities on both storages | `core/identity.ts`, `core/source-item-candidate.ts`, SQ 1942-2550, D1 1739-2666 |
| `Collections` | box sets, TMDB sets, scans, evidence | `core/collection-repositories.ts`, `core/collections.ts` 134-468 |
| `Metadata` | settings, refreshes and locks of the metadata providers | `core/metadata-providers.ts` 328-896, `core/metadata-settings.ts`, SQ 1235-1401, D1 1239-1332 |
| `Details` | the media versions of a title at several sources | `core/federation.ts` 406-1573 (parts), SQ 2798-3100, D1 2972-3258 |
| `Resources` | delivery of images, subtitles, videos; the cache | `core/playback.ts` 335-1020, `core/upstream-client.ts` 692-1463 (parts), `platform/bun/cache.ts` |
| `Covers` | preparation, upload and commit of a library's cover | `core/library-covers.ts`, `core/library-cover-repositories.ts`, `core/library-cover-candidates.ts`, `migrations/0008_library_covers.sql` |
| `Tables` | a row written to and deleted from a table (a function) | - |
| `*Proofs` | theorems, section 4 | - |
| `MC*` | constants, composition and symmetries of the runs | - |

`PROJECT.json` ("map") gives the lines of every definition. Definitions whose
comment starts with "Mutant" are plausible bugs of the code. Nothing uses them;
replacing the definition that follows by one of them breaks a property, which
shows that the property says something about that definition.

**Composition.** `OutboxD1` and `PlaybackD1` extend the module of SQLite and
replace its multi-statement operations. `Connections` interleaves its statements
with those of `Accounts`: both work on the same sessions, tokens and fibers.
`MCAdministration` puts `Accounts`/`Connections` beside `Configuration`,
`MCDuties` adds `Outbox` as a third duty, and
`MCCatalog` puts six modules beside one another that share no tables: one
behavior performs one duty or task (the variables `duty` and `task` say which),
and the others stay where they begin. `MCOutboxScenes`, `MCOutboxLive` and
`MCPlayback` likewise explore two scenes, two kinds of trouble and two storages in
one run each. The joint effects of one
operation on several tables are modelled in each module of a table: a merge of
canonicals is in `Identity`, `Outbox`, `Playback` and `QueryGenerations`.

**Outbox.** The clock is reduced to what the code compares it for: a lease is
live or expired (`expired`), a row is due or not (`due`). `outbox[i]` is the row
of item `i`. A run is `idle` or between its batch and its claim (`swept`);
`delivery[r][i]` is the fiber of `deliverClaimed` for a row that run `r`
claimed, with the row as the claim returned it, and where the fiber is:
`claimed`, `dispatched` after the mark, `sent`, `applied` at the upstream,
`succeeded` when the answer came back, and the states in which the fiber is
about to record a failure, a doubt or a permanent failure. `remote[i]` is what
the upstream holds and `late` the writes nobody waits for any more. Each
statement of the code is one action (`ClaimOutboxTargets`,
`MarkOutboxDispatched`, `AcknowledgeOutboxTarget`, `MarkOutboxUncertain`,
`RecordOutboxFailure`), each transaction too (`WriteUserState`,
`ResolveIdentity`, `MergeCanonicals`, `RunMaintenanceBatch`), and the POST is
four steps, so that edits and expiries fall between them. `LeaseExpires`,
`BecomesDue`, `ApplyRequest`, `ApplyLate` and `DropLate` are the environment.

**OutboxD1** keeps the rows, the fibers and every operation that is a single
statement, and splits the others: `ReadState`/`CommitWrite`, `ReadMissing`/
`SweepBatch`, `ReleaseLeases`/`ReadCandidates`/`ClaimCandidates`, with what was
read in `writes` and `seen`. The upsert of `resolveIdentityD1` takes a row from
a holder that has dispatched another revision, and remembers no doubt
(`ForgetsDelivery`); the history variable `forgotten` names the items this
happened to, of which less holds (section 5).

**Playback.** `ReceiveReport` looks up the item and stamps the report;
`RecordStart`, `RecordEvent`, `RejectReport` and `LoseReport` are the
transaction that records it, refuses it, or fails because its canonical is
gone. Sessions are numbers, in the order in which the code compares their ids
when two began at one instant. `WriteState` is a favorite or played endpoint,
`Prune` the deletion of idle sessions, `MergeCanonicals` the playback part of a
merge. Every recorded report is also one `WriteUserState` of `Outbox`.

**QueryGenerations.** One query key. `generation` and `rows` are the two
tables; `request[r]` is what the handler of `list` holds: the generation as it
read or saved it last, what is published, its unsaved additions, and the
sources that failed and are not asked again by this request. `OpenGeneration`
and `ReadItems` are two statements, as in the code. `FetchPages` asks every
source that has nothing buffered; which of them fail is arbitrary.
`SaveRound` is `persist`: nothing changed, the compare-and-swap is lost (and
the request starts again from the stored list), the insert breaks a key, or the
rows and the cursors are stored. On D1 it only reads what `CommitBatch` asserts,
and `LookAgain` tells a lost race from an error. `query` is an ordinary list or
a list of favorites (`localMembershipOnly`), which is loaded from the user
state. Sort values are reduced to the canonicals, which are numbers.

**Accounts and Connections.** A fiber (`fiber[f]`) handles one request, one
repository call at a time; `pc` is the call it makes next. A password stands for
its record, an id for the random secret whose hash is stored. Calls that are a
transaction on SQLite and several statements on D1 exist twice
(`SqliteConsumeAuthAttempt`, and `D1OpenWindow` with `D1CountAttempt`). `tries`
and `via` are history: when the attempts that were let through were made, in their
order, and how a token was granted. The statements of `Connections` (`desk[f]` is what its handler
holds) are single on both storages.

**Configuration.** `server[s]` is a row with its endpoints; what a URL serves
(`serves`) is chosen once and whether it answers is arbitrary at each call.
`handler[f]` is a request: a test that probes and verifies endpoints and then
saves what it found (`BeginTest` ... `SaveTest`), an edit, a deletion, an
authenticated request (`ReadServer`, `Send`, `LogIn`, `Replay`, `CheckAnswer`),
or a library edit that discovers its sources (`BeginLibrary` ... the save with
the fences of its servers). `SaveServerConfiguration` and `SaveServerResult` are
the two compare-and-swap statements that everything else relies on.

**Identity.** `canonicals`, `aliases` and `sources` are the tables, claims a
function of a canonical's record. `SqliteResolve` is the transaction; on D1
`D1ReadParent` to `D1ReadTarget` are the reads and `D1Batch` the batch. `given` are the ids clients have seen.

**Collections, Metadata, Details, Resources, Covers** have one variable per
table, one per kind of fiber, and a clock of a few ticks where expiry decides.
`Collections` keeps the lease and the cursor of a scan, whether the server is
healthy, and which movies' rows are in quarantine (`Ingest` may find that of a
movie of `Ambiguous` at each reading); `Metadata` the counted
locks of `collectionLocks`; `Details` one asking fiber per client and place;
`Resources` one delivery per client, with the endpoints it has left behind;
`Covers` the manifests under their tokens and the triggers that drop them.


## 3. What the runs check

Every passing run explores its instance completely. Bounds are constants of the
modules and stand in the guards of the actions they bound.

| Run | Instance | States | Question |
|---|---|---|---|
| `outbox_scenes` | either 1 item, 2 runs that may die anywhere, or 2 items of 2 canonicals that may merge and 1 run; 2 payloads, 2 revisions, 1 server generation | 771 483 | Is a settled row ever wrong about the upstream, or about a write that may still arrive? Does the outbox implement its promise? |
| `outbox_liveness` | 1 item, 1 run, 2 payloads, 2 revisions; either the run may die, or there are 2 server generations and a binding that comes and goes | 116 354 | Is the latest state delivered in the end? |
| `outbox_d1` | 2 items of 1 canonical, the second on a server nobody authenticates with, 2 runs that may die, 2 writes or runs at once, 2 payloads, 3 revisions; the server is not edited, the bindings stay | 1 276 855 | Does reading before the batch lose a write, or settle a row on a lie that no observation has caused? |
| `playback` | 2 sessions, 2 revisions more than plays; on SQLite 2 canonicals that may merge and 1 report under way, on D1 1 canonical and 2 operations at once | 771 902 | Are reports folded as promised, and do watermarks hold? |
| `query_generations` | 2 requests, 2 sources of 2 items, 3 canonicals of which 2 may merge, batches of 1; on SQLite 1 failed fetch and 2 writes, on D1 2 generations and 1 write | 311 717 | Do two requests that extend one list skip, repeat or hide anything? |
| `duties` | one of three duties for 2 fibers: 8 mixes of 2 or 3 kinds of account requests, on SQLite or D1; or 7 mixes of server and library requests, 2 or 3 requests in all, 2 URLs, 4 worlds; or the outbox on SQLite with 1 item, 2 runs that do not die, 2 payloads, 2 revisions, 2 server generations, a binding that comes and goes before the edit | 1 614 095 | Which credentials, tokens, endpoints and bindings survive which change? Do cancellation and re-enablement around a delivery lose anything? |
| `catalog` | 2 fibers on one of six tasks; 3 films or 2 series with a season, 2 to 4 resolutions; a box set of 2 movies, one of which may be quarantined, 2 TMDB sets, 2 server generations; 2 credentials, 2 languages; 1 title of 2 items; 4 resources, 3 endpoints; 2 pictures, 2 layouts | 1 961 920 | Section 2, the last six modules |
| `outbox_equal_revision_merge`, `outbox_cancelled_then_died`, `outbox_d1_observation`, `outbox_d1_stale_generation`, `query_generation_ordinals` | one of the above, with one more thing allowed | stop at the violation | Section 5 |

The properties, in words:

- `SettledRowsAreTrue` (`SettledIsApplied`, `LateWriteIsRemembered`): a row that
  the code will never look at again (delivered revision = desired revision, not
  uncertain) is right about the upstream, and no write of another state is on
  its way.
- `ImplementsReplication`: `Outbox` implements `StateReplication`, in which a
  target may be called settled only if it holds the wanted value and nothing
  else is under way.
- `AcknowledgesLatest`: an acknowledgement records the latest state, on behalf
  of a fiber that sent exactly it at the server's current generation.
- `RowsAreSound` (`TypeOK`, `RowFollowsState`, `LeaseHolderIsCurrent`): an
  eligible row carries the canonical, revision and payload of the latest state,
  through writes, observations, merges and maintenance, and a run that still
  holds its lease holds the row's own revision, generation and payload. All
  owner-checked statements (acknowledge, doubt, failure) rely on it.
- `CancelledDeliveriesSettle`: cancelling takes the lease from a fiber that goes
  on delivering; once such fibers have done their bookkeeping, a settled row is
  right. (As long as they live: the violation run lets them die.)
- `Converges`: the upstream of a target that stays deliverable ends up holding
  the latest state, after processes died or after the server and the binding
  were edited. (After both it need not: the write of a dead process may be
  forgotten, `outbox_cancelled_then_died` in section 5.)
- `WritesAreSerial`, `RowsOnD1AreSound`: on D1 a state is only replaced by a
  write that has read it, and a row that is settled on the latest state is right
  about the upstream and about what may still arrive, although a stale
  maintenance batch may set rows back for a while. This is said of rows of
  which no observation took a dispatched delivery (`RememberedRowsAreTrue`); what
  such an observation breaks is the run `outbox_d1_observation`.
- `TablesAreSound`, `WatermarksAdvance`, `ImplementsFold`: no session began
  after its canonical's watermark and nothing refers to a canonical that was
  merged away; the watermark, or that of the canonical it merged into, never
  goes back; and reports are folded as `PlaybackFold` says: the session that
  began last moves the item, one that ended does not move it again, only an
  ending session counts a play, once.
- `NothingSkipped`, `ExhaustedIsComplete`: an item that a stored cursor is past
  is published or still buffered, and a list that calls itself exhausted (whose
  total is then answered as exact) has read every source to its end.
- `ListIsSound`: pages are slices of dense ordinals and every save succeeds as
  long as no merge touched the list; no canonical appears twice, whatever
  merges.
- `ListsFollowState`: a list of favorites that was loaded while writes commit
  and invalidate holds the favorites once the invalidations are done.
- `EveryRequestEnds`: requests that lose compare-and-swaps start again finitely
  often.
- `CredentialsProveThePassword`, `ChangesProveThePassword`: sessions and tokens
  were granted on the present password in its present generation, and a change
  replaces only the password its request gave and verified, however long the
  derivations took.
- `SessionsInUseStay`: the refresh of a session may lag behind its use; it goes
  no earlier than a lifetime, less that lag, after its last use.
- `LimitsHold`: attempts that are counted at the same time exceed the limit of a
  window by no more than the windows' edges allow, and connections theirs by no
  more than the requests between the count and the insert.
- `RemovalTakesTokens`: what a removed connection leaves behind.
- `EligibleEndpointsAgree`, `EligibleSourcesAreServed`,
  `TokensFitTheConfiguration`, `BindingsAreCurrent`: endpoints that requests
  fail over between serve one catalog; a source called eligible can be asked; a
  token was obtained under the configuration it is stored with or sent for; a
  library edit binds only what was discovered under the present generation.
- `IdentityTypeOK`, `GivenIdsLead`, `ResolutionsGather`, `NeverSplit`: references
  lead to live canonicals, ids of clients for ever; a resolution that nothing
  overtook gathers all that claims the same and splits nothing.
- `ProvenMembersStay`, `TmdbEvidenceIsLatest`, `ListedCollectionsOpen`,
  `IdentitiesDoNotTurn`: scans that overlap drop no proven member of a box set and
  no registration turns one TMDB set into another, but for the exceptions of
  section 5; of the details that were not refused (for a quarantined row, an
  unhealthy server or an old generation) the latest decide; a listed collection
  opens under its id.
- `OneRequestPerCollection`, `VerdictsFitCredentials`: the counted locks exclude;
  outside of edits a provider's status changes only by a reader that asked with
  the credential that is stored then. Two edits in one millisecond are taken for
  one, and an edit that replaces the credential of a degraded provider leaves it
  degraded, as in the code.
- `VersionsOutliveOutages`, `FailuresAreTold`: an outage takes no version away,
  and the client is told of it. (An answer that a fiber sat on for a whole
  `METADATA_STALE_MS`, a day, is the exception; requests end within seconds.)
- `FailedEndpointsStayBehind`: no failover goes to an endpoint that failed the
  delivery before, however redirections led in between. A redirection itself may
  lead to such an endpoint, here and in the code.
- `CoversReplaceWhatWasSeen`: library, servers and cover are unchanged between
  the preparation of a cover and its commit.
- `AdministrationTypeOK`: the types of the administration's tables.

Why the bounds are enough. One item is enough where rows do not interact: the
statements treat rows one by one, and rows meet only in merges, which have two
items and two canonicals. On D1 it takes two: a maintenance batch writes stale
rows only when a target is missing, and with a revision above 0 one is missing
only when a write commits for another item of the canonical that was observed
before; with one item the sweep never had anything to write. Two revisions give an older and a newer write, three
are used on D1 where a batch may be two writes behind. Two runs give every
overlap of a claim, an expiry and a second claim, since a row has one lease. A
second server generation gives one edit between any two steps. Two sessions are
what the rule "the session that began last" compares; the clock has enough ticks
for a session to become idle and for another to begin after it. Two requests are
what a compare-and-swap decides between, and a batch of one makes every page
several saves, so that merges and invalidations fall between them. In
`duties` two fibers race; the mixes of requests (`MCTraffics`,
`MCWorkloads`) are the pairs and triples that touch one row, time passes only in
the mixes where expiry matters (`MCHorizon`), and three requests verify a server,
change it and use it. In the outbox of
`duties` an item is unbound only before the edit of its server, which finds it
bound. In the box set of `catalog` the server is down only after its last edit
and while no box set is scanned, and a row is in quarantine only before any tick
or edit and while no scan of the smaller virtual library is under way
(`TroubleAtATime`): each kind of trouble meets every order of visits, details
and readings, but not the other. While images are delivered a minute passes or
the server is edited, not both. In `catalog` two fibers race on one row, and a
third resolution, visit or request follows what they left; on D1 the films have
two resolutions, because the series already join two clusters with three, and
those three meet no edit of the server (`ThreeAtOnceUnedited`).
Where TLAPS proves a property, the bounds no longer matter for it.

Symmetry is used for runs, payloads, items, canonicals, TMDB sets and fibers where the
modules do not order them, and never in a run with a liveness property.

Fairness. `Fairness` of `Outbox` (`LiveSpec` of `MCOutboxLive`) assumes that maintenance is started again and
again (the timer of Bun, the cron trigger of Workers), that fibers go on (weak
fairness), that leases expire and rows become due, and that an upstream which is
asked for ever applies a write and answers in time at some point (strong
fairness of the steps of one delivery). Without the last assumption an upstream
that never answers refutes convergence, which says nothing about the code.
`FairD1Spec` of `OutboxD1` adds that a write that has read commits or aborts. In
`QueryGenerations` only the steps of a request are weakly fair: nothing has to
merge, be written or expire. The other modules state safety only.

`CHECK_DEADLOCK FALSE` is set where a finite number of requests ends or a bound
ends a behavior: `query_generations`, `query_generation_ordinals`,
`duties` and `catalog`.


## 4. What is proved

The `*Proofs` modules are checked by TLAPS to the last leaf. The constants are
arbitrary apart from the named assumptions of the modules: sets of fibers
and of sources are finite where something is counted, limits are positive numbers, model values
that mean "none" are no members of the sets they are absent from.

| Module | Theorems | Inductive invariant |
|---|---|---|
| `OutboxProofs` | `TypeCorrect`, `RowsFollowState`, `LeaseHoldersAreCurrent`, `RowsStaySound` (`RowsAreSound`), `AcknowledgementsAreLatest` (`AcknowledgesLatest`), `CancelledDeliveriesAreSettled` (`CancelledDeliveriesSettle`), `SettledRowsStayTrue` (`SettledRowsAreTrue`), `OutboxReplicates` (`ImplementsReplication`); on D1 `NoWriteIsLost` (`WritesAreSerial`), `RowsOnD1StaySound` (`RowsOnD1AreSound`), `UpsertsAgree`, `DeliveriesAgree` | `IInv`, `OrderInv`, `SettleInv`, `TruthInv`; on D1 `SerialInv`, `D1Truth` |
| `PlaybackProofs` | `PlaybackTypes`, `WatermarksBound`, `TablesStaySound` (`TablesAreSound`), `WatermarksNeverGoBack` (`WatermarksAdvance`), `ReportsFold` (`ImplementsFold`), `D1TablesStaySound`, `D1WatermarksNeverGoBack` | `FoldInv`, `D1Inv` |
| `CatalogProofs` | `VerdictsFit` (`VerdictsFitCredentials`), `CollectionsAreAskedOnce` (`OneRequestPerCollection`), `LatestDetailsCount` (`TmdbEvidenceIsLatest`), `CollectionsOpen` (`ListedCollectionsOpen`), `MembersStay` (`ProvenMembersStay`), `IdentitiesStay` (`IdentitiesDoNotTurn`), `FailuresAreReported` (`FailuresAreTold`), `VersionsStayShown` (`VersionsOutliveOutages`), `IdentitiesStayTyped` (`IdentityTypeOK`), `GivenIdsLeadForEver` (`GivenIdsLead`), `ResolutionsGatherAll` (`ResolutionsGather`), `CanonicalsAreNotSplit` (`NeverSplit`) | `VerdictInv`, `LockInv`, `CollectionsInv`, `DetailsInv`, `IdentityInv`, `FreshInv` |
| `MediaProofs` | `FailedEndpointsStay` (`FailedEndpointsStayBehind`), `CoversReplace` (`CoversReplaceWhatWasSeen`) | `RouteInv`, `CoverInv` |
| `AccountsProofs` | `CredentialsProve`, `ChangesProve`, `SessionsInUse` (the properties of these beginnings), `AttemptsAreLimited` (`AttemptsAreBounded`) | `AccountInv`, `AttemptsInv` |
| `ConnectionsProofs` | `RemovalTakes` (`RemovalTakesTokens`), `ConnectionsTyped`, `LimitedConnections` (`ConnectionsAreLimited`) | `ConnectionsInv` |
| `AdministrationProofs` | `ConfigurationHolds`, `FailoverKeepsTheCatalog` (`EligibleEndpointsAgree`), `EligibleSourcesHaveEndpoints` (`EligibleSourcesAreServed`), `TokensBelong` (`TokensFitTheConfiguration`), `LibrariesBindWhatIsThere` (`BindingsAreCurrent`); `DutiesAreApart`, `AdministrationTyped` (`AdministrationTypeOK`), `TheLimitsHold` (`LimitsHold`) | `ConfigurationInv` |
| `QueryProofs` | `GenerationsKept`, `ListStaysSound` (`ListIsSound`), `ListsSkipNothing` (`NothingSkipped`), `ExhaustedListsAreComplete` (`ExhaustedIsComplete`), `FavoritesFollow` (`ListsFollowState`) | `QInv` |

`RowsAreSound` and `CancelledDeliveriesSettle` are checked by the run `duties` as
properties of an instance of `Outbox` (`MCDuties`), and proved of `Outbox` itself.

No property is inductive alone; what each needs, and why:

**Outbox.** `IInv == TypeOK /\ RowsAreRight /\ every row is Fresh /\
LeaseHolderIsCurrent`. `RowsAreRight` is `RowFollowsState` together with what a
cancelled or absent row still says about its canonical, because a merge or an
observation makes it eligible again. `Fresh` says that a row which was never
inserted was never delivered, so that inserting it is no acknowledgement. A
lease may stay with its holder because nothing that the fiber copied from the
row is rewritten under it, and a row is rewritten whenever the state it follows
is: so the first and the last of these need each other. The proof classifies
all rewritings of rows that are no acknowledgement by a relation `Respects(old,
new)`: the lease is gone or the row is the same in what fibers copy, and what
was delivered stays. The lemmas `UpsertEffect`, `CancelEffect`, `SyncEffect`,
`BatchEffect` and `MergeEffect` show that for the statements, and the steps of
fibers are handled apart. `AcknowledgementsAreLatest` follows from the
invariant and the guards of the acknowledgement.

What a settled row says of the upstream needs three invariants more. `OrderInv`
orders revisions: a row's delivered revision is at most its desired one, that is
at most the state's, equal revisions mean equal payloads (which is where a merge
of two states of one revision is excluded), and a fiber's copy is no newer than
its row. `SettleInv` follows fibers that lost their lease: what the upstream
holds is the row's payload, or the row is in doubt, or some fiber has yet to
tell what it did (`Told`); and every late write is doubted, or will be.
`TruthInv` is the stronger one for targets that keep their eligibility: as long
as a row is not in doubt, a fiber past the gate still holds its lease, and
nothing but the desired payload is under way. Each is shown kept by kinds of
steps: rewritings of rows (`Rewrites`), claims, deaths of runs, the
moves of a fiber (`FiberMove`), and late writes. The refinement then needs no
case of the code that those lemmas have not seen: every kind of step is a step
of `StateReplication` for each item, or changes nothing of what it sees.

The hypotheses are the ones the code needs. `~EqualRevisionMerge` and, for
`CancelledDeliveriesSettle`, `~CanStop` exclude exactly what the runs
`outbox_equal_revision_merge` and `outbox_cancelled_then_died` refute.
`Lasting == MaxGeneration = 1 /\ ~CanUnbind` is the setting of the run that checks
these two properties, `outbox_scenes`: no server is edited and no library unbound. Without it a
row can settle while a cancelled fiber is at work, which is the subject of
`CancelledDeliveriesSettle`. Deaths of runs, lost answers, late writes, expired
leases and merges stay in it.

**OutboxD1.** The batch compares revisions only, so the invariant has to say why
a revision identifies a state: a write under way has read the present state, or
one of a lower revision (`WritesAreRecent`). `UpsertsAgree` and
`DeliveriesAgree` say that the upsert and the bookkeeping of a fiber, written
for a batch on D1, do to a row what the statements of SQLite do.

`RowsOnD1StaySound` needs more than `SettleInv` carried over. A stale batch sets
a row back under a fiber, so "the row is at the latest revision" is not kept by
any step that matters; what a settled row, a fiber or a late write holds is
compared instead with everything that is *said* of its canonical (`IsSaid`: the
user state, the rows, what pending batches have read and what fibers carry).
`D1Truth` is inductive: of one canonical and revision only one state is said
(`SaidOnce`); the holder of a lease carries the row's revision, so a row that was
set back has lost its lease (`LeaseHolderIsCurrent`) and is leased again only
when it is behind (`LeasedIsBehind`); and what was dispatched, is late or was
applied is held by the row as a doubt, by its lease, or is what the row says
(`DispatchedHold`, `LateIsHeld`, `AppliedIsHeld`). A doubt is refused (D1 3966)
only to a fiber that has lost its lease (`RefusedDoubt`). Every read and batch is
of one form, `D1Rewrites`: rows change only by `KeepsDoubt`, which keeps doubts
and what is settled, except `ForgetsDelivery`, after which the item is in `forgotten`
and the invariant asks of it no more than its types, payloads and lease. The
theorem assumes `Lasting`.

**Playback.** The order `Later` of (beginning, session) pairs is shown
transitive, asymmetric and total; that nothing refers to a canonical that was
merged away is part of the type invariant. `WatermarkBounds` is what makes the
order of `PlaybackFold` work: a start that passes the watermark begins later
than every session known for its item, so it precedes none, and the latest
session is the one that no other follows. `FoldInv` adds that a forgotten
session is not a stopped one (`UnknownIsBlank`), so that its id can begin again.
A recorded start is then a step `Begin` of the fold, progress `Advance`, stop
`End`, a change of the user `Override`, a merge `Join`, a pruning `Forget`; each
has a lemma, and all other steps change nothing the fold sees.

On D1 a batch may follow its reads at any distance. `D1Inv` says that what was
read is of the types of the rows and nothing more: that it is stale does no harm
to sessions and watermarks, because the batch repeats the conditions of the
report on the rows it finds. The lemmas `StartBounds` and `EventBounds` serve
both storages.

**Metadata.** A status is stored only if the settings still have the time they
had when the reader took its plan. `VerdictInv` says why that time stands for
the credential: every credential in the settings or in a reader's plan was stored
with the time beside it (`editions`, a history variable), so that two with one
time are the same unless two edits stored different ones under it
(`OneTimeOneCredential`). `LockInv` counts: the users of a semaphore are exactly the
readers that wait for it or hold it, no two keys lead to one semaphore, and a
semaphore that somebody uses is in the table as long as its key leads to it. The
cardinality lemmas are those of finite sets with one member more or less.

**Collections.** A collection is moved by adding an alias, and the code follows
aliases by a recursive function. `CollectionsInv` says that only ids of sources
became aliases and only of TMDB sets (`RegistryOK`), and that evidence is never
with an id that was renamed (`EvidenceOK`); `ResolveLeads` shows from that, by
induction over the aliases that are left to follow, that resolving ends with a
collection that is no alias. The induction is the library's well-foundedness of
the naturals applied to the least counterexample (`Least`), since its induction
theorems cannot be instantiated here. A visitor may hold an id of before
(`VisitorsOK`), a scan the movies that its pages passed (`ScansOK`); what a
finished scan saw is why it takes no member of its scope away whose row is not
in quarantine, and the last details that were taken are why no older ones write (`UpdatesOK`).

**Identity.** An id is made for a type and carries it (`IdType`), so that the
invariant need not ask what was resolved first. `IdentityTables` says of the
tables that rows, aliases and source items keep the types of their ids, and that
aliases and source items lead to live canonicals; `FiberHolds` says of a fiber
what its reads have in common with any later tables: their types, and nothing
about being current. What a resolution writes, in the transaction on SQLite or in a batch on D1 whose
reads are long out of date, is one relation (`Wrote`): it moves whatever led to a canonical
in the same step that retires it, and so keeps both. The second write of a cover
(`Persist`) retires nothing and may bring a canonical back, with the type of its id.
`FreshInv` is about fibers nothing has overtaken (`clean`): what they have read so far is what
the tables still say. With it the write is `Current`, and a `Current` write gathers
its item and splits nothing (`CurrentGathers`). That an oldest canonical exists
is `Least` again.

**Details.** `DetailsInv` gives a fiber's record its shape in each phase, and
says what it heard: a fiber that suppresses projections heard that something is
missing or refused (`Writes`), one whose reason to ask the items was an outage
will tell the client (`EndingOK`). Both properties are then a matter of each
action, of which only four write projections away.

**Resources and Covers.** `RouteInv`: the endpoints a delivery left behind are
those before its floor, and a redirection leads to one after it. `CoverInv`: a
manifest, a fiber that still holds it, and the history of what its preparation
found agree, and a token is given once.

**Accounts.** `AccountInv`: what the handler holds of the user between its calls
is older than the present user or is the present user (`FibersFit`), with the
password it verified; a session expires a lifetime after it was seen, and was
used less than `RefreshAfter` later (`SessionsTimed`). The proof is over
`ConnectionsSpec`, the interleaving with the statements of connections.

The limit of attempts is a statement about any window of time, while the code counts
in windows of its own, which begin with an attempt, and forgets rows by pruning.
`AttemptsInv` relates the two: the attempts of a kind are in the order of their
instants, and its latest row (`IsLatest`) counts the last of them since it
began. The windows before it had ended, so that of the attempts before it all but
`Slack` are a whole window old: those of SQLite were counted when the row did not
block, which takes one more off. Where there is no row, all but `Slack` are as
old now (`WindowsFit`). The lemmas say this of the four ways to touch a row:
`WindowOpens`, `WindowCounts`, `WindowsExpire` and `WindowsAge`. The assumption that
`MaxAttempts` is more than one is the code's (`AUTH_RATE_MAX_ATTEMPTS` is 5): a limit
of one would be checked by an opening that does not block.

**Connections.** `RemovalTakesTokens` speaks of the end of a removal, so the
invariant says what each statement owes the next: a token that a removal must
take is linked (`OwedAreLinked`) until the links are dropped, by then in the hand
of the fiber that drops them (`OwedAreTaken`), and a revoked connection owes
nothing unless a fiber stands between (`RevokedAreSettled`). That connections
are numbered without gaps (`Numbered`) makes ids new. `LimitedConnections`
counts the active rows and the fibers between count and insert.

**Configuration.** `ConfigurationInv` speaks of rows and of handlers. A row is
`Sound`: its URLs are distinct, a catalog it names for a URL is what the URL
serves (`Truthful`), and if it is called healthy some endpoint is, with the
row's catalog (`SomeServes`). Its token is `Fitting`. A handler `Agrees` with its
server: the row it read is of an earlier generation, or has the same password,
URLs and deletion, because no configuration changes under one generation. So
what a test or an edit saves is sound for the row it finds, or the compare-and-swap
refuses it; each kind of handler has a part that says what it holds
(`TestFits`, `VerifyFits`, `SaveTestFits`, `EditFits`, `RequestFits`,
`LibraryFits`), kept when servers change (`FitsStays`) and when the handler
moves. `UrlsAtPositions` is the lemma about the endpoints of a row that
qualify, a recursive function whose least counterexample is excluded.
`DutiesAreApart` shows that a behavior of `MCAdministration` is one of
`ConnectionsSpec` and of `ConfigurationSpec`, so that the theorems of both hold of it.

**Query generations.** `QInv` relates what each handler holds (`Fits(q)`, for
every record `q` in `Held`) to the stored generation. A generation is named by an
id that is never given again and a revision that only grows (`Named`), so a
request that was overtaken stays overtaken and nothing is asked of its buffers
(`OvertakenFits`); one that still stands holds the published rows, and its
cursors are past nothing that it does not show or buffer (`Holds`). Additions
continue the published rows without a gap (`Continues`), which together with the
dense ordinals of the stored rows is why no insert breaks before a merge
(`NothingBreaks`) and why a batch on D1 is aborted only where the request was
overtaken (`Aborts`). For a list of favorites, what is published, added and still
to be taken is the set of favorites whenever all writes have invalidated
(`Follows`). A merge can only take the retired canonical from what is covered;
`ResolvedAsFirst` is the link between what an item was buffered as and what it is
resolved to. Steps of a request that store nothing are shown to keep `Fits` of
its own record only (`LocalKeeps`); the rest is proved for the append, the
replacement, the deletion and the merge.


What stays with TLC, and why:

- `Converges` and `EveryRequestEnds`: liveness under fairness is out of the
  prover's reach.
- `ImplementsFold` on D1 (it is proved on SQLite). The batch's assertion admits a
  twin that stored the very same state, and the model leaves the time of writing
  out of what makes two states the same: with many sessions at once, and a
  pruning between two equal stops, it lets more pass than the code. The run's
  bounds are below that.


## 5. Disagreements between the code and its documents

Five runs end in a violation of what the design promises. `PROJECT.json`
("findings") quotes the lines.

- `outbox_equal_revision_merge`: when two canonicals merge whose states have the
  same revision and different payloads, rows that had delivered the state that
  lost stay settled on it, since everything compares revisions only.
- `outbox_cancelled_then_died`: cancelling a row that was dispatched clears its
  lease and records no doubt. If its process then dies, the write it sent may
  still be applied after the row was enqueued again and settled.
- `outbox_d1_observation`: on D1 an observation that finds a row with another
  revision than the user state's (a write that committed in between, or a sweep
  that set it back) clears the row's lease and `dispatched_at_ms` and sets no
  `uncertain_since_ms` (D1 2466). If the run that had dispatched then dies, its
  older write may reach the upstream after the newer one was acknowledged, and
  the row stays settled. The design, line 272, promises that owner loss and
  "every ambiguous delivery outcome" create a durable obligation.
- `outbox_d1_stale_generation`: a write on D1 that read its targets before a
  server edit, and commits after the item was observed again, leaves a row with
  the old generation and the latest revision. It is claimed and refused for
  ever, because maintenance repairs revisions only.
- `query_generation_ordinals`: a merge of two published canonicals deletes a row
  of a living list. Later items move up, and the next addition takes an ordinal
  that exists, so the list cannot be extended until it expires.

Seen while modelling, and not the subject of a run. Outbox, reports and lists:

- A claim that was taken before a library edit is dispatched to a source that
  is no longer bound: `markOutboxDispatched` checks the server's generation and
  flag, not the binding (SQ 3497; the design, line 134, says an ineligible
  source cannot receive a delivery).
- A same-origin 301, 302 or 303 turns the POST of a user state into a GET, whose
  success is acknowledged (`core/upstream-client.ts` 652).
- On D1 a stale maintenance batch lowers `desired_revision` under a dispatched
  fiber, whose doubt is then refused (D1 3966). With bindings that change and
  three revisions a row then settles although the doubted write may still
  arrive, against `RowsOnD1AreSound`; the run `outbox_d1` keeps bindings fixed,
  and the theorem assumes `Lasting`.
- A report that changes the media version within a session is refused for ever
  on D1 (D1 3695) and accepted on SQLite.
- Pruning keeps playback sessions by their last events (SQ 3670), while the
  watermark orders them by their beginnings.
- A list whose generation is replaced between `readQueryGeneration` and
  `readQueryGenerationItems` is answered, if it was exhausted, as an empty list
  with an exact total of 0 (`core/federation.ts` 952).
- An entry of `localBuffer` whose canonical is merged away is never refreshed
  and breaks the foreign key of the append until the generation expires.
- On D1 a first save of a list that lost the race against one that was deleted
  before the second look answers an error (D1 2951).

Identity, servers and collections:

- A late quarantined claim of a retired canonical's claims leaves the members of
  one cluster in disagreement (SQ 2382, 2420; the design, line 162).
- After two series merge, a season of the retired series is "ambiguous-identity"
  for ever (the design, line 168). On D1 two resolutions from stale reads may
  each write a claim, and the identity state is lowered where SQLite keeps it.
- A server that is deleted and added again meets its old rows (SQ 1201,
  `migrations/0001_initial.sql` 17).
- An edit of a server that only names it, and read the row before a test
  finished, writes the verified catalog back to none
  (`docs/superpowers/specs/2026-09-22` lines 104-106).
- A complete scan of a box set for a virtual library replaces the snapshot of all
  libraries (`core/collection-repositories.ts` 257): the movies of the source
  libraries it did not ask for are deleted, although the design
  (`docs/superpowers/specs/2026-10-03-movie-collections-design.md` 58) says that
  a snapshot does not delete what was not observed. The attempt to prove
  `ProvenMembersStay` found this; the exception is now part of the property, and
  the run has a scope without one of the libraries.
- A complete scan of a box set also takes a proven movie out of the snapshot when
  the movie's row is in quarantine as the scan ends
  (`core/collection-repositories.ts` 265), although the upstream still lists it;
  it comes back with a scan after the quarantine. And the details of such a
  movie, or of one whose server is not healthy at that moment, are refused (204):
  the evidence of older details stays until newer ones are taken.
- A registration that names no TMDB set, and read its row before the source was
  known as the set it is now, puts it back into the set of before
  (`core/collection-repositories.ts` 125-140, against the comment at 118). The
  attempt to prove `IdentitiesDoNotTurn` found this, with three registrations.
- Registrations that race on a first visit leave members with a source
  collection that no alias leads on from; offset paging over a box set that
  shrinks may drop a member.

Metadata, titles, media, covers and connections:

- A redirection may lead a delivery back to an endpoint that has failed it; when
  it fails again, the next endpoint behind all that were reached takes over
  (`core/upstream-client.ts` 1366-1463).
- An edit that replaces the credential of a degraded provider stores it degraded
  (`core/metadata-settings.ts` 97), and the statuses of requests under way do not
  tell an edit from another one in the same millisecond (SQ 1314).
- A metadata answer asked for under old settings is stamped after the edit and
  counts as fresh (`core/metadata-providers.ts` 590); a patch that preserves the
  credential undoes another edit (`core/metadata-settings.ts` 86).
- An older detail answer that is written late shows withdrawn versions again
  (SQ 2798), and a stale "exact" answer hides versions.
- When the deadline or the client cancels the reading of an image while a read
  is pending, the truncated body is cached for six hours (`core/playback.ts`
  989; `test/resources.test.ts` 191 says only the complete body is cached).
- A cover that is replaced and restored to the same bytes counts as unseen
  change, since the revision is a digest; this is benign.
- A logout deletes the device's link before its token, so a removal of the
  connection in between leaves that token to the logout's second statement
  (`core/drivemby-compat.ts` 670).
- On D1 a GET that logs in after a 401 reads the row again when the token is
  saved (`saveServerResult`, D1 1132), also one that was deleted meanwhile. If
  that endpoint then fails, the request goes on to the next (`upstream-client.ts`
  878-920), and a login there saves its token with the deleted server: the
  statement compares the generation only. On SQLite the row is read and written
  in one transaction. The proof of `TokensFitTheConfiguration` found it, and the
  mix `remove` with `get` of the run `duties` now reaches it.
- On D1 a rate-limit window is opened even while the one before is blocked, so
  its bound is one more than on SQLite.


## 6. What the models leave out

- The `LIMIT`s of maintenance and claims (50 and 100 rows): a run takes all rows.
- Instants: in `Outbox` leases and backoffs are expired or not; the modules
  whose properties depend on the order of instants have a clock of a few ticks.
- Redirects, failover and authentication after a 401 around the POST of a
  delivery: the upstream applies the write, refuses it, or its answer is lost.
  They are in `Configuration` and `Resources` for the requests made there.
- Two states of one revision in a merge, except in the run that is about them
  (`EqualRevisionMerge`).
- Absolute `PlayCount`s sent by a client in a user-data patch, and more than one
  media version on D1, where the version guard of `CommitEvent` is idle.
- In the playback run one report is under way at a time on SQLite; reports
  recorded out of order are explored on D1, whose promise is the same.
- Merges of canonicals beside the D1 outbox and D1 playback. In the run
  `outbox_d1` the server keeps its generation; edits around a D1 write are the
  subject of the violation run `outbox_d1_stale_generation`.
- In lists: the scan budget of 2000 items, sources that join or leave, sorts
  whose values change (`DatePlayed`), other filters, and the fields of an item.
- Death of a process between the commit of a write and its invalidation: lists
  then show the old state until they expire.
- One server in `Identity` and `Collections`, where a deletion of the server is an
  edit that counts its generation up, and where every row of an item has a
  canonical, as resolution leaves it (`canonical_id IS NOT NULL` always holds).
- What `Resources` says of bodies and of the cache (chunks, interruptions,
  storing, trimming, expiry) is modelled and explored, but no property is about
  it: the one property of the module is about endpoints.
- Names, artwork and texts anywhere; the matching of titles; transcoding
  parameters, device profiles and signed paths of media; the drawing of covers; the settings, avatar and history of the
  drivemby API; the dashboard and its contracts.


## 7. Plan

Proofs, in this order: the fold on D1, for which `PlaybackD1` has to keep the time of a
write.

Model, where it can grow: the answer of a page and lists whose sources change;
search, studios and seasons; the settings and history of drivemby; the limits of
maintenance, with the question whether rows late in the order are ever reached.

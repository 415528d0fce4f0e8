# wine-app: TLA+ models, checks and proofs

The repository is a local-first cellar app. A page keeps its own store (SQLite in
OPFS, behind a worker and compiled to wasm), a sync loop reconciles it with one
Axum/Postgres server, and the server keeps reference vocabularies that browsers
only pull. This directory models the parts of it that take decisions, checks them
with TLC and proves the most important results with TLAPS.

## 1. Inventory

| Component | Source | State it keeps | Operations | What makes it correct | Module |
| --- | --- | --- | --- | --- | --- |
| Bottle sync, browser | `web/src/offline.ts`, `crates/client/src/{sync,store,handle}.rs` | `bottle` table with dirty bits, `sync_state` (cursor, default lot), `syncing`, the awaited request | POST /bottles, one sync pass (get_dirty, push, apply_acks, cursor, pull, apply_pull, refreshCount), triggers `load`, `online`, after a POST | nothing recorded is lost; a clean row is on the server; passes end; tables and cursor move forward | BottleSync |
| Bottle sync, server | `crates/server/src/{sync,web}.rs` | `bottle` table, `server_seq`, id factory | /sync/push, /sync/pull, POST /bottles, restart | last write wins; no id reused | BottleSync, LwwStore |
| Record ids | `crates/core/src/ids.rs`, `max_persisted_tick`, `local_max_tick` | last tick | resume, next | a minted id is not in use where it is minted | CausalId |
| Change feed | `migrations/0001_init.sql`, `pull` | `sync_seq`, rows in open transactions | stamp, commit, read rows, read cursor | a reader that follows its cursor misses a row only where a statement overlaps its pull, and no reference row | ChangeFeed, Feed |
| Server epoch | `check_epoch`, `reset_local`, `init_db`, `/sync/meta` | `epoch`, tables, cursors | reset on a new epoch, statement by statement | a browser that stores the server's epoch holds nothing of another server; it drops nothing while the server stays; it ends up with the new server's data | EpochSync |
| Reference pull | `reference_pull`, `apply_reference` | `ref_cursor`, mirror tables | pull, blind upsert, cursor of the rows | the mirror converges to the server | EpochSync |
| Reference seed | `crates/core/src/seed/mod.rs` | the merged lists, hash sets of keys | load, resolve | what is accepted has no repeated key and no dangling reference, what is refused has the fault named | SeedVocabulary, SeedSources |
| Server start-up | `crates/server/src/{main,seed,db}.rs` | reference tables, demo chain, id factory | resume, eight upserts, ensure_seed, stop, restart, deploy | restart-safe, idempotent, ids never reused, one lot, start-up succeeds in the end | SeedReconcile, CausalId |
| Worker RPC | `offline.ts` call()/pending, `worker.ts`, `init_db` | pending map, ready, the pool of OPFS files | call, reply, ready sentinel, start of the worker | each call is run and answered once and in order; an app comes up | WorkerRpc, WorkerCalls, AppStart |
| Shell cache | `web/src/sw.ts`, `crates/server/src/assets.rs` | precache, cached shell | navigate, install, activate, put | an offline navigation ends up with a shell whose assets are there | ShellCache, AppStart |
| Design preview | `web/src/preview.ts`, `core/templates/preview.html` | signals (`consumed`, `consumedslots`, `undoid`), `releasedSlots`, the rack as drawn, panels, form | consume, Undo, find a place, move, set up a rack, add bottles, navigate | the pieces of state tell of the same bottles; what is confirmed is open | RackPreview |
| Design preview server | `crates/server/src/preview.rs` | none | serves the page and its assets | nothing a state property is about | not modelled |
| Views, vocab, assets, store trait | `core/src/{views,vocab,model,store}.rs`, `build.rs` | none | rendering, generated enums | nothing a state property is about | not modelled |

How they interact. The page calls the worker by RPC (postMessage) and the server by
fetch; the worker runs one call at a time, synchronously, each statement of it
autocommitted. The server's handlers run concurrently on a pool of connections, one
autocommitted statement at a time. Nothing is locked across two of these steps, so
every `await` of the page and every statement of a handler is a point of
interleaving; a fetch can fail before or after the server did its work; a tab can be
closed and the server restarted at any point. `PROJECT.json` lists each hazard at
its line, with the properties that watch it.

## 2. Plan

Order, most important first:

1. *CausalId, LwwStore, BottleSync* (done): the two-way synchronisation of bottles,
   the only data a user can lose.
2. *EpochSync* (done): a nuked or redeployed server against a browser with dirty
   rows, a reset cut short, and the reference pull in the order of the whole pass.
3. *SeedVocabulary, SeedSources, SeedReconcile* (done): what the loader accepts, and
   start-up with stops, restarts, other releases and ids minted by browsers.
4. *ChangeFeed* (done): stamps against commits, the two statements of the bottle pull
   and the one of the reference pull, the latter as an implementation of a feed that
   misses nothing.
5. *WorkerRpc, ShellCache, AppStart* (done): `pending`, the ready sentinel, a failing
   `init_db` and two tabs at one pool, as a refinement of "each call is answered once
   and in order", composed with the service worker under deployments.
6. *RackPreview* (done): the interactions of the design preview.

BottleSync and EpochSync share CausalId; SeedReconcile composes CausalId with the
vocabulary that SeedSources accepts (`Coherent` is what the theorem about the loader
yields and what SeedReconcile assumes of a release).

AppStart composes WorkerRpc with ShellCache: a page that loads needs both the assets of
its release and the pool.

Abstract specifications: LwwStore (implemented by BottleSync), Feed (by ChangeFeed's
reference rows) and WorkerCalls (by WorkerRpc and AppStart). Every safety property a
passing run checks, and each of these refinements, is a theorem (section 5).

## 3. Modules

**CausalId** - `ids.rs`. An id packs tick and source; its hex text sorts like the
number, so ids are integers. `HighestTick` is `local_max_tick` and
`max_persisted_tick`; `NextId` is `IdGen::resume(..).next()`.

**BottleSync** - one server epoch, any number of browsers.

| State | Code |
| --- | --- |
| `local[c]`, `cursor[c]`, `defaultLot[c]` | the OPFS database: `bottle`, `sync_state` |
| `pc[c]` | the point of `sync`/`syncBottles` the page awaits; `"idle"` is `syncing = false`, `"wedged"` is a pass that threw out of its `finally` |
| `call[c]` | the one fetch in flight, from the page's request to the response, with what the handler has done so far |
| `posts[c]` | `POST /bottles` calls the worker answered and the page has not taken |
| `online[c]` | `navigator.onLine` |
| `srv`, `seq` | the server's `bottle` table, the last `server_seq` stamped |
| `tick` | the last tick of the server's `IdGen` |
| `orphans` | push requests still running although their client is gone |
| `minted`, `faults` | ghosts: versions created, faults spent |

Every function of the code is one action or, where it awaits, one action per
stretch between awaits: `GetDirty` ... `RefreshCount` for the pass, `PushOneRow`,
`PushReplies`, `PullReadsRows`, `PullReplies` for the handlers, `AddBottle`,
`HandlePost`, `Reload`, `GoOnline` for the events. Failures are actions of their
own (`LoseConnection`, `GoOffline`, `HandlerFails`, `ReadFails`, `ApplyAcksFails`,
`ApplyPullFails`, `RefreshFails`, `ServerRestart`), each leaving what the
statements executed before it left.

Abstracted: a row's payload is the physical bottle it stands for (`unit`), which the
code never reads; times are milliseconds, the unit of the wire; deletions and status
changes do not occur because no code makes them (R-numbers of
`docs/plans/2026-09-19-code-review.md` treat what is missing). `sync_seq` also skips
numbers (the upsert draws one for the insert it does not do); only the order of the
stamps matters, so the model's have no gaps. A statement is one step: that a stamp
is drawn before its row is visible is ChangeFeed's subject. The server's lot is one
constant because start-up makes exactly one. A pass starts after `syncMeta` and ends
before `syncReference`, which touch other state as long as the epoch stays.

**LwwStore** - what the server's table promises: for each id the newest version it
was offered.

**EpochSync** - one browser and the server whose database is replaced, or which is
redeployed with other seed data.

| State | Code |
| --- | --- |
| `missing`, `bottle`, `ref` | the tables of the OPFS database; `missing` are those dropped and not made again |
| `cursor`, `refCursor`, `stored`, `defaultLot` | `sync_state` |
| `pc`, `body`, `reply` | where `sync()` stands, and its request; `"wedged"`: refreshCount threw |
| `epoch`, `srvBottle`, `srvRef`, `srvLot`, `seq` | the server's database: `server_meta`, `bottle`, reference tables, lot, `sync_seq` |
| `units`, `blind`, `faults` | ghosts: bottles recorded; an epoch stored, or to be stored, over data whose server nobody knows, and no reset since; faults spent |

The pass is `Sync`, `CheckEpoch`, `GetDirty`, `ApplyAcks`, `ApplyPull`,
`SendRefPull`, `ApplyReference`, each with the actions for a refused or lost
request; `ResetUpTo(n, e)` is the reset cut short after n statements. `EpochUnread` is the pass in
which the SELECT of the stored epoch fails: `query_text` swallows the error and `check_epoch` takes
the browser for a new one, storing the epoch without a reset. `Load` is
`init_db` (which makes missing tables) and the `load` event. The environment is
`OtherBottle`, `Redeploy` (other seed contents, same database) and `Nuke` (a fresh
database with the next epoch). Abstracted: epochs, random in the code, are numbered;
the number of a bottle is also its `updated_at`, as one clock made them; every
reference row stands for a mirror table of its own, so that the tables' separate
DROPs and upserts are told apart; a request is one step of the server except for a
push, which goes row by row (BottleSync has the finer steps).

**SeedVocabulary** - entries, their natural keys, what one list refers to in another,
and `Coherent`, the reference definition of a sound vocabulary.

**SeedSources** - `load` and `resolve`: files are merged list by list and checked
entry by entry against the keys met before. `Checked` is the order of the loops.

**SeedReconcile** - `main` until it serves. `rows` are the reference tables, `chain`
the demo rows, `bottles` the bottle ids; `release` is the vocabulary compiled in,
`done` counts the entries reconciled, `tick` is the id factory's, `made` the row
ensure_seed inserted last. `Walk` is the order of `sync_reference_data`; each upsert
is `RowIsCurrent`, `UpdateRow`, `InsertRow` or `WriteRefused`. The maps `country_id`
and `system_id` are read off the rows: a country is never removed or re-coded, so the
map's id is that of the row with the code; MapsHaveParents checks that the entry the
map is asked for came before. SELECT and write are one step, since during start-up
nothing else writes these tables. The fields an upsert compares are one `value` and, for a country, its iso3,
whose UNIQUE constraint can refuse it. Two constants say what the columns make of an entry: `Unfit`
are the entries they refuse (a scope outside the CHECK, a code too long for char(2) or char(3)),
which `load` lets pass, and `Padded` the iso3 codes that char(3) returns with blanks, so that they
never equal what was authored. Stopping is possible at any point;
`stops` bounds stops during start-up and deployments, not restarts of a server that
serves; `MaxSeq` bounds the writes. Migrations run before and change nothing when
repeated; they are left out.

**Feed** - what a change feed promises: rows are published under rising stamps, and a
reader whose cursor is n holds every row published up to n.

**ChangeFeed** - the two feeds, one level below a statement.

| State | Code |
| --- | --- |
| `seq`, `table` | `sync_seq`, the committed `server_seq` of each row |
| `open` | statements for which `set_server_seq` has run and which have not ended |
| `serving` | `main` is past its start-up |
| `pull` | a request for /sync/pull or /sync/reference, between its statements |
| `held`, `cursor` | the reader's rows and its two cursors |
| `during`, `overlap`, `faults` | ghosts: stamps open while a pull was between its two statements, faults spent |

`Draw`, `Commit` and `RollBack` are the life of one upsert (a row's lock allows one at a
time; a rolled back stamp is burnt), `PullReadsRows` and `PullReadsCursor` the two statements of
`pull`, `ReferencePullReads` the one of `reference_pull`. Reference rows are written
only before `axum::serve`, one awaited statement after the other; a statement left open
by a process that stops ends before the next start writes or serves. A row's version is
its stamp. The reader has nothing to push: that acks move its cursor is BottleSync's
subject (claim_ack_cursor).

**WorkerCalls** - what `offline.ts` assumes of its calls: run once each, in the order
they were made, and answered in that order.

**WorkerRpc** - the pages of one browser, each with a worker.

| State | Code |
| --- | --- |
| `worker[t]` | `"loading"` until the module is evaluated and `init_db` is done, then `"ready"` or `"failed"` |
| `pool` | the worker that holds the OPFS access handles, exclusively |
| `made`, `pending`, `marked` | `seq` of the page, `pending`, whether `workerReady` is resolved |
| `inbox`, `outbox` | messages on their way to the worker and to the page |
| `ran`, `settled` | ghosts: the calls run and answered |

`Call` posts at once or is held back until `MarkReady`; a message posted to a module
that is not evaluated yet is dropped by the browser. `InitDb` is one step: nothing else touches the
database of a worker that starts. `PoolIsTaken` is the failure of `ensure_sahpool` in a second tab;
`InitFails` may come before or after the worker has the pool, and keeps it in the latter
case until the tab is closed.

**ShellCache** - `sw.ts`: `Answered` is a navigation that reaches the server, whose
answer is `Put` under "/" some time later or (`Kill`) never, whatever the answer was;
`Register`, `Install` and `Activate` bring the precache of a release. `register()` does not wait; a
registration that meets another one's install is taken up by the browser when that has ended.
The server has the hashed assets of its own release only. HTTP caches are left out.

**AppStart** - both together: `page[t]` and `version[t]` are how far the page of a tab
is and the release it belongs to; its script, its worker and the wasm come from the
precache or the server (`Fetched`) or not at all; without datastar, which its script imports last, it
is `"unbound"`: shown, but its buttons do nothing. `Uses` is a call the page makes, `Hears` a
message one side takes in. Leaving a page before it is up costs
a fault, so that a user who never waits is not an objection to liveness.

**RackPreview** - `preview.ts` and the signals of the template; a step is one click,
one input or one hashchange event, which comes after the assignment to the hash.

| State | Code |
| --- | --- |
| `hash`, `events`, `page`, `selected` | `location.hash`, the hashchange events under way, what is shown |
| `consumed`, `consumedslots`, `undoid`, `slot` | the signals of `preview.html` |
| `releasedSlots`, `lastReleasedSlot`, `rackLayout` | the variables `drawRack` reads |
| `rackSelection`, `summary`, `placement`, `pendingPlacement` | the panels next to the rack |
| `dialog`, `consumingRackSlot`, `entry` | the dialogs and the form with `entrySlots` |

Abstracted: which wine a request is for only shows, so a request is told apart by what it starts
with; the racks that are not drawn are alike; a dialog that changes nothing until it
is submitted is one step, as it is modal; a click on a slot of the form that is not
offered any more chooses nothing; a reload is an initial state. Undo draws the rack again but not a
placement panel next to it, which goes on offering the slot that was filled: `docs/design-preview.md`
has the user choose "an open slot", which claim_panel refutes. PanelFollowsTheRack says that
a panel offers open slots only as long as nothing is undone beside it (`undone`, a ghost of the
panel), and one filled slot at most after that. `Keep` is the code's
`filter`, written out by counting places because the proofs can say nothing of the
library's recursive SelectSeq; MCRackPreview has TLC compare the two on all sequences of up
to five entries of three values.

**MCBottleSync, MCEpochSync, MCSeedSources, MCSeedReconcile, MCAppStart,
MCRackPreview** - the instances: one or two browsers with a symmetry set for the two;
contents `old` and `new`; variants of the three files; releases that change, drop,
rename and reorder entries; two tabs; a rack of two by two. ChangeFeed needs none.

**SharedProofs** - lemmas several of the proofs rest on: greatest elements, packed ids,
lists laid end to end. **BottleSyncProofs, EpochSyncProofs, SeedSourcesProofs,
SeedReconcileProofs, ChangeFeedProofs, AppStartProofs, RackPreviewProofs** - the
theorems.

## 4. Runs

Every counter of the models is bounded, by a constant a guard names. In BottleSync:
`MaxTick`, `MaxTime`, `MaxBottles`, `MaxFaults`, and `SeedTick`, the server's
tick after seeding. Two browsers and two bottles are what an id collision, an ack that
skips a row and a tie take; two clock readings are what a newer version takes; two
faults allow a failure and the failure of the retry. In EpochSync, two databases in turn are
what a reset takes, two reference rows a reset or an apply that stops between them, and
two faults a cut reset and a lost request. In SeedReconcile, three stops allow a
stopped start, a deployment, and a stop of its start or the way back. In ChangeFeed,
two bottles let two statements commit against the order of their stamps, and four stamps let each
row be written twice or one be burnt. In AppStart, two tabs meet at the pool,
two releases are what an update takes, and two calls what an order takes. In
SeedReconcile's release with an unfit entry, one scope is outside the CHECK; in the one with padded
codes, every country has an iso3 of two letters. In
RackPreview, `MaxEvents` is two, so that a hash can be assigned again before the page followed the
first assignment, and two wines and four slots let one consumption follow another, and a rack
of one slot leaves chosen slots outside.

| Run | Instance | Shows |
| --- | --- | --- |
| bottle_two | 2 browsers, 2 bottles, 2 times, 1 fault (1.04M states) | TypeOK, CleanRowsAreStored, RequestsAreBacked, StoredRowsMoveForward, LocalRowsMoveForward; implements LwwStore |
| bottle_live | 1 browser, 2 bottles, 2 times, 2 faults, FairSpec (50k) | NoBottleLost, ServerIdsAreFresh, CursorsMoveForward, PassesEnd, HomedBottlesDelivered |
| epoch_reset | 2 databases, 2 reference rows, 1 bottle, 2 faults, RevisitSpec (2.59M) | TypeOK, KnownServerIsMirrored, DropsOnlyAfterNuke, Rehydrates |
| seed_load | 22,680 triples of files (111k) | TypeOK, AcceptedIsCoherent, RefusedHasFault |
| seed_start | 5 releases, 3 stops, 2 bottles, client ticks 1 and 30, FairSpec (562k) | TypeOK, IdsIdentify, MapsHaveParents, ServesItsRelease, OneLot, ChurnConfined, EventuallyServes |
| feed | 2 bottles, 2 reference rows, 4 stamps, 1 fault, RevisitSpec (857k) | TypeOK, SkipsNeedOverlap, CatchesUp; implements Feed |
| app_start | 2 tabs, 2 calls, 2 releases, 1 fault, FairSpec (401k) | TypeOK, CallsAreSettled, ComesUp, EndsUpOffline; implements WorkerCalls |
| rack | 2 wines, 2 by 2 slots, re-laid to one, 2 events (2.03M) | PreviewTypeOK, ConsumptionIsReversible, SummaryShowsItsBottle, PanelFollowsTheRack, SavedSlotsAreOpen |
| claim_ack_cursor, claim_ids | 2 browsers | statements of the code's comments about the bottle sync that the code does not keep |
| claim_stale_lot | 1 browser, 2 databases with a lot each | a bottle recorded after the reset gets the lot of the server before it |
| claim_panel | the rack run's instance | a slot chosen for a wine is filled by an Undo and can still be confirmed |

The statements the claim runs refute are quoted, with their lines, under "findings" in
`PROJECT.json`.

What the properties except, and why. NoBottleLost is about one browser alone: with two,
ids collide (claim_ids) and one of the two bottles is lost to last-write-wins.
HomedBottlesDelivered excepts a bottle recorded before the first pull: it has no lot and
every push of it is refused. Two versions of a row with one `updated_at` are settled by arrival
(the tie-break compares an id with itself, against the comment at `server/src/sync.rs:162`), which
StoredRowsMoveForward allows for. Of two bottles with one id and one time, the one that arrives second
is acknowledged without being stored: CleanRowsAreStored and RequestsAreBacked, which otherwise ask for
the very bottle or a newer version of its id, except it (`Tied`).
KnownServerIsMirrored and Rehydrates except a browser that is `blind`, which comes about in
two ways: it applied data before it stored its first epoch, or the SELECT of the stored epoch failed.
Either way it takes the next epoch it sees for that of its data, and only a later reset, when
the server is replaced once more, makes it whole. PassesEnd counts a pass whose refreshCount
threw as ended (`"wedged"`), though no other can run on its page. Two rules the loader
keeps apart may be stored under one key: ServesItsRelease expects of such entries the
last (`StoredAs`), and ChurnConfined says that a restart of the same release writes
these, countries with a padded iso3, and no others. EventuallyServes excepts a release that the
database refuses at every start (`Servable`): one that has an entry a column refuses, gives the
iso3 of a stored country to another iso2, or has no US when there is no lot. CallsAreSettled
excepts the calls to a worker that failed, which never settle. A bottle may be missed for good when its statement was
open while a pull was between its two statements: SkipsNeedOverlap says that nothing
else makes a reader miss one, and CatchesUp excepts these.

Ids of browsers in seed_start have the ticks 1 and 30: one the server's own ids reach at
once, one above every id it mints.

Fairness. In BottleSync and EpochSync: weak fairness of the page's own steps and of
the handlers - the event loops of page and server run what is ready; a fetch settles. It
assumes the worker answers, which is what AppStart is about. `Revisits` adds that a user
who is offline gets online again
and that one whose page is idle (or wedged) reloads it some day. The code has no timer
that would start a pass, so HomedBottlesDelivered has Revisits as its antecedent, and Rehydrates is
checked under RevisitSpec. In SeedReconcile: a process runs on, and one that ended is
started again (`restart: unless-stopped` of docker-compose.yml). In ChangeFeed:
statements end, a process that is started serves in the end, a pull is handled, and
each feed is pulled again and again while the server serves (strong fairness, as it
stops now and then). In AppStart: pages, workers and the browser do what is ready, the
connection comes back; `Revisits` (the antecedent of ComesUp and EndsUpOffline) adds that
a user visits the server and leaves pages that are up, each of them: a tab whose `init_db` failed
after it got the pool blocks all others until it is closed. No fault is ever
assumed to happen; a behaviour has at most MaxFaults (MaxStops) of them, which is how
"eventually" makes sense at all.

Deadlock is checked except in seed_load, whose loader ends, and in seed_start, where a
server that serves may be asked for nothing more; that start-up does not stop anywhere
else is EventuallyServes.

## 5. Proofs

All theorems hold for every value of the constants the modules' assumptions admit:
`SyncAssumption` (bounds are naturals, `NoRow` is not a row, the two lots differ),
`EpochAssumption` (the same for EpochSync), `KeyAssumption` (`NoKey` is not a code),
`SourcesAssumption` (files are lists of entries), `ReleaseAssumption` (a release is
coherent), `FeedAssumption` (bottles and reference rows are disjoint), `RpcAssumption`,
`ShellAssumption` and `AppAssumption` (the special values differ from tabs and releases,
bounds are naturals), `PreviewAssumption` (racks have 1 to 20 rows and 1 to 26 columns, as
the form allows, `NoSlot` is no slot, there are wines and sample slots).

* `TypeCorrect`, `ServerMovesForward`: the inductive invariant is
  `TypeInv == TypeOK /\ SeqIsHighest` - the highest stamp in the table is the last one
  given out. It is needed for the cursor query to be a number and for a new stamp to
  exceed the one it replaces.
* `InFlightBacked`, `AcksCanBeTrusted`: `SyncInv` adds, for each browser, that clean
  rows, acks under way and pulled rows under way are for the bottle the server holds, for one it has
  replaced by a newer version, or for one that lost a tie, and that the rows of a push under way are still the
  local ones. CleanRowsAreStored alone is not inductive: applying acks would clear the
  bit of any row. The step is one lemma per action that touches the browser's table or
  its request; all other actions leave both (`OthersUnaffected`), and the server keeps
  what it holds (`HoldsForever`, from ServerMovesForward's step).
* `LocalMovesForward`: from `SyncInv` and `ResumedIdIsFresh`, since an insert under an
  id in use would replace a row.
* `CursorMovesForward`: `CursorInv` - a stored cursor is at most the highest stamp, and
  at most the cursor of a response on its way.
* `FreshIds`, `StoreImplemented`, `NothingLostAlone`: `OriginInv` adds
  to `SyncInv` that every row held, stored or under way is a version that was created
  (`minted`), that what is dirty or pushed was created by a browser, and that the id
  factory's tick is at least that of every stored id of its own source. LwwStore's step is then
  the upsert's (`UpsertStores`), as what it offers was created; a restart resumes
  from the highest id of all sources, which is no lower. `NothingLostAlone` assumes
  `Alone` (there is one browser) and adds `KeepsOwn`, that each bottle with an id of a browser
  is in the one table as it was recorded: an id that is minted is not in the table, so
  it names no other bottle, and a pulled row under it is this very bottle.
* `ResumedIdIsFresh` (SharedProofs): an id minted after resuming from the highest id
  of a table is not in the table, for all tables and sources; existence of the maximum
  is proved by well-foundedness of the naturals.

* `EpochTypeCorrect`, `OnlyNukesDrop`, `KnownServersAreMirrored` (EpochSyncProofs), from
  `EpochAssumption`. `TypeInv` adds that stamps are at most the last one; `EpochInv`
  that no epoch seen is ahead of the server's; `LocalInv` that local ids are unique and
  what is in a push is still in the table; `Untouched` that a browser without an epoch
  and not blind holds no server data; `KnownInv` that, once the stored epoch is the
  server's, the clean rows, the mirror below the reference cursor and everything in a
  reply come from this server. KnownServerIsMirrored is not inductive without
  them: an answer is applied without looking at the epoch again, so the invariant must
  say of a browser that stores the server's epoch that the answer it waits for is not
  one of an earlier server - which holds because a nuke makes every stored epoch
  outdated (`EpochInv`), and the answer to the epoch's own request carries no rows.
* `LoadIsWellTyped`, `AcceptedAlwaysCoherent`, `RefusedAlwaysHasFault` (SeedSourcesProofs):
  for lists of any length. `CheckInv` is that `known` is exactly the set of the keys of
  the first `pos` entries, that these differ, that each of them finds its parent among
  the keys, and that the entry a refusal is about has its fault. What `Checked` appends is
  split back into the lists by SharedProofs' `Appended`: every list is in one piece
  (`Placed`) and the tables of parents come first (`InOrder`). So a key met twice is
  twice in one list, and a parent that is in any list has passed before its
  children come (`ParentsFirst`): what dangles dangles in the files.
* `IdsAlwaysIdentify` (SeedReconcileProofs): `IdInv` adds `FactoryIsAhead` - the tick of
  a running process is at least that of every id in its tables that it might mint, which
  are those of its own source - and that rows and chain are disjoint. `ResumedIdIsFresh`'s
  argument carries a restart; a bottle pushed with a browser's id moves no tick, and
  cannot meet one as its source differs.
* `AlwaysOneLot`: `LotInv` adds `Begun` - while ensure_seed runs there is no lot, and
  `made` is the row the next one hangs on.
* `StartIsWellTyped`, `MapsAlwaysHaveParents`, `AlwaysServesItsRelease`, `ChurnIsConfined`:
  `DoneInv` is TypeOK, that natural keys are unique among the rows (`NaturalKeys`), that
  the walk is over once ensure_seed begins (`Stage`), and that the first `done` entries are
  stored (`StoredTo`) - all of them once the release has served. Neither ServesItsRelease
  nor ChurnConfined is inductive: what a row is the row of depends, through the maps
  `country_id` and `system_id`, on other rows. The argument is that the parents of the
  first `done + 1` entries are stored (`StoredHaveParents`, from the order of the walk and the
  release's coherence), that an upsert keeps ids and keys of all rows (`KeysKept`) and
  with them the parents' ids (`LinkKept`), and that two entries with one row are stored
  as each other (`SameRow`, which needs `IdInv`: equal parent ids are one parent). So a
  row that is rewritten for one entry still serves the other, and once all are
  stored an entry finds its row, and differs from it only if there is another entry.

* `FeedTypeCorrect`, `SkipsAlwaysNeedOverlap`, `ReferenceFeedIsComplete`
  (ChangeFeedProofs): `TypeInv` adds to TypeOK that stamps are at most the last one drawn
  and a row has one open statement, newer than what is committed (`Ordered`), and that
  what an answer carries lies between what is held and what is committed (`Backed`). For
  bottles, `InFlight` speaks of the pull under way: a row past its start is above its
  cursor, or among its rows, or was open between its statements; `Passed` adds the open
  statements the cursor has already passed. For reference rows (`RefInv`), an open
  statement means that nobody is served, and has a stamp above all committed, the cursor and
  an answer on its way; what the cursor has passed is held.
* `AppCallsInOrder`, `AppTypeCorrect` (AppStartProofs): `RpcInv` says where a call is. `Quiet`:
  until the page knows of the sentinel no call has gone to the worker; `Speaks`: only a worker that is
  ready says anything; `InPlace`: the calls run, in the inbox and in the outbox are, in this
  order, the numbers from 1 to `made`; `Waits`: `pending` is what is not settled. That the
  next call run or answered is the next number, as WorkerCalls has it, is `InPlace`. Every step of AppStart
  is one of WorkerRpc or leaves its variables alone, so the theorem about the
  channel (`CallsInOrder`) holds for the composition.

* `PreviewIsWellTyped`, `AlwaysReversible`, `AlwaysShowsItsBottle`, `PanelAlwaysFollows`,
  `SavedAlwaysOpen` (RackPreviewProofs), for samples, racks and quantities of any size: the five
  properties hold by one invariant, `PreviewInv`, since each needs another. `PageInv`
  adds that only an event under way lets page and hash differ, that a
  summary is only on the storage page, and that a consume dialog is for a wine not
  consumed yet, and from the storage page for a slot only - so marking releases the
  slot of the summary or there is no summary, and the slot the signals record is the one the
  script releases. ConsumptionIsReversible is what Undo needs: the slot it takes out with
  `lastIndexOf` is the last one (`WithoutTheLast`) and the wine it filters out is the
  last one too (`KeepsThePrefix`). PanelFollowsTheRack is not inductive, as a second Undo could
  leave a panel behind by a second slot: `PanelInv` speaks of `StaysOpen`, the slots that
  are open with what Undo would take back left out; no step but setting up a rack, which closes
  the panel, takes anything away from these (`StaysOpenGrows`), and a panel that is drawn
  offers at most one slot more (`StayingIsOpen`). No step but these two takes anything from
  the open slots (`OpenGrows`), and Undo marks the panel it leaves behind (`UndoMarks`). That a filter keeps what it should, each
  once and in order, is shown by counting (`Ranks`, `Nths`, `Keeps`).

Model-checked only: liveness (PassesEnd, HomedBottlesDelivered, Rehydrates,
EventuallyServes, CatchesUp, CallsAreSettled, ComesUp, EndsUpOffline), which this
prover does not reach; and that `Keep` is SelectSeq, which takes induction.

## 6. Not modelled

Of the modelled parts: in the preview, the theme shared between tabs, search, pagination
and focus, which change no bottle; the wire format and HTTP caching; authentication (there
is none); migrations, which run before start-up and change nothing when repeated;
tombstones and status changes, which no code makes.

Failures that are swallowed and cost a repetition at most: a failing SELECT of a cursor reads as 0, and
rows are pulled again that the upserts take twice; one of the default lot reads as an empty
string, as before the first pull; one of the highest tick reads as 0, and tick 1 is minted, which the primary
key refuses if this browser has it already (otherwise it is an id like those claim_ids is about); a step of get_dirty that fails ends the list early, and the rest is pushed by a later pass. Codes
that end in blanks, which char(n) cuts off, and NUL characters are left out of the vocabulary.

One consequence of the reset is modelled but stated by no property: `local_max_tick` reads the bottle
table, which the reset empties. A bottle pushed to the new server between its nuke and the browser's
reset is stored there, and its id is minted again by the browser afterwards, against
`core/src/ids.rs:70-71` ("continues past it instead of reusing ids from tick 1"); last-write-wins
then replaces the stored bottle.

As a whole: rendering (`views.rs`, templates), the vocabularies generated by `build.rs`, `model.rs`
and the trait of `core/src/store.rs`, which keep no state; the server of the design
preview, which serves one page and its assets.

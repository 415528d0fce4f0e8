----------------------------- MODULE BottleSync -----------------------------
(***************************************************************************)
(* Bottle synchronisation between browsers and one server, within one      *)
(* server epoch: the page's sync loop (web/src/offline.ts), the local      *)
(* store behind the worker (crates/client) and the server's /sync handlers *)
(* (crates/server/src/sync.rs, web.rs).                                    *)
(*                                                                         *)
(* A page runs at most one pass at a time: push the dirty rows, apply the  *)
(* acks, pull from the cursor, apply the rows, refresh the count.  Each    *)
(* await of the pass is a point where the user may add a bottle, other     *)
(* browsers and the server move, the connection is lost, the tab is closed *)
(* or the server restarts.  The server handles a request one statement at  *)
(* a time, so requests interleave; a request whose client is gone may      *)
(* still run, to any of its statements.  A statement is one step here: that *)
(* a stamp is taken before its row is visible is for another module.       *)
(*                                                                         *)
(* A row carries the physical bottle it stands for ("unit"), a number no   *)
(* part of the program reads.  The rest of its payload never changes after *)
(* the row is created, so it needs no other value.                         *)
(***************************************************************************)
EXTENDS CausalId, FiniteSets

CONSTANTS
    Client,      \* the browsers
    DemoLot,     \* the lot every bottle lives in (db.rs, ensure_seed)
    NoLot,       \* the empty string: no default lot was pulled yet
    NoRow,       \* no row under this id
    SeedTick,    \* the tick start-up seeding has reached on the server
    MaxTick,     \* bound: highest tick minted
    MaxTime,     \* bound: clock readings are 1..MaxTime
    MaxBottles,  \* bound: bottles created in a behaviour
    MaxFaults    \* bound: lost connections, closed tabs, failures, restarts

Time == 1..MaxTime
Unit == 1..MaxBottles
Lot == {DemoLot, NoLot}
Id == {Pack(t, s) : t \in 1..MaxTick, s \in {SERVER_SOURCE, CLIENT_SOURCE}}

LocalRow == [at : Time, unit : Unit, lot : Lot, dirty : {0, 1}]
ServerRow == [at : Time, unit : Unit, seq : Nat]
PushRow == [id : Id, at : Time, unit : Unit, lot : Lot]
PullRow == [id : Id, at : Time, unit : Unit, seq : Nat]
Version == [id : Id, at : Time, unit : Unit]

ASSUME SyncAssumption ==
    /\ MaxTick \in Nat
    /\ MaxTime \in Nat
    /\ MaxBottles \in Nat
    /\ MaxFaults \in Nat
    /\ SeedTick \in Nat
    /\ DemoLot # NoLot
    /\ NoRow \notin LocalRow \cup ServerRow \cup Version

VARIABLES
    \* The browser: what is in OPFS ...
    local,       \* the bottle table
    cursor,      \* sync_state "cursor"
    defaultLot,  \* sync_state "default_lot"
    \* ... and what the page holds in memory.
    pc,          \* where the page's pass stands; "idle" is syncing = false
    call,        \* the one request the pass awaits
    posts,       \* POST /bottles answered by the worker, sync() not yet called
    online,      \* navigator.onLine
    \* The server.
    srv,         \* the bottle table
    seq,         \* the last server_seq stamped
    tick,        \* the id factory's last tick
    orphans,     \* push requests still running whose client is gone
    \* Ghosts.
    minted,      \* every version created so far
    faults       \* faults spent of MaxFaults

storeVars == <<local, cursor, defaultLot>>
pageVars == <<pc, call, posts, online>>
serverVars == <<srv, seq, tick, orphans>>
ghostVars == <<minted, faults>>
vars == <<storeVars, pageVars, serverVars, ghostVars>>

-----------------------------------------------------------------------------
(* The request a pass awaits.  status: "run" at the server, "read" when the *)
(* first statement of a pull is done, "ok" and "err" when the response is   *)
(* on its way, "lost" when fetch will reject.                               *)

Call == [op     : {"none", "push", "pull"},
         status : {"run", "read", "ok", "err", "lost"},
         since  : Nat,             \* pull: the query parameter
         todo   : SUBSET PushRow,  \* push: rows of the body not handled yet
         acks   : SUBSET Id,       \* push: ids handled
         rows   : SUBSET PullRow,  \* pull: what the row query returned, in
                                   \*   the order of seq (not on the wire)
         high   : Nat]             \* the cursor of the response

NoCall == [op |-> "none", status |-> "ok", since |-> 0,
           todo |-> {}, acks |-> {}, rows |-> {}, high |-> 0]

\* A fetch rejects at once when the browser is offline.
Sent(c, request) == [request EXCEPT !.status = IF online[c] THEN "run" ELSE "lost"]

Handled(c, op) == call[c].op = op /\ call[c].status = "run"
Answered(c, op, status) == pc[c] = op /\ call[c].op = op /\ call[c].status = status

\* The rows of c's push the server may still store although nobody waits.
Abandoned(c) ==
    IF Handled(c, "push") /\ call[c].todo # {} THEN {call[c].todo} ELSE {}

-----------------------------------------------------------------------------
(* Tables. *)

Stored == {i \in Id : srv[i] # NoRow}
LocalIds(c) == {i \in Id : local[c][i] # NoRow}
DirtyIds(c) == {i \in LocalIds(c) : local[c][i].dirty = 1}

\* Mutants: coalesce(max(server_seq), -1); then, in the upsert, >= for >, and
\* no WHERE at all.
BottleCursorFromMinusOne ==
    IF Stored = {} THEN -1
    ELSE CHOOSE n \in {srv[i].seq : i \in Stored} :
             \A i \in Stored : srv[i].seq <= n
WinsOnTie(r, i) == r.at >= srv[i].at
WinsAlways(r, i) == TRUE

\* SELECT coalesce(max(server_seq), 0) FROM bottle
BottleCursor ==
    IF Stored = {} THEN 0
    ELSE CHOOSE n \in {srv[i].seq : i \in Stored} :
             \A i \in Stored : srv[i].seq <= n

\* The push upsert's WHERE.  i is the id of the row in conflict.
Wins(r, i) ==
    \/ r.at > srv[i].at
    \/ r.at = srv[i].at /\ r.id > i

\* Whether the push upsert of r writes a row at all.
Writes(r) == srv[r.id] # NoRow => Wins(r, r.id)

\* lot_id text NOT NULL REFERENCES lot(id)
HasLot(r) == r.lot # NoLot

\* Insert or update, stamped by the set_server_seq trigger.
Write(i, at, unit) ==
    /\ srv' = [srv EXCEPT ![i] = [at |-> at, unit |-> unit, seq |-> seq + 1]]
    /\ seq' = seq + 1

Upsert(r) ==
    IF Writes(r) THEN Write(r.id, r.at, r.unit) ELSE UNCHANGED <<srv, seq>>

\* A push handles the rows of its body in the order get_dirty read them, the
\* order they were inserted in locally, which is that of their ids.
NextRow(todo, r) == r \in todo /\ \A q \in todo : r.id <= q.id

\* Mutant: a blind upsert, as the reference rows get.
TakesAlways(row, r) == TRUE

\* The local upsert of a pulled row.
Takes(row, r) == row = NoRow \/ r.at > row.at

Merged(table, rows) ==
    [i \in Id |->
        IF \E r \in rows : r.id = i /\ Takes(table[i], r)
        THEN LET r == CHOOSE q \in rows : q.id = i
             IN  [at |-> r.at, unit |-> r.unit, lot |-> DemoLot, dirty |-> 0]
        ELSE table[i]]

\* Mutant: UPDATE bottle SET dirty = 0 without its WHERE.
AckedAll(table, ids) ==
    [i \in Id |->
        IF ids # {} /\ table[i] # NoRow
        THEN [table[i] EXCEPT !.dirty = 0] ELSE table[i]]

\* UPDATE bottle SET dirty = 0 WHERE id = ack.id, for each ack.
Acked(table, ids) ==
    [i \in Id |->
        IF i \in ids /\ table[i] # NoRow
        THEN [table[i] EXCEPT !.dirty = 0] ELSE table[i]]

NewUnit == Cardinality(minted) + 1

-----------------------------------------------------------------------------
Init ==
    /\ local = [c \in Client |-> [i \in Id |-> NoRow]]
    /\ cursor = [c \in Client |-> 0]
    /\ defaultLot = [c \in Client |-> NoLot]
    /\ pc = [c \in Client |-> "idle"]
    /\ call = [c \in Client |-> NoCall]
    /\ posts = [c \in Client |-> 0]
    /\ online = [c \in Client |-> TRUE]
    /\ srv = [i \in Id |-> NoRow]
    /\ seq = 0
    /\ tick = SeedTick
    /\ orphans = {}
    /\ minted = {}
    /\ faults = 0

\* sync(): return if offline or syncing, otherwise start a pass.
Sync(c) ==
    pc' = [pc EXCEPT ![c] = IF online[c] /\ @ = "idle" THEN "dirty" ELSE @]

Fault == faults < MaxFaults /\ faults' = faults + 1

-----------------------------------------------------------------------------
(* The user and the browser. *)

\* POST /bottles answered by the worker: a row under the next id after the
\* highest in the local store, in the default lot pulled last.
AddBottle(c) ==
    LET id == NextId(CLIENT_SOURCE, HighestTick(LocalIds(c)))
    IN  /\ Cardinality(minted) < MaxBottles
        /\ id \in Id
        /\ \E now \in Time :
              /\ local' = [local EXCEPT ![c][id] =
                      [at |-> now, unit |-> NewUnit, lot |-> defaultLot[c], dirty |-> 1]]
              /\ minted' = minted \cup {[id |-> id, at |-> now, unit |-> NewUnit]}
        /\ posts' = [posts EXCEPT ![c] = @ + 1]
        /\ UNCHANGED <<cursor, defaultLot, pc, call, online, serverVars, faults>>

\* The page receives the worker's answer to the POST and calls sync().
HandlePost(c) ==
    /\ posts[c] > 0
    /\ posts' = [posts EXCEPT ![c] = @ - 1]
    /\ Sync(c)
    /\ UNCHANGED <<storeVars, call, online, serverVars, ghostVars>>

\* The tab is closed, or killed, and opened again: "load" calls sync().
Reload(c) ==
    /\ IF pc[c] \in {"idle", "wedged"} THEN UNCHANGED faults ELSE Fault
    /\ pc' = [pc EXCEPT ![c] = IF online[c] THEN "dirty" ELSE "idle"]
    /\ call' = [call EXCEPT ![c] = NoCall]
    /\ posts' = [posts EXCEPT ![c] = 0]
    /\ orphans' = orphans \cup Abandoned(c)
    /\ UNCHANGED <<storeVars, online, srv, seq, tick, minted>>

\* The connection breaks under a request, before or after the server answers.
LoseConnection(c) ==
    /\ call[c].op # "none"
    /\ call[c].status # "lost"
    /\ Fault
    /\ call' = [call EXCEPT ![c].status = "lost"]
    /\ orphans' = orphans \cup Abandoned(c)
    /\ UNCHANGED <<storeVars, pc, posts, online, srv, seq, tick, minted>>

GoOffline(c) ==
    /\ online[c]
    /\ Fault
    /\ online' = [online EXCEPT ![c] = FALSE]
    /\ call' = [call EXCEPT ![c].status = IF call[c].op = "none" THEN @ ELSE "lost"]
    /\ orphans' = orphans \cup Abandoned(c)
    /\ UNCHANGED <<storeVars, pc, posts, srv, seq, tick, minted>>

\* The "online" event calls sync().
GoOnline(c) ==
    /\ ~online[c]
    /\ online' = [online EXCEPT ![c] = TRUE]
    /\ pc' = [pc EXCEPT ![c] = IF @ = "idle" THEN "dirty" ELSE @]
    /\ UNCHANGED <<storeVars, call, posts, serverVars, ghostVars>>

-----------------------------------------------------------------------------
(* The page's pass: syncBottles, then refreshCount. *)

\* The response, or the error, is taken and the pass goes on from "next".
EndCall(c, next) ==
    /\ pc' = [pc EXCEPT ![c] = next]
    /\ call' = [call EXCEPT ![c] = NoCall]

\* get_dirty, and the push request when there is anything to push.
GetDirty(c) ==
    /\ pc[c] = "dirty"
    /\ LET body == {[id |-> i, at |-> local[c][i].at, unit |-> local[c][i].unit,
                     lot |-> local[c][i].lot] : i \in DirtyIds(c)}
       IN  IF body = {}
           THEN /\ pc' = [pc EXCEPT ![c] = "cursor"]
                /\ UNCHANGED call
           ELSE /\ pc' = [pc EXCEPT ![c] = "push"]
                /\ call' = [call EXCEPT ![c] =
                       Sent(c, [NoCall EXCEPT !.op = "push", !.todo = body])]
    /\ UNCHANGED <<storeVars, posts, online, serverVars, ghostVars>>

\* apply_acks: clear the dirty bits, then take the response's cursor.
ApplyAcks(c) ==
    /\ Answered(c, "push", "ok")
    /\ local' = [local EXCEPT ![c] = Acked(@, call[c].acks)]
    /\ cursor' = [cursor EXCEPT ![c] = call[c].high]
    /\ EndCall(c, "cursor")
    /\ UNCHANGED <<defaultLot, posts, online, serverVars, ghostVars>>

\* A statement of apply_acks fails, or the tab is closed before it (Reload
\* follows): the dirty bits cleared so far, those up to id "last", stay
\* cleared; the pass ends.
ApplyAcksFails(c) ==
    /\ Answered(c, "push", "ok")
    /\ Fault
    /\ \E last \in {0} \cup call[c].acks :
           local' = [local EXCEPT ![c] = Acked(@, {i \in call[c].acks : i <= last})]
    /\ EndCall(c, "refresh")
    /\ UNCHANGED <<cursor, defaultLot, posts, online, serverVars, minted>>

\* get_dirty or get_cursor throws: syncBottles ends, sync() catches it.
ReadFails(c) ==
    /\ pc[c] \in {"dirty", "cursor"}
    /\ Fault
    /\ pc' = [pc EXCEPT ![c] = "refresh"]
    /\ UNCHANGED <<storeVars, call, posts, online, serverVars, minted>>

\* A push answered with an error status: the pass goes on to the pull.
PushRefused(c) ==
    /\ Answered(c, "push", "err")
    /\ EndCall(c, "cursor")
    /\ UNCHANGED <<storeVars, posts, online, serverVars, ghostVars>>

\* get_cursor, and the pull request.
SendPull(c) ==
    /\ pc[c] = "cursor"
    /\ pc' = [pc EXCEPT ![c] = "pull"]
    /\ call' = [call EXCEPT ![c] =
           Sent(c, [NoCall EXCEPT !.op = "pull", !.since = cursor[c]])]
    /\ UNCHANGED <<storeVars, posts, online, serverVars, ghostVars>>

\* apply_pull: merge the rows, then the cursor, then the default lot.
ApplyPull(c) ==
    /\ Answered(c, "pull", "ok")
    /\ local' = [local EXCEPT ![c] = Merged(@, call[c].rows)]
    /\ cursor' = [cursor EXCEPT ![c] = call[c].high]
    /\ defaultLot' = [defaultLot EXCEPT ![c] = DemoLot]
    /\ EndCall(c, "refresh")
    /\ UNCHANGED <<posts, online, serverVars, ghostVars>>

\* A statement of apply_pull fails, or the tab is closed before it: the rows up
\* to position "last" are merged, or all of them and the cursor stored too.
ApplyPullFails(c) ==
    /\ Answered(c, "pull", "ok")
    /\ Fault
    /\ \/ /\ \E last \in {0} \cup {r.seq : r \in call[c].rows} :
                 local' = [local EXCEPT
                     ![c] = Merged(@, {r \in call[c].rows : r.seq <= last})]
          /\ UNCHANGED cursor
       \/ /\ local' = [local EXCEPT ![c] = Merged(@, call[c].rows)]
          /\ cursor' = [cursor EXCEPT ![c] = call[c].high]
    /\ EndCall(c, "refresh")
    /\ UNCHANGED <<defaultLot, posts, online, serverVars, minted>>

PullRefused(c) ==
    /\ Answered(c, "pull", "err")
    /\ EndCall(c, "refresh")
    /\ UNCHANGED <<storeVars, posts, online, serverVars, ghostVars>>

\* Mutant: sync() without its catch and finally.
FetchRejectsUncaught(c) ==
    /\ call[c].status = "lost"
    /\ call' = [call EXCEPT ![c] = NoCall]
    /\ UNCHANGED <<storeVars, pc, posts, online, serverVars, ghostVars>>

\* A fetch of the pass rejects: syncBottles ends, sync() catches it.
FetchRejects(c) ==
    /\ call[c].status = "lost"
    /\ EndCall(c, "refresh")
    /\ UNCHANGED <<storeVars, posts, online, serverVars, ghostVars>>

\* The finally block: await refreshCount(), then syncing = false.
RefreshCount(c) ==
    /\ pc[c] = "refresh"
    /\ pc' = [pc EXCEPT ![c] = "idle"]
    /\ UNCHANGED <<storeVars, call, posts, online, serverVars, ghostVars>>

\* refreshCount throws: syncing stays true until the page is loaded again.
RefreshFails(c) ==
    /\ pc[c] = "refresh"
    /\ Fault
    /\ pc' = [pc EXCEPT ![c] = "wedged"]
    /\ UNCHANGED <<storeVars, call, posts, online, serverVars, minted>>

-----------------------------------------------------------------------------
(* The server. *)

\* Mutant: only rows the upsert wrote are acked.
AckWritten(r) == IF Writes(r) THEN {r.id} ELSE {}

\* Whether the upsert wrote r or not, it is acked.
Ack(r) == {r.id}

\* One row of a push: the upsert, and its ack.
PushOneRow(c) ==
    /\ Handled(c, "push")
    /\ \E r \in call[c].todo :
           /\ NextRow(call[c].todo, r)
           /\ Writes(r) => HasLot(r)
           /\ Upsert(r)
           /\ call' = [call EXCEPT ![c].todo = @ \ {r}, ![c].acks = @ \cup Ack(r)]
    /\ UNCHANGED <<storeVars, pc, posts, online, tick, orphans, ghostVars>>

\* The upsert breaks the foreign key: the handler answers 500 and drops the
\* rest of the body; the rows it stored before stay.
PushRowRejected(c) ==
    /\ Handled(c, "push")
    /\ \E r \in call[c].todo :
           NextRow(call[c].todo, r) /\ Writes(r) /\ ~HasLot(r)
    /\ call' = [call EXCEPT ![c].status = "err"]
    /\ UNCHANGED <<storeVars, pc, posts, online, serverVars, ghostVars>>

\* Every row handled: read the cursor and answer.
PushReplies(c) ==
    /\ Handled(c, "push")
    /\ call[c].todo = {}
    /\ call' = [call EXCEPT ![c].high = BottleCursor, ![c].status = "ok"]
    /\ UNCHANGED <<storeVars, pc, posts, online, serverVars, ghostVars>>

\* The first statement of a pull: the rows past the client's cursor.
PullReadsRows(c) ==
    /\ Handled(c, "pull")
    /\ call' = [call EXCEPT
           ![c].rows = {[id |-> i, at |-> srv[i].at, unit |-> srv[i].unit,
                         seq |-> srv[i].seq] :
                            i \in {j \in Stored : srv[j].seq > call[c].since}},
           ![c].status = "read"]
    /\ UNCHANGED <<storeVars, pc, posts, online, serverVars, ghostVars>>

\* Mutant: the cursor is that of the rows returned, 0 when there are none.
PullCursorOfRows(c) ==
    CHOOSE n \in {0} \cup {r.seq : r \in call[c].rows} :
        \A r \in call[c].rows : r.seq <= n

\* The cursor a pull answers with is queried anew, not taken from its rows.
PullCursor(c) == BottleCursor

\* Its later statements: the cursor, and the first lot, which start-up made.
PullReplies(c) ==
    /\ call[c].status = "read"
    /\ call' = [call EXCEPT ![c].high = PullCursor(c), ![c].status = "ok"]
    /\ UNCHANGED <<storeVars, pc, posts, online, serverVars, ghostVars>>

\* A statement of a handler fails (pool exhausted, database down): 500.
HandlerFails(c) ==
    /\ call[c].status \in {"run", "read"}
    /\ Fault
    /\ call' = [call EXCEPT ![c].status = "err"]
    /\ UNCHANGED <<storeVars, pc, posts, online, serverVars, minted>>

\* One more row of a push nobody waits for; a row it cannot store ends it.
OrphanRow(body) ==
    /\ body \in orphans
    /\ \E r \in body :
           /\ NextRow(body, r)
           /\ Writes(r) => HasLot(r)
           /\ Upsert(r)
           /\ orphans' = (orphans \ {body}) \cup ({body \ {r}} \ {{}})
    /\ UNCHANGED <<storeVars, pageVars, tick, ghostVars>>

\* The handler is dropped with its connection, or fails, before the next row.
OrphanEnds(body) ==
    /\ body \in orphans
    /\ orphans' = orphans \ {body}
    /\ UNCHANGED <<storeVars, pageVars, srv, seq, tick, ghostVars>>

\* POST /bottles answered by the server itself (add_bottle): an insert that
\* fails when the id is taken.
ServerAddBottle ==
    LET id == NextId(SERVER_SOURCE, tick)
    IN  /\ Cardinality(minted) < MaxBottles
        /\ id \in Id
        /\ IF srv[id] # NoRow
           THEN UNCHANGED <<srv, seq, minted>>
           ELSE \E now \in Time :
                    /\ Write(id, now, NewUnit)
                    /\ minted' = minted \cup {[id |-> id, at |-> now, unit |-> NewUnit]}
        /\ tick' = tick + 1
        /\ UNCHANGED <<storeVars, pageVars, orphans, faults>>

\* Mutant: the highest tick of the seeded tables only, without bottle.
SeededTick == SeedTick

\* max_persisted_tick: the highest tick in any table with ids.
ResumeTick ==
    LET t == HighestTick(Stored) IN IF t > SeedTick THEN t ELSE SeedTick

\* The server process dies with every request it was handling and starts
\* again: the id factory resumes past the highest tick in the database.
ServerRestart ==
    /\ Fault
    /\ tick' = ResumeTick
    /\ orphans' = {}
    /\ call' = [c \in Client |->
           IF call[c].status \in {"run", "read"}
           THEN [call[c] EXCEPT !.status = "lost"] ELSE call[c]]
    /\ UNCHANGED <<storeVars, pc, posts, online, srv, seq, minted>>

-----------------------------------------------------------------------------
User(c) == AddBottle(c) \/ Reload(c) \/ GoOnline(c)

Page(c) ==
    \/ HandlePost(c)  \/ GetDirty(c)
    \/ ApplyAcks(c)   \/ PushRefused(c)
    \/ SendPull(c)    \/ ApplyPull(c)
    \/ PullRefused(c) \/ FetchRejects(c)
    \/ RefreshCount(c)

Handler(c) ==
    \/ PushOneRow(c) \/ PushRowRejected(c) \/ PushReplies(c)
    \/ PullReadsRows(c) \/ PullReplies(c)

Faulty(c) ==
    \/ LoseConnection(c) \/ GoOffline(c)
    \/ ReadFails(c)  \/ ApplyAcksFails(c) \/ ApplyPullFails(c)
    \/ RefreshFails(c) \/ HandlerFails(c)

Next ==
    \/ \E c \in Client : User(c) \/ Page(c) \/ Handler(c) \/ Faulty(c)
    \/ \E body \in orphans : OrphanRow(body) \/ OrphanEnds(body)
    \/ ServerAddBottle
    \/ ServerRestart

Spec == Init /\ [][Next]_vars

\* While its tab is open a page takes the steps it can, and the server answers
\* what it was asked: the event loops of both are fair.
FairSpec ==
    /\ Spec
    /\ \A c \in Client : WF_vars(Page(c)) /\ WF_vars(Handler(c))

\* In addition every user gets online, and comes back to the app, some day.
Revisits ==
    \A c \in Client :
        /\ WF_vars(GoOnline(c))
        /\ WF_vars(pc[c] \in {"idle", "wedged"} /\ Reload(c))

RevisitSpec == FairSpec /\ Revisits

-----------------------------------------------------------------------------
(* Properties. *)

TypeOK ==
    /\ local \in [Client -> [Id -> LocalRow \cup {NoRow}]]
    /\ cursor \in [Client -> Nat]
    /\ defaultLot \in [Client -> Lot]
    /\ pc \in [Client -> {"idle", "dirty", "push", "cursor", "pull", "refresh", "wedged"}]
    /\ call \in [Client -> Call]
    /\ posts \in [Client -> Nat]
    /\ online \in [Client -> BOOLEAN]
    /\ srv \in [Id -> ServerRow \cup {NoRow}]
    /\ seq \in Nat
    /\ tick \in Nat
    /\ orphans \in SUBSET (SUBSET PushRow)
    /\ minted \in SUBSET Version
    /\ IsFiniteSet(minted)
    /\ faults \in Nat

\* Two bottles were given this id at this time (finding IdsAreDistinct).
Tied(i, at) ==
    \E v, w \in minted : v # w /\ v.id = i /\ w.id = i /\ v.at = at /\ w.at = at

\* The server has this version of the bottle i, or a newer one.  Of two bottles
\* that were given one id at one time it keeps the one that arrived first, and
\* either browser is told that its own is stored.
Holds(i, at, unit) ==
    /\ srv[i] # NoRow
    /\ \/ srv[i].at > at
       \/ srv[i].at = at /\ (srv[i].unit = unit \/ Tied(i, at))

HoldsLocal(c, i) == Holds(i, local[c][i].at, local[c][i].unit)

\* An acknowledgement can be trusted: a local row that is not dirty is on the
\* server, this very bottle in this version or else a newer version of the id,
\* whatever responses were lost, applies cut short, pushes repeated or still
\* running with nobody waiting.  A browser never pushes a clean row again, so a
\* row that were clean too early would be lost with the device.  Excepted, as
\* Holds says, is the bottle that lost a tie of two given one id at one time.
CleanRowsAreStored ==
    \A c \in Client : \A i \in LocalIds(c) :
        local[c][i].dirty = 0 => HoldsLocal(c, i)

\* Why it can be trusted: what a request in flight carries is backed by the
\* tables.  A row of a push still to be handled is the local row, an ack is
\* for a version the server holds, and so is each pulled row.
BodyIsLocal(c) ==
    \A r \in call[c].todo :
        /\ local[c][r.id] # NoRow
        /\ local[c][r.id].at = r.at
        /\ local[c][r.id].unit = r.unit
AcksAreBacked(c) ==
    \A i \in call[c].acks : local[c][i] # NoRow /\ HoldsLocal(c, i)
RowsAreBacked(c) ==
    /\ \A r \in call[c].rows : Holds(r.id, r.at, r.unit)
    /\ \A p, q \in call[c].rows : p.id = q.id => p = q

RequestsAreBacked ==
    \A c \in Client : BodyIsLocal(c) /\ AcksAreBacked(c) /\ RowsAreBacked(c)

\* The server's table only moves forward: whichever pushes, repeated pushes and
\* abandoned pushes of one id meet, in whatever order, a stored row is replaced
\* by a newer version only, and with a new stamp.
StoredRowsMoveForward ==
    [][\A i \in Id : srv'[i] # srv[i] =>
           /\ srv'[i] # NoRow
           /\ srv[i] # NoRow =>
                  srv'[i].at > srv[i].at /\ srv'[i].seq > srv[i].seq]_vars

\* The bottle table implements a last-write-wins store over the versions
\* created anywhere: no push, retry, abandoned push or restart makes it hold
\* anything but the newest version it was offered.
StoredVersion == [i \in Id |->
    IF srv[i] = NoRow THEN NoRow
    ELSE [id |-> i, at |-> srv[i].at, unit |-> srv[i].unit]]

Lww == INSTANCE LwwStore WITH stored <- StoredVersion, Nothing <- NoRow

ImplementsLwwStore == Lww!Spec

\* A pull or an ack never undoes what the browser holds: a local row stays,
\* is replaced by a newer version only, and is dirty again only as a new row.
LocalRowsMoveForward ==
    [][\A c \in Client : \A i \in LocalIds(c) :
           /\ local'[c][i] # NoRow
           /\ \/ local'[c][i].at > local[c][i].at
              \/ /\ local'[c][i].at = local[c][i].at
                 /\ local'[c][i].unit = local[c][i].unit
                 /\ local'[c][i].lot = local[c][i].lot
                 /\ local'[c][i].dirty <= local[c][i].dirty]_vars

\* A cursor never goes back, though two kinds of response store it, lost
\* passes leave it behind and a pull reads it after its rows.
CursorsMoveForward ==
    [][\A c \in Client : cursor'[c] >= cursor[c]]_vars

\* While one browser is the only one to mint ids of its source, no bottle it
\* recorded is lost or becomes another: each is in the local store under its
\* id, and when clean the server's row of that id is that same bottle.
NoBottleLost ==
    \A c \in Client : \A v \in minted :
        SourceOf(v.id) = CLIENT_SOURCE =>
            /\ local[c][v.id] # NoRow
            /\ local[c][v.id].unit = v.unit
            /\ local[c][v.id].dirty = 0 =>
                   srv[v.id] # NoRow /\ srv[v.id].unit = v.unit

\* The id factory never falls back on an id in use, also when the highest id
\* it resumes from at a restart was minted by a browser or when it was ahead
\* of the database: add_bottle's insert never meets a taken primary key.
ServerIdsAreFresh ==
    NextId(SERVER_SOURCE, tick) \in Id => srv[NextId(SERVER_SOURCE, tick)] = NoRow

\* Every pass comes to its end: whatever is refused, lost or cut short, the
\* page gets back to idle, or to the wedged state a failing refreshCount leaves.
PassesEnd ==
    \A c \in Client :
        pc[c] \notin {"idle", "wedged"} ~> pc[c] \in {"idle", "wedged"}

Dirty(c, i) == local[c][i] # NoRow /\ local[c][i].dirty = 1
Homed(c) == \A i \in LocalIds(c) : HasLot(local[c][i])

\* If the user comes back to the app, every bottle recorded offline reaches the
\* server and is acknowledged, provided the browser had pulled a default lot
\* before the first one was recorded.
HomedBottlesDelivered ==
    Revisits =>
        \A c \in Client :
            []Homed(c) => \A i \in Id : [](Dirty(c, i) => <>~Dirty(c, i))

-----------------------------------------------------------------------------
(* What the comments of the code say and the code does not do. *)

\* "The client's current sync cursor (max server_seq it has applied)", of the
\* cursor of a push response: clearing the dirty bits moves it over no row
\* that another browser stored meanwhile.
AcksSkipNothing ==
    [][\A c \in Client : Answered(c, "push", "ok") =>
           \A i \in Stored : srv[i].seq \in (cursor[c] + 1)..cursor'[c] =>
               local[c][i] # NoRow /\ local[c][i].at >= srv[i].at]_vars

\* "source_id identifies this device/server (distinct per node)": no two
\* bottles get the same id.
IdsAreDistinct ==
    \A v, w \in minted : v.id = w.id => v = w
=============================================================================

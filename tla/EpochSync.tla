----------------------------- MODULE EpochSync ------------------------------
(***************************************************************************)
(* One browser against a server whose database is replaced ("nuked") or    *)
(* restarted with other seed data: the metadata check and the local reset  *)
(* of crates/client (sync.rs, store.rs), the reference pull, and the order *)
(* in which sync() of web/src/offline.ts runs them with the bottle sync.   *)
(*                                                                         *)
(* A request may be lost before or after it is answered.  How the          *)
(* statements of two requests interleave, and pulled bottles applied in    *)
(* part, are BottleSync's subject; what other browsers do to the server is *)
(* OtherBottle.  Every reference row stands for a mirror table of its own, *)
(* which the reset drops and makes again one statement at a time.  The     *)
(* browser's clock advances, so the number of a bottle is also its         *)
(* updated_at.                                                             *)
(***************************************************************************)
EXTENDS CausalId, FiniteSets

CONSTANTS
    NoRow,       \* no row under this id
    NoLot,       \* no default lot was pulled yet
    Lot,         \* the ids start-up may give the demo lot
    Value,       \* the contents a reference row can have
    RefCount,    \* the reference rows have the ids 1..RefCount
    MaxEpoch,    \* bound: databases the server has in turn
    MaxSeq,      \* bound: stamps given out in one database
    MaxTick,     \* bound: highest tick minted
    MaxBottles,  \* bound: bottles recorded anywhere
    MaxFaults    \* bound: failed requests and statements, closed tabs

NoEpoch == 0
RefId == 1..RefCount
Unit == 1..MaxBottles
Id == {Pack(t, s) : t \in 1..MaxTick, s \in {SERVER_SOURCE, CLIENT_SOURCE}}

BottleRow == [id : Id, unit : Unit, lot : Lot \cup {NoLot}, dirty : {0, 1}]
SrvBottleRow == [unit : Unit, seq : Nat]
SrvRefRow == [value : Value, seq : Nat]
PulledBottle == [id : Id, unit : Unit, lot : Lot, seq : Nat]
PulledRef == [id : RefId, value : Value, seq : Nat]

\* The local tables, in the order the reset takes them: 0 is bottle, i is the
\* mirror table of the reference row i.
Table == 0..RefCount
TableCount == RefCount + 1

ASSUME EpochAssumption ==
    /\ RefCount \in Nat
    /\ MaxEpoch \in Nat
    /\ MaxSeq \in Nat
    /\ MaxTick \in Nat
    /\ MaxBottles \in Nat
    /\ MaxFaults \in Nat
    /\ NoLot \notin Lot
    /\ NoRow \notin Value \cup SrvBottleRow \cup SrvRefRow


VARIABLES
    \* The browser's database, in OPFS.
    missing,     \* the tables dropped and not made again
    bottle,      \* the rows of its bottle table
    ref,         \* the row of each mirror table, or NoRow
    cursor,      \* sync_state "cursor"
    refCursor,   \* sync_state "ref_cursor"
    stored,      \* sync_state "epoch"
    defaultLot,  \* sync_state "default_lot"
    \* The page.
    pc,          \* where its pass stands
    body,        \* the rows of the push it awaits
    reply,       \* the answer to the request it awaits
    \* The server.
    epoch,       \* server_meta.epoch; databases are numbered in turn
    srvBottle,   \* its bottle table
    srvRef,      \* its reference tables
    srvLot,      \* the demo lot
    seq,         \* the last server_seq stamped
    \* Ghosts.
    units,       \* bottles recorded so far
    blind,       \* an epoch was, or will be, stored over data of who knows
                 \* which server, and no reset has run since: data was applied
                 \* before the first epoch, or the stored one was not read
    faults       \* faults spent of MaxFaults

tables == <<missing, bottle, ref>>
syncState == <<cursor, refCursor, stored, defaultLot>>
page == <<pc, body, reply>>
server == <<epoch, srvBottle, srvRef, srvLot, seq>>
vars == <<tables, syncState, page, server, units, blind, faults>>

-----------------------------------------------------------------------------
(* The answer to a request.  "from" is the database that gave it; it is on  *)
(* the wire only in the answer to /sync/meta.                               *)

Reply == [status : {"none", "ok", "err", "lost"},
          from   : Nat,
          acks   : SUBSET Id,
          rows   : SUBSET PulledBottle,
          refs   : SUBSET PulledRef,
          high   : Nat,
          lot    : Lot \cup {NoLot}]

NoReply == [status |-> "none", from |-> NoEpoch, acks |-> {}, rows |-> {},
            refs |-> {}, high |-> 0, lot |-> NoLot]

Refused == [NoReply EXCEPT !.status = "err"]
Accepted == [NoReply EXCEPT !.status = "ok", !.from = epoch]

Waits(stage) == pc = stage /\ reply.status = "none"
Got(stage, status) == pc = stage /\ reply.status = status

\* The pass goes on to a request, or to a stage without one.
Goto(stage) == pc' = stage /\ body' = {} /\ reply' = NoReply

\* The pass ends with refreshCount, which throws without the bottle table: the
\* pass then never gives "syncing" back.
EndPass == Goto(IF 0 \in missing THEN "wedged" ELSE "idle")

Fault == faults < MaxFaults /\ faults' = faults + 1

-----------------------------------------------------------------------------
(* Tables. *)

LocalIds == {r.id : r \in bottle}
DirtyRows == {r \in bottle : r.dirty = 1}
SrvIds == {i \in Id : srvBottle[i] # NoRow}
RefIds == {i \in RefId : srvRef[i] # NoRow}

Highest(stamps) == CHOOSE n \in stamps : \A m \in stamps : m <= n

\* The push upsert.  One browser's newer bottle has the higher number.
Writes(r) == srvBottle[r.id] # NoRow => r.unit > srvBottle[r.id].unit

\* lot_id REFERENCES lot(id)
HasLot(r) == r.lot = srvLot

Stamps == {srvBottle[i].seq : i \in SrvIds}

\* The local upsert of a pulled bottle, and of a pulled reference row: the
\* first wants a newer row, the second is blind.
Pulled(table, rows) ==
    LET taken == {r \in rows : \A q \in table : q.id = r.id => r.unit > q.unit}
    IN  {q \in table : \A r \in taken : r.id # q.id}
            \cup {[id |-> r.id, unit |-> r.unit, lot |-> r.lot, dirty |-> 0] : r \in taken}

Mirrored(table, rows) ==
    [i \in RefId |-> IF \E r \in rows : r.id = i
                     THEN (CHOOSE r \in rows : r.id = i).value
                     ELSE table[i]]

\* The rows of a reference answer up to the first whose table is missing.
Storable(rows) ==
    {r \in rows : \A q \in rows : q.id \in missing => r.seq < q.seq}

-----------------------------------------------------------------------------
(* The reset, statement by statement: each table dropped, bottle first, each *)
(* made again, the two cursors set to 0, the new epoch stored.               *)

LastStatement == 2 * TableCount + 3

Dropped(n) == {t \in Table : n > t}
Made(n) == {t \in Table : n > TableCount + t}

\* What the first n statements leave of the tables.
ResetTables(n) ==
    /\ missing' = (missing \cup Dropped(n)) \ Made(n)
    /\ bottle' = IF 0 \in Dropped(n) THEN {} ELSE bottle
    /\ ref' = [i \in RefId |-> IF i \in Dropped(n) THEN NoRow ELSE ref[i]]

\* Mutants: the new epoch is stored first; the reference cursor is forgotten.
EpochFirst(n, e) ==
    /\ ResetTables(n - 1)
    /\ cursor' = IF n > 2 * TableCount + 1 THEN 0 ELSE cursor
    /\ refCursor' = IF n > 2 * TableCount + 2 THEN 0 ELSE refCursor
    /\ stored' = IF n > 0 THEN e ELSE stored

RefCursorKept(n, e) ==
    /\ ResetTables(n)
    /\ cursor' = IF n > 2 * TableCount THEN 0 ELSE cursor
    /\ refCursor' = refCursor
    /\ stored' = IF n = LastStatement THEN e ELSE stored

\* The first n statements of the reset to the epoch e.
ResetUpTo(n, e) ==
    /\ ResetTables(n)
    /\ cursor' = IF n > 2 * TableCount THEN 0 ELSE cursor
    /\ refCursor' = IF n > 2 * TableCount + 1 THEN 0 ELSE refCursor
    /\ stored' = IF n = LastStatement THEN e ELSE stored

-----------------------------------------------------------------------------
(* Start-up of a server on a fresh database: the reference rows get the ids *)
(* and the stamps 1, 2, ... in the order of the seed files.                 *)

Seeded(n, contents) ==
    [i \in RefId |-> IF i <= n THEN [value |-> contents[i], seq |-> i] ELSE NoRow]

Init ==
    /\ missing = {}
    /\ bottle = {}
    /\ ref = [i \in RefId |-> NoRow]
    /\ cursor = 0
    /\ refCursor = 0
    /\ stored = NoEpoch
    /\ defaultLot = NoLot
    /\ pc = "idle"
    /\ body = {}
    /\ reply = NoReply
    /\ epoch = 1
    /\ srvBottle = [i \in Id |-> NoRow]
    /\ \E n \in RefId : \E contents \in [RefId -> Value] :
           srvRef = Seeded(n, contents) /\ seq = n
    /\ srvLot \in Lot
    /\ units = 0
    /\ blind = FALSE
    /\ faults = 0

-----------------------------------------------------------------------------
(* The page. *)

\* POST /bottles answered by the worker; without the table it fails.
AddBottle ==
    LET id == NextId(CLIENT_SOURCE, HighestTick(LocalIds))
    IN  /\ 0 \notin missing
        /\ units < MaxBottles
        /\ id \in Id
        /\ bottle' = bottle \cup
               {[id |-> id, unit |-> units + 1, lot |-> defaultLot, dirty |-> 1]}
        /\ units' = units + 1
        /\ UNCHANGED <<missing, ref, syncState, page, server, blind, faults>>

\* A POST or the "online" event starts a pass.
Sync ==
    /\ pc = "idle"
    /\ Goto("meta")
    /\ UNCHANGED <<tables, syncState, server, units, blind, faults>>

\* The tab is closed, and opened again: init_db makes missing tables, and the
\* "load" event starts a pass when the browser is online.
Load(next) ==
    /\ IF pc \in {"idle", "wedged"} THEN UNCHANGED faults ELSE Fault
    /\ missing' = {}
    /\ Goto(next)
    /\ UNCHANGED <<bottle, ref, syncState, server, units, blind>>

\* Mutant: the first epoch is taken for a new one.
OutdatedAtFirst(e) == stored # e

\* check_epoch: an epoch other than the stored one resets the local store;
\* the first one is only recorded.
Outdated(e) == stored \notin {NoEpoch, e}

CheckEpoch ==
    /\ Got("meta", "ok")
    /\ IF Outdated(reply.from)
       THEN ResetUpTo(LastStatement, reply.from) /\ blind' = FALSE
       ELSE stored' = reply.from /\ UNCHANGED <<tables, cursor, refCursor, blind>>
    /\ Goto("bottles")
    /\ UNCHANGED <<defaultLot, server, units, faults>>

\* The SELECT of the stored epoch fails: sync_get gives None, as before the
\* first pass, and the new epoch is stored without a reset.  (Where there is
\* nothing to reset, that is CheckEpoch.)
EpochUnread ==
    /\ Got("meta", "ok")
    /\ Outdated(reply.from)
    /\ Fault
    /\ stored' = reply.from
    /\ blind' = TRUE
    /\ Goto("bottles")
    /\ UNCHANGED <<tables, cursor, refCursor, defaultLot, server, units>>

\* Another statement of check_epoch fails, or the tab is closed before it (Load
\* follows).
CheckEpochFails ==
    /\ Got("meta", "ok")
    /\ Fault
    /\ IF Outdated(reply.from)
       THEN \E n \in 0..(LastStatement - 1) : ResetUpTo(n, reply.from)
       ELSE UNCHANGED <<tables, cursor, refCursor, stored>>
    /\ Goto("bottles")
    /\ UNCHANGED <<defaultLot, server, units, blind>>

\* /sync/meta refused or lost: the pass goes on without it.
MetaFails ==
    /\ pc = "meta"
    /\ reply.status \in {"err", "lost"}
    /\ Goto("bottles")
    /\ UNCHANGED <<tables, syncState, server, units, blind, faults>>

\* get_dirty, which fails without the table; then the push, or the pull.
GetDirty ==
    /\ pc = "bottles"
    /\ IF 0 \in missing THEN Goto("reference")
       ELSE IF DirtyRows = {} THEN Goto("pull")
       ELSE pc' = "push" /\ body' = DirtyRows /\ reply' = NoReply
    /\ UNCHANGED <<tables, syncState, server, units, blind, faults>>

ApplyAcks ==
    /\ Got("push", "ok")
    /\ bottle' = {IF r.id \in reply.acks THEN [r EXCEPT !.dirty = 0] ELSE r : r \in bottle}
    /\ cursor' = reply.high
    /\ blind' = (blind \/ stored = NoEpoch)
    /\ Goto("pull")
    /\ UNCHANGED <<missing, ref, refCursor, stored, defaultLot, server, units, faults>>

\* A push refused goes on to the pull, a push lost ends the bottle sync.
PushFails ==
    \/ /\ Got("push", "err")
       /\ Goto("pull")
       /\ UNCHANGED <<tables, syncState, server, units, blind, faults>>
    \/ /\ Got("push", "lost")
       /\ Goto("reference")
       /\ UNCHANGED <<tables, syncState, server, units, blind, faults>>

ApplyPull ==
    /\ Got("pull", "ok")
    /\ bottle' = Pulled(bottle, reply.rows)
    /\ cursor' = reply.high
    /\ defaultLot' = reply.lot
    /\ blind' = (blind \/ stored = NoEpoch)
    /\ Goto("reference")
    /\ UNCHANGED <<missing, ref, refCursor, stored, server, units, faults>>

PullFails ==
    /\ pc = "pull"
    /\ reply.status \in {"err", "lost"}
    /\ Goto("reference")
    /\ UNCHANGED <<tables, syncState, server, units, blind, faults>>

SendRefPull ==
    /\ pc = "reference"
    /\ Goto("refpull")
    /\ UNCHANGED <<tables, syncState, server, units, blind, faults>>

\* apply_reference: the rows in the order of their stamps, then the cursor; a
\* row whose table is missing fails it.
ApplyReference ==
    /\ Got("refpull", "ok")
    /\ ref' = Mirrored(ref, Storable(reply.refs))
    /\ refCursor' = IF Storable(reply.refs) = reply.refs THEN reply.high ELSE refCursor
    /\ blind' = (blind \/ stored = NoEpoch)
    /\ EndPass
    /\ UNCHANGED <<missing, bottle, cursor, stored, defaultLot, server, units, faults>>

\* Any statement of it fails, or the tab is closed before it.
ApplyReferenceFails ==
    /\ Got("refpull", "ok")
    /\ Fault
    /\ \E last \in 0..reply.high :
           ref' = Mirrored(ref, {r \in Storable(reply.refs) : r.seq <= last})
    /\ blind' = (blind \/ stored = NoEpoch)
    /\ EndPass
    /\ UNCHANGED <<missing, bottle, syncState, server, units>>

RefPullFails ==
    /\ pc = "refpull"
    /\ reply.status \in {"err", "lost"}
    /\ EndPass
    /\ UNCHANGED <<tables, syncState, server, units, blind, faults>>

-----------------------------------------------------------------------------
(* The server. *)

AnswerMeta ==
    /\ Waits("meta")
    /\ reply' = Accepted
    /\ UNCHANGED <<tables, syncState, pc, body, server, units, blind, faults>>

\* One row of a push, in the order of the ids.
PushRow ==
    /\ Waits("push")
    /\ \E r \in body :
           /\ \A q \in body : r.id <= q.id
           /\ Writes(r) => HasLot(r)
           /\ IF Writes(r)
              THEN /\ srvBottle' = [srvBottle EXCEPT ![r.id] = [unit |-> r.unit, seq |-> seq + 1]]
                   /\ seq' = seq + 1
              ELSE UNCHANGED <<srvBottle, seq>>
           /\ body' = body \ {r}
           /\ reply' = [reply EXCEPT !.acks = @ \cup {r.id}]
    /\ UNCHANGED <<tables, syncState, pc, epoch, srvRef, srvLot, units, blind, faults>>

\* A row that breaks the foreign key ends the push; those before it stay.
PushRowRejected ==
    /\ Waits("push")
    /\ \E r \in body : (\A q \in body : r.id <= q.id) /\ Writes(r) /\ ~HasLot(r)
    /\ reply' = Refused
    /\ UNCHANGED <<tables, syncState, pc, body, server, units, blind, faults>>

AnswerPush ==
    /\ Waits("push")
    /\ body = {}
    /\ reply' = [Accepted EXCEPT !.acks = reply.acks, !.high = Highest({0} \cup Stamps)]
    /\ UNCHANGED <<tables, syncState, pc, body, server, units, blind, faults>>

AnswerPull ==
    /\ Waits("pull")
    /\ reply' = [Accepted EXCEPT
           !.rows = {[id |-> i, unit |-> srvBottle[i].unit, lot |-> srvLot,
                      seq |-> srvBottle[i].seq] :
                         i \in {j \in SrvIds : srvBottle[j].seq > cursor}},
           !.high = Highest({0} \cup Stamps),
           !.lot = srvLot]
    /\ UNCHANGED <<tables, syncState, pc, body, server, units, blind, faults>>

\* One query, and the cursor of the rows it returned.
RefChanges ==
    {[id |-> i, value |-> srvRef[i].value, seq |-> srvRef[i].seq] :
         i \in {j \in RefIds : srvRef[j].seq > refCursor}}

\* Mutant: the cursor of the rows, without the one asked from.
RefHighOfRows(rows) == Highest({-1} \cup {r.seq : r \in rows})

RefHigh(rows) == Highest({refCursor} \cup {r.seq : r \in rows})

AnswerRefPull ==
    /\ Waits("refpull")
    /\ reply' = [Accepted EXCEPT !.refs = RefChanges, !.high = RefHigh(RefChanges)]
    /\ UNCHANGED <<tables, syncState, pc, body, server, units, blind, faults>>

\* Another browser's bottle is stored, or one added at the server.
OtherBottle ==
    /\ units < MaxBottles
    /\ seq < MaxSeq
    /\ \E i \in Id \ SrvIds :
           /\ SourceOf(i) = SERVER_SOURCE
           /\ srvBottle' = [srvBottle EXCEPT ![i] = [unit |-> units + 1, seq |-> seq + 1]]
    /\ seq' = seq + 1
    /\ units' = units + 1
    /\ UNCHANGED <<tables, syncState, page, epoch, srvRef, srvLot, blind, faults>>

-----------------------------------------------------------------------------
(* Failures and operations. *)

\* The server answers with an error, or the connection breaks before or after
\* it has answered.
RequestFails ==
    /\ pc \in {"meta", "push", "pull", "refpull"}
    /\ Fault
    /\ \/ reply.status = "none" /\ reply' = Refused
       \/ reply.status \in {"none", "ok"} /\ reply' = [NoReply EXCEPT !.status = "lost"]
    /\ UNCHANGED <<tables, syncState, pc, body, server, units, blind>>

\* The process stops: what it was about to answer is lost.
DropRequest ==
    reply' = IF reply.status = "none" /\ pc \in {"meta", "push", "pull", "refpull"}
             THEN [reply EXCEPT !.status = "lost"] ELSE reply

\* A release with other seed data: start-up changes a row or inserts one.
Redeploy ==
    /\ seq < MaxSeq
    /\ \E i \in RefId : \E v \in Value :
           /\ i \in RefIds \/ i - 1 \in RefIds
           /\ i \in RefIds => srvRef[i].value # v
           /\ srvRef' = [srvRef EXCEPT ![i] = [value |-> v, seq |-> seq + 1]]
    /\ seq' = seq + 1
    /\ DropRequest
    /\ UNCHANGED <<tables, syncState, pc, body, epoch, srvBottle, srvLot, units, blind, faults>>

\* The volume is deleted and the server started on a fresh database, with the
\* seed data of any release.
Nuke ==
    /\ epoch < MaxEpoch
    /\ epoch' = epoch + 1
    /\ srvBottle' = [i \in Id |-> NoRow]
    /\ \E n \in RefId : \E contents \in [RefId -> Value] :
           srvRef' = Seeded(n, contents) /\ seq' = n
    /\ srvLot' \in Lot
    /\ DropRequest
    /\ UNCHANGED <<tables, syncState, pc, body, units, blind, faults>>

-----------------------------------------------------------------------------
Page ==
    \/ CheckEpoch \/ MetaFails
    \/ GetDirty \/ ApplyAcks \/ PushFails \/ ApplyPull \/ PullFails
    \/ SendRefPull \/ ApplyReference \/ RefPullFails

Answer ==
    \/ AnswerMeta
    \/ PushRow \/ PushRowRejected \/ AnswerPush
    \/ AnswerPull \/ AnswerRefPull

Faulty == EpochUnread \/ CheckEpochFails \/ ApplyReferenceFails \/ RequestFails

Next ==
    \/ AddBottle \/ Sync
    \/ \E next \in {"meta", "idle"} : Load(next)
    \/ Page \/ Answer \/ Faulty
    \/ OtherBottle \/ Redeploy \/ Nuke

Spec == Init /\ [][Next]_vars

\* The event loops of page and server are fair, and a page whose pass is
\* over, or stuck, is opened again some day.
RevisitSpec ==
    Spec /\ WF_vars(Page) /\ WF_vars(Answer) /\ WF_vars(pc \in {"idle", "wedged"} /\ Load("meta"))

-----------------------------------------------------------------------------
(* Properties. *)

TypeOK ==
    /\ missing \in SUBSET Table
    /\ bottle \in SUBSET BottleRow
    /\ ref \in [RefId -> Value \cup {NoRow}]
    /\ cursor \in Nat
    /\ refCursor \in Nat
    /\ stored \in Nat
    /\ defaultLot \in Lot \cup {NoLot}
    /\ pc \in {"idle", "meta", "bottles", "push", "pull", "reference", "refpull", "wedged"}
    /\ body \in SUBSET BottleRow
    /\ reply \in Reply
    /\ epoch \in Nat
    /\ srvBottle \in [Id -> SrvBottleRow \cup {NoRow}]
    /\ srvRef \in [RefId -> SrvRefRow \cup {NoRow}]
    /\ srvLot \in Lot
    /\ seq \in Nat
    /\ units \in Nat
    /\ blind \in BOOLEAN
    /\ faults \in Nat

\* What the local store holds belongs to the server it knows: the tables are
\* whole, a clean bottle is stored there, a mirrored reference row exists
\* there, and each reference row up to the cursor is mirrored as it is.
CleanAreStored ==
    \A r \in bottle : r.dirty = 0 =>
        srvBottle[r.id] # NoRow /\ srvBottle[r.id].unit >= r.unit
MirrorIsBacked == \A i \in RefId : ref[i] # NoRow => srvRef[i] # NoRow
MirrorIsComplete ==
    \A i \in RefIds : srvRef[i].seq <= refCursor => ref[i] = srvRef[i].value

OfThisServer ==
    missing = {} /\ CleanAreStored /\ MirrorIsBacked /\ MirrorIsComplete

\* After any reset, cut short at any statement, repeated, or raced by another
\* replacement of the database, a browser that stores the server's epoch holds
\* nothing of an earlier server.  Two ways of storing an epoch without knowing
\* whose data is there are excepted, until the next reset: rows applied before
\* the first epoch was stored, and a SELECT of the stored epoch that fails,
\* which check_epoch takes for a first pass.
KnownServerIsMirrored == stored = epoch /\ ~blind => OfThisServer

\* A local row or table goes only when the server was replaced since the
\* browser stored its epoch: "a same-epoch sync does NOT reset".
DropsOnlyAfterNuke ==
    [][\/ /\ missing' \subseteq missing
          /\ \A r \in bottle : \E q \in bottle' : q.id = r.id
          /\ \A i \in RefId : ref[i] # NoRow => ref'[i] # NoRow
       \/ stored # NoEpoch /\ stored < epoch]_vars

\* When the server is left alone and the user comes back, the browser ends up
\* with its epoch and its reference data, however resets and passes failed -
\* unless it stays blind: an epoch stored over the data of another server is
\* never looked at again.
MirrorsServer ==
    /\ stored = epoch
    /\ \A i \in RefId : ref[i] = IF i \in RefIds THEN srvRef[i].value ELSE NoRow

Rehydrates == <>[]~blind => <>[]MirrorsServer

-----------------------------------------------------------------------------
(* What the comments of the code say and the code does not do. *)

\* "plus the default lot id so offline-created bottles have a valid home": a
\* browser that knows the server, and has pulled a default lot, records bottles
\* this server has a lot for.
PulledLotsAreHomes ==
    stored = epoch /\ ~blind =>
        \A r \in DirtyRows : r.lot # NoLot => HasLot(r)
=============================================================================

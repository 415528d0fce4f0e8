----------------------------- MODULE ChangeFeed ------------------------------
(***************************************************************************)
(* The two change feeds of the server - bottles (pull) and reference rows  *)
(* (reference_pull) of crates/server/src/sync.rs - below the level of a    *)
(* statement: the trigger of migrations/0001_init.sql draws a row's        *)
(* server_seq while the statement runs, and the row is visible only when   *)
(* the statement commits.  Statements of concurrent requests commit in any *)
(* order, or not at all.                                                   *)
(*                                                                         *)
(* The reader is one browser with nothing to push, one pull at a time; the *)
(* writers are the pushes of others, POST /bottles at the server, and      *)
(* start-up, which alone writes reference rows, one after the other and    *)
(* before it serves.  A row's version is its stamp.                        *)
(***************************************************************************)
EXTENDS Integers

CONSTANTS
    Bottle,     \* the rows of the bottle table
    Reference,  \* the rows of the reference tables
    MaxSeq,     \* bound: stamps drawn
    MaxFaults   \* bound: lost pulls, failed applies, server stops

ASSUME FeedAssumption ==
    /\ Bottle \cap Reference = {}
    /\ MaxSeq \in Nat
    /\ MaxFaults \in Nat

Row == Bottle \cup Reference
Kind == {"bottle", "reference"}
RowsOf(kind) == IF kind = "bottle" THEN Bottle ELSE Reference

VARIABLES
    \* The database.
    seq,      \* sync_seq
    table,    \* the committed stamp of each row, or 0
    open,     \* the statements that have drawn a stamp and not ended
    \* The server process and the pull it works on.
    serving,  \* start-up is over
    pull,     \* the request of the reader
    \* The reader's store.
    held,     \* the version of each row it holds, or 0
    cursor,   \* "cursor" and "ref_cursor"
    \* Ghosts.
    during,   \* stamps open at some point between the two statements of pull
    overlap,  \* all such stamps, of the pulls that were applied
    faults    \* faults spent of MaxFaults

database == <<seq, table, open>>
store == <<held, cursor>>
vars == <<database, serving, pull, store, during, overlap, faults>>

-----------------------------------------------------------------------------
Write == [row : Row, stamp : Nat]

\* A pull.  status: "run" before its first statement, "read" after it, "ok"
\* when it is answered.  since and high are the cursors asked from and given.
Pull == [kind : Kind, status : {"none", "run", "read", "ok"},
         since : Nat, rows : SUBSET Write, high : Nat]

NoPull == [kind |-> "bottle", status |-> "none", since |-> 0, rows |-> {}, high |-> 0]

Highest(stamps) == CHOOSE n \in stamps : \A m \in stamps : m <= n

Stamps(kind) == {table[i] : i \in RowsOf(kind)}

\* Mutant: the rows one past the next stamp.
PastButOne(kind, since) ==
    {[row |-> i, stamp |-> table[i]] : i \in {j \in RowsOf(kind) : table[j] > since + 1}}

\* WHERE server_seq > $1
Past(kind, since) ==
    {[row |-> i, stamp |-> table[i]] : i \in {j \in RowsOf(kind) : table[j] > since}}

\* What the store holds after it applied the rows.
Applied(rows) ==
    [i \in Row |-> IF \E r \in rows : r.row = i
                   THEN (CHOOSE r \in rows : r.row = i).stamp
                   ELSE held[i]]

Fault == faults < MaxFaults /\ faults' = faults + 1

Init ==
    /\ seq = 0
    /\ table = [i \in Row |-> 0]
    /\ open = {}
    /\ serving = FALSE
    /\ pull = NoPull
    /\ held = [i \in Row |-> 0]
    /\ cursor = [k \in Kind |-> 0]
    /\ during = {}
    /\ overlap = {}
    /\ faults = 0

-----------------------------------------------------------------------------
(* Statements. *)

\* Mutant: the listener is bound before start-up has reconciled the rows.
WritesAnytime(i) == TRUE

\* main() reconciles the reference rows, one awaited statement after the other,
\* and then listens; its handlers write bottles.
MayWrite(i) ==
    IF i \in Reference
    THEN ~serving /\ \A o \in open : o.row \notin Reference
    ELSE serving

\* A statement has the lock of its row and runs set_server_seq.
Draw(i) ==
    /\ MayWrite(i)
    /\ \A o \in open : o.row # i
    /\ seq < MaxSeq
    /\ seq' = seq + 1
    /\ open' = open \cup {[row |-> i, stamp |-> seq + 1]}
    /\ during' = IF pull.status = "read" THEN during \cup {seq + 1} ELSE during
    /\ UNCHANGED <<table, serving, pull, store, overlap, faults>>

Commit(o) ==
    /\ o \in open
    /\ table' = [table EXCEPT ![o.row] = o.stamp]
    /\ open' = open \ {o}
    /\ UNCHANGED <<seq, serving, pull, store, during, overlap, faults>>

\* It fails, or the upsert's WHERE does not hold: the stamp is not used.
RollBack(o) ==
    /\ o \in open
    /\ open' = open \ {o}
    /\ UNCHANGED <<seq, table, serving, pull, store, during, overlap, faults>>

-----------------------------------------------------------------------------
(* Pulls. *)

SendPull(kind) ==
    /\ serving
    /\ pull.status = "none"
    /\ pull' = [NoPull EXCEPT !.kind = kind, !.status = "run", !.since = cursor[kind]]
    /\ UNCHANGED <<database, serving, store, during, overlap, faults>>

\* pull, first statement: the rows committed by now.
PullReadsRows ==
    /\ pull.status = "run" /\ pull.kind = "bottle"
    /\ pull' = [pull EXCEPT !.status = "read", !.rows = Past("bottle", pull.since)]
    /\ during' = {o.stamp : o \in open}
    /\ UNCHANGED <<database, serving, store, overlap, faults>>

\* Mutants: no coalesce to 0 for an empty table; one more than the highest
\* stamp, as "the next to read".
CursorFromMinusOne == Highest({-1} \cup (Stamps("bottle") \ {0}))
NextStamp == Highest({0} \cup Stamps("bottle")) + 1

\* bottle_cursor: SELECT coalesce(max(server_seq), 0) FROM bottle
BottleCursor == Highest({0} \cup Stamps("bottle"))

\* pull, second statement: the cursor, of the rows committed by now.
PullReadsCursor ==
    /\ pull.status = "read"
    /\ pull' = [pull EXCEPT !.status = "ok", !.high = BottleCursor]
    /\ UNCHANGED <<database, serving, store, during, overlap, faults>>

\* reference_pull: one query, and the cursor of the rows it returned.
ReferencePullReads ==
    /\ pull.status = "run" /\ pull.kind = "reference"
    /\ LET rows == Past("reference", pull.since)
       IN  pull' = [pull EXCEPT !.status = "ok", !.rows = rows,
                                !.high = Highest({pull.since} \cup {r.stamp : r \in rows})]
    /\ UNCHANGED <<database, serving, store, during, overlap, faults>>

\* apply_pull, apply_reference: the rows, then the cursor.
Apply ==
    /\ pull.status = "ok"
    /\ held' = Applied(pull.rows)
    /\ cursor' = [cursor EXCEPT ![pull.kind] = pull.high]
    /\ overlap' = overlap \cup during
    /\ pull' = NoPull
    /\ during' = {}
    /\ UNCHANGED <<database, serving, faults>>

\* Mutant: the cursor is stored before the rows.
CursorFirst ==
    /\ pull.status = "ok"
    /\ Fault
    /\ cursor' = [cursor EXCEPT ![pull.kind] = pull.high]
    /\ pull' = NoPull
    /\ during' = {}
    /\ UNCHANGED <<database, serving, held, overlap>>

\* One of its statements fails: the rows before it, in the order of their
\* stamps, were applied.
ApplyFails ==
    /\ pull.status = "ok"
    /\ Fault
    /\ \E n \in 0..MaxSeq : held' = Applied({r \in pull.rows : r.stamp <= n})
    /\ pull' = NoPull
    /\ during' = {}
    /\ UNCHANGED <<database, serving, cursor, overlap>>

\* The pull is refused or lost, or its tab closed.
LosePull ==
    /\ pull.status # "none"
    /\ Fault
    /\ pull' = NoPull
    /\ during' = {}
    /\ UNCHANGED <<database, serving, store, overlap>>

-----------------------------------------------------------------------------
(* The process. *)

\* The statements of its handlers run on in the database.
Stop ==
    /\ serving
    /\ Fault
    /\ serving' = FALSE
    /\ pull' = IF pull.status = "ok" THEN pull ELSE NoPull
    /\ during' = IF pull.status = "ok" THEN during ELSE {}
    /\ UNCHANGED <<database, store, overlap>>

\* Start-up is over: axum::serve.
Serve ==
    /\ ~serving
    /\ \A o \in open : o.row \notin Reference
    /\ serving' = TRUE
    /\ UNCHANGED <<database, pull, store, during, overlap, faults>>

-----------------------------------------------------------------------------
Ends == \E o \in open : Commit(o) \/ RollBack(o)

Reader == PullReadsRows \/ PullReadsCursor \/ ReferencePullReads \/ Apply

Next ==
    \/ \E i \in Row : Draw(i)
    \/ Ends
    \/ \E kind \in Kind : SendPull(kind)
    \/ Reader \/ ApplyFails \/ LosePull
    \/ Stop \/ Serve

Spec == Init /\ [][Next]_vars

\* Statements end, a process that is started serves in the end, a pull that is
\* sent is handled, and the user comes back, so that each feed is pulled again and again.
RevisitSpec ==
    /\ Spec
    /\ WF_vars(Ends) /\ WF_vars(Serve) /\ WF_vars(Reader)
    /\ \A kind \in Kind : SF_vars(SendPull(kind))

-----------------------------------------------------------------------------
(* Properties. *)

TypeOK ==
    /\ seq \in Nat
    /\ table \in [Row -> Nat]
    /\ open \in SUBSET Write
    /\ serving \in BOOLEAN
    /\ pull \in Pull
    /\ held \in [Row -> Nat]
    /\ cursor \in [Kind -> Nat]
    /\ during \in SUBSET Nat
    /\ overlap \in SUBSET Nat
    /\ faults \in Nat

\* A bottle the cursor has passed and the reader does not hold - it will never
\* be pulled again unless it changes - was written by a statement that had its
\* stamp before, and committed after, one and the same pull read the cursor
\* and the rows: no other order of statements, lost pull, apply cut short or
\* restart makes the reader miss a bottle.
Missed(i) == table[i] <= cursor["bottle"] /\ held[i] < table[i]

SkipsNeedOverlap == \A i \in Bottle : Missed(i) => table[i] \in overlap

\* Whoever follows the reference cursor misses nothing: as reference rows are
\* written one by one while nobody is served, and rows and cursor come from one
\* query, the feed keeps what Feed promises.
Ref == INSTANCE Feed WITH
    Row <- Reference,
    rows <- [i \in Reference |-> table[i]],
    held <- [i \in Reference |-> held[i]],
    cursor <- cursor["reference"]

ImplementsFeed == Ref!Spec

\* When the writing is over, a reader who comes back ends up with every row, save
\* bottles whose statement overlapped a pull, whatever was lost, cut short or
\* restarted before.
CatchesUp ==
    <>[](\A i \in Row : held[i] = table[i] \/ (i \in Bottle /\ table[i] \in overlap))
=============================================================================

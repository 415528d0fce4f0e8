-------------------------- MODULE BottleSyncProofs --------------------------
(***************************************************************************)
(* Theorems of BottleSync, for any number of browsers and any bounds.      *)
(***************************************************************************)
EXTENDS BottleSync, SharedProofs, FiniteSetTheorems

-----------------------------------------------------------------------------
(* Facts about the tables and the requests. *)

LEMMA IdIsNat ==
    /\ Id \subseteq Nat
    /\ \A i \in Id : i <= (MaxTick + 1) * SourceSpan
    /\ (MaxTick + 1) * SourceSpan \in Nat
<1> USE SyncAssumption
<1>1. SUFFICES ASSUME NEW t \in 1..MaxTick, NEW s \in {SERVER_SOURCE, CLIENT_SOURCE}
               PROVE  Pack(t, s) \in Nat /\ Pack(t, s) <= (MaxTick + 1) * SourceSpan
    BY DEF Id, SourceSpan
<1> QED
    BY DEF Pack, SourceSpan, SERVER_SOURCE, CLIENT_SOURCE

LEMMA NoRowIsNoRecord ==
    /\ NoRow \notin LocalRow
    /\ NoRow \notin ServerRow
    /\ NoRow \notin Version
BY SyncAssumption

LEMMA NoCallType == NoCall \in Call
BY DEF NoCall, Call

\* Clearing dirty bits changes nothing but dirty bits.
LEMMA AckedType ==
    ASSUME NEW table \in [Id -> LocalRow \cup {NoRow}], NEW ids
    PROVE  /\ Acked(table, ids) \in [Id -> LocalRow \cup {NoRow}]
           /\ \A i \in Id :
                 IF table[i] = NoRow THEN Acked(table, ids)[i] = NoRow
                 ELSE /\ Acked(table, ids)[i] \in LocalRow
                      /\ Acked(table, ids)[i].at = table[i].at
                      /\ Acked(table, ids)[i].unit = table[i].unit
                      /\ Acked(table, ids)[i].lot = table[i].lot
                      /\ Acked(table, ids)[i].dirty = IF i \in ids THEN 0 ELSE table[i].dirty
BY NoRowIsNoRecord DEF Acked, LocalRow

\* A row of a merged table is the row that was there, or a clean copy of a
\* pulled row that is newer.
LEMMA MergedRows ==
    ASSUME NEW table \in [Id -> LocalRow \cup {NoRow}], NEW rows \in SUBSET PullRow,
           \A p, q \in rows : p.id = q.id => p = q
    PROVE  /\ Merged(table, rows) \in [Id -> LocalRow \cup {NoRow}]
           /\ \A i \in Id :
                 \/ Merged(table, rows)[i] = table[i]
                 \/ \E r \in rows :
                       /\ r.id = i
                       /\ Takes(table[i], r)
                       /\ Merged(table, rows)[i] =
                             [at |-> r.at, unit |-> r.unit, lot |-> DemoLot, dirty |-> 0]
                       /\ Merged(table, rows)[i] \in LocalRow
<1>1. ASSUME NEW i \in Id
      PROVE  \/ Merged(table, rows)[i] = table[i]
             \/ \E r \in rows :
                   /\ r.id = i
                   /\ Takes(table[i], r)
                   /\ Merged(table, rows)[i] =
                         [at |-> r.at, unit |-> r.unit, lot |-> DemoLot, dirty |-> 0]
                   /\ Merged(table, rows)[i] \in LocalRow
    <2>1. CASE \E r \in rows : r.id = i /\ Takes(table[i], r)
        <3>1. PICK r \in rows : r.id = i /\ Takes(table[i], r)
            BY <2>1
        <3>2. (CHOOSE q \in rows : q.id = i) = r
            BY <3>1
        <3>3. Merged(table, rows)[i] =
                  [at |-> r.at, unit |-> r.unit, lot |-> DemoLot, dirty |-> 0]
            BY <2>1, <3>2, Zenon DEF Merged
        <3>4. Merged(table, rows)[i] \in LocalRow
            BY <3>3 DEF LocalRow, PullRow, Lot
        <3> QED
            BY <3>1, <3>3, <3>4
    <2>2. CASE ~ \E r \in rows : r.id = i /\ Takes(table[i], r)
        BY <2>2, Zenon DEF Merged
    <2> QED
        BY <2>1, <2>2
<1>2. \A i \in Id : Merged(table, rows)[i] \in LocalRow \cup {NoRow}
    BY <1>1
<1>3. Merged(table, rows) = [i \in Id |-> Merged(table, rows)[i]]
    BY Zenon DEF Merged
<1> QED
    BY <1>1, <1>2, <1>3

\* Merging any pulled rows keeps the table typed.
LEMMA MergedType ==
    ASSUME NEW table \in [Id -> LocalRow \cup {NoRow}], NEW rows \in SUBSET PullRow
    PROVE  Merged(table, rows) \in [Id -> LocalRow \cup {NoRow}]
<1>1. ASSUME NEW i \in Id, \E r \in rows : r.id = i
      PROVE  LET r == CHOOSE q \in rows : q.id = i
             IN  [at |-> r.at, unit |-> r.unit, lot |-> DemoLot, dirty |-> 0] \in LocalRow
    <2>1. (CHOOSE q \in rows : q.id = i) \in rows
        BY <1>1
    <2> QED
        BY <2>1 DEF LocalRow, PullRow, Lot
<1> QED
    BY <1>1 DEF Merged

\* The highest stamp of the table is the last one given out.
SeqIsHighest ==
    /\ \A i \in Stored : srv[i].seq <= seq
    /\ IF Stored = {} THEN seq = 0 ELSE \E i \in Stored : srv[i].seq = seq

\* The cursor query returns the last stamp given out.
LEMMA CursorIsSeq ==
    ASSUME TypeOK, SeqIsHighest
    PROVE  BottleCursor = seq
<1>1. CASE Stored = {}
    BY <1>1 DEF SeqIsHighest, BottleCursor
<1>2. CASE Stored # {}
    <2>1. PICK i \in Stored : srv[i].seq = seq
        BY <1>2 DEF SeqIsHighest
    <2>2. \A j \in Stored : srv[j].seq \in Nat /\ srv[j].seq <= seq
        BY NoRowIsNoRecord DEF SeqIsHighest, TypeOK, Stored, ServerRow
    <2>3. BottleCursor \in {srv[j].seq : j \in Stored}
          /\ \A j \in Stored : srv[j].seq <= BottleCursor
        BY <1>2, <2>1, <2>2, Zenon DEF BottleCursor
    <2> QED
        BY <2>1, <2>2, <2>3
<1> QED
    BY <1>1, <1>2

\* A write keeps the table typed and its stamp is the highest.
LEMMA WriteType ==
    ASSUME TypeOK, SeqIsHighest,
           NEW i \in Id, NEW at \in Time, NEW unit \in Unit, Write(i, at, unit)
    PROVE  /\ srv' \in [Id -> ServerRow \cup {NoRow}]
           /\ seq' \in Nat
           /\ SeqIsHighest'
<1>1. srv' = [srv EXCEPT ![i] = [at |-> at, unit |-> unit, seq |-> seq + 1]]
      /\ seq' = seq + 1 /\ seq' \in Nat
    BY DEF Write, TypeOK
<1>2. [at |-> at, unit |-> unit, seq |-> seq + 1] \in ServerRow
    BY DEF ServerRow, TypeOK
<1>3. srv' \in [Id -> ServerRow \cup {NoRow}]
    BY <1>1, <1>2 DEF TypeOK
<1>4. i \in Stored' /\ srv'[i].seq = seq'
    BY <1>1, <1>2, NoRowIsNoRecord DEF Stored, TypeOK
<1>5. ASSUME NEW j \in Stored' PROVE srv'[j].seq <= seq'
    <2>1. CASE j = i
        BY <1>1, <1>4, <2>1
    <2>2. CASE j # i
        <3>1. j \in Stored /\ srv'[j] = srv[j] /\ srv[j] \in ServerRow
            BY <1>1, <2>2 DEF Stored, TypeOK
        <3> QED
            BY <1>1, <3>1 DEF SeqIsHighest, ServerRow, TypeOK
    <2> QED
        BY <2>1, <2>2
<1> QED
    BY <1>1, <1>3, <1>4, <1>5 DEF SeqIsHighest

LEMMA SeqFrame ==
    ASSUME SeqIsHighest, UNCHANGED <<srv, seq>>
    PROVE  SeqIsHighest'
BY DEF SeqIsHighest, Stored

Status == {"run", "read", "ok", "err", "lost"}

\* The status of a request, or the request itself, is all a step changes.
LEMMA CallUpdate ==
    ASSUME TypeOK, NEW c \in Client
    PROVE  /\ call[c] \in Call
           /\ \A s \in Status : /\ [call[c] EXCEPT !.status = s] \in Call
                                /\ [call EXCEPT ![c].status = s] \in [Client -> Call]
           /\ \A x \in Call : [call EXCEPT ![c] = x] \in [Client -> Call]
<1>1. call \in [Client -> Call]
    BY DEF TypeOK
<1>2. \A s \in Status : [call[c] EXCEPT !.status = s] \in Call
    BY <1>1 DEF Call, Status
<1> QED
    BY <1>1, <1>2

LEMMA AbandonedType ==
    ASSUME TypeOK, NEW c \in Client
    PROVE  orphans \cup Abandoned(c) \in SUBSET (SUBSET PushRow)
<1>1. call[c] \in Call
    BY CallUpdate
<1>2. call[c].todo \in SUBSET PushRow
    BY <1>1 DEF Call
<1> QED
    BY <1>2 DEF TypeOK, Abandoned

\* A new version of a bottle is well formed and keeps the ghost finite.
LEMMA NewVersion ==
    ASSUME TypeOK, Cardinality(minted) < MaxBottles,
           NEW id \in Id, NEW at \in Time
    PROVE  /\ NewUnit \in Unit
           /\ minted \cup {[id |-> id, at |-> at, unit |-> NewUnit]} \in SUBSET Version
           /\ IsFiniteSet(minted \cup {[id |-> id, at |-> at, unit |-> NewUnit]})
<1>1. IsFiniteSet(minted) /\ minted \in SUBSET Version
    BY DEF TypeOK
<1>2. Cardinality(minted) \in Nat
    BY <1>1, FS_CardinalityType
<1>3. NewUnit \in Unit
    BY <1>2, SyncAssumption DEF NewUnit, Unit
<1>4. [id |-> id, at |-> at, unit |-> NewUnit] \in Version
    BY <1>3 DEF Version
<1>5. IsFiniteSet(minted \cup {[id |-> id, at |-> at, unit |-> NewUnit]})
    BY <1>1, FS_AddElement
<1> QED
    BY <1>1, <1>3, <1>4, <1>5

\* An upsert of a row of a push body keeps the server's table typed.
LEMMA UpsertType ==
    ASSUME TypeOK, SeqIsHighest, NEW r \in PushRow, Upsert(r)
    PROVE  /\ srv' \in [Id -> ServerRow \cup {NoRow}]
           /\ seq' \in Nat
           /\ SeqIsHighest'
<1>1. r.id \in Id /\ r.at \in Time /\ r.unit \in Unit
    BY DEF PushRow
<1>2. CASE Writes(r)
    BY <1>1, <1>2, WriteType DEF Upsert
<1>3. CASE ~Writes(r)
    BY <1>3, SeqFrame DEF Upsert, TypeOK
<1> QED
    BY <1>2, <1>3

-----------------------------------------------------------------------------
(* Type correctness. *)

TypeInv == TypeOK /\ SeqIsHighest

LEMMA TypeStep ==
    ASSUME TypeInv, [Next]_vars
    PROVE  TypeInv'
<1> USE DEF TypeInv
<1>0. CASE UNCHANGED vars
    BY <1>0 DEF TypeOK, SeqIsHighest, Stored, vars, storeVars, pageVars, serverVars, ghostVars
<1>1. ASSUME NEW c \in Client, AddBottle(c) PROVE TypeInv'
    <2> DEFINE id == NextId(CLIENT_SOURCE, HighestTick(LocalIds(c)))
    <2>1. id \in Id /\ Cardinality(minted) < MaxBottles
        BY <1>1 DEF AddBottle
    <2>2. PICK now \in Time :
              /\ local' = [local EXCEPT ![c][id] =
                      [at |-> now, unit |-> NewUnit, lot |-> defaultLot[c], dirty |-> 1]]
              /\ minted' = minted \cup {[id |-> id, at |-> now, unit |-> NewUnit]}
        BY <1>1 DEF AddBottle
    <2> HIDE DEF id
    <2>3. NewUnit \in Unit /\ minted' \in SUBSET Version /\ IsFiniteSet(minted')
        BY <2>1, <2>2, NewVersion
    <2>4. [at |-> now, unit |-> NewUnit, lot |-> defaultLot[c], dirty |-> 1] \in LocalRow
        BY <2>3 DEF LocalRow, TypeOK
    <2>5. local' \in [Client -> [Id -> LocalRow \cup {NoRow}]]
        BY <2>1, <2>2, <2>4 DEF TypeOK
    <2>6. posts' \in [Client -> Nat]
        BY <1>1 DEF AddBottle, TypeOK
    <2>7. SeqIsHighest'
        BY <1>1, SeqFrame DEF AddBottle, serverVars
    <2> QED
        BY <1>1, <2>3, <2>5, <2>6, <2>7 DEF AddBottle, TypeOK, serverVars
<1>2. ASSUME NEW c \in Client, HandlePost(c) PROVE TypeInv'
    BY <1>2, SeqFrame DEF HandlePost, Sync, TypeOK, storeVars, serverVars, ghostVars
<1>3. ASSUME NEW c \in Client, Reload(c) PROVE TypeInv'
    <2>1. call' \in [Client -> Call]
        BY <1>3, CallUpdate, NoCallType DEF Reload
    <2>2. orphans' \in SUBSET (SUBSET PushRow)
        BY <1>3, AbandonedType DEF Reload
    <2> QED
        BY <1>3, <2>1, <2>2, SeqFrame DEF Reload, TypeOK, storeVars, Fault
<1>4. ASSUME NEW c \in Client, LoseConnection(c) PROVE TypeInv'
    <2>1. call' \in [Client -> Call]
        BY <1>4, CallUpdate DEF LoseConnection, Status
    <2>2. orphans' \in SUBSET (SUBSET PushRow)
        BY <1>4, AbandonedType DEF LoseConnection
    <2> QED
        BY <1>4, <2>1, <2>2, SeqFrame DEF LoseConnection, TypeOK, storeVars, Fault
<1>5. ASSUME NEW c \in Client, GoOffline(c) PROVE TypeInv'
    <2>1. call' \in [Client -> Call]
        <3>1. call[c].status \in Status
            BY CallUpdate DEF Call, Status
        <3>2. call' = [call EXCEPT ![c].status =
                          IF call[c].op = "none" THEN call[c].status ELSE "lost"]
            BY <1>5 DEF GoOffline
        <3> QED
            BY <3>1, <3>2, CallUpdate DEF Status
    <2>2. orphans' \in SUBSET (SUBSET PushRow)
        BY <1>5, AbandonedType DEF GoOffline
    <2> QED
        BY <1>5, <2>1, <2>2, SeqFrame DEF GoOffline, TypeOK, storeVars, Fault
<1>6. ASSUME NEW c \in Client, GoOnline(c) PROVE TypeInv'
    BY <1>6, SeqFrame DEF GoOnline, TypeOK, storeVars, serverVars, ghostVars
<1>7. ASSUME NEW c \in Client, GetDirty(c) PROVE TypeInv'
    <2> DEFINE body == {[id |-> i, at |-> local[c][i].at, unit |-> local[c][i].unit,
                         lot |-> local[c][i].lot] : i \in DirtyIds(c)}
    <2>1. body \in SUBSET PushRow
        <3>1. \A i \in DirtyIds(c) : i \in Id /\ local[c][i] \in LocalRow
            BY DEF DirtyIds, LocalIds, TypeOK
        <3> QED
            BY <3>1 DEF PushRow, LocalRow
    <2>2. CASE body = {}
        BY <1>7, <2>2, SeqFrame
           DEF GetDirty, TypeOK, storeVars, serverVars, ghostVars
    <2>3. CASE body # {}
        <3>1. /\ pc' = [pc EXCEPT ![c] = "push"]
              /\ call' = [call EXCEPT ![c] =
                     Sent(c, [NoCall EXCEPT !.op = "push", !.todo = body])]
              /\ UNCHANGED <<storeVars, posts, online, serverVars, ghostVars>>
            BY <1>7, <2>3 DEF GetDirty
        <3> HIDE DEF body
        <3>2. Sent(c, [NoCall EXCEPT !.op = "push", !.todo = body]) \in Call
            BY <2>1 DEF Sent, NoCall, Call
        <3>3. call' \in [Client -> Call]
            BY <3>1, <3>2, CallUpdate
        <3> QED
            BY <3>1, <3>3, SeqFrame DEF TypeOK, storeVars, serverVars, ghostVars
    <2> QED
        BY <2>2, <2>3
<1>8. ASSUME NEW c \in Client, ApplyAcks(c) PROVE TypeInv'
    <2>1. local' \in [Client -> [Id -> LocalRow \cup {NoRow}]]
        BY <1>8, AckedType DEF ApplyAcks, TypeOK
    <2>2. cursor' \in [Client -> Nat]
        BY <1>8, CallUpdate DEF ApplyAcks, TypeOK, Call
    <2>3. call' \in [Client -> Call]
        BY <1>8, CallUpdate, NoCallType DEF ApplyAcks, EndCall
    <2> QED
        BY <1>8, <2>1, <2>2, <2>3, SeqFrame
           DEF ApplyAcks, EndCall, TypeOK, serverVars, ghostVars
<1>9. ASSUME NEW c \in Client, ApplyAcksFails(c) PROVE TypeInv'
    <2>1. local' \in [Client -> [Id -> LocalRow \cup {NoRow}]]
        BY <1>9, AckedType DEF ApplyAcksFails, TypeOK
    <2>2. call' \in [Client -> Call]
        BY <1>9, CallUpdate, NoCallType DEF ApplyAcksFails, EndCall
    <2> QED
        BY <1>9, <2>1, <2>2, SeqFrame
           DEF ApplyAcksFails, EndCall, TypeOK, serverVars, Fault
<1>10. ASSUME NEW c \in Client, PushRefused(c) PROVE TypeInv'
    BY <1>10, CallUpdate, NoCallType, SeqFrame
       DEF PushRefused, EndCall, TypeOK, storeVars, serverVars, ghostVars
<1>11. ASSUME NEW c \in Client, SendPull(c) PROVE TypeInv'
    <2>1. Sent(c, [NoCall EXCEPT !.op = "pull", !.since = cursor[c]]) \in Call
        BY DEF Sent, NoCall, Call, TypeOK
    <2> QED
        BY <1>11, <2>1, CallUpdate, SeqFrame
           DEF SendPull, TypeOK, storeVars, serverVars, ghostVars
<1>12. ASSUME NEW c \in Client, ApplyPull(c) PROVE TypeInv'
    <2>1. local' \in [Client -> [Id -> LocalRow \cup {NoRow}]]
        <3>1. call[c].rows \in SUBSET PullRow
            BY CallUpdate DEF Call
        <3>2. local[c] \in [Id -> LocalRow \cup {NoRow}]
            BY DEF TypeOK
        <3>3. Merged(local[c], call[c].rows) \in [Id -> LocalRow \cup {NoRow}]
            BY <3>1, <3>2, MergedType
        <3>4. local' = [local EXCEPT ![c] = Merged(local[c], call[c].rows)]
            BY <1>12 DEF ApplyPull
        <3> QED
            BY <3>3, <3>4 DEF TypeOK
    <2>2. cursor' \in [Client -> Nat]
        BY <1>12, CallUpdate DEF ApplyPull, TypeOK, Call
    <2>3. call' \in [Client -> Call]
        BY <1>12, CallUpdate, NoCallType DEF ApplyPull, EndCall
    <2> QED
        BY <1>12, <2>1, <2>2, <2>3, SeqFrame
           DEF ApplyPull, EndCall, TypeOK, Lot, serverVars, ghostVars
<1>13. ASSUME NEW c \in Client, ApplyPullFails(c) PROVE TypeInv'
    <2>1. call[c].rows \in SUBSET PullRow /\ call[c].high \in Nat
        BY CallUpdate DEF Call
    <2>2. PICK done \in SUBSET call[c].rows :
              local' = [local EXCEPT ![c] = Merged(@, done)]
        BY <1>13 DEF ApplyPullFails
    <2>3. local' \in [Client -> [Id -> LocalRow \cup {NoRow}]]
        BY <2>1, <2>2, MergedType DEF TypeOK
    <2>4. cursor' \in [Client -> Nat]
        BY <1>13, <2>1 DEF ApplyPullFails, TypeOK
    <2>5. call' \in [Client -> Call]
        BY <1>13, CallUpdate, NoCallType DEF ApplyPullFails, EndCall
    <2> QED
        BY <1>13, <2>3, <2>4, <2>5, SeqFrame
           DEF ApplyPullFails, EndCall, TypeOK, serverVars, Fault
<1>14. ASSUME NEW c \in Client, PullRefused(c) PROVE TypeInv'
    BY <1>14, CallUpdate, NoCallType, SeqFrame
       DEF PullRefused, EndCall, TypeOK, storeVars, serverVars, ghostVars
<1>15. ASSUME NEW c \in Client, FetchRejects(c) PROVE TypeInv'
    BY <1>15, CallUpdate, NoCallType, SeqFrame
       DEF FetchRejects, EndCall, TypeOK, storeVars, serverVars, ghostVars
<1>16. ASSUME NEW c \in Client, RefreshCount(c) PROVE TypeInv'
    BY <1>16, SeqFrame DEF RefreshCount, TypeOK, storeVars, serverVars, ghostVars
<1>17. ASSUME NEW c \in Client, RefreshFails(c) PROVE TypeInv'
    BY <1>17, SeqFrame DEF RefreshFails, TypeOK, storeVars, serverVars, Fault
<1>28. ASSUME NEW c \in Client, ReadFails(c) PROVE TypeInv'
    BY <1>28, SeqFrame DEF ReadFails, TypeOK, storeVars, serverVars, Fault
<1>18. ASSUME NEW c \in Client, PushOneRow(c) PROVE TypeInv'
    <2>1. PICK r \in call[c].todo :
              /\ Upsert(r)
              /\ call' = [call EXCEPT ![c].todo = @ \ {r}, ![c].acks = @ \cup Ack(r)]
        BY <1>18 DEF PushOneRow
    <2>2. r \in PushRow
        BY CallUpdate DEF Call
    <2>3. [call[c] EXCEPT !.todo = @ \ {r}, !.acks = @ \cup {r.id}] \in Call
        <3>1. call[c] \in Call
            BY CallUpdate
        <3> QED
            BY <2>2, <3>1 DEF Call, PushRow
    <2>4. call' \in [Client -> Call]
        BY <2>1, <2>3 DEF TypeOK, Ack
    <2> QED
        BY <1>18, <2>1, <2>2, <2>4, UpsertType
           DEF PushOneRow, TypeOK, storeVars, ghostVars
<1>19. ASSUME NEW c \in Client, PushRowRejected(c) PROVE TypeInv'
    <2>1. call' \in [Client -> Call]
        BY <1>19, CallUpdate DEF PushRowRejected, Status
    <2> QED
        BY <1>19, <2>1, SeqFrame
           DEF PushRowRejected, TypeOK, storeVars, serverVars, ghostVars
<1>20. ASSUME NEW c \in Client, PushReplies(c) PROVE TypeInv'
    <2>1. [call[c] EXCEPT !.high = BottleCursor, !.status = "ok"] \in Call
        <3>1. BottleCursor \in Nat /\ call[c] \in Call
            BY CallUpdate, CursorIsSeq DEF TypeOK
        <3> QED
            BY <3>1 DEF Call
    <2>2. call' \in [Client -> Call]
        BY <1>20, <2>1 DEF PushReplies, TypeOK
    <2> QED
        BY <1>20, <2>2, SeqFrame
           DEF PushReplies, TypeOK, storeVars, serverVars, ghostVars
<1>21. ASSUME NEW c \in Client, PullReadsRows(c) PROVE TypeInv'
    <2> DEFINE rows == {[id |-> i, at |-> srv[i].at, unit |-> srv[i].unit,
                         seq |-> srv[i].seq] :
                            i \in {j \in Stored : srv[j].seq > call[c].since}}
    <2>1. \A i \in Stored : i \in Id /\ srv[i] \in ServerRow
        BY DEF Stored, TypeOK
    <2>2. rows \in SUBSET PullRow
        BY <2>1 DEF PullRow, ServerRow
    <2>3. call' = [call EXCEPT ![c].rows = rows, ![c].status = "read"]
        BY <1>21 DEF PullReadsRows
    <2> HIDE DEF rows
    <2>4. [call[c] EXCEPT !.rows = rows, !.status = "read"] \in Call
        <3>1. call[c] \in Call
            BY CallUpdate
        <3> QED
            BY <2>2, <3>1 DEF Call
    <2>5. call' \in [Client -> Call]
        BY <2>3, <2>4 DEF TypeOK
    <2> QED
        BY <1>21, <2>5, SeqFrame
           DEF PullReadsRows, TypeOK, storeVars, serverVars, ghostVars
<1>22. ASSUME NEW c \in Client, PullReplies(c) PROVE TypeInv'
    <2>1. [call[c] EXCEPT !.high = BottleCursor, !.status = "ok"] \in Call
        <3>1. BottleCursor \in Nat /\ call[c] \in Call
            BY CallUpdate, CursorIsSeq DEF TypeOK
        <3> QED
            BY <3>1 DEF Call
    <2>2. call' \in [Client -> Call]
        BY <1>22, <2>1 DEF PullReplies, PullCursor, TypeOK
    <2> QED
        BY <1>22, <2>2, SeqFrame
           DEF PullReplies, TypeOK, storeVars, serverVars, ghostVars
<1>23. ASSUME NEW c \in Client, HandlerFails(c) PROVE TypeInv'
    <2>1. call' \in [Client -> Call]
        BY <1>23, CallUpdate DEF HandlerFails, Status
    <2> QED
        BY <1>23, <2>1, SeqFrame
           DEF HandlerFails, TypeOK, storeVars, serverVars, Fault
<1>24. ASSUME NEW b \in orphans, OrphanRow(b) PROVE TypeInv'
    <2>1. PICK r \in b : Upsert(r) /\ orphans' = (orphans \ {b}) \cup ({b \ {r}} \ {{}})
        BY <1>24 DEF OrphanRow
    <2>2. b \in SUBSET PushRow
        BY DEF TypeOK
    <2>3. orphans' \in SUBSET (SUBSET PushRow)
        BY <2>1, <2>2 DEF TypeOK
    <2>4. /\ srv' \in [Id -> ServerRow \cup {NoRow}]
          /\ seq' \in Nat
          /\ SeqIsHighest'
        BY <2>1, <2>2, UpsertType
    <2> QED
        BY <1>24, <2>3, <2>4 DEF OrphanRow, TypeOK, storeVars, pageVars, ghostVars
<1>25. ASSUME NEW b \in orphans, OrphanEnds(b) PROVE TypeInv'
    BY <1>25, SeqFrame DEF OrphanEnds, TypeOK, storeVars, pageVars, ghostVars
<1>26. CASE ServerAddBottle
    <2> DEFINE id == NextId(SERVER_SOURCE, tick)
    <2>1. id \in Id /\ Cardinality(minted) < MaxBottles /\ tick' \in Nat
        BY <1>26 DEF ServerAddBottle, TypeOK
    <2>2. CASE srv[id] # NoRow
        BY <1>26, <2>1, <2>2, SeqFrame
           DEF ServerAddBottle, TypeOK, storeVars, pageVars
    <2>3. CASE srv[id] = NoRow
        <3>1. PICK now \in Time :
                  /\ Write(id, now, NewUnit)
                  /\ minted' = minted \cup {[id |-> id, at |-> now, unit |-> NewUnit]}
            BY <1>26, <2>3 DEF ServerAddBottle
        <3> HIDE DEF id
        <3>2. NewUnit \in Unit /\ minted' \in SUBSET Version /\ IsFiniteSet(minted')
            BY <2>1, <3>1, NewVersion
        <3>3. /\ srv' \in [Id -> ServerRow \cup {NoRow}]
              /\ seq' \in Nat
              /\ SeqIsHighest'
            BY <2>1, <3>1, <3>2, WriteType
        <3> QED
            BY <1>26, <2>1, <3>2, <3>3
               DEF ServerAddBottle, TypeOK, storeVars, pageVars
    <2> QED
        BY <2>2, <2>3
<1>27. CASE ServerRestart
    <2>1. ResumeTick \in Nat
        <3>1. Stored \in SUBSET Nat /\ \A i \in Stored : i <= (MaxTick + 1) * SourceSpan
            BY IdIsNat DEF Stored
        <3>2. HighestTick(Stored) \in Nat
            BY <3>1, IdIsNat, HighestTickBounds
        <3> QED
            BY <3>2, SyncAssumption DEF ResumeTick
    <2>2. call' \in [Client -> Call]
        <3>1. \A c \in Client : [call[c] EXCEPT !.status = "lost"] \in Call
            BY CallUpdate DEF Status
        <3> QED
            BY <1>27, <3>1 DEF ServerRestart, TypeOK
    <2> QED
        BY <1>27, <2>1, <2>2, SeqFrame DEF ServerRestart, TypeOK, storeVars, Fault
<1> QED
    BY <1>0, <1>1, <1>2, <1>3, <1>4, <1>5, <1>6, <1>7, <1>8, <1>9, <1>10, <1>11, <1>12,
       <1>13, <1>14, <1>15, <1>16, <1>17, <1>18, <1>19, <1>20, <1>21, <1>22, <1>23,
       <1>24, <1>25, <1>26, <1>27, <1>28 DEF Next, User, Page, Handler, Faulty

LEMMA TypeInit == Init => TypeInv
<1>1. SUFFICES ASSUME Init PROVE TypeInv
    OBVIOUS
<1>2. Stored = {} /\ seq = 0
    BY <1>1 DEF Init, Stored
<1>3. minted \in SUBSET Version /\ IsFiniteSet(minted)
    BY <1>1, FS_EmptySet DEF Init
<1> QED
    BY <1>1, <1>2, <1>3, NoCallType, SyncAssumption
       DEF Init, TypeInv, TypeOK, SeqIsHighest, Lot

LEMMA TypeInvariance == Spec => []TypeInv
<1>1. TypeInv /\ [Next]_vars => TypeInv'
    BY TypeStep
<1> QED
    BY <1>1, TypeInit, PTL DEF Spec

\* Every variable keeps its type, for any number of browsers: in particular
\* the cursors and ticks the queries compute are always defined.
THEOREM TypeCorrect == Spec => []TypeOK
<1>1. TypeInv => TypeOK
    BY DEF TypeInv
<1> QED
    BY <1>1, TypeInvariance, PTL

-----------------------------------------------------------------------------
(* The server's table moves forward. *)

\* An upsert changes at most the row of its id, to a newer version with a new
\* stamp: the tie disjunct of its WHERE compares an id with itself.
LEMMA UpsertForward ==
    ASSUME TypeInv, NEW r \in PushRow, Upsert(r), NEW i \in Id, srv'[i] # srv[i]
    PROVE  /\ i = r.id
           /\ srv'[i] = [at |-> r.at, unit |-> r.unit, seq |-> seq + 1]
           /\ srv'[i] # NoRow
           /\ srv[i] # NoRow => srv'[i].at > srv[i].at /\ srv'[i].seq > srv[i].seq
<1>1. r.id \in Id /\ r.id \in Nat /\ r.at \in Time /\ r.unit \in Unit
    BY IdIsNat DEF PushRow
<1>2. Writes(r) /\ srv' = [srv EXCEPT ![r.id] = [at |-> r.at, unit |-> r.unit, seq |-> seq + 1]]
    BY DEF Upsert, Write
<1>3. /\ i = r.id
      /\ srv'[i] = [at |-> r.at, unit |-> r.unit, seq |-> seq + 1]
    BY <1>1, <1>2 DEF TypeInv, TypeOK
<1>4. srv'[i] \in ServerRow
    BY <1>1, <1>3 DEF ServerRow, TypeInv, TypeOK
<1>5. srv[i] # NoRow => srv'[i].at > srv[i].at
    BY <1>1, <1>2, <1>3 DEF Writes, Wins
<1>6. srv[i] # NoRow => srv'[i].seq > srv[i].seq
    BY <1>1, <1>3 DEF TypeInv, TypeOK, SeqIsHighest, Stored, ServerRow
<1> QED
    BY <1>3, <1>4, <1>5, <1>6, NoRowIsNoRecord

\* The server's steps that write the bottle table.
LEMMA Writers ==
    ASSUME TypeInv, [Next]_vars, UNCHANGED <<srv, seq>> => FALSE
    PROVE  \/ \E c \in Client : \E r \in call[c].todo :
                 PushOneRow(c) /\ r \in PushRow /\ Upsert(r)
           \/ \E b \in orphans : \E r \in b :
                 OrphanRow(b) /\ r \in PushRow /\ Upsert(r)
           \/ ServerAddBottle
<1>1. UNCHANGED vars => UNCHANGED <<srv, seq>>
    BY DEF vars, serverVars
<1>2. ASSUME NEW c \in Client, User(c) \/ Page(c) \/ Faulty(c)
      PROVE  UNCHANGED <<srv, seq>>
    BY <1>2 DEF User, Page, Faulty, AddBottle, HandlePost, Reload, LoseConnection,
       GoOffline, GoOnline, GetDirty, ApplyAcks, ApplyAcksFails, PushRefused, SendPull,
       ApplyPull, ApplyPullFails, PullRefused, FetchRejects, RefreshCount, RefreshFails, ReadFails,
       HandlerFails, serverVars
<1>3. ASSUME NEW c \in Client, PushRowRejected(c) \/ PushReplies(c) \/ PullReadsRows(c) \/ PullReplies(c)
      PROVE  UNCHANGED <<srv, seq>>
    BY <1>3 DEF PushRowRejected, PushReplies, PullReadsRows, PullReplies, serverVars
<1>4. ASSUME NEW c \in Client, PushOneRow(c)
      PROVE  \E r \in call[c].todo : r \in PushRow /\ Upsert(r)
    BY <1>4, CallUpdate DEF PushOneRow, Call, TypeInv
<1>5. ASSUME NEW b \in orphans, OrphanRow(b)
      PROVE  \E r \in b : r \in PushRow /\ Upsert(r)
    BY <1>5 DEF OrphanRow, TypeInv, TypeOK
<1>6. ASSUME NEW b \in orphans, OrphanEnds(b)
      PROVE  UNCHANGED <<srv, seq>>
    BY <1>6 DEF OrphanEnds
<1>7. ServerRestart => UNCHANGED <<srv, seq>>
    BY DEF ServerRestart
<1> QED
    BY <1>1, <1>2, <1>3, <1>4, <1>5, <1>6, <1>7 DEF Next, Handler

\* StoredRowsMoveForward holds of every step.
LEMMA StoredForwardStep ==
    ASSUME TypeInv, [Next]_vars, NEW i \in Id, srv'[i] # srv[i]
    PROVE  /\ srv'[i] # NoRow
           /\ srv[i] # NoRow => srv'[i].at > srv[i].at /\ srv'[i].seq > srv[i].seq
<1>1. CASE \E r \in PushRow : Upsert(r)
    BY <1>1, UpsertForward
<1>2. CASE ServerAddBottle
    <2> DEFINE id == NextId(SERVER_SOURCE, tick)
    <2>1. PICK now \in Time : Write(id, now, NewUnit)
        BY <1>2 DEF ServerAddBottle
    <2>2. id \in Id /\ srv[id] = NoRow /\ Cardinality(minted) < MaxBottles
        BY <1>2 DEF ServerAddBottle
    <2> HIDE DEF id
    <2>3. NewUnit \in Unit
        BY <2>2, NewVersion DEF TypeInv
    <2>4. i = id /\ srv'[i] = [at |-> now, unit |-> NewUnit, seq |-> seq + 1]
        BY <2>1, <2>2 DEF Write, TypeInv, TypeOK
    <2>5. srv'[i] \in ServerRow
        BY <2>3, <2>4 DEF ServerRow, TypeInv, TypeOK
    <2> QED
        BY <2>2, <2>4, <2>5, NoRowIsNoRecord
<1> QED
    BY <1>1, <1>2, Writers

\* The server's table only moves forward, whatever the pushes, their
\* repetitions and the pushes nobody waits for do to each other: push and
\* add_bottle never replace a row by one that is not newer, and what they
\* write has a new stamp.
THEOREM ServerMovesForward == Spec => StoredRowsMoveForward
<1>1. TypeInv /\ [Next]_vars =>
          [\A i \in Id : srv'[i] # srv[i] =>
              /\ srv'[i] # NoRow
              /\ srv[i] # NoRow =>
                     srv'[i].at > srv[i].at /\ srv'[i].seq > srv[i].seq]_vars
    BY StoredForwardStep
<1> QED
    BY <1>1, TypeInvariance, PTL DEF Spec, StoredRowsMoveForward

-----------------------------------------------------------------------------
(* What a browser was told, and what its requests carry, is backed by the    *)
(* server's table as far as times go.  That the bottles are the same is      *)
(* added below, from where rows come from.                                   *)

HoldsTime(i, at) == srv[i] # NoRow /\ srv[i].at >= at

AcksByTime(c) ==
    \A i \in call[c].acks : local[c][i] # NoRow /\ HoldsTime(i, local[c][i].at)

RowsByTime(c) ==
    /\ \A r \in call[c].rows : HoldsTime(r.id, r.at)
    /\ \A p, q \in call[c].rows : p.id = q.id => p = q

CleanRows(c) ==
    \A i \in LocalIds(c) : local[c][i].dirty = 0 => HoldsTime(i, local[c][i].at)

ClientInv(c) == CleanRows(c) /\ BodyIsLocal(c) /\ AcksByTime(c) /\ RowsByTime(c)

SyncInv == TypeInv /\ \A c \in Client : ClientInv(c)

\* The rows of a response are well typed and name each bottle once.
LEMMA ResponseRows ==
    ASSUME SyncInv, NEW c \in Client
    PROVE  /\ local[c] \in [Id -> LocalRow \cup {NoRow}]
           /\ call[c].rows \in SUBSET PullRow
           /\ \A p, q \in call[c].rows : p.id = q.id => p = q
<1>1. TypeOK /\ ClientInv(c)
    BY DEF SyncInv, TypeInv
<1>2. call[c].rows \in SUBSET PullRow
    BY <1>1, CallUpdate DEF Call
<1>3. local[c] \in [Id -> LocalRow \cup {NoRow}]
    BY <1>1 DEF TypeOK
<1>4. \A p, q \in call[c].rows : p.id = q.id => p = q
    BY <1>1 DEF ClientInv, RowsByTime
<1> QED
    BY <1>2, <1>3, <1>4

\* What the server holds, it keeps, or something newer.
LEMMA HoldsForever ==
    ASSUME TypeInv, [Next]_vars, TypeInv', NEW i \in Id, NEW at \in Time, HoldsTime(i, at)
    PROVE  srv'[i] # NoRow /\ srv'[i].at >= at
<1>1. CASE srv'[i] = srv[i]
    BY <1>1 DEF HoldsTime
<1>2. CASE srv'[i] # srv[i]
    <2>1. srv'[i] # NoRow /\ srv'[i].at > srv[i].at
        BY <1>2, StoredForwardStep DEF HoldsTime
    <2>2. srv[i] \in ServerRow /\ srv'[i] \in ServerRow
        BY <2>1 DEF HoldsTime, TypeInv, TypeOK
    <2> QED
        BY <2>1, <2>2 DEF HoldsTime, ServerRow, Time
<1> QED
    BY <1>1, <1>2

\* What a step leaves of c's table and request when it is not about them.
Unaffected(c) ==
    /\ local'[c] = local[c]
    /\ call'[c].todo \subseteq call[c].todo
    /\ call'[c].acks \subseteq call[c].acks
    /\ call'[c].rows \subseteq call[c].rows

LEMMA UnaffectedKeepsInv ==
    ASSUME TypeInv, [Next]_vars, TypeInv',
           NEW c \in Client, ClientInv(c), Unaffected(c)
    PROVE  ClientInv(c)'
<1>1. /\ local[c] \in [Id -> LocalRow \cup {NoRow}]
      /\ call[c].todo \in SUBSET PushRow
      /\ call[c].acks \in SUBSET Id
      /\ call[c].rows \in SUBSET PullRow
    BY DEF TypeInv, TypeOK, Call
<1>2. \A i \in LocalIds(c) : i \in Id /\ local[c][i].at \in Time
    BY <1>1 DEF LocalIds, LocalRow
<1>3. CleanRows(c)'
    BY <1>2, HoldsForever DEF ClientInv, CleanRows, Unaffected, LocalIds, HoldsTime
<1>4. BodyIsLocal(c)'
    BY DEF ClientInv, BodyIsLocal, Unaffected
<1>5. AcksByTime(c)'
    <2>1. ASSUME NEW i \in call'[c].acks
          PROVE  local'[c][i] # NoRow /\ srv'[i] # NoRow /\ srv'[i].at >= local'[c][i].at
        <3>1. i \in Id /\ i \in LocalIds(c) /\ HoldsTime(i, local[c][i].at)
            BY <1>1 DEF ClientInv, AcksByTime, Unaffected, LocalIds
        <3> QED
            BY <1>2, <3>1, HoldsForever DEF Unaffected, LocalIds
    <2> QED
        BY <2>1 DEF AcksByTime, HoldsTime
<1>6. RowsByTime(c)'
    <2>1. ASSUME NEW r \in call'[c].rows PROVE srv'[r.id] # NoRow /\ srv'[r.id].at >= r.at
        BY <1>1, HoldsForever DEF ClientInv, RowsByTime, Unaffected, PullRow
    <2> QED
        BY <2>1 DEF ClientInv, RowsByTime, Unaffected, HoldsTime
<1> QED
    BY <1>3, <1>4, <1>5, <1>6 DEF ClientInv

\* The steps that touch c's table, or add to what c's request carries.
Touches(c) ==
    \/ AddBottle(c) \/ GetDirty(c)
    \/ ApplyAcks(c) \/ ApplyAcksFails(c)
    \/ ApplyPull(c) \/ ApplyPullFails(c)
    \/ PushOneRow(c) \/ PullReadsRows(c)

LEMMA OthersUnaffected ==
    ASSUME TypeInv, [Next]_vars, NEW c \in Client
    PROVE  Unaffected(c) \/ Touches(c)
<1> USE DEF TypeInv, TypeOK, Unaffected
<1>1. CASE UNCHANGED vars
    BY <1>1 DEF vars, storeVars, pageVars
<1>2. ASSUME NEW d \in Client, User(d) \/ Faulty(d) PROVE Unaffected(c) \/ Touches(c)
    <2>1. CASE AddBottle(d)
        BY <2>1 DEF AddBottle, Touches
    <2>2. CASE Reload(d)
        BY <2>2 DEF Reload, NoCall, storeVars
    <2>3. CASE GoOnline(d)
        BY <2>3 DEF GoOnline, storeVars
    <2>4. CASE LoseConnection(d)
        BY <2>4 DEF LoseConnection, storeVars
    <2>5. CASE GoOffline(d)
        BY <2>5 DEF GoOffline, storeVars
    <2>6. CASE ApplyAcksFails(d)
        <3>1. CASE d = c
            BY <2>6, <3>1 DEF Touches
        <3>2. CASE d # c
            BY <2>6, <3>2 DEF ApplyAcksFails, EndCall
        <3> QED
            BY <3>1, <3>2
    <2>7. CASE ApplyPullFails(d)
        <3>1. CASE d = c
            BY <2>7, <3>1 DEF Touches
        <3>2. CASE d # c
            BY <2>7, <3>2 DEF ApplyPullFails, EndCall
        <3> QED
            BY <3>1, <3>2
    <2>8. CASE RefreshFails(d) \/ ReadFails(d)
        BY <2>8 DEF RefreshFails, ReadFails, storeVars
    <2>9. CASE HandlerFails(d)
        BY <2>9 DEF HandlerFails, storeVars
    <2> QED
        BY <1>2, <2>1, <2>2, <2>3, <2>4, <2>5, <2>6, <2>7, <2>8, <2>9 DEF User, Faulty
<1>3. ASSUME NEW d \in Client, Page(d) PROVE Unaffected(c) \/ Touches(c)
    <2>1. CASE HandlePost(d)
        BY <2>1 DEF HandlePost, storeVars
    <2>2. CASE GetDirty(d)
        <3>1. CASE d = c
            BY <2>2, <3>1 DEF Touches
        <3>2. CASE d # c
            BY <2>2, <3>2 DEF GetDirty, storeVars
        <3> QED
            BY <3>1, <3>2
    <2>3. CASE ApplyAcks(d)
        BY <2>3 DEF ApplyAcks, EndCall, Touches
    <2>4. CASE PushRefused(d) \/ PullRefused(d) \/ FetchRejects(d)
        BY <2>4 DEF PushRefused, PullRefused, FetchRejects, EndCall, NoCall, storeVars
    <2>5. CASE SendPull(d)
        <3>1. local' = local
              /\ call' = [call EXCEPT ![d] =
                     Sent(d, [NoCall EXCEPT !.op = "pull", !.since = cursor[d]])]
            BY <2>5 DEF SendPull, storeVars
        <3>2. /\ Sent(d, [NoCall EXCEPT !.op = "pull", !.since = cursor[d]]).todo = {}
              /\ Sent(d, [NoCall EXCEPT !.op = "pull", !.since = cursor[d]]).acks = {}
              /\ Sent(d, [NoCall EXCEPT !.op = "pull", !.since = cursor[d]]).rows = {}
            BY DEF Sent, NoCall
        <3> QED
            BY <3>1, <3>2
    <2>6. CASE ApplyPull(d)
        BY <2>6 DEF ApplyPull, EndCall, Touches
    <2>7. CASE RefreshCount(d)
        BY <2>7 DEF RefreshCount, storeVars
    <2> QED
        BY <1>3, <2>1, <2>2, <2>3, <2>4, <2>5, <2>6, <2>7 DEF Page
<1>4. ASSUME NEW d \in Client, Handler(d) PROVE Unaffected(c) \/ Touches(c)
    <2>1. CASE PushOneRow(d)
        BY <2>1 DEF PushOneRow, Touches, storeVars
    <2>2. CASE PushRowRejected(d)
        BY <2>2 DEF PushRowRejected, storeVars
    <2>3. CASE PushReplies(d)
        BY <2>3 DEF PushReplies, storeVars
    <2>4. CASE PullReadsRows(d)
        BY <2>4 DEF PullReadsRows, Touches, storeVars
    <2>5. CASE PullReplies(d)
        BY <2>5 DEF PullReplies, storeVars
    <2> QED
        BY <1>4, <2>1, <2>2, <2>3, <2>4, <2>5 DEF Handler
<1>5. ASSUME NEW b \in orphans, OrphanRow(b) \/ OrphanEnds(b) PROVE Unaffected(c)
    BY <1>5 DEF OrphanRow, OrphanEnds, storeVars, pageVars
<1>6. ServerAddBottle => Unaffected(c)
    BY DEF ServerAddBottle, storeVars, pageVars
<1>7. ServerRestart => Unaffected(c)
    BY DEF ServerRestart, storeVars
<1> QED
    BY <1>1, <1>2, <1>3, <1>4, <1>5, <1>6, <1>7 DEF Next

\* One lemma per step that touches the table or the request of its browser.
LEMMA AddedIdIsFresh ==
    ASSUME NEW c \in Client, AddBottle(c)
    PROVE  LET id == NextId(CLIENT_SOURCE, HighestTick(LocalIds(c)))
           IN  id \in Id /\ id \notin LocalIds(c)
<1>1. LocalIds(c) \in SUBSET Nat
      /\ \A i \in LocalIds(c) : i <= (MaxTick + 1) * SourceSpan
    BY IdIsNat DEF LocalIds
<1>2. CLIENT_SOURCE \in Source
    BY DEF CLIENT_SOURCE, Source, SourceSpan
<1> QED
    BY <1>1, <1>2, IdIsNat, ResumedIdIsFresh DEF AddBottle

LEMMA AddBottleKeepsInv ==
    ASSUME SyncInv, TypeInv', [Next]_vars, NEW c \in Client, AddBottle(c)
    PROVE  ClientInv(c)'
<1> DEFINE id == NextId(CLIENT_SOURCE, HighestTick(LocalIds(c)))
<1>1. id \in Id /\ id \notin LocalIds(c)
    BY AddedIdIsFresh
<1>2. PICK now \in Time : local' = [local EXCEPT ![c][id] =
          [at |-> now, unit |-> NewUnit, lot |-> defaultLot[c], dirty |-> 1]]
    BY DEF AddBottle
<1>3. call' = call /\ UNCHANGED <<srv, seq>>
    BY DEF AddBottle, serverVars
<1> HIDE DEF id
<1>4. /\ \A i \in Id \ {id} : local'[c][i] = local[c][i]
      /\ local'[c][id].dirty = 1
    BY <1>1, <1>2 DEF SyncInv, TypeInv, TypeOK
<1>5. ClientInv(c) /\ call[c] \in Call /\ local[c][id] = NoRow
    BY <1>1, CallUpdate DEF SyncInv, TypeInv, LocalIds
<1>6. CleanRows(c)'
    <2>1. ASSUME NEW i \in LocalIds(c)', local'[c][i].dirty = 0
          PROVE  srv'[i] # NoRow /\ srv'[i].at >= local'[c][i].at
        <3>1. i # id /\ i \in Id
            BY <1>4, <2>1 DEF LocalIds
        <3> QED
            BY <1>3, <1>4, <1>5, <2>1, <3>1 DEF ClientInv, CleanRows, LocalIds, HoldsTime
    <2> QED
        BY <2>1 DEF CleanRows, HoldsTime
<1>7. BodyIsLocal(c)'
    <2>1. ASSUME NEW r \in call[c].todo
          PROVE  /\ local'[c][r.id] # NoRow
                 /\ local'[c][r.id].at = r.at /\ local'[c][r.id].unit = r.unit
        <3>1. r.id \in Id /\ r.id # id
            BY <1>5 DEF ClientInv, BodyIsLocal, Call, PushRow
        <3> QED
            BY <1>4, <1>5, <3>1 DEF ClientInv, BodyIsLocal
    <2> QED
        BY <1>3, <2>1 DEF BodyIsLocal
<1>8. AcksByTime(c)'
    <2>1. ASSUME NEW i \in call[c].acks
          PROVE  local'[c][i] # NoRow /\ srv'[i] # NoRow /\ srv'[i].at >= local'[c][i].at
        <3>1. i \in Id /\ i # id
            BY <1>5 DEF ClientInv, AcksByTime, Call
        <3> QED
            BY <1>3, <1>4, <1>5, <3>1 DEF ClientInv, AcksByTime, HoldsTime
    <2> QED
        BY <1>3, <2>1 DEF AcksByTime, HoldsTime
<1>9. RowsByTime(c)'
    BY <1>3, <1>5 DEF ClientInv, RowsByTime, HoldsTime
<1> QED
    BY <1>6, <1>7, <1>8, <1>9 DEF ClientInv

LEMMA GetDirtyKeepsInv ==
    ASSUME SyncInv, TypeInv', [Next]_vars, NEW c \in Client, GetDirty(c)
    PROVE  ClientInv(c)'
<1> DEFINE body == {[id |-> i, at |-> local[c][i].at, unit |-> local[c][i].unit,
                     lot |-> local[c][i].lot] : i \in DirtyIds(c)}
<1>1. local' = local /\ UNCHANGED <<srv, seq>> /\ ClientInv(c)
    BY DEF GetDirty, storeVars, serverVars, SyncInv
<1>2. CASE body = {}
    <2>1. Unaffected(c)
        BY <1>1, <1>2 DEF GetDirty, Unaffected
    <2> QED
        BY <1>1, <2>1, UnaffectedKeepsInv DEF SyncInv
<1>3. CASE body # {}
    <2>1. call' = [call EXCEPT ![c] = Sent(c, [NoCall EXCEPT !.op = "push", !.todo = body])]
        BY <1>3 DEF GetDirty
    <2>2. \A r \in body : /\ local[c][r.id] # NoRow
                           /\ local[c][r.id].at = r.at /\ local[c][r.id].unit = r.unit
        BY DEF DirtyIds, LocalIds
    <2> HIDE DEF body
    <2>3. call'[c].todo = body /\ call'[c].acks = {} /\ call'[c].rows = {}
        BY <2>1 DEF Sent, NoCall, SyncInv, TypeInv, TypeOK
    <2> QED
        BY <1>1, <2>2, <2>3
           DEF ClientInv, CleanRows, LocalIds, BodyIsLocal, AcksByTime, RowsByTime, HoldsTime
<1> QED
    BY <1>2, <1>3

\* Both ways apply_acks can go: some of the acks are applied.
LEMMA AckingKeepsInv ==
    ASSUME SyncInv, TypeInv', [Next]_vars, NEW c \in Client,
           ApplyAcks(c) \/ ApplyAcksFails(c)
    PROVE  ClientInv(c)'
<1>1. PICK done \in SUBSET call[c].acks : local' = [local EXCEPT ![c] = Acked(@, done)]
    BY DEF ApplyAcks, ApplyAcksFails
<1>2. call'[c] = NoCall /\ UNCHANGED <<srv, seq>>
    BY DEF ApplyAcks, ApplyAcksFails, EndCall, serverVars, SyncInv, TypeInv, TypeOK
<1>3. ClientInv(c) /\ local[c] \in [Id -> LocalRow \cup {NoRow}]
    BY DEF SyncInv, TypeInv, TypeOK
<1>4. local'[c] = Acked(local[c], done)
    BY <1>1 DEF SyncInv, TypeInv, TypeOK
<1>5. ASSUME NEW i \in LocalIds(c)', local'[c][i].dirty = 0
      PROVE  srv'[i] # NoRow /\ srv'[i].at >= local'[c][i].at
    <2>1. i \in Id /\ local'[c][i] # NoRow
        BY <1>5 DEF LocalIds
    <2>2. local[c][i] # NoRow /\ local'[c][i].at = local[c][i].at
          /\ (i \in done \/ local[c][i].dirty = 0)
        BY <1>3, <1>4, <1>5, <2>1, AckedType
    <2>3. HoldsTime(i, local[c][i].at)
        BY <1>1, <1>3, <2>1, <2>2 DEF ClientInv, CleanRows, AcksByTime, LocalIds
    <2> QED
        BY <1>2, <2>2, <2>3 DEF HoldsTime
<1> QED
    BY <1>2, <1>5
       DEF ClientInv, CleanRows, BodyIsLocal, AcksByTime, RowsByTime, NoCall, HoldsTime

\* Both ways apply_pull can go: some of the rows are merged.
LEMMA MergingKeepsInv ==
    ASSUME SyncInv, TypeInv', [Next]_vars, NEW c \in Client,
           ApplyPull(c) \/ ApplyPullFails(c)
    PROVE  ClientInv(c)'
<1>1. PICK done \in SUBSET call[c].rows : local' = [local EXCEPT ![c] = Merged(@, done)]
    BY DEF ApplyPull, ApplyPullFails
<1>2. call'[c] = NoCall /\ UNCHANGED <<srv, seq>>
    BY DEF ApplyPull, ApplyPullFails, EndCall, serverVars, SyncInv, TypeInv, TypeOK
<1>3. /\ ClientInv(c)
      /\ local[c] \in [Id -> LocalRow \cup {NoRow}]
      /\ done \in SUBSET PullRow
      /\ \A p, q \in done : p.id = q.id => p = q
    BY <1>1, ResponseRows DEF SyncInv
<1>4. local'[c] = Merged(local[c], done)
    BY <1>1 DEF SyncInv, TypeInv, TypeOK
<1>5. ASSUME NEW i \in LocalIds(c)', local'[c][i].dirty = 0
      PROVE  srv'[i] # NoRow /\ srv'[i].at >= local'[c][i].at
    <2>1. i \in Id /\ local'[c][i] # NoRow
        BY <1>5 DEF LocalIds
    <2>2. CASE local'[c][i] = local[c][i]
        BY <1>2, <1>3, <1>5, <2>1, <2>2 DEF ClientInv, CleanRows, LocalIds, HoldsTime
    <2>3. CASE \E r \in done : r.id = i /\ local'[c][i] =
                  [at |-> r.at, unit |-> r.unit, lot |-> DemoLot, dirty |-> 0]
        BY <1>1, <1>2, <1>3, <2>3 DEF ClientInv, RowsByTime, HoldsTime
    <2>4. \/ local'[c][i] = local[c][i]
          \/ \E r \in done : r.id = i /\ local'[c][i] =
                [at |-> r.at, unit |-> r.unit, lot |-> DemoLot, dirty |-> 0]
        <3>1. \/ Merged(local[c], done)[i] = local[c][i]
              \/ \E r \in done :
                    /\ r.id = i
                    /\ Merged(local[c], done)[i] =
                          [at |-> r.at, unit |-> r.unit, lot |-> DemoLot, dirty |-> 0]
            <4> HIDE <1>4
            <4> QED
                BY <1>3, <2>1, MergedRows
        <3> QED
            BY <1>4, <3>1, Zenon
    <2> QED
        BY <2>2, <2>3, <2>4
<1> QED
    BY <1>2, <1>5
       DEF ClientInv, CleanRows, BodyIsLocal, AcksByTime, RowsByTime, NoCall, HoldsTime

\* An upsert leaves the row it was given, or a newer one.
LEMMA UpsertHolds ==
    ASSUME TypeInv, NEW r \in PushRow, Upsert(r)
    PROVE  srv'[r.id] # NoRow /\ srv'[r.id].at >= r.at
<1>1. r.id \in Id /\ r.id \in Nat /\ r.at \in Nat
    <2>1. r.id \in Id /\ r.at \in Time
        BY DEF PushRow
    <2>2. r.id \in Nat
        BY <2>1, IdIsNat
    <2>3. r.at \in Nat
        BY <2>1, SyncAssumption DEF Time
    <2> QED
        BY <2>1, <2>2, <2>3
<1>2. CASE Writes(r)
    <2>1. srv'[r.id] = [at |-> r.at, unit |-> r.unit, seq |-> seq + 1]
        BY <1>1, <1>2 DEF Upsert, Write, TypeInv, TypeOK
    <2>2. srv'[r.id] \in ServerRow
        BY <2>1 DEF ServerRow, PushRow, TypeInv, TypeOK
    <2> QED
        BY <1>1, <2>1, <2>2, NoRowIsNoRecord
<1>3. CASE ~Writes(r)
    <2>1. srv[r.id] \in ServerRow /\ srv' = srv
        BY <1>1, <1>3 DEF Upsert, Writes, TypeInv, TypeOK
    <2>2. srv[r.id].at \in Nat /\ ~(r.at > srv[r.id].at)
        BY <1>3, <2>1 DEF Writes, Wins, ServerRow, Time
    <2> QED
        BY <1>1, <2>1, <2>2, NoRowIsNoRecord
<1> QED
    BY <1>2, <1>3

LEMMA PushOneRowKeepsInv ==
    ASSUME SyncInv, TypeInv', [Next]_vars, NEW c \in Client, PushOneRow(c)
    PROVE  ClientInv(c)'
<1>1. PICK r \in call[c].todo :
          /\ Upsert(r)
          /\ call' = [call EXCEPT ![c].todo = @ \ {r}, ![c].acks = @ \cup Ack(r)]
    BY DEF PushOneRow
<1>2. local' = local
    BY DEF PushOneRow, storeVars
<1>3. /\ call[c].todo \in SUBSET PushRow
      /\ call[c].acks \in SUBSET Id
      /\ call[c].rows \in SUBSET PullRow
      /\ local[c] \in [Id -> LocalRow \cup {NoRow}]
      /\ ClientInv(c)
    BY DEF SyncInv, TypeInv, TypeOK, Call
<1>4. /\ call'[c].todo = call[c].todo \ {r}
      /\ call'[c].acks = call[c].acks \cup {r.id}
      /\ call'[c].rows = call[c].rows
    BY <1>1 DEF Ack, SyncInv, TypeInv, TypeOK, Call
<1>5. \A i \in LocalIds(c) : i \in Id /\ local[c][i].at \in Time
    BY <1>3 DEF LocalIds, LocalRow
<1>6. CleanRows(c)'
    BY <1>2, <1>3, <1>5, HoldsForever DEF SyncInv, ClientInv, CleanRows, LocalIds, HoldsTime
<1>7. BodyIsLocal(c)'
    BY <1>2, <1>3, <1>4 DEF ClientInv, BodyIsLocal
<1>8. ASSUME NEW i \in call'[c].acks
      PROVE  local'[c][i] # NoRow /\ srv'[i] # NoRow /\ srv'[i].at >= local'[c][i].at
    <2>1. CASE i = r.id
        BY <1>1, <1>2, <1>3, <2>1, UpsertHolds DEF SyncInv, ClientInv, BodyIsLocal
    <2>2. CASE i \in call[c].acks
        <3>1. i \in LocalIds(c) /\ HoldsTime(i, local[c][i].at)
            BY <1>3, <2>2 DEF ClientInv, AcksByTime, LocalIds
        <3> QED
            BY <1>2, <1>5, <3>1, HoldsForever DEF SyncInv, LocalIds
    <2> QED
        BY <1>4, <1>8, <2>1, <2>2
<1>9. ASSUME NEW p \in call[c].rows PROVE srv'[p.id] # NoRow /\ srv'[p.id].at >= p.at
    BY <1>3, HoldsForever DEF SyncInv, ClientInv, RowsByTime, PullRow
<1>10. AcksByTime(c)' /\ RowsByTime(c)'
    BY <1>3, <1>4, <1>8, <1>9 DEF ClientInv, AcksByTime, RowsByTime, HoldsTime
<1> QED
    BY <1>6, <1>7, <1>10 DEF ClientInv

LEMMA PullReadsRowsKeepsInv ==
    ASSUME SyncInv, TypeInv', [Next]_vars, NEW c \in Client, PullReadsRows(c)
    PROVE  ClientInv(c)'
<1> DEFINE rows == {[id |-> i, at |-> srv[i].at, unit |-> srv[i].unit,
                     seq |-> srv[i].seq] :
                        i \in {j \in Stored : srv[j].seq > call[c].since}}
<1>1. call' = [call EXCEPT ![c].rows = rows, ![c].status = "read"]
      /\ local' = local /\ UNCHANGED <<srv, seq>> /\ ClientInv(c)
    BY DEF PullReadsRows, storeVars, serverVars, SyncInv
<1>2. \A i \in Stored : srv[i] \in ServerRow /\ srv[i] # NoRow
    BY DEF Stored, SyncInv, TypeInv, TypeOK
<1>3. \A r \in rows : srv[r.id] # NoRow /\ srv[r.id].at >= r.at
    BY <1>2 DEF ServerRow, Time
<1>4. \A p, q \in rows : p.id = q.id => p = q
    OBVIOUS
<1> HIDE DEF rows
<1>5. /\ call'[c].rows = rows
      /\ call'[c].todo = call[c].todo
      /\ call'[c].acks = call[c].acks
    BY <1>1 DEF SyncInv, TypeInv, TypeOK, Call
<1> QED
    BY <1>1, <1>3, <1>4, <1>5
       DEF ClientInv, CleanRows, LocalIds, BodyIsLocal, AcksByTime, RowsByTime, HoldsTime

LEMMA SyncInvariance == Spec => []SyncInv
<1>1. Init => SyncInv
    <2>1. SUFFICES ASSUME Init PROVE \A c \in Client : ClientInv(c)
        BY TypeInit DEF SyncInv
    <2> QED
        BY <2>1 DEF Init, NoCall, ClientInv, CleanRows, LocalIds, BodyIsLocal,
                    AcksByTime, RowsByTime
<1>2. SyncInv /\ [Next]_vars => SyncInv'
    <2>1. SUFFICES ASSUME SyncInv, [Next]_vars PROVE SyncInv'
        OBVIOUS
    <2>2. TypeInv /\ TypeInv'
        BY <2>1, TypeStep DEF SyncInv
    <2>3. ASSUME NEW c \in Client PROVE ClientInv(c)'
        <3>1. CASE Unaffected(c)
            BY <2>1, <2>2, <3>1, UnaffectedKeepsInv DEF SyncInv
        <3>2. CASE Touches(c)
            BY <2>1, <2>2, <3>2, AddBottleKeepsInv, GetDirtyKeepsInv, AckingKeepsInv,
               MergingKeepsInv, PushOneRowKeepsInv, PullReadsRowsKeepsInv DEF Touches
        <3> QED
            BY <2>1, <2>2, <3>1, <3>2, OthersUnaffected
    <2> QED
        BY <2>2, <2>3 DEF SyncInv
<1> QED
    BY <1>1, <1>2, PTL DEF Spec

-----------------------------------------------------------------------------
(* The browser's table and cursor move forward. *)

\* What becomes of row i of c's table in a step.
RowForward(c, i) ==
    /\ local'[c][i] # NoRow
    /\ \/ local'[c][i].at > local[c][i].at
       \/ /\ local'[c][i].at = local[c][i].at
          /\ local'[c][i].unit = local[c][i].unit
          /\ local'[c][i].lot = local[c][i].lot
          /\ local'[c][i].dirty <= local[c][i].dirty

LEMMA SameRowForward ==
    ASSUME TypeInv, NEW c \in Client, NEW i \in LocalIds(c), local'[c][i] = local[c][i]
    PROVE  RowForward(c, i)
<1>1. local[c][i] \in LocalRow /\ local[c][i] # NoRow
    BY DEF TypeInv, TypeOK, LocalIds
<1> QED
    BY <1>1 DEF RowForward, LocalRow

LEMMA RowForwardStep ==
    ASSUME SyncInv, [Next]_vars, NEW c \in Client, NEW i \in LocalIds(c)
    PROVE  RowForward(c, i)
<1>1. /\ i \in Id
      /\ local[c][i] \in LocalRow
      /\ local[c] \in [Id -> LocalRow \cup {NoRow}]
      /\ TypeInv
    BY DEF SyncInv, TypeInv, TypeOK, LocalIds
<1>2. CASE Unaffected(c)
    BY <1>1, <1>2, SameRowForward DEF Unaffected
<1>3. CASE AddBottle(c)
    <2> DEFINE id == NextId(CLIENT_SOURCE, HighestTick(LocalIds(c)))
    <2>1. id \in Id /\ id \notin LocalIds(c)
        BY <1>3, AddedIdIsFresh
    <2>2. \E row : local' = [local EXCEPT ![c][id] = row]
        BY <1>3 DEF AddBottle
    <2> HIDE DEF id
    <2>3. local'[c][i] = local[c][i]
        BY <1>1, <2>1, <2>2 DEF TypeInv, TypeOK
    <2> QED
        BY <1>1, <2>3, SameRowForward
<1>4. CASE GetDirty(c) \/ PushOneRow(c) \/ PullReadsRows(c)
    <2>1. local' = local
        BY <1>4 DEF GetDirty, PushOneRow, PullReadsRows, storeVars
    <2> QED
        BY <1>1, <2>1, SameRowForward
<1>5. CASE ApplyAcks(c) \/ ApplyAcksFails(c)
    <2>1. PICK done : local' = [local EXCEPT ![c] = Acked(@, done)]
        BY <1>5 DEF ApplyAcks, ApplyAcksFails
    <2>2. local'[c] = Acked(local[c], done)
        BY <2>1 DEF SyncInv, TypeInv, TypeOK
    <2>3. /\ local'[c][i] # NoRow
          /\ local'[c][i].at = local[c][i].at
          /\ local'[c][i].unit = local[c][i].unit
          /\ local'[c][i].lot = local[c][i].lot
          /\ local'[c][i].dirty \in {0, local[c][i].dirty}
        BY <1>1, <2>2, AckedType, NoRowIsNoRecord
    <2>4. local[c][i].dirty \in {0, 1}
        BY <1>1 DEF LocalRow
    <2> QED
        BY <2>3, <2>4 DEF RowForward
<1>6. CASE ApplyPull(c) \/ ApplyPullFails(c)
    <2>1. PICK done \in SUBSET call[c].rows : local' = [local EXCEPT ![c] = Merged(@, done)]
        BY <1>6 DEF ApplyPull, ApplyPullFails
    <2>2. /\ done \in SUBSET PullRow
          /\ \A p, q \in done : p.id = q.id => p = q
        BY <2>1, ResponseRows
    <2>3. local'[c] = Merged(local[c], done)
        BY <2>1 DEF SyncInv, TypeInv, TypeOK
    <2>4. \/ Merged(local[c], done)[i] = local[c][i]
          \/ \E r \in done :
                /\ Takes(local[c][i], r)
                /\ Merged(local[c], done)[i] =
                      [at |-> r.at, unit |-> r.unit, lot |-> DemoLot, dirty |-> 0]
                /\ Merged(local[c], done)[i] \in LocalRow
        <3> HIDE <2>3
        <3> QED
            BY <1>1, <2>2, MergedRows
    <2>5. CASE Merged(local[c], done)[i] = local[c][i]
        BY <1>1, <2>3, <2>5, SameRowForward
    <2>6. ASSUME NEW r \in done, Takes(local[c][i], r),
                 Merged(local[c], done)[i] =
                     [at |-> r.at, unit |-> r.unit, lot |-> DemoLot, dirty |-> 0],
                 Merged(local[c], done)[i] \in LocalRow
          PROVE  RowForward(c, i)
        <3>1. local'[c][i].at = r.at /\ local'[c][i] # NoRow
            BY <2>3, <2>6, NoRowIsNoRecord
        <3>2. r.at > local[c][i].at
            BY <1>1, <2>6, NoRowIsNoRecord DEF Takes
        <3> QED
            BY <3>1, <3>2 DEF RowForward
    <2> QED
        BY <2>4, <2>5, <2>6
<1> QED
    BY <1>1, <1>2, <1>3, <1>4, <1>5, <1>6, OthersUnaffected DEF Touches

\* Nothing a browser holds is undone, by acks and pulls of any age, applied
\* wholly or in part: apply_pull takes newer versions only, apply_acks clears
\* dirty bits only, and handle inserts under ids not in use.
THEOREM LocalMovesForward == Spec => LocalRowsMoveForward
<1>1. SyncInv /\ [Next]_vars =>
          [\A c \in Client : \A i \in LocalIds(c) :
              /\ local'[c][i] # NoRow
              /\ \/ local'[c][i].at > local[c][i].at
                 \/ /\ local'[c][i].at = local[c][i].at
                    /\ local'[c][i].unit = local[c][i].unit
                    /\ local'[c][i].lot = local[c][i].lot
                    /\ local'[c][i].dirty <= local[c][i].dirty]_vars
    BY RowForwardStep DEF RowForward
<1> QED
    BY <1>1, SyncInvariance, PTL DEF Spec, LocalRowsMoveForward

\* Cursors: what is stored was the server's highest stamp once, and so was
\* what a response on its way carries, later.
CursorBacked(c) ==
    /\ cursor[c] <= seq
    /\ call[c].op # "none" /\ call[c].status = "ok" =>
           cursor[c] <= call[c].high /\ call[c].high <= seq

CursorInv == TypeInv /\ \A c \in Client : CursorBacked(c)

LEMMA SeqForward ==
    ASSUME TypeInv, [Next]_vars
    PROVE  seq' >= seq
<1>1. CASE UNCHANGED <<srv, seq>>
    BY <1>1 DEF TypeInv, TypeOK
<1>2. ASSUME NEW r, Upsert(r) PROVE seq' >= seq
    BY <1>2 DEF Upsert, Write, TypeInv, TypeOK
<1>3. CASE ServerAddBottle
    BY <1>3 DEF ServerAddBottle, Write, TypeInv, TypeOK
<1> QED
    BY <1>1, <1>2, <1>3, Writers

\* Steps that leave c's cursor: what they make of its request.
KeepsCursor(c) ==
    /\ cursor'[c] = cursor[c]
    /\ \/ call'[c].op = "none"
       \/ call'[c].status # "ok"
       \/ /\ call'[c].op = call[c].op
          /\ call'[c].status = call[c].status
          /\ call'[c].high = call[c].high
       \/ call'[c].high = BottleCursor

\* Steps that store a response's cursor, and consume the response.
StoresCursor(c) ==
    /\ call[c].op # "none" /\ call[c].status = "ok"
    /\ cursor'[c] = call[c].high
    /\ call'[c].op = "none"

LEMMA CursorSteps ==
    ASSUME TypeInv, [Next]_vars, NEW c \in Client
    PROVE  KeepsCursor(c) \/ StoresCursor(c)
<1> USE DEF TypeInv, TypeOK, KeepsCursor
<1>1. CASE UNCHANGED vars
    BY <1>1 DEF vars, storeVars, pageVars
<1>2. ASSUME NEW d \in Client, User(d) PROVE KeepsCursor(c)
    <2>1. cursor' = cursor /\ (call' = call \/ call' = [call EXCEPT ![d] = NoCall])
        <3>1. CASE AddBottle(d)
            BY <3>1 DEF AddBottle, storeVars
        <3>2. CASE Reload(d)
            BY <3>2 DEF Reload, storeVars
        <3>3. CASE GoOnline(d)
            BY <3>3 DEF GoOnline, storeVars
        <3> QED
            BY <1>2, <3>1, <3>2, <3>3 DEF User
    <2>2. NoCall.op = "none"
        BY DEF NoCall
    <2> QED
        BY <2>1, <2>2
<1>3. ASSUME NEW d \in Client, Page(d) PROVE KeepsCursor(c) \/ StoresCursor(c)
    <2>1. CASE HandlePost(d)
        BY <2>1 DEF HandlePost, storeVars
    <2>2. CASE GetDirty(d)
        <3> DEFINE body == {[id |-> i, at |-> local[d][i].at, unit |-> local[d][i].unit,
                             lot |-> local[d][i].lot] : i \in DirtyIds(d)}
        <3>1. /\ cursor' = cursor
              /\ call' = call \/ call' = [call EXCEPT ![d] =
                     Sent(d, [NoCall EXCEPT !.op = "push", !.todo = body])]
            BY <2>2 DEF GetDirty, storeVars
        <3> HIDE DEF body
        <3>2. Sent(d, [NoCall EXCEPT !.op = "push", !.todo = body]).status # "ok"
            BY DEF Sent, NoCall
        <3> QED
            BY <3>1, <3>2
    <2>3. CASE ApplyAcks(d)
        BY <2>3 DEF ApplyAcks, Answered, EndCall, NoCall, StoresCursor
    <2>4. CASE PushRefused(d) \/ PullRefused(d) \/ FetchRejects(d)
        BY <2>4 DEF PushRefused, PullRefused, FetchRejects, EndCall, NoCall, storeVars
    <2>5. CASE SendPull(d)
        <3>1. /\ cursor' = cursor
              /\ call' = [call EXCEPT ![d] =
                     Sent(d, [NoCall EXCEPT !.op = "pull", !.since = cursor[d]])]
            BY <2>5 DEF SendPull, storeVars
        <3>2. Sent(d, [NoCall EXCEPT !.op = "pull", !.since = cursor[d]]).status # "ok"
            BY DEF Sent, NoCall
        <3> QED
            BY <3>1, <3>2
    <2>6. CASE ApplyPull(d)
        BY <2>6 DEF ApplyPull, Answered, EndCall, NoCall, StoresCursor
    <2>7. CASE RefreshCount(d)
        BY <2>7 DEF RefreshCount, storeVars
    <2> QED
        BY <1>3, <2>1, <2>2, <2>3, <2>4, <2>5, <2>6, <2>7 DEF Page
<1>4. ASSUME NEW d \in Client, Handler(d) PROVE KeepsCursor(c)
    <2>1. cursor' = cursor
        BY <1>4 DEF Handler, PushOneRow, PushRowRejected, PushReplies, PullReadsRows,
                    PullReplies, storeVars
    <2>2. CASE d # c
        <3>1. call'[c] = call[c]
            BY <1>4, <2>2 DEF Handler, PushOneRow, PushRowRejected, PushReplies,
                              PullReadsRows, PullReplies
        <3> QED
            BY <2>1, <3>1
    <2>3. CASE d = c
        <3>1. CASE PushOneRow(d)
            BY <2>1, <2>3, <3>1 DEF PushOneRow
        <3>2. CASE PushRowRejected(d) \/ PullReadsRows(d)
            <4>1. call'[c].status # "ok"
                BY <2>3, <3>2, CallUpdate DEF PushRowRejected, PullReadsRows, Call
            <4> QED
                BY <2>1, <4>1
        <3>3. CASE PushReplies(d) \/ PullReplies(d)
            <4>1. call'[c].high = BottleCursor
                BY <2>3, <3>3, CallUpdate DEF PushReplies, PullReplies, PullCursor, Call
            <4> QED
                BY <2>1, <4>1
        <3> QED
            BY <1>4, <3>1, <3>2, <3>3 DEF Handler
    <2> QED
        BY <2>2, <2>3
<1>5. ASSUME NEW d \in Client, Faulty(d) PROVE KeepsCursor(c) \/ StoresCursor(c)
    <2>1. CASE LoseConnection(d) \/ GoOffline(d) \/ HandlerFails(d)
        <3>1. cursor' = cursor
            BY <2>1 DEF LoseConnection, GoOffline, HandlerFails, storeVars
        <3>2. PICK status \in {"lost", "err", call[d].status} :
                  /\ call' = [call EXCEPT ![d].status = status]
                  /\ status # "ok" \/ status = call[d].status
            BY <2>1 DEF LoseConnection, GoOffline, HandlerFails
        <3> QED
            BY <3>1, <3>2
    <2>2. CASE ReadFails(d) \/ RefreshFails(d)
        BY <2>2 DEF ReadFails, RefreshFails, storeVars
    <2>3. CASE ApplyAcksFails(d)
        BY <2>3 DEF ApplyAcksFails, EndCall, NoCall
    <2>4. CASE ApplyPullFails(d)
        BY <2>4 DEF ApplyPullFails, Answered, EndCall, NoCall, StoresCursor
    <2> QED
        BY <1>5, <2>1, <2>2, <2>3, <2>4 DEF Faulty
<1>6. ASSUME NEW b \in orphans, OrphanRow(b) \/ OrphanEnds(b) PROVE KeepsCursor(c)
    BY <1>6 DEF OrphanRow, OrphanEnds, storeVars, pageVars
<1>7. ServerAddBottle => KeepsCursor(c)
    BY DEF ServerAddBottle, storeVars, pageVars
<1>8. ServerRestart => KeepsCursor(c)
    BY DEF ServerRestart, storeVars
<1> QED
    BY <1>1, <1>2, <1>3, <1>4, <1>5, <1>6, <1>7, <1>8 DEF Next

LEMMA CursorStep ==
    ASSUME CursorInv, [Next]_vars
    PROVE  CursorInv' /\ \A c \in Client : cursor'[c] >= cursor[c]
<1>1. TypeInv /\ TypeInv' /\ seq' >= seq /\ BottleCursor = seq
    BY TypeStep, SeqForward, CursorIsSeq DEF CursorInv, TypeInv
<1>2. seq \in Nat /\ seq' \in Nat
    BY <1>1 DEF TypeInv, TypeOK
<1>3. ASSUME NEW c \in Client PROVE CursorBacked(c)' /\ cursor'[c] >= cursor[c]
    <2>1. /\ cursor[c] \in Nat /\ cursor'[c] \in Nat
          /\ call[c] \in Call /\ call'[c] \in Call
          /\ CursorBacked(c)
        BY <1>1 DEF CursorInv, TypeInv, TypeOK
    <2>2. call[c].high \in Nat /\ call'[c].high \in Nat
        BY <2>1 DEF Call
    <2>3. CASE KeepsCursor(c)
        BY <1>1, <1>2, <2>1, <2>2, <2>3 DEF KeepsCursor, CursorBacked
    <2>4. CASE StoresCursor(c)
        BY <1>1, <1>2, <2>1, <2>2, <2>4 DEF StoresCursor, CursorBacked
    <2> QED
        BY <1>1, <2>3, <2>4, CursorSteps
<1> QED
    BY <1>1, <1>3 DEF CursorInv

\* A browser's cursor never goes back, though push and pull responses both
\* store it: a page awaits one response at a time, and the server's highest
\* stamp never falls.
THEOREM CursorMovesForward == Spec => CursorsMoveForward
<1>1. Init => CursorInv
    BY TypeInit DEF Init, NoCall, CursorInv, CursorBacked
<1>2. CursorInv /\ [Next]_vars => CursorInv'
    BY CursorStep
<1>3. CursorInv /\ [Next]_vars => [\A c \in Client : cursor'[c] >= cursor[c]]_vars
    BY CursorStep
<1> QED
    BY <1>1, <1>2, <1>3, PTL DEF Spec, CursorsMoveForward

-----------------------------------------------------------------------------
(***************************************************************************)
(* Where rows come from: the server's table implements LwwStore, its ids    *)
(* are fresh, and one browser alone loses no bottle.                        *)
(***************************************************************************)

VersionOf(r) == [id |-> r.id, at |-> r.at, unit |-> r.unit]
LocalVersion(c, i) == [id |-> i, at |-> local[c][i].at, unit |-> local[c][i].unit]

\* A row of a push was created, by a browser.
Pushable(r) == VersionOf(r) \in minted /\ SourceOf(r.id) = CLIENT_SOURCE

\* What a browser and its request hold was created somewhere, and what is dirty
\* was created by a browser.
Origin(c) ==
    /\ \A i \in LocalIds(c) : LocalVersion(c, i) \in minted
    /\ \A i \in DirtyIds(c) : SourceOf(i) = CLIENT_SOURCE
    /\ \A r \in call[c].todo : Pushable(r)
    /\ \A r \in call[c].rows : VersionOf(r) \in minted

OrphansOrigin == \A body \in orphans : \A r \in body : Pushable(r)
StoredOrigin == \A i \in Stored : StoredVersion[i] \in minted

\* The id factory's tick is that of every id of its own in use, or higher.
FactoryIsAhead == \A i \in Stored : SourceOf(i) = SERVER_SOURCE => TickOf(i) <= tick

OriginInv ==
    /\ SyncInv
    /\ \A c \in Client : Origin(c)
    /\ OrphansOrigin /\ StoredOrigin /\ FactoryIsAhead

LEMMA SourcesDiffer ==
    /\ CLIENT_SOURCE \in Source /\ SERVER_SOURCE \in Source
    /\ CLIENT_SOURCE # SERVER_SOURCE
BY DEF CLIENT_SOURCE, SERVER_SOURCE, Source, SourceSpan

-----------------------------------------------------------------------------
(* What steps do to the ghost, the tick and the orphans.                    *)

LEMMA MintingSteps ==
    ASSUME [Next]_vars
    PROVE  \/ minted' = minted
           \/ \E c \in Client : AddBottle(c)
           \/ ServerAddBottle
<1>1. UNCHANGED vars => minted' = minted
    BY DEF vars, ghostVars
<1>2. ASSUME NEW c \in Client, User(c) PROVE minted' = minted \/ AddBottle(c)
    BY <1>2 DEF User, Reload, GoOnline, ghostVars
<1>3. ASSUME NEW c \in Client, Page(c) PROVE minted' = minted
    BY <1>3 DEF Page, HandlePost, GetDirty, ApplyAcks, PushRefused, SendPull, ApplyPull,
       PullRefused, FetchRejects, RefreshCount, ghostVars
<1>4. ASSUME NEW c \in Client, Handler(c) PROVE minted' = minted
    BY <1>4 DEF Handler, PushOneRow, PushRowRejected, PushReplies, PullReadsRows,
       PullReplies, ghostVars
<1>5. ASSUME NEW c \in Client, Faulty(c) PROVE minted' = minted
    BY <1>5 DEF Faulty, LoseConnection, GoOffline, ReadFails, ApplyAcksFails,
       ApplyPullFails, RefreshFails, HandlerFails
<1>6. ASSUME NEW b \in orphans, OrphanRow(b) \/ OrphanEnds(b) PROVE minted' = minted
    BY <1>6 DEF OrphanRow, OrphanEnds, ghostVars
<1>7. ServerRestart => minted' = minted
    BY DEF ServerRestart
<1> QED
    BY <1>1, <1>2, <1>3, <1>4, <1>5, <1>6, <1>7 DEF Next

LEMMA MintedGrows ==
    ASSUME [Next]_vars
    PROVE  minted \subseteq minted'
BY MintingSteps, Zenon DEF AddBottle, ServerAddBottle

LEMMA TickSteps ==
    ASSUME [Next]_vars
    PROVE  tick' = tick \/ ServerAddBottle \/ ServerRestart
<1>1. UNCHANGED vars => tick' = tick
    BY DEF vars, serverVars
<1>2. ASSUME NEW c \in Client, User(c) PROVE tick' = tick
    BY <1>2 DEF User, AddBottle, Reload, GoOnline, serverVars
<1>3. ASSUME NEW c \in Client, Page(c) PROVE tick' = tick
    BY <1>3 DEF Page, HandlePost, GetDirty, ApplyAcks, PushRefused, SendPull, ApplyPull,
       PullRefused, FetchRejects, RefreshCount, serverVars
<1>4. ASSUME NEW c \in Client, Handler(c) PROVE tick' = tick
    BY <1>4 DEF Handler, PushOneRow, PushRowRejected, PushReplies, PullReadsRows,
       PullReplies, serverVars
<1>5. ASSUME NEW c \in Client, Faulty(c) PROVE tick' = tick
    BY <1>5 DEF Faulty, LoseConnection, GoOffline, ReadFails, ApplyAcksFails,
       ApplyPullFails, RefreshFails, HandlerFails, serverVars
<1>6. ASSUME NEW b \in orphans, OrphanRow(b) \/ OrphanEnds(b) PROVE tick' = tick
    BY <1>6 DEF OrphanRow, OrphanEnds
<1> QED
    BY <1>1, <1>2, <1>3, <1>4, <1>5, <1>6 DEF Next

\* A body nobody waits for is the rest of one, or of a push under way.
LEMMA OrphanSteps ==
    ASSUME [Next]_vars, NEW body \in orphans'
    PROVE  \/ \E b \in orphans : body \subseteq b
           \/ \E c \in Client : body \subseteq call[c].todo
<1>1. UNCHANGED vars => orphans' = orphans
    BY DEF vars, serverVars
<1>2. ASSUME NEW c \in Client, User(c)
      PROVE  orphans' \subseteq orphans \cup Abandoned(c)
    BY <1>2 DEF User, AddBottle, Reload, GoOnline, serverVars
<1>3. ASSUME NEW c \in Client, Page(c) PROVE orphans' = orphans
    BY <1>3 DEF Page, HandlePost, GetDirty, ApplyAcks, PushRefused, SendPull, ApplyPull,
       PullRefused, FetchRejects, RefreshCount, serverVars
<1>4. ASSUME NEW c \in Client, Handler(c) PROVE orphans' = orphans
    BY <1>4 DEF Handler, PushOneRow, PushRowRejected, PushReplies, PullReadsRows,
       PullReplies, serverVars
<1>5. ASSUME NEW c \in Client, Faulty(c)
      PROVE  orphans' \subseteq orphans \cup Abandoned(c)
    BY <1>5 DEF Faulty, LoseConnection, GoOffline, ReadFails, ApplyAcksFails,
       ApplyPullFails, RefreshFails, HandlerFails, serverVars
<1>6. ASSUME NEW b \in orphans, OrphanRow(b) \/ OrphanEnds(b)
      PROVE  body \in orphans \/ body \subseteq b
    BY <1>6 DEF OrphanRow, OrphanEnds
<1>7. ServerAddBottle \/ ServerRestart => orphans' \subseteq orphans
    BY DEF ServerAddBottle, ServerRestart
<1>8. ASSUME NEW c \in Client, body \in Abandoned(c) PROVE body = call[c].todo
    BY <1>8 DEF Abandoned
<1>9. CASE \E c \in Client : User(c) \/ Faulty(c)
    BY <1>2, <1>5, <1>8, <1>9
<1> QED
    BY <1>1, <1>3, <1>4, <1>6, <1>7, <1>9 DEF Next

-----------------------------------------------------------------------------
(* Everything comes from where it was created.                              *)

LEMMA UnaffectedKeepsOrigin ==
    ASSUME NEW c \in Client, Origin(c), Unaffected(c), minted \subseteq minted'
    PROVE  Origin(c)'
<1>1. \A i \in LocalIds(c)' : i \in LocalIds(c) /\ LocalVersion(c, i)' = LocalVersion(c, i)
    BY DEF Unaffected, LocalIds, LocalVersion
<1>2. \A i \in DirtyIds(c)' : i \in DirtyIds(c)
    BY DEF Unaffected, LocalIds, DirtyIds
<1>3. \A r : Pushable(r) => Pushable(r)'
    BY DEF Pushable, VersionOf
<1> QED
    BY <1>1, <1>2, <1>3 DEF Origin, Unaffected, VersionOf

LEMMA MintedIdIsOwn ==
    ASSUME TypeInv, NEW c \in Client, AddBottle(c)
    PROVE  SourceOf(NextId(CLIENT_SOURCE, HighestTick(LocalIds(c)))) = CLIENT_SOURCE
<1>1. LocalIds(c) \in SUBSET Nat
      /\ \A i \in LocalIds(c) : i <= (MaxTick + 1) * SourceSpan
    BY IdIsNat DEF LocalIds
<1>2. (MaxTick + 1) * SourceSpan \in Nat
    BY IdIsNat
<1> DEFINE ids == LocalIds(c)
           bound == (MaxTick + 1) * SourceSpan
<1>3. ids \in SUBSET Nat /\ bound \in Nat /\ \A i \in ids : i <= bound
    BY <1>1, <1>2
<1> HIDE DEF ids, bound
<1>4. HighestTick(ids) \in Nat
    BY <1>3, HighestTickBounds
<1>5. HighestTick(ids) + 1 \in Nat
    BY <1>4
<1> QED
    BY <1>5, SourcesDiffer, PackUnpack DEF NextId, ids

LEMMA AddBottleKeepsOrigin ==
    ASSUME TypeInv, NEW c \in Client, Origin(c), AddBottle(c)
    PROVE  Origin(c)'
<1> DEFINE id == NextId(CLIENT_SOURCE, HighestTick(LocalIds(c)))
<1>1. id \in Id /\ SourceOf(id) = CLIENT_SOURCE
    BY MintedIdIsOwn, AddedIdIsFresh
<1>2. PICK now \in Time :
          /\ local' = [local EXCEPT ![c][id] =
                 [at |-> now, unit |-> NewUnit, lot |-> defaultLot[c], dirty |-> 1]]
          /\ minted' = minted \cup {[id |-> id, at |-> now, unit |-> NewUnit]}
    BY DEF AddBottle
<1>3. call' = call
    BY DEF AddBottle
<1> HIDE DEF id
<1>4. /\ \A i \in Id \ {id} : local'[c][i] = local[c][i]
      /\ local'[c][id].at = now /\ local'[c][id].unit = NewUnit
    BY <1>1, <1>2 DEF TypeInv, TypeOK
<1>5. ASSUME NEW i \in LocalIds(c)' PROVE LocalVersion(c, i)' \in minted'
    <2>1. CASE i = id
        BY <1>2, <1>4, <2>1 DEF LocalVersion
    <2>2. CASE i # id
        BY <1>2, <1>4, <2>2 DEF Origin, LocalIds, LocalVersion
    <2> QED
        BY <2>1, <2>2
<1>6. ASSUME NEW i \in DirtyIds(c)' PROVE SourceOf(i) = CLIENT_SOURCE
    BY <1>1, <1>4 DEF Origin, LocalIds, DirtyIds
<1> QED
    BY <1>2, <1>3, <1>5, <1>6 DEF Origin, Pushable, VersionOf

LEMMA GetDirtyKeepsOrigin ==
    ASSUME TypeInv, NEW c \in Client, Origin(c), GetDirty(c), minted' = minted
    PROVE  Origin(c)'
<1> DEFINE body == {[id |-> i, at |-> local[c][i].at, unit |-> local[c][i].unit,
                     lot |-> local[c][i].lot] : i \in DirtyIds(c)}
<1>1. local' = local
    BY DEF GetDirty, storeVars
<1>2. CASE body = {}
    <2>1. Unaffected(c)
        BY <1>1, <1>2 DEF GetDirty, Unaffected
    <2> QED
        BY <2>1, UnaffectedKeepsOrigin
<1>3. CASE body # {}
    <2>1. call' = [call EXCEPT ![c] = Sent(c, [NoCall EXCEPT !.op = "push", !.todo = body])]
        BY <1>3 DEF GetDirty
    <2>2. ASSUME NEW r \in body PROVE Pushable(r)
        <3>1. PICK i \in DirtyIds(c) : r = [id |-> i, at |-> local[c][i].at,
                  unit |-> local[c][i].unit, lot |-> local[c][i].lot]
            OBVIOUS
        <3>2. VersionOf(r) = LocalVersion(c, i) /\ r.id = i
            BY <3>1 DEF VersionOf, LocalVersion
        <3> QED
            BY <3>2 DEF Pushable, Origin, DirtyIds
    <2> HIDE DEF body
    <2>3. call'[c].todo = body /\ call'[c].rows = {}
        BY <2>1 DEF Sent, NoCall, TypeInv, TypeOK
    <2> QED
        BY <1>1, <2>2, <2>3 DEF Origin, LocalIds, DirtyIds, LocalVersion, Pushable, VersionOf
<1> QED
    BY <1>2, <1>3

\* Both ways apply_acks can go.
LEMMA AckingKeepsOrigin ==
    ASSUME TypeInv, NEW c \in Client, Origin(c), minted' = minted,
           ApplyAcks(c) \/ ApplyAcksFails(c)
    PROVE  Origin(c)'
<1>1. PICK done \in SUBSET call[c].acks : local' = [local EXCEPT ![c] = Acked(@, done)]
    BY DEF ApplyAcks, ApplyAcksFails
<1>2. call'[c] = NoCall
    BY DEF ApplyAcks, ApplyAcksFails, EndCall, TypeInv, TypeOK
<1>3. local[c] \in [Id -> LocalRow \cup {NoRow}] /\ local'[c] = Acked(local[c], done)
    BY <1>1 DEF TypeInv, TypeOK
<1>4. ASSUME NEW i \in Id, local'[c][i] # NoRow
      PROVE  /\ local[c][i] # NoRow
             /\ local'[c][i].at = local[c][i].at /\ local'[c][i].unit = local[c][i].unit
             /\ local'[c][i].dirty = 1 => local[c][i].dirty = 1
    BY <1>3, <1>4, AckedType
<1> QED
    BY <1>2, <1>4 DEF Origin, LocalIds, DirtyIds, LocalVersion, NoCall

\* Both ways apply_pull can go.
LEMMA MergingKeepsOrigin ==
    ASSUME SyncInv, NEW c \in Client, Origin(c), minted' = minted,
           ApplyPull(c) \/ ApplyPullFails(c)
    PROVE  Origin(c)'
<1>1. PICK done \in SUBSET call[c].rows : local' = [local EXCEPT ![c] = Merged(@, done)]
    BY DEF ApplyPull, ApplyPullFails
<1>2. call'[c] = NoCall
    BY DEF ApplyPull, ApplyPullFails, EndCall, SyncInv, TypeInv, TypeOK
<1>3. /\ local[c] \in [Id -> LocalRow \cup {NoRow}]
      /\ done \in SUBSET PullRow
      /\ \A p, q \in done : p.id = q.id => p = q
    BY <1>1, ResponseRows
<1>4. local'[c] = Merged(local[c], done)
    BY <1>1 DEF SyncInv, TypeInv, TypeOK
<1>5. ASSUME NEW i \in Id
      PROVE  \/ local'[c][i] = local[c][i]
             \/ \E r \in done : r.id = i /\ local'[c][i] =
                   [at |-> r.at, unit |-> r.unit, lot |-> DemoLot, dirty |-> 0]
    <2>1. \/ Merged(local[c], done)[i] = local[c][i]
          \/ \E r \in done : r.id = i /\ Merged(local[c], done)[i] =
                [at |-> r.at, unit |-> r.unit, lot |-> DemoLot, dirty |-> 0]
        <3> HIDE <1>4
        <3> QED
            BY <1>3, MergedRows
    <2> QED
        BY <1>4, <2>1, Zenon
<1>6. ASSUME NEW i \in LocalIds(c)' PROVE LocalVersion(c, i)' \in minted
    <2>1. i \in Id
        BY DEF LocalIds
    <2>2. CASE local'[c][i] = local[c][i]
        BY <2>1, <2>2 DEF Origin, LocalIds, LocalVersion
    <2>3. ASSUME NEW r \in done, r.id = i, local'[c][i] =
                 [at |-> r.at, unit |-> r.unit, lot |-> DemoLot, dirty |-> 0]
          PROVE  LocalVersion(c, i)' \in minted
        <3>1. LocalVersion(c, i)' = VersionOf(r)
            BY <2>3 DEF LocalVersion, VersionOf
        <3> QED
            BY <1>1, <3>1 DEF Origin
    <2> QED
        BY <1>5, <2>1, <2>2, <2>3
<1>7. ASSUME NEW i \in DirtyIds(c)' PROVE SourceOf(i) = CLIENT_SOURCE
    <2>1. i \in Id /\ local'[c][i] # NoRow /\ local'[c][i].dirty = 1
        BY DEF DirtyIds, LocalIds
    <2>2. ASSUME NEW r \in done, local'[c][i] =
                 [at |-> r.at, unit |-> r.unit, lot |-> DemoLot, dirty |-> 0]
          PROVE  FALSE
        BY <2>1, <2>2
    <2>3. local'[c][i] = local[c][i]
        BY <1>5, <2>1, <2>2
    <2> QED
        BY <2>1, <2>3 DEF Origin, DirtyIds, LocalIds
<1> QED
    BY <1>2, <1>6, <1>7 DEF Origin, NoCall

LEMMA PushOneRowKeepsOrigin ==
    ASSUME TypeInv, NEW c \in Client, Origin(c), PushOneRow(c), minted' = minted
    PROVE  Origin(c)'
<1>1. local' = local
    BY DEF PushOneRow, storeVars
<1>2. call'[c].todo \subseteq call[c].todo /\ call'[c].rows = call[c].rows
    BY DEF PushOneRow, TypeInv, TypeOK, Call
<1> QED
    BY <1>1, <1>2 DEF Origin, LocalIds, DirtyIds, LocalVersion, Pushable, VersionOf

LEMMA PullReadsRowsKeepsOrigin ==
    ASSUME TypeInv, NEW c \in Client, Origin(c), StoredOrigin, PullReadsRows(c),
           minted' = minted
    PROVE  Origin(c)'
<1> DEFINE rows == {[id |-> i, at |-> srv[i].at, unit |-> srv[i].unit,
                     seq |-> srv[i].seq] :
                        i \in {j \in Stored : srv[j].seq > call[c].since}}
<1>1. call' = [call EXCEPT ![c].rows = rows, ![c].status = "read"] /\ local' = local
    BY DEF PullReadsRows, storeVars
<1>2. ASSUME NEW r \in rows PROVE VersionOf(r) \in minted
    <2>1. PICK i \in Stored : r = [id |-> i, at |-> srv[i].at, unit |-> srv[i].unit,
                                   seq |-> srv[i].seq]
        OBVIOUS
    <2>2. VersionOf(r) = StoredVersion[i]
        BY <2>1 DEF VersionOf, StoredVersion, Stored
    <2> QED
        BY <2>2 DEF StoredOrigin
<1> HIDE DEF rows
<1>3. call'[c].rows = rows /\ call'[c].todo = call[c].todo
    BY <1>1 DEF TypeInv, TypeOK, Call
<1> QED
    BY <1>1, <1>2, <1>3 DEF Origin, LocalIds, DirtyIds, LocalVersion, Pushable, VersionOf

\* The row a step writes into the server's table is a row of a push, or new.
LEMMA WrittenRow ==
    ASSUME OriginInv, [Next]_vars, NEW i \in Id, srv'[i] # srv[i]
    PROVE  \/ \E r \in PushRow :
                 /\ Pushable(r) /\ i = r.id /\ Upsert(r)
                 /\ srv'[i] = [at |-> r.at, unit |-> r.unit, seq |-> seq + 1]
           \/ /\ ServerAddBottle
              /\ i = NextId(SERVER_SOURCE, tick) /\ srv[i] = NoRow
              /\ \E now \in Time :
                    /\ srv'[i] = [at |-> now, unit |-> NewUnit, seq |-> seq + 1]
                    /\ minted' = minted \cup {[id |-> i, at |-> now, unit |-> NewUnit]}
<1>1. \/ \E r \in PushRow : Pushable(r) /\ Upsert(r)
      \/ ServerAddBottle
    BY Writers DEF OriginInv, SyncInv, Origin, OrphansOrigin
<1>2. CASE \E r \in PushRow : Pushable(r) /\ Upsert(r)
    BY <1>2, UpsertForward DEF OriginInv, SyncInv
<1>3. CASE ServerAddBottle
    <2> DEFINE id == NextId(SERVER_SOURCE, tick)
    <2>1. PICK now \in Time : /\ Write(id, now, NewUnit) /\ srv[id] = NoRow /\ id \in Id
                              /\ minted' = minted \cup {[id |-> id, at |-> now, unit |-> NewUnit]}
        BY <1>3 DEF ServerAddBottle
    <2> HIDE DEF id
    <2>2. i = id /\ srv'[i] = [at |-> now, unit |-> NewUnit, seq |-> seq + 1]
        BY <2>1 DEF Write, OriginInv, SyncInv, TypeInv, TypeOK
    <2> QED
        BY <1>3, <2>1, <2>2 DEF id
<1> QED
    BY <1>1, <1>2, <1>3

LEMMA ServerKeepsOrigin ==
    ASSUME OriginInv, [Next]_vars
    PROVE  StoredOrigin' /\ OrphansOrigin'
<1>1. minted \subseteq minted'
    BY MintedGrows
<1>2. ASSUME NEW i \in Stored' PROVE StoredVersion'[i] \in minted'
    <2>1. i \in Id /\ srv'[i] # NoRow
        BY DEF Stored
    <2>2. StoredVersion'[i] = [id |-> i, at |-> srv'[i].at, unit |-> srv'[i].unit]
        BY <2>1 DEF StoredVersion
    <2>3. CASE srv'[i] = srv[i]
        <3>1. StoredVersion[i] = StoredVersion'[i] /\ i \in Stored
            BY <2>1, <2>3 DEF StoredVersion, Stored
        <3> QED
            BY <1>1, <3>1 DEF OriginInv, StoredOrigin
    <2>4. ASSUME NEW r \in PushRow, Pushable(r), i = r.id,
                 srv'[i] = [at |-> r.at, unit |-> r.unit, seq |-> seq + 1]
          PROVE  StoredVersion'[i] \in minted'
        BY <1>1, <2>2, <2>4 DEF Pushable, VersionOf
    <2>5. ASSUME NEW now \in Time,
                 srv'[i] = [at |-> now, unit |-> NewUnit, seq |-> seq + 1],
                 minted' = minted \cup {[id |-> i, at |-> now, unit |-> NewUnit]}
          PROVE  StoredVersion'[i] \in minted'
        BY <2>2, <2>5
    <2> QED
        BY <2>1, <2>3, <2>4, <2>5, WrittenRow
<1>3. \A r : Pushable(r) => Pushable(r)'
    BY <1>1 DEF Pushable, VersionOf
<1>4. ASSUME NEW body \in orphans', NEW r \in body PROVE Pushable(r)'
    BY <1>3, OrphanSteps DEF OriginInv, OrphansOrigin, Origin
<1> QED
    BY <1>2, <1>4 DEF StoredOrigin, OrphansOrigin

LEMMA ResumeIsAhead ==
    ASSUME TypeInv
    PROVE  ResumeTick \in Nat /\ \A i \in Stored : TickOf(i) <= ResumeTick
<1>1. Stored \in SUBSET Nat /\ \A i \in Stored : i <= (MaxTick + 1) * SourceSpan
    BY IdIsNat DEF Stored
<1>2. HighestTick(Stored) \in Nat /\ \A i \in Stored : TickOf(i) <= HighestTick(Stored)
    BY <1>1, IdIsNat, HighestTickBounds
<1>3. \A i \in Stored : TickOf(i) \in Nat
    BY <1>1, TickOrder
<1> QED
    BY <1>2, <1>3, SyncAssumption DEF ResumeTick

LEMMA FactoryStaysAhead ==
    ASSUME OriginInv, [Next]_vars
    PROVE  FactoryIsAhead'
<1>1. /\ tick \in Nat /\ TypeInv
      /\ \A i \in Id : TickOf(i) \in Nat
    BY IdIsNat, TickOrder DEF OriginInv, SyncInv, TypeInv, TypeOK
<1>2. SUFFICES ASSUME NEW i \in Stored', SourceOf(i) = SERVER_SOURCE
               PROVE  TickOf(i) <= tick'
    BY DEF FactoryIsAhead
<1>3. i \in Id /\ srv'[i] # NoRow
    BY <1>2 DEF Stored
<1>4. CASE ServerRestart
    <2>1. i \in Stored /\ tick' = ResumeTick
        BY <1>3, <1>4 DEF ServerRestart, Stored
    <2> QED
        BY <1>1, <2>1, ResumeIsAhead
<1>5. CASE tick' = tick \/ ServerAddBottle
    <2>1. tick' \in Nat /\ tick <= tick'
        BY <1>1, <1>5 DEF ServerAddBottle
    <2>2. CASE srv'[i] = srv[i]
        <3>1. TickOf(i) <= tick
            BY <1>2, <1>3, <2>2 DEF OriginInv, FactoryIsAhead, Stored
        <3> QED
            BY <1>1, <1>3, <2>1, <3>1
    <2>3. CASE ServerAddBottle /\ i = NextId(SERVER_SOURCE, tick)
        <3>1. TickOf(i) = tick + 1
            BY <1>1, <2>3, SourcesDiffer, PackUnpack DEF NextId
        <3> QED
            BY <1>1, <2>3, <3>1 DEF ServerAddBottle
    <2>4. ASSUME NEW r \in PushRow, Pushable(r), i = r.id PROVE FALSE
        BY <1>2, <2>4, SourcesDiffer DEF Pushable
    <2> QED
        BY <1>3, <2>2, <2>3, <2>4, WrittenRow
<1> QED
    BY <1>4, <1>5, TickSteps

LEMMA BrowsersKeepOrigin ==
    ASSUME OriginInv, [Next]_vars, NEW c \in Client
    PROVE  Origin(c)'
<1>1. SyncInv /\ TypeInv /\ Origin(c) /\ StoredOrigin /\ minted \subseteq minted'
    BY MintedGrows DEF OriginInv, SyncInv
<1>2. CASE Unaffected(c)
    BY <1>1, <1>2, UnaffectedKeepsOrigin
<1>3. CASE AddBottle(c)
    BY <1>1, <1>3, AddBottleKeepsOrigin
<1>4. CASE Touches(c) /\ ~AddBottle(c)
    <2>1. minted' = minted
        BY <1>4 DEF Touches, GetDirty, ApplyAcks, ApplyAcksFails, ApplyPull, ApplyPullFails,
                    PushOneRow, PullReadsRows, ghostVars
    <2> QED
        BY <1>1, <1>4, <2>1, GetDirtyKeepsOrigin, AckingKeepsOrigin, MergingKeepsOrigin,
           PushOneRowKeepsOrigin, PullReadsRowsKeepsOrigin DEF Touches
<1> QED
    BY <1>1, <1>2, <1>3, <1>4, OthersUnaffected

LEMMA SyncStep == SyncInv /\ [Next]_vars => SyncInv'
<1>1. SUFFICES ASSUME SyncInv, [Next]_vars PROVE SyncInv'
    OBVIOUS
<1>2. TypeInv /\ TypeInv'
    BY <1>1, TypeStep DEF SyncInv
<1>3. ASSUME NEW c \in Client PROVE ClientInv(c)'
    <2>1. CASE Unaffected(c)
        BY <1>1, <1>2, <2>1, UnaffectedKeepsInv DEF SyncInv
    <2>2. CASE Touches(c)
        BY <1>1, <1>2, <2>2, AddBottleKeepsInv, GetDirtyKeepsInv, AckingKeepsInv,
           MergingKeepsInv, PushOneRowKeepsInv, PullReadsRowsKeepsInv DEF Touches
    <2> QED
        BY <1>1, <1>2, <2>1, <2>2, OthersUnaffected
<1> QED
    BY <1>2, <1>3 DEF SyncInv

LEMMA SyncInitially == Init => SyncInv
<1>1. SUFFICES ASSUME Init PROVE \A c \in Client : ClientInv(c)
    BY TypeInit DEF SyncInv
<1> QED
    BY <1>1 DEF Init, NoCall, ClientInv, CleanRows, LocalIds, BodyIsLocal,
                AcksByTime, RowsByTime

LEMMA OriginInitially == Init => OriginInv
<1>1. SUFFICES ASSUME Init PROVE OriginInv
    OBVIOUS
<1>2. Stored = {} /\ orphans = {}
    BY <1>1 DEF Init, Stored
<1>3. ASSUME NEW c \in Client PROVE Origin(c)
    BY <1>1 DEF Init, Origin, LocalIds, DirtyIds, NoCall
<1> QED
    BY <1>1, <1>2, <1>3, SyncInitially DEF OriginInv, OrphansOrigin, StoredOrigin, FactoryIsAhead

LEMMA OriginStep == OriginInv /\ [Next]_vars => OriginInv'
<1>1. SUFFICES ASSUME OriginInv, [Next]_vars PROVE OriginInv'
    OBVIOUS
<1>2. SyncInv'
    BY <1>1, SyncStep DEF OriginInv
<1> QED
    BY <1>1, <1>2, BrowsersKeepOrigin, ServerKeepsOrigin, FactoryStaysAhead DEF OriginInv

LEMMA OriginInvariance == Spec => []OriginInv
BY OriginInitially, OriginStep, PTL DEF Spec

\* The id factory never falls back on an id in use, whatever ids the browsers'
\* pushes put next to its own and wherever it was stopped (add_bottle, and
\* max_persisted_tick at a restart).
THEOREM FreshIds == Spec => []ServerIdsAreFresh
<1>1. OriginInv => ServerIdsAreFresh
    <2>1. SUFFICES ASSUME OriginInv, NextId(SERVER_SOURCE, tick) \in Id,
                          srv[NextId(SERVER_SOURCE, tick)] # NoRow
                   PROVE  FALSE
        BY DEF ServerIdsAreFresh
    <2>2. tick \in Nat
        BY <2>1 DEF OriginInv, SyncInv, TypeInv, TypeOK
    <2>3. /\ TickOf(NextId(SERVER_SOURCE, tick)) = tick + 1
          /\ SourceOf(NextId(SERVER_SOURCE, tick)) = SERVER_SOURCE
        BY <2>2, SourcesDiffer, PackUnpack DEF NextId
    <2>4. tick + 1 <= tick
        BY <2>1, <2>3 DEF OriginInv, FactoryIsAhead, Stored
    <2> QED
        BY <2>2, <2>4
<1> QED
    BY <1>1, OriginInvariance, PTL

-----------------------------------------------------------------------------
(* Acknowledgements can be trusted: a version the server's table is not      *)
(* behind is the one it holds, or was tied with it.                          *)

LEMMA HeldOrTied ==
    ASSUME OriginInv, NEW v \in minted, HoldsTime(v.id, v.at)
    PROVE  Holds(v.id, v.at, v.unit)
<1>1. v.id \in Id /\ v.at \in Nat /\ srv[v.id] \in ServerRow /\ srv[v.id].at \in Nat
    BY SyncAssumption
    DEF OriginInv, SyncInv, TypeInv, TypeOK, Version, Time, HoldsTime, ServerRow
<1>2. StoredVersion[v.id] \in minted
    BY <1>1 DEF OriginInv, StoredOrigin, Stored, HoldsTime
<1>3. StoredVersion[v.id] = [id |-> v.id, at |-> srv[v.id].at, unit |-> srv[v.id].unit]
    BY <1>1 DEF StoredVersion, HoldsTime
<1>4. CASE srv[v.id].at > v.at
    BY <1>4 DEF Holds, HoldsTime
<1>5. CASE srv[v.id].at = v.at /\ srv[v.id].unit # v.unit
    <2>1. Tied(v.id, v.at)
        BY <1>2, <1>3, <1>5 DEF Tied
    <2> QED
        BY <1>5, <2>1 DEF Holds, HoldsTime
<1>6. CASE srv[v.id].at = v.at /\ srv[v.id].unit = v.unit
    BY <1>6 DEF Holds, HoldsTime
<1> QED
    BY <1>1, <1>4, <1>5, <1>6 DEF HoldsTime

LEMMA LocalHeldOrTied ==
    ASSUME OriginInv, NEW c \in Client, NEW i \in LocalIds(c), HoldsTime(i, local[c][i].at)
    PROVE  HoldsLocal(c, i)
<1>1. LocalVersion(c, i) \in minted
    BY DEF OriginInv, Origin
<1>2. /\ LocalVersion(c, i).id = i
      /\ LocalVersion(c, i).at = local[c][i].at
      /\ LocalVersion(c, i).unit = local[c][i].unit
    BY DEF LocalVersion
<1> QED
    BY <1>1, <1>2, HeldOrTied DEF HoldsLocal

\* What is in flight is backed by the tables: a push still carries the local
\* bottles, an ack is for a version the server holds, a pulled row as well.
THEOREM InFlightBacked == Spec => []RequestsAreBacked
<1>1. OriginInv => RequestsAreBacked
    <2>1. SUFFICES ASSUME OriginInv, NEW c \in Client
                   PROVE  BodyIsLocal(c) /\ AcksAreBacked(c) /\ RowsAreBacked(c)
        BY DEF RequestsAreBacked
    <2>2. ClientInv(c)
        BY <2>1 DEF OriginInv, SyncInv
    <2>3. AcksAreBacked(c)
        <3>1. ASSUME NEW i \in call[c].acks PROVE local[c][i] # NoRow /\ HoldsLocal(c, i)
            <4>1. i \in Id
                BY <2>1 DEF OriginInv, SyncInv, TypeInv, TypeOK, Call
            <4>2. i \in LocalIds(c) /\ HoldsTime(i, local[c][i].at)
                BY <2>2, <4>1 DEF ClientInv, AcksByTime, LocalIds
            <4> QED
                BY <2>1, <4>2, LocalHeldOrTied DEF LocalIds
        <3> QED
            BY <3>1 DEF AcksAreBacked
    <2>4. RowsAreBacked(c)
        <3>1. ASSUME NEW r \in call[c].rows PROVE Holds(r.id, r.at, r.unit)
            <4>1. VersionOf(r) \in minted /\ HoldsTime(r.id, r.at)
                BY <2>1, <2>2 DEF ClientInv, RowsByTime, OriginInv, Origin
            <4>2. VersionOf(r).id = r.id /\ VersionOf(r).at = r.at /\ VersionOf(r).unit = r.unit
                BY DEF VersionOf
            <4> QED
                BY <2>1, <4>1, <4>2, HeldOrTied
        <3> QED
            BY <2>2, <3>1 DEF RowsAreBacked, ClientInv, RowsByTime
    <2> QED
        BY <2>2, <2>3, <2>4 DEF ClientInv
<1> QED
    BY <1>1, OriginInvariance, PTL

\* A clean local row is on the server, the same bottle in its version or a newer
\* version of its id, for any number of browsers and whatever is lost, repeated
\* or cut short: apply_acks and apply_pull never clear a dirty bit too early.
\* Only a bottle that was given one id at one time with another may have lost
\* the tie to it.
THEOREM AcksCanBeTrusted == Spec => []CleanRowsAreStored
<1>1. OriginInv => CleanRowsAreStored
    <2>1. SUFFICES ASSUME OriginInv, NEW c \in Client, NEW i \in LocalIds(c),
                          local[c][i].dirty = 0
                   PROVE  HoldsLocal(c, i)
        BY DEF CleanRowsAreStored
    <2>2. HoldsTime(i, local[c][i].at)
        BY <2>1 DEF OriginInv, SyncInv, ClientInv, CleanRows
    <2> QED
        BY <2>1, <2>2, LocalHeldOrTied
<1> QED
    BY <1>1, OriginInvariance, PTL

-----------------------------------------------------------------------------
(* The server's table is a last-write-wins store.                           *)

LEMMA UpsertStores ==
    ASSUME OriginInv, NEW r \in PushRow, Pushable(r), Upsert(r), minted' = minted
    PROVE  [Lww!Next]_Lww!vars
<1>1. TypeInv /\ VersionOf(r) \in minted /\ r.id \in Id /\ r.id \in Nat
    BY IdIsNat DEF OriginInv, SyncInv, Pushable, PushRow
<1>2. CASE srv' = srv
    BY <1>2 DEF Lww!vars, StoredVersion
<1>3. CASE Writes(r)
    <2>1. srv' = [srv EXCEPT ![r.id] = [at |-> r.at, unit |-> r.unit, seq |-> seq + 1]]
        BY <1>3 DEF Upsert, Write
    <2>2. [at |-> r.at, unit |-> r.unit, seq |-> seq + 1] # NoRow
        <3>1. [at |-> r.at, unit |-> r.unit, seq |-> seq + 1] \in ServerRow
            BY <1>1 DEF ServerRow, PushRow, TypeInv, TypeOK
        <3> QED
            BY <3>1, NoRowIsNoRecord
    <2>3. StoredVersion' = [StoredVersion EXCEPT ![r.id] = VersionOf(r)]
        BY <1>1, <2>1, <2>2 DEF StoredVersion, VersionOf, TypeInv, TypeOK
    <2>4. srv[r.id] = NoRow \/ r.at > srv[r.id].at
        BY <1>1, <1>3 DEF Writes, Wins
    <2>5. Lww!Newer(VersionOf(r))
        BY <1>1, <2>4 DEF Lww!Newer, StoredVersion, VersionOf
    <2>6. VersionOf(r).id = r.id /\ VersionOf(r) \in Version
        BY DEF VersionOf, Version, PushRow
    <2>7. Lww!Store(VersionOf(r))
        BY <1>1, <2>3, <2>5, <2>6 DEF Lww!Store
    <2> QED
        BY <2>6, <2>7 DEF Lww!Next
<1> QED
    BY <1>2, <1>3 DEF Upsert

LEMMA MintMints ==
    ASSUME TypeInv, NEW c \in Client, AddBottle(c)
    PROVE  [Lww!Next]_Lww!vars
<1> DEFINE id == NextId(CLIENT_SOURCE, HighestTick(LocalIds(c)))
<1>1. id \in Id /\ Cardinality(minted) < MaxBottles
    BY DEF AddBottle
<1>2. PICK now \in Time : minted' = minted \cup {[id |-> id, at |-> now, unit |-> NewUnit]}
    BY DEF AddBottle
<1>3. StoredVersion' = StoredVersion
    BY DEF AddBottle, serverVars, StoredVersion
<1> HIDE DEF id
<1> DEFINE v == [id |-> id, at |-> now, unit |-> NewUnit]
<1>4. v \in Version
    BY <1>1, NewVersion DEF TypeInv, Version
<1>5. CASE v \in minted
    BY <1>2, <1>3, <1>5 DEF Lww!vars
<1>6. CASE v \notin minted
    <2>1. Lww!Mint(v)
        BY <1>2, <1>3, <1>6 DEF Lww!Mint
    <2> QED
        BY <1>4, <2>1 DEF Lww!Next
<1> QED
    BY <1>5, <1>6

LEMMA ServerMintStores ==
    ASSUME TypeInv, ServerAddBottle
    PROVE  [Lww!Next]_Lww!vars
<1> DEFINE id == NextId(SERVER_SOURCE, tick)
<1>1. CASE srv[id] # NoRow
    BY <1>1 DEF ServerAddBottle, Lww!vars, StoredVersion
<1>2. CASE srv[id] = NoRow
    <2>1. id \in Id /\ Cardinality(minted) < MaxBottles
        BY DEF ServerAddBottle
    <2>2. PICK now \in Time :
              /\ Write(id, now, NewUnit)
              /\ minted' = minted \cup {[id |-> id, at |-> now, unit |-> NewUnit]}
        BY <1>2 DEF ServerAddBottle
    <2> HIDE DEF id
    <2> DEFINE v == [id |-> id, at |-> now, unit |-> NewUnit]
    <2>3. v \in Version /\ NewUnit \in Unit
        BY <2>1, NewVersion DEF TypeInv, Version
    <2>4. [at |-> now, unit |-> NewUnit, seq |-> seq + 1] # NoRow
        <3>1. [at |-> now, unit |-> NewUnit, seq |-> seq + 1] \in ServerRow
            BY <2>3 DEF ServerRow, TypeInv, TypeOK
        <3> QED
            BY <3>1, NoRowIsNoRecord
    <2>5. StoredVersion' = [StoredVersion EXCEPT ![id] = v]
        BY <2>1, <2>2, <2>4 DEF Write, StoredVersion, TypeInv, TypeOK
    <2>6. StoredVersion[id] = NoRow
        BY <1>2, <2>1 DEF StoredVersion
    <2>7. v.id = id
        OBVIOUS
    <2> HIDE DEF v
    <2>8. CASE v \in minted
        <3>1. Lww!Store(v)
            BY <2>2, <2>5, <2>6, <2>7, <2>8 DEF Lww!Store, Lww!Newer, v
        <3> QED
            BY <2>3, <3>1 DEF Lww!Next
    <2>9. CASE v \notin minted
        <3>1. Lww!MintStored(v)
            BY <2>2, <2>5, <2>6, <2>7, <2>9 DEF Lww!MintStored, v
        <3> QED
            BY <2>3, <3>1 DEF Lww!Next
    <2> QED
        BY <2>8, <2>9
<1> QED
    BY <1>1, <1>2

LEMMA StoreSteps ==
    ASSUME OriginInv, [Next]_vars
    PROVE  [Lww!Next]_Lww!vars
<1>1. CASE ServerAddBottle
    BY <1>1, ServerMintStores DEF OriginInv, SyncInv
<1>2. CASE \E c \in Client : AddBottle(c)
    BY <1>2, MintMints DEF OriginInv, SyncInv
<1>3. CASE minted' = minted /\ UNCHANGED <<srv, seq>>
    BY <1>3 DEF Lww!vars, StoredVersion
<1>4. CASE minted' = minted /\ ~ UNCHANGED <<srv, seq>> /\ ~ServerAddBottle
    <2>1. \E r \in PushRow : Pushable(r) /\ Upsert(r)
        BY <1>4, Writers DEF OriginInv, SyncInv, Origin, OrphansOrigin
    <2> QED
        BY <1>4, <2>1, UpsertStores
<1> QED
    BY <1>1, <1>2, <1>3, <1>4, MintingSteps

\* The bottle table is the last-write-wins store of LwwStore, for any number of
\* browsers: push's upsert and add_bottle offer versions to it that were
\* created, and nothing else changes it.
THEOREM StoreImplemented == Spec => ImplementsLwwStore
<1>1. Init => Lww!Init
    BY DEF Init, Lww!Init, StoredVersion
<1> QED
    BY <1>1, OriginInvariance, StoreSteps, PTL DEF Spec, ImplementsLwwStore, Lww!Spec

-----------------------------------------------------------------------------
(* One browser alone.                                                       *)

Alone == \A c, d \in Client : c = d

\* Every bottle a browser recorded is in its table, as it was recorded.
KeepsOwn(c) ==
    \A v \in minted : SourceOf(v.id) = CLIENT_SOURCE =>
        /\ v.id \in LocalIds(c)
        /\ local[c][v.id].at = v.at
        /\ local[c][v.id].unit = v.unit

AloneInv == OriginInv /\ \A c \in Client : KeepsOwn(c)

\* The steps by which a browser's table changes.
LEMMA LocalSteps ==
    ASSUME TypeInv, [Next]_vars, NEW c \in Client
    PROVE  \/ local'[c] = local[c]
           \/ AddBottle(c)
           \/ ApplyAcks(c) \/ ApplyAcksFails(c)
           \/ ApplyPull(c) \/ ApplyPullFails(c)
<1>1. GetDirty(c) \/ PushOneRow(c) \/ PullReadsRows(c) => local' = local
    BY DEF GetDirty, PushOneRow, PullReadsRows, storeVars
<1> QED
    BY <1>1, OthersUnaffected DEF Unaffected, Touches

\* A pulled row with the id of an own bottle is that bottle.
LEMMA MergingKeepsOwn ==
    ASSUME AloneInv, NEW c \in Client, NEW v \in minted, SourceOf(v.id) = CLIENT_SOURCE,
           ApplyPull(c) \/ ApplyPullFails(c)
    PROVE  /\ local'[c][v.id] # NoRow
           /\ local'[c][v.id].at = v.at /\ local'[c][v.id].unit = v.unit
<1>1. PICK done \in SUBSET call[c].rows : local' = [local EXCEPT ![c] = Merged(@, done)]
    BY DEF ApplyPull, ApplyPullFails
<1>2. /\ local[c] \in [Id -> LocalRow \cup {NoRow}]
      /\ done \in SUBSET PullRow
      /\ \A p, q \in done : p.id = q.id => p = q
    BY <1>1, ResponseRows DEF AloneInv, OriginInv
<1>3. local'[c] = Merged(local[c], done)
    BY <1>1 DEF AloneInv, OriginInv, SyncInv, TypeInv, TypeOK
<1>4. /\ v.id \in Id /\ local[c][v.id] # NoRow
      /\ local[c][v.id].at = v.at /\ local[c][v.id].unit = v.unit
    BY DEF AloneInv, KeepsOwn, LocalIds
<1>5. \/ Merged(local[c], done)[v.id] = local[c][v.id]
      \/ \E r \in done :
            /\ r.id = v.id
            /\ Merged(local[c], done)[v.id] =
                  [at |-> r.at, unit |-> r.unit, lot |-> DemoLot, dirty |-> 0]
            /\ Merged(local[c], done)[v.id] \in LocalRow
    <2> HIDE <1>3
    <2> QED
        BY <1>2, <1>4, MergedRows
<1>6. ASSUME NEW r \in done, r.id = v.id PROVE r.at = v.at /\ r.unit = v.unit
    <2>1. VersionOf(r) \in minted /\ VersionOf(r).id = v.id
          /\ VersionOf(r).at = r.at /\ VersionOf(r).unit = r.unit
        BY <1>1, <1>6 DEF AloneInv, OriginInv, Origin, VersionOf
    <2> QED
        BY <1>4, <2>1 DEF AloneInv, KeepsOwn
<1>7. CASE Merged(local[c], done)[v.id] = local[c][v.id]
    BY <1>3, <1>4, <1>7
<1>8. ASSUME NEW r \in done, r.id = v.id,
             Merged(local[c], done)[v.id] =
                 [at |-> r.at, unit |-> r.unit, lot |-> DemoLot, dirty |-> 0],
             Merged(local[c], done)[v.id] \in LocalRow
      PROVE  /\ local'[c][v.id] # NoRow
             /\ local'[c][v.id].at = v.at /\ local'[c][v.id].unit = v.unit
    BY <1>3, <1>6, <1>8, NoRowIsNoRecord
<1> QED
    BY <1>5, <1>7, <1>8

LEMMA KeepsOwnStep ==
    ASSUME Alone, AloneInv, [Next]_vars, NEW c \in Client
    PROVE  KeepsOwn(c)'
<1>1. TypeInv /\ KeepsOwn(c) /\ local[c] \in [Id -> LocalRow \cup {NoRow}]
    BY DEF AloneInv, OriginInv, SyncInv, TypeInv, TypeOK
<1>2. CASE AddBottle(c)
    <2> DEFINE id == NextId(CLIENT_SOURCE, HighestTick(LocalIds(c)))
    <2>1. id \in Id /\ id \notin LocalIds(c)
        BY <1>2, AddedIdIsFresh
    <2>2. PICK now \in Time :
              /\ local' = [local EXCEPT ![c][id] =
                     [at |-> now, unit |-> NewUnit, lot |-> defaultLot[c], dirty |-> 1]]
              /\ minted' = minted \cup {[id |-> id, at |-> now, unit |-> NewUnit]}
        BY <1>2 DEF AddBottle
    <2> HIDE DEF id
    <2> DEFINE row == [at |-> now, unit |-> NewUnit, lot |-> defaultLot[c], dirty |-> 1]
    <2>3. row \in LocalRow /\ row # NoRow
        <3>1. NewUnit \in Unit
            BY <1>1, <1>2, <2>1, NewVersion DEF AddBottle, TypeInv
        <3>2. defaultLot[c] \in Lot
            BY <1>1 DEF TypeInv, TypeOK
        <3>3. row \in LocalRow
            BY <3>1, <3>2 DEF LocalRow
        <3> QED
            BY <3>3, NoRowIsNoRecord
    <2>4. /\ \A i \in Id \ {id} : local'[c][i] = local[c][i]
          /\ local'[c][id] = row
        BY <1>1, <2>1, <2>2 DEF TypeInv, TypeOK
    <2>5. ASSUME NEW v \in minted', SourceOf(v.id) = CLIENT_SOURCE
          PROVE  v.id \in LocalIds(c)' /\ local'[c][v.id].at = v.at
                 /\ local'[c][v.id].unit = v.unit
        <3>1. CASE v \in minted
            BY <1>1, <2>1, <2>4, <2>5, <3>1 DEF KeepsOwn, LocalIds
        <3>2. CASE v = [id |-> id, at |-> now, unit |-> NewUnit]
            BY <2>1, <2>3, <2>4, <3>2 DEF LocalIds
        <3> QED
            BY <2>2, <3>1, <3>2
    <2> QED
        BY <2>5 DEF KeepsOwn
<1>3. CASE ~AddBottle(c)
    <2>1. ASSUME NEW v \in minted', SourceOf(v.id) = CLIENT_SOURCE
          PROVE  v \in minted
        <3>1. CASE minted' = minted
            BY <3>1
        <3>2. CASE ServerAddBottle
            <4>1. tick \in Nat
                BY <1>1 DEF TypeInv, TypeOK
            <4>2. SourceOf(NextId(SERVER_SOURCE, tick)) = SERVER_SOURCE
                BY <4>1, SourcesDiffer, PackUnpack DEF NextId
            <4>3. v \in minted \/ v.id = NextId(SERVER_SOURCE, tick)
                BY <3>2 DEF ServerAddBottle
            <4> QED
                BY <2>1, <4>2, <4>3, SourcesDiffer
        <3>3. ~ \E d \in Client : AddBottle(d)
            BY <1>3 DEF Alone
        <3> QED
            BY <3>1, <3>2, <3>3, MintingSteps
    <2>2. ASSUME NEW v \in minted, SourceOf(v.id) = CLIENT_SOURCE
          PROVE  v.id \in Id /\ local'[c][v.id] # NoRow
                 /\ local'[c][v.id].at = v.at /\ local'[c][v.id].unit = v.unit
        <3>1. /\ v.id \in Id /\ local[c][v.id] # NoRow
              /\ local[c][v.id].at = v.at /\ local[c][v.id].unit = v.unit
            BY <1>1, <2>2 DEF KeepsOwn, LocalIds
        <3>2. CASE local'[c] = local[c]
            BY <3>1, <3>2
        <3>3. CASE ApplyAcks(c) \/ ApplyAcksFails(c)
            <4>1. PICK done : local' = [local EXCEPT ![c] = Acked(@, done)]
                BY <3>3 DEF ApplyAcks, ApplyAcksFails
            <4>2. local'[c] = Acked(local[c], done)
                BY <4>1 DEF AloneInv, OriginInv, SyncInv, TypeInv, TypeOK
            <4>3. /\ Acked(local[c], done)[v.id] \in LocalRow
                  /\ Acked(local[c], done)[v.id].at = local[c][v.id].at
                  /\ Acked(local[c], done)[v.id].unit = local[c][v.id].unit
                <5> HIDE <4>2
                <5> QED
                    BY <1>1, <3>1, AckedType
            <4> QED
                BY <3>1, <4>2, <4>3, NoRowIsNoRecord
        <3>4. CASE ApplyPull(c) \/ ApplyPullFails(c)
            BY <2>2, <3>1, <3>4, MergingKeepsOwn
        <3> QED
            BY <1>1, <1>3, <3>2, <3>3, <3>4, LocalSteps
    <2> QED
        BY <2>1, <2>2 DEF KeepsOwn, LocalIds
<1> QED
    BY <1>2, <1>3

LEMMA AloneInvariance == ASSUME Alone PROVE Spec => []AloneInv
<1>1. Init => AloneInv
    BY OriginInitially DEF Init, AloneInv, KeepsOwn
<1>2. AloneInv /\ [Next]_vars => AloneInv'
    BY KeepsOwnStep, OriginStep DEF AloneInv
<1> QED
    BY <1>1, <1>2, PTL DEF Spec

\* No bottle is lost, nor becomes another, while one browser alone mints ids of
\* its source (the constant SOURCE_ID of handle.rs): through every pass, retry,
\* abandoned push and restart it keeps each as recorded, and when it is clean
\* the server has that same bottle.
THEOREM NothingLostAlone == ASSUME Alone PROVE Spec => []NoBottleLost
<1>1. AloneInv => NoBottleLost
    <2>1. SUFFICES ASSUME AloneInv, NEW c \in Client, NEW v \in minted,
                          SourceOf(v.id) = CLIENT_SOURCE
                   PROVE  /\ local[c][v.id] # NoRow
                          /\ local[c][v.id].unit = v.unit
                          /\ local[c][v.id].dirty = 0 =>
                                 srv[v.id] # NoRow /\ srv[v.id].unit = v.unit
        BY DEF NoBottleLost
    <2>2. /\ v.id \in LocalIds(c) /\ v.id \in Id /\ local[c][v.id] # NoRow
          /\ local[c][v.id].unit = v.unit
        BY <2>1 DEF AloneInv, KeepsOwn, LocalIds
    <2>3. ASSUME local[c][v.id].dirty = 0
          PROVE  srv[v.id] # NoRow /\ srv[v.id].unit = v.unit
        <3>1. srv[v.id] # NoRow
            BY <2>1, <2>2, <2>3
               DEF AloneInv, OriginInv, SyncInv, ClientInv, CleanRows, HoldsTime
        <3>2. StoredVersion[v.id] \in minted
            BY <2>1, <2>2, <3>1 DEF AloneInv, OriginInv, StoredOrigin, Stored
        <3>3. StoredVersion[v.id].id = v.id /\ StoredVersion[v.id].unit = srv[v.id].unit
            BY <2>2, <3>1 DEF StoredVersion
        <3>4. local[c][v.id].unit = srv[v.id].unit
            BY <2>1, <3>2, <3>3 DEF AloneInv, KeepsOwn
        <3> QED
            BY <2>2, <3>1, <3>4
    <2> QED
        BY <2>2, <2>3
<1> QED
    BY <1>1, AloneInvariance, PTL
=============================================================================

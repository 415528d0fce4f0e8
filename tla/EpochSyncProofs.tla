--------------------------- MODULE EpochSyncProofs ---------------------------
(***************************************************************************)
(* Theorems of EpochSync, for any number of databases, mirror tables,      *)
(* bottles and failures.                                                   *)
(***************************************************************************)
EXTENDS EpochSync, SharedProofs

-----------------------------------------------------------------------------
(* Type correctness. *)

\* No row was stamped later than the last stamp.
StampsBounded ==
    /\ \A i \in Id : srvBottle[i] # NoRow => srvBottle[i].seq <= seq
    /\ \A i \in RefId : srvRef[i] # NoRow => srvRef[i].seq <= seq

TypeInv == TypeOK /\ StampsBounded

LEMMA RowTypes ==
    /\ NoRow \notin Value
    /\ NoRow \notin SrvBottleRow
    /\ NoRow \notin SrvRefRow
BY EpochAssumption

LEMMA NoReplyType ==
    /\ NoReply \in Reply
    /\ Refused \in Reply
    /\ epoch \in Nat => Accepted \in Reply
BY DEF NoReply, Reply, NoEpoch, Refused, Accepted

LEMMA IdIsNat ==
    /\ Id \subseteq Nat
    /\ \A i \in Id : i <= (MaxTick + 1) * SourceSpan
    /\ (MaxTick + 1) * SourceSpan \in Nat
<1> USE EpochAssumption
<1>1. SUFFICES ASSUME NEW t \in 1..MaxTick, NEW s \in {SERVER_SOURCE, CLIENT_SOURCE}
               PROVE  Pack(t, s) \in Nat /\ Pack(t, s) <= (MaxTick + 1) * SourceSpan
    BY DEF Id, SourceSpan
<1> QED
    BY DEF Pack, SourceSpan, SERVER_SOURCE, CLIENT_SOURCE

\* max() of a bounded set of stamps is one of them and bounds them.
LEMMA HighestBounds ==
    ASSUME NEW S \in SUBSET Nat, S # {}, NEW B \in Nat, \A n \in S : n <= B
    PROVE  Highest(S) \in S /\ \A n \in S : n <= Highest(S)
<1>1. \E m \in S : \A n \in S : n <= m
    BY MaxExists
<1> QED
    BY <1>1, Zenon DEF Highest

LEMMA StampsType ==
    ASSUME TypeInv
    PROVE  /\ Highest({0} \cup Stamps) \in Nat
           /\ \A i \in SrvIds : srvBottle[i] \in SrvBottleRow
<1>1. \A i \in SrvIds : srvBottle[i] \in SrvBottleRow /\ srvBottle[i].seq <= seq
    BY DEF TypeInv, TypeOK, StampsBounded, SrvIds
<1>2. {0} \cup Stamps \in SUBSET Nat /\ \A n \in {0} \cup Stamps : n <= seq
    BY <1>1 DEF Stamps, SrvBottleRow, TypeInv, TypeOK
<1>3. seq \in Nat /\ {0} \cup Stamps # {}
    BY DEF TypeInv, TypeOK
<1>4. Highest({0} \cup Stamps) \in {0} \cup Stamps
    BY <1>2, <1>3, HighestBounds
<1> QED
    BY <1>1, <1>2, <1>4

\* The answer to a reference pull: its rows, and the cursor that covers them.
LEMMA RefChangesFacts ==
    ASSUME TypeInv
    PROVE  /\ RefChanges \in SUBSET PulledRef
           /\ RefHigh(RefChanges) \in Nat
           /\ refCursor <= seq => RefHigh(RefChanges) <= seq
           /\ \A p, q \in RefChanges : p.id = q.id => p = q
           /\ \A r \in RefChanges :
                 /\ srvRef[r.id] # NoRow
                 /\ srvRef[r.id].seq = r.seq
                 /\ srvRef[r.id].value = r.value
                 /\ r.seq > refCursor
           /\ \A i \in RefIds : srvRef[i].seq > refCursor =>
                 \E r \in RefChanges : r.id = i /\ r.value = srvRef[i].value
<1>1. \A i \in RefIds : i \in RefId /\ srvRef[i] \in SrvRefRow /\ srvRef[i].seq <= seq
    BY DEF TypeInv, TypeOK, StampsBounded, RefIds
<1>2. RefChanges \in SUBSET PulledRef
    BY <1>1 DEF RefChanges, PulledRef, SrvRefRow
<1>3. \A r \in RefChanges : r.seq \in Nat /\ r.seq <= seq
    BY <1>1 DEF RefChanges, SrvRefRow
<1>4. seq \in Nat /\ refCursor \in Nat
    BY DEF TypeInv, TypeOK
<1> DEFINE S == {refCursor} \cup {r.seq : r \in RefChanges}
<1>5. S \in SUBSET Nat /\ S # {}
    BY <1>3, <1>4
<1>6. \A n \in S : n <= refCursor + seq
    BY <1>3, <1>4
<1>7. RefHigh(RefChanges) \in S
    <2>1. Highest(S) \in S
        <3> HIDE DEF S
        <3> QED BY <1>4, <1>5, <1>6, HighestBounds
    <2> QED BY <2>1 DEF RefHigh
<1>8. refCursor <= seq => RefHigh(RefChanges) <= seq
    BY <1>3, <1>7
<1>9. \A p, q \in RefChanges : p.id = q.id => p = q
    BY DEF RefChanges
<1>10. \A r \in RefChanges :
           /\ srvRef[r.id] # NoRow
           /\ srvRef[r.id].seq = r.seq
           /\ srvRef[r.id].value = r.value
           /\ r.seq > refCursor
    BY DEF RefChanges, RefIds
<1>11. ASSUME NEW i \in RefIds, srvRef[i].seq > refCursor
       PROVE  \E r \in RefChanges : r.id = i /\ r.value = srvRef[i].value
    <2> DEFINE w == [id |-> i, value |-> srvRef[i].value, seq |-> srvRef[i].seq]
    <2>1. w \in RefChanges
        BY <1>11, Zenon DEF RefChanges
    <2>2. w.id = i /\ w.value = srvRef[i].value
        OBVIOUS
    <2> QED
        BY <2>1, <2>2, Zenon
<1> QED
    BY <1>2, <1>5, <1>7, <1>8, <1>9, <1>10, <1>11

LEMMA PulledType ==
    ASSUME NEW table \in SUBSET BottleRow, NEW rows \in SUBSET PulledBottle
    PROVE  Pulled(table, rows) \in SUBSET BottleRow
BY DEF Pulled, BottleRow, PulledBottle

LEMMA MirroredType ==
    ASSUME NEW table \in [RefId -> Value \cup {NoRow}], NEW rows \in SUBSET PulledRef
    PROVE  /\ Mirrored(table, rows) \in [RefId -> Value \cup {NoRow}]
           /\ \A i \in RefId :
                 Mirrored(table, rows)[i] = table[i]
                 \/ \E r \in rows : r.id = i /\ Mirrored(table, rows)[i] = r.value
<1>1. ASSUME NEW i \in RefId, \E r \in rows : r.id = i
      PROVE  LET c == CHOOSE r \in rows : r.id = i IN c \in rows /\ c.id = i
    BY <1>1, Zenon
<1>2. ASSUME NEW i \in RefId
      PROVE  \/ Mirrored(table, rows)[i] = table[i]
             \/ \E r \in rows : r.id = i /\ Mirrored(table, rows)[i] = r.value
    BY <1>1, Zenon DEF Mirrored
<1>3. \A i \in RefId : Mirrored(table, rows)[i] \in Value \cup {NoRow}
    BY <1>2 DEF PulledRef
<1>4. Mirrored(table, rows) = [i \in RefId |-> Mirrored(table, rows)[i]]
    BY Zenon DEF Mirrored
<1> QED
    BY <1>2, <1>3, <1>4

LEMMA SeededType ==
    ASSUME NEW n \in RefId, NEW contents \in [RefId -> Value]
    PROVE  /\ Seeded(n, contents) \in [RefId -> SrvRefRow \cup {NoRow}]
           /\ n \in Nat
           /\ \A i \in RefId : Seeded(n, contents)[i] # NoRow =>
                  Seeded(n, contents)[i].seq <= n
BY EpochAssumption, RowTypes DEF Seeded, SrvRefRow, RefId

LEMMA TypeInit == Init => TypeInv
<1> SUFFICES ASSUME Init PROVE TypeInv
    OBVIOUS
<1> USE EpochAssumption, RowTypes DEF Init
<1>1. PICK n \in RefId, contents \in [RefId -> Value] :
          srvRef = Seeded(n, contents) /\ seq = n
    OBVIOUS
<1>2. srvRef \in [RefId -> SrvRefRow \cup {NoRow}] /\ seq \in Nat
      /\ \A i \in RefId : srvRef[i] # NoRow => srvRef[i].seq <= seq
    BY <1>1, SeededType
<1>3. TypeOK
    BY <1>2, NoReplyType DEF TypeOK, NoEpoch
<1>4. StampsBounded
    BY <1>2 DEF StampsBounded
<1> QED
    BY <1>3, <1>4 DEF TypeInv

LEMMA GotoType ==
    ASSUME NEW stage \in {"idle", "meta", "bottles", "push", "pull", "reference", "refpull", "wedged"},
           Goto(stage)
    PROVE  /\ pc' \in {"idle", "meta", "bottles", "push", "pull", "reference", "refpull", "wedged"}
           /\ body' = {}
           /\ body' \in SUBSET BottleRow
           /\ reply' = NoReply
           /\ reply' \in Reply
BY NoReplyType DEF Goto

LEMMA EndPassGoes == EndPass => \E stage \in {"idle", "wedged"} : Goto(stage)
BY DEF EndPass

LEMMA ResetType ==
    ASSUME TypeInv, NEW n \in Nat, NEW e \in Nat, ResetUpTo(n, e)
    PROVE  /\ missing' \in SUBSET Table
           /\ bottle' \in SUBSET BottleRow
           /\ ref' \in [RefId -> Value \cup {NoRow}]
           /\ cursor' \in Nat
           /\ refCursor' \in Nat
           /\ stored' \in Nat
BY DEF TypeInv, TypeOK, ResetUpTo, ResetTables, Dropped, Made

LEMMA TypeStep == TypeInv /\ [Next]_vars => TypeInv'
<1> SUFFICES ASSUME TypeInv, [Next]_vars PROVE TypeInv'
    OBVIOUS
<1> USE DEF tables, syncState, page, server
<1>0. CASE UNCHANGED vars
    BY <1>0 DEF vars, TypeInv, TypeOK, StampsBounded
<1>a. LastStatement \in Nat /\ \A n \in 0..(LastStatement - 1) : n \in Nat
    BY EpochAssumption DEF LastStatement, TableCount
<1>b. reply.from \in Nat /\ reply.high \in Nat /\ reply.acks \in SUBSET Id
      /\ reply.rows \in SUBSET PulledBottle /\ reply.refs \in SUBSET PulledRef
      /\ reply.lot \in Lot \cup {NoLot}
    BY DEF TypeInv, TypeOK, Reply
<1>1. CASE AddBottle
    <2> DEFINE id == NextId(CLIENT_SOURCE, HighestTick(LocalIds))
    <2>1. id \in Id /\ units \in Nat /\ units < MaxBottles /\ units + 1 \in Unit
        BY <1>1, EpochAssumption DEF AddBottle, TypeInv, TypeOK, Unit
    <2>2. bottle' = bottle \cup {[id |-> id, unit |-> units + 1, lot |-> defaultLot, dirty |-> 1]}
        BY <1>1 DEF AddBottle
    <2>3. bottle' \in SUBSET BottleRow
        BY <2>1, <2>2 DEF TypeInv, TypeOK, BottleRow
    <2> QED
        BY <1>1, <2>1, <2>3 DEF AddBottle, TypeInv, TypeOK, StampsBounded
<1>2. CASE Sync
    BY <1>2, GotoType DEF Sync, TypeInv, TypeOK, StampsBounded
<1>3. ASSUME NEW next \in {"meta", "idle"}, Load(next) PROVE TypeInv'
    <2>1. faults' \in Nat
        BY <1>3 DEF Load, Fault, TypeInv, TypeOK
    <2>2. Goto(next)
        BY <1>3 DEF Load
    <2> QED
        BY <1>3, <2>1, <2>2, GotoType DEF Load, TypeInv, TypeOK, StampsBounded
<1>4. CASE CheckEpoch
    <2>1. /\ missing' \in SUBSET Table
          /\ bottle' \in SUBSET BottleRow
          /\ ref' \in [RefId -> Value \cup {NoRow}]
          /\ cursor' \in Nat
          /\ refCursor' \in Nat
          /\ stored' \in Nat
        <3>1. CASE Outdated(reply.from)
            BY <1>4, <1>a, <1>b, <3>1, ResetType DEF CheckEpoch
        <3>2. CASE ~Outdated(reply.from)
            BY <1>4, <1>b, <3>2 DEF CheckEpoch, TypeInv, TypeOK
        <3> QED
            BY <3>1, <3>2
    <2>2. Goto("bottles")
        BY <1>4 DEF CheckEpoch
    <2> QED
        BY <1>4, <2>1, <2>2, GotoType DEF CheckEpoch, TypeInv, TypeOK, StampsBounded
<1>5. CASE MetaFails
    BY <1>5, GotoType DEF MetaFails, TypeInv, TypeOK, StampsBounded
<1>6. CASE GetDirty
    <2>1. /\ pc' \in {"idle", "meta", "bottles", "push", "pull", "reference", "refpull", "wedged"}
          /\ body' \in SUBSET BottleRow
          /\ reply' \in Reply
        BY <1>6, GotoType, NoReplyType DEF GetDirty, DirtyRows, TypeInv, TypeOK
    <2> QED
        BY <1>6, <2>1 DEF GetDirty, TypeInv, TypeOK, StampsBounded
<1>7. CASE ApplyAcks
    <2>1. bottle' \in SUBSET BottleRow
        BY <1>7 DEF ApplyAcks, TypeInv, TypeOK, BottleRow
    <2> QED
        BY <1>7, <1>b, <2>1, GotoType DEF ApplyAcks, TypeInv, TypeOK, StampsBounded
<1>8. CASE PushFails
    BY <1>8, GotoType DEF PushFails, TypeInv, TypeOK, StampsBounded
<1>9. CASE ApplyPull
    <2>1. bottle' \in SUBSET BottleRow
        BY <1>9, <1>b, PulledType DEF ApplyPull, TypeInv, TypeOK
    <2> QED
        BY <1>9, <1>b, <2>1, GotoType DEF ApplyPull, TypeInv, TypeOK, StampsBounded
<1>10. CASE PullFails
    BY <1>10, GotoType DEF PullFails, TypeInv, TypeOK, StampsBounded
<1>11. CASE SendRefPull
    BY <1>11, GotoType DEF SendRefPull, TypeInv, TypeOK, StampsBounded
<1>12. CASE ApplyReference
    <2>1. Storable(reply.refs) \in SUBSET PulledRef
        BY <1>b DEF Storable
    <2>2. ref' \in [RefId -> Value \cup {NoRow}]
        BY <1>12, <2>1, MirroredType DEF ApplyReference, TypeInv, TypeOK
    <2>3. refCursor' \in Nat
        BY <1>12, <1>b DEF ApplyReference, TypeInv, TypeOK
    <2> QED
        BY <1>12, <2>2, <2>3, EndPassGoes, GotoType DEF ApplyReference, TypeInv, TypeOK, StampsBounded
<1>13. CASE RefPullFails
    BY <1>13, EndPassGoes, GotoType DEF RefPullFails, TypeInv, TypeOK, StampsBounded
<1>14. CASE AnswerMeta
    BY <1>14, NoReplyType DEF AnswerMeta, TypeInv, TypeOK, StampsBounded
<1>15. CASE PushRow
    <2>1. PICK r \in body :
              /\ IF Writes(r)
                 THEN /\ srvBottle' = [srvBottle EXCEPT ![r.id] = [unit |-> r.unit, seq |-> seq + 1]]
                      /\ seq' = seq + 1
                 ELSE UNCHANGED <<srvBottle, seq>>
              /\ body' = body \ {r}
              /\ reply' = [reply EXCEPT !.acks = @ \cup {r.id}]
        BY <1>15 DEF PushRow
    <2>2. r.id \in Id /\ r.unit \in Unit /\ seq \in Nat
        BY DEF TypeInv, TypeOK, BottleRow
    <2>3. [unit |-> r.unit, seq |-> seq + 1] \in SrvBottleRow
        BY <2>2 DEF SrvBottleRow
    <2>4. /\ srvBottle' \in [Id -> SrvBottleRow \cup {NoRow}]
          /\ seq' \in Nat
          /\ seq <= seq'
        BY <2>1, <2>2, <2>3 DEF TypeInv, TypeOK
    <2>5. \A i \in Id : srvBottle'[i] # NoRow => srvBottle'[i].seq <= seq'
        <3> SUFFICES ASSUME NEW i \in Id, srvBottle'[i] # NoRow
                     PROVE  srvBottle'[i].seq <= seq'
            OBVIOUS
        <3>1. CASE Writes(r) /\ i = r.id
            BY <2>1, <2>2, <3>1 DEF TypeInv, TypeOK
        <3>2. CASE ~(Writes(r) /\ i = r.id)
            <4>1. srvBottle'[i] = srvBottle[i]
                BY <2>1, <2>2, <3>2 DEF TypeInv, TypeOK
            <4>2. srvBottle[i] \in SrvBottleRow /\ srvBottle[i].seq <= seq
                BY <4>1 DEF TypeInv, TypeOK, StampsBounded
            <4> QED
                BY <4>1, <4>2, <2>4, <2>2 DEF SrvBottleRow
        <3> QED
            BY <3>1, <3>2
    <2>6. \A i \in RefId : srvRef'[i] # NoRow => srvRef'[i].seq <= seq'
        <3>1. srvRef' = srvRef
            BY <1>15 DEF PushRow
        <3>2. \A i \in RefId : srvRef[i] # NoRow => srvRef[i].seq \in Nat /\ srvRef[i].seq <= seq
            BY DEF TypeInv, TypeOK, StampsBounded, SrvRefRow
        <3> QED
            BY <3>1, <3>2, <2>2, <2>4
    <2>7. body' \in SUBSET BottleRow /\ reply' \in Reply
        BY <2>1, <2>2 DEF TypeInv, TypeOK, Reply
    <2> QED
        BY <1>15, <2>4, <2>5, <2>6, <2>7 DEF PushRow, TypeInv, TypeOK, StampsBounded
<1>16. CASE PushRowRejected
    BY <1>16, NoReplyType DEF PushRowRejected, TypeInv, TypeOK, StampsBounded
<1>17. CASE AnswerPush
    <2>1. reply' \in Reply
        BY <1>17, <1>b, StampsType, NoReplyType DEF AnswerPush, Reply, TypeInv, TypeOK
    <2> QED
        BY <1>17, <2>1 DEF AnswerPush, TypeInv, TypeOK, StampsBounded
<1>18. CASE AnswerPull
    <2> DEFINE rows == {[id |-> i, unit |-> srvBottle[i].unit, lot |-> srvLot,
                         seq |-> srvBottle[i].seq] :
                            i \in {j \in SrvIds : srvBottle[j].seq > cursor}}
    <2>1. rows \in SUBSET PulledBottle
        BY StampsType DEF PulledBottle, SrvBottleRow, SrvIds, TypeInv, TypeOK
    <2>2. reply' = [Accepted EXCEPT !.rows = rows, !.high = Highest({0} \cup Stamps),
                                    !.lot = srvLot]
        BY <1>18 DEF AnswerPull
    <2>3. reply' \in Reply
        <3> HIDE DEF rows
        <3> QED BY <2>1, <2>2, StampsType, NoReplyType DEF Reply, TypeInv, TypeOK
    <2> QED
        BY <1>18, <2>3 DEF AnswerPull, TypeInv, TypeOK, StampsBounded
<1>19. CASE AnswerRefPull
    <2>1. reply' \in Reply
        BY <1>19, RefChangesFacts, NoReplyType DEF AnswerRefPull, Reply, TypeInv, TypeOK
    <2> QED
        BY <1>19, <2>1 DEF AnswerRefPull, TypeInv, TypeOK, StampsBounded
<1>20. CASE CheckEpochFails
    <2>1. /\ missing' \in SUBSET Table
          /\ bottle' \in SUBSET BottleRow
          /\ ref' \in [RefId -> Value \cup {NoRow}]
          /\ cursor' \in Nat
          /\ refCursor' \in Nat
          /\ stored' \in Nat
        <3>1. CASE Outdated(reply.from)
            BY <1>20, <1>a, <1>b, <3>1, ResetType DEF CheckEpochFails
        <3>2. CASE ~Outdated(reply.from)
            BY <1>20, <3>2 DEF CheckEpochFails, TypeInv, TypeOK
        <3> QED
            BY <3>1, <3>2
    <2>2. Goto("bottles") /\ faults' \in Nat
        BY <1>20 DEF CheckEpochFails, Fault, TypeInv, TypeOK
    <2> QED
        BY <1>20, <2>1, <2>2, GotoType DEF CheckEpochFails, TypeInv, TypeOK, StampsBounded
<1>21. CASE EpochUnread
    <2>1. Goto("bottles") /\ stored' \in Nat /\ faults' \in Nat
        BY <1>a, <1>21 DEF EpochUnread, Fault, Got, TypeInv, TypeOK, Reply
    <2> QED
        BY <1>21, <2>1, GotoType DEF EpochUnread, TypeInv, TypeOK, StampsBounded
<1>22. CASE ApplyReferenceFails
    <2>1. PICK last \in 0..reply.high :
              ref' = Mirrored(ref, {r \in Storable(reply.refs) : r.seq <= last})
        BY <1>22 DEF ApplyReferenceFails
    <2>2. {r \in Storable(reply.refs) : r.seq <= last} \in SUBSET PulledRef
        BY <1>b DEF Storable
    <2>3. ref' \in [RefId -> Value \cup {NoRow}]
        BY <2>1, <2>2, MirroredType DEF TypeInv, TypeOK
    <2>4. EndPass /\ faults' \in Nat
        BY <1>22 DEF ApplyReferenceFails, Fault, TypeInv, TypeOK
    <2> QED
        BY <1>22, <2>3, <2>4, EndPassGoes, GotoType DEF ApplyReferenceFails, TypeInv, TypeOK, StampsBounded
<1>23. CASE RequestFails
    <2>1. reply' \in Reply /\ faults' \in Nat
        BY <1>23, NoReplyType DEF RequestFails, Fault, Reply, TypeInv, TypeOK
    <2> QED
        BY <1>23, <2>1 DEF RequestFails, TypeInv, TypeOK, StampsBounded
<1>24. CASE OtherBottle
    <2>1. PICK i \in Id : srvBottle' = [srvBottle EXCEPT ![i] = [unit |-> units + 1, seq |-> seq + 1]]
        BY <1>24 DEF OtherBottle
    <2>2. seq \in Nat /\ seq' = seq + 1 /\ units \in Nat /\ units' = units + 1 /\ units + 1 \in Unit
        BY <1>24, EpochAssumption DEF OtherBottle, TypeInv, TypeOK, Unit
    <2>3. [unit |-> units + 1, seq |-> seq + 1] \in SrvBottleRow
        BY <2>2 DEF SrvBottleRow
    <2>4. srvBottle' \in [Id -> SrvBottleRow \cup {NoRow}]
        BY <2>1, <2>3 DEF TypeInv, TypeOK
    <2>5. \A j \in Id : srvBottle'[j] # NoRow => srvBottle'[j].seq <= seq'
        BY <2>1, <2>2 DEF TypeInv, TypeOK, StampsBounded, SrvBottleRow
    <2>6. \A j \in RefId : srvRef'[j] # NoRow => srvRef'[j].seq <= seq'
        BY <1>24, <2>2 DEF OtherBottle, TypeInv, TypeOK, StampsBounded, SrvRefRow
    <2> QED
        BY <1>24, <2>2, <2>4, <2>5, <2>6 DEF OtherBottle, TypeInv, TypeOK, StampsBounded
<1>25. CASE Redeploy
    <2>1. PICK i \in RefId, v \in Value :
              srvRef' = [srvRef EXCEPT ![i] = [value |-> v, seq |-> seq + 1]]
        BY <1>25 DEF Redeploy
    <2>2. seq \in Nat /\ seq' = seq + 1
        BY <1>25 DEF Redeploy, TypeInv, TypeOK
    <2>3. [value |-> v, seq |-> seq + 1] \in SrvRefRow
        BY <2>2 DEF SrvRefRow
    <2>4. srvRef' \in [RefId -> SrvRefRow \cup {NoRow}]
        BY <2>1, <2>3 DEF TypeInv, TypeOK
    <2>5. \A j \in RefId : srvRef'[j] # NoRow => srvRef'[j].seq <= seq'
        BY <2>1, <2>2 DEF TypeInv, TypeOK, StampsBounded, SrvRefRow
    <2>6. \A j \in Id : srvBottle'[j] # NoRow => srvBottle'[j].seq <= seq'
        BY <1>25, <2>2 DEF Redeploy, TypeInv, TypeOK, StampsBounded, SrvBottleRow
    <2>7. reply' \in Reply
        BY <1>25 DEF Redeploy, DropRequest, TypeInv, TypeOK, Reply
    <2> QED
        BY <1>25, <2>2, <2>4, <2>5, <2>6, <2>7 DEF Redeploy, TypeInv, TypeOK, StampsBounded
<1>26. CASE Nuke
    <2>1. PICK n \in RefId, contents \in [RefId -> Value] :
              srvRef' = Seeded(n, contents) /\ seq' = n
        BY <1>26 DEF Nuke
    <2>2. srvRef' \in [RefId -> SrvRefRow \cup {NoRow}] /\ seq' \in Nat
          /\ \A i \in RefId : srvRef'[i] # NoRow => srvRef'[i].seq <= seq'
        BY <2>1, SeededType
    <2>3. srvBottle' = [i \in Id |-> NoRow]
        BY <1>26 DEF Nuke
    <2>4. reply' \in Reply
        BY <1>26 DEF Nuke, DropRequest, TypeInv, TypeOK, Reply
    <2> QED
        BY <1>26, <2>2, <2>3, <2>4 DEF Nuke, TypeInv, TypeOK, StampsBounded
<1> QED
    BY <1>0, <1>1, <1>2, <1>3, <1>4, <1>5, <1>6, <1>7, <1>8, <1>9, <1>10, <1>11, <1>12,
       <1>13, <1>14, <1>15, <1>16, <1>17, <1>18, <1>19, <1>20, <1>21, <1>22, <1>23,
       <1>24, <1>25, <1>26
    DEF Next, Page, Answer, Faulty

\* Every reachable state is well typed.
THEOREM EpochTypeCorrect == Spec => []TypeOK
<1>1. TypeInv => TypeOK
    BY DEF TypeInv
<1> QED
    BY <1>1, TypeInit, TypeStep, PTL DEF Spec

-----------------------------------------------------------------------------
(* Epochs: the browser never stores one the server has not reached.         *)

EpochInv ==
    /\ epoch >= 1
    /\ stored <= epoch
    /\ reply.status = "ok" =>
          stored <= reply.from /\ reply.from <= epoch /\ reply.from >= 1

LEMMA EpochInit == Init => EpochInv
BY DEF Init, EpochInv, NoReply, NoEpoch

\* A reset to a newer epoch is one the server was replaced for.
LEMMA OutdatedIsBehind ==
    ASSUME TypeInv, EpochInv, reply.status = "ok", Outdated(reply.from)
    PROVE  stored # NoEpoch /\ stored < epoch
BY DEF TypeInv, TypeOK, Reply, EpochInv, Outdated, NoEpoch

LEMMA EpochStep == TypeInv /\ EpochInv /\ [Next]_vars => EpochInv'
<1> SUFFICES ASSUME TypeInv, EpochInv, [Next]_vars PROVE EpochInv'
    OBVIOUS
<1> USE DEF tables, syncState, page, server
<1>0. epoch \in Nat /\ stored \in Nat /\ reply \in Reply /\ reply.from \in Nat
    BY DEF TypeInv, TypeOK, Reply
<1>1. CASE UNCHANGED vars
    BY <1>1 DEF vars, EpochInv
<1>2. ASSUME UNCHANGED <<epoch, stored>>, reply' = reply \/ reply'.status # "ok"
      PROVE  EpochInv'
    BY <1>2 DEF EpochInv
<1>3. ASSUME NEW stage, Goto(stage) PROVE reply'.status # "ok"
    BY <1>3 DEF Goto, NoReply
<1>4. CASE AddBottle \/ OtherBottle
    BY <1>2, <1>4 DEF AddBottle, OtherBottle
<1>5. CASE Sync \/ MetaFails \/ PushFails \/ PullFails \/ SendRefPull \/ RefPullFails
    BY <1>2, <1>3, <1>5, EndPassGoes DEF Sync, MetaFails, PushFails, PullFails, SendRefPull, RefPullFails
<1>6. ASSUME NEW next \in {"meta", "idle"}, Load(next) PROVE EpochInv'
    BY <1>2, <1>3, <1>6 DEF Load
<1>7. CASE GetDirty
    BY <1>2, <1>3, <1>7 DEF GetDirty, NoReply
<1>8. CASE ApplyAcks \/ ApplyPull \/ ApplyReference \/ ApplyReferenceFails
    BY <1>2, <1>3, <1>8, EndPassGoes DEF ApplyAcks, ApplyPull, ApplyReference, ApplyReferenceFails
<1>9. CASE CheckEpoch
    <2>1. reply.status = "ok" /\ epoch' = epoch /\ Goto("bottles")
        BY <1>9 DEF CheckEpoch, Got
    <2>2. stored' = reply.from
        BY <1>9 DEF CheckEpoch, ResetUpTo
    <2> QED
        BY <1>3, <2>1, <2>2 DEF EpochInv
<1>10. CASE EpochUnread
    <2>1. reply.status = "ok" /\ epoch' = epoch /\ stored' = reply.from /\ Goto("bottles")
        BY <1>10 DEF EpochUnread, Got
    <2> QED
        BY <1>3, <2>1 DEF EpochInv
<1>11. CASE CheckEpochFails
    <2>1. stored' = stored
        BY <1>11, EpochAssumption
        DEF CheckEpochFails, ResetUpTo, LastStatement, TableCount
    <2> QED
        BY <1>2, <1>3, <1>11, <2>1 DEF CheckEpochFails
<1>12. CASE PushRow
    BY <1>0, <1>12 DEF PushRow, Waits, EpochInv, Reply
<1>13. CASE PushRowRejected \/ RequestFails
    BY <1>2, <1>13 DEF PushRowRejected, RequestFails, Refused, NoReply
<1>14. CASE AnswerMeta \/ AnswerPush \/ AnswerPull \/ AnswerRefPull
    <2>1. reply'.from = epoch
        BY <1>14 DEF AnswerMeta, AnswerPush, AnswerPull, AnswerRefPull, Accepted, NoReply
    <2>2. UNCHANGED <<epoch, stored>>
        BY <1>14 DEF AnswerMeta, AnswerPush, AnswerPull, AnswerRefPull
    <2> QED
        BY <1>0, <2>1, <2>2 DEF EpochInv
<1>15. CASE Redeploy
    BY <1>0, <1>15, <1>2 DEF Redeploy, DropRequest, Reply
<1>16. CASE Nuke
    <2>1. reply' = reply \/ reply'.status # "ok"
        BY <1>0, <1>16 DEF Nuke, DropRequest, Reply
    <2> QED
        BY <1>0, <1>16, <2>1 DEF Nuke, EpochInv
<1> QED
    BY <1>1, <1>4, <1>5, <1>6, <1>7, <1>8, <1>9, <1>10, <1>11, <1>12, <1>13, <1>14, <1>15, <1>16
    DEF Next, Page, Answer, Faulty

-----------------------------------------------------------------------------
(* What a step may drop. *)

\* Applying a pull keeps every id.
LEMMA PulledKeepsIds ==
    ASSUME NEW table, NEW rows, NEW r \in table
    PROVE  \E q \in Pulled(table, rows) : q.id = r.id
<1> DEFINE taken == {w \in rows : \A q \in table : q.id = w.id => w.unit > q.unit}
<1>1. CASE \A w \in taken : w.id # r.id
    <2>1. r \in Pulled(table, rows)
        BY <1>1 DEF Pulled
    <2> QED
        BY <2>1
<1>2. CASE \E w \in taken : w.id = r.id
    <2>1. PICK w \in taken : w.id = r.id
        BY <1>2
    <2> DEFINE q == [id |-> w.id, unit |-> w.unit, lot |-> w.lot, dirty |-> 0]
    <2>2. q \in Pulled(table, rows)
        BY Zenon DEF Pulled
    <2> QED
        BY <2>1, <2>2
<1> QED
    BY <1>1, <1>2

\* Applying a reference pull removes no row.
LEMMA MirroredKeepsRows ==
    ASSUME NEW table \in [RefId -> Value \cup {NoRow}], NEW rows \in SUBSET PulledRef,
           NEW i \in RefId, table[i] # NoRow
    PROVE  Mirrored(table, rows)[i] # NoRow
<1>1. \A r \in rows : r.value # NoRow
    BY RowTypes DEF PulledRef
<1> QED
    BY <1>1, MirroredType

Keeps ==
    /\ missing' \subseteq missing
    /\ \A r \in bottle : \E q \in bottle' : q.id = r.id
    /\ \A i \in RefId : ref[i] # NoRow => ref'[i] # NoRow

LEMMA DropStep ==
    TypeInv /\ EpochInv /\ [Next]_vars =>
        Keeps \/ (stored # NoEpoch /\ stored < epoch)
<1> SUFFICES ASSUME TypeInv, EpochInv, [Next]_vars
             PROVE  Keeps \/ (stored # NoEpoch /\ stored < epoch)
    OBVIOUS
<1> USE DEF tables, syncState, page, server
<1>1. ASSUME UNCHANGED <<missing, bottle, ref>> PROVE Keeps
    BY <1>1 DEF Keeps
<1>2. CASE UNCHANGED vars
    BY <1>1, <1>2 DEF vars
<1>3. CASE AddBottle
    BY <1>3 DEF AddBottle, Keeps
<1>4. CASE \E next \in {"meta", "idle"} : Load(next)
    BY <1>4 DEF Load, Keeps
<1>5. CASE EpochUnread
    BY <1>1, <1>5 DEF EpochUnread
<1>6. CASE CheckEpoch \/ CheckEpochFails
    <2>1. CASE Outdated(reply.from)
        BY <1>6, <2>1, OutdatedIsBehind DEF CheckEpoch, CheckEpochFails, Got
    <2>2. CASE ~Outdated(reply.from)
        BY <1>1, <1>6, <2>2 DEF CheckEpoch, CheckEpochFails
    <2> QED
        BY <2>1, <2>2
<1>7. CASE ApplyAcks
    <2>1. \A r \in bottle : [r EXCEPT !.dirty = 0].id = r.id
        BY DEF TypeInv, TypeOK, BottleRow
    <2>2. ASSUME NEW r \in bottle PROVE \E q \in bottle' : q.id = r.id
        <3> DEFINE q == IF r.id \in reply.acks THEN [r EXCEPT !.dirty = 0] ELSE r
        <3>1. q \in bottle'
            BY <1>7, Zenon DEF ApplyAcks
        <3>2. q.id = r.id
            BY <2>1
        <3> QED
            BY <3>1, <3>2, Zenon
    <2> QED
        BY <1>7, <2>2 DEF ApplyAcks, Keeps
<1>8. CASE ApplyPull
    BY <1>8, PulledKeepsIds DEF ApplyPull, Keeps
<1>9. CASE ApplyReference \/ ApplyReferenceFails
    <2>1. PICK rows \in SUBSET PulledRef : ref' = Mirrored(ref, rows)
        <3>1. reply.refs \in SUBSET PulledRef
            BY DEF TypeInv, TypeOK, Reply
        <3>2. Storable(reply.refs) \in SUBSET PulledRef
              /\ \A last : {r \in Storable(reply.refs) : r.seq <= last} \in SUBSET PulledRef
            BY <3>1 DEF Storable
        <3> QED
            BY <1>9, <3>2 DEF ApplyReference, ApplyReferenceFails
    <2>2. \A i \in RefId : ref[i] # NoRow => ref'[i] # NoRow
        BY <2>1, MirroredKeepsRows DEF TypeInv, TypeOK
    <2> QED
        BY <1>9, <2>2 DEF ApplyReference, ApplyReferenceFails, Keeps
<1>10. CASE \/ Sync \/ MetaFails \/ GetDirty \/ PushFails \/ PullFails \/ SendRefPull
           \/ RefPullFails \/ AnswerMeta \/ PushRow \/ PushRowRejected \/ AnswerPush
           \/ AnswerPull \/ AnswerRefPull \/ RequestFails \/ OtherBottle \/ Redeploy \/ Nuke
    BY <1>1, <1>10
    DEF Sync, MetaFails, GetDirty, PushFails, PullFails, SendRefPull, RefPullFails,
        AnswerMeta, PushRow, PushRowRejected, AnswerPush, AnswerPull, AnswerRefPull,
        RequestFails, OtherBottle, Redeploy, Nuke
<1> QED
    BY <1>2, <1>3, <1>4, <1>5, <1>6, <1>7, <1>8, <1>9, <1>10 DEF Next, Page, Answer, Faulty

\* A local row or table goes only after the server was replaced.
THEOREM OnlyNukesDrop == Spec => DropsOnlyAfterNuke
<1>1. Init => TypeInv /\ EpochInv
    BY TypeInit, EpochInit
<1>2. TypeInv /\ EpochInv /\ [Next]_vars => (TypeInv /\ EpochInv)'
    BY TypeStep, EpochStep
<1>3. TypeInv /\ EpochInv /\ [Next]_vars =>
          [\/ /\ missing' \subseteq missing
              /\ \A r \in bottle : \E q \in bottle' : q.id = r.id
              /\ \A i \in RefId : ref[i] # NoRow => ref'[i] # NoRow
           \/ stored # NoEpoch /\ stored < epoch]_vars
    BY DropStep DEF Keeps
<1> QED
    BY <1>1, <1>2, <1>3, PTL DEF Spec, DropsOnlyAfterNuke

-----------------------------------------------------------------------------
(* Rows are told apart by their ids, and a push carries local rows.         *)

UniqueIds(rows) == \A p, q \in rows : p.id = q.id => p = q

LocalInv ==
    /\ UniqueIds(bottle)
    /\ UniqueIds(reply.rows)
    /\ UniqueIds(reply.refs)
    /\ body \subseteq bottle
    /\ pc # "push" => body = {}
    /\ reply.acks \subseteq LocalIds

LEMMA LocalInit == Init => LocalInv
BY DEF Init, LocalInv, UniqueIds, NoReply, LocalIds

\* AddBottle's id is in use by no local row.
LEMMA NewIdIsFresh ==
    ASSUME TypeInv
    PROVE  \A r \in bottle : r.id # NextId(CLIENT_SOURCE, HighestTick(LocalIds))
<1>1. LocalIds \in SUBSET Nat /\ \A i \in LocalIds : i <= (MaxTick + 1) * SourceSpan
    BY IdIsNat DEF LocalIds, TypeInv, TypeOK, BottleRow
<1>2. CLIENT_SOURCE \in Source
    BY DEF CLIENT_SOURCE, Source, SourceSpan
<1>3. NextId(CLIENT_SOURCE, HighestTick(LocalIds)) \notin LocalIds
    BY <1>1, <1>2, IdIsNat, ResumedIdIsFresh
<1> QED
    BY <1>3 DEF LocalIds

\* The rows after a pull: a local row of before, or a pulled one.
LEMMA PulledRows ==
    ASSUME NEW table, NEW rows, NEW q \in Pulled(table, rows)
    PROVE  \/ q \in table /\ \A r \in rows :
                  (\A w \in table : w.id = r.id => r.unit > w.unit) => r.id # q.id
           \/ \E r \in rows :
                  q = [id |-> r.id, unit |-> r.unit, lot |-> r.lot, dirty |-> 0]
BY DEF Pulled

LEMMA PulledUnique ==
    ASSUME NEW table, NEW rows, UniqueIds(table), UniqueIds(rows)
    PROVE  UniqueIds(Pulled(table, rows))
<1> DEFINE taken == {r \in rows : \A q \in table : q.id = r.id => r.unit > q.unit}
           row(r) == [id |-> r.id, unit |-> r.unit, lot |-> r.lot, dirty |-> 0]
           kept == {q \in table : \A r \in taken : r.id # q.id}
<1>1. Pulled(table, rows) = kept \cup {row(r) : r \in taken}
    BY DEF Pulled
<1>2. \A p, q \in kept : p.id = q.id => p = q
    BY DEF UniqueIds
<1>3. \A p, q \in taken : row(p).id = row(q).id => row(p) = row(q)
    BY DEF UniqueIds
<1>4. \A p \in kept, q \in taken : row(q).id # p.id
    OBVIOUS
<1> QED
    BY <1>1, <1>2, <1>3, <1>4 DEF UniqueIds

LEMMA LocalStep == TypeInv /\ LocalInv /\ [Next]_vars => LocalInv'
<1> SUFFICES ASSUME TypeInv, LocalInv, [Next]_vars PROVE LocalInv'
    OBVIOUS
<1> USE DEF tables, syncState, page, server
<1>1. CASE UNCHANGED vars
    BY <1>1 DEF vars, LocalInv, LocalIds
<1>2. ASSUME bottle' = bottle, body' \subseteq bottle, pc' # "push" => body' = {},
             reply'.acks \subseteq reply.acks,
             reply'.rows \subseteq reply.rows, reply'.refs \subseteq reply.refs
      PROVE  LocalInv'
    BY <1>2 DEF LocalInv, LocalIds, UniqueIds
<1>3. ASSUME NEW stage, stage # "push", Goto(stage), UniqueIds(bottle') PROVE LocalInv'
    BY <1>3 DEF Goto, LocalInv, UniqueIds, NoReply
<1>4. reply \in Reply
    BY DEF TypeInv, TypeOK
<1>5. CASE AddBottle
    <2> DEFINE row == [id |-> NextId(CLIENT_SOURCE, HighestTick(LocalIds)),
                       unit |-> units + 1, lot |-> defaultLot, dirty |-> 1]
    <2>1. bottle' = bottle \cup {row} /\ UNCHANGED page
        BY <1>5 DEF AddBottle
    <2>2. UniqueIds(bottle')
        BY <2>1, NewIdIsFresh DEF LocalInv, UniqueIds
    <2> HIDE DEF row
    <2>3. LocalIds \subseteq LocalIds'
        BY <2>1 DEF LocalIds
    <2> QED
        BY <2>1, <2>2, <2>3 DEF LocalInv
<1>6. CASE Sync \/ MetaFails \/ PushFails \/ PullFails \/ SendRefPull \/ RefPullFails
    BY <1>3, <1>6, EndPassGoes
    DEF Sync, MetaFails, PushFails, PullFails, SendRefPull, RefPullFails, LocalInv, UniqueIds
<1>7. ASSUME NEW next \in {"meta", "idle"}, Load(next) PROVE LocalInv'
    BY <1>3, <1>7 DEF Load, LocalInv, UniqueIds
<1>8. CASE GetDirty
    <2>1. CASE \E stage \in {"reference", "pull"} : Goto(stage)
        BY <1>3, <1>8, <2>1 DEF GetDirty, LocalInv, UniqueIds
    <2>2. CASE pc' = "push" /\ body' = DirtyRows /\ reply' = NoReply
        BY <1>8, <2>2 DEF GetDirty, DirtyRows, NoReply, LocalInv, UniqueIds
    <2> QED
        BY <1>8, <2>1, <2>2 DEF GetDirty
<1>9. CASE CheckEpoch \/ CheckEpochFails \/ EpochUnread
    <2>1. bottle' = bottle \/ bottle' = {}
        BY <1>9 DEF CheckEpoch, CheckEpochFails, EpochUnread, ResetUpTo, ResetTables
    <2>2. UniqueIds(bottle')
        BY <2>1 DEF LocalInv, UniqueIds
    <2> QED
        BY <1>3, <1>9, <2>2 DEF CheckEpoch, CheckEpochFails, EpochUnread
<1>10. CASE ApplyAcks
    <2> DEFINE new(r) == IF r.id \in reply.acks THEN [r EXCEPT !.dirty = 0] ELSE r
    <2>1. bottle' = {new(r) : r \in bottle} /\ Goto("pull")
        BY <1>10 DEF ApplyAcks
    <2>2. \A r \in bottle : new(r).id = r.id
        BY DEF TypeInv, TypeOK, BottleRow
    <2>3. UniqueIds(bottle')
        <3> SUFFICES ASSUME NEW x \in bottle', NEW y \in bottle', x.id = y.id
                     PROVE  x = y
            BY DEF UniqueIds
        <3>1. PICK p \in bottle, q \in bottle : x = new(p) /\ y = new(q)
            BY <2>1, Zenon
        <3>2. p.id = q.id
            BY <2>2, <3>1
        <3>3. p = q
            BY <3>2 DEF LocalInv, UniqueIds
        <3> QED
            BY <3>1, <3>3, Zenon
    <2> QED
        BY <1>3, <2>1, <2>3
<1>11. CASE ApplyPull
    <2>1. UniqueIds(bottle')
        BY <1>11, PulledUnique DEF ApplyPull, LocalInv
    <2> QED
        BY <1>3, <1>11, <2>1 DEF ApplyPull
<1>12. CASE ApplyReference \/ ApplyReferenceFails
    BY <1>3, <1>12, EndPassGoes DEF ApplyReference, ApplyReferenceFails, LocalInv, UniqueIds
<1>13. CASE PushRow
    <2>1. PICK r \in body : /\ body' = body \ {r}
                            /\ reply' = [reply EXCEPT !.acks = @ \cup {r.id}]
        BY <1>13 DEF PushRow
    <2>2. /\ reply'.acks = reply.acks \cup {r.id}
          /\ reply'.rows = reply.rows
          /\ reply'.refs = reply.refs
        BY <1>4, <2>1 DEF Reply
    <2>3. UNCHANGED <<bottle, pc>>
        BY <1>13 DEF PushRow
    <2>4. r.id \in LocalIds /\ LocalIds' = LocalIds
        BY <2>3 DEF LocalInv, LocalIds
    <2> QED
        BY <2>1, <2>2, <2>3, <2>4 DEF LocalInv, UniqueIds
<1>14. CASE PushRowRejected \/ RequestFails \/ AnswerMeta \/ AnswerPush
    <2>1. UNCHANGED <<bottle, body, pc>>
        BY <1>14 DEF PushRowRejected, RequestFails, AnswerMeta, AnswerPush
    <2>2. reply'.acks \subseteq reply.acks /\ reply'.rows = {} /\ reply'.refs = {}
        BY <1>14
        DEF PushRowRejected, RequestFails, AnswerMeta, AnswerPush, Refused, Accepted, NoReply
    <2> QED
        BY <1>2, <2>1, <2>2 DEF LocalInv
<1>15. CASE AnswerPull
    <2> DEFINE rows == {[id |-> i, unit |-> srvBottle[i].unit, lot |-> srvLot,
                         seq |-> srvBottle[i].seq] :
                            i \in {j \in SrvIds : srvBottle[j].seq > cursor}}
    <2>1. reply' = [Accepted EXCEPT !.rows = rows, !.high = Highest({0} \cup Stamps),
                                    !.lot = srvLot]
        BY <1>15 DEF AnswerPull
    <2>2. UniqueIds(rows)
        BY DEF UniqueIds
    <2> HIDE DEF rows
    <2>3. reply'.acks = {} /\ reply'.rows = rows /\ reply'.refs = {}
        BY <2>1 DEF Accepted, NoReply
    <2>4. UNCHANGED <<bottle, body, pc>>
        BY <1>15 DEF AnswerPull
    <2> QED
        BY <2>2, <2>3, <2>4 DEF LocalInv, UniqueIds
<1>16. CASE AnswerRefPull
    <2>1. reply'.acks = {} /\ reply'.rows = {} /\ reply'.refs = RefChanges
        BY <1>16 DEF AnswerRefPull, Accepted, NoReply
    <2>2. UniqueIds(RefChanges)
        BY RefChangesFacts DEF UniqueIds
    <2>3. UNCHANGED <<bottle, body, pc>>
        BY <1>16 DEF AnswerRefPull
    <2> QED
        BY <2>1, <2>2, <2>3 DEF LocalInv, UniqueIds
<1>17. CASE OtherBottle \/ Redeploy \/ Nuke
    <2>1. UNCHANGED <<bottle, body, pc>>
        BY <1>17 DEF OtherBottle, Redeploy, Nuke
    <2>2. reply'.acks = reply.acks /\ reply'.rows = reply.rows /\ reply'.refs = reply.refs
        BY <1>4, <1>17 DEF OtherBottle, Redeploy, Nuke, DropRequest, Reply
    <2> QED
        BY <1>2, <2>1, <2>2 DEF LocalInv
<1> QED
    BY <1>1, <1>5, <1>6, <1>7, <1>8, <1>9, <1>10, <1>11, <1>12, <1>13, <1>14, <1>15,
       <1>16, <1>17
    DEF Next, Page, Answer, Faulty

-----------------------------------------------------------------------------
(* A browser that has stored no epoch and applied nothing has an empty      *)
(* mirror and only bottles of its own.                                      *)

Untouched ==
    stored = NoEpoch /\ ~blind =>
        /\ missing = {}
        /\ \A r \in bottle : r.dirty = 1
        /\ \A i \in RefId : ref[i] = NoRow
        /\ refCursor = 0

LEMMA UntouchedInit == Init => Untouched
BY DEF Init, Untouched

LEMMA UntouchedStep ==
    TypeInv /\ EpochInv /\ Untouched /\ [Next]_vars => Untouched'
<1> SUFFICES ASSUME TypeInv, EpochInv, Untouched, [Next]_vars,
                    stored' = NoEpoch, ~blind'
             PROVE  /\ missing' = {}
                    /\ \A r \in bottle' : r.dirty = 1
                    /\ \A i \in RefId : ref'[i] = NoRow
                    /\ refCursor' = 0
    BY DEF Untouched
<1> USE DEF tables, syncState, page, server
<1>1. CASE UNCHANGED <<tables, refCursor, stored, blind>>
    BY <1>1 DEF Untouched
<1>2. CASE AddBottle
    BY <1>2 DEF AddBottle, Untouched
<1>3. CASE \E next \in {"meta", "idle"} : Load(next)
    BY <1>3 DEF Load, Untouched
<1>4. CASE CheckEpoch
    <2>1. stored' = reply.from
        BY <1>4 DEF CheckEpoch, ResetUpTo
    <2> QED
        BY <1>4, <2>1 DEF CheckEpoch, Got, EpochInv, NoEpoch
<1>5. CASE CheckEpochFails
    <2>1. CASE Outdated(reply.from)
        <3>1. stored # NoEpoch /\ stored' = stored
            BY <1>5, <2>1, EpochAssumption
            DEF CheckEpochFails, Outdated, ResetUpTo, LastStatement, TableCount
        <3> QED
            BY <3>1
    <2>2. CASE ~Outdated(reply.from)
        BY <1>1, <1>5, <2>2 DEF CheckEpochFails
    <2> QED
        BY <2>1, <2>2
<1>6. CASE EpochUnread
    BY <1>6 DEF EpochUnread
<1>7. CASE ApplyAcks \/ ApplyPull \/ ApplyReference \/ ApplyReferenceFails
    BY <1>7 DEF ApplyAcks, ApplyPull, ApplyReference, ApplyReferenceFails
<1>8. CASE \/ Sync \/ MetaFails \/ GetDirty \/ PushFails \/ PullFails \/ SendRefPull
           \/ RefPullFails \/ AnswerMeta \/ PushRow \/ PushRowRejected \/ AnswerPush
           \/ AnswerPull \/ AnswerRefPull \/ RequestFails \/ OtherBottle \/ Redeploy \/ Nuke
    BY <1>1, <1>8
    DEF Sync, MetaFails, GetDirty, PushFails, PullFails, SendRefPull, RefPullFails,
        AnswerMeta, PushRow, PushRowRejected, AnswerPush, AnswerPull, AnswerRefPull,
        RequestFails, OtherBottle, Redeploy, Nuke
<1> QED
    BY <1>1, <1>2, <1>3, <1>4, <1>5, <1>6, <1>7, <1>8 DEF Next, Page, Answer, Faulty, vars

-----------------------------------------------------------------------------
(* A browser that knows the server mirrors it, and the request it waits for *)
(* carries nothing of another server.                                       *)

SeqInv == \A i \in RefId : srvRef[i] # NoRow => srvRef[i].seq >= 1

Held(r) == srvBottle[r.id] # NoRow /\ srvBottle[r.id].unit >= r.unit

AcksBacked == \A r \in bottle : r.id \in reply.acks => Held(r)

RowsBacked == \A r \in reply.rows : Held(r)

RefsBacked ==
    \A r \in reply.refs :
        srvRef[r.id] # NoRow /\ srvRef[r.id].seq >= r.seq /\ r.seq > refCursor

RefsComplete ==
    Got("refpull", "ok") =>
        /\ reply.high <= seq
        /\ \A i \in RefIds : srvRef[i].seq <= reply.high =>
              \/ srvRef[i].seq <= refCursor
              \/ \E r \in reply.refs : r.id = i /\ r.value = srvRef[i].value

Known == stored = epoch /\ ~blind

Mirrors ==
    /\ OfThisServer
    /\ refCursor <= seq
    /\ AcksBacked
    /\ RowsBacked
    /\ RefsBacked
    /\ RefsComplete

KnownInv == SeqInv /\ (Known => Mirrors)

LEMMA KnownInit == Init => KnownInv
<1> SUFFICES ASSUME Init PROVE SeqInv /\ ~Known
    BY DEF KnownInv
<1>1. SeqInv
    BY DEF Init, Seeded, SeqInv, RefId
<1> QED
    BY <1>1 DEF Init, Known, NoEpoch

LEMMA SeqStep == TypeInv /\ SeqInv /\ [Next]_vars => SeqInv'
<1> SUFFICES ASSUME TypeInv, SeqInv, [Next]_vars PROVE SeqInv'
    OBVIOUS
<1> USE DEF tables, syncState, page, server
<1>1. CASE UNCHANGED srvRef
    BY <1>1 DEF SeqInv
<1>2. CASE Redeploy
    <2>1. PICK i \in RefId, v \in Value :
              srvRef' = [srvRef EXCEPT ![i] = [value |-> v, seq |-> seq + 1]]
        BY <1>2 DEF Redeploy
    <2> QED
        BY <2>1 DEF SeqInv, TypeInv, TypeOK
<1>3. CASE Nuke
    BY <1>3 DEF Nuke, Seeded, SeqInv, RefId
<1>4. CASE ~(Redeploy \/ Nuke)
    <2>1. UNCHANGED srvRef
        BY <1>4
        DEF Next, Page, Answer, Faulty, vars, AddBottle, Load, CheckEpoch, ApplyAcks,
            ApplyPull, ApplyReference, EpochUnread, CheckEpochFails,
            ApplyReferenceFails, Sync, MetaFails, GetDirty, PushFails, PullFails,
            SendRefPull, RefPullFails,
            AnswerMeta, PushRow, PushRowRejected, AnswerPush, AnswerPull, AnswerRefPull,
            RequestFails, OtherBottle
    <2> QED
        BY <1>1, <2>1
<1> QED
    BY <1>2, <1>3, <1>4

\* Only the answer to /sync/meta makes a server known.
LEMMA KnownBefore ==
    ASSUME TypeInv, EpochInv, [Next]_vars, ~CheckEpoch, Known'
    PROVE  /\ Known
           /\ ~Nuke
           /\ ~EpochUnread
           /\ ~(CheckEpochFails /\ Outdated(reply.from))
<1> USE DEF tables, syncState, page, server
<1>1. epoch \in Nat /\ stored \in Nat /\ blind \in BOOLEAN
    BY DEF TypeInv, TypeOK
<1>2. ~Nuke
    BY <1>1 DEF Nuke, Known, EpochInv
<1>3. ASSUME CheckEpochFails PROVE stored' = stored /\ UNCHANGED <<epoch, blind>>
    BY <1>3, EpochAssumption DEF CheckEpochFails, ResetUpTo, LastStatement, TableCount
<1>4. ~(CheckEpochFails /\ Outdated(reply.from))
    BY <1>1, <1>3, OutdatedIsBehind DEF CheckEpochFails, Got, Known
<1>5. ~EpochUnread
    BY DEF EpochUnread, Known
<1>6. UNCHANGED <<stored, epoch>> /\ (blind => blind')
    <2>1. CASE CheckEpochFails
        BY <1>3, <2>1
    <2>2. CASE ApplyAcks \/ ApplyPull \/ ApplyReference \/ ApplyReferenceFails
        BY <2>2 DEF ApplyAcks, ApplyPull, ApplyReference, ApplyReferenceFails
    <2>3. CASE \E next \in {"meta", "idle"} : Load(next)
        BY <2>3 DEF Load
    <2>4. CASE \/ AddBottle \/ Sync \/ MetaFails \/ GetDirty \/ PushFails \/ PullFails
               \/ SendRefPull \/ RefPullFails \/ AnswerMeta \/ PushRow \/ PushRowRejected
               \/ AnswerPush \/ AnswerPull \/ AnswerRefPull \/ RequestFails \/ OtherBottle
               \/ Redeploy \/ UNCHANGED vars
        BY <2>4
        DEF AddBottle, Sync, MetaFails, GetDirty, PushFails, PullFails, SendRefPull,
            RefPullFails, AnswerMeta, PushRow, PushRowRejected, AnswerPush, AnswerPull,
            AnswerRefPull, RequestFails, OtherBottle, Redeploy, vars
    <2> QED
        BY <1>2, <1>5, <2>1, <2>2, <2>3, <2>4 DEF Next, Page, Answer, Faulty
<1> QED
    BY <1>2, <1>4, <1>5, <1>6 DEF Known

\* Recording the epoch, or resetting to it.
LEMMA CheckEpochMirrors ==
    ASSUME TypeInv, EpochInv, SeqInv, Untouched, Known => Mirrors, CheckEpoch, Known'
    PROVE  Mirrors'
<1> USE DEF tables, syncState, page, server
<1>1. UNCHANGED server /\ Goto("bottles")
    BY DEF CheckEpoch
<1>2. ~Outdated(reply.from) => blind' = blind
    BY DEF CheckEpoch
<1>3. stored' = reply.from /\ reply.from >= 1 /\ stored' = epoch
    BY DEF CheckEpoch, ResetUpTo, Got, EpochInv, Known
<1>4. seq \in Nat /\ refCursor \in Nat /\ stored \in Nat /\ reply.from \in Nat
    BY DEF TypeInv, TypeOK, Reply
<1>5. /\ reply'.acks = {} /\ reply'.rows = {} /\ reply'.refs = {}
      /\ ~Got("refpull", "ok")'
    BY <1>1 DEF Goto, NoReply, Got
<1>6. OfThisServer' /\ refCursor' <= seq'
    <2>1. CASE Outdated(reply.from)
        <3>1. ResetUpTo(LastStatement, reply.from)
            BY <2>1 DEF CheckEpoch
        <3>2. missing' = {} /\ bottle' = {} /\ refCursor' = 0
            <4>1. Made(LastStatement) = Table /\ Dropped(LastStatement) = Table
                BY EpochAssumption DEF LastStatement, TableCount, Dropped, Made, Table
            <4>2. missing' = (missing \cup Table) \ Table
                BY <3>1, <4>1 DEF ResetUpTo, ResetTables
            <4>3. 0 \in Table
                BY EpochAssumption DEF Table
            <4> QED
                BY <3>1, <4>1, <4>2, <4>3, EpochAssumption
                DEF ResetUpTo, ResetTables, LastStatement, TableCount, TypeInv, TypeOK
        <3>3. \A i \in RefId : ref'[i] = NoRow
            BY <3>1, EpochAssumption
            DEF ResetUpTo, ResetTables, LastStatement, TableCount, Dropped, Table, RefId
        <3>4. \A i \in RefId : srvRef'[i] # NoRow => srvRef'[i].seq \in Nat /\ srvRef'[i].seq >= 1
            BY <1>1 DEF SeqInv, TypeInv, TypeOK, SrvRefRow
        <3> QED
            BY <1>1, <1>4, <3>2, <3>3, <3>4
            DEF OfThisServer, CleanAreStored, MirrorIsBacked, MirrorIsComplete, RefIds
    <2>2. CASE ~Outdated(reply.from) /\ stored = NoEpoch
        <3>1. /\ missing' = {}
              /\ \A r \in bottle' : r.dirty = 1
              /\ \A i \in RefId : ref'[i] = NoRow
              /\ refCursor' = 0
            BY <1>1, <1>2, <2>2 DEF CheckEpoch, Untouched, Known
        <3>2. \A i \in RefId : srvRef'[i] # NoRow => srvRef'[i].seq \in Nat /\ srvRef'[i].seq >= 1
            BY <1>1 DEF SeqInv, TypeInv, TypeOK, SrvRefRow
        <3> QED
            BY <1>1, <1>4, <3>1, <3>2
            DEF OfThisServer, CleanAreStored, MirrorIsBacked, MirrorIsComplete, RefIds
    <2>3. CASE ~Outdated(reply.from) /\ stored # NoEpoch
        <3>1. stored = reply.from /\ UNCHANGED <<tables, refCursor>>
            BY <2>3 DEF CheckEpoch, Outdated
        <3>2. Mirrors
            BY <1>1, <1>3, <1>2, <2>3, <3>1 DEF Known
        <3> QED
            BY <1>1, <3>1, <3>2
            DEF Mirrors, OfThisServer, CleanAreStored, MirrorIsBacked, MirrorIsComplete, RefIds
    <2> QED
        BY <2>1, <2>2, <2>3
<1> QED
    BY <1>5, <1>6 DEF Mirrors, AcksBacked, RowsBacked, RefsBacked, RefsComplete

\* What the local store is worth depends on these variables alone.
LEMMA SameTables ==
    ASSUME OfThisServer, UNCHANGED <<tables, refCursor, srvBottle, srvRef>>
    PROVE  OfThisServer'
BY DEF OfThisServer, CleanAreStored, MirrorIsBacked, MirrorIsComplete, RefIds, tables

\* A step that leaves the tables of both sides alone and adds nothing to the
\* reply.
LEMMA QuietMirrors ==
    ASSUME Mirrors, UNCHANGED <<tables, refCursor, srvBottle, srvRef, seq>>,
           reply'.acks \subseteq reply.acks,
           reply'.rows \subseteq reply.rows,
           reply'.refs = reply.refs \/ reply'.refs = {},
           Got("refpull", "ok")' =>
               Got("refpull", "ok") /\ reply'.high = reply.high /\ reply'.refs = reply.refs
    PROVE  Mirrors'
<1> USE DEF tables
<1>1. AcksBacked' /\ RowsBacked'
    BY DEF Mirrors, AcksBacked, RowsBacked, Held
<1>2. RefsBacked'
    BY DEF Mirrors, RefsBacked
<1>3. RefsComplete'
    BY DEF Mirrors, RefsComplete, RefIds
<1> QED
    BY <1>1, <1>2, <1>3, SameTables DEF Mirrors

\* Nothing is under way after a request was dealt with.
LEMMA GotoMirrors ==
    ASSUME NEW stage, Goto(stage), OfThisServer', refCursor' <= seq'
    PROVE  Mirrors'
BY DEF Goto, NoReply, Got, Mirrors, AcksBacked, RowsBacked, RefsBacked, RefsComplete

\* The steps that change the browser's tables.
LEMMA AddBottleMirrors ==
    ASSUME TypeInv, LocalInv, Mirrors, AddBottle
    PROVE  Mirrors'
<1> DEFINE id == NextId(CLIENT_SOURCE, HighestTick(LocalIds))
           row == [id |-> id, unit |-> units + 1, lot |-> defaultLot, dirty |-> 1]
<1>1. bottle' = bottle \cup {row} /\ UNCHANGED <<missing, ref, syncState, page, server>>
    BY DEF AddBottle
<1>2. \A r \in bottle : r.id # id
    BY NewIdIsFresh
<1>3. row.id \notin reply.acks /\ row.dirty = 1
    BY <1>2 DEF LocalInv, LocalIds
<1> HIDE DEF row
<1>4. CleanAreStored'
    BY <1>1, <1>3 DEF Mirrors, OfThisServer, CleanAreStored, server
<1>5. AcksBacked'
    BY <1>1, <1>3 DEF Mirrors, AcksBacked, Held, page, server
<1> QED
    BY <1>1, <1>4, <1>5
    DEF Mirrors, OfThisServer, MirrorIsBacked, MirrorIsComplete, RefIds, RowsBacked, Held,
        RefsBacked, RefsComplete, Got, syncState, page, server

LEMMA ApplyAcksMirrors ==
    ASSUME TypeInv, Mirrors, ApplyAcks
    PROVE  Mirrors'
<1> DEFINE new(r) == IF r.id \in reply.acks THEN [r EXCEPT !.dirty = 0] ELSE r
<1>1. /\ bottle' = {new(r) : r \in bottle}
      /\ UNCHANGED <<missing, ref, refCursor, server>>
      /\ Goto("pull")
    BY DEF ApplyAcks
<1>2. \A r \in bottle : /\ new(r).id = r.id
                        /\ new(r).unit = r.unit
                        /\ r.id \notin reply.acks => new(r).dirty = r.dirty
    BY DEF TypeInv, TypeOK, BottleRow
<1>3. ASSUME NEW q \in bottle', q.dirty = 0
      PROVE  srvBottle'[q.id] # NoRow /\ srvBottle'[q.id].unit >= q.unit
    <2>1. PICK r \in bottle : q = new(r)
        BY <1>1, Zenon
    <2>2. q.id = r.id /\ q.unit = r.unit /\ srvBottle' = srvBottle
        BY <1>1, <1>2, <2>1 DEF server
    <2>3. CASE r.id \in reply.acks
        BY <2>2, <2>3 DEF Mirrors, AcksBacked, Held
    <2>4. CASE r.id \notin reply.acks
        BY <1>2, <1>3, <2>1, <2>2, <2>4 DEF Mirrors, OfThisServer, CleanAreStored
    <2> QED
        BY <2>3, <2>4
<1>4. CleanAreStored'
    BY <1>3 DEF CleanAreStored
<1>5. OfThisServer'
    BY <1>1, <1>4 DEF Mirrors, OfThisServer, MirrorIsBacked, MirrorIsComplete, RefIds, server
<1> QED
    BY <1>1, <1>5, GotoMirrors DEF Mirrors, server

LEMMA ApplyPullMirrors ==
    ASSUME TypeInv, Mirrors, ApplyPull
    PROVE  Mirrors'
<1>1. /\ bottle' = Pulled(bottle, reply.rows)
      /\ UNCHANGED <<missing, ref, refCursor, server>>
      /\ Goto("reference")
    BY DEF ApplyPull
<1>2. ASSUME NEW q \in bottle', q.dirty = 0
      PROVE  srvBottle'[q.id] # NoRow /\ srvBottle'[q.id].unit >= q.unit
    <2>1. CASE q \in bottle
        BY <1>1, <1>2, <2>1 DEF Mirrors, OfThisServer, CleanAreStored, server
    <2>2. CASE q \notin bottle
        <3>1. PICK r \in reply.rows :
                  q = [id |-> r.id, unit |-> r.unit, lot |-> r.lot, dirty |-> 0]
            BY <1>1, <2>2, PulledRows
        <3> QED
            BY <1>1, <3>1 DEF Mirrors, RowsBacked, Held, server
    <2> QED
        BY <2>1, <2>2
<1>3. CleanAreStored'
    BY <1>2 DEF CleanAreStored
<1>4. OfThisServer'
    BY <1>1, <1>3 DEF Mirrors, OfThisServer, MirrorIsBacked, MirrorIsComplete, RefIds, server
<1> QED
    BY <1>1, <1>4, GotoMirrors DEF Mirrors, server

\* Rows of the answer, and only rows beyond the cursor, reach the mirror.
LEMMA MirroredBacked ==
    ASSUME TypeInv, LocalInv, Mirrors, NEW rows \in SUBSET reply.refs
    PROVE  /\ \A i \in RefId : Mirrored(ref, rows)[i] # NoRow => srvRef[i] # NoRow
           /\ \A i \in RefIds : srvRef[i].seq <= refCursor =>
                  Mirrored(ref, rows)[i] = srvRef[i].value
           /\ \A r \in rows : Mirrored(ref, rows)[r.id] = r.value
<1>1. rows \in SUBSET PulledRef /\ ref \in [RefId -> Value \cup {NoRow}]
    BY DEF TypeInv, TypeOK, Reply
<1>2. \A i \in RefId : \/ Mirrored(ref, rows)[i] = ref[i]
                       \/ \E r \in rows : r.id = i /\ Mirrored(ref, rows)[i] = r.value
    BY <1>1, MirroredType
<1>3. \A i \in RefId : Mirrored(ref, rows)[i] # NoRow => srvRef[i] # NoRow
    BY <1>2 DEF Mirrors, OfThisServer, MirrorIsBacked, RefsBacked
<1>4. ASSUME NEW i \in RefIds, srvRef[i].seq <= refCursor
      PROVE  Mirrored(ref, rows)[i] = srvRef[i].value
    <2>1. srvRef[i].seq \in Nat /\ refCursor \in Nat /\ \A r \in rows : r.seq \in Nat
        BY <1>1 DEF TypeInv, TypeOK, RefIds, SrvRefRow, PulledRef
    <2>2. \A r \in rows : r.id # i
        BY <1>4, <2>1 DEF Mirrors, RefsBacked
    <2>3. Mirrored(ref, rows)[i] = ref[i]
        BY <1>2, <2>2 DEF RefIds
    <2> QED
        BY <1>4, <2>3 DEF Mirrors, OfThisServer, MirrorIsComplete
<1>5. ASSUME NEW r \in rows PROVE Mirrored(ref, rows)[r.id] = r.value
    <2>1. r.id \in RefId
        BY <1>1 DEF PulledRef
    <2>2. Mirrored(ref, rows)[r.id] = (CHOOSE q \in rows : q.id = r.id).value
        BY <2>1, Zenon DEF Mirrored
    <2>3. (CHOOSE q \in rows : q.id = r.id) \in rows
          /\ (CHOOSE q \in rows : q.id = r.id).id = r.id
        BY Zenon
    <2>4. (CHOOSE q \in rows : q.id = r.id) = r
        BY <2>3 DEF LocalInv, UniqueIds
    <2> QED
        BY <2>2, <2>4
<1> QED
    BY <1>3, <1>4, <1>5

LEMMA ApplyReferenceMirrors ==
    ASSUME TypeInv, LocalInv, Mirrors, ApplyReference \/ ApplyReferenceFails
    PROVE  Mirrors'
<1>1. Storable(reply.refs) = reply.refs
    BY DEF Storable, Mirrors, OfThisServer
<1>2. /\ UNCHANGED <<missing, bottle, server>>
      /\ Got("refpull", "ok")
      /\ EndPass
    BY DEF ApplyReference, ApplyReferenceFails
<1>3. CleanAreStored'
    BY <1>2 DEF Mirrors, OfThisServer, CleanAreStored, server
<1>4. CASE ApplyReference
    <2>1. ref' = Mirrored(ref, reply.refs) /\ refCursor' = reply.high
        BY <1>1, <1>4 DEF ApplyReference
    <2>2. MirrorIsBacked'
        BY <1>2, <2>1, MirroredBacked DEF MirrorIsBacked, server
    <2>3. ASSUME NEW i \in RefIds, srvRef[i].seq <= reply.high
          PROVE  ref'[i] = srvRef[i].value
        <3>1. CASE srvRef[i].seq <= refCursor
            BY <2>1, <3>1, MirroredBacked
        <3>2. CASE \E r \in reply.refs : r.id = i /\ r.value = srvRef[i].value
            BY <2>1, <3>2, MirroredBacked
        <3> QED
            BY <1>2, <2>3, <3>1, <3>2 DEF Mirrors, RefsComplete
    <2>4. MirrorIsComplete'
        BY <1>2, <2>1, <2>3 DEF MirrorIsComplete, RefIds, server
    <2>5. refCursor' <= seq'
        BY <1>2, <2>1 DEF Mirrors, RefsComplete, server
    <2> QED
        BY <1>2, <1>3, <2>2, <2>4, <2>5, EndPassGoes, GotoMirrors DEF Mirrors, OfThisServer
<1>5. CASE ApplyReferenceFails
    <2>1. PICK rows \in SUBSET reply.refs : ref' = Mirrored(ref, rows)
        BY <1>1, <1>5 DEF ApplyReferenceFails
    <2>2. refCursor' = refCursor
        BY <1>5 DEF ApplyReferenceFails, syncState
    <2>3. MirrorIsBacked'
        BY <1>2, <2>1, MirroredBacked DEF MirrorIsBacked, server
    <2>4. MirrorIsComplete'
        BY <1>2, <2>1, <2>2, MirroredBacked DEF MirrorIsComplete, RefIds, server
    <2> QED
        BY <1>2, <1>3, <2>2, <2>3, <2>4, EndPassGoes, GotoMirrors DEF Mirrors, OfThisServer, server
<1> QED
    BY <1>4, <1>5

\* The steps of the server that a browser that knows it may meet.
LEMMA PushRowMirrors ==
    ASSUME TypeInv, LocalInv, Mirrors, PushRow
    PROVE  Mirrors'
<1>1. PICK r \in body :
          /\ IF Writes(r)
             THEN /\ srvBottle' = [srvBottle EXCEPT ![r.id] = [unit |-> r.unit, seq |-> seq + 1]]
                  /\ seq' = seq + 1
             ELSE UNCHANGED <<srvBottle, seq>>
          /\ reply' = [reply EXCEPT !.acks = @ \cup {r.id}]
    BY DEF PushRow
<1>2. UNCHANGED <<tables, syncState, pc, srvRef>>
    BY DEF PushRow
<1>3. r \in bottle /\ r.id \in Id /\ r.unit \in Nat /\ seq \in Nat /\ refCursor \in Nat
    BY DEF LocalInv, TypeInv, TypeOK, BottleRow, Unit
<1>4. /\ reply'.acks = reply.acks \cup {r.id}
      /\ reply'.rows = reply.rows
      /\ reply'.refs = reply.refs
      /\ reply'.status = reply.status
      /\ reply'.status = "none"
    BY <1>1 DEF TypeInv, TypeOK, Reply, PushRow, Waits
<1>a. Writes(r) => srvBottle'[r.id].unit = r.unit /\ srvBottle'[r.id] # NoRow
    <2>1. [unit |-> r.unit, seq |-> seq + 1] \in SrvBottleRow
        BY <1>3 DEF SrvBottleRow, TypeInv, TypeOK, BottleRow
    <2>2. [unit |-> r.unit, seq |-> seq + 1] # NoRow
        BY <2>1, RowTypes
    <2> QED
        BY <1>1, <1>3, <2>2 DEF TypeInv, TypeOK
<1>b. ASSUME NEW q, q.id \in Id, srvBottle[q.id] # NoRow PROVE srvBottle[q.id].unit \in Nat
    BY <1>b DEF TypeInv, TypeOK, SrvBottleRow, Unit
<1>5. Held(r)'
    <2>1. CASE Writes(r)
        BY <1>3, <1>a, <2>1 DEF Held
    <2>2. CASE ~Writes(r)
        BY <1>1, <1>3, <1>b, <2>2 DEF Held, Writes
    <2> QED
        BY <2>1, <2>2
<1>6. ASSUME NEW q, q.id \in Id, q.unit \in Nat, Held(q) PROVE Held(q)'
    <2>1. CASE Writes(r) /\ q.id = r.id
        <3>1. srvBottle[q.id].unit \in Nat
            BY <1>6, <1>b DEF Held
        <3>2. r.unit > srvBottle[q.id].unit
            BY <1>6, <2>1 DEF Held, Writes
        <3> QED
            BY <1>3, <1>6, <1>a, <2>1, <3>1, <3>2 DEF Held
    <2>2. CASE ~(Writes(r) /\ q.id = r.id)
        <3>1. srvBottle'[q.id] = srvBottle[q.id]
            BY <1>1, <1>6, <2>2 DEF TypeInv, TypeOK
        <3> QED
            BY <1>6, <3>1 DEF Held
    <2> QED
        BY <2>1, <2>2
<1>7. \A q \in bottle : q.id \in Id /\ q.unit \in Nat
    BY DEF TypeInv, TypeOK, BottleRow, Unit
<1>8. AcksBacked'
    <2> SUFFICES ASSUME NEW q \in bottle, q.id \in reply.acks \cup {r.id} PROVE Held(q)'
        BY <1>2, <1>4 DEF AcksBacked, tables
    <2>1. CASE q.id \in reply.acks
        BY <1>6, <1>7, <2>1 DEF Mirrors, AcksBacked
    <2>2. CASE q.id = r.id
        BY <1>3, <1>5, <2>2 DEF LocalInv, UniqueIds
    <2> QED
        BY <2>1, <2>2
<1>9. CleanAreStored'
    <2> SUFFICES ASSUME NEW q \in bottle, q.dirty = 0 PROVE Held(q)'
        BY <1>2 DEF CleanAreStored, Held, tables
    <2>1. Held(q)
        BY DEF Mirrors, OfThisServer, CleanAreStored, Held
    <2> QED
        BY <1>6, <1>7, <2>1
<1>10. RowsBacked'
    <2>1. \A q \in reply.rows : q.id \in Id /\ q.unit \in Nat
        BY DEF TypeInv, TypeOK, Reply, PulledBottle, Unit
    <2> QED
        BY <1>4, <1>6, <2>1 DEF Mirrors, RowsBacked
<1>11. refCursor' <= seq'
    BY <1>1, <1>2, <1>3 DEF Mirrors, syncState
<1> QED
    BY <1>2, <1>4, <1>8, <1>9, <1>10, <1>11
    DEF Mirrors, OfThisServer, MirrorIsBacked, MirrorIsComplete, RefIds, RefsBacked,
        RefsComplete, Got, tables, syncState

LEMMA AnswerPullMirrors ==
    ASSUME TypeInv, Mirrors, AnswerPull
    PROVE  Mirrors'
<1> DEFINE rows == {[id |-> i, unit |-> srvBottle[i].unit, lot |-> srvLot,
                     seq |-> srvBottle[i].seq] :
                        i \in {j \in SrvIds : srvBottle[j].seq > cursor}}
<1>1. reply' = [Accepted EXCEPT !.rows = rows, !.high = Highest({0} \cup Stamps),
                                !.lot = srvLot]
    BY DEF AnswerPull
<1>2. \A r \in rows : Held(r)
    BY StampsType DEF Held, SrvIds, SrvBottleRow, Unit
<1> HIDE DEF rows
<1>3. reply'.acks = {} /\ reply'.rows = rows /\ reply'.refs = {}
    BY <1>1 DEF Accepted, NoReply
<1>4. UNCHANGED <<tables, syncState, pc, server>> /\ pc' # "refpull"
    BY DEF AnswerPull, Waits
<1> QED
    BY <1>2, <1>3, <1>4, SameTables
    DEF Mirrors, AcksBacked, RowsBacked, RefsBacked, RefsComplete, Held, Got, tables,
        syncState, server

LEMMA AnswerRefPullMirrors ==
    ASSUME TypeInv, Mirrors, AnswerRefPull
    PROVE  Mirrors'
<1>1. /\ reply'.acks = {} /\ reply'.rows = {} /\ reply'.refs = RefChanges
      /\ reply'.high = RefHigh(RefChanges)
    BY DEF AnswerRefPull, Accepted, NoReply
<1>2. UNCHANGED <<tables, syncState, server>>
    BY DEF AnswerRefPull
<1>3. refCursor \in Nat /\ refCursor <= seq
    BY DEF Mirrors, TypeInv, TypeOK
<1>4. RefsBacked'
    BY <1>1, <1>2, RefChangesFacts
    DEF RefsBacked, PulledRef, TypeInv, TypeOK, SrvRefRow, syncState, server
<1>5. RefsComplete'
    <2>1. reply'.high <= seq'
        BY <1>1, <1>2, <1>3, RefChangesFacts DEF server
    <2>2. ASSUME NEW i \in RefIds
          PROVE  \/ srvRef[i].seq <= refCursor
                 \/ \E r \in RefChanges : r.id = i /\ r.value = srvRef[i].value
        <3>1. srvRef[i].seq \in Nat
            BY DEF RefIds, TypeInv, TypeOK, SrvRefRow
        <3> QED
            BY <1>3, <3>1, RefChangesFacts
    <2> QED
        BY <1>1, <1>2, <2>1, <2>2 DEF RefsComplete, RefIds, syncState, server
<1> QED
    BY <1>1, <1>2, <1>4, <1>5, SameTables
    DEF Mirrors, AcksBacked, RowsBacked, syncState, server

LEMMA OtherBottleMirrors ==
    ASSUME TypeInv, Mirrors, OtherBottle
    PROVE  Mirrors'
<1>1. PICK i \in Id \ SrvIds :
          srvBottle' = [srvBottle EXCEPT ![i] = [unit |-> units + 1, seq |-> seq + 1]]
    BY DEF OtherBottle
<1>2. /\ UNCHANGED <<tables, syncState, page, srvRef>>
      /\ seq' = seq + 1 /\ seq \in Nat /\ refCursor \in Nat
    BY DEF OtherBottle, TypeInv, TypeOK
<1>3. ASSUME NEW q, q.id \in Id, Held(q) PROVE Held(q)'
    <2>1. srvBottle'[q.id] = srvBottle[q.id]
        BY <1>1, <1>3 DEF Held, SrvIds, TypeInv, TypeOK
    <2> QED
        BY <1>3, <2>1 DEF Held
<1>4. \A q \in bottle \cup reply.rows : q.id \in Id
    BY DEF TypeInv, TypeOK, BottleRow, Reply, PulledBottle
<1>5. CleanAreStored'
    <2> SUFFICES ASSUME NEW q \in bottle, q.dirty = 0 PROVE Held(q)'
        BY <1>2 DEF CleanAreStored, Held, tables
    <2>1. Held(q)
        BY DEF Mirrors, OfThisServer, CleanAreStored, Held
    <2> QED
        BY <1>3, <1>4, <2>1
<1>6. AcksBacked' /\ RowsBacked'
    BY <1>2, <1>3, <1>4 DEF Mirrors, AcksBacked, RowsBacked, tables, page
<1>7. refCursor' <= seq' /\ reply'.high = reply.high /\ reply.high \in Nat
    BY <1>2 DEF Mirrors, syncState, page, TypeInv, TypeOK, Reply
<1> QED
    BY <1>2, <1>5, <1>6, <1>7
    DEF Mirrors, OfThisServer, MirrorIsBacked, MirrorIsComplete, RefIds, RefsBacked,
        RefsComplete, Got, tables, syncState, page

\* The changed row's stamp is beyond the cursor and the answer under way.
LEMMA RedeployMirrors ==
    ASSUME TypeInv, Mirrors, Redeploy
    PROVE  Mirrors'
<1>1. PICK k \in RefId, v \in Value :
          srvRef' = [srvRef EXCEPT ![k] = [value |-> v, seq |-> seq + 1]]
    BY DEF Redeploy
<1>2. /\ UNCHANGED <<tables, syncState, pc, srvBottle>>
      /\ seq' = seq + 1 /\ seq \in Nat /\ refCursor \in Nat /\ reply.high \in Nat
    BY DEF Redeploy, TypeInv, TypeOK, Reply
<1>3. /\ reply'.acks = reply.acks /\ reply'.rows = reply.rows /\ reply'.refs = reply.refs
      /\ reply'.high = reply.high
      /\ reply'.status = "ok" => reply.status = "ok"
    BY DEF Redeploy, DropRequest, TypeInv, TypeOK, Reply
<1>4. \A i \in RefId : srvRef[i] # NoRow => srvRef[i].seq \in Nat /\ srvRef[i].seq <= seq
    BY DEF TypeInv, TypeOK, StampsBounded, SrvRefRow
<1>5. /\ srvRef'[k] = [value |-> v, seq |-> seq + 1]
      /\ srvRef'[k] # NoRow
      /\ \A i \in RefId : i # k => srvRef'[i] = srvRef[i]
    <2>1. [value |-> v, seq |-> seq + 1] \in SrvRefRow
        BY <1>2 DEF SrvRefRow
    <2> QED
        BY <1>1, <2>1, RowTypes DEF TypeInv, TypeOK
<1>6. MirrorIsBacked' /\ CleanAreStored'
    BY <1>2, <1>5 DEF Mirrors, OfThisServer, MirrorIsBacked, CleanAreStored, tables
<1>7. ASSUME NEW i \in RefId, srvRef'[i] # NoRow, NEW n \in Nat, n <= seq, srvRef'[i].seq <= n
      PROVE  i \in RefIds /\ srvRef'[i] = srvRef[i]
    <2>1. i # k
        BY <1>2, <1>5, <1>7
    <2> QED
        BY <1>5, <1>7, <2>1 DEF RefIds
<1>8. MirrorIsComplete'
    BY <1>2, <1>7 DEF Mirrors, OfThisServer, MirrorIsComplete, RefIds, tables, syncState
<1>9. RefsBacked'
    <2> SUFFICES ASSUME NEW r \in reply.refs
                 PROVE  /\ srvRef'[r.id] # NoRow /\ srvRef'[r.id].seq >= r.seq
                        /\ r.seq > refCursor
        BY <1>2, <1>3 DEF RefsBacked, syncState
    <2>1. r.id \in RefId /\ r.seq \in Nat
        BY DEF TypeInv, TypeOK, Reply, PulledRef
    <2>2. srvRef[r.id] # NoRow /\ srvRef[r.id].seq >= r.seq /\ r.seq > refCursor
        BY DEF Mirrors, RefsBacked
    <2> QED
        BY <1>2, <1>4, <1>5, <2>1, <2>2
<1>10. RefsComplete'
    <2> SUFFICES ASSUME Got("refpull", "ok")
                 PROVE  /\ reply.high <= seq'
                        /\ \A i \in RefIds' : srvRef'[i].seq <= reply.high =>
                              \/ srvRef'[i].seq <= refCursor
                              \/ \E r \in reply.refs : r.id = i /\ r.value = srvRef'[i].value
        BY <1>2, <1>3 DEF RefsComplete, Got, syncState
    <2>1. reply.high <= seq
        BY DEF Mirrors, RefsComplete
    <2> QED
        BY <1>2, <1>7, <2>1 DEF Mirrors, RefsComplete, RefIds
<1> QED
    BY <1>2, <1>3, <1>6, <1>8, <1>9, <1>10
    DEF Mirrors, OfThisServer, AcksBacked, RowsBacked, Held, tables, syncState

LEMMA KnownStep ==
    TypeInv /\ EpochInv /\ LocalInv /\ Untouched /\ KnownInv /\ [Next]_vars => KnownInv'
<1> SUFFICES ASSUME TypeInv, EpochInv, LocalInv, Untouched, KnownInv, [Next]_vars, Known'
             PROVE  Mirrors'
    BY SeqStep DEF KnownInv
<1>1. CASE CheckEpoch
    BY <1>1, CheckEpochMirrors DEF KnownInv
<1>2. CASE ~CheckEpoch
    <2> USE DEF tables, syncState, page, server
    <2>1. Known /\ ~Nuke /\ ~EpochUnread /\ ~(CheckEpochFails /\ Outdated(reply.from))
        BY <1>2, KnownBefore
    <2>2. Mirrors
        BY <2>1 DEF KnownInv
    <2>3. CASE UNCHANGED vars
        BY <2>2, <2>3, QuietMirrors DEF vars, Got
    <2>4. CASE AddBottle
        BY <2>2, <2>4, AddBottleMirrors
    <2>5. CASE \/ Sync \/ MetaFails \/ PushFails \/ PullFails \/ SendRefPull \/ RefPullFails
        <3>1. PICK stage : Goto(stage)
            BY <2>5, EndPassGoes
            DEF Sync, MetaFails, PushFails, PullFails, SendRefPull, RefPullFails
        <3>2. UNCHANGED <<tables, refCursor, srvBottle, srvRef, seq>>
            BY <2>5 DEF Sync, MetaFails, PushFails, PullFails, SendRefPull, RefPullFails
        <3>3. OfThisServer' /\ refCursor' <= seq'
            BY <2>2, <3>2, SameTables DEF Mirrors
        <3> QED
            BY <3>1, <3>3, GotoMirrors
    <2>6. ASSUME NEW next \in {"meta", "idle"}, Load(next) PROVE Mirrors'
        <3>1. UNCHANGED <<tables, refCursor, srvBottle, srvRef, seq>>
            BY <2>2, <2>6 DEF Load, Mirrors, OfThisServer
        <3>2. OfThisServer' /\ refCursor' <= seq'
            BY <2>2, <3>1, SameTables DEF Mirrors
        <3> QED
            BY <2>6, <3>2, GotoMirrors DEF Load
    <2>7. CASE GetDirty
        BY <2>2, <2>7, QuietMirrors DEF GetDirty, Goto, NoReply, Got
    <2>8. CASE CheckEpochFails
        <3>1. UNCHANGED <<tables, refCursor, srvBottle, srvRef, seq>>
            BY <2>1, <2>8 DEF CheckEpochFails
        <3>2. OfThisServer' /\ refCursor' <= seq'
            BY <2>2, <3>1, SameTables DEF Mirrors
        <3> QED
            BY <2>8, <3>2, GotoMirrors DEF CheckEpochFails
    <2>9. CASE ApplyAcks
        BY <2>2, <2>9, ApplyAcksMirrors
    <2>10. CASE ApplyPull
        BY <2>2, <2>10, ApplyPullMirrors
    <2>11. CASE ApplyReference \/ ApplyReferenceFails
        BY <2>2, <2>11, ApplyReferenceMirrors
    <2>12. CASE PushRow
        BY <2>2, <2>12, PushRowMirrors
    <2>13. CASE PushRowRejected \/ RequestFails \/ AnswerMeta \/ AnswerPush
        <3>1. UNCHANGED <<tables, refCursor, srvBottle, srvRef, seq, pc>>
            BY <2>13 DEF PushRowRejected, RequestFails, AnswerMeta, AnswerPush
        <3>2. /\ reply'.acks \subseteq reply.acks
              /\ reply'.rows = {} /\ reply'.refs = {}
              /\ ~Got("refpull", "ok")'
            BY <2>13
            DEF PushRowRejected, RequestFails, AnswerMeta, AnswerPush, Waits, Refused,
                Accepted, NoReply, Got
        <3> QED
            BY <2>2, <3>1, <3>2, QuietMirrors
    <2>14. CASE AnswerPull
        BY <2>2, <2>14, AnswerPullMirrors
    <2>15. CASE AnswerRefPull
        BY <2>2, <2>15, AnswerRefPullMirrors
    <2>16. CASE OtherBottle
        BY <2>2, <2>16, OtherBottleMirrors
    <2>17. CASE Redeploy
        BY <2>2, <2>17, RedeployMirrors
    <2> QED
        BY <1>2, <2>1, <2>3, <2>4, <2>5, <2>6, <2>7, <2>8, <2>9, <2>10, <2>11, <2>12,
           <2>13, <2>14, <2>15, <2>16, <2>17
        DEF Next, Page, Answer, Faulty
<1> QED
    BY <1>1, <1>2

\* After any number of resets, cut short or raced, a browser that stores the
\* server's epoch, and is not blind, holds nothing of an earlier server.
THEOREM KnownServersAreMirrored == Spec => []KnownServerIsMirrored
<1> DEFINE Inv == TypeInv /\ EpochInv /\ LocalInv /\ Untouched /\ KnownInv
<1>1. Init => Inv
    BY TypeInit, EpochInit, LocalInit, UntouchedInit, KnownInit
<1>2. Inv /\ [Next]_vars => Inv'
    BY TypeStep, EpochStep, LocalStep, UntouchedStep, KnownStep
<1>3. Inv => KnownServerIsMirrored
    BY DEF KnownInv, Known, Mirrors, KnownServerIsMirrored
<1> HIDE DEF Inv
<1> QED
    BY <1>1, <1>2, <1>3, PTL DEF Spec
=============================================================================

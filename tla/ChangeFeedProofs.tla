--------------------------- MODULE ChangeFeedProofs ---------------------------
(***************************************************************************)
(* Theorems of ChangeFeed, for any tables, any number of statements open   *)
(* at once and any bounds.                                                 *)
(***************************************************************************)
EXTENDS ChangeFeed, SharedProofs

\* A stamp is given out once, in order, and a row has one open statement.
Ordered ==
    /\ \A i \in Row : table[i] <= seq
    /\ \A o \in open : o.stamp <= seq /\ table[o.row] < o.stamp
    /\ \A o, p \in open : o.row = p.row => o = p
    /\ \A kind \in Kind : cursor[kind] <= seq
    /\ pull.high <= seq

\* A pull asks from the stored cursor; its rows are of its table, one version
\* of each, between the one held and the one committed by now.
Backed ==
    /\ pull.status \in {"run", "read"} => serving
    /\ pull.status = "read" => pull.kind = "bottle"
    /\ pull.status # "none" => pull.since = cursor[pull.kind]
    /\ \A i \in Row : held[i] <= table[i]
    /\ \A r \in pull.rows :
           /\ r.row \in RowsOf(pull.kind)
           /\ held[r.row] <= r.stamp
           /\ r.stamp <= table[r.row]
    /\ \A p, q \in pull.rows : p.row = q.row => p = q

TypeInv == TypeOK /\ Ordered /\ Backed

LEMMA Kinds ==
    /\ \A kind \in Kind : RowsOf(kind) \subseteq Row
    /\ "bottle" \in Kind /\ "reference" \in Kind
    /\ NoPull \in Pull /\ NoPull.status = "none" /\ NoPull.rows = {} /\ NoPull.high = 0
BY DEF Kind, RowsOf, Row, NoPull, Pull

\* max() of a bounded set of stamps is one of them and bounds them.
LEMMA HighestBounds ==
    ASSUME NEW S \in SUBSET Nat, S # {}, NEW B \in Nat, \A n \in S : n <= B
    PROVE  Highest(S) \in S /\ \A n \in S : n <= Highest(S)
<1>1. \E m \in S : \A n \in S : n <= m
    BY MaxExists
<1> QED
    BY <1>1, Zenon DEF Highest

LEMMA BottleCursorFacts ==
    ASSUME TypeInv
    PROVE  BottleCursor \in Nat /\ BottleCursor <= seq
<1>1. Stamps("bottle") \in SUBSET Nat /\ \A n \in Stamps("bottle") : n <= seq
    BY Kinds DEF TypeInv, TypeOK, Ordered, Stamps
<1>2. {0} \cup Stamps("bottle") \in SUBSET Nat /\ {0} \cup Stamps("bottle") # {} /\ seq \in Nat
      /\ \A n \in {0} \cup Stamps("bottle") : n <= seq
    BY <1>1 DEF TypeInv, TypeOK
<1>3. Highest({0} \cup Stamps("bottle")) \in {0} \cup Stamps("bottle")
    BY <1>2, HighestBounds
<1> QED
    BY <1>2, <1>3 DEF BottleCursor

LEMMA PastFacts ==
    ASSUME TypeInv, NEW kind \in Kind, NEW since \in Nat
    PROVE  /\ Past(kind, since) \in SUBSET Write
           /\ \A r \in Past(kind, since) :
                  r.row \in RowsOf(kind) /\ r.stamp = table[r.row] /\ r.stamp > since
           /\ \A i \in RowsOf(kind) :
                  table[i] > since => [row |-> i, stamp |-> table[i]] \in Past(kind, since)
           /\ \A p, q \in Past(kind, since) : p.row = q.row => p = q
BY Kinds DEF TypeInv, TypeOK, Past, Write

\* The cursor of a reference answer covers its rows and nothing uncommitted.
LEMMA ReferenceHighFacts ==
    ASSUME TypeInv, pull.kind = "reference", pull.status = "run"
    PROVE  LET rows == Past("reference", pull.since)
               high == Highest({pull.since} \cup {r.stamp : r \in rows})
           IN  high \in Nat /\ high <= seq /\ pull.since <= high
<1> DEFINE rows == Past("reference", pull.since)
           stamps == {pull.since} \cup {r.stamp : r \in rows}
<1>1. pull.since \in Nat /\ pull.since <= seq /\ seq \in Nat
    BY Kinds DEF TypeInv, TypeOK, Pull, Ordered, Backed
<1>2. \A r \in rows : r.stamp \in Nat /\ r.stamp <= seq
    BY <1>1, Kinds, PastFacts DEF TypeInv, TypeOK, Ordered, Write
<1>3. stamps \in SUBSET Nat /\ stamps # {} /\ \A n \in stamps : n <= seq
    BY <1>1, <1>2
<1>4. Highest(stamps) \in stamps /\ \A n \in stamps : n <= Highest(stamps)
    <2> HIDE DEF stamps
    <2> QED BY <1>1, <1>3, HighestBounds
<1>5. pull.since \in stamps
    OBVIOUS
<1> QED
    <2> HIDE DEF rows
    <2>1. Highest(stamps) \in Nat /\ Highest(stamps) <= seq /\ pull.since <= Highest(stamps)
        BY <1>3, <1>4, <1>5
    <2> QED BY <2>1 DEF rows

\* What applying some rows of the pull leaves in the store.
LEMMA AppliedFacts ==
    ASSUME TypeInv, NEW rows \in SUBSET pull.rows
    PROVE  /\ Applied(rows) \in [Row -> Nat]
           /\ \A i \in Row : held[i] <= Applied(rows)[i] /\ Applied(rows)[i] <= table[i]
           /\ \A r \in rows : Applied(rows)[r.row] = r.stamp
           /\ \A i \in Row : (\A r \in rows : r.row # i) => Applied(rows)[i] = held[i]
<1>1. rows \in SUBSET Write /\ held \in [Row -> Nat] /\ table \in [Row -> Nat]
    BY DEF TypeInv, TypeOK, Pull
<1>2. \A r \in rows : r.row \in Row /\ r.stamp \in Nat
                      /\ held[r.row] <= r.stamp /\ r.stamp <= table[r.row]
    BY <1>1 DEF TypeInv, Backed, Write
<1>3. \A p, q \in rows : p.row = q.row => p = q
    BY DEF TypeInv, Backed
<1>4. \A i \in Row : held[i] <= table[i]
    BY DEF TypeInv, Backed
<1>5. SUFFICES ASSUME NEW i \in Row
               PROVE  /\ Applied(rows)[i] \in Nat
                      /\ held[i] <= Applied(rows)[i] /\ Applied(rows)[i] <= table[i]
                      /\ \A r \in rows : r.row = i => Applied(rows)[i] = r.stamp
                      /\ (\A r \in rows : r.row # i) => Applied(rows)[i] = held[i]
    BY <1>2 DEF Applied
<1>6. CASE \E r \in rows : r.row = i
    <2>1. PICK r \in rows : r.row = i
        BY <1>6
    <2>2. \A q \in rows : q.row = i => q = r
        BY <1>3, <2>1
    <2>3. (CHOOSE q \in rows : q.row = i) = r
        BY <2>1, <2>2
    <2>4. Applied(rows)[i] = r.stamp
        BY <1>6, <2>3 DEF Applied
    <2> QED BY <1>2, <2>1, <2>2, <2>4
<1>7. CASE \A r \in rows : r.row # i
    <2>1. Applied(rows)[i] = held[i]
        BY <1>7 DEF Applied
    <2> QED BY <1>1, <1>4, <1>7, <2>1
<1> QED
    BY <1>6, <1>7

-----------------------------------------------------------------------------
(* Type correctness. *)

LEMMA TypeInit == Init => TypeInv
<1> SUFFICES ASSUME Init PROVE TypeInv
    OBVIOUS
<1>1. TypeOK
    BY Kinds DEF Init, TypeOK
<1>2. Ordered
    BY Kinds DEF Init, Ordered
<1>3. Backed
    BY Kinds DEF Init, Backed
<1> QED
    BY <1>1, <1>2, <1>3 DEF TypeInv

LEMMA TypeStep == TypeInv /\ [Next]_vars => TypeInv'
<1> SUFFICES ASSUME TypeInv, [Next]_vars PROVE TypeInv'
    OBVIOUS
<1> USE FeedAssumption
<1> USE DEF TypeInv, database, store
<1>1. CASE UNCHANGED vars
    BY <1>1 DEF vars, TypeOK, Ordered, Backed
<1>2. ASSUME NEW i \in Row, Draw(i) PROVE TypeInv'
    <2> DEFINE new == [row |-> i, stamp |-> seq + 1]
    <2>1. new \in Write /\ new.row = i /\ new.stamp = seq + 1 /\ seq \in Nat
        BY DEF TypeOK, Write
    <2>2. seq' = seq + 1 /\ open' = open \cup {new} /\ during' \in {during, during \cup {seq + 1}}
          /\ UNCHANGED <<table, serving, pull, held, cursor, overlap, faults>>
          /\ \A o \in open : o.row # i
        BY <1>2 DEF Draw
    <2> HIDE DEF new
    <2>3. TypeOK'
        BY <2>1, <2>2 DEF TypeOK
    <2>4. Ordered'
        BY <2>1, <2>2 DEF TypeOK, Ordered, Write, Pull
    <2>5. Backed'
        BY <2>2 DEF Backed
    <2> QED BY <2>3, <2>4, <2>5
<1>3. ASSUME NEW o \in open, Commit(o) PROVE TypeInv'
    <2>1. TypeOK'
        BY <1>3 DEF Commit, TypeOK, Write
    <2>2. Ordered'
        BY <1>3 DEF Commit, TypeOK, Ordered, Write
    <2>3. Backed'
        <3>1. \A j \in Row : table[j] \in Nat /\ table'[j] \in Nat /\ table[j] <= table'[j]
              /\ held[j] \in Nat
            BY <1>3 DEF Commit, TypeOK, Ordered, Write
        <3>2. \A r \in pull.rows : r.row \in Row /\ r.stamp \in Nat
            BY DEF TypeOK, Pull, Write
        <3> QED BY <1>3, <3>1, <3>2 DEF Commit, Backed
    <2> QED BY <2>1, <2>2, <2>3
<1>4. ASSUME NEW o \in open, RollBack(o) PROVE TypeInv'
    BY <1>4 DEF RollBack, TypeOK, Ordered, Backed
<1>5. ASSUME NEW kind \in Kind, SendPull(kind) PROVE TypeInv'
    <2>1. /\ pull' = [NoPull EXCEPT !.kind = kind, !.status = "run", !.since = cursor[kind]]
          /\ serving
          /\ UNCHANGED <<database, serving, store, during, overlap, faults>>
        BY <1>5 DEF SendPull
    <2>2. /\ pull' \in Pull /\ pull'.kind = kind /\ pull'.status = "run"
          /\ pull'.since = cursor[kind] /\ pull'.rows = {} /\ pull'.high = 0
        BY <2>1 DEF NoPull, TypeOK, Pull, Kind
    <2>3. TypeOK' /\ Ordered'
        BY <2>1, <2>2 DEF TypeOK, Ordered
    <2> QED BY <2>1, <2>2, <2>3 DEF Backed
<1>6. CASE PullReadsRows
    <2>1. pull.since \in Nat /\ pull.kind \in Kind
        BY DEF TypeOK, Pull
    <2>2. pull' = [pull EXCEPT !.status = "read", !.rows = Past("bottle", pull.since)]
          /\ UNCHANGED <<database, serving, store, overlap, faults>>
          /\ pull.kind = "bottle" /\ pull.status = "run"
        BY <1>6 DEF PullReadsRows
    <2>3. pull' \in Pull
        BY <2>1, <2>2, PastFacts DEF Pull, TypeOK
    <2>4. TypeOK'
        BY <1>6, <2>2, <2>3 DEF PullReadsRows, TypeOK, Write
    <2>5. Ordered'
        BY <2>2 DEF Ordered, TypeOK, Pull
    <2>6. Backed'
        <3>1. pull'.rows = Past("bottle", pull.since) /\ pull'.kind = "bottle"
              /\ pull'.status = "read" /\ pull'.since = pull.since
            BY <2>2 DEF TypeOK, Pull
        <3>2. \A r \in Past("bottle", pull.since) :
                  r.row \in RowsOf("bottle") /\ r.row \in Row /\ r.stamp = table[r.row]
            BY <2>1, Kinds, PastFacts
        <3> QED BY <2>1, <2>2, <3>1, <3>2, Kinds, PastFacts DEF Backed, TypeOK
    <2> QED BY <2>4, <2>5, <2>6
<1>7. CASE PullReadsCursor
    BY <1>7, BottleCursorFacts DEF PullReadsCursor, TypeOK, Ordered, Backed, Pull
<1>8. CASE ReferencePullReads
    <2> DEFINE rows == Past("reference", pull.since)
               high == Highest({pull.since} \cup {r.stamp : r \in rows})
    <2>1. pull.since \in Nat /\ pull.kind = "reference" /\ pull.status = "run"
        BY <1>8 DEF TypeOK, Pull, ReferencePullReads
    <2>2. pull' = [pull EXCEPT !.status = "ok", !.rows = rows, !.high = high]
          /\ UNCHANGED <<database, serving, store, during, overlap, faults>>
        BY <1>8 DEF ReferencePullReads
    <2>3. high \in Nat /\ high <= seq
        BY <2>1, ReferenceHighFacts
    <2>4. rows \in SUBSET Write /\ (\A p, q \in rows : p.row = q.row => p = q)
          /\ \A r \in rows : r.row \in RowsOf("reference") /\ r.row \in Row /\ r.stamp = table[r.row]
        BY <2>1, Kinds, PastFacts
    <2> HIDE DEF rows, high
    <2>5. pull' \in Pull
        BY <2>2, <2>3, <2>4 DEF Pull, TypeOK
    <2>6. TypeOK' /\ Ordered'
        BY <2>2, <2>3, <2>5 DEF TypeOK, Ordered, Pull
    <2>7. Backed'
        <3>1. pull'.rows = rows /\ pull'.kind = "reference"
              /\ pull'.status = "ok" /\ pull'.since = pull.since
            BY <2>1, <2>2 DEF TypeOK, Pull
        <3> QED BY <2>1, <2>2, <2>4, <3>1 DEF Backed, TypeOK
    <2> QED BY <2>6, <2>7
<1>9. CASE Apply
    <2>1. held' = Applied(pull.rows) /\ cursor' = [cursor EXCEPT ![pull.kind] = pull.high]
          /\ pull' = NoPull /\ during' = {} /\ overlap' = overlap \cup during
          /\ UNCHANGED <<database, serving, faults>>
        BY <1>9 DEF Apply
    <2>2. held' \in [Row -> Nat] /\ \A i \in Row : held'[i] <= table[i]
        BY <2>1, AppliedFacts
    <2> QED BY <2>1, <2>2, Kinds DEF TypeOK, Ordered, Backed, Pull
<1>10. CASE ApplyFails
    <2>1. PICK n \in 0..MaxSeq : held' = Applied({r \in pull.rows : r.stamp <= n})
        BY <1>10 DEF ApplyFails
    <2>2. held' \in [Row -> Nat] /\ \A i \in Row : held'[i] <= table[i]
        BY <2>1, AppliedFacts
    <2> QED BY <1>10, <2>2, Kinds DEF ApplyFails, Fault, TypeOK, Ordered, Backed
<1>11. CASE LosePull
    BY <1>11, Kinds DEF LosePull, Fault, TypeOK, Ordered, Backed
<1>12. CASE Stop
    <2>1. pull' \in {pull, NoPull} /\ (pull'.status \in {"run", "read"} => FALSE)
          /\ during' \in {during, {}} /\ serving' = FALSE /\ faults' = faults + 1
          /\ UNCHANGED <<database, store, overlap>>
        BY <1>12, Kinds DEF Stop, Fault
    <2>2. TypeOK'
        <3>1. pull' \in Pull
            BY <2>1, Kinds DEF TypeOK
        <3>2. during' \in SUBSET Nat
            BY <2>1 DEF TypeOK
        <3>3. serving' \in BOOLEAN
            BY <2>1
        <3>4. /\ seq' \in Nat /\ table' \in [Row -> Nat] /\ open' \in SUBSET Write
              /\ held' \in [Row -> Nat] /\ cursor' \in [Kind -> Nat]
              /\ overlap' \in SUBSET Nat /\ faults' \in Nat
            BY <2>1 DEF TypeOK
        <3> QED BY <3>1, <3>2, <3>3, <3>4 DEF TypeOK
    <2>3. Ordered'
        BY <2>1, Kinds DEF TypeOK, Ordered
    <2>4. Backed'
        BY <2>1, Kinds DEF Backed
    <2> QED BY <2>2, <2>3, <2>4
<1>13. CASE Serve
    BY <1>13 DEF Serve, TypeOK, Ordered, Backed
<1> QED
    BY <1>1, <1>2, <1>3, <1>4, <1>5, <1>6, <1>7, <1>8, <1>9, <1>10, <1>11, <1>12, <1>13
    DEF Next, Ends, Reader

\* Every reachable state is well typed, whatever the tables and the bounds.
THEOREM FeedTypeCorrect == Spec => []TypeOK
<1>1. Init => TypeInv
    BY TypeInit
<1>2. TypeInv /\ [Next]_vars => TypeInv'
    BY TypeStep
<1>3. TypeInv => TypeOK
    BY DEF TypeInv
<1> QED
    BY <1>1, <1>2, <1>3, PTL DEF Spec
-----------------------------------------------------------------------------
(* Bottles. *)

\* A committed bottle past the cursor asked from is among the rows of the pull,
\* or its statement was open between the two of the pull; so is, once the pull
\* has its cursor, each open statement the cursor passes.
InFlight ==
    pull.kind = "bottle" =>
        /\ pull.status = "read" => \A o \in open : o.stamp \in during
        /\ pull.status = "ok" =>
               \A o \in open : o.stamp <= pull.high => o.stamp \in during
        /\ pull.status \in {"read", "ok"} =>
               \A i \in Bottle : table[i] > pull.since =>
                   \/ pull.status = "ok" /\ table[i] > pull.high
                   \/ table[i] \in during
                   \/ \E r \in pull.rows : r.row = i /\ r.stamp = table[i]

\* The same of the stored cursor.
Passed ==
    /\ SkipsNeedOverlap
    /\ \A o \in open : o.row \in Bottle /\ o.stamp <= cursor["bottle"] => o.stamp \in overlap

BottleInv == InFlight /\ Passed

LEMMA BottleInit == Init => BottleInv
BY Kinds DEF Init, BottleInv, InFlight, Passed, SkipsNeedOverlap, Missed, Row

LEMMA BottleStep == TypeInv /\ BottleInv /\ [Next]_vars => BottleInv'
<1> SUFFICES ASSUME TypeInv, BottleInv, [Next]_vars PROVE BottleInv'
    OBVIOUS
<1> USE DEF database, store
<1>0. /\ seq \in Nat /\ pull \in Pull /\ pull.high \in Nat /\ pull.since \in Nat
      /\ \A i \in Bottle : i \in Row /\ table[i] \in Nat /\ held[i] \in Nat
      /\ \A o \in open : o.row \in Row /\ o.stamp \in Nat
      /\ cursor["bottle"] \in Nat
    BY Kinds DEF TypeInv, TypeOK, Pull, Row, Write
<1>1. CASE UNCHANGED vars
    BY <1>1 DEF vars, BottleInv, InFlight, Passed, SkipsNeedOverlap, Missed
<1>2. ASSUME NEW i \in Row, Draw(i) PROVE BottleInv'
    <2> DEFINE new == [row |-> i, stamp |-> seq + 1]
    <2>1. /\ new.stamp = seq + 1
          /\ open' = open \cup {new}
          /\ during' = IF pull.status = "read" THEN during \cup {seq + 1} ELSE during
          /\ UNCHANGED <<table, serving, pull, held, cursor, overlap, faults>>
        BY <1>2 DEF Draw
    <2>2. ~(seq + 1 <= pull.high) /\ ~(seq + 1 <= cursor["bottle"])
        BY <1>0, Kinds DEF TypeInv, Ordered
    <2> HIDE DEF new
    <2>3. InFlight'
        BY <1>0, <2>1, <2>2 DEF BottleInv, InFlight
    <2>4. Passed'
        BY <1>0, <2>1, <2>2 DEF BottleInv, Passed, SkipsNeedOverlap, Missed
    <2> QED BY <2>3, <2>4 DEF BottleInv
<1>3. ASSUME NEW o \in open, Commit(o) PROVE BottleInv'
    <2>1. /\ table' = [table EXCEPT ![o.row] = o.stamp] /\ open' = open \ {o}
          /\ UNCHANGED <<seq, serving, pull, store, during, overlap, faults>>
        BY <1>3 DEF Commit
    <2>2. \A i \in Bottle : table'[i] = IF i = o.row THEN o.stamp ELSE table[i]
        BY <1>0, <2>1 DEF TypeInv, TypeOK
    <2>3. InFlight'
        BY <1>0, <2>1, <2>2 DEF BottleInv, InFlight
    <2>4. Passed'
        BY <1>0, <2>1, <2>2 DEF BottleInv, Passed, SkipsNeedOverlap, Missed
    <2> QED BY <2>3, <2>4 DEF BottleInv
<1>4. ASSUME NEW o \in open, RollBack(o) PROVE BottleInv'
    BY <1>4 DEF RollBack, BottleInv, InFlight, Passed, SkipsNeedOverlap, Missed
<1>5. ASSUME NEW kind \in Kind, SendPull(kind) PROVE BottleInv'
    <2>1. pull'.status = "run" /\ UNCHANGED <<database, serving, store, during, overlap, faults>>
        BY <1>5 DEF SendPull, NoPull
    <2> QED BY <2>1 DEF BottleInv, InFlight, Passed, SkipsNeedOverlap, Missed
<1>6. CASE PullReadsRows
    <2>1. /\ pull'.status = "read" /\ pull'.since = pull.since
          /\ pull'.rows = Past("bottle", pull.since)
          /\ during' = {o.stamp : o \in open}
          /\ UNCHANGED <<database, serving, store, overlap, faults>>
        BY <1>0, <1>6 DEF PullReadsRows, Pull
    <2>2. \A i \in Bottle : table[i] > pull.since =>
              \E r \in Past("bottle", pull.since) : r.row = i /\ r.stamp = table[i]
        BY <1>0, Kinds, PastFacts DEF RowsOf
    <2>3. InFlight'
        BY <2>1, <2>2 DEF InFlight
    <2>4. Passed'
        BY <2>1 DEF BottleInv, Passed, SkipsNeedOverlap, Missed
    <2> QED BY <2>3, <2>4 DEF BottleInv
<1>7. CASE PullReadsCursor
    <2>1. /\ pull.status = "read" /\ pull'.status = "ok" /\ pull'.since = pull.since
          /\ pull'.rows = pull.rows /\ pull'.kind = pull.kind
          /\ UNCHANGED <<database, serving, store, during, overlap, faults>>
        BY <1>0, <1>7 DEF PullReadsCursor, Pull
    <2>2. InFlight'
        BY <2>1 DEF BottleInv, InFlight
    <2>3. Passed'
        BY <2>1 DEF BottleInv, Passed, SkipsNeedOverlap, Missed
    <2> QED BY <2>2, <2>3 DEF BottleInv
<1>8. CASE ReferencePullReads
    <2>1. /\ pull'.kind = "reference"
          /\ UNCHANGED <<database, serving, store, during, overlap, faults>>
        BY <1>0, <1>8 DEF ReferencePullReads, Pull
    <2> QED BY <2>1 DEF BottleInv, InFlight, Passed, SkipsNeedOverlap, Missed
<1>9. CASE Apply
    <2>1. /\ pull.status = "ok" /\ pull'.status = "none"
          /\ held' = Applied(pull.rows) /\ cursor' = [cursor EXCEPT ![pull.kind] = pull.high]
          /\ overlap' = overlap \cup during
          /\ UNCHANGED <<database, serving, faults>>
        BY <1>9, Kinds DEF Apply
    <2>2. InFlight'
        BY <2>1 DEF InFlight
    <2>3. \A i \in Bottle : held[i] <= held'[i] /\ held'[i] \in Nat
        BY <1>0, <2>1, AppliedFacts
    <2>4. CASE pull.kind = "reference"
        <3>1. cursor'["bottle"] = cursor["bottle"]
            BY <2>1, <2>4, Kinds DEF TypeInv, TypeOK
        <3> QED BY <1>0, <2>1, <2>2, <2>3, <3>1 DEF BottleInv, Passed, SkipsNeedOverlap, Missed
    <2>5. CASE pull.kind = "bottle"
        <3>1. cursor'["bottle"] = pull.high /\ pull.since = cursor["bottle"]
            BY <2>1, <2>5, Kinds DEF TypeInv, TypeOK, Backed
        <3>2. \A r \in pull.rows : held'[r.row] = r.stamp
            BY <2>1, AppliedFacts
        <3>3. ASSUME NEW i \in Bottle, Missed(i)' PROVE table[i] \in overlap'
            <4>1. table[i] <= pull.high /\ held'[i] < table[i] /\ held[i] < table[i]
                BY <1>0, <2>1, <2>3, <3>1, <3>3 DEF Missed
            <4>2. CASE table[i] <= pull.since
                BY <1>0, <2>1, <3>1, <4>1, <4>2 DEF BottleInv, Passed, SkipsNeedOverlap, Missed
            <4>3. CASE table[i] > pull.since
                BY <1>0, <2>1, <2>5, <3>2, <4>1, <4>3 DEF BottleInv, InFlight
            <4> QED BY <1>0, <4>2, <4>3
        <3>4. SkipsNeedOverlap'
            BY <2>1, <3>3 DEF SkipsNeedOverlap
        <3>5. \A o \in open : o.stamp <= pull.high => o.stamp \in overlap'
            BY <2>1, <2>5 DEF BottleInv, InFlight
        <3> QED BY <2>1, <2>2, <3>1, <3>4, <3>5 DEF BottleInv, Passed
    <2> QED BY <1>0, <2>4, <2>5 DEF Pull, Kind
<1>10. CASE ApplyFails
    <2>1. PICK n \in 0..MaxSeq : held' = Applied({r \in pull.rows : r.stamp <= n})
        BY <1>10 DEF ApplyFails
    <2>2. \A i \in Bottle : held[i] <= held'[i] /\ held'[i] \in Nat
        BY <1>0, <2>1, AppliedFacts
    <2>3. pull'.status = "none" /\ UNCHANGED <<database, serving, cursor, overlap>>
        BY <1>10, Kinds DEF ApplyFails
    <2> QED BY <1>0, <2>2, <2>3 DEF BottleInv, InFlight, Passed, SkipsNeedOverlap, Missed
<1>11. CASE LosePull
    <2>1. pull'.status = "none" /\ UNCHANGED <<database, serving, store, overlap>>
        BY <1>11, Kinds DEF LosePull
    <2> QED BY <2>1 DEF BottleInv, InFlight, Passed, SkipsNeedOverlap, Missed
<1>12. CASE Stop
    <2>1. /\ pull'.status = "none" \/ (pull' = pull /\ during' = during)
          /\ UNCHANGED <<database, store, overlap>>
        BY <1>12, Kinds DEF Stop
    <2> QED BY <2>1 DEF BottleInv, InFlight, Passed, SkipsNeedOverlap, Missed
<1>13. CASE Serve
    BY <1>13 DEF Serve, BottleInv, InFlight, Passed, SkipsNeedOverlap, Missed
<1> QED
    BY <1>1, <1>2, <1>3, <1>4, <1>5, <1>6, <1>7, <1>8, <1>9, <1>10, <1>11, <1>12, <1>13
    DEF Next, Ends, Reader

\* A reader misses a bottle only when its statement overlapped one of the
\* reader's pulls, for any tables and any number of concurrent statements.
THEOREM SkipsAlwaysNeedOverlap == Spec => []SkipsNeedOverlap
<1>1. Init => TypeInv /\ BottleInv
    BY TypeInit, BottleInit
<1>2. TypeInv /\ BottleInv /\ [Next]_vars => (TypeInv /\ BottleInv)'
    BY TypeStep, BottleStep
<1>3. BottleInv => SkipsNeedOverlap
    BY DEF BottleInv, Passed
<1> QED
    BY <1>1, <1>2, <1>3, PTL DEF Spec
-----------------------------------------------------------------------------
(* Reference rows. *)

\* The open statement of start-up has the highest reference stamp, above the
\* stored cursor and the one on its way; what the stored cursor has passed is
\* held, and what the one on its way will pass is held or on its way.
RefInv ==
    /\ \A o \in open : o.row \in Reference =>
           /\ ~serving
           /\ \A i \in Reference : table[i] < o.stamp
           /\ cursor["reference"] < o.stamp
           /\ pull.kind = "reference" => pull.high < o.stamp
    /\ \A o, p \in open : o.row \in Reference /\ p.row \in Reference => o = p
    /\ \A i \in Reference : table[i] <= cursor["reference"] => held[i] = table[i]
    /\ pull.kind = "reference" /\ pull.status = "ok" =>
           /\ pull.since <= pull.high
           /\ \A i \in Reference : table[i] > pull.since =>
                  \/ table[i] > pull.high
                  \/ \E r \in pull.rows : r.row = i /\ r.stamp = table[i]

LEMMA RefInit == Init => RefInv
BY Kinds DEF Init, RefInv, Row

LEMMA RefTypes ==
    ASSUME TypeInv
    PROVE  /\ seq \in Nat /\ pull \in Pull /\ pull.high \in Nat /\ pull.since \in Nat
           /\ pull.kind \in Kind
           /\ \A i \in Reference : i \in Row /\ table[i] \in Nat /\ held[i] \in Nat
           /\ \A o \in open : o.row \in Row /\ o.stamp \in Nat
           /\ cursor["reference"] \in Nat
BY Kinds DEF TypeInv, TypeOK, Pull, Row, Write

\* What Apply and ApplyFails do to the reference rows.
LEMMA RefApplied ==
    ASSUME TypeInv, RefInv, pull.status = "ok", NEW rows \in SUBSET pull.rows
    PROVE  /\ \A i \in Reference :
                 /\ Applied(rows)[i] \in Nat
                 /\ held[i] <= Applied(rows)[i] /\ Applied(rows)[i] <= table[i]
                 /\ table[i] <= cursor["reference"] => Applied(rows)[i] = table[i]
                 /\ pull.kind = "bottle" => Applied(rows)[i] = held[i]
           /\ pull.kind = "reference" /\ rows = pull.rows =>
                 \A i \in Reference : table[i] <= pull.high => Applied(rows)[i] = table[i]
<1>1. /\ Applied(rows) \in [Row -> Nat]
      /\ \A i \in Row : held[i] <= Applied(rows)[i] /\ Applied(rows)[i] <= table[i]
      /\ \A r \in rows : Applied(rows)[r.row] = r.stamp
      /\ \A i \in Row : (\A r \in rows : r.row # i) => Applied(rows)[i] = held[i]
    BY AppliedFacts
<1>2. ASSUME NEW i \in Reference
      PROVE  /\ Applied(rows)[i] \in Nat
             /\ held[i] <= Applied(rows)[i] /\ Applied(rows)[i] <= table[i]
             /\ table[i] <= cursor["reference"] => Applied(rows)[i] = table[i]
    BY <1>1, RefTypes DEF RefInv
<1>3. ASSUME NEW i \in Reference, pull.kind = "bottle" PROVE Applied(rows)[i] = held[i]
    <2>1. \A r \in rows : r.row \in Bottle
        BY <1>3 DEF TypeInv, Backed, RowsOf
    <2> QED BY <1>1, <2>1, RefTypes, FeedAssumption
<1>4. ASSUME NEW i \in Reference, pull.kind = "reference", rows = pull.rows,
             table[i] <= pull.high
      PROVE  Applied(rows)[i] = table[i]
    <2>1. CASE table[i] <= pull.since
        BY <1>2, <1>4, <2>1 DEF TypeInv, Backed
    <2>2. CASE table[i] > pull.since
        BY <1>1, <1>4, <2>2, RefTypes DEF RefInv
    <2> QED BY <2>1, <2>2, RefTypes
<1> QED
    BY <1>2, <1>3, <1>4

\* The reference rows of a step: published one at a time under rising stamps,
\* or received.
Rows == [i \in Reference |-> table[i]]
Mirror == [i \in Reference |-> held[i]]
RefVars == <<Rows, Mirror, cursor["reference"]>>

LEMMA RefStep ==
    TypeInv /\ RefInv /\ [Next]_vars => RefInv' /\ [Ref!Next]_RefVars
<1> SUFFICES ASSUME TypeInv, RefInv, [Next]_vars PROVE RefInv' /\ [Ref!Next]_RefVars
    OBVIOUS
<1> USE DEF database, store
<1>a. ASSUME UNCHANGED <<table, held, cursor>> PROVE UNCHANGED RefVars
    BY <1>a DEF RefVars, Rows, Mirror
<1>b. ASSUME /\ UNCHANGED table
             /\ cursor'["reference"] \in Nat /\ cursor'["reference"] >= cursor["reference"]
             /\ \A i \in Reference :
                    /\ held'[i] \in Nat
                    /\ held[i] <= held'[i] /\ held'[i] <= table[i]
                    /\ table[i] <= cursor'["reference"] => held'[i] = table[i]
      PROVE  Ref!Next
    BY <1>b DEF Ref!Next, Ref!Receive
<1>1. CASE UNCHANGED vars
    BY <1>1, <1>a DEF vars, RefInv
<1>2. ASSUME NEW i \in Row, Draw(i) PROVE RefInv' /\ UNCHANGED RefVars
    <2> DEFINE new == [row |-> i, stamp |-> seq + 1]
    <2>1. /\ new.stamp = seq + 1 /\ new.row = i
          /\ open' = open \cup {new} /\ MayWrite(i)
          /\ UNCHANGED <<table, serving, pull, held, cursor, overlap, faults>>
        BY <1>2 DEF Draw
    <2>2. /\ pull.high < seq + 1 /\ cursor["reference"] < seq + 1
          /\ \A j \in Reference : table[j] < seq + 1
        BY RefTypes, Kinds DEF TypeInv, Ordered
    <2> HIDE DEF new
    <2>3. RefInv'
        BY <2>1, <2>2 DEF RefInv, MayWrite
    <2> QED BY <1>a, <2>1, <2>3
<1>3. ASSUME NEW o \in open, Commit(o) PROVE RefInv' /\ [Ref!Next]_RefVars
    <2>1. /\ table' = [table EXCEPT ![o.row] = o.stamp] /\ open' = open \ {o}
          /\ UNCHANGED <<seq, serving, pull, store, during, overlap, faults>>
        BY <1>3 DEF Commit
    <2>2. \A i \in Reference : table'[i] = IF i = o.row THEN o.stamp ELSE table[i]
        BY <2>1, RefTypes DEF TypeInv, TypeOK
    <2>3. CASE o.row \in Reference
        <3>1. RefInv'
            BY <2>1, <2>2, <2>3, RefTypes DEF RefInv
        <3>2. Ref!Publish(o.row)
            <4>1. Rows' = [Rows EXCEPT ![o.row] = Rows'[o.row]]
                BY <2>2, <2>3 DEF Rows
            <4>2. \A j \in Reference : Rows[j] < Rows'[o.row]
                BY <2>2, <2>3 DEF Rows, RefInv
            <4> QED BY <2>1, <4>1, <4>2 DEF Ref!Publish, Rows
        <3> QED BY <2>3, <3>1, <3>2 DEF Ref!Next
    <2>4. CASE o.row \notin Reference
        <3>1. RefInv'
            BY <2>1, <2>2, <2>4 DEF RefInv
        <3>2. UNCHANGED RefVars
            BY <2>1, <2>2, <2>4 DEF RefVars, Rows, Mirror
        <3> QED BY <3>1, <3>2
    <2> QED BY <2>3, <2>4
<1>4. ASSUME NEW o \in open, RollBack(o) PROVE RefInv' /\ UNCHANGED RefVars
    BY <1>4, <1>a DEF RollBack, RefInv
<1>5. ASSUME NEW kind \in Kind, SendPull(kind) PROVE RefInv' /\ UNCHANGED RefVars
    <2>1. /\ pull'.status = "run" /\ pull'.high = 0
          /\ UNCHANGED <<database, serving, store, during, overlap, faults>>
        BY <1>5 DEF SendPull, NoPull
    <2>2. \A o \in open : o.row \in Reference => 0 < o.stamp
        BY RefTypes DEF RefInv
    <2> QED BY <1>a, <2>1, <2>2 DEF RefInv
<1>6. CASE PullReadsRows
    <2>1. pull'.kind = "bottle" /\ UNCHANGED <<database, serving, store, overlap, faults>>
        BY <1>6, RefTypes DEF PullReadsRows, Pull
    <2> QED BY <1>a, <2>1 DEF RefInv
<1>7. CASE PullReadsCursor
    <2>1. pull'.kind = "bottle" /\ UNCHANGED <<database, serving, store, during, overlap, faults>>
        BY <1>7, RefTypes DEF PullReadsCursor, Pull, TypeInv, Backed
    <2> QED BY <1>a, <2>1 DEF RefInv
<1>8. CASE ReferencePullReads
    <2> DEFINE rows == Past("reference", pull.since)
               high == Highest({pull.since} \cup {r.stamp : r \in rows})
    <2>1. /\ pull.status = "run" /\ pull.kind = "reference" /\ serving
          /\ pull' = [pull EXCEPT !.status = "ok", !.rows = rows, !.high = high]
          /\ UNCHANGED <<database, serving, store, during, overlap, faults>>
        BY <1>8 DEF ReferencePullReads, TypeInv, Backed
    <2>2. pull.since <= high
        BY <2>1, ReferenceHighFacts
    <2>3. \A i \in Reference : table[i] > pull.since =>
              \E r \in rows : r.row = i /\ r.stamp = table[i]
        BY Kinds, RefTypes, PastFacts DEF RowsOf
    <2> HIDE DEF rows, high
    <2>4. /\ pull'.since = pull.since /\ pull'.high = high /\ pull'.rows = rows
        BY <2>1, RefTypes DEF Pull
    <2>5. \A o \in open : o.row \notin Reference
        BY <2>1 DEF RefInv
    <2> QED BY <1>a, <2>1, <2>2, <2>3, <2>4, <2>5 DEF RefInv
<1>9. CASE Apply
    <2>1. /\ pull.status = "ok" /\ pull'.status = "none" /\ pull'.high = 0
          /\ held' = Applied(pull.rows) /\ cursor' = [cursor EXCEPT ![pull.kind] = pull.high]
          /\ UNCHANGED <<database, serving, faults>>
        BY <1>9, Kinds DEF Apply
    <2>2. \A i \in Reference :
              /\ held'[i] \in Nat /\ held[i] <= held'[i] /\ held'[i] <= table[i]
              /\ table[i] <= cursor["reference"] => held'[i] = table[i]
              /\ pull.kind = "reference" => (table[i] <= pull.high => held'[i] = table[i])
        BY <2>1, RefApplied
    <2>3. \A o \in open : o.row \in Reference => 0 < o.stamp
        BY RefTypes DEF RefInv
    <2>4. CASE pull.kind = "reference"
        <3>1. cursor'["reference"] = pull.high /\ cursor["reference"] <= pull.high
            BY <2>1, <2>4, Kinds DEF TypeInv, TypeOK, Backed, RefInv
        <3>2. RefInv'
            BY <2>1, <2>2, <2>3, <2>4, <3>1 DEF RefInv
        <3>3. Ref!Next
            BY <1>b, <2>1, <2>2, <2>4, <3>1, RefTypes
        <3> QED BY <3>2, <3>3
    <2>5. CASE pull.kind = "bottle"
        <3>1. cursor'["reference"] = cursor["reference"]
            BY <2>1, <2>5, Kinds DEF TypeInv, TypeOK
        <3>2. RefInv'
            BY <2>1, <2>2, <2>3, <2>5, <3>1 DEF RefInv
        <3>3. Ref!Next
            BY <1>b, <2>1, <2>2, <3>1, RefTypes
        <3> QED BY <3>2, <3>3
    <2> QED BY <2>4, <2>5, RefTypes DEF Kind
<1>10. CASE ApplyFails
    <2>1. PICK n \in 0..MaxSeq : held' = Applied({r \in pull.rows : r.stamp <= n})
        BY <1>10 DEF ApplyFails
    <2>2. /\ pull.status = "ok" /\ pull'.status = "none" /\ pull'.high = 0
          /\ UNCHANGED <<database, serving, cursor, overlap>>
        BY <1>10, Kinds DEF ApplyFails
    <2>3. \A i \in Reference :
              /\ held'[i] \in Nat /\ held[i] <= held'[i] /\ held'[i] <= table[i]
              /\ table[i] <= cursor["reference"] => held'[i] = table[i]
        BY <2>1, <2>2, RefApplied
    <2>4. \A o \in open : o.row \in Reference => 0 < o.stamp
        BY RefTypes DEF RefInv
    <2>5. RefInv'
        BY <2>2, <2>3, <2>4 DEF RefInv
    <2>6. Ref!Next
        BY <1>b, <2>2, <2>3, RefTypes
    <2> QED BY <2>5, <2>6
<1>11. CASE LosePull
    <2>1. /\ pull'.status = "none" /\ pull'.high = 0
          /\ UNCHANGED <<database, serving, store, overlap>>
        BY <1>11, Kinds DEF LosePull
    <2>2. \A o \in open : o.row \in Reference => 0 < o.stamp
        BY RefTypes DEF RefInv
    <2> QED BY <1>a, <2>1, <2>2 DEF RefInv
<1>12. CASE Stop
    <2>1. /\ (pull'.status = "none" /\ pull'.high = 0) \/ pull' = pull
          /\ serving' = FALSE /\ UNCHANGED <<database, store, overlap>>
        BY <1>12, Kinds DEF Stop
    <2>2. \A o \in open : o.row \in Reference => 0 < o.stamp
        BY RefTypes DEF RefInv
    <2> QED BY <1>a, <2>1, <2>2 DEF RefInv
<1>13. CASE Serve
    BY <1>13, <1>a DEF Serve, RefInv
<1> QED
    BY <1>1, <1>2, <1>3, <1>4, <1>5, <1>6, <1>7, <1>8, <1>9, <1>10, <1>11, <1>12, <1>13
    DEF Next, Ends, Reader

\* The reference feed implements Feed: whoever follows its cursor holds every
\* row up to it, in the committed version, for any number of rows.
THEOREM ReferenceFeedIsComplete == Spec => ImplementsFeed
<1>1. Init => Ref!Init
    BY Kinds DEF Init, Ref!Init, Row
<1>2. Init => TypeInv /\ RefInv
    BY TypeInit, RefInit
<1>3. TypeInv /\ RefInv /\ [Next]_vars => (TypeInv /\ RefInv)'
    BY TypeStep, RefStep
<1>4. TypeInv /\ RefInv /\ [Next]_vars => [Ref!Next]_(Ref!vars)
    BY RefStep DEF Ref!vars, RefVars, Rows, Mirror
<1> QED
    BY <1>1, <1>2, <1>3, <1>4, PTL DEF Spec, ImplementsFeed, Ref!Spec
=============================================================================

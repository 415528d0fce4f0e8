---------------------------- MODULE SharedProofs -----------------------------
(***************************************************************************)
(* What several proof modules rest on: greatest elements, packed ids (an   *)
(* id unpacks to the tick and source it was packed from, and the id minted *)
(* after resuming from the highest id of a table is not in that table,     *)
(* whichever nodes minted the rows there), and lists laid end to end.      *)
(***************************************************************************)
EXTENDS CausalId, Sequences, WellFoundedInduction, TLAPS

-----------------------------------------------------------------------------
(* Ids.                                                                     *)

\* A bounded nonempty set of naturals has a greatest element, so MaxId and
\* the max() queries it models are defined.
LEMMA MaxExists ==
    ASSUME NEW S \in SUBSET Nat, S # {},
           NEW B \in Nat, \A i \in S : i <= B
    PROVE  \E m \in S : \A i \in S : i <= m
<1> DEFINE T == {B - i : i \in S}
<1>1. T \subseteq Nat /\ T # {}
    <2>1. \A i \in S : B - i \in Nat
        OBVIOUS
    <2> QED BY <2>1
<1>2. PICK d \in T : \A e \in T : ~ (<<e, d>> \in OpToRel(<, Nat))
    <2> HIDE DEF T
    <2> QED BY <1>1, NatLessThanWellFounded, WFMin
<1>3. \A e \in T : d <= e
    <2> SUFFICES ASSUME NEW e \in T PROVE d <= e
        OBVIOUS
    <2>1. ~ (<<e, d>> \in OpToRel(<, Nat))
        BY <1>2
    <2>2. e \in Nat /\ d \in Nat
        BY <1>1, <1>2
    <2>3. ~ (e < d)
        <3> HIDE DEF T
        <3> QED BY <2>1, <2>2, Zenon DEF OpToRel
    <2> QED BY <2>2, <2>3
<1>4. PICK m \in S : d = B - m
    BY <1>2
<1> QED
    BY <1>3, <1>4

\* An id unpacks to what it was packed from (from_causal, then the shift of
\* local_max_tick and max_persisted_tick).
LEMMA PackUnpack ==
    ASSUME NEW t \in Nat, NEW s \in Source
    PROVE  /\ Pack(t, s) \in Nat
           /\ TickOf(Pack(t, s)) = t
           /\ SourceOf(Pack(t, s)) = s
<1>1. t \in Int /\ s \in Int /\ 0 <= s /\ s < 65536
    BY SMTT(60) DEF Source, SourceSpan
<1>2. t * 65536 + s \in Nat
    BY <1>1
<1>3. (t * 65536 + s) \div 65536 = t
    BY <1>1, <1>2
<1>4. (t * 65536 + s) % 65536 = s
    BY <1>1, <1>2
<1> QED
    BY <1>2, <1>3, <1>4 DEF Pack, TickOf, SourceOf, SourceSpan

\* Ids are ordered by tick first, the order SQL gets from the hex text.
LEMMA TickOrder ==
    ASSUME NEW i \in Nat, NEW j \in Nat, i <= j
    PROVE  TickOf(i) \in Nat /\ TickOf(i) <= TickOf(j)
BY DEF TickOf, SourceSpan

\* The highest tick of a table bounds the ticks of all its ids.
LEMMA HighestTickBounds ==
    ASSUME NEW ids \in SUBSET Nat, NEW B \in Nat, \A i \in ids : i <= B
    PROVE  /\ HighestTick(ids) \in Nat
           /\ \A i \in ids : TickOf(i) <= HighestTick(ids)
<1>1. CASE ids = {}
    BY <1>1 DEF HighestTick
<1>2. CASE ids # {}
    <2>1. \E m \in ids : \A i \in ids : i <= m
        BY <1>2, MaxExists
    <2>2. MaxId(ids) \in ids /\ \A i \in ids : i <= MaxId(ids)
        BY <2>1, Zenon DEF MaxId
    <2> QED
        BY <1>2, <2>2, TickOrder DEF HighestTick
<1> QED
    BY <1>1, <1>2

\* A factory resumed from the highest id of a table mints an id that is in
\* the table under no row, though other sources minted rows of it too.
THEOREM ResumedIdIsFresh ==
    ASSUME NEW ids \in SUBSET Nat, NEW B \in Nat, \A i \in ids : i <= B,
           NEW s \in Source
    PROVE  NextId(s, HighestTick(ids)) \notin ids
<1>1. HighestTick(ids) \in Nat
    BY HighestTickBounds
<1>2. TickOf(NextId(s, HighestTick(ids))) = HighestTick(ids) + 1
    BY <1>1, PackUnpack DEF NextId
<1>3. \A i \in ids : TickOf(i) <= HighestTick(ids)
    BY HighestTickBounds
<1>4. SUFFICES ASSUME NextId(s, HighestTick(ids)) \in ids PROVE FALSE
    OBVIOUS
<1>5. HighestTick(ids) + 1 <= HighestTick(ids)
    BY <1>2, <1>3, <1>4
<1> QED
    BY <1>1, <1>5

-----------------------------------------------------------------------------
(* A sequence made of lists, one a table, laid end to end.                  *)

\* The list of table t of m follows position o[t] of s, for every t of T, and
\* there is nothing else in s.
Placed(s, T, m, o) ==
    /\ \A t \in T : \A i \in 1..Len(m[t]) : o[t] + i \in 1..Len(s) /\ s[o[t] + i] = m[t][i]
    /\ \A k \in 1..Len(s) : \E t \in T : \E i \in 1..Len(m[t]) : k = o[t] + i

\* Of two tables in P, the entries of the first come first.
InOrder(s, P) == \A j, k \in 1..Len(s) : <<s[j].table, s[k].table>> \in P => j < k

LaidOut(s, E, T, m, P) ==
    /\ s \in Seq(E)
    /\ \E o \in [T -> Nat] : Placed(s, T, m, o)
    /\ InOrder(s, P)

\* Lists of entries, each of one table.
ByTable(E, T, m) ==
    \A t \in T : m[t] \in Seq(E) /\ \A i \in 1..Len(m[t]) : m[t][i].table = t

\* The list of one table is such a walk.
LEMMA OneLaidOut ==
    ASSUME NEW E, NEW V, NEW m, NEW u \in V, ByTable(E, V, m), NEW P, <<u, u>> \notin P
    PROVE  LaidOut(m[u], E, {u}, m, P)
<1> DEFINE o == [t \in {u} |-> 0]
           s == m[u]
<1>1. /\ s \in Seq(E)
      /\ Len(s) \in Nat
      /\ \A i \in 1..Len(s) : s[i].table = u
    BY DEF ByTable
<1>2. o \in [{u} -> Nat] /\ o[u] = 0
    OBVIOUS
<1> HIDE DEF o
<1>3. Placed(s, {u}, m, o)
    BY <1>1, <1>2 DEF Placed
<1>4. InOrder(s, P)
    BY <1>1 DEF InOrder
<1> QED
    BY <1>1, <1>2, <1>3, <1>4 DEF LaidOut

\* One more list at the end, unless its table should have come before.
LEMMA Appended ==
    ASSUME NEW s, NEW E, NEW V, NEW T \in SUBSET V, NEW m, NEW u \in V \ T, NEW P,
           LaidOut(s, E, T, m, P),
           ByTable(E, V, m),
           \A t \in T \cup {u} : <<u, t>> \notin P
    PROVE  LaidOut(s \o m[u], E, T \cup {u}, m, P)
<1> DEFINE c == s \o m[u]
<1>1. s \in Seq(E) /\ m[u] \in Seq(E)
    BY DEF LaidOut, ByTable
<1>2. /\ c \in Seq(E)
      /\ Len(c) = Len(s) + Len(m[u])
      /\ Len(s) \in Nat /\ Len(m[u]) \in Nat
      /\ \A k \in 1..Len(s) : c[k] = s[k]
      /\ \A i \in 1..Len(m[u]) : c[Len(s) + i] = m[u][i]
    BY <1>1
<1> HIDE DEF c
<1>3. PICK o \in [T -> Nat] : Placed(s, T, m, o)
    BY DEF LaidOut
<1> DEFINE w == [t \in T \cup {u} |-> IF t = u THEN Len(s) ELSE o[t]]
<1>4. w \in [T \cup {u} -> Nat] /\ w[u] = Len(s) /\ \A t \in T : w[t] = o[t]
    BY <1>2
<1> HIDE DEF w
\* Every position is one of s or follows it.
<1>5. ASSUME NEW k \in 1..Len(c), k \notin 1..Len(s)
      PROVE  Len(s) < k /\ \E i \in 1..Len(m[u]) : k = Len(s) + i /\ c[k] = m[u][i]
    <2>1. k - Len(s) \in 1..Len(m[u]) /\ Len(s) + (k - Len(s)) = k /\ Len(s) < k
        BY <1>2, <1>5
    <2>2. c[k] = m[u][k - Len(s)]
        BY <1>2, <2>1
    <2> QED
        BY <2>1, <2>2
<1>6. Placed(c, T \cup {u}, m, w)
    <2>1. ASSUME NEW t \in T \cup {u}, NEW i \in 1..Len(m[t])
          PROVE  w[t] + i \in 1..Len(c) /\ c[w[t] + i] = m[t][i]
        <3>1. CASE t = u
            <4>1. Len(s) + i \in 1..Len(c) /\ c[Len(s) + i] = m[u][i]
                BY <1>2, <3>1
            <4> QED
                BY <1>4, <3>1, <4>1
        <3>2. CASE t \in T
            <4>1. o[t] + i \in 1..Len(s) /\ s[o[t] + i] = m[t][i]
                BY <1>3, <3>2 DEF Placed
            <4> QED
                BY <1>2, <1>4, <3>2, <4>1
        <3> QED
            BY <3>1, <3>2
    <2>2. ASSUME NEW k \in 1..Len(c)
          PROVE  \E t \in T \cup {u} : \E i \in 1..Len(m[t]) : k = w[t] + i
        <3>1. CASE k \in 1..Len(s)
            <4>1. PICK t \in T : \E i \in 1..Len(m[t]) : k = o[t] + i
                BY <1>3, <3>1 DEF Placed
            <4> QED
                BY <1>4, <4>1
        <3>2. CASE k \notin 1..Len(s)
            <4>1. PICK i \in 1..Len(m[u]) : k = Len(s) + i
                BY <1>5, <3>2
            <4>2. k = w[u] + i
                BY <1>4, <4>1
            <4> QED
                BY <4>2
        <3> QED
            BY <3>1, <3>2
    <2> QED
        BY <2>1, <2>2 DEF Placed
<1>7. \A i \in 1..Len(m[u]) : m[u][i].table = u
    BY <1>1 DEF ByTable
<1>8. \A k \in 1..Len(s) : s[k].table \in T
    <2> SUFFICES ASSUME NEW k \in 1..Len(s) PROVE s[k].table \in T
        OBVIOUS
    <2>1. PICK t \in T : \E i \in 1..Len(m[t]) : k = o[t] + i
        BY <1>3 DEF Placed
    <2>2. PICK i \in 1..Len(m[t]) : k = o[t] + i
        BY <2>1
    <2>3. s[k] = m[t][i]
        BY <1>3, <2>2 DEF Placed
    <2>4. m[t] \in Seq(E) /\ m[t][i].table = t
        BY DEF ByTable
    <2> QED
        BY <2>3, <2>4
<1>9. InOrder(c, P)
    <2> SUFFICES ASSUME NEW j \in 1..Len(c), NEW k \in 1..Len(c),
                        <<c[j].table, c[k].table>> \in P
                 PROVE  j < k
        BY DEF InOrder
    <2>1. c[k].table \in T \cup {u}
        <3>1. CASE k \in 1..Len(s)
            BY <1>2, <1>8, <3>1
        <3>2. CASE k \notin 1..Len(s)
            BY <1>5, <1>7, <3>2
        <3> QED
            BY <3>1, <3>2
    <2>2. c[j].table # u
        BY <2>1
    <2>3. j \in 1..Len(s) /\ c[j] = s[j]
        <3>1. CASE j \in 1..Len(s)
            BY <1>2, <3>1
        <3>2. CASE j \notin 1..Len(s)
            <4>1. PICK i \in 1..Len(m[u]) : c[j] = m[u][i]
                BY <1>5, <3>2
            <4> QED
                BY <1>7, <2>2, <4>1
        <3> QED
            BY <3>1, <3>2
    <2>4. CASE k \in 1..Len(s)
        <3>1. c[k] = s[k]
            BY <1>2, <2>4
        <3> QED
            BY <2>3, <2>4, <3>1 DEF LaidOut, InOrder
    <2>5. CASE k \notin 1..Len(s)
        BY <1>2, <1>5, <2>3, <2>5
    <2> QED
        BY <2>4, <2>5
<1> QED
    BY <1>2, <1>4, <1>6, <1>9 DEF LaidOut, c

\* What it meets are the entries of the lists.
LEMMA Meets ==
    ASSUME NEW s, NEW E, NEW T, NEW m, NEW P, LaidOut(s, E, T, m, P), ByTable(E, T, m)
    PROVE  /\ \A k \in 1..Len(s) : \E t \in T : \E i \in 1..Len(m[t]) : s[k] = m[t][i]
           /\ \A t \in T : \A i \in 1..Len(m[t]) : \E k \in 1..Len(s) : s[k] = m[t][i]
<1>1. PICK o \in [T -> Nat] : Placed(s, T, m, o)
    BY DEF LaidOut
<1>2. ASSUME NEW k \in 1..Len(s)
      PROVE  \E t \in T : \E i \in 1..Len(m[t]) : s[k] = m[t][i]
    <2>1. PICK t \in T : \E i \in 1..Len(m[t]) : k = o[t] + i
        BY <1>1 DEF Placed
    <2>2. PICK i \in 1..Len(m[t]) : k = o[t] + i
        BY <2>1
    <2>3. s[k] = m[t][i]
        BY <1>1, <2>2 DEF Placed
    <2> QED
        BY <2>3
<1>3. ASSUME NEW t \in T, NEW i \in 1..Len(m[t])
      PROVE  \E k \in 1..Len(s) : s[k] = m[t][i]
    BY <1>1 DEF Placed
<1> QED
    BY <1>2, <1>3
=============================================================================

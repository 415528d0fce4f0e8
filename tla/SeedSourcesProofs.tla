------------------------- MODULE SeedSourcesProofs --------------------------
(***************************************************************************)
(* Proofs about SeedSources, for any files: what load accepts is coherent, *)
(* and what it refuses has the fault it names.                             *)
(***************************************************************************)
EXTENDS SeedSources, SharedProofs

\* The table of a parent, and that of what refers to it.
ParentTables ==
    {<<"country", t>> : t \in CountryScoped} \cup {<<"classification_system", "classification_level">>}

\* The checks meet every list, and only the lists.
LEMMA ChecksAll ==
    ASSUME NEW m \in Lists
    PROVE  LaidOut(Checked(m), Entry, Vocabulary, m, ParentTables)
<1> DEFINE s1 == m["country"]
           s2 == s1 \o m["bottle_format"]
           s3 == s2 \o m["appellation_type"]
           s4 == s3 \o m["appellation_tier"]
           s5 == s4 \o m["classification_system"]
           s6 == s5 \o m["classification_level"]
           s7 == s6 \o m["label_rule"]
           T1 == {"country"}
           T2 == T1 \cup {"bottle_format"}
           T3 == T2 \cup {"appellation_type"}
           T4 == T3 \cup {"appellation_tier"}
           T5 == T4 \cup {"classification_system"}
           T6 == T5 \cup {"classification_level"}
           T7 == T6 \cup {"label_rule"}
<1>0. /\ ByTable(Entry, Vocabulary, m)
      /\ \A u, t : <<u, t>> \in ParentTables =>
             \/ u = "country" /\ t \in CountryScoped
             \/ u = "classification_system" /\ t = "classification_level"
    BY DEF ByTable, Lists, ParentTables
<1> USE DEF Vocabulary, CountryScoped
<1>1. LaidOut(s1, Entry, T1, m, ParentTables)
    BY <1>0, OneLaidOut
<1> HIDE DEF s1, s2, s3, s4, s5, s6, s7
<1>2. LaidOut(s2, Entry, T2, m, ParentTables)
    BY <1>0, <1>1, Appended DEF s2
<1>3. LaidOut(s3, Entry, T3, m, ParentTables)
    BY <1>0, <1>2, Appended DEF s3
<1>4. LaidOut(s4, Entry, T4, m, ParentTables)
    BY <1>0, <1>3, Appended DEF s4
<1>5. LaidOut(s5, Entry, T5, m, ParentTables)
    BY <1>0, <1>4, Appended DEF s5
<1>6. LaidOut(s6, Entry, T6, m, ParentTables)
    BY <1>0, <1>5, Appended DEF s6
<1>7. LaidOut(s7, Entry, T7, m, ParentTables)
    BY <1>0, <1>6, Appended DEF s7
<1>8. LaidOut(s7 \o m["descriptor"], Entry, T7 \cup {"descriptor"}, m, ParentTables)
    <2>1. \A t : <<"descriptor", t>> \notin ParentTables
        BY <1>0
    <2>2. T7 \in SUBSET Vocabulary /\ "descriptor" \in Vocabulary \ T7
        OBVIOUS
    <2> HIDE DEF T7
    <2> QED
        BY <1>0, <1>7, <2>1, <2>2, Appended
<1>9. Checked(m) = s7 \o m["descriptor"]
    BY DEF Checked, s1, s2, s3, s4, s5, s6, s7
<1>10. T7 \cup {"descriptor"} = Vocabulary
    OBVIOUS
<1> QED
    BY <1>8, <1>9, <1>10

LEMMA CheckedLength ==
    ASSUME NEW m \in Lists
    PROVE  Len(Checked(m)) \in Nat
BY ChecksAll DEF LaidOut

\* Entries of one table, one list after another.
LEMMA OneTable ==
    ASSUME NEW a \in Seq(Entry), NEW b \in Seq(Entry), NEW t,
           \A i \in 1..Len(a) : a[i].table = t, \A i \in 1..Len(b) : b[i].table = t
    PROVE  /\ a \o b \in Seq(Entry)
           /\ \A i \in 1..Len(a \o b) : (a \o b)[i].table = t
<1> DEFINE c == a \o b
<1>1. /\ c \in Seq(Entry)
      /\ Len(c) = Len(a) + Len(b)
      /\ Len(a) \in Nat /\ Len(b) \in Nat
      /\ \A k \in 1..Len(a) : c[k] = a[k]
      /\ \A i \in 1..Len(b) : c[Len(a) + i] = b[i]
    OBVIOUS
<1> HIDE DEF c
<1>2. ASSUME NEW k \in 1..Len(c)
      PROVE  c[k].table = t
    <2>1. CASE k \in 1..Len(a)
        BY <1>1, <2>1
    <2>2. CASE k \notin 1..Len(a)
        <3>1. k - Len(a) \in 1..Len(b) /\ Len(a) + (k - Len(a)) = k
            BY <1>1, <2>2
        <3> QED
            BY <1>1, <3>1
    <2> QED
        BY <2>1, <2>2
<1> QED
    BY <1>1, <1>2 DEF c

LEMMA MergedIsLists ==
    ASSUME NEW files \in [1..3 -> Lists]
    PROVE  Merged(files) \in Lists
<1>1. \A f \in 1..3 : files[f] \in Lists
    OBVIOUS
<1>2. ASSUME NEW t \in Vocabulary
      PROVE  /\ Merged(files)[t] \in Seq(Entry)
             /\ \A i \in DOMAIN Merged(files)[t] : Merged(files)[t][i].table = t
    <2> DEFINE a == files[1][t]
               b == files[2][t]
               c == files[3][t]
    <2>1. /\ a \in Seq(Entry) /\ b \in Seq(Entry) /\ c \in Seq(Entry)
          /\ \A i \in 1..Len(a) : a[i].table = t
          /\ \A i \in 1..Len(b) : b[i].table = t
          /\ \A i \in 1..Len(c) : c[i].table = t
        BY <1>1 DEF Lists
    <2>2. Merged(files)[t] = (a \o b) \o c
        BY DEF Merged
    <2> HIDE DEF a, b, c
    <2>3. /\ a \o b \in Seq(Entry)
          /\ \A i \in 1..Len(a \o b) : (a \o b)[i].table = t
        BY <2>1, OneTable
    <2>4. /\ (a \o b) \o c \in Seq(Entry)
          /\ \A i \in 1..Len((a \o b) \o c) : ((a \o b) \o c)[i].table = t
        BY <2>1, <2>3, OneTable
    <2> QED
        BY <2>2, <2>4
<1>3. Merged(files) \in [Vocabulary -> Seq(Entry)]
    BY <1>2 DEF Merged
<1> QED
    BY <1>2, <1>3 DEF Lists

\* Keys are unique in the lists when they are along the walk, and the reverse.
LEMMA UniqueAlong ==
    ASSUME NEW s, NEW m \in Lists, LaidOut(s, Entry, Vocabulary, m, ParentTables)
    PROVE  KeysAreUnique(m) <=> \A j, k \in 1..Len(s) : Key(s[j]) = Key(s[k]) => j = k
<1>1. PICK o \in [Vocabulary -> Nat] : Placed(s, Vocabulary, m, o)
    BY DEF LaidOut
<1>2. \A t \in Vocabulary : /\ m[t] \in Seq(Entry) /\ DOMAIN m[t] = 1..Len(m[t])
                            /\ \A i \in 1..Len(m[t]) : m[t][i].table = t
    BY DEF Lists
<1>3. Len(s) \in Nat
    BY DEF LaidOut
<1>4. ASSUME NEW k \in 1..Len(s)
      PROVE  \E i \in 1..Len(m[s[k].table]) :
                 s[k].table \in Vocabulary /\ k = o[s[k].table] + i /\ s[k] = m[s[k].table][i]
    <2>1. PICK t \in Vocabulary : \E i \in 1..Len(m[t]) : k = o[t] + i
        BY <1>1 DEF Placed
    <2>2. PICK i \in 1..Len(m[t]) : k = o[t] + i
        BY <2>1
    <2>3. s[k] = m[t][i]
        BY <1>1, <2>2 DEF Placed
    <2>4. s[k].table = t
        BY <1>2, <2>3
    <2> QED
        BY <2>2, <2>3, <2>4
<1>5. ASSUME KeysAreUnique(m),
             NEW j \in 1..Len(s), NEW k \in 1..Len(s), Key(s[j]) = Key(s[k])
      PROVE  j = k
    <2> DEFINE t == s[k].table
    <2>1. s[j].table = t
        BY <1>5 DEF Key
    <2>2. PICK h \in 1..Len(m[t]) : t \in Vocabulary /\ j = o[t] + h /\ s[j] = m[t][h]
        BY <1>4, <2>1
    <2>3. PICK i \in 1..Len(m[t]) : k = o[t] + i /\ s[k] = m[t][i]
        BY <1>4
    <2>4. Key(m[t][h]) = Key(m[t][i])
        BY <1>5, <2>2, <2>3
    <2>5. h \in DOMAIN m[t] /\ i \in DOMAIN m[t]
        BY <1>2, <2>2
    <2>6. h = i
        BY <1>5, <2>2, <2>4, <2>5 DEF KeysAreUnique
    <2> QED
        BY <2>2, <2>3, <2>6
<1>6. ASSUME \A j, k \in 1..Len(s) : Key(s[j]) = Key(s[k]) => j = k,
             NEW t \in Vocabulary, NEW i \in DOMAIN m[t], NEW j \in DOMAIN m[t],
             Key(m[t][i]) = Key(m[t][j])
      PROVE  i = j
    <2>1. /\ i \in 1..Len(m[t]) /\ j \in 1..Len(m[t]) /\ o[t] \in Nat
          /\ o[t] + i \in 1..Len(s) /\ s[o[t] + i] = m[t][i]
          /\ o[t] + j \in 1..Len(s) /\ s[o[t] + j] = m[t][j]
        BY <1>1, <1>2 DEF Placed
    <2>2. o[t] + i = o[t] + j
        BY <1>6, <2>1
    <2> QED
        BY <2>1, <2>2
<1> QED
    BY <1>5, <1>6 DEF KeysAreUnique

\* The same of references.
LEMMA ResolvedAlong ==
    ASSUME NEW s, NEW m \in Lists, LaidOut(s, Entry, Vocabulary, m, ParentTables)
    PROVE  ReferencesResolve(m) <=>
               \A k \in 1..Len(s) :
                   Refers(s[k]) => \E j \in 1..Len(s) : Key(s[j]) = ParentKey(s[k])
<1>1. /\ \A t \in Vocabulary : \A i \in DOMAIN m[t] : \E k \in 1..Len(s) : s[k] = m[t][i]
      /\ \A k \in 1..Len(s) : \E t \in Vocabulary : \E i \in DOMAIN m[t] : s[k] = m[t][i]
    <2>1. ByTable(Entry, Vocabulary, m) /\ \A t \in Vocabulary : DOMAIN m[t] = 1..Len(m[t])
        BY DEF ByTable, Lists
    <2>2. /\ \A k \in 1..Len(s) : \E t \in Vocabulary : \E i \in 1..Len(m[t]) : s[k] = m[t][i]
          /\ \A t \in Vocabulary : \A i \in 1..Len(m[t]) : \E k \in 1..Len(s) : s[k] = m[t][i]
        <3>1. LaidOut(s, Entry, Vocabulary, m, ParentTables) /\ ByTable(Entry, Vocabulary, m)
            BY <2>1
        <3> HIDE <2>1
        <3>2. \A k \in 1..Len(s) : \E t \in Vocabulary : \E i \in 1..Len(m[t]) : s[k] = m[t][i]
            BY <3>1, Meets
        <3>3. \A t \in Vocabulary : \A i \in 1..Len(m[t]) : \E k \in 1..Len(s) : s[k] = m[t][i]
            BY <3>1, Meets
        <3> QED
            BY <3>2, <3>3
    <2>3. \A t \in Vocabulary : \A i \in DOMAIN m[t] : \E k \in 1..Len(s) : s[k] = m[t][i]
        BY <2>1, <2>2, Zenon
    <2>4. ASSUME NEW k \in 1..Len(s)
          PROVE  \E t \in Vocabulary : \E i \in DOMAIN m[t] : s[k] = m[t][i]
        <3>1. PICK t \in Vocabulary : \E i \in 1..Len(m[t]) : s[k] = m[t][i]
            BY <2>2
        <3>2. DOMAIN m[t] = 1..Len(m[t])
            BY <2>1
        <3> QED
            BY <3>1, <3>2
    <2> QED
        BY <2>3, <2>4
<1>2. ASSUME ReferencesResolve(m), NEW k \in 1..Len(s), Refers(s[k])
      PROVE  \E j \in 1..Len(s) : Key(s[j]) = ParentKey(s[k])
    <2>1. PICK t \in Vocabulary : \E i \in DOMAIN m[t] : s[k] = m[t][i]
        BY <1>1
    <2>2. PICK u \in Vocabulary : \E j \in DOMAIN m[u] : Key(m[u][j]) = ParentKey(s[k])
        BY <1>2, <2>1 DEF ReferencesResolve
    <2>3. PICK j \in DOMAIN m[u] : Key(m[u][j]) = ParentKey(s[k])
        BY <2>2
    <2>4. PICK h \in 1..Len(s) : s[h] = m[u][j]
        BY <1>1
    <2> QED
        BY <2>3, <2>4
<1>3. ASSUME \A k \in 1..Len(s) :
                 Refers(s[k]) => \E j \in 1..Len(s) : Key(s[j]) = ParentKey(s[k]),
             NEW t \in Vocabulary, NEW i \in DOMAIN m[t], Refers(m[t][i])
      PROVE  \E u \in Vocabulary : \E j \in DOMAIN m[u] : Key(m[u][j]) = ParentKey(m[t][i])
    <2>1. PICK k \in 1..Len(s) : s[k] = m[t][i]
        BY <1>1
    <2>2. PICK h \in 1..Len(s) : Key(s[h]) = ParentKey(m[t][i])
        BY <1>3, <2>1
    <2>3. PICK u \in Vocabulary : \E j \in DOMAIN m[u] : s[h] = m[u][j]
        BY <1>1
    <2> QED
        BY <2>2, <2>3
<1> QED
    BY <1>2, <1>3 DEF ReferencesResolve

\* The parent of an entry comes before it.
LEMMA ParentsFirst ==
    ASSUME NEW s, InOrder(s, ParentTables),
           NEW j \in 1..Len(s), NEW k \in 1..Len(s), Refers(s[k]), Key(s[j]) = ParentKey(s[k])
    PROVE  j < k
<1>1. s[j].table = IF s[k].table = "classification_level" THEN "classification_system" ELSE "country"
    BY DEF Key, ParentKey
<1>2. <<s[j].table, s[k].table>> \in ParentTables
    BY <1>1 DEF ParentTables, Refers
<1> QED
    BY <1>2 DEF InOrder

-----------------------------------------------------------------------------
(* The invariant: the entries that passed have distinct keys, which are the *)
(* known ones, and known parents; the one a refusal is about has the fault. *)

Passed == 1..pos

CheckInv ==
    /\ TypeOK
    /\ \A i, j \in Passed : Key(Checked(lists)[i]) = Key(Checked(lists)[j]) => i = j
    /\ \A i \in Passed : Refers(Checked(lists)[i]) => ParentKey(Checked(lists)[i]) \in known
    /\ outcome = "ok" => pos = Len(Checked(lists))
    /\ outcome = "duplicate" => pos < Len(Checked(lists)) /\ Repeats(NextEntry)
    /\ outcome = "dangling" => pos < Len(Checked(lists)) /\ Dangles(NextEntry)

LEMMA InvImpliesCoherent ==
    ASSUME CheckInv, outcome = "ok"
    PROVE  Coherent(lists)
<1> DEFINE s == Checked(lists)
<1>1. lists \in Lists /\ LaidOut(s, Entry, Vocabulary, lists, ParentTables)
    BY ChecksAll DEF CheckInv, TypeOK
<1>2. Passed = 1..Len(s)
    BY DEF CheckInv, Passed
<1>3. KeysAreUnique(lists)
    BY <1>1, <1>2, UniqueAlong DEF CheckInv
<1>4. ReferencesResolve(lists)
    <2>1. known = {Key(s[i]) : i \in Passed}
        BY DEF CheckInv, TypeOK, Passed
    <2>2. \A k \in 1..Len(s) : Refers(s[k]) => \E j \in 1..Len(s) : Key(s[j]) = ParentKey(s[k])
        BY <1>2, <2>1 DEF CheckInv
    <2> QED
        BY <1>1, <2>2, ResolvedAlong
<1> QED
    BY <1>3, <1>4 DEF Coherent

\* The key of the entry refused as a duplicate is that of one that passed.
LEMMA InvImpliesRepeat ==
    ASSUME CheckInv, outcome = "duplicate"
    PROVE  ~KeysAreUnique(lists)
<1> DEFINE s == Checked(lists)
<1>1. lists \in Lists /\ LaidOut(s, Entry, Vocabulary, lists, ParentTables)
    BY ChecksAll DEF CheckInv, TypeOK
<1>2. pos + 1 \in 1..Len(s) /\ pos \in Nat /\ Key(s[pos + 1]) \in known
    BY <1>1, CheckedLength DEF CheckInv, TypeOK, Repeats, NextEntry
<1>3. PICK i \in Passed : Key(s[i]) = Key(s[pos + 1])
    BY <1>2 DEF CheckInv, TypeOK, Passed
<1>4. i \in 1..Len(s) /\ i # pos + 1
    BY <1>2, <1>3 DEF Passed
<1> QED
    BY <1>1, <1>2, <1>3, <1>4, UniqueAlong

\* If the lists had the parent of the entry refused as dangling, the order of
\* the checks would have passed it before.
LEMMA InvImpliesDangling ==
    ASSUME CheckInv, outcome = "dangling"
    PROVE  ~ReferencesResolve(lists)
<1> DEFINE s == Checked(lists)
<1> SUFFICES ASSUME ReferencesResolve(lists) PROVE FALSE
    OBVIOUS
<1>1. lists \in Lists /\ LaidOut(s, Entry, Vocabulary, lists, ParentTables)
    BY ChecksAll DEF CheckInv, TypeOK
<1>2. /\ pos + 1 \in 1..Len(s) /\ pos \in Nat
      /\ Refers(s[pos + 1]) /\ ParentKey(s[pos + 1]) \notin known
    BY <1>1, CheckedLength DEF CheckInv, TypeOK, Dangles, NextEntry
<1>3. PICK j \in 1..Len(s) : Key(s[j]) = ParentKey(s[pos + 1])
    BY <1>1, <1>2, ResolvedAlong
<1>4. j < pos + 1
    BY <1>1, <1>2, <1>3, ParentsFirst DEF LaidOut
<1>5. j \in 1..pos
    BY <1>2, <1>3, <1>4
<1>6. Key(s[j]) \in known
    BY <1>5 DEF CheckInv, TypeOK
<1> QED
    BY <1>2, <1>3, <1>6

LEMMA InitChecks ==
    ASSUME Init, SourcesAssumption
    PROVE  CheckInv
<1>1. PICK files \in Sources : lists = Merged(files)
    BY DEF Init
<1>2. lists \in Lists
    BY <1>1, MergedIsLists DEF SourcesAssumption
<1>3. known = {} /\ pos = 0 /\ outcome = "checking" /\ Passed = {} /\ 1..pos = {}
    BY DEF Init, Passed
<1> QED
    BY <1>2, <1>3, CheckedLength DEF CheckInv, TypeOK

LEMMA StepChecks ==
    ASSUME CheckInv, [Next]_vars
    PROVE  CheckInv'
<1> DEFINE s == Checked(lists)
<1>1. Len(s) \in Nat /\ pos \in Nat
    BY CheckedLength DEF CheckInv, TypeOK
<1>2. CASE Passes
    <2>1. /\ lists' = lists /\ pos' = pos + 1 /\ outcome' = "checking"
          /\ pos + 1 \in 1..Len(s)
          /\ known' = known \cup {Key(s[pos + 1])}
          /\ Key(s[pos + 1]) \notin known
          /\ Refers(s[pos + 1]) => ParentKey(s[pos + 1]) \in known
        BY <1>1, <1>2 DEF Passes, Checking, NextEntry, Dangles, Repeats
    <2>2. Passed' = Passed \cup {pos + 1} /\ pos + 1 \notin Passed /\ Passed' = 1..pos'
        BY <1>1, <2>1 DEF Passed
    <2>3. known = {Key(s[i]) : i \in Passed}
        BY DEF CheckInv, TypeOK, Passed
    <2> HIDE DEF s
    <2>4. known' = {Key(s[i]) : i \in 1..pos'}
        BY <2>1, <2>2, <2>3
    <2>5. \A i, j \in Passed' : Key(s[i]) = Key(s[j]) => i = j
        BY <2>1, <2>2, <2>3 DEF CheckInv, s
    <2>6. \A i \in Passed' : Refers(s[i]) => ParentKey(s[i]) \in known'
        BY <2>1, <2>2 DEF CheckInv, s
    <2>7. pos' \in 0..Len(s)
        BY <2>1
    <2>8. lists' \in Lists
        BY <2>1 DEF CheckInv, TypeOK
    <2>9. Checked(lists') = s
        BY <2>1 DEF s
    <2>10. TypeOK'
        BY <2>1, <2>4, <2>7, <2>8, <2>9 DEF TypeOK
    <2> QED
        BY <2>1, <2>5, <2>6, <2>9, <2>10 DEF CheckInv
<1>3. CASE Dangling
    <2>1. /\ UNCHANGED <<lists, known, pos>> /\ outcome' = "dangling"
          /\ pos < Len(s) /\ Dangles(NextEntry)
        BY <1>3 DEF Dangling, Checking
    <2> QED
        BY <2>1 DEF CheckInv, TypeOK, Passed, Dangles, NextEntry
<1>4. CASE Duplicate
    <2>1. /\ UNCHANGED <<lists, known, pos>> /\ outcome' = "duplicate"
          /\ pos < Len(s) /\ Repeats(NextEntry)
        BY <1>4 DEF Duplicate, Checking
    <2> QED
        BY <2>1 DEF CheckInv, TypeOK, Passed, Repeats, NextEntry
<1>5. CASE Accept
    BY <1>5 DEF CheckInv, TypeOK, Accept, Passed
<1>6. CASE UNCHANGED vars
    BY <1>6 DEF CheckInv, TypeOK, vars, Passed, Dangles, Repeats, NextEntry
<1> QED
    BY <1>2, <1>3, <1>4, <1>5, <1>6 DEF Next

LEMMA AlwaysChecks == Spec => []CheckInv
<1>1. Init => CheckInv
    BY InitChecks, SourcesAssumption
<1>2. CheckInv /\ [Next]_vars => CheckInv'
    BY StepChecks
<1> QED
    BY <1>1, <1>2, PTL DEF Spec

\* The hash sets hold exactly the keys of the entries that passed.
THEOREM LoadIsWellTyped == Spec => []TypeOK
<1>1. CheckInv => TypeOK
    BY DEF CheckInv
<1> QED
    BY <1>1, AlwaysChecks, PTL

\* What load accepts has unique natural keys and no dangling reference,
\* whatever the files hold.
THEOREM AcceptedAlwaysCoherent == Spec => []AcceptedIsCoherent
<1>1. CheckInv => AcceptedIsCoherent
    BY InvImpliesCoherent DEF AcceptedIsCoherent
<1> QED
    BY <1>1, AlwaysChecks, PTL

\* What load refuses as a duplicate repeats a key, and what it refuses as
\* dangling names a parent that no list has, before or after it.
THEOREM RefusedAlwaysHasFault == Spec => []RefusedHasFault
<1>1. CheckInv => RefusedHasFault
    BY InvImpliesRepeat, InvImpliesDangling DEF RefusedHasFault
<1> QED
    BY <1>1, AlwaysChecks, PTL
=============================================================================

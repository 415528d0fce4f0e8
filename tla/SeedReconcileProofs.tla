------------------------ MODULE SeedReconcileProofs -------------------------
(***************************************************************************)
(* Proofs about SeedReconcile, for any releases and bounds: the ids of the *)
(* database identify its records, and the demo catalog has one lot.        *)
(***************************************************************************)
EXTENDS SeedReconcile, SharedProofs

\* A reference row is a record, whatever its fields hold.
Fields == {"id", "table", "parent", "group", "code", "iso3", "value", "seq"}

IsRow(r) == r = [f \in Fields |-> r[f]]

RowsAreRows == rows \cap chain = {} /\ \A r \in rows : IsRow(r)

\* Ids are numbers below some bound, and rows have ids of the server.
IdsAreNumbers ==
    /\ Ids \subseteq Nat
    /\ \E B \in Nat : \A i \in Ids : i <= B
    /\ \A r \in rows \cup chain : SourceOf(r.id) = SERVER_SOURCE

\* While the process runs its factory is past every id but those of browsers.
FactoryIsAhead ==
    /\ tick \in Nat
    /\ pc # "down" =>
           \A i \in Ids : TickOf(i) <= tick \/ SourceOf(i) = CLIENT_SOURCE

IdInv == RowsAreRows /\ IdsAreNumbers /\ FactoryIsAhead /\ IdsIdentify

LEMMA Sources == SERVER_SOURCE \in Source /\ CLIENT_SOURCE \in Source /\ SERVER_SOURCE # CLIENT_SOURCE
BY DEF SERVER_SOURCE, CLIENT_SOURCE, Source, SourceSpan

\* What the factory mints next is new, and a number.
LEMMA MintedIsFresh ==
    ASSUME IdInv, pc # "down"
    PROVE  /\ Minted \in Nat
           /\ Minted \notin Ids
           /\ TickOf(Minted) = tick + 1
           /\ SourceOf(Minted) = SERVER_SOURCE
<1>1. tick + 1 \in Nat /\ ~(tick + 1 <= tick)
    BY DEF IdInv, FactoryIsAhead
<1>2. /\ Minted \in Nat
      /\ TickOf(Minted) = tick + 1
      /\ SourceOf(Minted) = SERVER_SOURCE
    BY <1>1, PackUnpack, Sources DEF Minted, NextId
<1>3. Minted \notin Ids
    BY <1>1, <1>2, Sources DEF IdInv, FactoryIsAhead
<1> QED
    BY <1>2, <1>3

\* A step that adds at most one id, the minted one, keeps the factory ahead.
LEMMA MintKeepsIds ==
    ASSUME IdInv, pc # "down", tick' = tick + 1, Ids' \subseteq Ids \cup {Minted}
    PROVE  /\ Ids' \subseteq Nat
           /\ \E B \in Nat : \A i \in Ids' : i <= B
           /\ FactoryIsAhead'
<1>1. PICK B \in Nat : \A i \in Ids : i <= B
    BY DEF IdInv, IdsAreNumbers
<1>2. Ids \subseteq Nat
    BY DEF IdInv, IdsAreNumbers
<1>3. Ids' \subseteq Nat
    BY <1>2, MintedIsFresh
<1>4. \E C \in Nat : \A i \in Ids' : i <= C
    <2>1. B + Minted \in Nat
        BY MintedIsFresh
    <2>2. \A i \in Ids' : i <= B + Minted
        BY <1>1, <1>2, MintedIsFresh
    <2> QED
        BY <2>1, <2>2
<1>5. FactoryIsAhead'
    <2>1. tick \in Nat /\ tick' \in Nat
        BY DEF IdInv, FactoryIsAhead
    <2>2. \A i \in Ids : TickOf(i) \in Nat
        BY <1>2, TickOrder
    <2>3. \A i \in Ids : TickOf(i) <= tick' \/ SourceOf(i) = CLIENT_SOURCE
        BY <2>1, <2>2 DEF IdInv, FactoryIsAhead
    <2>4. TickOf(Minted) <= tick'
        BY <2>1, MintedIsFresh
    <2> QED
        BY <2>1, <2>3, <2>4 DEF FactoryIsAhead
<1> QED
    BY <1>3, <1>4, <1>5

\* A step that leaves the ids keeps what is said of them.
LEMMA SameIds ==
    ASSUME IdInv, Ids' = Ids, tick' = tick, pc # "down"
    PROVE  /\ Ids' \subseteq Nat
           /\ \E B \in Nat : \A i \in Ids' : i <= B
           /\ FactoryIsAhead'
BY DEF IdInv, IdsAreNumbers, FactoryIsAhead

LEMMA ExitKeepsIds ==
    ASSUME IdInv, Exit
    PROVE  IdInv'
<1>1. UNCHANGED <<rows, chain, bottles>> /\ tick' = 0 /\ pc' = "down"
    BY DEF Exit, database
<1> QED
    BY <1>1 DEF IdInv, RowsAreRows, IsRow, IdsAreNumbers, FactoryIsAhead, IdsIdentify, Ids

LEMMA StartKeepsIds ==
    ASSUME IdInv, Start
    PROVE  IdInv'
<1>1. UNCHANGED <<rows, chain, bottles>> /\ Ids' = Ids /\ tick' = HighestTick(Ids)
    BY DEF Start, database, Ids, ResumeTick
<1>2. HighestTick(Ids) \in Nat /\ \A i \in Ids : TickOf(i) <= HighestTick(Ids)
    BY HighestTickBounds DEF IdInv, IdsAreNumbers
<1>3. FactoryIsAhead'
    BY <1>1, <1>2 DEF FactoryIsAhead
<1>4. RowsAreRows' /\ IdsAreNumbers' /\ IdsIdentify'
    BY <1>1 DEF IdInv, RowsAreRows, IsRow, IdsAreNumbers, IdsIdentify
<1> QED
    BY <1>3, <1>4 DEF IdInv

LEMMA UpdateKeepsIds ==
    ASSUME IdInv, UpdateRow
    PROVE  IdInv'
<1>1. PICK r \in rows :
          rows' = (rows \ {r}) \cup
              {[r EXCEPT !.value = Current.value, !.iso3 = Current.iso3, !.seq = seq + 1]}
    BY DEF UpdateRow
<1> DEFINE u == [r EXCEPT !.value = Current.value, !.iso3 = Current.iso3, !.seq = seq + 1]
<1>2. IsRow(u) /\ u.id = r.id
    <2>1. IsRow(r)
        BY DEF IdInv, RowsAreRows
    <2>2. u = [r EXCEPT !.value = Current.value, !.iso3 = Current.iso3, !.seq = seq + 1]
        OBVIOUS
    <2> HIDE DEF u
    <2> QED
        BY <2>1, <2>2 DEF IsRow, Fields
<1> HIDE DEF u
<1>3. UNCHANGED <<chain, bottles, tick, pc>> /\ pc # "down"
    BY DEF UpdateRow, Reconciled, Reconciling
<1>4. Ids' = Ids
    BY <1>1, <1>2, <1>3 DEF Ids, u
<1>5. RowsAreRows'
    BY <1>1, <1>2, <1>3 DEF IdInv, RowsAreRows, IdsIdentify, u
<1>6. IdsAreNumbers' /\ FactoryIsAhead'
    <2>1. Ids' \subseteq Nat /\ (\E B \in Nat : \A i \in Ids' : i <= B) /\ FactoryIsAhead'
        BY <1>3, <1>4, SameIds
    <2>2. \A q \in rows' \cup chain' : SourceOf(q.id) = SERVER_SOURCE
        BY <1>1, <1>2, <1>3 DEF IdInv, IdsAreNumbers, u
    <2> QED
        BY <2>1, <2>2 DEF IdsAreNumbers
<1>7. IdsIdentify'
    <2>1. rows' = (rows \ {r}) \cup {u}
        BY <1>1 DEF u
    <2>2. \A q \in rows \cup chain : q.id = r.id => q = r
        BY DEF IdInv, IdsIdentify
    <2>3. r.id \notin bottles
        BY DEF IdInv, IdsIdentify
    <2>4. r \notin chain
        BY DEF IdInv, RowsAreRows
    <2> QED
        BY <1>2, <1>3, <2>1, <2>2, <2>3, <2>4 DEF IdInv, IdsIdentify
<1> QED
    BY <1>5, <1>6, <1>7 DEF IdInv

LEMMA InsertKeepsIds ==
    ASSUME IdInv, InsertRow
    PROVE  IdInv'
<1> DEFINE n == [id |-> Minted, table |-> Current.table, parent |-> ParentId(Current),
                 group |-> StoredGroup(Current), code |-> StoredCode(Current),
                 iso3 |-> Current.iso3, value |-> Current.value, seq |-> seq + 1]
<1>1. rows' = rows \cup {n}
    BY DEF InsertRow
<1>2. n.id = Minted /\ IsRow(n)
    BY DEF IsRow, Fields
<1> HIDE DEF n
<1>3. UNCHANGED <<chain, bottles, pc>> /\ tick' = tick + 1 /\ pc # "down"
    BY DEF InsertRow, Reconciled, Reconciling
<1>4. Ids' = Ids \cup {Minted}
    BY <1>1, <1>2, <1>3 DEF Ids
<1>5. RowsAreRows'
    BY <1>1, <1>2, <1>3, MintedIsFresh DEF IdInv, RowsAreRows, Ids
<1>6. IdsAreNumbers' /\ FactoryIsAhead'
    BY <1>1, <1>2, <1>3, <1>4, MintKeepsIds, MintedIsFresh DEF IdInv, IdsAreNumbers
<1>7. IdsIdentify'
    BY <1>1, <1>2, <1>3, MintedIsFresh DEF IdInv, IdsIdentify, Ids
<1> QED
    BY <1>5, <1>6, <1>7 DEF IdInv

LEMMA DemoKeepsIds ==
    ASSUME IdInv, InsertDemo
    PROVE  IdInv'
<1> DEFINE n == [id |-> Minted, table |-> pc, of |-> made]
<1>1. chain' = chain \cup {n}
    BY DEF InsertDemo
<1>2. n.id = Minted
    OBVIOUS
<1> HIDE DEF n
<1>3. UNCHANGED <<rows, bottles>> /\ tick' = tick + 1 /\ pc # "down"
    BY DEF InsertDemo, DemoTables
<1>4. Ids' = Ids \cup {Minted}
    BY <1>1, <1>2, <1>3 DEF Ids
<1>5. RowsAreRows'
    BY <1>1, <1>2, <1>3, MintedIsFresh DEF IdInv, RowsAreRows, Ids
<1>6. IdsAreNumbers' /\ FactoryIsAhead'
    BY <1>1, <1>2, <1>3, <1>4, MintKeepsIds, MintedIsFresh DEF IdInv, IdsAreNumbers
<1>7. IdsIdentify'
    BY <1>1, <1>2, <1>3, MintedIsFresh DEF IdInv, IdsIdentify, Ids
<1> QED
    BY <1>5, <1>6, <1>7 DEF IdInv

LEMMA AddKeepsIds ==
    ASSUME IdInv, AddBottle
    PROVE  IdInv'
<1>1. /\ bottles' = bottles \cup {Minted}
      /\ UNCHANGED <<rows, chain, pc>>
      /\ tick' = tick + 1
      /\ pc # "down"
    BY DEF AddBottle
<1>2. Ids' = Ids \cup {Minted}
    BY <1>1 DEF Ids
<1>3. IdsAreNumbers' /\ FactoryIsAhead'
    BY <1>1, <1>2, MintKeepsIds DEF IdInv, IdsAreNumbers
<1>4. IdsIdentify' /\ RowsAreRows'
    BY <1>1, MintedIsFresh DEF IdInv, IdsIdentify, Ids, RowsAreRows
<1> QED
    BY <1>3, <1>4 DEF IdInv

LEMMA PushKeepsIds ==
    ASSUME IdInv, PushBottle, ReleaseAssumption
    PROVE  IdInv'
<1>1. PICK t \in ClientTick : bottles' = bottles \cup {Pack(t, CLIENT_SOURCE)}
    BY DEF PushBottle
<1> DEFINE p == Pack(t, CLIENT_SOURCE)
<1>2. UNCHANGED <<rows, chain, pc, tick>>
    BY DEF PushBottle, process
<1>3. p \in Nat /\ SourceOf(p) = CLIENT_SOURCE
    BY PackUnpack, Sources DEF ReleaseAssumption
<1> HIDE DEF p
<1>4. Ids' = Ids \cup {p}
    BY <1>1, <1>2 DEF Ids, p
<1>5. IdsAreNumbers'
    <2>1. PICK B \in Nat : \A i \in Ids : i <= B
        BY DEF IdInv, IdsAreNumbers
    <2>2. Ids' \subseteq Nat
        BY <1>3, <1>4 DEF IdInv, IdsAreNumbers
    <2>3. B + p \in Nat /\ \A i \in Ids' : i <= B + p
        BY <1>3, <1>4, <2>1 DEF IdInv, IdsAreNumbers
    <2> QED
        BY <1>2, <2>2, <2>3 DEF IdInv, IdsAreNumbers
<1>6. FactoryIsAhead'
    BY <1>2, <1>3, <1>4 DEF IdInv, FactoryIsAhead
<1>7. IdsIdentify' /\ RowsAreRows'
    BY <1>1, <1>2, <1>3, Sources DEF IdInv, IdsAreNumbers, IdsIdentify, RowsAreRows, p
<1> QED
    BY <1>5, <1>6, <1>7 DEF IdInv

\* The steps that touch no table and no factory.
LEMMA QuietKeepsIds ==
    ASSUME IdInv, UNCHANGED <<rows, chain, bottles, tick>>, pc' # "down" => pc # "down"
    PROVE  IdInv'
BY DEF IdInv, RowsAreRows, IsRow, IdsAreNumbers, FactoryIsAhead, IdsIdentify, Ids

LEMMA StepKeepsIds ==
    ASSUME IdInv, [Next]_vars, ReleaseAssumption
    PROVE  IdInv'
<1>1. CASE Start
    BY <1>1, StartKeepsIds
<1>2. CASE RowIsCurrent
    <2>1. UNCHANGED <<rows, chain, bottles, tick, pc>>
        BY <1>2 DEF RowIsCurrent, Reconciled
    <2> QED
        BY <2>1, QuietKeepsIds
<1>3. CASE UpdateRow
    BY <1>3, UpdateKeepsIds
<1>4. CASE InsertRow
    BY <1>4, InsertKeepsIds
<1>5. CASE WriteRefused
    BY <1>5, ExitKeepsIds DEF WriteRefused
<1>6. CASE ReferenceDone \/ FindLot \/ FindCountry
    <2>1. UNCHANGED <<rows, chain, bottles, tick>> /\ pc # "down"
        BY <1>6 DEF ReferenceDone, FindLot, FindCountry, database
    <2> QED
        BY <2>1, QuietKeepsIds
<1>7. CASE NoCountry
    BY <1>7, ExitKeepsIds DEF NoCountry
<1>8. CASE InsertDemo
    BY <1>8, DemoKeepsIds
<1>9. CASE AddBottle
    BY <1>9, AddKeepsIds
<1>10. CASE PushBottle
    BY <1>10, PushKeepsIds
<1>11. CASE Stop
    BY <1>11, ExitKeepsIds DEF Stop
<1>12. CASE Deploy
    <2>1. UNCHANGED <<rows, chain, bottles, tick, pc>>
        BY <1>12 DEF Deploy, database
    <2> QED
        BY <2>1, QuietKeepsIds
<1>13. CASE UNCHANGED vars
    <2>1. UNCHANGED <<rows, chain, bottles, tick, pc>>
        BY <1>13 DEF vars, database, process
    <2> QED
        BY <2>1, QuietKeepsIds
<1> QED
    BY <1>1, <1>2, <1>3, <1>4, <1>5, <1>6, <1>7, <1>8, <1>9, <1>10, <1>11, <1>12, <1>13
        DEF Next, StartUp

\* An id names one record of the database, for any releases, any stops and any
\* ids of browsers.
THEOREM IdsAlwaysIdentify == Spec => []IdsIdentify
<1>1. Init => IdInv
    <2> SUFFICES ASSUME Init PROVE IdInv
        OBVIOUS
    <2>1. rows = {} /\ chain = {} /\ Ids = {} /\ tick = 0 /\ pc = "down" /\ bottles = {}
        BY DEF Init, Ids
    <2> QED
        BY <2>1 DEF IdInv, RowsAreRows, IdsAreNumbers, FactoryIsAhead, IdsIdentify
<1>2. IdInv /\ [Next]_vars => IdInv'
    BY StepKeepsIds, ReleaseAssumption
<1>3. IdInv => IdsIdentify
    BY DEF IdInv
<1> QED
    BY <1>1, <1>2, <1>3, PTL DEF Spec

-----------------------------------------------------------------------------
(* The demo catalog. *)

\* What a step of ensure_seed finds: no lot yet while it inserts, and the row
\* it links the next one to.
Begun ==
    /\ pc \in DemoTables => Lots = {}
    /\ pc = "producer" => \E r \in Countries : r.id = made
    /\ pc \in DemoTables \ {"producer"} =>
           \E d \in chain : d.id = made /\ After[d.table] = pc

LotInv == OneLot /\ Begun

LEMMA Stages ==
    /\ After["producer"] = "wine"
    /\ After["wine"] = "wine_vintage"
    /\ After["wine_vintage"] = "lot"
    /\ After["lot"] = "serving"
BY DEF After

\* While neither the rows nor the chain change, only the stage matters.
LEMMA SameChain ==
    ASSUME LotInv, UNCHANGED <<rows, chain>>,
           pc' \in {"down", "reconcile", "demo"} \/ UNCHANGED <<pc, made>>
    PROVE  LotInv'
<1>1. Lots' = Lots /\ Countries' = Countries
    BY DEF Lots, Countries
<1> QED
    BY <1>1 DEF LotInv, OneLot, Begun, DemoTables

\* Reconciling an entry keeps the US in the table, under its id.
LEMMA ReconcileKeepsLot ==
    ASSUME IdInv, LotInv, UpdateRow \/ InsertRow
    PROVE  LotInv'
<1>1. UNCHANGED <<chain, pc, made>> /\ pc = "reconcile"
    BY DEF UpdateRow, InsertRow, Reconciled, Reconciling
<1>2. \A r \in Countries : \E q \in Countries' : q.id = r.id
    <2>1. CASE InsertRow
        BY <2>1 DEF InsertRow, Countries
    <2>2. CASE UpdateRow
        <3>1. PICK r \in rows :
                  rows' = (rows \ {r}) \cup
                      {[r EXCEPT !.value = Current.value, !.iso3 = Current.iso3, !.seq = seq + 1]}
            BY <2>2 DEF UpdateRow
        <3> DEFINE u == [r EXCEPT !.value = Current.value, !.iso3 = Current.iso3, !.seq = seq + 1]
        <3>2. IsRow(r) /\ u = [r EXCEPT !.value = Current.value, !.iso3 = Current.iso3, !.seq = seq + 1]
            BY DEF IdInv, RowsAreRows
        <3>3. rows' = (rows \ {r}) \cup {u}
            BY <3>1
        <3> HIDE DEF u
        <3>4. u.id = r.id /\ u.table = r.table /\ u.code = r.code
            BY <3>2 DEF IsRow, Fields
        <3> QED
            BY <3>3, <3>4 DEF Countries
    <2> QED
        BY <2>1, <2>2
<1>3. Lots' = Lots
    BY <1>1 DEF Lots
<1> QED
    BY <1>1, <1>2, <1>3 DEF LotInv, OneLot, Begun, DemoTables

LEMMA DemoKeepsLot ==
    ASSUME LotInv, InsertDemo
    PROVE  LotInv'
<1> DEFINE n == [id |-> Minted, table |-> pc, of |-> made]
<1>1. chain' = chain \cup {n}
    BY DEF InsertDemo
<1>2. n.id = Minted /\ n.table = pc /\ n.of = made
    OBVIOUS
<1> HIDE DEF n
<1>3. rows' = rows /\ made' = Minted /\ pc' = After[pc] /\ pc \in DemoTables /\ Lots = {}
    BY DEF InsertDemo, LotInv, Begun
<1>4. Countries' = Countries
    BY <1>3 DEF Countries
<1>5. Lots' = IF pc = "lot" THEN {n} ELSE {}
    BY <1>1, <1>2, <1>3 DEF Lots
<1>6. IF n.table = "producer" THEN \E r \in Countries' : r.id = n.of
      ELSE \E d \in chain' : d.id = n.of /\ After[d.table] = n.table
    BY <1>1, <1>2, <1>3, <1>4 DEF LotInv, Begun
<1>7. OneLot'
    <2>1. \A c, d \in Lots' : c = d
        BY <1>5
    <2>2. pc' = "serving" => \E c \in Lots' : c.id = made'
        BY <1>2, <1>3, <1>5, Stages DEF DemoTables
    <2>3. \A c \in chain' :
              IF c.table = "producer" THEN \E r \in Countries' : r.id = c.of
              ELSE \E d \in chain' : d.id = c.of /\ After[d.table] = c.table
        BY <1>1, <1>4, <1>6 DEF LotInv, OneLot
    <2> QED
        BY <2>1, <2>2, <2>3 DEF OneLot
<1>8. Begun'
    <2>1. pc' \in DemoTables => Lots' = {} /\ pc' # "producer"
        BY <1>3, <1>5, Stages DEF DemoTables
    <2>2. \E d \in chain' : d.id = made' /\ After[d.table] = pc'
        BY <1>1, <1>2, <1>3
    <2> QED
        BY <2>1, <2>2 DEF Begun, DemoTables
<1> QED
    BY <1>7, <1>8 DEF LotInv

LEMMA StepKeepsLot ==
    ASSUME IdInv, LotInv, [Next]_vars
    PROVE  LotInv'
<1>1. CASE Start
    BY <1>1, SameChain DEF Start, database
<1>2. CASE RowIsCurrent
    BY <1>2, SameChain DEF RowIsCurrent, Reconciled
<1>3. CASE UpdateRow \/ InsertRow
    BY <1>3, ReconcileKeepsLot
<1>4. CASE WriteRefused \/ NoCountry \/ Stop
    BY <1>4, SameChain DEF WriteRefused, NoCountry, Stop, Exit, database
<1>5. CASE ReferenceDone
    BY <1>5, SameChain DEF ReferenceDone, database
<1>6. CASE FindLot
    <2>1. /\ UNCHANGED <<rows, chain>>
          /\ pc' = "serving"
          /\ \E c \in Lots : made' = c.id
        BY <1>6 DEF FindLot, database
    <2>2. Lots' = Lots /\ Countries' = Countries
        BY <2>1 DEF Lots, Countries
    <2> QED
        BY <2>1, <2>2 DEF LotInv, OneLot, Begun, DemoTables
<1>7. CASE FindCountry
    <2>1. /\ UNCHANGED <<rows, chain>>
          /\ pc' = "producer"
          /\ Lots = {}
          /\ \E r \in Countries : made' = r.id
        BY <1>7 DEF FindCountry, database
    <2>2. Lots' = Lots /\ Countries' = Countries
        BY <2>1 DEF Lots, Countries
    <2> QED
        BY <2>1, <2>2 DEF LotInv, OneLot, Begun, DemoTables
<1>8. CASE InsertDemo
    BY <1>8, DemoKeepsLot
<1>9. CASE AddBottle
    BY <1>9, SameChain DEF AddBottle
<1>10. CASE PushBottle
    BY <1>10, SameChain DEF PushBottle, process
<1>11. CASE Deploy
    BY <1>11, SameChain DEF Deploy, database
<1>12. CASE UNCHANGED vars
    BY <1>12, SameChain DEF vars, database, process
<1> QED
    BY <1>1, <1>2, <1>3, <1>4, <1>5, <1>6, <1>7, <1>8, <1>9, <1>10, <1>11, <1>12
        DEF Next, StartUp

\* However often start-up stops between its inserts, a server that serves has
\* one lot, and every demo row hangs on the one before it.
THEOREM AlwaysOneLot == Spec => []OneLot
<1>1. Init => IdInv /\ LotInv
    <2> SUFFICES ASSUME Init PROVE IdInv /\ LotInv
        OBVIOUS
    <2>1. rows = {} /\ chain = {} /\ Ids = {} /\ tick = 0 /\ pc = "down" /\ bottles = {}
        BY DEF Init, Ids
    <2>2. IdInv
        BY <2>1 DEF IdInv, RowsAreRows, IdsAreNumbers, FactoryIsAhead, IdsIdentify
    <2>3. Lots = {}
        BY <2>1 DEF Lots
    <2> QED
        BY <2>1, <2>2, <2>3 DEF LotInv, OneLot, Begun, DemoTables
<1>2. IdInv /\ LotInv /\ [Next]_vars => IdInv' /\ LotInv'
    BY StepKeepsIds, StepKeepsLot, ReleaseAssumption
<1>3. LotInv => OneLot
    BY DEF LotInv
<1> QED
    BY <1>1, <1>2, <1>3, PTL DEF Spec

-----------------------------------------------------------------------------
(* The walk over a release, and the parents of its entries.                 *)

\* The table of a parent, and that of what refers to it.
ParentTables ==
    {<<"country", t>> : t \in CountryScoped} \cup {<<"classification_system", "classification_level">>}

\* The walk meets every list, and only the lists.
LEMMA WalksAll ==
    ASSUME NEW m \in Lists
    PROVE  LaidOut(Walk(m), Entry, Vocabulary, m, ParentTables)
<1> DEFINE s1 == m["country"]
           s2 == s1 \o m["bottle_format"]
           s3 == s2 \o m["descriptor"]
           s4 == s3 \o m["appellation_type"]
           s5 == s4 \o m["appellation_tier"]
           s6 == s5 \o m["classification_system"]
           s7 == s6 \o m["classification_level"]
           T1 == {"country"}
           T2 == T1 \cup {"bottle_format"}
           T3 == T2 \cup {"descriptor"}
           T4 == T3 \cup {"appellation_type"}
           T5 == T4 \cup {"appellation_tier"}
           T6 == T5 \cup {"classification_system"}
           T7 == T6 \cup {"classification_level"}
<1>0. /\ ByTable(Entry, Vocabulary, m)
      /\ \A u, t : <<u, t>> \in ParentTables =>
             \/ u = "country" /\ t \in CountryScoped
             \/ u = "classification_system" /\ t = "classification_level"
    BY DEF ByTable, Lists, ParentTables
<1> USE DEF Vocabulary, CountryScoped
<1>1. LaidOut(s1, Entry, T1, m, ParentTables)
    BY <1>0, OneLaidOut
<1> HIDE DEF s1, s2, s3, s4, s5, s6, s7
<1>2. LaidOut(s2, Entry, T2, m, ParentTables)
    BY <1>0, <1>1, Appended DEF s2
<1>3. LaidOut(s3, Entry, T3, m, ParentTables)
    BY <1>0, <1>2, Appended DEF s3
<1>4. LaidOut(s4, Entry, T4, m, ParentTables)
    BY <1>0, <1>3, Appended DEF s4
<1>5. LaidOut(s5, Entry, T5, m, ParentTables)
    BY <1>0, <1>4, Appended DEF s5
<1>6. LaidOut(s6, Entry, T6, m, ParentTables)
    BY <1>0, <1>5, Appended DEF s6
<1>7. LaidOut(s7, Entry, T7, m, ParentTables)
    BY <1>0, <1>6, Appended DEF s7
<1>8. LaidOut(s7 \o m["label_rule"], Entry, T7 \cup {"label_rule"}, m, ParentTables)
    <2>1. \A t : <<"label_rule", t>> \notin ParentTables
        BY <1>0
    <2>2. T7 \in SUBSET Vocabulary /\ "label_rule" \in Vocabulary \ T7
        OBVIOUS
    <2> HIDE DEF T7
    <2> QED
        BY <1>0, <1>7, <2>1, <2>2, Appended
<1>9. Walk(m) = s7 \o m["label_rule"]
    BY DEF Walk, s1, s2, s3, s4, s5, s6, s7
<1>10. T7 \cup {"label_rule"} = Vocabulary
    OBVIOUS
<1> QED
    BY <1>8, <1>9, <1>10

\* The parent of an entry comes before it.
LEMMA ParentsFirst ==
    ASSUME NEW s, InOrder(s, ParentTables),
           NEW j \in 1..Len(s), NEW k \in 1..Len(s), Refers(s[k]), Key(s[j]) = ParentKey(s[k])
    PROVE  j < k
<1>1. s[j].table = IF s[k].table = "classification_level" THEN "classification_system" ELSE "country"
    BY DEF Key, ParentKey
<1>2. <<s[j].table, s[k].table>> \in ParentTables
    BY <1>1 DEF ParentTables, Refers
<1> QED
    BY <1>2 DEF InOrder

\* Of a release, the walk meets the parent of every entry before the entry.
LEMMA WalkMeetsParents ==
    ASSUME NEW m \in Releases, ReleaseAssumption
    PROVE  /\ Walk(m) \in Seq(Entry)
           /\ \A k \in 1..Len(Walk(m)) :
                  Refers(Walk(m)[k]) =>
                      \E j \in 1..Len(Walk(m)) :
                          j < k /\ Key(Walk(m)[j]) = ParentKey(Walk(m)[k])
<1>1. m \in Lists /\ Coherent(m)
    BY DEF ReleaseAssumption
<1>2. /\ LaidOut(Walk(m), Entry, Vocabulary, m, ParentTables)
      /\ Walk(m) \in Seq(Entry) /\ InOrder(Walk(m), ParentTables)
    BY <1>1, WalksAll DEF LaidOut
<1>3. ASSUME NEW k \in 1..Len(Walk(m)), Refers(Walk(m)[k])
      PROVE  \E j \in 1..Len(Walk(m)) : Key(Walk(m)[j]) = ParentKey(Walk(m)[k])
    <2>1. /\ ByTable(Entry, Vocabulary, m)
          /\ \A t \in Vocabulary : DOMAIN m[t] = 1..Len(m[t])
        BY <1>1 DEF ByTable, Lists
    <2>2. /\ \A h \in 1..Len(Walk(m)) :
                 \E t \in Vocabulary : \E i \in 1..Len(m[t]) : Walk(m)[h] = m[t][i]
          /\ \A t \in Vocabulary : \A i \in 1..Len(m[t]) :
                 \E h \in 1..Len(Walk(m)) : Walk(m)[h] = m[t][i]
        <3> DEFINE s == Walk(m)
        <3>1. LaidOut(s, Entry, Vocabulary, m, ParentTables)
            BY <1>2
        <3> HIDE DEF s
        <3>2. /\ \A h \in 1..Len(s) :
                     \E t \in Vocabulary : \E i \in 1..Len(m[t]) : s[h] = m[t][i]
              /\ \A t \in Vocabulary : \A i \in 1..Len(m[t]) :
                     \E h \in 1..Len(s) : s[h] = m[t][i]
            BY <2>1, <3>1, Meets
        <3> QED
            BY <3>2, Zenon DEF s
    <2>3. PICK t \in Vocabulary : \E i \in 1..Len(m[t]) : Walk(m)[k] = m[t][i]
        BY <2>2
    <2>4. PICK u \in Vocabulary : \E j \in DOMAIN m[u] : Key(m[u][j]) = ParentKey(Walk(m)[k])
        BY <1>1, <1>3, <2>1, <2>3 DEF Coherent, ReferencesResolve
    <2>5. PICK j \in 1..Len(m[u]) : Key(m[u][j]) = ParentKey(Walk(m)[k])
        BY <2>1, <2>4
    <2>6. PICK h \in 1..Len(Walk(m)) : Walk(m)[h] = m[u][j]
        BY <2>2
    <2> QED
        BY <2>5, <2>6
<1> QED
    BY <1>2, <1>3, ParentsFirst

\* What the tables promise of the natural keys of their rows.
Scoped == CountryScoped \cup {"classification_level"}

NaturalKeys(R) ==
    /\ \A r \in R : r.table \notin Scoped => r.parent = NoId
    /\ \A r \in R : r.table # "label_rule" => r.group = NoKey
    /\ \A r, q \in R :
           r.table = q.table /\ r.parent = q.parent /\ r.group = q.group /\ r.code = q.code => r = q

LEMMA TheCountry ==
    ASSUME NEW R, NaturalKeys(R), NEW r \in R, r.table = "country"
    PROVE  (CHOOSE q \in R : q.table = "country" /\ q.code = r.code) = r
<1>1. "country" \notin Scoped /\ "country" # "label_rule"
    BY DEF Scoped, CountryScoped
<1>2. \A q \in R : q.table = "country" /\ q.code = r.code => q = r
    BY <1>1 DEF NaturalKeys
<1> QED
    BY <1>2

LEMMA TheSystem ==
    ASSUME NEW R, NaturalKeys(R), NEW r \in R, r.table = "classification_system"
    PROVE  (CHOOSE q \in R :
                q.table = "classification_system" /\ q.parent = r.parent /\ q.code = r.code) = r
<1>1. \A q \in R :
          q.table = "classification_system" /\ q.parent = r.parent /\ q.code = r.code => q = r
    BY DEF NaturalKeys
<1> QED
    BY <1>1

\* In the rows R the parent of e is there, and its id is p.
Linked(R, e, p) ==
    IF e.table = "classification_level"
    THEN \E c, s \in R :
             /\ c.table = "country" /\ c.code = e.country
             /\ s.table = "classification_system" /\ s.parent = c.id /\ s.code = e.group
             /\ p = s.id
    ELSE IF Refers(e)
    THEN \E c \in R : c.table = "country" /\ c.code = e.country /\ p = c.id
    ELSE p = NoId

\* ParentId in the rows R.
CountryIn(R, iso2) == (CHOOSE r \in R : r.table = "country" /\ r.code = iso2).id

ParentIn(R, e) ==
    IF e.table = "classification_level"
    THEN (CHOOSE r \in R :
              /\ r.table = "classification_system"
              /\ r.parent = CountryIn(R, e.country)
              /\ r.code = e.group).id
    ELSE IF Refers(e) THEN CountryIn(R, e.country)
    ELSE NoId

LEMMA LinkedIsParent ==
    ASSUME NEW R, NaturalKeys(R), NEW e, NEW p, Linked(R, e, p)
    PROVE  ParentIn(R, e) = p
<1>1. ASSUME NEW c \in R, c.table = "country", c.code = e.country
      PROVE  CountryIn(R, e.country) = c.id
    <2>1. (CHOOSE r \in R : r.table = "country" /\ r.code = c.code) = c
        BY <1>1, TheCountry
    <2> QED
        BY <1>1, <2>1 DEF CountryIn
<1>2. CASE e.table = "classification_level"
    <2>1. PICK c \in R, s \in R :
              /\ c.table = "country" /\ c.code = e.country
              /\ s.table = "classification_system" /\ s.parent = c.id /\ s.code = e.group
              /\ p = s.id
        BY <1>2 DEF Linked
    <2>2. CountryIn(R, e.country) = s.parent
        BY <1>1, <2>1
    <2>3. (CHOOSE q \in R :
               q.table = "classification_system" /\ q.parent = s.parent /\ q.code = s.code) = s
        BY <2>1, TheSystem
    <2> QED
        BY <1>2, <2>1, <2>2, <2>3 DEF ParentIn
<1>3. CASE e.table # "classification_level" /\ Refers(e)
    BY <1>1, <1>3 DEF Linked, ParentIn
<1>4. CASE e.table # "classification_level" /\ ~Refers(e)
    BY <1>4 DEF Linked, ParentIn
<1> QED
    BY <1>2, <1>3, <1>4

LEMMA ParentIdIsIn ==
    ASSUME NEW e
    PROVE  ParentId(e) = ParentIn(rows, e) /\ ParentId(e)' = ParentIn(rows', e)
BY DEF ParentId, SystemId, CountryId, ParentIn, CountryIn

-----------------------------------------------------------------------------
(* What is stored of a release.                                             *)

\* There is a row of e with the contents of e, or of one stored as e is.
Stored(e) ==
    \E r \in rows : \E d \in StoredAs(e) :
        IsRowOf(r, e) /\ r.value = d.value /\ r.iso3 = d.iso3

UpTo(n) == {Walk(release)[i] : i \in 1..n}
StoredTo(n) == \A e \in UpTo(n) : Stored(e)

HasParent(e) == \E p : Linked(rows, e, p)

\* Entries in order have their parents: the parent of the next one is stored.
LEMMA StoredHaveParents ==
    ASSUME NaturalKeys(rows), release \in Releases, ReleaseAssumption,
           NEW n \in Nat, StoredTo(n),
           NEW k \in 1..Len(Walk(release)), k <= n + 1
    PROVE  HasParent(Walk(release)[k])
<1> DEFINE w == Walk(release)
<1>1. /\ \A i \in 1..Len(w) : w[i] \in Entry
      /\ Len(w) \in Nat
      /\ \A h \in 1..Len(w) :
             Refers(w[h]) => \E j \in 1..Len(w) : j < h /\ Key(w[j]) = ParentKey(w[h])
    BY WalkMeetsParents
<1>2. \A h \in 1..Len(w) : h <= n => \E r \in rows : IsRowOf(r, w[h])
    <2> SUFFICES ASSUME NEW h \in 1..Len(w), h <= n PROVE \E r \in rows : IsRowOf(r, w[h])
        OBVIOUS
    <2>1. w[h] \in UpTo(n)
        BY <1>1 DEF UpTo
    <2> QED
        BY <2>1 DEF StoredTo, Stored
<1> HIDE DEF w
\* The row of a country an entry up to the next one names.
<1>3. ASSUME NEW h \in 1..Len(w), h <= n + 1, Refers(w[h]), w[h].table # "classification_level"
      PROVE  \E c \in rows : c.table = "country" /\ c.code = w[h].country
    <2>1. PICK j \in 1..Len(w) : j < h /\ Key(w[j]) = ParentKey(w[h])
        BY <1>1, <1>3
    <2>2. w[j].table = "country" /\ w[j].code = w[h].country
        BY <1>3, <2>1 DEF Key, ParentKey
    <2>3. j <= n
        BY <1>1, <1>3, <2>1
    <2>4. PICK c \in rows : IsRowOf(c, w[j])
        BY <1>2, <2>3
    <2> QED
        BY <2>2, <2>4 DEF IsRowOf, StoredCode
<1>4. CASE Refers(w[k]) /\ w[k].table # "classification_level"
    <2>1. PICK c \in rows : c.table = "country" /\ c.code = w[k].country
        BY <1>3, <1>4 DEF w
    <2>2. Linked(rows, w[k], c.id)
        BY <1>4, <2>1 DEF Linked
    <2> QED
        BY <2>2 DEF HasParent, w
<1>5. CASE w[k].table = "classification_level"
    <2>1. Refers(w[k]) /\ k \in 1..Len(w)
        BY <1>5 DEF Refers, w
    <2>2. PICK j \in 1..Len(w) : j < k /\ Key(w[j]) = ParentKey(w[k])
        BY <1>1, <2>1
    <2>3. w[j].table = "classification_system" /\ w[j].country = w[k].country
          /\ w[j].code = w[k].group
        BY <1>5, <2>2 DEF Key, ParentKey
    <2>4. j <= n /\ j <= n + 1 /\ Refers(w[j])
        BY <1>1, <2>1, <2>2, <2>3 DEF Refers, CountryScoped
    <2>5. PICK s \in rows : IsRowOf(s, w[j])
        BY <1>2, <2>4
    <2>6. PICK c \in rows : c.table = "country" /\ c.code = w[j].country
        BY <1>3, <2>3, <2>4
    <2>7. Linked(rows, w[j], c.id)
        BY <2>3, <2>4, <2>6 DEF Linked
    <2>8. s.parent = c.id
        BY <2>5, <2>7, LinkedIsParent, ParentIdIsIn DEF IsRowOf
    <2>9. s.table = "classification_system" /\ s.code = w[k].group
        BY <2>3, <2>5 DEF IsRowOf, StoredCode
    <2>10. Linked(rows, w[k], s.id)
        BY <1>5, <2>3, <2>6, <2>8, <2>9 DEF Linked
    <2> QED
        BY <2>10 DEF HasParent, w
<1>6. CASE ~Refers(w[k])
    <2>1. w[k].table # "classification_level"
        BY <1>6 DEF Refers
    <2>2. Linked(rows, w[k], NoId)
        BY <1>6, <2>1 DEF Linked
    <2> QED
        BY <2>2 DEF HasParent, w
<1> QED
    BY <1>4, <1>5, <1>6

\* Entries of a release that share a parent id name the same parent.
LEMMA SameParent ==
    ASSUME IdsIdentify, NEW e \in Entry, NEW d \in Entry, e.table = d.table,
           NEW p, Linked(rows, e, p), Linked(rows, d, p)
    PROVE  /\ e.country = d.country
           /\ e.table = "classification_level" => e.group = d.group
<1>1. \A r, q \in rows : r.id = q.id => r = q
    BY DEF IdsIdentify
<1>2. CASE e.table = "classification_level"
    <2>1. PICK c \in rows, s \in rows :
              /\ c.code = e.country /\ s.parent = c.id /\ s.code = e.group /\ p = s.id
        BY <1>2 DEF Linked
    <2>2. PICK b \in rows, t \in rows :
              /\ b.code = d.country /\ t.parent = b.id /\ t.code = d.group /\ p = t.id
        BY <1>2 DEF Linked
    <2>3. s = t
        BY <1>1, <2>1, <2>2
    <2>4. c = b
        BY <1>1, <2>1, <2>2, <2>3
    <2> QED
        BY <2>1, <2>2, <2>3, <2>4
<1>3. CASE e.table # "classification_level" /\ Refers(e)
    <2>1. Refers(d)
        BY <1>3 DEF Refers
    <2> QED
        BY <1>1, <1>3, <2>1 DEF Linked
<1>4. CASE ~Refers(e)
    <2>1. ~Refers(d) /\ e.table # "classification_level"
        BY <1>4 DEF Refers
    <2>2. e.country = NoKey /\ d.country = NoKey
        BY <1>4, <2>1 DEF Entry
    <2> QED
        BY <2>1, <2>2
<1> QED
    BY <1>2, <1>3, <1>4

\* Entries with the same row are stored as each other.
LEMMA SameRow ==
    ASSUME NaturalKeys(rows), IdsIdentify,
           NEW e \in Entry, NEW d \in Entry, e \in Entries(release),
           HasParent(e), HasParent(d),
           NEW r, IsRowOf(r, e), IsRowOf(r, d)
    PROVE  e \in StoredAs(d)
<1>1. /\ e.table = d.table
      /\ ParentId(e) = ParentId(d)
      /\ StoredGroup(e) = StoredGroup(d)
      /\ StoredCode(e) = StoredCode(d)
    BY DEF IsRowOf
<1>2. PICK p : Linked(rows, e, p)
    BY DEF HasParent
<1>3. PICK o : Linked(rows, d, o)
    BY DEF HasParent
<1>4. p = o
    BY <1>1, <1>2, <1>3, LinkedIsParent, ParentIdIsIn
<1>5. /\ e.country = d.country
      /\ e.table = "classification_level" => e.group = d.group
    BY <1>1, <1>2, <1>3, <1>4, SameParent
<1>6. e.table = "label_rule" => e.group = d.group
    BY <1>1 DEF StoredGroup
<1> QED
    BY <1>1, <1>5, <1>6 DEF StoredAs

\* Entries stored as each other have the same row.
LEMMA StoredAsHasRow ==
    ASSUME NEW e, NEW d \in StoredAs(e), NEW r
    PROVE  IsRowOf(r, e) <=> IsRowOf(r, d)
<1>1. /\ d.table = e.table /\ d.country = e.country
      /\ StoredCode(d) = StoredCode(e)
      /\ d.table \in {"label_rule", "classification_level"} => d.group = e.group
    BY DEF StoredAs
<1>2. StoredGroup(d) = StoredGroup(e)
    BY <1>1 DEF StoredGroup
<1>3. ParentId(d) = ParentId(e)
    BY <1>1 DEF ParentId, Refers
<1> QED
    BY <1>1, <1>2, <1>3 DEF IsRowOf

-----------------------------------------------------------------------------
(* A step of the reconcile keeps what is stored.                            *)

SameKey(r, q) ==
    /\ q.id = r.id /\ q.table = r.table /\ q.parent = r.parent
    /\ q.group = r.group /\ q.code = r.code

\* No row goes, or changes its key.
KeysKept == \A r \in rows : \E q \in rows' : SameKey(r, q)

LEMMA LinkKept ==
    ASSUME KeysKept, NEW e, NEW p, Linked(rows, e, p)
    PROVE  Linked(rows', e, p)
<1>1. CASE e.table = "classification_level"
    <2>1. PICK c \in rows, s \in rows :
              /\ c.table = "country" /\ c.code = e.country
              /\ s.table = "classification_system" /\ s.parent = c.id /\ s.code = e.group
              /\ p = s.id
        BY <1>1 DEF Linked
    <2>2. PICK b \in rows' : SameKey(c, b)
        BY DEF KeysKept
    <2>3. PICK t \in rows' : SameKey(s, t)
        BY DEF KeysKept
    <2> QED
        BY <1>1, <2>1, <2>2, <2>3 DEF Linked, SameKey
<1>2. CASE e.table # "classification_level"
    BY <1>2 DEF Linked, KeysKept, SameKey
<1> QED
    BY <1>1, <1>2

LEMMA RowOfKept ==
    ASSUME NaturalKeys(rows), NaturalKeys(rows'), KeysKept,
           NEW e, HasParent(e), NEW r
    PROVE  IsRowOf(r, e)' <=> IsRowOf(r, e)
<1>1. PICK p : Linked(rows, e, p)
    BY DEF HasParent
<1>2. Linked(rows', e, p)
    BY <1>1, LinkKept
<1>3. ParentIn(rows, e) = p /\ ParentIn(rows', e) = p
    BY <1>1, <1>2, LinkedIsParent
<1>4. ParentId(e)' = ParentId(e)
    BY <1>3, ParentIdIsIn
<1> QED
    BY <1>4 DEF IsRowOf, StoredGroup, StoredCode

\* If the rows rewritten are those of c, with the contents of c.
LEMMA StoredKept ==
    ASSUME NaturalKeys(rows), NaturalKeys(rows'), KeysKept, IdsIdentify, release' = release,
           NEW e \in Entry, e \in Entries(release), HasParent(e), Stored(e),
           NEW c \in Entry, c \in Entries(release), HasParent(c),
           \A r \in rows \ rows' :
               /\ IsRowOf(r, c)
               /\ \E u \in rows' : SameKey(r, u) /\ u.value = c.value /\ u.iso3 = c.iso3
    PROVE  Stored(e)'
<1>1. PICK r \in rows, d \in StoredAs(e) : IsRowOf(r, e) /\ r.value = d.value /\ r.iso3 = d.iso3
    BY DEF Stored
<1>2. StoredAs(e)' = StoredAs(e)
    BY DEF StoredAs, Entries
<1>3. CASE r \in rows'
    <2>1. IsRowOf(r, e)'
        BY <1>1, RowOfKept
    <2> QED
        BY <1>1, <1>2, <1>3, <2>1 DEF Stored
<1>4. CASE r \notin rows'
    <2>1. IsRowOf(r, c)
        BY <1>4
    <2>2. PICK u \in rows' : SameKey(r, u) /\ u.value = c.value /\ u.iso3 = c.iso3
        BY <1>4
    <2>3. c \in StoredAs(e)
        BY <1>1, <2>1, SameRow
    <2>4. IsRowOf(u, e)
        BY <1>1, <2>2 DEF SameKey, IsRowOf
    <2>5. IsRowOf(u, e)'
        BY <2>4, RowOfKept
    <2> QED
        BY <1>2, <2>2, <2>3, <2>5 DEF Stored
<1> QED
    BY <1>3, <1>4

\* What the three outcomes of an upsert have in common.
Upserted(c) ==
    /\ NaturalKeys(rows')
    /\ KeysKept
    /\ release' = release
    /\ \A r \in rows \ rows' :
           /\ IsRowOf(r, c)
           /\ \E u \in rows' : SameKey(r, u) /\ u.value = c.value /\ u.iso3 = c.iso3
    /\ \E u \in rows' : IsRowOf(u, c) /\ u.value = c.value /\ u.iso3 = c.iso3

LEMMA UpdateUpserts ==
    ASSUME IdInv, NaturalKeys(rows), UpdateRow
    PROVE  Upserted(Current)
<1>1. PICK r \in rows :
          /\ IsRowOf(r, Current)
          /\ rows' = (rows \ {r}) \cup
                 {[r EXCEPT !.value = Current.value, !.iso3 = Current.iso3, !.seq = seq + 1]}
    BY DEF UpdateRow
<1> DEFINE u == [r EXCEPT !.value = Current.value, !.iso3 = Current.iso3, !.seq = seq + 1]
<1>2. IsRow(r) /\ u = [r EXCEPT !.value = Current.value, !.iso3 = Current.iso3, !.seq = seq + 1]
    BY DEF IdInv, RowsAreRows
<1>3. rows' = (rows \ {r}) \cup {u}
    BY <1>1
<1> HIDE DEF u
<1>4. SameKey(r, u) /\ u.value = Current.value /\ u.iso3 = Current.iso3
    BY <1>2 DEF IsRow, Fields, SameKey
<1>5. KeysKept
    BY <1>3, <1>4 DEF KeysKept, SameKey
<1>6. NaturalKeys(rows')
    BY <1>3, <1>4 DEF NaturalKeys, SameKey
<1>7. IsRowOf(u, Current)
    BY <1>1, <1>4 DEF IsRowOf, SameKey
<1>8. release' = release
    BY DEF UpdateRow, Reconciled
<1> QED
    BY <1>1, <1>3, <1>4, <1>5, <1>6, <1>7, <1>8 DEF Upserted

LEMMA InsertUpserts ==
    ASSUME NaturalKeys(rows), InsertRow
    PROVE  Upserted(Current)
<1> DEFINE n == [id |-> Minted, table |-> Current.table, parent |-> ParentId(Current),
                 group |-> StoredGroup(Current), code |-> StoredCode(Current),
                 iso3 |-> Current.iso3, value |-> Current.value, seq |-> seq + 1]
<1>1. rows' = rows \cup {n} /\ \A r \in rows : ~IsRowOf(r, Current)
    BY DEF InsertRow
<1>2. IsRowOf(n, Current) /\ n.value = Current.value /\ n.iso3 = Current.iso3
    BY DEF IsRowOf
<1> HIDE DEF n
<1>3. \A r \in rows : r.table # n.table \/ r.parent # n.parent \/ r.group # n.group \/ r.code # n.code
    BY <1>1, <1>2 DEF IsRowOf
<1>4. n.table \notin Scoped => n.parent = NoId
    BY <1>2 DEF IsRowOf, ParentId, Refers, Scoped
<1>5. n.table # "label_rule" => n.group = NoKey
    BY <1>2 DEF IsRowOf, StoredGroup
<1>6. NaturalKeys(rows')
    BY <1>1, <1>3, <1>4, <1>5 DEF NaturalKeys
<1>7. KeysKept
    BY <1>1 DEF KeysKept, SameKey
<1>8. release' = release
    BY DEF InsertRow, Reconciled
<1> QED
    BY <1>1, <1>2, <1>6, <1>7, <1>8 DEF Upserted

LEMMA FoundUpserts ==
    ASSUME NaturalKeys(rows), RowIsCurrent
    PROVE  Upserted(Current)
<1>1. rows' = rows /\ release' = release
    BY DEF RowIsCurrent, Reconciled
<1>2. KeysKept
    BY <1>1 DEF KeysKept, SameKey
<1>3. \E u \in rows : IsRowOf(u, Current) /\ u.value = Current.value /\ u.iso3 = Current.iso3
    BY DEF RowIsCurrent, Differs
<1> QED
    BY <1>1, <1>2, <1>3 DEF Upserted

-----------------------------------------------------------------------------
(* The invariant: the entries reconciled are stored, and once the release   *)
(* has served, all of them.                                                 *)

Stage ==
    /\ pc = "down" => done = 0
    /\ pc \notin {"down", "reconcile"} => done = Len(Walk(release))

DoneInv ==
    /\ TypeOK
    /\ NaturalKeys(rows)
    /\ Stage
    /\ StoredTo(done)
    /\ settled => StoredTo(Len(Walk(release)))

LEMMA WalkTypes ==
    ASSUME release \in Releases, ReleaseAssumption
    PROVE  /\ Len(Walk(release)) \in Nat
           /\ \A i \in 1..Len(Walk(release)) :
                  Walk(release)[i] \in Entry /\ Walk(release)[i] \in Entries(release)
BY WalkMeetsParents DEF Entries

\* The entry whose turn it is has its parent.
LEMMA CurrentHasParent ==
    ASSUME DoneInv, Reconciling, ReleaseAssumption
    PROVE  Current \in Entry /\ Current \in Entries(release) /\ HasParent(Current)
<1>1. release \in Releases /\ done \in Nat /\ done + 1 \in 1..Len(Walk(release))
    BY WalkTypes DEF DoneInv, TypeOK, Reconciling
<1>2. HasParent(Walk(release)[done + 1])
    BY <1>1, StoredHaveParents DEF DoneInv
<1> QED
    BY <1>1, <1>2, WalkTypes DEF Current

\* A step of the reconcile keeps what is stored of the first n entries, and
\* stores its own.
LEMMA UpsertStores ==
    ASSUME IdInv, DoneInv, Reconciling, Upserted(Current), ReleaseAssumption
    PROVE  \A n \in 0..Len(Walk(release)) :
               /\ StoredTo(n) => StoredTo(n)'
               /\ n = done + 1 => StoredTo(n)'
<1>1. release \in Releases /\ done \in Nat /\ done + 1 \in 1..Len(Walk(release))
    BY WalkTypes DEF DoneInv, TypeOK, Reconciling
<1>2. PICK c : c = Current
    OBVIOUS
<1>3. c \in Entry /\ c \in Entries(release) /\ HasParent(c) /\ Upserted(c)
    BY <1>2, CurrentHasParent
<1>4. NaturalKeys(rows) /\ NaturalKeys(rows') /\ KeysKept /\ IdsIdentify /\ release' = release
    BY <1>3 DEF DoneInv, IdInv, Upserted
<1>5. \A n : UpTo(n)' = UpTo(n)
    BY <1>4 DEF UpTo
<1>6. ASSUME NEW n \in 0..Len(Walk(release)), StoredTo(n), NEW e \in UpTo(n)
      PROVE  Stored(e)'
    <2>1. PICK i \in 1..n : e = Walk(release)[i]
        BY DEF UpTo
    <2>2. i \in 1..Len(Walk(release)) /\ n \in Nat /\ i <= n + 1
        BY <1>1, WalkTypes
    <2>3. e \in Entry /\ e \in Entries(release)
        BY <1>1, <2>1, <2>2, WalkTypes
    <2>4. Stored(e)
        BY <1>6 DEF StoredTo
    <2>5. HasParent(e)
        BY <1>1, <1>4, <1>6, <2>1, <2>2, StoredHaveParents
    <2> QED
        BY <1>3, <1>4, <2>3, <2>4, <2>5, StoredKept DEF Upserted
<1>7. Stored(c)'
    <2>1. PICK u \in rows' : IsRowOf(u, c) /\ u.value = c.value /\ u.iso3 = c.iso3
        BY <1>3 DEF Upserted
    <2>2. IsRowOf(u, c)'
        BY <1>3, <1>4, <2>1, RowOfKept
    <2>3. c \in StoredAs(c)'
        BY <1>3, <1>4 DEF StoredAs, Entries
    <2> QED
        BY <2>1, <2>2, <2>3 DEF Stored
<1>8. \A n : n = done + 1 => UpTo(n) = UpTo(done) \cup {c}
    <2>1. \A n : n = done + 1 => 1..n = (1..done) \cup {n}
        BY <1>1
    <2> QED
        BY <1>2, <2>1 DEF UpTo, Current
<1>9. done \in 0..Len(Walk(release)) /\ StoredTo(done)
    BY DEF DoneInv, TypeOK
<1> QED
    BY <1>5, <1>6, <1>7, <1>8, <1>9 DEF StoredTo

\* While neither the rows nor the release change, neither does what is stored.
LEMMA SameStored ==
    ASSUME UNCHANGED <<rows, release>>
    PROVE  /\ StoredTo(Len(Walk(release)))' <=> StoredTo(Len(Walk(release)))
           /\ done' = done => (StoredTo(done)' <=> StoredTo(done))
           /\ Walk(release)' = Walk(release)
           /\ NaturalKeys(rows)' <=> NaturalKeys(rows)
<1>1. \A e : ParentId(e)' = ParentId(e)
    BY ParentIdIsIn
<1>2. \A e : Stored(e)' <=> Stored(e)
    BY <1>1 DEF Stored, StoredAs, Entries, IsRowOf, StoredGroup, StoredCode
<1>3. UpTo(Len(Walk(release)))' = UpTo(Len(Walk(release)))
    BY DEF UpTo
<1>4. done' = done => UpTo(done)' = UpTo(done)
    BY DEF UpTo
<1> QED
    BY <1>2, <1>3, <1>4 DEF StoredTo

\* The rows an upsert writes.
LEMMA UpdateIsTyped ==
    ASSUME DoneInv, UpdateRow, ReleaseAssumption
    PROVE  rows' \subseteq RefRow
<1>1. PICK r \in rows :
          rows' = (rows \ {r}) \cup
              {[r EXCEPT !.value = Current.value, !.iso3 = Current.iso3, !.seq = seq + 1]}
    BY DEF UpdateRow
<1>2. Current \in Entry
    BY CurrentHasParent DEF UpdateRow
<1>3. Current.value \in Value /\ Current.iso3 \in Code \cup {NoKey}
    BY <1>2 DEF Entry
<1>4. rows \subseteq RefRow /\ seq + 1 \in Nat
    BY DEF DoneInv, TypeOK
<1>5. [r EXCEPT !.value = Current.value, !.iso3 = Current.iso3, !.seq = seq + 1] \in RefRow
    BY <1>1, <1>3, <1>4 DEF RefRow
<1> QED
    BY <1>1, <1>4, <1>5

LEMMA InsertIsTyped ==
    ASSUME IdInv, DoneInv, InsertRow, ReleaseAssumption
    PROVE  rows' \subseteq RefRow
<1>1. Current \in Entry /\ HasParent(Current)
    BY CurrentHasParent DEF InsertRow
<1>2. rows \subseteq RefRow /\ seq + 1 \in Nat
    BY DEF DoneInv, TypeOK
<1>3. ParentId(Current) \in Nat
    <2>1. PICK p : Linked(rows, Current, p)
        BY <1>1 DEF HasParent
    <2>2. \A r \in rows : r.id \in Nat
        BY <1>2 DEF RefRow
    <2>3. p \in Nat
        BY <2>1, <2>2 DEF Linked, NoId
    <2> QED
        BY <2>1, <2>3, LinkedIsParent, ParentIdIsIn DEF DoneInv
<1>4. Minted \in Nat
    BY MintedIsFresh DEF InsertRow, Reconciling
<1>5. /\ Current.table \in Vocabulary
      /\ StoredGroup(Current) \in Code \cup {NoKey}
      /\ Current.iso3 \in Code \cup {NoKey}
      /\ Current.value \in Value
    BY <1>1 DEF Entry, StoredGroup
<1>6. StoredCode(Current) \in Code
    BY <1>1 DEF Entry, StoredCode, ReleaseAssumption
<1>7. [id |-> Minted, table |-> Current.table, parent |-> ParentId(Current),
       group |-> StoredGroup(Current), code |-> StoredCode(Current),
       iso3 |-> Current.iso3, value |-> Current.value, seq |-> seq + 1] \in RefRow
    BY <1>2, <1>3, <1>4, <1>5, <1>6 DEF RefRow
<1>8. rows' = rows \cup
          {[id |-> Minted, table |-> Current.table, parent |-> ParentId(Current),
            group |-> StoredGroup(Current), code |-> StoredCode(Current),
            iso3 |-> Current.iso3, value |-> Current.value, seq |-> seq + 1]}
    BY DEF InsertRow
<1> QED
    BY <1>2, <1>7, <1>8

LEMMA UpsertKeepsDone ==
    ASSUME IdInv, DoneInv, RowIsCurrent \/ UpdateRow \/ InsertRow, ReleaseAssumption
    PROVE  DoneInv'
<1>1. /\ Reconciling
      /\ done' = done + 1
      /\ UNCHANGED <<chain, bottles, pc, release, made, settled, stops>>
      /\ seq' \in {seq, seq + 1}
      /\ tick' \in {tick, tick + 1}
    BY DEF RowIsCurrent, UpdateRow, InsertRow, Reconciled
<1>2. Upserted(Current)
    BY FoundUpserts, UpdateUpserts, InsertUpserts DEF DoneInv
<1>3. \A n \in 0..Len(Walk(release)) :
          /\ StoredTo(n) => StoredTo(n)'
          /\ n = done + 1 => StoredTo(n)'
    BY <1>1, <1>2, UpsertStores
<1>4. /\ Len(Walk(release)) \in Nat /\ done \in Nat
      /\ done + 1 \in 0..Len(Walk(release)) /\ Len(Walk(release)) \in 0..Len(Walk(release))
    BY <1>1, WalkTypes DEF DoneInv, TypeOK, Reconciling
<1>5. rows' \subseteq RefRow
    <2>1. CASE RowIsCurrent
        BY <2>1 DEF RowIsCurrent, DoneInv, TypeOK
    <2> QED
        BY <2>1, UpdateIsTyped, InsertIsTyped
<1>6. TypeOK'
    BY <1>1, <1>4, <1>5 DEF DoneInv, TypeOK
<1>7. Stage'
    BY <1>1, <1>4 DEF Stage, Reconciling
<1>8. StoredTo(done)'
    <2>1. PICK n : n = done + 1
        OBVIOUS
    <2>2. StoredTo(n)' /\ done' = n
        BY <1>1, <1>3, <1>4, <2>1
    <2> QED
        BY <2>2 DEF StoredTo, UpTo
<1>9. (settled => StoredTo(Len(Walk(release))))'
    <2> SUFFICES ASSUME settled PROVE StoredTo(Len(Walk(release)))'
        BY <1>1
    <2>1. PICK n : n = Len(Walk(release))
        OBVIOUS
    <2>2. StoredTo(n)' /\ Len(Walk(release')) = n
        BY <1>1, <1>3, <1>4, <2>1 DEF DoneInv
    <2> QED
        BY <2>2 DEF StoredTo, UpTo
<1>10. NaturalKeys(rows)'
    BY <1>2 DEF Upserted
<1> QED
    BY <1>6, <1>7, <1>8, <1>9, <1>10 DEF DoneInv

LEMMA ExitKeepsDone ==
    ASSUME DoneInv, Exit, settled' = settled, stops' \in 0..MaxStops
    PROVE  DoneInv'
<1>1. /\ UNCHANGED <<rows, chain, bottles, seq, release, settled>>
      /\ pc' = "down" /\ done' = 0 /\ tick' = 0 /\ made' = 0
    BY DEF Exit, database, NoId
<1>2. /\ StoredTo(0)'
      /\ StoredTo(Len(Walk(release)))' <=> StoredTo(Len(Walk(release)))
      /\ NaturalKeys(rows)' <=> NaturalKeys(rows)
      /\ Walk(release)' = Walk(release)
    BY <1>1, SameStored DEF StoredTo, UpTo
<1>3. TypeOK'
    BY <1>1, <1>2 DEF DoneInv, TypeOK
<1> QED
    BY <1>1, <1>2, <1>3 DEF DoneInv, Stage

\* The steps that touch neither the rows, the release nor the place in the walk.
LEMMA QuietKeepsDone ==
    ASSUME DoneInv, TypeOK', Stage', UNCHANGED <<rows, release, done>>,
           settled' => settled \/ done = Len(Walk(release))
    PROVE  DoneInv'
<1>1. /\ StoredTo(Len(Walk(release)))' <=> StoredTo(Len(Walk(release)))
      /\ StoredTo(done)' <=> StoredTo(done)
      /\ NaturalKeys(rows)' <=> NaturalKeys(rows)
    BY SameStored
<1>2. StoredTo(done) /\ (settled' => StoredTo(Len(Walk(release))))
    BY DEF DoneInv
<1> QED
    BY <1>1, <1>2 DEF DoneInv

LEMMA StepKeepsDone ==
    ASSUME IdInv, DoneInv, [Next]_vars, ReleaseAssumption
    PROVE  DoneInv'
<1> USE DEF DoneInv
<1>1. CASE Start
    <2>1. ResumeTick \in Nat
        BY HighestTickBounds DEF ResumeTick, IdInv, IdsAreNumbers
    <2>2. TypeOK' /\ Stage'
        BY <1>1, <2>1 DEF Start, database, TypeOK, Stage
    <2> QED
        BY <1>1, <2>2, QuietKeepsDone DEF Start, database
<1>2. CASE RowIsCurrent \/ UpdateRow \/ InsertRow
    BY <1>2, UpsertKeepsDone
<1>3. CASE WriteRefused \/ NoCountry \/ Stop
    <2>1. stops' \in 0..MaxStops
        BY <1>3 DEF WriteRefused, NoCountry, Stop, TypeOK, ReleaseAssumption
    <2> QED
        BY <1>3, <2>1, ExitKeepsDone DEF WriteRefused, NoCountry, Stop
<1>4. CASE ReferenceDone
    <2>1. TypeOK' /\ Stage'
        BY <1>4 DEF ReferenceDone, database, TypeOK, Stage
    <2> QED
        BY <1>4, <2>1, QuietKeepsDone DEF ReferenceDone, database
<1>5. CASE FindLot
    <2>1. \A c \in Lots : c.id \in Nat
        BY DEF Lots, TypeOK, ChainRow
    <2>2. TypeOK' /\ Stage'
        BY <1>5, <2>1 DEF FindLot, database, TypeOK, Stage
    <2>3. done = Len(Walk(release))
        BY <1>5 DEF FindLot, Stage
    <2> QED
        BY <1>5, <2>2, <2>3, QuietKeepsDone DEF FindLot, database
<1>6. CASE FindCountry
    <2>1. \A r \in Countries : r.id \in Nat
        BY DEF Countries, TypeOK, RefRow
    <2>2. TypeOK' /\ Stage'
        BY <1>6, <2>1 DEF FindCountry, database, TypeOK, Stage, DemoTables
    <2> QED
        BY <1>6, <2>2, QuietKeepsDone DEF FindCountry, database
<1>7. CASE InsertDemo
    <2>1. pc \in DemoTables /\ pc \notin {"down", "reconcile"} /\ Minted \in Nat
        BY <1>7, MintedIsFresh DEF InsertDemo, DemoTables
    <2>2. pc' \in DemoTables \cup {"serving"}
        BY <1>7, <2>1, Stages DEF InsertDemo, DemoTables
    <2>3. [id |-> Minted, table |-> pc, of |-> made] \in ChainRow
        BY <2>1 DEF ChainRow, TypeOK
    <2>4. TypeOK'
        BY <1>7, <2>1, <2>2, <2>3 DEF InsertDemo, TypeOK
    <2>5. Stage'
        BY <1>7, <2>1, <2>2 DEF InsertDemo, Stage, DemoTables
    <2>6. done = Len(Walk(release))
        BY <2>1 DEF Stage
    <2> QED
        BY <1>7, <2>4, <2>5, <2>6, QuietKeepsDone DEF InsertDemo
<1>8. CASE AddBottle
    <2>1. Minted \in Nat
        BY <1>8, MintedIsFresh DEF AddBottle
    <2>2. TypeOK' /\ Stage'
        BY <1>8, <2>1 DEF AddBottle, TypeOK, Stage
    <2> QED
        BY <1>8, <2>2, QuietKeepsDone DEF AddBottle
<1>9. CASE PushBottle
    <2>1. \A t \in ClientTick : Pack(t, CLIENT_SOURCE) \in Nat
        BY PackUnpack, Sources DEF ReleaseAssumption
    <2>2. TypeOK' /\ Stage'
        BY <1>9, <2>1 DEF PushBottle, process, TypeOK, Stage
    <2> QED
        BY <1>9, <2>2, QuietKeepsDone DEF PushBottle, process
<1>10. CASE Deploy
    <2>1. /\ UNCHANGED <<rows, chain, bottles, seq, pc, done, tick, made>>
          /\ pc = "down" /\ done = 0 /\ settled' = FALSE
          /\ release' \in Releases /\ stops' \in 0..MaxStops
        BY <1>10 DEF Deploy, database, Stage, TypeOK, ReleaseAssumption
    <2>2. TypeOK'
        <3>1. Len(Walk(release')) \in Nat
            BY <2>1, WalkMeetsParents
        <3>2. (done \in 0..Len(Walk(release)))'
            BY <2>1, <3>1
        <3> QED
            BY <2>1, <3>2 DEF TypeOK
    <2>3. StoredTo(done)'
        BY <2>1 DEF StoredTo, UpTo
    <2> QED
        BY <2>1, <2>2, <2>3 DEF Stage, NaturalKeys
<1>11. CASE UNCHANGED vars
    <2>1. TypeOK' /\ Stage'
        BY <1>11 DEF vars, database, process, TypeOK, Stage
    <2> QED
        BY <1>11, <2>1, QuietKeepsDone DEF vars, database, process
<1> QED
    BY <1>1, <1>2, <1>3, <1>4, <1>5, <1>6, <1>7, <1>8, <1>9, <1>10, <1>11 DEF Next, StartUp

LEMMA AlwaysDone == Spec => [](IdInv /\ DoneInv)
<1>1. Init => IdInv /\ DoneInv
    <2> SUFFICES ASSUME Init PROVE IdInv /\ DoneInv
        OBVIOUS
    <2>1. /\ rows = {} /\ chain = {} /\ Ids = {} /\ tick = 0 /\ pc = "down" /\ bottles = {}
          /\ seq = 0 /\ release \in Releases /\ done = 0 /\ made = 0 /\ settled = FALSE /\ stops = 0
        BY DEF Init, Ids, NoId
    <2>2. IdInv
        BY <2>1 DEF IdInv, RowsAreRows, IdsAreNumbers, FactoryIsAhead, IdsIdentify
    <2>3. TypeOK
        <3>1. Len(Walk(release)) \in Nat
            BY <2>1, WalkTypes, ReleaseAssumption
        <3>2. done \in 0..Len(Walk(release)) /\ stops \in 0..MaxStops
            BY <2>1, <3>1, ReleaseAssumption DEF ReleaseAssumption
        <3> QED
            BY <2>1, <3>2 DEF TypeOK
    <2>4. StoredTo(done) /\ NaturalKeys(rows) /\ Stage
        BY <2>1 DEF StoredTo, UpTo, NaturalKeys, Stage
    <2> QED
        BY <2>1, <2>2, <2>3, <2>4 DEF DoneInv
<1>2. IdInv /\ DoneInv /\ [Next]_vars => (IdInv /\ DoneInv)'
    BY StepKeepsIds, StepKeepsDone, ReleaseAssumption
<1> QED
    BY <1>1, <1>2, PTL DEF Spec

-----------------------------------------------------------------------------
(* What follows from it.                                                    *)

\* Rows, ids, parents and the place in the walk have their types: in
\* particular the parent of every row stored is the id of a row.
THEOREM StartIsWellTyped == Spec => []TypeOK
<1>1. DoneInv => TypeOK
    BY DEF DoneInv
<1> QED
    BY <1>1, AlwaysDone, PTL

\* The walk of any coherent release has met the parent of an entry when it
\* comes to the entry, in an order that is not the one load checked.
THEOREM MapsAlwaysHaveParents == Spec => []MapsHaveParents
<1>1. DoneInv => MapsHaveParents
    <2> SUFFICES ASSUME DoneInv, Reconciling, Refers(Current)
                 PROVE  \E i \in 1..done : Key(Walk(release)[i]) = ParentKey(Current)
        BY DEF MapsHaveParents
    <2>1. release \in Releases /\ done \in Nat /\ done + 1 \in 1..Len(Walk(release))
        BY WalkTypes, ReleaseAssumption DEF DoneInv, TypeOK, Reconciling
    <2>2. PICK j \in 1..Len(Walk(release)) :
              j < done + 1 /\ Key(Walk(release)[j]) = ParentKey(Current)
        BY <2>1, WalkMeetsParents, ReleaseAssumption DEF Current
    <2>3. j \in 1..done
        BY <2>1, <2>2
    <2> QED
        BY <2>2, <2>3
<1> QED
    BY <1>1, AlwaysDone, PTL

\* A server that serves has one row for every entry of its release, with the
\* contents of the entry or of one stored under the same key.
THEOREM AlwaysServesItsRelease == Spec => []ServesItsRelease
<1>1. DoneInv => ServesItsRelease
    <2> SUFFICES ASSUME DoneInv, pc = "serving", NEW e \in Entries(release)
                 PROVE  /\ Stored(e)
                        /\ \A r, q \in rows : IsRowOf(r, e) /\ IsRowOf(q, e) => r = q
        BY DEF ServesItsRelease, Stored
    <2>1. done = Len(Walk(release))
        BY DEF DoneInv, Stage
    <2>2. Stored(e)
        BY <2>1 DEF DoneInv, StoredTo, UpTo, Entries
    <2>3. \A r, q \in rows : IsRowOf(r, e) /\ IsRowOf(q, e) => r = q
        BY DEF DoneInv, NaturalKeys, IsRowOf
    <2> QED
        BY <2>2, <2>3
<1> QED
    BY <1>1, AlwaysDone, PTL

\* A release that has served makes no reference row and rewrites none, except
\* one that two of its entries are stored as, or whose iso3 is padded.
THEOREM ChurnIsConfined == Spec => ChurnConfined
<1> DEFINE Quiet ==
               settled =>
                   /\ {r.id : r \in rows'} = {r.id : r \in rows}
                   /\ \A r \in rows \ rows' : \E e \in Entries(release) :
                          IsRowOf(r, e) /\ (StoredAs(e) # {e} \/ e.iso3 \in Padded)
<1>1. IdInv /\ DoneInv /\ [Next]_vars => Quiet
    <2> SUFFICES ASSUME IdInv, DoneInv, [Next]_vars, settled PROVE Quiet
        OBVIOUS
    <2>1. CASE Reconciling /\ (UpdateRow \/ InsertRow)
        <3>1. Current \in Entries(release)
            BY <2>1, CurrentHasParent, ReleaseAssumption
        <3>2. PICK q \in rows, d \in StoredAs(Current) :
                  IsRowOf(q, Current) /\ q.value = d.value /\ q.iso3 = d.iso3
            BY <3>1 DEF DoneInv, StoredTo, UpTo, Entries, Stored
        <3>3. UpdateRow
            BY <2>1, <3>2 DEF InsertRow
        <3>4. PICK r \in rows :
                  /\ IsRowOf(r, Current)
                  /\ Differs(r, Current)
                  /\ rows' = (rows \ {r}) \cup
                         {[r EXCEPT !.value = Current.value, !.iso3 = Current.iso3, !.seq = seq + 1]}
            BY <3>3 DEF UpdateRow
        <3>5. r = q
            BY <3>2, <3>4 DEF DoneInv, NaturalKeys, IsRowOf
        <3>6. d # Current \/ Current.iso3 \in Padded
            BY <3>2, <3>4, <3>5 DEF Differs
        <3>7. StoredAs(Current) # {Current} \/ Current.iso3 \in Padded
            BY <3>2, <3>6
        <3>8. [r EXCEPT !.value = Current.value, !.iso3 = Current.iso3, !.seq = seq + 1].id = r.id
            <4>1. IsRow(r)
                BY <3>4 DEF IdInv, RowsAreRows
            <4> QED
                BY <4>1 DEF IsRow, Fields
        <3>9. {p.id : p \in rows'} = {p.id : p \in rows}
            BY <3>4, <3>8
        <3> QED
            BY <3>1, <3>4, <3>7, <3>9
    <2>2. CASE rows' = rows
        BY <2>2
    <2>3. (Reconciling /\ (UpdateRow \/ InsertRow)) \/ rows' = rows
        BY DEF Next, StartUp, Start, UpdateRow, InsertRow, RowIsCurrent, Reconciled, WriteRefused,
               NoCountry, Stop, Exit, ReferenceDone, FindLot, FindCountry, InsertDemo, AddBottle,
               PushBottle, Deploy, vars, database, process
    <2> QED
        BY <2>1, <2>2, <2>3
<1>2. [](IdInv /\ DoneInv) /\ [][Next]_vars => [][Quiet]_vars
    BY <1>1, PTL
<1> QED
    BY <1>2, AlwaysDone, PTL DEF Spec, ChurnConfined
=============================================================================

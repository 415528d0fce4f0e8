--------------------------- MODULE RackPreviewProofs ---------------------------
(***************************************************************************)
(* Proofs about the design preview's interactions.  The five properties     *)
(* hold together, with what ties the dialogs and the panels to the page     *)
(* shown and what Undo may still take away from an open panel.              *)
(***************************************************************************)
EXTENDS RackPreview, FiniteSetTheorems, TLAPS

-----------------------------------------------------------------------------
(***************************************************************************)
(* filter: the places kept are counted, and the k-th of them is found.      *)
(***************************************************************************)
Kept(seq, S) == {i \in DOMAIN seq : seq[i] \in S}
UpTo(I, i) == {j \in I : j <= i}
Rank(I, i) == Cardinality(UpTo(I, i))
Nth(I, k) == CHOOSE i \in I : Rank(I, i) = k

LEMMA KeepIs ==
    ASSUME NEW seq, NEW S
    PROVE  Keep(seq, S) = [k \in 1 .. Cardinality(Kept(seq, S)) |-> seq[Nth(Kept(seq, S), k)]]
    BY DEF Keep, Kept, UpTo, Rank, Nth

\* The places are told apart by how many there are up to each.
LEMMA Ranks ==
    ASSUME NEW n \in Nat, NEW I \in SUBSET (1 .. n)
    PROVE  /\ Cardinality(I) \in 0 .. n
           /\ \A i \in I : Rank(I, i) \in 1 .. Cardinality(I)
           /\ \A i, j \in I : Rank(I, i) = Rank(I, j) => i = j
<1>1. IsFiniteSet(1 .. n) /\ Cardinality(1 .. n) = n
    BY FS_Interval
<1>2. IsFiniteSet(I) /\ Cardinality(I) \in Nat /\ Cardinality(I) <= n
    BY <1>1, FS_Subset, FS_CardinalityType
<1>3. ASSUME NEW i \in I PROVE IsFiniteSet(UpTo(I, i)) /\ Rank(I, i) \in 1 .. Cardinality(I)
    <2>1. UpTo(I, i) \in SUBSET I /\ i \in UpTo(I, i)
        BY DEF UpTo
    <2>2. /\ IsFiniteSet(UpTo(I, i)) /\ Cardinality(UpTo(I, i)) \in Nat
          /\ Cardinality(UpTo(I, i)) <= Cardinality(I)
        BY <1>2, <2>1, FS_Subset, FS_CardinalityType
    <2>3. Cardinality(UpTo(I, i)) # 0
        BY <2>1, <2>2, FS_EmptySet
    <2> QED
        BY <1>2, <2>2, <2>3 DEF Rank
<1>4. ASSUME NEW i \in I, NEW j \in I, i < j PROVE Rank(I, i) # Rank(I, j)
    <2>1. UpTo(I, i) \in SUBSET UpTo(I, j)
        <3>1. \A x \in I : x \in Int
            OBVIOUS
        <3>2. \A x \in I : x <= i => x <= j
            BY <1>4, <3>1
        <3> QED
            BY <3>2 DEF UpTo
    <2>2. j \in UpTo(I, j) /\ j \notin UpTo(I, i)
        BY <1>4 DEF UpTo
    <2>3. Cardinality(UpTo(I, j)) # Cardinality(UpTo(I, i))
        BY <1>3, <2>1, <2>2, FS_Subset
    <2> QED
        BY <2>3 DEF Rank
<1>5. ASSUME NEW i \in I, NEW j \in I, Rank(I, i) = Rank(I, j) PROVE i = j
    <2>1. i \in Int /\ j \in Int
        OBVIOUS
    <2> QED
        BY <1>4, <1>5, <2>1
<1> QED
    BY <1>2, <1>3, <1>5

\* Every count up to the number of places is the count of one of them.
LEMMA Nths ==
    ASSUME NEW n \in Nat, NEW I \in SUBSET (1 .. n), NEW k \in 1 .. Cardinality(I)
    PROVE  Nth(I, k) \in I /\ Rank(I, Nth(I, k)) = k
<1> DEFINE f == [i \in I |-> Rank(I, i)]
<1>1. f \in Injection(I, 1 .. Cardinality(I))
    BY Ranks DEF Injection, IsInjective
<1>2. Cardinality(I) \in Nat
    BY Ranks
<1>3. /\ IsFiniteSet(1 .. Cardinality(I))
      /\ Cardinality(1 .. Cardinality(I)) = Cardinality(I)
    BY <1>2, FS_Interval
<1>4. f \in Surjection(I, 1 .. Cardinality(I))
    BY <1>1, <1>3, FS_Injection
<1>5. \E i \in I : Rank(I, i) = k
    BY <1>4 DEF Surjection
<1> QED
    BY <1>5 DEF Nth

LEMMA Keeps ==
    ASSUME NEW E, NEW seq \in Seq(E), NEW S
    PROVE  /\ Keep(seq, S) \in Seq(E)
           /\ Len(Keep(seq, S)) <= Len(seq)
           /\ ToSet(Keep(seq, S)) \subseteq S \cap ToSet(seq)
           /\ IsInjective(seq) => IsInjective(Keep(seq, S))
<1> DEFINE I == Kept(seq, S)
           n == Len(seq)
           m == Cardinality(I)
           keep == Keep(seq, S)
<1>1. n \in Nat /\ DOMAIN seq = 1 .. n /\ I \in SUBSET (1 .. n)
    BY DEF Kept
<1>2. m \in Nat /\ m <= n
    BY <1>1, Ranks
<1>3. keep = [k \in 1 .. m |-> seq[Nth(I, k)]]
    BY KeepIs
<1>4. ASSUME NEW k \in 1 .. m
      PROVE  /\ Nth(I, k) \in 1 .. n /\ Rank(I, Nth(I, k)) = k
             /\ seq[Nth(I, k)] \in E /\ seq[Nth(I, k)] \in S
    <2>1. Nth(I, k) \in I /\ Rank(I, Nth(I, k)) = k
        BY <1>1, Nths
    <2> QED
        BY <1>1, <2>1 DEF Kept
<1> HIDE DEF I, n, m, keep
<1>5. keep \in Seq(E) /\ Len(keep) = m /\ DOMAIN keep = 1 .. m
    BY <1>2, <1>3, <1>4
<1>6. ToSet(keep) \subseteq S \cap ToSet(seq)
    BY <1>1, <1>3, <1>4, <1>5 DEF ToSet
<1>7. ASSUME IsInjective(seq) PROVE IsInjective(keep)
    <2> SUFFICES ASSUME NEW j \in 1 .. m, NEW k \in 1 .. m, keep[j] = keep[k] PROVE j = k
        BY <1>5 DEF IsInjective
    <2>1. Nth(I, j) = Nth(I, k)
        BY <1>1, <1>3, <1>4, <1>7 DEF IsInjective
    <2> QED
        BY <1>4, <2>1
<1> QED
    BY <1>2, <1>5, <1>6, <1>7 DEF n, keep

\* Where what is kept comes first, the filter is a prefix.
LEMMA KeepsThePrefix ==
    ASSUME NEW E, NEW seq \in Seq(E), NEW S, NEW n \in 0 .. Len(seq),
           \A i \in 1 .. Len(seq) : seq[i] \in S <=> i <= n
    PROVE  Keep(seq, S) = SubSeq(seq, 1, n)
<1>1. n \in Nat /\ Kept(seq, S) = 1 .. n
    BY DEF Kept
<1>2. Cardinality(1 .. n) = n
    BY <1>1, FS_Interval
<1>3. ASSUME NEW k \in 1 .. n PROVE Nth(1 .. n, k) = k
    <2>1. Nth(1 .. n, k) \in 1 .. n /\ Rank(1 .. n, Nth(1 .. n, k)) = k
        BY <1>1, <1>2, Nths
    <2> DEFINE i == Nth(1 .. n, k)
    <2> HIDE DEF i
    <2>2. UpTo(1 .. n, i) = 1 .. i
        BY <2>1 DEF UpTo, i
    <2>3. Cardinality(1 .. i) = i
        BY <2>1, FS_Interval DEF i
    <2> QED
        BY <2>1, <2>2, <2>3 DEF Rank, i
<1>4. Keep(seq, S) = [k \in 1 .. n |-> seq[k]]
    BY <1>1, <1>2, <1>3, KeepIs
<1> QED
    BY <1>1, <1>4

\* slice(0, quantity)
LEMMA Slices ==
    ASSUME NEW E, NEW seq \in Seq(E), NEW q \in Nat
    PROVE  LET cut == SubSeq(seq, 1, Min({Len(seq), q})) IN
           /\ cut \in Seq(E) /\ Len(cut) <= q
           /\ ToSet(cut) \subseteq ToSet(seq)
           /\ IsInjective(seq) => IsInjective(cut)
<1> DEFINE n == Min({Len(seq), q})
           cut == SubSeq(seq, 1, n)
<1>1. n \in Nat /\ n <= q /\ n <= Len(seq)
    BY DEF Min
<1> HIDE DEF n
<1>2. cut \in Seq(E) /\ Len(cut) = n /\ \A i \in 1 .. n : cut[i] = seq[i]
    BY <1>1
<1> HIDE DEF cut
<1>3. DOMAIN cut = 1 .. n /\ 1 .. n \subseteq DOMAIN seq
    BY <1>1, <1>2
<1>4. ToSet(cut) \subseteq ToSet(seq)
    BY <1>2, <1>3 DEF ToSet
<1>5. IsInjective(seq) => IsInjective(cut)
    BY <1>2, <1>3 DEF IsInjective
<1> QED
    BY <1>1, <1>2, <1>4, <1>5 DEF n, cut

\* splice(lastIndexOf(..), 1) of what is last leaves what comes before it.
LEMMA WithoutTheLast ==
    ASSUME NEW E, NEW seq \in Seq(E), seq # <<>>
    PROVE  WithoutLast(seq, Last(seq)) = SubSeq(seq, 1, Len(seq) - 1)
<1> DEFINE n == Len(seq)
<1>1. n \in Nat /\ n >= 1
    OBVIOUS
<1>2. SelectLastInSeq(seq, LAMBDA t : t = Last(seq)) = n
    <2> DEFINE I == {i \in 1 .. n : seq[i] = Last(seq)}
    <2>1. n \in I /\ \A i \in I : i \in Int /\ n >= i
        BY <1>1 DEF Last
    <2>2. Max(I) = n
        BY <1>1, <2>1 DEF Max
    <2> QED
        BY <2>1, <2>2 DEF SelectLastInSeq
<1>3. WithoutLast(seq, Last(seq)) = SubSeq(seq, 1, n - 1) \o SubSeq(seq, n + 1, n)
    BY <1>1, <1>2 DEF WithoutLast, RemoveAt
<1>4. SubSeq(seq, n + 1, n) = <<>>
    BY <1>1
<1>5. SubSeq(seq, 1, n - 1) \in Seq(E)
    BY <1>1
<1> QED
    BY <1>3, <1>4, <1>5
-----------------------------------------------------------------------------
(***************************************************************************)
(* The invariant: the types, in the groups that change together, ...        *)
(***************************************************************************)
PanelType ==
    [request : Request, rack : {"main", "other"}, bottle : 0 .. Bottles,
     undone : BOOLEAN, chosen : Slot \cup {NoSlot}, offered : SUBSET Slot]
EntryType ==
    [rack : {"none", "main", "other"}, quantity : Quantities \cup {1}, slots : Seq(Slot)]

RouteType ==
    /\ hash \in Places /\ events \in 0 .. MaxEvents
    /\ page \in {"inventory", "add", "storage", "detail"} /\ selected \in Wine
AskingType ==
    /\ dialog \in {"none", "consume", "saved"}
    /\ consumingRackSlot \in Slot \cup {NoSlot} /\ slot \in Slot
CellarType ==
    /\ consumed \in Seq(Wine) /\ consumedslots \in [Wine -> Slot \cup {NoSlot}]
    /\ undoid \in Wine \cup {NoWine}
    /\ releasedSlots \in Seq(Slot) /\ lastReleasedSlot \in Slot \cup {NoSlot}
PanelsType ==
    /\ rackSelection \in Slot \cup {NoSlot} /\ summary \in BOOLEAN
    /\ placement \in PanelType
    /\ placement.chosen \in placement.offered \cup {NoSlot}
RackType == rackLayout \in Layouts \cup {FirstLayout}
FormType ==
    /\ entry \in EntryType /\ Len(entry.slots) <= entry.quantity
    /\ IsInjective(entry.slots)
TypeInv ==
    RouteType /\ AskingType /\ CellarType /\ PanelsType /\ RackType /\ FormType
        /\ pendingPlacement \in Request

(***************************************************************************)
(* ... what ties the pages, the dialogs and the panels together, ...        *)
(***************************************************************************)
PageInv ==
    /\ events = 0 => page = hash[1]
    /\ pendingPlacement.for # "slot"
    /\ summary => page = "storage"
    /\ dialog = "consume" => MayConsume /\ (consumingRackSlot = NoSlot => page # "storage")

(***************************************************************************)
(* ... and what an open panel can rely on: the slots that stay open even if *)
(* Undo, where it is offered, is clicked.  At most one slot offered is not  *)
(* among them.                                                              *)
(***************************************************************************)
Staying == IF undoid = NoWine THEN Len(releasedSlots) ELSE Len(releasedSlots) - 1
StaysOpen ==
    {s \in Slots(rackLayout) :
        rackLayout.empty \/ s \in OriginalOpen \/ \E i \in 1 .. Staying : s = releasedSlots[i]}
PanelInv ==
    Placing /\ placement.rack = "main" =>
        /\ page = "storage" \/ events > 0
        /\ placement.offered \subseteq Slots(rackLayout)
        /\ ~placement.undone => placement.offered \subseteq Open
        /\ \E x : placement.offered \subseteq StaysOpen \cup {x}

PreviewInv ==
    TypeInv /\ PageInv /\ ConsumptionIsReversible /\ SummaryShowsItsBottle
        /\ PanelInv /\ SavedSlotsAreOpen

LEMMA SlotsAreSlots ==
    ASSUME RackType
    PROVE  /\ Slots(rackLayout) \subseteq Slot /\ Open \subseteq Slots(rackLayout)
           /\ OtherOpen \subseteq Slot /\ Sample \subseteq Slot
           /\ \A e \in EntryType : EntryOpen(e) \subseteq Slot
<1>1. Slots(rackLayout) \subseteq Slot
    BY DEF RackType, Slot
<1>2. Open \subseteq Slots(rackLayout)
    BY DEF Open
<1>3. OtherOpen \subseteq Slot /\ Sample \subseteq Slot
    BY DEF Slot
<1>4. ASSUME NEW e \in EntryType PROVE EntryOpen(e) \subseteq Slot
    <2>1. e.rack \in {"none", "main", "other"}
        BY DEF EntryType
    <2> QED
        BY <1>1, <1>2, <1>3, <2>1 DEF EntryOpen
<1> QED
    BY <1>1, <1>2, <1>3, <1>4

LEMMA WineAtIsWine ==
    ASSUME RackType, NEW s \in Slots(rackLayout)
    PROVE  WineAt(s) \in Wine
<1>1. s[1] \in Int /\ Wines \in Nat /\ Wines > 0
    <2>1. \A n \in Int : \A x \in 0 .. n : x \in Int
        OBVIOUS
    <2> QED
    BY <2>1, PreviewAssumption DEF Slots
<1> QED
    BY <1>1 DEF WineAt, Wine

\* A panel is closed in the same way whatever the rack is.
LEMMA NoPanelIs ==
    LET closed == [request |-> NoRequest, rack |-> "main", bottle |-> 0, undone |-> FALSE,
                   chosen |-> NoSlot, offered |-> {}]
    IN  NoPanel = closed /\ NoPanel' = closed
    BY DEF NoPanel, Panel, NoRequest

LEMMA PanelFits ==
    ASSUME RackType, NEW r \in Request, r.for = "slot" => r.at \in Slot,
           NEW rack \in {"main", "other"}
    PROVE  /\ Panel(r, rack) \in PanelType
           /\ Panel(r, rack).chosen \in Panel(r, rack).offered \cup {NoSlot}
           /\ r.for # "slot" => Panel(r, rack).offered \subseteq (IF rack = "main" THEN Open ELSE OtherOpen)
           /\ r.for = "slot" => Panel(r, rack).offered = {r.at}
           /\ Panel(r, rack).request = r /\ Panel(r, rack).rack = rack
<1>1. Open \subseteq Slot /\ OtherOpen \subseteq Slot
    BY SlotsAreSlots
<1>2. r.for \in {"none", "wine", "slot"} /\ r.at \in Slot \cup {NoSlot}
    BY DEF Request
<1>3. Bottles \in Nat
    BY PreviewAssumption
<1> DEFINE p == Panel(r, rack)
           offered == CASE r.for = "none" -> {} [] r.for = "slot" -> {r.at}
                        [] r.for = "wine" -> IF rack = "main" THEN Open ELSE OtherOpen
<1>4. p = [request |-> r, rack |-> rack, bottle |-> 0, undone |-> FALSE,
           chosen |-> IF r.for = "slot" THEN r.at ELSE NoSlot, offered |-> offered]
    BY Zenon DEF Panel
<1>5. /\ r.for = "none" => offered = {}
      /\ r.for = "slot" => offered = {r.at}
      /\ r.for = "wine" => offered = IF rack = "main" THEN Open ELSE OtherOpen
    OBVIOUS
<1> HIDE DEF p, offered
<1>6. /\ p.request = r /\ p.rack = rack
      /\ p.chosen = IF r.for = "slot" THEN r.at ELSE NoSlot
      /\ p.offered = offered
    BY <1>4
<1>7. offered \subseteq Slot
    BY <1>1, <1>2, <1>5
<1>8. p \in PanelType
    BY <1>2, <1>3, <1>4, <1>7 DEF PanelType
<1> QED
    BY <1>2, <1>5, <1>6, <1>8 DEF p
LEMMA Closing ==
    ASSUME CloseRackSummary
    PROVE  PanelsType' /\ ~summary' /\ ~Placing'
<1>1. placement' = NoPanel /\ rackSelection' = NoSlot /\ summary' = FALSE
    BY DEF CloseRackSummary
<1>2. ~Placing'
    BY <1>1, NoPanelIs DEF Placing
<1>3. NoPanel \in PanelType /\ NoPanel.chosen = NoSlot
    BY NoPanelIs, PreviewAssumption DEF PanelType, Request, NoRequest
<1> QED
    BY <1>1, <1>2, <1>3 DEF PanelsType

LEMMA Starting ==
    ASSUME RackType, NEW r \in Request, r.for = "slot" => r.at \in Slot, StartPlacement(r)
    PROVE  PanelsType' /\ ~summary' /\ placement' = Panel(r, "main")
<1>1. placement' = Panel(r, "main") /\ rackSelection' = r.at /\ summary' = FALSE
    BY DEF StartPlacement
<1>2. r.at \in Slot \cup {NoSlot}
    BY DEF Request
<1>3. placement' \in PanelType /\ placement'.chosen \in placement'.offered \cup {NoSlot}
    BY <1>1, PanelFits
<1> QED
    BY <1>1, <1>2, <1>3 DEF PanelsType

-----------------------------------------------------------------------------
(***************************************************************************)
(* Each group of variables keeps its type.                                  *)
(***************************************************************************)
LEMMA RouteStep ==
    ASSUME TypeInv, PreviewNext
    PROVE  RouteType'
<1>1. RouteType /\ RackType
    BY DEF TypeInv
<1>2. ASSUME NEW h \in Places, SetHash(h) PROVE hash' \in Places /\ events' \in 0 .. MaxEvents
    BY <1>1, <1>2, PreviewAssumption DEF RouteType, SetHash
<1>3. <<"storage", NoWine>> \in Places /\ <<"inventory", NoWine>> \in Places
    BY DEF Places
<1>4. CASE AskPlacement
    <2>1. UNCHANGED route \/ (SetHash(<<"storage", NoWine>>) /\ UNCHANGED <<page, selected>>)
        BY <1>4 DEF AskPlacement
    <2> QED
        BY <1>1, <1>2, <1>3, <2>1 DEF RouteType, route
<1>5. ASSUME NEW s \in Slots(rackLayout), ClickSlot(s) PROVE RouteType'
    <2>1. WineAt(s) \in Wine
        BY <1>1, WineAtIsWine
    <2>2. UNCHANGED <<hash, events, page>> /\ selected' \in {selected, WineAt(s)}
        BY <1>5 DEF ClickSlot
    <2> QED
        BY <1>1, <2>1, <2>2 DEF RouteType
<1>6. CASE CloseDialog
    BY <1>1, <1>2, <1>3, <1>6 DEF CloseDialog, RouteType
<1>7. CASE OtherNotice
    BY <1>1, <1>2, <1>3, <1>7 DEF OtherNotice, RouteType, route
<1>8. ASSUME NEW h \in Links, GoTo(h) PROVE RouteType'
    BY <1>1, <1>2, <1>8, PreviewAssumption DEF GoTo, RouteType
<1>9. CASE Navigate
    <2>1. /\ hash[1] \in {"inventory", "add", "storage", "detail"}
          /\ hash[2] \in Wine \cup {NoWine}
        BY <1>1 DEF RouteType, Places
    <2>2. events' \in 0 .. MaxEvents
        BY <1>1, <1>9, PreviewAssumption DEF Navigate, RouteType
    <2> QED
        BY <1>1, <1>9, <2>1, <2>2 DEF Navigate, RouteType
<1>10. CASE \/ ClosePanel \/ Choose \/ ConfirmPlacement
            \/ FillIn \/ Submit
            \/ OpenConsume \/ PickSample \/ MarkConsumed \/ Undo
            \/ \E layout \in Layouts : Setup(layout)
    <2>1. UNCHANGED route
        BY <1>10 DEF ClosePanel, Choose, ConfirmPlacement, FillIn, Submit, OpenConsume,
                     PickSample, MarkConsumed, Undo, Setup
    <2> QED
        BY <1>1, <2>1 DEF RouteType, route
<1> QED
    BY <1>4, <1>5, <1>6, <1>7, <1>8, <1>9, <1>10 DEF PreviewNext

LEMMA AskingStep ==
    ASSUME TypeInv, PreviewNext
    PROVE  AskingType'
<1>1. RouteType /\ AskingType /\ PanelsType /\ RackType
    BY DEF TypeInv
<1>2. Sample \subseteq Slot /\ (CHOOSE s \in Sample : TRUE) \in Sample
    BY <1>1, SlotsAreSlots, PreviewAssumption
<1>3. CASE OpenConsume
    <2>1. TriggerSlot \in Slot \cup {NoSlot}
        BY <1>1 DEF TriggerSlot, PanelsType
    <2> QED
        BY <1>2, <1>3, <2>1 DEF OpenConsume, AskingType
<1>4. CASE PickSample
    BY <1>1, <1>2, <1>4 DEF PickSample, AskingType
<1>5. CASE MarkConsumed
    BY <1>1, <1>5 DEF MarkConsumed, AskingType
<1>6. CASE Submit \/ CloseDialog \/ Navigate
    BY <1>1, <1>6 DEF Submit, CloseDialog, Navigate, AskingType
<1>7. CASE \/ AskPlacement
           \/ \E s \in Slots(rackLayout) : ClickSlot(s)
           \/ ClosePanel \/ Choose \/ ConfirmPlacement
           \/ FillIn \/ Undo \/ OtherNotice
           \/ \E layout \in Layouts : Setup(layout)
           \/ \E h \in Links : GoTo(h)
    <2>1. UNCHANGED asking
        BY <1>7 DEF AskPlacement, ClickSlot, ClosePanel, Choose, ConfirmPlacement, FillIn,
                    Undo, OtherNotice, Setup, GoTo
    <2> QED
        BY <1>1, <2>1 DEF AskingType, asking
<1> QED
    BY <1>3, <1>4, <1>5, <1>6, <1>7 DEF PreviewNext
\* The slots released are those the signals name, so taking a wine out of one
\* and its slot out of the other leaves them alike.
LEMMA Alike ==
    ASSUME CellarType, ConsumptionIsReversible
    PROVE  /\ Len(releasedSlots) = Len(consumed) /\ Len(consumed) \in Nat
           /\ \A i \in 1 .. Len(consumed) :
                  consumed[i] \in Wine /\ releasedSlots[i] = consumedslots[consumed[i]]
           /\ \A i, j \in 1 .. Len(consumed) : consumed[i] = consumed[j] => i = j
<1>1. DOMAIN consumed = 1 .. Len(consumed) /\ Len(consumed) \in Nat
    BY DEF CellarType
<1>2. DOMAIN releasedSlots = DOMAIN consumed
    BY DEF ConsumptionIsReversible
<1>3. Len(releasedSlots) = Len(consumed)
    BY <1>1, <1>2 DEF CellarType
<1>4. \A i \in 1 .. Len(consumed) : releasedSlots[i] = consumedslots[consumed[i]]
    BY <1>1 DEF ConsumptionIsReversible
<1> QED
    BY <1>1, <1>3, <1>4 DEF CellarType, ConsumptionIsReversible, IsInjective

LEMMA MarkingStep ==
    ASSUME PreviewInv, MarkConsumed
    PROVE  CellarType' /\ ConsumptionIsReversible'
<1> DEFINE n == Len(consumed)
<1>1. CellarType /\ RouteType /\ AskingType /\ ConsumptionIsReversible
    BY DEF PreviewInv, TypeInv
<1>2. Released = slot /\ slot \in Slot /\ selected \in Wine
    BY <1>1 DEF PreviewInv, SummaryShowsItsBottle, MarkConsumed, Released, RouteType, AskingType
<1>3. \A i \in 1 .. n : consumed[i] # selected
    BY <1>1 DEF PreviewInv, PageInv, MarkConsumed, MayConsume, ToSet, CellarType
<1>4. /\ consumed' = Append(consumed, selected) /\ releasedSlots' = Append(releasedSlots, slot)
      /\ consumedslots' = [consumedslots EXCEPT ![selected] = slot]
      /\ undoid' = selected /\ lastReleasedSlot' = slot
    BY <1>2 DEF MarkConsumed
<1>5. CellarType'
    BY <1>1, <1>2, <1>4 DEF CellarType
<1>6. /\ Len(releasedSlots) = n /\ n \in Nat
      /\ \A i \in 1 .. n : consumed[i] \in Wine /\ releasedSlots[i] = consumedslots[consumed[i]]
      /\ \A i, j \in 1 .. n : consumed[i] = consumed[j] => i = j
    BY <1>1, Alike
<1>7. /\ Len(consumed') = n + 1 /\ Len(releasedSlots') = n + 1
      /\ consumed'[n + 1] = selected /\ releasedSlots'[n + 1] = slot
      /\ \A i \in 1 .. n : consumed'[i] = consumed[i] /\ releasedSlots'[i] = releasedSlots[i]
    BY <1>1, <1>4, <1>6 DEF CellarType
<1>8. /\ consumed' \in [1 .. n + 1 -> Wine] /\ releasedSlots' \in [1 .. n + 1 -> Slot]
      /\ consumed' # <<>>
    BY <1>5, <1>6, <1>7 DEF CellarType
<1>9. consumedslots'[selected] = slot
      /\ \A w \in Wine \ {selected} : consumedslots'[w] = consumedslots[w]
    BY <1>1, <1>2, <1>4 DEF CellarType
<1> HIDE DEF n
<1>10. ASSUME NEW i \in 1 .. n + 1 PROVE releasedSlots'[i] = consumedslots'[consumed'[i]]
    <2>1. CASE i = n + 1
        BY <1>7, <1>9, <2>1
    <2>2. CASE i \in 1 .. n
        BY <1>3, <1>6, <1>7, <1>9, <2>2
    <2> QED
        BY <1>6, <2>1, <2>2
<1>11. ASSUME NEW i \in 1 .. n + 1, NEW j \in 1 .. n + 1, consumed'[i] = consumed'[j]
       PROVE  i = j
    <2>1. (i = n + 1 \/ i \in 1 .. n) /\ (j = n + 1 \/ j \in 1 .. n)
        BY <1>6
    <2> QED
        BY <1>3, <1>6, <1>7, <1>11, <2>1
<1>12. releasedSlots' = [i \in DOMAIN consumed' |-> consumedslots'[consumed'[i]]]
    BY <1>8, <1>10
<1>13. IsInjective(consumed')
    BY <1>8, <1>11 DEF IsInjective
<1> QED
    BY <1>4, <1>5, <1>7, <1>8, <1>12, <1>13 DEF ConsumptionIsReversible, Last

LEMMA UndoStep ==
    ASSUME PreviewInv, Undo
    PROVE  /\ CellarType' /\ ConsumptionIsReversible'
           /\ releasedSlots' = SubSeq(releasedSlots, 1, Len(releasedSlots) - 1)
           /\ undoid' = NoWine
<1> DEFINE n == Len(consumed)
<1>1. CellarType /\ ConsumptionIsReversible
    BY DEF PreviewInv, TypeInv
<1>2. /\ Len(releasedSlots) = n /\ n \in Nat
      /\ \A i \in 1 .. n : consumed[i] \in Wine /\ releasedSlots[i] = consumedslots[consumed[i]]
      /\ \A i, j \in 1 .. n : consumed[i] = consumed[j] => i = j
    BY <1>1, Alike
<1>3. /\ consumed # <<>> /\ undoid = consumed[n] /\ undoid \in Wine
      /\ lastReleasedSlot = Last(releasedSlots)
    BY <1>1 DEF ConsumptionIsReversible, Undo, Last, CellarType
<1>4. n >= 1
    BY <1>1, <1>2, <1>3 DEF CellarType
<1>5. releasedSlots # <<>> /\ Last(releasedSlots) \in Slot
    BY <1>1, <1>2, <1>4 DEF Last, CellarType
<1>6. releasedSlots' = SubSeq(releasedSlots, 1, n - 1)
    BY <1>1, <1>2, <1>3, <1>5, WithoutTheLast, PreviewAssumption DEF Undo, CellarType
<1>7. consumed' = SubSeq(consumed, 1, n - 1)
    <2>1. \A i \in 1 .. n : consumed[i] \in Wine \ {undoid} <=> i <= n - 1
        BY <1>2, <1>3, <1>4
    <2>2. n - 1 \in 0 .. Len(consumed) /\ consumed \in Seq(Wine)
        BY <1>1, <1>2, <1>4 DEF CellarType
    <2>3. Keep(consumed, Wine \ {undoid}) = SubSeq(consumed, 1, n - 1)
        BY <2>1, <2>2, KeepsThePrefix
    <2> QED
        BY <2>3 DEF Undo
<1>8. /\ consumedslots' = [consumedslots EXCEPT ![undoid] = NoSlot]
      /\ undoid' = NoWine /\ lastReleasedSlot' = NoSlot
    BY DEF Undo
<1> HIDE DEF n
<1>9. CellarType'
    <2>1. consumed \in Seq(Wine) /\ releasedSlots \in Seq(Slot) /\ Len(consumed) = n
        BY <1>1 DEF CellarType, n
    <2>2. consumed' \in Seq(Wine)
        BY <1>2, <1>4, <1>7, <2>1
    <2>3. releasedSlots' \in Seq(Slot)
        BY <1>2, <1>4, <1>6, <2>1
    <2>4. consumedslots' \in [Wine -> Slot \cup {NoSlot}]
        BY <1>1, <1>8 DEF CellarType
    <2> QED
        BY <1>8, <2>2, <2>3, <2>4 DEF CellarType
<1>10. /\ consumed' \in [1 .. n - 1 -> Wine] /\ releasedSlots' \in [1 .. n - 1 -> Slot]
       /\ \A i \in 1 .. n - 1 : consumed'[i] = consumed[i] /\ releasedSlots'[i] = releasedSlots[i]
    <2>1. /\ consumed \in Seq(Wine) /\ releasedSlots \in Seq(Slot) /\ Len(consumed) = n
          /\ consumed' \in Seq(Wine) /\ releasedSlots' \in Seq(Slot)
        BY <1>1, <1>9 DEF CellarType, n
    <2>2. Len(consumed') = n - 1 /\ \A i \in 1 .. n - 1 : consumed'[i] = consumed[i]
        BY <1>2, <1>4, <1>7, <2>1
    <2>3. Len(releasedSlots') = n - 1 /\ \A i \in 1 .. n - 1 : releasedSlots'[i] = releasedSlots[i]
        BY <1>2, <1>4, <1>6, <2>1
    <2> QED
        BY <2>1, <2>2, <2>3
<1>11. \A w \in Wine \ {undoid} : consumedslots'[w] = consumedslots[w]
    BY <1>1, <1>8 DEF CellarType
<1>12. ASSUME NEW i \in 1 .. n - 1
       PROVE  releasedSlots'[i] = consumedslots'[consumed'[i]]
    <2>1. i \in 1 .. n /\ n \in 1 .. n /\ i # n
        BY <1>2, <1>4
    <2>2. consumed[i] \in Wine \ {undoid}
        BY <1>2, <1>3, <2>1
    <2> QED
        BY <1>2, <1>10, <1>11, <2>1, <2>2
<1>13. releasedSlots' = [i \in DOMAIN consumed' |-> consumedslots'[consumed'[i]]]
    BY <1>10, <1>12
<1>14. IsInjective(consumed')
    <2>1. DOMAIN consumed' = 1 .. n - 1 /\ \A i \in 1 .. n - 1 : i \in 1 .. n
        BY <1>2, <1>10
    <2> QED
        BY <1>2, <1>10, <2>1 DEF IsInjective
<1> QED
    BY <1>2, <1>6, <1>8, <1>9, <1>13, <1>14 DEF ConsumptionIsReversible

LEMMA CellarStep ==
    ASSUME PreviewInv, PreviewNext
    PROVE  CellarType' /\ ConsumptionIsReversible'
<1>1. CellarType /\ ConsumptionIsReversible
    BY DEF PreviewInv, TypeInv
<1>2. CASE \/ ConfirmPlacement \/ OtherNotice
           \/ \E layout \in Layouts : Setup(layout)
    <2>1. /\ UNCHANGED <<consumed, consumedslots, releasedSlots, lastReleasedSlot>>
          /\ undoid' = NoWine
        BY <1>2 DEF ConfirmPlacement, OtherNotice, Setup
    <2> QED
        BY <1>1, <2>1 DEF CellarType, ConsumptionIsReversible
<1>3. CASE \/ AskPlacement
           \/ \E s \in Slots(rackLayout) : ClickSlot(s)
           \/ ClosePanel \/ Choose
           \/ FillIn \/ Submit
           \/ OpenConsume \/ PickSample
           \/ CloseDialog
           \/ \E h \in Links : GoTo(h)
           \/ Navigate
    <2>1. UNCHANGED cellar
        BY <1>3 DEF AskPlacement, ClickSlot, ClosePanel, Choose, FillIn, Submit, OpenConsume,
                    PickSample, CloseDialog, GoTo, Navigate
    <2> QED
        BY <1>1, <2>1 DEF CellarType, ConsumptionIsReversible, cellar
<1> QED
    BY <1>2, <1>3, MarkingStep, UndoStep DEF PreviewNext
-----------------------------------------------------------------------------
(***************************************************************************)
(* The form.                                                                *)
(***************************************************************************)
LEMMA RefreshedFits ==
    ASSUME NEW e \in EntryType, IsInjective(e.slots)
    PROVE  /\ Refreshed(e) \in EntryType /\ IsInjective(Refreshed(e).slots)
           /\ Refreshed(e).rack = e.rack /\ Refreshed(e).quantity = e.quantity
           /\ Len(Refreshed(e).slots) <= e.quantity
           /\ ToSet(Refreshed(e).slots) \subseteq EntryOpen(e)
<1> DEFINE still == Keep(e.slots, EntryOpen(e))
           cut == SubSeq(still, 1, Min({Len(still), e.quantity}))
<1>1. e.slots \in Seq(Slot) /\ e.quantity \in Quantities \cup {1}
    BY DEF EntryType
<1>2. e.quantity \in Nat
    <2>1. Quantities \subseteq 0 .. 99
        BY PreviewAssumption
    <2>2. \A q \in 0 .. 99 : q \in Nat
        OBVIOUS
    <2>3. \A q \in Quantities : q \in Nat
        BY <2>1, <2>2, Zenon
    <2> QED
        BY <1>1, <2>3
<1>3. /\ still \in Seq(Slot) /\ ToSet(still) \subseteq EntryOpen(e)
      /\ IsInjective(still)
    BY <1>1, Keeps
<1>4. Refreshed(e) = [e EXCEPT !.slots = cut]
    BY DEF Refreshed
<1> HIDE DEF still
<1>5. cut \in Seq(Slot) /\ Len(cut) <= e.quantity /\ ToSet(cut) \subseteq ToSet(still)
      /\ IsInjective(cut)
    BY <1>2, <1>3, Slices
<1> HIDE DEF cut
<1>6. [e EXCEPT !.slots = cut] \in EntryType
    BY <1>5 DEF EntryType
<1>7. /\ [e EXCEPT !.slots = cut].slots = cut
      /\ [e EXCEPT !.slots = cut].rack = e.rack
      /\ [e EXCEPT !.slots = cut].quantity = e.quantity
    BY DEF EntryType
<1> QED
    BY <1>3, <1>4, <1>5, <1>6, <1>7

LEMMA PickedFits ==
    ASSUME NEW e \in EntryType, IsInjective(e.slots), NEW s \in Slot
    PROVE  /\ PickSlot(e, s) \in EntryType /\ IsInjective(PickSlot(e, s).slots)
           /\ Len(PickSlot(e, s).slots) <= PickSlot(e, s).quantity
<1>1. e.slots \in Seq(Slot)
    BY DEF EntryType
<1>2. ASSUME NEW t \in Seq(Slot), IsInjective(t)
      PROVE  /\ Refreshed([e EXCEPT !.slots = t]) \in EntryType
             /\ IsInjective(Refreshed([e EXCEPT !.slots = t]).slots)
             /\ Len(Refreshed([e EXCEPT !.slots = t]).slots)
                    <= Refreshed([e EXCEPT !.slots = t]).quantity
    <2>1. [e EXCEPT !.slots = t] \in EntryType /\ [e EXCEPT !.slots = t].slots = t
        BY DEF EntryType
    <2> QED
        BY <1>2, <2>1, RefreshedFits
<1>3. CASE s \in ToSet(e.slots)
    <2>1. Keep(e.slots, Slot \ {s}) \in Seq(Slot) /\ IsInjective(Keep(e.slots, Slot \ {s}))
        BY <1>1, Keeps
    <2> QED
        BY <1>2, <1>3, <2>1 DEF PickSlot
<1>4. CASE s \notin ToSet(e.slots)
    <2> DEFINE t == Append(e.slots, s)
               n == Len(e.slots)
    <2>1. /\ t \in Seq(Slot) /\ n \in Nat /\ DOMAIN t = 1 .. n + 1 /\ t[n + 1] = s
          /\ \A i \in 1 .. n : t[i] = e.slots[i] /\ t[i] # s
        BY <1>1, <1>4 DEF ToSet
    <2>2. \A i, j \in 1 .. n : e.slots[i] = e.slots[j] => i = j
        BY <1>1 DEF IsInjective
    <2> HIDE DEF t, n
    <2>3. ASSUME NEW i \in 1 .. n + 1, NEW j \in 1 .. n + 1, t[i] = t[j] PROVE i = j
        <3>1. (i = n + 1 \/ i \in 1 .. n) /\ (j = n + 1 \/ j \in 1 .. n)
            BY <2>1
        <3> QED
            BY <2>1, <2>2, <2>3, <3>1
    <2>4. IsInjective(t)
        BY <2>1, <2>3 DEF IsInjective
    <2> QED
        BY <1>2, <1>4, <2>1, <2>4 DEF PickSlot, t
<1> QED
    BY <1>3, <1>4

LEMMA FormStep ==
    ASSUME TypeInv, PreviewNext
    PROVE  FormType'
<1>1. entry \in EntryType /\ Len(entry.slots) <= entry.quantity /\ IsInjective(entry.slots)
    BY DEF TypeInv, FormType
<1>2. Len(Refreshed(entry).slots) <= Refreshed(entry).quantity
      /\ Refreshed(entry) \in EntryType /\ IsInjective(Refreshed(entry).slots)
    BY <1>1, RefreshedFits
<1>3. CASE FillIn
    <2>1. ASSUME NEW q \in Quantities, entry' = Refreshed([entry EXCEPT !.quantity = q])
          PROVE  FormType'
        <3>1. /\ [entry EXCEPT !.quantity = q] \in EntryType
              /\ [entry EXCEPT !.quantity = q].slots = entry.slots
            BY <1>1 DEF EntryType
        <3> QED
            BY <1>1, <2>1, <3>1, RefreshedFits DEF FormType
    <2>2. ASSUME NEW rack \in {"none", "main", "other"},
                 entry' = Refreshed([entry EXCEPT !.rack = rack, !.slots = <<>>])
          PROVE  FormType'
        <3>1. /\ [entry EXCEPT !.rack = rack, !.slots = <<>>] \in EntryType
              /\ [entry EXCEPT !.rack = rack, !.slots = <<>>].slots = <<>>
            <4>1. <<>> \in Seq(Slot)
                OBVIOUS
            <4> QED
                BY <1>1, <4>1 DEF EntryType
        <3>2. IsInjective(<<>>)
            BY DEF IsInjective
        <3> QED
            BY <2>2, <3>1, <3>2, RefreshedFits DEF FormType
    <2>3. ASSUME NEW s \in Slot, entry' = PickSlot(entry, s)
          PROVE  FormType'
        BY <1>1, <2>3, PickedFits DEF FormType
    <2> QED
        BY <1>3, <2>1, <2>2, <2>3 DEF FillIn
<1>4. CASE Submit \/ Navigate
    BY <1>1, <1>2, <1>4 DEF Submit, Navigate, FormType
<1>5. CASE \/ AskPlacement
           \/ \E s \in Slots(rackLayout) : ClickSlot(s)
           \/ ClosePanel \/ Choose \/ ConfirmPlacement
           \/ OpenConsume \/ PickSample \/ MarkConsumed \/ Undo
           \/ CloseDialog \/ OtherNotice
           \/ \E layout \in Layouts : Setup(layout)
           \/ \E h \in Links : GoTo(h)
    <2>1. UNCHANGED entry
        BY <1>5 DEF AskPlacement, ClickSlot, ClosePanel, Choose, ConfirmPlacement, OpenConsume,
                    PickSample, MarkConsumed, Undo, CloseDialog, OtherNotice, Setup, GoTo
    <2> QED
        BY <1>1, <2>1 DEF FormType
<1> QED
    BY <1>3, <1>4, <1>5 DEF PreviewNext

\* The form is confirmed as it was refreshed, and nothing is opened or filled
\* while the confirmation is shown.
LEMMA SavedStep ==
    ASSUME PreviewInv, PreviewNext
    PROVE  SavedSlotsAreOpen'
<1>1. entry \in EntryType /\ IsInjective(entry.slots)
    BY DEF PreviewInv, TypeInv, FormType
<1>2. CASE Submit
    <2>1. /\ entry' = Refreshed(entry) /\ UNCHANGED <<rackLayout, releasedSlots>>
        BY <1>2 DEF Submit, cellar
    <2>2. entry' \in EntryType /\ entry'.rack = entry.rack
        BY <1>1, <2>1, RefreshedFits
    <2>3. EntryOpen(entry)' = EntryOpen(entry)
        BY <2>1, <2>2 DEF EntryOpen, Open, Available
    <2>4. /\ IsInjective(entry'.slots) /\ Len(entry'.slots) <= entry'.quantity
          /\ ToSet(entry'.slots) \subseteq EntryOpen(entry)
        BY <1>1, <2>1, RefreshedFits
    <2> QED
        BY <2>3, <2>4 DEF SavedSlotsAreOpen
<1>3. CASE CloseDialog \/ Navigate \/ OpenConsume \/ MarkConsumed
    <2>1. dialog' # "saved"
        BY <1>3 DEF CloseDialog, Navigate, OpenConsume, MarkConsumed
    <2> QED
        BY <2>1 DEF SavedSlotsAreOpen
<1>4. CASE \/ AskPlacement
           \/ \E s \in Slots(rackLayout) : ClickSlot(s)
           \/ ClosePanel \/ Choose \/ ConfirmPlacement
           \/ FillIn \/ PickSample \/ Undo \/ OtherNotice
           \/ \E layout \in Layouts : Setup(layout)
    <2>1. dialog' # "saved"
        BY <1>4 DEF AskPlacement, ClickSlot, ClosePanel, Choose, ConfirmPlacement, FillIn,
                    PickSample, Undo, OtherNotice, Setup, asking
    <2> QED
        BY <2>1 DEF SavedSlotsAreOpen
<1>5. CASE \E h \in Links : GoTo(h)
    <2>1. UNCHANGED <<dialog, entry, rackLayout, releasedSlots>>
        BY <1>5 DEF GoTo, asking, cellar
    <2>2. UNCHANGED EntryOpen(entry)
        BY <2>1 DEF EntryOpen, Open, Available
    <2> QED
        BY <2>1, <2>2 DEF PreviewInv, SavedSlotsAreOpen
<1> QED
    BY <1>2, <1>3, <1>4, <1>5 DEF PreviewNext
-----------------------------------------------------------------------------
(***************************************************************************)
(* The panels: each step leaves them, closes them or starts a request.      *)
(***************************************************************************)
AsksFor(r) == r \in Request /\ (r.for = "slot" => r.at \in Open)

LEMMA WaitingAsks ==
    ASSUME PreviewInv
    PROVE  /\ AsksFor(pendingPlacement)
           /\ AsksFor([for |-> "wine", at |-> rackSelection])
           /\ \A s \in Open : AsksFor([for |-> "slot", at |-> s])
<1>1. /\ pendingPlacement \in Request /\ pendingPlacement.for # "slot"
      /\ rackSelection \in Slot \cup {NoSlot} /\ RackType
    BY DEF PreviewInv, TypeInv, PageInv, PanelsType
<1>2. Open \subseteq Slot
    BY <1>1, SlotsAreSlots
<1> QED
    BY <1>1, <1>2 DEF AsksFor, Request

\* What a step does to the panels.
LEMMA PanelSteps ==
    ASSUME PreviewInv, PreviewNext
    PROVE  \/ UNCHANGED panels
           \/ CloseRackSummary
           \/ \E r : /\ AsksFor(r) /\ StartPlacement(r)
                     /\ UNCHANGED <<cellar, rackLayout>> /\ (page' = "storage" \/ events' > 0)
           \/ \E s \in Slots(rackLayout) : ClickSlot(s) /\ ~Available(s)
           \/ Choose
           \/ Undo
<1>1. RouteType /\ PageInv
    BY DEF PreviewInv, TypeInv
<1>2. CASE AskPlacement
    <2>1. CASE hash[1] = "storage"
        <3>1. StartPlacement([for |-> "wine", at |-> rackSelection])
            BY <1>2, <2>1 DEF AskPlacement
        <3>2. UNCHANGED <<cellar, rackLayout, route>>
            BY <1>2, <2>1 DEF AskPlacement
        <3>3. page' = "storage" \/ events' > 0
            BY <1>1, <2>1, <3>2 DEF route, PageInv, RouteType
        <3> QED
            BY <3>1, <3>2, <3>3, WaitingAsks
    <2>2. CASE hash[1] # "storage"
        BY <1>2, <2>2 DEF AskPlacement
    <2> QED
        BY <2>1, <2>2
<1>3. ASSUME NEW s \in Slots(rackLayout), ClickSlot(s), Available(s)
      PROVE  \E r : /\ AsksFor(r) /\ StartPlacement(r)
                    /\ UNCHANGED <<cellar, rackLayout>> /\ (page' = "storage" \/ events' > 0)
    <2>1. s \in Open
        BY <1>3 DEF Open
    <2>2. StartPlacement([for |-> "slot", at |-> s])
        BY <1>3 DEF ClickSlot
    <2>3. UNCHANGED <<cellar, rackLayout>> /\ page' = "storage"
        BY <1>3 DEF ClickSlot
    <2> QED
        BY <2>1, <2>2, <2>3, WaitingAsks
<1>4. CASE Navigate
    <2>1. CASE page' = "storage" /\ pendingPlacement # NoRequest
        <3>1. StartPlacement(pendingPlacement) /\ UNCHANGED <<cellar, rackLayout>>
            BY <1>4, <2>1 DEF Navigate
        <3> QED
            BY <2>1, <3>1, WaitingAsks
    <2>2. CASE ~(page' = "storage" /\ pendingPlacement # NoRequest)
        BY <1>4, <2>2 DEF Navigate
    <2> QED
        BY <2>1, <2>2
<1>5. CASE ClosePanel \/ ConfirmPlacement \/ MarkConsumed
           \/ \E layout \in Layouts : Setup(layout)
    BY <1>5 DEF ClosePanel, ConfirmPlacement, MarkConsumed, Setup
<1>6. CASE \/ FillIn \/ Submit
           \/ OpenConsume \/ PickSample
           \/ CloseDialog \/ OtherNotice
           \/ \E h \in Links : GoTo(h)
    BY <1>6 DEF FillIn, Submit, OpenConsume, PickSample, CloseDialog, OtherNotice, GoTo
<1> QED
    BY <1>2, <1>3, <1>4, <1>5, <1>6 DEF PreviewNext

\* Undo marks an open panel, and nothing else of the panels.
LEMMA UndoMarks ==
    ASSUME PreviewInv, Undo
    PROVE  /\ UNCHANGED <<route, asking, rackLayout, rackSelection, summary>>
           /\ placement' \in PanelType /\ (Placing' => Placing /\ placement'.undone)
           /\ UNCHANGED <<placement.offered, placement.chosen, placement.rack>>
<1>1. placement \in PanelType
    BY DEF PreviewInv, TypeInv, PanelsType
<1>2. placement' = IF Placing THEN [placement EXCEPT !.undone = TRUE] ELSE placement
    BY DEF Undo
<1>3. placement' \in PanelType /\ (Placing => placement'.undone)
    BY <1>1, <1>2 DEF PanelType
<1>4. UNCHANGED <<placement.offered, placement.chosen, placement.rack>>
    BY <1>1, <1>2 DEF PanelType
<1>5. Placing' => Placing
    BY <1>2, NoPanelIs DEF Placing
<1> QED
    BY <1>3, <1>4, <1>5 DEF Undo

LEMMA ChooseStep ==
    ASSUME PreviewInv, Choose
    PROVE  /\ PanelsType' /\ UNCHANGED <<route, asking, cellar, rackLayout, summary>>
           /\ \/ UNCHANGED <<placement.offered, placement.rack, placement.undone>>
              \/ \E r, rack : placement' = Panel(r, rack) /\ AsksFor(r) /\ rack \in {"main", "other"}
<1>1. /\ PanelsType /\ RackType /\ placement \in PanelType
      /\ placement.chosen \in placement.offered \cup {NoSlot}
    BY DEF PreviewInv, TypeInv, PanelsType
<1>2. UNCHANGED <<route, asking, cellar, rackLayout, rackSelection, summary>>
    BY DEF Choose
<1>3. ASSUME NEW b \in 1 .. Bottles, placement' = [placement EXCEPT !.bottle = b]
      PROVE  /\ placement' \in PanelType /\ placement'.chosen = placement.chosen
             /\ UNCHANGED <<placement.offered, placement.rack, placement.undone>>
    BY <1>1, <1>3, PreviewAssumption DEF PanelType
<1>4. ASSUME NEW rack \in {"main", "other"}, placement' = Panel(placement.request, rack),
             placement.request.for # "slot"
      PROVE  /\ placement' \in PanelType /\ placement'.chosen \in placement'.offered \cup {NoSlot}
             /\ AsksFor(placement.request)
    <2>1. placement.request \in Request
        BY <1>1 DEF PanelType
    <2> QED
        BY <1>1, <1>4, <2>1, PanelFits DEF AsksFor
<1>5. ASSUME NEW s \in placement.offered, placement' = [placement EXCEPT !.chosen = s]
      PROVE  /\ placement' \in PanelType /\ placement'.chosen \in placement'.offered
             /\ UNCHANGED <<placement.offered, placement.rack, placement.undone>>
    BY <1>1, <1>5 DEF PanelType
<1>6. \/ \E b \in 1 .. Bottles : placement' = [placement EXCEPT !.bottle = b]
      \/ /\ placement.request.for # "slot"
         /\ \E rack \in {"main", "other"} : placement' = Panel(placement.request, rack)
      \/ \E s \in placement.offered : placement' = [placement EXCEPT !.chosen = s]
    BY DEF Choose
<1> QED
    BY <1>1, <1>2, <1>3, <1>4, <1>5, <1>6 DEF PanelsType

LEMMA PanelsTypeStep ==
    ASSUME PreviewInv, PreviewNext
    PROVE  PanelsType'
<1>1. PanelsType /\ RackType
    BY DEF PreviewInv, TypeInv
<1>2. Open \subseteq Slot /\ Slots(rackLayout) \subseteq Slot
    BY <1>1, SlotsAreSlots
<1>3. CASE UNCHANGED panels
    BY <1>1, <1>3 DEF PanelsType, panels
<1>4. CASE CloseRackSummary
    BY <1>4, Closing
<1>5. ASSUME NEW r, AsksFor(r), StartPlacement(r) PROVE PanelsType'
    BY <1>1, <1>2, <1>5, Starting DEF AsksFor
<1>6. ASSUME NEW s \in Slots(rackLayout), ClickSlot(s), ~Available(s) PROVE PanelsType'
    <2>1. rackSelection' = s /\ summary' = TRUE /\ placement' = NoPanel
        BY <1>6 DEF ClickSlot
    <2>2. NoPanel \in PanelType /\ NoPanel.chosen = NoSlot
        BY NoPanelIs, PreviewAssumption DEF PanelType, Request, NoRequest
    <2> QED
        BY <1>2, <2>1, <2>2 DEF PanelsType
<1>7. CASE Choose
    BY <1>7, ChooseStep
<1>8. CASE Undo
    BY <1>1, <1>8, UndoMarks DEF PanelsType
<1> QED
    BY <1>3, <1>4, <1>5, <1>6, <1>7, <1>8, PanelSteps

LEMMA TypeStep ==
    ASSUME PreviewInv, PreviewNext
    PROVE  TypeInv'
<1>1. RouteType' /\ AskingType' /\ CellarType' /\ PanelsType' /\ FormType'
    BY RouteStep, AskingStep, CellarStep, PanelsTypeStep, FormStep DEF PreviewInv
<1>2. RackType'
    <2>1. rackLayout' = rackLayout \/ rackLayout' \in Layouts
        BY DEF PreviewNext, AskPlacement, ClickSlot, ClosePanel, Choose, ConfirmPlacement,
               FillIn, Submit, OpenConsume, PickSample, MarkConsumed, Undo, CloseDialog,
               OtherNotice, Setup, GoTo, Navigate
    <2> QED
        BY <2>1 DEF PreviewInv, TypeInv, RackType
<1>3. pendingPlacement' \in Request
    <2>1. pendingPlacement' \in {pendingPlacement, NoRequest,
                                 [for |-> "wine", at |-> rackSelection]}
        BY DEF PreviewNext, AskPlacement, ClickSlot, ClosePanel, Choose, ConfirmPlacement,
               FillIn, Submit, OpenConsume, PickSample, MarkConsumed, Undo, CloseDialog,
               OtherNotice, Setup, GoTo, Navigate
    <2> QED
        BY <2>1, WaitingAsks DEF AsksFor, NoRequest, Request
<1> QED
    BY <1>1, <1>2, <1>3 DEF TypeInv
-----------------------------------------------------------------------------
(***************************************************************************)
(* Pages, dialogs and the summary.                                          *)
(***************************************************************************)
LEMMA PageStep ==
    ASSUME PreviewInv, PreviewNext
    PROVE  PageInv'
<1>1. RouteType /\ PageInv /\ RackType
    BY DEF PreviewInv, TypeInv
<1>2. events' = 0 => page' = hash'[1]
    <2>1. \/ UNCHANGED <<hash, events, page>>
          \/ UNCHANGED page /\ \E h : SetHash(h)
          \/ page' = hash[1] /\ hash' = hash
        BY DEF PreviewNext, AskPlacement, ClickSlot, ClosePanel, Choose, ConfirmPlacement,
               FillIn, Submit, OpenConsume, PickSample, MarkConsumed, Undo, CloseDialog,
               OtherNotice, Setup, GoTo, Navigate, route
    <2> QED
        BY <1>1, <2>1 DEF PageInv, SetHash, RouteType
<1>3. pendingPlacement'.for # "slot"
    <2>1. pendingPlacement' \in {pendingPlacement, NoRequest,
                                 [for |-> "wine", at |-> rackSelection]}
        BY DEF PreviewNext, AskPlacement, ClickSlot, ClosePanel, Choose, ConfirmPlacement,
               FillIn, Submit, OpenConsume, PickSample, MarkConsumed, Undo, CloseDialog,
               OtherNotice, Setup, GoTo, Navigate
    <2> QED
        BY <1>1, <2>1 DEF PageInv, NoRequest
<1>4. summary' => page' = "storage"
    <2>1. \/ UNCHANGED <<summary, page>> \/ ~summary' \/ page' = "storage"
        BY DEF PreviewNext, AskPlacement, ClickSlot, ClosePanel, Choose, ConfirmPlacement,
               FillIn, Submit, OpenConsume, PickSample, MarkConsumed, Undo, CloseDialog,
               OtherNotice, Setup, GoTo, Navigate, route, panels, StartPlacement,
               CloseRackSummary
    <2> QED
        BY <1>1, <2>1 DEF PageInv
<1>5. dialog' = "consume" =>
          MayConsume' /\ (consumingRackSlot' = NoSlot => page' # "storage")
    <2>1. CASE OpenConsume
        <3>1. /\ UNCHANGED <<page, selected, consumed>> /\ MayConsume
              /\ consumingRackSlot' = TriggerSlot
              /\ page = "storage" => summary
            BY <2>1 DEF OpenConsume, route, cellar
        <3>2. page = "storage" => TriggerSlot # NoSlot
            <4>1. summary => rackSelection \in Slot
                BY <1>1, SlotsAreSlots DEF PreviewInv, SummaryShowsItsBottle
            <4> QED
                BY <3>1, <4>1, PreviewAssumption DEF TriggerSlot
        <3> QED
            BY <3>1, <3>2 DEF MayConsume
    <2>2. CASE PickSample \/ \E h \in Links : GoTo(h)
        <3>1. UNCHANGED <<dialog, consumingRackSlot, page, selected, consumed>>
            BY <2>2 DEF PickSample, GoTo, route, asking, cellar
        <3> QED
            BY <1>1, <3>1 DEF PageInv, MayConsume
    <2>3. CASE \/ AskPlacement
               \/ \E s \in Slots(rackLayout) : ClickSlot(s)
               \/ ClosePanel \/ Choose \/ ConfirmPlacement
               \/ FillIn \/ Submit
               \/ MarkConsumed \/ Undo
               \/ CloseDialog \/ OtherNotice
               \/ \E layout \in Layouts : Setup(layout)
               \/ Navigate
        <3>1. dialog' # "consume"
            BY <2>3 DEF AskPlacement, ClickSlot, ClosePanel, Choose, ConfirmPlacement, FillIn,
                        Submit, MarkConsumed, Undo, CloseDialog, OtherNotice, Setup, Navigate,
                        asking
        <3> QED
            BY <3>1
    <2> QED
        BY <2>1, <2>2, <2>3 DEF PreviewNext
<1> QED
    BY <1>2, <1>3, <1>4, <1>5 DEF PageInv

\* The summary's slot stays taken: what it shows is left alone, or the rack only
\* loses an open slot.
LEMMA SummaryStays ==
    ASSUME PreviewInv, UNCHANGED <<rackSelection, summary, selected, rackLayout>>,
           Placing' => Placing, Open' \subseteq Open, summary'
    PROVE  rackSelection' \in (Slots(rackLayout) \ Open)' /\ selected' = WineAt(rackSelection)' /\ ~Placing'
<1>1. /\ rackSelection \in Slots(rackLayout) \ Open /\ selected = WineAt(rackSelection)
      /\ ~Placing
    BY DEF PreviewInv, SummaryShowsItsBottle
<1> QED
    BY <1>1 DEF Slots, WineAt

LEMMA PanelsStay ==
    ASSUME UNCHANGED panels
    PROVE  UNCHANGED <<rackSelection, summary>> /\ (Placing' <=> Placing)
    BY NoPanelIs DEF Placing, panels

LEMMA SummaryStep ==
    ASSUME PreviewInv, PreviewNext
    PROVE  SummaryShowsItsBottle'
<1>1. SummaryShowsItsBottle /\ PageInv /\ RackType
    BY DEF PreviewInv, TypeInv
<1>2. ASSUME ~summary', dialog' # "consume" PROVE SummaryShowsItsBottle'
    BY <1>2 DEF SummaryShowsItsBottle
<1>3. CASE \/ ClosePanel \/ ConfirmPlacement \/ Navigate
           \/ \E layout \in Layouts : Setup(layout)
    <2>1. ~summary' /\ dialog' # "consume"
        BY <1>3 DEF ClosePanel, ConfirmPlacement, Navigate, Setup, CloseRackSummary,
                    StartPlacement, asking
    <2> QED
        BY <1>2, <2>1
<1>4. CASE AskPlacement \/ OtherNotice \/ Submit \/ CloseDialog \/ FillIn
    <2>1. dialog' # "consume"
        BY <1>4 DEF AskPlacement, OtherNotice, Submit, CloseDialog, FillIn, asking
    <2>2. ~summary' \/ UNCHANGED <<panels, selected, rackLayout, releasedSlots>>
        BY <1>4 DEF AskPlacement, OtherNotice, Submit, CloseDialog, FillIn, StartPlacement,
                    cellar, route
    <2>3. CASE UNCHANGED <<panels, selected, rackLayout, releasedSlots>>
        <3>1. Open' = Open
            BY <2>3 DEF Open, Available, Slots
        <3> QED
            BY <2>1, <2>3, <3>1, PanelsStay, SummaryStays DEF SummaryShowsItsBottle
    <2> QED
        BY <1>2, <2>1, <2>2, <2>3
<1>5. ASSUME NEW s \in Slots(rackLayout), ClickSlot(s) PROVE SummaryShowsItsBottle'
    <2>1. dialog' # "consume" /\ UNCHANGED <<rackLayout, releasedSlots>>
        BY <1>5 DEF ClickSlot, asking, cellar
    <2>2. CASE Available(s)
        BY <1>2, <1>5, <2>1, <2>2 DEF ClickSlot, StartPlacement
    <2>3. CASE ~Available(s)
        <3>1. rackSelection' = s /\ placement' = NoPanel /\ selected' = WineAt(s)
            BY <1>5, <2>3 DEF ClickSlot
        <3>2. s \in Slots(rackLayout) \ Open
            BY <2>3 DEF Open
        <3>3. Open' = Open /\ Slots(rackLayout)' = Slots(rackLayout)
            BY <2>1 DEF Open, Available, Slots
        <3>4. ~Placing'
            BY <3>1, NoPanelIs DEF Placing
        <3> QED
            BY <2>1, <3>1, <3>2, <3>3, <3>4 DEF SummaryShowsItsBottle, WineAt
    <2> QED
        BY <2>2, <2>3
<1>6. CASE Choose
    <2>1. dialog' # "consume" /\ ~summary'
        BY <1>1, <1>6 DEF Choose, asking, SummaryShowsItsBottle
    <2> QED
        BY <1>2, <2>1
<1>7. CASE Undo
    <2>1. /\ UNCHANGED <<rackSelection, summary, selected, rackLayout>>
          /\ (Placing' => Placing) /\ dialog' # "consume"
        BY <1>7, UndoMarks DEF Undo, asking, route
    <2>2. /\ releasedSlots' = SubSeq(releasedSlots, 1, Len(releasedSlots) - 1)
          /\ releasedSlots \in Seq(Slot)
        BY <1>7, UndoStep DEF PreviewInv, TypeInv, CellarType
    <2>3. ToSet(releasedSlots') \subseteq ToSet(releasedSlots)
        BY <2>2 DEF ToSet
    <2>4. Open' \subseteq Open
        BY <2>1, <2>3 DEF Open, Available, Slots
    <2> QED
        BY <2>1, <2>4, SummaryStays DEF SummaryShowsItsBottle
<1>8. CASE OpenConsume \/ PickSample \/ \E h \in Links : GoTo(h)
    <2>1. UNCHANGED <<panels, selected, rackLayout, releasedSlots>>
        BY <1>8 DEF OpenConsume, PickSample, GoTo, route, cellar
    <2>2. Open' = Open
        BY <2>1 DEF Open, Available, Slots
    <2>3. dialog' = "consume" /\ consumingRackSlot' # NoSlot =>
              summary' /\ slot' = rackSelection' /\ consumingRackSlot' = rackSelection'
        <3>1. CASE OpenConsume
            BY <1>1, <2>1, <3>1 DEF OpenConsume, TriggerSlot, panels
        <3>2. CASE PickSample \/ \E h \in Links : GoTo(h)
            BY <1>1, <2>1, <3>2 DEF PickSample, GoTo, asking, panels, SummaryShowsItsBottle
        <3> QED
            BY <1>8, <3>1, <3>2
    <2> QED
        BY <2>1, <2>2, <2>3, PanelsStay, SummaryStays DEF SummaryShowsItsBottle
<1>9. CASE MarkConsumed
    <2>1. dialog' # "consume"
        BY <1>9 DEF MarkConsumed
    <2>2. ~summary'
        BY <1>1, <1>9 DEF MarkConsumed, PageInv, CloseRackSummary, panels
    <2> QED
        BY <1>2, <2>1, <2>2
<1> QED
    BY <1>3, <1>4, <1>5, <1>6, <1>7, <1>8, <1>9 DEF PreviewNext
-----------------------------------------------------------------------------
(***************************************************************************)
(* The placement panel.                                                     *)
(***************************************************************************)
LEMMA StayingIsOpen ==
    ASSUME CellarType
    PROVE  StaysOpen \subseteq Open /\ \E x : Open \subseteq StaysOpen \cup {x}
<1> DEFINE n == Len(releasedSlots)
<1>1. n \in Nat /\ DOMAIN releasedSlots = 1 .. n /\ Staying \in {n, n - 1}
    BY DEF CellarType, Staying
<1>2. \A i \in 1 .. Staying : i \in 1 .. n
    BY <1>1
<1>3. StaysOpen \subseteq Open
    BY <1>1, <1>2 DEF StaysOpen, Open, Available, ToSet
<1>4. ASSUME NEW i \in 1 .. n PROVE i \in 1 .. Staying \/ i = n
    <2>1. CASE Staying = n
        BY <2>1
    <2>2. CASE Staying = n - 1
        <3>1. i \in Int /\ 1 <= i /\ i <= n /\ n \in Int
            BY <1>1
        <3> HIDE DEF n
        <3>2. i = n \/ i \in 1 .. n - 1
            BY <3>1
        <3> QED
            BY <2>2, <3>2
    <2> QED
        BY <1>1, <2>1, <2>2
<1>5. Open \subseteq StaysOpen \cup {releasedSlots[n]}
    BY <1>1, <1>4 DEF StaysOpen, Open, Available, ToSet
<1> QED
    BY <1>3, <1>5

\* No step but Setup, which closes the panel, takes a slot away from these.
LEMMA StaysOpenGrows ==
    ASSUME PreviewInv, PreviewNext, UNCHANGED rackLayout
    PROVE  StaysOpen \subseteq StaysOpen'
<1>1. CellarType /\ RouteType
    BY DEF PreviewInv, TypeInv
<1>2. SUFFICES \A i \in 1 .. Staying : i \in 1 .. Staying' /\ releasedSlots'[i] = releasedSlots[i]
    BY DEF StaysOpen, Slots
<1> DEFINE n == Len(releasedSlots)
<1>3. n \in Nat /\ releasedSlots \in Seq(Slot)
    BY <1>1 DEF CellarType
<1>4. CASE MarkConsumed
    <2>1. releasedSlots' = Append(releasedSlots, Released) /\ undoid' # NoWine
        BY <1>1, <1>4 DEF MarkConsumed, RouteType, Wine, NoWine
    <2>2. Len(releasedSlots') = n + 1 /\ \A i \in 1 .. n : releasedSlots'[i] = releasedSlots[i]
        BY <1>3, <2>1
    <2>3. Staying' = n /\ Staying \in {n, n - 1}
        BY <1>3, <2>1, <2>2 DEF Staying
    <2> QED
        BY <1>3, <2>2, <2>3
<1>5. CASE Undo
    <2>1. /\ releasedSlots' = SubSeq(releasedSlots, 1, n - 1)
          /\ undoid # NoWine /\ undoid' = NoWine
        BY <1>5, UndoStep DEF Undo
    <2>2. n >= 1
        BY <1>1, <1>3, <2>1, Alike DEF PreviewInv, ConsumptionIsReversible, CellarType
    <2>3. /\ Len(releasedSlots') = n - 1
          /\ \A i \in 1 .. n - 1 : releasedSlots'[i] = releasedSlots[i]
        <3>1. n - 1 \in Nat /\ n - 1 <= Len(releasedSlots)
            BY <1>3, <2>2
        <3> HIDE DEF n
        <3> QED
            BY <1>3, <2>1, <3>1
    <2>4. Staying' = n - 1 /\ Staying = n - 1
        BY <2>1, <2>3 DEF Staying
    <2> QED
        BY <2>3, <2>4
<1>6. CASE \/ AskPlacement
           \/ \E s \in Slots(rackLayout) : ClickSlot(s)
           \/ ClosePanel \/ Choose \/ ConfirmPlacement
           \/ FillIn \/ Submit
           \/ OpenConsume \/ PickSample
           \/ CloseDialog \/ OtherNotice
           \/ \E layout \in Layouts : Setup(layout)
           \/ \E h \in Links : GoTo(h)
           \/ Navigate
    <2>1. releasedSlots' = releasedSlots /\ undoid' \in {undoid, NoWine}
        BY <1>6 DEF AskPlacement, ClickSlot, ClosePanel, Choose, ConfirmPlacement, FillIn,
                    Submit, OpenConsume, PickSample, CloseDialog, OtherNotice, Setup, GoTo,
                    Navigate, cellar
    <2>2. Staying' = Staying \/ (Staying' = n /\ Staying \in {n, n - 1})
        BY <2>1 DEF Staying
    <2> QED
        BY <1>3, <2>1, <2>2
<1> QED
    BY <1>4, <1>5, <1>6 DEF PreviewNext

\* And no step but Undo fills a slot that is open.
LEMMA OpenGrows ==
    ASSUME PreviewInv, PreviewNext, UNCHANGED rackLayout, ~Undo
    PROVE  Open \subseteq Open'
<1>1. releasedSlots \in Seq(Slot) /\ RouteType
    BY DEF PreviewInv, TypeInv, CellarType
<1>2. releasedSlots' = releasedSlots \/ releasedSlots' = Append(releasedSlots, Released)
    BY DEF PreviewNext, AskPlacement, ClickSlot, ClosePanel, Choose, ConfirmPlacement,
           FillIn, Submit, OpenConsume, PickSample, MarkConsumed, CloseDialog,
           OtherNotice, Setup, GoTo, Navigate, cellar
<1>3. ToSet(releasedSlots) \subseteq ToSet(releasedSlots')
    BY <1>1, <1>2 DEF ToSet
<1> QED
    BY <1>3 DEF Open, Available, Slots

\* A panel that is drawn now offers what is open now.
LEMMA DrawnNow ==
    ASSUME PreviewInv, UNCHANGED <<cellar, rackLayout>>, page' = "storage" \/ events' > 0,
           NEW r, AsksFor(r), NEW rack \in {"main", "other"}, placement' = Panel(r, rack)
    PROVE  PanelInv'
<1>1. CellarType /\ RackType
    BY DEF PreviewInv, TypeInv
<1>2. r \in Request /\ (r.for = "slot" => r.at \in Open) /\ Open \subseteq Slots(rackLayout)
      /\ Slots(rackLayout) \subseteq Slot
    BY <1>1, SlotsAreSlots DEF AsksFor
<1>3. /\ placement'.rack = rack
      /\ r.for # "slot" => placement'.offered \subseteq (IF rack = "main" THEN Open ELSE OtherOpen)
      /\ r.for = "slot" => placement'.offered = {r.at}
    BY <1>1, <1>2, PanelFits
<1>4. placement'.rack = "main" => placement'.offered \subseteq Open
    BY <1>2, <1>3
<1>5. StaysOpen' = StaysOpen /\ Open' = Open /\ Slots(rackLayout)' = Slots(rackLayout)
    BY DEF StaysOpen, Staying, Open, Available, Slots, cellar
<1>6. PICK x : Open \subseteq StaysOpen \cup {x}
    BY <1>1, StayingIsOpen
<1> QED
    BY <1>2, <1>4, <1>5, <1>6 DEF PanelInv

LEMMA PanelStep ==
    ASSUME PreviewInv, PreviewNext
    PROVE  PanelInv'
<1>1. CellarType /\ RackType /\ PanelInv /\ RouteType
    BY DEF PreviewInv, TypeInv
<1>2. ASSUME ~Placing' PROVE PanelInv'
    BY <1>2 DEF PanelInv
<1>3. ASSUME UNCHANGED <<placement.offered, placement.rack>>, Placing, UNCHANGED rackLayout,
             placement'.undone \/ (~Undo /\ UNCHANGED placement.undone),
             (page = "storage" \/ events > 0) => (page' = "storage" \/ events' > 0)
      PROVE  PanelInv'
    <2>1. StaysOpen \subseteq StaysOpen' /\ Slots(rackLayout)' = Slots(rackLayout)
        BY <1>3, StaysOpenGrows DEF Slots
    <2>2. ~placement'.undone => ~placement.undone /\ Open \subseteq Open'
        BY <1>3, OpenGrows
    <2> QED
        BY <1>1, <1>3, <2>1, <2>2 DEF PanelInv
<1>4. CASE CloseRackSummary
    BY <1>2, <1>4, Closing
<1>5. ASSUME NEW r, AsksFor(r), StartPlacement(r), UNCHANGED <<cellar, rackLayout>>,
             page' = "storage" \/ events' > 0
      PROVE  PanelInv'
    <2>1. placement' = Panel(r, "main")
        BY <1>5 DEF StartPlacement
    <2> QED
        BY <1>5, <2>1, DrawnNow
<1>6. ASSUME NEW s \in Slots(rackLayout), ClickSlot(s), ~Available(s) PROVE PanelInv'
    <2>1. ~Placing'
        BY <1>6, NoPanelIs DEF ClickSlot, Placing
    <2> QED
        BY <1>2, <2>1
<1>7. CASE Choose
    <2>1. UNCHANGED <<route, cellar, rackLayout>>
        BY <1>7, ChooseStep
    <2>2. Placing /\ page' = "storage" /\ ~Undo
        BY <1>7, <2>1 DEF Choose, Undo, route, cellar
    <2>3. CASE UNCHANGED <<placement.offered, placement.rack, placement.undone>>
        BY <1>3, <2>1, <2>2, <2>3
    <2>4. CASE \E r, rack : /\ placement' = Panel(r, rack) /\ AsksFor(r)
                            /\ rack \in {"main", "other"}
        BY <2>1, <2>2, <2>4, DrawnNow
    <2> QED
        BY <1>7, <2>3, <2>4, ChooseStep
<1>8. CASE Undo
    <2>1. UNCHANGED <<page, events>>
        BY <1>8 DEF Undo, route
    <2> QED
        BY <1>2, <1>3, <1>8, <2>1, UndoMarks
<1>9. CASE UNCHANGED panels /\ ~Undo
    <2>1. placement' = placement /\ (Placing' => Placing)
        BY <1>9, NoPanelIs DEF panels, Placing
    <2>2. UNCHANGED rackLayout \/ ~Placing'
        BY Closing DEF PreviewNext, AskPlacement, ClickSlot, ClosePanel, Choose,
           ConfirmPlacement, FillIn, Submit, OpenConsume, PickSample, MarkConsumed, Undo,
           CloseDialog, OtherNotice, Setup, GoTo, Navigate
    <2>3. \/ UNCHANGED <<page, events>>
          \/ UNCHANGED page /\ \E h : SetHash(h)
          \/ page' = "storage" \/ ~Placing'
        BY <2>1, Closing DEF PreviewNext, AskPlacement, ClickSlot, ClosePanel, Choose,
           ConfirmPlacement, FillIn, Submit, OpenConsume, PickSample, MarkConsumed, Undo,
           CloseDialog, OtherNotice, Setup, GoTo, Navigate, route
    <2>4. events \in Nat /\ \A h : SetHash(h) => events' \in {events, events + 1}
        BY <1>1, PreviewAssumption DEF RouteType, SetHash
    <2>5. (page = "storage" \/ events > 0) => (page' = "storage" \/ events' > 0 \/ ~Placing')
        BY <2>3, <2>4
    <2> QED
        BY <1>2, <1>3, <1>9, <2>1, <2>2, <2>5
<1> QED
    BY <1>4, <1>5, <1>6, <1>7, <1>8, <1>9, PanelSteps
-----------------------------------------------------------------------------
(***************************************************************************)
(* The theorems.                                                            *)
(***************************************************************************)
LEMMA LoadedPage == PreviewInit => PreviewInv
<1> SUFFICES ASSUME NEW h \in Links, LoadedAt(h) PROVE PreviewInv
    BY DEF PreviewInit
<1>1. h \in Places /\ Sample # {} /\ Wines \in Nat /\ Wines > 0
    BY PreviewAssumption
<1>2. RackType
    BY DEF LoadedAt, RackType
<1>3. (CHOOSE s \in Sample : TRUE) \in Slot
    BY <1>1, <1>2, SlotsAreSlots
<1>4. RouteType
    <2>1. h[1] \in {"inventory", "add", "storage", "detail"} /\ h[2] \in Wine \cup {NoWine}
        BY <1>1 DEF Places
    <2>2. 0 \in Wine
        BY <1>1 DEF Wine
    <2> QED
        BY <1>1, <2>1, <2>2 DEF LoadedAt, RouteType
<1>5. AskingType /\ CellarType
    BY <1>3 DEF LoadedAt, AskingType, CellarType
<1>6. PanelsType /\ ~Placing /\ ~summary
    <2>1. NoPanel \in PanelType /\ NoPanel.chosen = NoSlot
        BY NoPanelIs, PreviewAssumption DEF PanelType, Request, NoRequest
    <2> QED
        BY <2>1 DEF LoadedAt, PanelsType, Placing
<1>7. FormType
    <2>1. /\ entry = [rack |-> "none", quantity |-> 1, slots |-> <<>>]
          /\ <<>> \in Seq(Slot) /\ Len(<<>>) = 0
        BY DEF LoadedAt
    <2>2. IsInjective(<<>>)
        BY DEF IsInjective
    <2> QED
        BY <2>1, <2>2 DEF FormType, EntryType
<1>8. TypeInv
    BY <1>2, <1>4, <1>5, <1>6, <1>7 DEF LoadedAt, TypeInv, NoRequest, Request
<1>9. PageInv
    BY DEF LoadedAt, PageInv, NoRequest
<1>10. ConsumptionIsReversible
    BY DEF LoadedAt, ConsumptionIsReversible, IsInjective
<1>11. SummaryShowsItsBottle /\ PanelInv /\ SavedSlotsAreOpen
    BY <1>6 DEF LoadedAt, SummaryShowsItsBottle, PanelInv, SavedSlotsAreOpen
<1> QED
    BY <1>8, <1>9, <1>10, <1>11 DEF PreviewInv

LEMMA NothingHappens ==
    ASSUME PreviewInv, UNCHANGED vars
    PROVE  PreviewInv'
<1> USE DEF vars, route, asking, cellar, panels
<1>1. TypeInv'
    BY DEF PreviewInv, TypeInv, RouteType, AskingType, CellarType, PanelsType, RackType, FormType
<1>2. /\ UNCHANGED <<hash, events, page, selected, dialog, consumingRackSlot, slot>>
      /\ UNCHANGED <<consumed, consumedslots, undoid, releasedSlots, lastReleasedSlot>>
      /\ UNCHANGED <<rackLayout, rackSelection, summary, placement, pendingPlacement, entry>>
    OBVIOUS
<1>3. Open' = Open /\ Slots(rackLayout)' = Slots(rackLayout) /\ StaysOpen' = StaysOpen
    BY <1>2 DEF Open, Available, Slots, StaysOpen, Staying
<1>4. Placing' <=> Placing
    BY <1>2, NoPanelIs DEF Placing
<1>5. EntryOpen(entry)' = EntryOpen(entry)
    BY <1>2, <1>3 DEF EntryOpen
<1>6. PageInv' /\ ConsumptionIsReversible'
    BY <1>2 DEF PreviewInv, PageInv, ConsumptionIsReversible, MayConsume
<1>7. SummaryShowsItsBottle'
    BY <1>2, <1>3, <1>4 DEF PreviewInv, SummaryShowsItsBottle, WineAt
<1>8. PanelInv'
    BY <1>2, <1>3, <1>4 DEF PreviewInv, PanelInv
<1>9. SavedSlotsAreOpen'
    BY <1>2, <1>5 DEF PreviewInv, SavedSlotsAreOpen
<1> QED
    BY <1>1, <1>6, <1>7, <1>8, <1>9 DEF PreviewInv

LEMMA PreviewAlways == PreviewSpec => []PreviewInv
<1>1. PreviewInv /\ [PreviewNext]_vars => PreviewInv'
    <2> SUFFICES ASSUME PreviewInv, PreviewNext PROVE PreviewInv'
        BY NothingHappens
    <2> QED
        BY TypeStep, PageStep, CellarStep, SummaryStep, PanelStep, SavedStep DEF PreviewInv
<1> QED
    BY <1>1, LoadedPage, PTL DEF PreviewSpec

\* Every variable has its type, whatever the sample, the racks and the links are;
\* no more wines are marked consumed than there are.
THEOREM PreviewIsWellTyped == PreviewSpec => []PreviewTypeOK
<1>1. PreviewInv => PreviewTypeOK
    <2> SUFFICES ASSUME PreviewInv PROVE PreviewTypeOK
        OBVIOUS
    <2>1. Len(consumed) <= Wines
        <3> DEFINE n == Len(consumed)
        <3>1. /\ n \in Nat /\ \A i \in 1 .. n : consumed[i] \in Wine
              /\ \A i, j \in 1 .. n : consumed[i] = consumed[j] => i = j
              /\ consumed \in [1 .. n -> Wine]
            BY Alike DEF PreviewInv, TypeInv, CellarType
        <3>2. consumed \in Injection(1 .. n, Wine)
            BY <3>1 DEF Injection, IsInjective
        <3>3. IsFiniteSet(Wine) /\ Cardinality(Wine) = Wines
            <4>1. Wines \in Nat /\ Wines > 0
                BY PreviewAssumption
            <4> QED
                BY <4>1, FS_Interval DEF Wine
        <3>4. Cardinality(1 .. n) = n
            BY <3>1, FS_Interval
        <3> QED
            BY <3>2, <3>3, <3>4, FS_Injection
    <2>2. /\ placement.request \in Request /\ placement.rack \in {"main", "other"}
          /\ placement.offered \subseteq Slot /\ placement.bottle \in 0 .. Bottles
          /\ placement.chosen \in placement.offered \cup {NoSlot}
          /\ placement.undone \in BOOLEAN
        BY DEF PreviewInv, TypeInv, PanelsType, PanelType
    <2>3. /\ entry.quantity \in Quantities \cup {1} /\ entry.slots \in Seq(Slot)
          /\ Len(entry.slots) <= entry.quantity
        BY DEF PreviewInv, TypeInv, FormType, EntryType
    <2> QED
        BY <2>1, <2>2, <2>3
           DEF PreviewInv, TypeInv, RouteType, AskingType, CellarType, PanelsType, RackType,
               PreviewTypeOK
<1> QED
    BY <1>1, PreviewAlways, PTL

\* The signals and the script tell of the same bottles, and Undo takes the last of
\* both back, in every order of clicks, dialogs and events.
THEOREM AlwaysReversible == PreviewSpec => []ConsumptionIsReversible
<1>1. PreviewInv => ConsumptionIsReversible
    BY DEF PreviewInv
<1> QED
    BY <1>1, PreviewAlways, PTL

\* The summary and the dialog it opens are always about the bottle in the slot.
THEOREM AlwaysShowsItsBottle == PreviewSpec => []SummaryShowsItsBottle
<1>1. PreviewInv => SummaryShowsItsBottle
    BY DEF PreviewInv
<1> QED
    BY <1>1, PreviewAlways, PTL

\* However many bottles are consumed next to an open panel, in racks of any size, it
\* offers open slots only; from an Undo on, it is behind the rack by one slot at most.
THEOREM PanelAlwaysFollows == PreviewSpec => []PanelFollowsTheRack
<1>1. PreviewInv => PanelFollowsTheRack
    <2> SUFFICES ASSUME PreviewInv, Placing, placement.rack = "main"
                 PROVE  /\ page = "storage" \/ events > 0
                        /\ placement.offered \subseteq Slots(rackLayout)
                        /\ ~placement.undone => placement.offered \subseteq Open
                        /\ Cardinality(placement.offered \ Open) <= 1
        BY DEF PanelFollowsTheRack
    <2>1. /\ page = "storage" \/ events > 0
          /\ placement.offered \subseteq Slots(rackLayout)
          /\ ~placement.undone => placement.offered \subseteq Open
          /\ \E x : placement.offered \subseteq StaysOpen \cup {x}
        BY DEF PreviewInv, PanelInv
    <2>2. PICK x : placement.offered \ Open \subseteq {x}
        BY <2>1, StayingIsOpen DEF PreviewInv, TypeInv
    <2>3. IsFiniteSet({x}) /\ Cardinality({x}) = 1
        BY FS_Singleton
    <2>4. Cardinality(placement.offered \ Open) <= 1
        BY <2>2, <2>3, FS_Subset
    <2> QED
        BY <2>1, <2>4
<1> QED
    BY <1>1, PreviewAlways, PTL

\* What the form confirms is open, each slot once, and within the quantity.
THEOREM SavedAlwaysOpen == PreviewSpec => []SavedSlotsAreOpen
<1>1. PreviewInv => SavedSlotsAreOpen
    BY DEF PreviewInv
<1> QED
    BY <1>1, PreviewAlways, PTL
=============================================================================

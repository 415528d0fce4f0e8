----------------------------- MODULE RackPreview -----------------------------
(***************************************************************************)
(* The interactions of the design preview (web/src/preview.ts with the      *)
(* signals of crates/core/templates/preview.html): a rack drawn from a      *)
(* sample collection, bottles marked consumed and taken back, panels and a  *)
(* form that offer the open slots.  Five pieces of state that nothing ties  *)
(* together tell of the same bottles: the signals of the template, the      *)
(* slots the script has released, the rack as it is drawn, the panel next   *)
(* to it and the slots chosen in the form.                                  *)
(*                                                                          *)
(* A step is what one click, one input or one hashchange event does.  The   *)
(* event comes after the assignment to the hash, and the user may click in  *)
(* between.  A modal dialog leaves nothing of the page to click.            *)
(***************************************************************************)
EXTENDS Integers, FiniteSets, SequencesExt

CONSTANTS
    Wines,          \* how many wines the sample has (8)
    Bottles,        \* how many bottles of the unplaced wine (2)
    FirstLayout,    \* the rack as it is drawn first (4 rows, 6 columns)
    Layouts,        \* the layouts the storage form is filled in with
    OriginalOpen,   \* originalOpenSlots
    OtherOpen,      \* open slots of the other racks, which the code spells out
    Sample,         \* the slots of the consume dialog's two radio buttons
    Quantities,     \* the quantities entered (the form has 1 to 99)
    Links,          \* the places the user goes to
    MaxEvents       \* bound: hashchange events under way

Wine == 0 .. Wines - 1
NoWine == -1
NoSlot == <<>>

Slots(layout) == (0 .. layout.columns - 1) \X (1 .. layout.rows)
Slot == (UNION {Slots(layout) : layout \in Layouts \cup {FirstLayout}})
            \cup OriginalOpen \cup OtherOpen \cup Sample

Places == ({"inventory", "add", "storage"} \X {NoWine}) \cup ({"detail"} \X Wine)

ASSUME PreviewAssumption ==
    /\ {Wines, Bottles} \subseteq Nat /\ Wines > 0 /\ Quantities \subseteq 0 .. 99
    /\ FirstLayout \in [rows : 1 .. 20, columns : 1 .. 26, empty : {FALSE}]
    /\ Layouts \subseteq [rows : 1 .. 20, columns : 1 .. 26, empty : {TRUE}]
    /\ Links \subseteq Places /\ MaxEvents \in Nat
    /\ IsFiniteSet(Slot) /\ NoSlot \notin Slot /\ Sample # {}

VARIABLES
    hash,              \* location.hash, as the page and the wine it names
    events,            \* hashchange events under way
    page, selected,    \* the page shown and the wine the signals name
    dialog,            \* the dialog that is open
    consumingRackSlot, \* the slot the consume dialog was opened for
    slot,              \* the slot signal: what the radio buttons show
    consumed, consumedslots, undoid,
    releasedSlots, lastReleasedSlot,
    rackLayout,
    rackSelection, summary,
    placement, pendingPlacement,
    entry              \* the form: where to store, quantity and entrySlots

route == <<hash, events, page, selected>>
cellar == <<consumed, consumedslots, undoid, releasedSlots, lastReleasedSlot>>
panels == <<rackSelection, summary, placement>>
asking == <<dialog, consumingRackSlot, slot>>
vars == <<route, asking, cellar, rackLayout, panels, pendingPlacement, entry>>

\* A request starts with a wine to place (and the slot it leaves, if any) or with
\* the slot to fill; which wine it is only shows.
Request == [for : {"none", "wine", "slot"}, at : Slot \cup {NoSlot}]
NoRequest == [for |-> "none", at |-> NoSlot]

\* The wine whose monogram fills the slots of a column.
WineAt(s) == s[1] % Wines

\* Whether drawRack draws a slot as available.
Available(s) == rackLayout.empty \/ s \in ToSet(releasedSlots) \/ s \in OriginalOpen
Open == {s \in Slots(rackLayout) : Available(s)}

\* The panel of a request: what it offers, and what is chosen in it.  "undone" is
\* a ghost: Undo has filled a slot since the panel was drawn.
Panel(r, rack) ==
    [request |-> r, rack |-> rack, bottle |-> 0, undone |-> FALSE,
     chosen |-> IF r.for = "slot" THEN r.at ELSE NoSlot,
     offered |-> CASE r.for = "none" -> {} [] r.for = "slot" -> {r.at}
                   [] r.for = "wine" -> IF rack = "main" THEN Open ELSE OtherOpen]
NoPanel == Panel(NoRequest, "main")
Placing == placement # NoPanel

\* filter(..): the entries of seq that are in S, in their order (what SelectSeq
\* gives, in a form whose consequences can be proved).
Keep(seq, S) ==
    LET kept == {i \in DOMAIN seq : seq[i] \in S}
    IN  [k \in 1 .. Cardinality(kept) |->
            seq[CHOOSE i \in kept : Cardinality({j \in kept : j <= i}) = k]]

\* The page as it is loaded at a place; a reload keeps nothing but the hash, and
\* what follows it is what follows one of these states.
LoadedAt(h) ==
    /\ hash = h /\ events = 0
    /\ page = h[1] /\ selected = IF h[2] # NoWine THEN h[2] ELSE 0
    /\ dialog = "none" /\ consumingRackSlot = NoSlot
    /\ slot = CHOOSE s \in Sample : TRUE
    /\ consumed = <<>> /\ consumedslots = [w \in Wine |-> NoSlot] /\ undoid = NoWine
    /\ releasedSlots = <<>> /\ lastReleasedSlot = NoSlot
    /\ rackLayout = FirstLayout
    /\ rackSelection = NoSlot /\ summary = FALSE
    /\ placement = NoPanel /\ pendingPlacement = NoRequest
    /\ entry = [rack |-> "none", quantity |-> 1, slots |-> <<>>]

PreviewInit == \E h \in Links : LoadedAt(h)
-----------------------------------------------------------------------------
(***************************************************************************)
(* The panels.                                                              *)
(***************************************************************************)
CloseRackSummary == rackSelection' = NoSlot /\ summary' = FALSE /\ placement' = NoPanel

StartPlacement(r) ==
    rackSelection' = r.at /\ summary' = FALSE /\ placement' = Panel(r, "main")

\* Every assignment of another hash raises an event of its own.
SetHash(h) ==
    /\ hash' = h
    /\ IF h = hash THEN UNCHANGED events
       ELSE events < MaxEvents /\ events' = events + 1

\* Find a place, Move bottle: where the storage page is not the one shown, the
\* request waits for the event that shows it.
AskPlacement ==
    /\ dialog = "none"
    /\ page = "detail" \/ (page = "storage" /\ ~Placing)
    /\ LET request == [for |-> "wine", at |-> rackSelection] IN
       IF hash[1] = "storage"
       THEN StartPlacement(request) /\ UNCHANGED <<route, pendingPlacement>>
       ELSE /\ pendingPlacement' = request
            /\ SetHash(<<"storage", NoWine>>)
            /\ UNCHANGED <<page, selected, panels>>
    /\ UNCHANGED <<asking, cellar, rackLayout, entry>>

\* A click on a slot of the rack: a place to fill or a bottle to look at.
ClickSlot(s) ==
    /\ dialog = "none" /\ page = "storage"
    /\ IF Available(s)
       THEN StartPlacement([for |-> "slot", at |-> s]) /\ UNCHANGED selected
       ELSE /\ rackSelection' = s /\ summary' = TRUE /\ placement' = NoPanel
            /\ selected' = WineAt(s)
    /\ UNCHANGED <<hash, events, page, asking, cellar, rackLayout, pendingPlacement, entry>>

ClosePanel ==
    /\ dialog = "none" /\ page = "storage" /\ (summary \/ Placing)
    /\ CloseRackSummary
    /\ UNCHANGED <<route, asking, cellar, rackLayout, pendingPlacement, entry>>

\* Another rack, a slot or one of the unplaced bottles is chosen in the panel.
Choose ==
    /\ dialog = "none" /\ page = "storage" /\ Placing
    /\ LET fixed == placement.request.for = "slot" IN
       \/ fixed /\ \E b \in 1 .. Bottles : placement' = [placement EXCEPT !.bottle = b]
       \/ ~fixed /\ \E rack \in {"main", "other"} \ {placement.rack} :
              placement' = Panel(placement.request, rack)
       \/ ~fixed /\ \E s \in placement.offered : placement' = [placement EXCEPT !.chosen = s]
    /\ UNCHANGED <<route, asking, cellar, rackLayout, rackSelection, summary,
                   pendingPlacement, entry>>

Ready == IF placement.request.for = "slot" THEN placement.bottle # 0
         ELSE placement.chosen # NoSlot

ConfirmPlacement ==
    /\ dialog = "none" /\ page = "storage" /\ Placing /\ Ready
    /\ undoid' = NoWine
    /\ CloseRackSummary
    /\ UNCHANGED <<route, asking, consumed, consumedslots, releasedSlots,
                   lastReleasedSlot, rackLayout, pendingPlacement, entry>>
-----------------------------------------------------------------------------
(***************************************************************************)
(* The form: what is chosen stays within what is open and the quantity.     *)
(***************************************************************************)
EntryOpen(e) ==
    CASE e.rack = "none" -> {} [] e.rack = "main" -> Open [] e.rack = "other" -> OtherOpen

\* A mutant of Refreshed: one slot more than there are bottles.
RefreshedWithOneMore(e) ==
    LET still == Keep(e.slots, EntryOpen(e))
    IN  [e EXCEPT !.slots = SubSeq(still, 1, Min({Len(still), e.quantity + 1}))]

Refreshed(e) ==
    LET still == Keep(e.slots, EntryOpen(e))
    IN  [e EXCEPT !.slots = SubSeq(still, 1, Min({Len(still), e.quantity}))]

\* The cellar and the destination name the rack: the main rack of the home cellar
\* is the one drawn, the others are alike, and another cellar starts with none.
\* The buttons are drawn by the last refresh; a click on one that is not open any
\* more chooses nothing, since the next refresh drops it.
PickSlot(e, s) ==
    IF s \in ToSet(e.slots) THEN Refreshed([e EXCEPT !.slots = Keep(e.slots, Slot \ {s})])
    ELSE Refreshed([e EXCEPT !.slots = Append(e.slots, s)])

FillIn ==
    /\ dialog = "none" /\ page = "add"
    /\ \/ \E q \in Quantities : entry' = Refreshed([entry EXCEPT !.quantity = q])
       \/ \E rack \in {"none", "main", "other"} :
              entry' = Refreshed([entry EXCEPT !.rack = rack, !.slots = <<>>])
       \/ \E s \in Slot :
            /\ s \in ToSet(entry.slots) \/ Len(entry.slots) < entry.quantity
            /\ entry' = PickSlot(entry, s)
    /\ UNCHANGED <<route, asking, cellar, rackLayout, panels, pendingPlacement>>

\* A mutant of Submit: what was chosen is confirmed without another look at it.
SubmitAsChosen ==
    /\ dialog = "none" /\ page = "add" /\ entry.quantity > 0 /\ dialog' = "saved"
    /\ UNCHANGED <<route, consumingRackSlot, slot, cellar, rackLayout, panels,
                   pendingPlacement, entry>>

\* The browser submits the form with a quantity of at least 1 only.
Submit ==
    /\ dialog = "none" /\ page = "add" /\ entry.quantity > 0
    /\ entry' = Refreshed(entry)
    /\ dialog' = "saved"
    /\ UNCHANGED <<route, consumingRackSlot, slot, cellar, rackLayout, panels, pendingPlacement>>
-----------------------------------------------------------------------------
(***************************************************************************)
(* A bottle is marked consumed and taken back.                              *)
(***************************************************************************)
\* A mutant of MayConsume: the button stays enabled.
MayConsumeAgain == TRUE

MayConsume == selected \notin ToSet(consumed)

\* A mutant of TriggerSlot: a dialog given up leaves its slot to the next one.
TriggerSlotKept == IF page = "storage" THEN rackSelection ELSE consumingRackSlot

TriggerSlot == IF page = "storage" THEN rackSelection ELSE NoSlot

\* The button of the summary opens the dialog for its slot; the button of the
\* wine's page puts the slot signal on the first of the sample slots.
OpenConsume ==
    /\ dialog = "none" /\ MayConsume
    /\ page = "detail" \/ (page = "storage" /\ summary)
    /\ consumingRackSlot' = TriggerSlot
    /\ slot' = IF TriggerSlot = NoSlot THEN CHOOSE s \in Sample : TRUE ELSE TriggerSlot
    /\ dialog' = "consume"
    /\ UNCHANGED <<route, cellar, rackLayout, panels, pendingPlacement, entry>>

PickSample ==
    /\ dialog = "consume" /\ consumingRackSlot = NoSlot
    /\ slot' \in Sample
    /\ UNCHANGED <<route, dialog, consumingRackSlot, cellar, rackLayout, panels,
                   pendingPlacement, entry>>

\* What the script releases: the slot the dialog was opened for or the radio
\* button that is checked, which is the slot signal's.
Released == IF consumingRackSlot # NoSlot THEN consumingRackSlot ELSE slot

MarkConsumed ==
    /\ dialog = "consume"
    /\ consumed' = Append(consumed, selected)
    /\ consumedslots' = [consumedslots EXCEPT ![selected] = slot]
    /\ undoid' = selected
    /\ releasedSlots' = Append(releasedSlots, Released)
    /\ lastReleasedSlot' = Released
    /\ IF consumingRackSlot # NoSlot THEN CloseRackSummary ELSE UNCHANGED panels
    /\ consumingRackSlot' = NoSlot
    /\ dialog' = "none"
    /\ UNCHANGED <<route, slot, rackLayout, pendingPlacement, entry>>

\* splice(lastIndexOf(..), 1); an index of -1 would take the last one.
WithoutLast(seq, s) ==
    LET i == SelectLastInSeq(seq, LAMBDA t : t = s)
    IN  IF seq = <<>> THEN seq ELSE RemoveAt(seq, IF i = 0 THEN Len(seq) ELSE i)

\* The rack is drawn again, a panel next to it is not.
Undo ==
    /\ dialog = "none" /\ undoid # NoWine
    /\ consumed' = Keep(consumed, Wine \ {undoid})
    /\ consumedslots' = [consumedslots EXCEPT ![undoid] = NoSlot]
    /\ undoid' = NoWine
    /\ releasedSlots' = IF lastReleasedSlot = NoSlot THEN releasedSlots
                        ELSE WithoutLast(releasedSlots, lastReleasedSlot)
    /\ lastReleasedSlot' = NoSlot
    /\ placement' = IF Placing THEN [placement EXCEPT !.undone = TRUE] ELSE placement
    /\ UNCHANGED <<route, asking, rackLayout, rackSelection, summary, pendingPlacement, entry>>

\* A dialog is closed; the one that confirms what was saved has a way back, too.
CloseDialog ==
    /\ dialog # "none" /\ dialog' = "none"
    /\ \/ UNCHANGED <<hash, events>>
       \/ dialog = "saved" /\ SetHash(<<"inventory", NoWine>>)
    /\ UNCHANGED <<page, selected, consumingRackSlot, slot, cellar, rackLayout, panels,
                   pendingPlacement, entry>>

\* A notice that is dismissed or replaced takes its Undo with it.
OtherNotice ==
    /\ dialog = "none" /\ undoid' = NoWine
    /\ UNCHANGED <<asking, consumed, consumedslots, releasedSlots, lastReleasedSlot,
                   rackLayout, panels, pendingPlacement, entry>>
    /\ \/ UNCHANGED route
       \/ SetHash(<<"storage", NoWine>>) /\ UNCHANGED <<page, selected>>

\* A mutant of Setup: the panel next to the rack is left open.
SetupBesidePanel(layout) ==
    /\ dialog = "none" /\ page = "storage" /\ rackLayout' = layout /\ undoid' = NoWine
    /\ UNCHANGED <<route, asking, consumed, consumedslots, releasedSlots,
                   lastReleasedSlot, panels, pendingPlacement, entry>>

\* The storage form draws another rack, all of it open.
Setup(layout) ==
    /\ dialog = "none" /\ page = "storage"
    /\ rackLayout' = layout
    /\ undoid' = NoWine
    /\ CloseRackSummary
    /\ UNCHANGED <<route, asking, consumed, consumedslots, releasedSlots,
                   lastReleasedSlot, pendingPlacement, entry>>
-----------------------------------------------------------------------------
(***************************************************************************)
(* Links, keys and the browser's buttons change the hash; the event comes   *)
(* later and shows the page.                                                *)
(***************************************************************************)
GoTo(h) ==
    /\ h # hash
    /\ SetHash(h)
    /\ UNCHANGED <<page, selected, asking, cellar, rackLayout, panels, pendingPlacement, entry>>

Navigate ==
    /\ events > 0 /\ events' = events - 1
    /\ page' = hash[1]
    /\ selected' = IF hash[2] # NoWine THEN hash[2] ELSE selected
    /\ dialog' = "none"
    /\ entry' = IF page' = "add" THEN Refreshed(entry) ELSE entry
    /\ IF page' = "storage" /\ pendingPlacement # NoRequest
       THEN StartPlacement(pendingPlacement) /\ pendingPlacement' = NoRequest
       ELSE CloseRackSummary /\ UNCHANGED pendingPlacement
    /\ UNCHANGED <<hash, consumingRackSlot, slot, cellar, rackLayout>>

PreviewNext ==
    \/ AskPlacement
    \/ \E s \in Slots(rackLayout) : ClickSlot(s)
    \/ ClosePanel \/ Choose \/ ConfirmPlacement
    \/ FillIn \/ Submit
    \/ OpenConsume \/ PickSample \/ MarkConsumed \/ Undo
    \/ CloseDialog \/ OtherNotice
    \/ \E layout \in Layouts : Setup(layout)
    \/ \E h \in Links : GoTo(h)
    \/ Navigate

PreviewSpec == PreviewInit /\ [][PreviewNext]_vars
-----------------------------------------------------------------------------
(***************************************************************************)
(* Properties.                                                              *)
(***************************************************************************)
\* Every variable has its type; a wine is marked consumed at most once.
PreviewTypeOK ==
    /\ hash \in Places /\ events \in 0 .. MaxEvents
    /\ page \in {"inventory", "add", "storage", "detail"} /\ selected \in Wine
    /\ dialog \in {"none", "consume", "saved"}
    /\ consumingRackSlot \in Slot \cup {NoSlot} /\ slot \in Slot
    /\ consumed \in Seq(Wine) /\ Len(consumed) <= Wines
    /\ consumedslots \in [Wine -> Slot \cup {NoSlot}]
    /\ undoid \in Wine \cup {NoWine}
    /\ releasedSlots \in Seq(Slot) /\ lastReleasedSlot \in Slot \cup {NoSlot}
    /\ rackLayout \in Layouts \cup {FirstLayout}
    /\ rackSelection \in Slot \cup {NoSlot} /\ summary \in BOOLEAN
    /\ placement.request \in Request /\ placement.rack \in {"main", "other"}
    /\ placement.offered \subseteq Slot /\ placement.bottle \in 0 .. Bottles
    /\ placement.chosen \in placement.offered \cup {NoSlot}
    /\ placement.undone \in BOOLEAN
    /\ pendingPlacement \in Request
    /\ entry.quantity \in Quantities \cup {1} /\ entry.slots \in Seq(Slot)
    /\ Len(entry.slots) <= entry.quantity

\* The signals count a bottle as consumed exactly where the script has released
\* a slot for it, in the order it happened; and while Undo is offered, it is the
\* last of both that Undo takes back ("Undo reverses this interaction",
\* docs/design-preview.md).  The two are written by two listeners of one click,
\* which take the slot from two places, and the notice that offers Undo may be
\* replaced, hidden or outlived by a dialog that was given up.
ConsumptionIsReversible ==
    /\ IsInjective(consumed)
    /\ releasedSlots = [i \in DOMAIN consumed |-> consumedslots[consumed[i]]]
    /\ undoid # NoWine => consumed # <<>> /\ undoid = Last(consumed)
                          /\ lastReleasedSlot = Last(releasedSlots)

\* The summary, and the consume dialog it opened, are about one bottle: its slot
\* is taken in the rack as drawn, the wine the signals name is the one in the
\* slot, and it is the slot the dialog records and releases.  Pages, racks and
\* bottles change under the panel, and the event that closes it comes late.
SummaryShowsItsBottle ==
    /\ summary => /\ rackSelection \in Slots(rackLayout) \ Open
                  /\ selected = WineAt(rackSelection)
                  /\ ~Placing
    /\ dialog = "consume" /\ consumingRackSlot # NoSlot =>
           summary /\ slot = rackSelection /\ consumingRackSlot = rackSelection

\* What a placement panel offers in the drawn rack are slots of that rack that
\* are open, through bottles consumed, racks laid out anew and pages changed
\* beside it.  The code does not draw the panel again at Undo: from there on one
\* slot of it, and not more, may be filled.
PanelFollowsTheRack ==
    Placing /\ placement.rack = "main" =>
        /\ page = "storage" \/ events > 0
        /\ placement.offered \subseteq Slots(rackLayout)
        /\ ~placement.undone => placement.offered \subseteq Open
        /\ Cardinality(placement.offered \ Open) <= 1

\* The confirmation names slots that are open in the rack chosen, each once, and
\* no more than there are bottles ("Selected slots cannot exceed quantity",
\* docs/design-preview.md), though slots are filled again, and racks shrink,
\* after they were chosen in the form.
SavedSlotsAreOpen ==
    dialog = "saved" =>
        /\ IsInjective(entry.slots)
        /\ ToSet(entry.slots) \subseteq EntryOpen(entry)
        /\ Len(entry.slots) <= entry.quantity
-----------------------------------------------------------------------------
(* What the documentation says and the code does not do. *)

\* "Find a place starts with a known wine: choose its rack and an open slot": the
\* slot chosen for the wine, which the confirmation names, is open.
ChosenSlotIsOpen ==
    Placing /\ placement.request.for = "wine" /\ placement.chosen # NoSlot =>
        placement.chosen \in (IF placement.rack = "main" THEN Open ELSE OtherOpen)
=============================================================================

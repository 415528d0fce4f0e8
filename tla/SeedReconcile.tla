--------------------------- MODULE SeedReconcile ----------------------------
(***************************************************************************)
(* Start-up of the server (crates/server/src/main.rs, seed.rs, db.rs): the *)
(* id factory is resumed, the reference tables are reconciled with the     *)
(* vocabulary of the release, one entry after the other, the demo catalog  *)
(* is made when there is no lot, and the server serves.  Every statement   *)
(* is a transaction of its own; the process may stop between any two, is   *)
(* restarted by its container, and may be replaced by another release.     *)
(*                                                                         *)
(* An upsert's SELECT and its write are one step: nothing else writes      *)
(* these tables.  Serving adds bottles, whose ids count for the factory.   *)
(***************************************************************************)
EXTENDS CausalId, SeedVocabulary, FiniteSets

CONSTANTS
    Releases,       \* vocabularies of the releases, as load accepts them
    US,             \* the iso2 ensure_seed looks for
    Default,        \* the stored form of "no condition"
    Unfit,          \* entries a column refuses: a scope not in the CHECK, a code too long
    Padded,         \* iso3 codes too short for char(3), which are read back with blanks
    MaxBottles,     \* bound: bottles stored
    ClientTick,     \* the ticks of the ids browsers mint
    MaxStops,       \* bound: stops during start-up, and deployments
    MaxSeq          \* bound: a server past this stamp is not restarted as it is

ASSUME ReleaseAssumption ==
    /\ Releases \subseteq {m \in Lists : Coherent(m)}
    /\ US \in Code
    /\ Default \in Code
    /\ Unfit \subseteq Entry
    /\ Padded \subseteq Code
    /\ MaxBottles \in Nat
    /\ ClientTick \subseteq Nat \ {0}
    /\ MaxStops \in Nat
    /\ MaxSeq \in Nat

NoId == 0

VARIABLES
    \* The database.
    rows,      \* the reference rows
    chain,     \* the rows of producer, wine, wine_vintage and lot
    bottles,   \* the ids of the bottles
    seq,       \* the last server_seq given to a reference row
    \* The process.
    pc,        \* the stage of start-up, or the chain table to insert into
    release,   \* the vocabulary compiled in
    done,      \* entries reconciled
    tick,      \* last tick of the id factory
    made,      \* the chain row inserted last; when serving, the demo lot
    \* Ghosts.
    settled,   \* this release has served before
    stops      \* spent of MaxStops

database == <<rows, chain, bottles, seq>>
process == <<pc, release, done, tick, made>>
vars == <<database, process, settled, stops>>

DemoTables == {"producer", "wine", "wine_vintage", "lot"}

RefRow == [id     : Nat,
           table  : Vocabulary,
           parent : Nat,                    \* country_id or system_id, or NoId
           group  : Code \cup {NoKey},      \* the kind of a label rule
           code   : Code,
           iso3   : Code \cup {NoKey},
           value  : Value,
           seq    : Nat]

ChainRow == [id : Nat, table : DemoTables, of : Nat]

-----------------------------------------------------------------------------
(* The id factory. *)

Ids == {r.id : r \in rows} \cup {c.id : c \in chain} \cup bottles

\* Mutants: one tick early; only the reference tables are asked; IdGen::new.
ResumeBefore == HighestTick(Ids) - 1
ResumeByReference == HighestTick({r.id : r \in rows})
ResumeFromZero == 0

\* max_persisted_tick
ResumeTick == HighestTick(Ids)

Minted == NextId(SERVER_SOURCE, tick)

-----------------------------------------------------------------------------
(* Entries and rows. *)

\* Mutant: levels before systems.
WalkLevelsFirst(m) ==
    m["country"] \o m["bottle_format"] \o m["descriptor"] \o m["appellation_type"]
        \o m["appellation_tier"] \o m["classification_level"]
        \o m["classification_system"] \o m["label_rule"]

\* The order of sync_reference_data.
Walk(m) ==
    m["country"] \o m["bottle_format"] \o m["descriptor"] \o m["appellation_type"]
        \o m["appellation_tier"] \o m["classification_system"]
        \o m["classification_level"] \o m["label_rule"]

Entries(m) == {Walk(m)[i] : i \in 1..Len(Walk(m))}

\* The code and the group an entry is stored with.
StoredCode(e) == IF e.table = "label_rule" /\ e.code = NoKey THEN Default ELSE e.code
StoredGroup(e) == IF e.table = "label_rule" THEN e.group ELSE NoKey

\* The ids in the maps country_id and system_id: those of the rows the entries
\* before this one were found in or inserted as.
CountryId(iso2) == (CHOOSE r \in rows : r.table = "country" /\ r.code = iso2).id

SystemId(iso2, code) ==
    (CHOOSE r \in rows :
        r.table = "classification_system" /\ r.parent = CountryId(iso2) /\ r.code = code).id

ParentId(e) ==
    IF e.table = "classification_level" THEN SystemId(e.country, e.group)
    ELSE IF Refers(e) THEN CountryId(e.country)
    ELSE NoId

\* The row with the natural key of an entry.
IsRowOf(r, e) ==
    /\ r.table = e.table
    /\ r.parent = ParentId(e)
    /\ r.group = StoredGroup(e)
    /\ r.code = StoredCode(e)

\* Mutants: an update every time; only the iso3 compared.
DiffersAlways(r, e) == TRUE
DiffersByIso3(r, e) == r.iso3 # e.iso3

Differs(r, e) == r.value # e.value \/ r.iso3 # e.iso3 \/ e.iso3 \in Padded

\* country.iso3 UNIQUE, and the primary key of an inserted row.
Iso3Taken(e, others) == e.table = "country" /\ \E r \in others : r.iso3 = e.iso3
KeyTaken(t) == \E r \in rows \cup chain : r.table = t /\ r.id = Minted

-----------------------------------------------------------------------------
(* Start-up. *)

Init ==
    /\ rows = {} /\ chain = {} /\ bottles = {} /\ seq = 0
    /\ pc = "down" /\ release \in Releases /\ done = 0 /\ tick = 0 /\ made = NoId
    /\ settled = FALSE
    /\ stops = 0

Start ==
    /\ pc = "down"
    /\ pc' = "reconcile"
    /\ tick' = ResumeTick
    /\ UNCHANGED <<database, release, done, made, settled, stops>>

\* The process ends; what it had in memory is gone.
Exit ==
    /\ pc' = "down"
    /\ done' = 0
    /\ tick' = 0
    /\ made' = NoId
    /\ UNCHANGED <<database, release>>

\* The next entry.
Reconciling == pc = "reconcile" /\ done < Len(Walk(release))
Current == Walk(release)[done + 1]

Reconciled(stamped) ==
    /\ done' = done + 1
    /\ seq' = stamped
    /\ UNCHANGED <<chain, bottles, pc, release, made, settled, stops>>

\* The row is there and as authored.
RowIsCurrent ==
    /\ Reconciling
    /\ \E r \in rows : IsRowOf(r, Current) /\ ~Differs(r, Current)
    /\ Reconciled(seq)
    /\ UNCHANGED <<rows, tick>>

UpdateRow ==
    /\ Reconciling
    /\ Current \notin Unfit
    /\ \E r \in rows :
           /\ IsRowOf(r, Current)
           /\ Differs(r, Current)
           /\ ~Iso3Taken(Current, rows \ {r})
           /\ rows' = (rows \ {r}) \cup
                  {[r EXCEPT !.value = Current.value, !.iso3 = Current.iso3, !.seq = seq + 1]}
    /\ Reconciled(seq + 1)
    /\ UNCHANGED tick

InsertRow ==
    /\ Reconciling
    /\ Current \notin Unfit
    /\ \A r \in rows : ~IsRowOf(r, Current)
    /\ ~Iso3Taken(Current, rows)
    /\ ~KeyTaken(Current.table)
    /\ rows' = rows \cup
           {[id |-> Minted, table |-> Current.table, parent |-> ParentId(Current),
             group |-> StoredGroup(Current), code |-> StoredCode(Current),
             iso3 |-> Current.iso3, value |-> Current.value, seq |-> seq + 1]}
    /\ tick' = tick + 1
    /\ Reconciled(seq + 1)

\* The database refuses a write, and main returns the error: load has checked
\* neither what the columns take nor that an iso3 is given once.
Refused ==
    \/ /\ Reconciling
       /\ LET found == {r \in rows : IsRowOf(r, Current)}
          IN  /\ \A r \in found : Differs(r, Current)
              /\ \/ Current \in Unfit
                 \/ Iso3Taken(Current, rows \ found)
                 \/ found = {} /\ KeyTaken(Current.table)
    \/ pc \in DemoTables /\ KeyTaken(pc)

WriteRefused ==
    /\ Refused
    /\ Exit
    /\ UNCHANGED <<settled, stops>>

ReferenceDone ==
    /\ pc = "reconcile"
    /\ done = Len(Walk(release))
    /\ pc' = "demo"
    /\ UNCHANGED <<database, release, done, tick, made, settled, stops>>

-----------------------------------------------------------------------------
(* ensure_seed *)

Countries == {r \in rows : r.table = "country" /\ r.code = US}

\* Mutant: no lot is looked for.
LotsIgnored == {}

Lots == {c \in chain : c.table = "lot"}

FindLot ==
    /\ pc = "demo"
    /\ \E c \in Lots : made' = c.id
    /\ pc' = "serving"
    /\ settled' = TRUE
    /\ UNCHANGED <<database, release, done, tick, stops>>

FindCountry ==
    /\ pc = "demo"
    /\ Lots = {}
    /\ \E r \in Countries : made' = r.id
    /\ pc' = "producer"
    /\ UNCHANGED <<database, release, done, tick, settled, stops>>

\* fetch_one without a row is an error, which main returns.
NoCountry ==
    /\ pc = "demo"
    /\ Lots = {}
    /\ Countries = {}
    /\ Exit
    /\ UNCHANGED <<settled, stops>>

After == [producer |-> "wine", wine |-> "wine_vintage", wine_vintage |-> "lot", lot |-> "serving"]

InsertDemo ==
    /\ pc \in DemoTables
    /\ ~KeyTaken(pc)
    /\ chain' = chain \cup {[id |-> Minted, table |-> pc, of |-> made]}
    /\ made' = Minted
    /\ tick' = tick + 1
    /\ pc' = After[pc]
    /\ settled' = (settled \/ pc = "lot")
    /\ UNCHANGED <<rows, bottles, seq, release, done, stops>>

-----------------------------------------------------------------------------
(* Serving, and the world around the process. *)

\* add_bottle; an id that is taken would be refused.
AddBottle ==
    /\ pc = "serving"
    /\ Cardinality(bottles) < MaxBottles
    /\ bottles' = bottles \cup {Minted}
    /\ tick' = tick + 1
    /\ UNCHANGED <<rows, chain, seq, pc, release, done, made, settled, stops>>

\* A row of a push, with an id a browser minted.
PushBottle ==
    /\ pc = "serving"
    /\ Cardinality(bottles) < MaxBottles
    /\ \E t \in ClientTick :
           /\ Pack(t, CLIENT_SOURCE) \notin bottles
           /\ bottles' = bottles \cup {Pack(t, CLIENT_SOURCE)}
    /\ UNCHANGED <<rows, chain, seq, process, settled, stops>>

\* The process is stopped, or crashes, at any point.
Stop ==
    /\ pc # "down"
    /\ IF pc = "serving" THEN seq < MaxSeq /\ UNCHANGED stops
       ELSE stops < MaxStops /\ stops' = stops + 1
    /\ Exit
    /\ UNCHANGED settled

\* Another release is deployed, newer or older.
Deploy ==
    /\ pc = "down"
    /\ stops < MaxStops
    /\ stops' = stops + 1
    /\ release' \in Releases \ {release}
    /\ settled' = FALSE
    /\ UNCHANGED <<database, pc, done, tick, made>>

StartUp ==
    \/ RowIsCurrent \/ UpdateRow \/ InsertRow \/ WriteRefused \/ ReferenceDone
    \/ FindLot \/ FindCountry \/ NoCountry \/ InsertDemo

Next ==
    \/ Start
    \/ StartUp
    \/ AddBottle \/ PushBottle
    \/ Stop \/ Deploy

Spec == Init /\ [][Next]_vars

\* The process runs on, and the container restarts one that ended.
FairSpec == Spec /\ WF_vars(StartUp) /\ WF_vars(Start)

-----------------------------------------------------------------------------
(* Properties. *)

TypeOK ==
    /\ rows \subseteq RefRow
    /\ chain \subseteq ChainRow
    /\ bottles \subseteq Nat
    /\ seq \in Nat
    /\ pc \in {"down", "reconcile", "demo", "serving"} \cup DemoTables
    /\ release \in Releases
    /\ done \in 0..Len(Walk(release))
    /\ tick \in Nat
    /\ made \in Nat
    /\ settled \in BOOLEAN
    /\ stops \in 0..MaxStops

\* An id names one record in the whole database, although the factory that
\* mints it is resumed at every start from whatever ids the tables hold, those
\* of browsers included, and although a start may stop half-way.
IdsIdentify ==
    /\ \A r, q \in rows \cup chain : r.id = q.id => r = q
    /\ \A r \in rows \cup chain : r.id \notin bottles

\* The maps of the reconcile have the parent of every entry when it is its
\* turn: what load checked, in its order, is what the walk needs, in another.
MapsHaveParents ==
    Reconciling /\ Refers(Current) =>
        \E i \in 1..done : Key(Walk(release)[i]) = ParentKey(Current)

\* The entries that are stored under the key of e.  They are e alone, but that a
\* rule without a condition and one for "default" are two to load.
StoredAs(e) ==
    {d \in Entries(release) :
        /\ d.table = e.table /\ d.country = e.country /\ StoredCode(d) = StoredCode(e)
        /\ d.table \in {"label_rule", "classification_level"} => d.group = e.group}

\* A server that serves has stored exactly its release: one row for every
\* entry, under its own parent, with the authored contents of it or of an entry
\* stored under the same key - whichever releases ran before, and wherever
\* their start-ups stopped.
ServesItsRelease ==
    pc = "serving" =>
        \A e \in Entries(release) :
            /\ \E r \in rows : \E d \in StoredAs(e) :
                   IsRowOf(r, e) /\ r.value = d.value /\ r.iso3 = d.iso3
            /\ \A r, q \in rows : IsRowOf(r, e) /\ IsRowOf(q, e) => r = q

\* A server that serves has one lot, at the end of a whole chain of demo rows,
\* also when earlier start-ups left parts of other chains behind.
OneLot ==
    /\ \A c, d \in Lots : c = d
    /\ pc = "serving" => \E c \in Lots : c.id = made
    /\ \A c \in chain :
           IF c.table = "producer" THEN \E r \in Countries : r.id = c.of
           ELSE \E d \in chain : d.id = c.of /\ After[d.table] = c.table

\* "CHURN-FREE", as far as it goes: a release that has served, started again,
\* makes no reference row and rewrites none, so that no browser pulls
\* anything, except rows that two of its entries are stored as, and countries
\* whose iso3 never reads as it was authored.
ChurnConfined ==
    [][settled =>
           /\ {r.id : r \in rows'} = {r.id : r \in rows}
           /\ \A r \in rows \ rows' : \E e \in Entries(release) :
                  IsRowOf(r, e) /\ (StoredAs(e) # {e} \/ e.iso3 \in Padded)]_vars

\* However its start-ups are stopped, a release comes to be served, unless the
\* database refuses it at every start: it has an entry that a column refuses, or
\* gives the iso3 of a country to another, or there is no US for the demo catalog.
Servable ==
    /\ Entries(release) \cap Unfit = {}
    /\ \A e \in Entries(release) : \A r \in rows :
           e.table = "country" /\ r.table = "country" /\ e.iso3 = r.iso3 => e.code = r.code
    /\ Lots # {} \/ Countries # {} \/ \E e \in Entries(release) : e.table = "country" /\ e.code = US

EventuallyServes == <>[]Servable => []<>(pc = "serving")
=============================================================================

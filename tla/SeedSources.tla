---------------------------- MODULE SeedSources -----------------------------
(***************************************************************************)
(* Loading the vocabulary: load() merges the authored files list by list   *)
(* and resolve() checks the lists, one entry a step, against hash sets of  *)
(* the natural keys it has met.  A file that does not parse stops load     *)
(* before there is anything to check.                                      *)
(***************************************************************************)
EXTENDS SeedVocabulary

CONSTANT Sources   \* the file triples (global, us, france) that may be built in

ASSUME SourcesAssumption == Sources \subseteq [1..3 -> Lists]

VARIABLES
    lists,    \* the merged lists
    known,    \* the keys in the hash sets
    pos,      \* entries that passed, in the order of the checks
    outcome   \* of load

vars == <<lists, known, pos, outcome>>

Merged(files) == [t \in Vocabulary |-> files[1][t] \o files[2][t] \o files[3][t]]

\* Mutant: the levels are checked before the systems they refer to.
LevelsFirst(m) ==
    m["country"] \o m["bottle_format"] \o m["appellation_type"] \o m["appellation_tier"]
        \o m["classification_level"] \o m["classification_system"]
        \o m["label_rule"] \o m["descriptor"]

\* The order of the checks in resolve.
Checked(m) ==
    m["country"] \o m["bottle_format"] \o m["appellation_type"] \o m["appellation_tier"]
        \o m["classification_system"] \o m["classification_level"]
        \o m["label_rule"] \o m["descriptor"]

Init ==
    /\ \E files \in Sources : lists = Merged(files)
    /\ known = {}
    /\ pos = 0
    /\ outcome = "checking"

\* Mutant: of a level, only the country is looked up.
DanglesByCountry(e) == Refers(e) /\ <<"country", NoKey, NoKey, e.country>> \notin known

\* require_country, and the system of a level: looked up before the key.
Dangles(e) == Refers(e) /\ ParentKey(e) \notin known
Repeats(e) == Key(e) \in known

\* An entry is left to check, and this is the next.
Checking ==
    /\ outcome = "checking"
    /\ pos < Len(Checked(lists))
    /\ UNCHANGED lists

NextEntry == Checked(lists)[pos + 1]

Dangling ==
    /\ Checking
    /\ Dangles(NextEntry)
    /\ outcome' = "dangling"
    /\ UNCHANGED <<known, pos>>

Duplicate ==
    /\ Checking
    /\ ~Dangles(NextEntry)
    /\ Repeats(NextEntry)
    /\ outcome' = "duplicate"
    /\ UNCHANGED <<known, pos>>

\* Mutant: the key is looked up and never inserted.
PassesUnseen ==
    /\ Checking
    /\ ~Dangles(NextEntry)
    /\ ~Repeats(NextEntry)
    /\ pos' = pos + 1
    /\ UNCHANGED <<known, outcome>>

Passes ==
    /\ Checking
    /\ ~Dangles(NextEntry)
    /\ ~Repeats(NextEntry)
    /\ known' = known \cup {Key(NextEntry)}
    /\ pos' = pos + 1
    /\ UNCHANGED outcome

Accept ==
    /\ outcome = "checking"
    /\ pos = Len(Checked(lists))
    /\ outcome' = "ok"
    /\ UNCHANGED <<lists, known, pos>>

Next == Dangling \/ Duplicate \/ Passes \/ Accept

Spec == Init /\ [][Next]_vars

-----------------------------------------------------------------------------
(* Properties. *)

TypeOK ==
    /\ lists \in Lists
    /\ known = {Key(Checked(lists)[i]) : i \in 1..pos}
    /\ pos \in 0..Len(Checked(lists))
    /\ outcome \in {"checking", "ok", "duplicate", "dangling"}

\* What load accepts has no natural key twice and no dangling reference,
\* however the entries are spread over the files and ordered in the lists.
AcceptedIsCoherent == outcome = "ok" => Coherent(lists)

\* What it refuses has the fault it names: the order of the checks never
\* makes a reference dangle whose target is only listed elsewhere.
RefusedHasFault ==
    /\ outcome = "duplicate" => ~KeysAreUnique(lists)
    /\ outcome = "dangling" => ~ReferencesResolve(lists)
=============================================================================

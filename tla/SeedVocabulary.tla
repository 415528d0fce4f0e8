--------------------------- MODULE SeedVocabulary ---------------------------
(***************************************************************************)
(* The authored reference vocabulary (crates/core/src/seed/mod.rs): eight  *)
(* lists of entries, which name each other by natural key.                 *)
(***************************************************************************)
EXTENDS Integers, Sequences

CONSTANTS
    NoKey,    \* no country, no group, no iso3, a rule without a condition
    Code,     \* iso2 and iso3 codes, codes, kinds and conditions
    Value     \* the other contents of an entry

ASSUME KeyAssumption == NoKey \notin Code

\* The lists, and those whose entries name a country.
CountryScoped ==
    {"appellation_type", "appellation_tier", "classification_system", "label_rule"}
Vocabulary ==
    {"country", "bottle_format", "descriptor", "classification_level"} \cup CountryScoped

\* "group" is the system of a classification level and the kind of a label
\* rule; "code" is the iso2 of a country and the condition of a label rule.
Refers(e) == e.table \in CountryScoped \cup {"classification_level"}

Entry ==
    {e \in [table   : Vocabulary,
            country : Code \cup {NoKey},
            group   : Code \cup {NoKey},
            code    : Code \cup {NoKey},
            iso3    : Code \cup {NoKey},
            value   : Value] :
        /\ e.country \in Code <=> Refers(e)
        /\ e.group \in Code <=> e.table \in {"classification_level", "label_rule"}
        /\ e.code = NoKey => e.table = "label_rule"
        /\ e.iso3 \in Code <=> e.table = "country"}

\* The lists of one file, or of all files merged.
Lists ==
    {m \in [Vocabulary -> Seq(Entry)] :
        \A t \in Vocabulary : \A i \in DOMAIN m[t] : m[t][i].table = t}

-----------------------------------------------------------------------------
(* Natural keys and references. *)

Key(e) == <<e.table, e.country, e.group, e.code>>

ParentKey(e) ==
    IF e.table = "classification_level"
    THEN <<"classification_system", e.country, NoKey, e.group>>
    ELSE <<"country", NoKey, NoKey, e.country>>

\* What the loader is to check: no natural key twice, no dangling reference.
KeysAreUnique(m) ==
    \A t \in Vocabulary : \A i, j \in DOMAIN m[t] : Key(m[t][i]) = Key(m[t][j]) => i = j

ReferencesResolve(m) ==
    \A t \in Vocabulary : \A i \in DOMAIN m[t] :
        Refers(m[t][i]) =>
            \E u \in Vocabulary : \E j \in DOMAIN m[u] : Key(m[u][j]) = ParentKey(m[t][i])

Coherent(m) == KeysAreUnique(m) /\ ReferencesResolve(m)
=============================================================================

--------------------------- MODULE MCSeedReconcile ---------------------------
(***************************************************************************)
(* Instances of SeedReconcile for TLC: a first release, one that changes   *)
(* contents, drops entries, writes out a condition and has an iso3 of two  *)
(* letters, one that gives the iso3 of a country to another and has a rule *)
(* without a condition besides one for "default", one without the US, and  *)
(* one with a scope that the database does not take.                       *)
(***************************************************************************)
EXTENDS SeedReconcile

Codes == {"US", "FR", "UK", "AU", "USA", "FRA", "AVA", "1855", "first", "vintage", "default", "red"}
Values == {0, 1}

CountryOf(iso2, iso3, v) ==
    [table |-> "country", country |-> NoKey, group |-> NoKey, code |-> iso2,
     iso3 |-> iso3, value |-> v]

EntryOf(t, country, group, code, v) ==
    [table |-> t, country |-> country, group |-> group, code |-> code,
     iso3 |-> NoKey, value |-> v]

\* The lists not named are empty.
Vocab(some) == [t \in Vocabulary |-> IF t \in DOMAIN some THEN some[t] ELSE <<>>]

First == Vocab([
    country |-> <<CountryOf("US", "USA", 0), CountryOf("FR", "FRA", 0)>>,
    appellation_type |-> <<EntryOf("appellation_type", "US", NoKey, "AVA", 0)>>,
    classification_system |-> <<EntryOf("classification_system", "FR", NoKey, "1855", 0)>>,
    classification_level |-> <<EntryOf("classification_level", "FR", "1855", "first", 0)>>,
    label_rule |-> <<EntryOf("label_rule", "US", "vintage", NoKey, 0)>>])

Second == Vocab([
    country |-> <<CountryOf("US", "USA", 1), CountryOf("FR", "FRA", 0), CountryOf("AU", "AU", 0)>>,
    descriptor |-> <<EntryOf("descriptor", NoKey, NoKey, "red", 0)>>,
    classification_system |-> <<EntryOf("classification_system", "FR", NoKey, "1855", 0)>>,
    classification_level |-> <<EntryOf("classification_level", "FR", "1855", "first", 1)>>,
    label_rule |-> <<EntryOf("label_rule", "US", "vintage", "default", 0)>>])

Renamed == Vocab([
    country |-> <<CountryOf("US", "USA", 0), CountryOf("UK", "FRA", 0)>>,
    label_rule |-> <<EntryOf("label_rule", "US", "vintage", NoKey, 0),
                     EntryOf("label_rule", "US", "vintage", "default", 1)>>])

French == Vocab([country |-> <<CountryOf("FR", "FRA", 0)>>])

Sparkling == Vocab([
    country |-> <<CountryOf("US", "USA", 0), CountryOf("FR", "FRA", 0)>>,
    classification_system |-> <<EntryOf("classification_system", "FR", NoKey, "1855", 1)>>])

Unscoped == {EntryOf("classification_system", "FR", NoKey, "1855", 1)}
TwoLetters == {"US", "FR", "UK", "AU"}

LowAndHigh == {1, 30}

Upgrades == {First, Second, Renamed, French, Sparkling}
=============================================================================

---------------------------- MODULE MCSeedSources ----------------------------
(***************************************************************************)
(* Instance of SeedSources for TLC: a few variants of each file, some      *)
(* missing a country or a system the others name, some repeating a key.    *)
(***************************************************************************)
EXTENDS SeedSources

Codes == {"US", "FR", "USA", "FRA", "AVA", "1855", "first", "vintage", "default", "red"}
Values == {0}

CountryOf(iso2, iso3) ==
    [table |-> "country", country |-> NoKey, group |-> NoKey, code |-> iso2,
     iso3 |-> iso3, value |-> 0]

Plain(t, code) ==
    [table |-> t, country |-> NoKey, group |-> NoKey, code |-> code,
     iso3 |-> NoKey, value |-> 0]

Scoped(t, country, group, code) ==
    [table |-> t, country |-> country, group |-> group, code |-> code,
     iso3 |-> NoKey, value |-> 0]

US == CountryOf("US", "USA")
FR == CountryOf("FR", "FRA")

\* The lists not named are empty.
File(some) == [t \in Vocabulary |-> IF t \in DOMAIN some THEN some[t] ELSE <<>>]

UpTo(n, s) == {SubSeq(s, 1, k) : k \in 0..n}

Global ==
    {File([country |-> c, bottle_format |-> f, descriptor |-> d]) :
         c \in {<<US, FR>>, <<FR>>, <<US>>, <<US, US>>},
         f \in {<<>>, <<Plain("bottle_format", "red")>>},
         d \in UpTo(2, <<Plain("descriptor", "red"), Plain("descriptor", "red")>>)}

American ==
    {File([country |-> c, appellation_type |-> t, classification_system |-> s, label_rule |-> r]) :
         c \in {<<>>, <<US>>},
         t \in UpTo(2, <<Scoped("appellation_type", "US", NoKey, "AVA"),
                         Scoped("appellation_type", "FR", NoKey, "AVA")>>),
         s \in {<<>>, <<Scoped("classification_system", "US", NoKey, "1855")>>},
         r \in UpTo(2, <<Scoped("label_rule", "US", "vintage", NoKey),
                         Scoped("label_rule", "US", "vintage", "default")>>)}

French ==
    {File([appellation_tier |-> t, classification_system |-> s, classification_level |-> l,
           label_rule |-> r]) :
         t \in {<<>>, <<Scoped("appellation_tier", "FR", NoKey, "first")>>},
         s \in UpTo(2, <<Scoped("classification_system", "FR", NoKey, "1855"),
                         Scoped("classification_system", "FR", NoKey, "1855")>>),
         l \in UpTo(2, <<Scoped("classification_level", "FR", "1855", "first"),
                         Scoped("classification_level", "US", "1855", "first")>>),
         r \in UpTo(1, <<Scoped("label_rule", "US", "vintage", NoKey)>>)}

FileTriples == {<<g, a, f>> : g \in Global, a \in American, f \in French}
=============================================================================

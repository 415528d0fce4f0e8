----------------------------- MODULE ShellCache -----------------------------
(***************************************************************************)
(* The service worker (web/src/sw.ts): it precaches the assets of the      *)
(* release it belongs to and keeps the answer to the last navigation as    *)
(* the shell for navigations that reach no server.  Installing, activating *)
(* and the precache are the browser's and workbox's.                       *)
(*                                                                         *)
(* A release is the page and the assets, under hashed names, of one build; *)
(* the server has those of its own release only (assets.rs, ServeDir).     *)
(* HTTP caches are left out.                                               *)
(***************************************************************************)
EXTENDS Naturals

CONSTANTS
    Useless,    \* an answer that is not the app: an error, or another path
    MaxRelease  \* bound: releases deployed

ASSUME ShellAssumption == Useless \notin Nat /\ MaxRelease \in Nat \ {0}

Release == 1..MaxRelease
None == 0

VARIABLES
    release,     \* the release the server runs
    reachable,   \* the browser reaches the server
    installing,  \* the release whose service worker installs, or None
    waiting,     \* the one that is installed
    active,      \* the one that controls the pages, whose assets are precached
    shell,       \* the answer stored under "/", or None
    puts         \* answers about to be stored; nobody waits for it

scripts == <<installing, waiting, active>>
cache == <<scripts, shell, puts>>
network == <<release, reachable>>

ShellInit ==
    /\ release = 1 /\ reachable = TRUE
    /\ installing = None /\ waiting = None /\ active = None
    /\ shell = None /\ puts = {}

-----------------------------------------------------------------------------
\* Mutant: no network behind the precache.
FetchedFromPrecache(v) == v = active

\* An asset of a release is fetched: from the precache, else from the server.
Fetched(v) == v = active \/ (reachable /\ v = release)

\* A navigation is answered by the server; the answer will be stored if a
\* service worker is in between.
Answered(answer) ==
    /\ reachable
    /\ puts' = IF active = None THEN puts ELSE puts \cup {answer}
    /\ UNCHANGED <<network, scripts, shell>>

\* A navigation that reaches no server is answered with a page of the app.
ShellServed == ~reachable /\ active # None /\ shell \in Release

Put ==
    /\ \E answer \in puts : shell' = answer /\ puts' = puts \ {answer}
    /\ UNCHANGED <<network, scripts>>

\* The browser stops a service worker that has nothing to do it knows of.
Kill ==
    /\ puts # {}
    /\ puts' = {}
    /\ UNCHANGED <<network, scripts, shell>>

-----------------------------------------------------------------------------
\* Mutant: only the first script is installed.
IsFirst == reachable /\ waiting = None /\ active = None

\* The script of the server is another than the last one installed.
IsNews == reachable /\ release # IF waiting # None THEN waiting ELSE active

\* register() returns at once; the browser takes up one registration at a time,
\* the next one when the script of the last is installed.
Register ==
    /\ installing' = IF installing = None /\ IsNews THEN release ELSE installing
    /\ UNCHANGED <<network, waiting, active, shell, puts>>

\* The assets are precached, if the server still has them.  A registration that
\* has waited finds another script, or there is none.
Install ==
    /\ installing # None
    /\ waiting' = IF reachable /\ release = installing THEN installing ELSE waiting
    /\ UNCHANGED <<network, active, shell, puts>>
    /\ installing' = None \/ (IsNews' /\ installing' = release)

\* skipWaiting(): it takes over while pages are open, drops the assets of other
\* releases, and claims the pages.
Activate ==
    /\ waiting # None
    /\ active' = waiting
    /\ waiting' = None
    /\ UNCHANGED <<network, installing, shell, puts>>

-----------------------------------------------------------------------------
Deploy ==
    /\ release < MaxRelease
    /\ release' = release + 1
    /\ UNCHANGED <<reachable, cache>>

GoOffline ==
    /\ reachable
    /\ reachable' = FALSE
    /\ UNCHANGED <<release, cache>>

GoOnline ==
    /\ ~reachable
    /\ reachable' = TRUE
    /\ UNCHANGED <<release, cache>>

-----------------------------------------------------------------------------
ShellTypeOK ==
    /\ release \in Release
    /\ reachable \in BOOLEAN
    /\ installing \in Release \cup {None}
    /\ waiting \in Release \cup {None}
    /\ active \in Release \cup {None}
    /\ shell \in Release \cup {None, Useless}
    /\ puts \in SUBSET (Release \cup {Useless})
=============================================================================

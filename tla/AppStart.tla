------------------------------ MODULE AppStart ------------------------------
(***************************************************************************)
(* From a navigation to an app that answers: the pages of a browser, each  *)
(* with its calls and worker (WorkerRpc), behind the service worker        *)
(* (ShellCache), while releases are deployed and the connection comes and  *)
(* goes.                                                                   *)
(***************************************************************************)
EXTENDS WorkerRpc, ShellCache

CONSTANT MaxFaults    \* bound: faults, and pages left before they are up

ASSUME AppAssumption == MaxFaults \in Nat

VARIABLES
    page,      \* "html": shown, "app": its script runs, "open": it has loaded;
               \* "inert" without its script, "unbound" without datastar
    version,   \* the release of the page, or None
    faults     \* ghost: faults spent of MaxFaults

pages == <<page, version>>
vars == <<rpc, cache, network, pages, faults>>

Init ==
    /\ RpcInit
    /\ ShellInit
    /\ page = [t \in Tab |-> "closed"]
    /\ version = [t \in Tab |-> None]
    /\ faults = 0

Fault == faults < MaxFaults /\ faults' = faults + 1

-----------------------------------------------------------------------------
(* Navigations. *)

Show(t, v) ==
    /\ page' = [page EXCEPT ![t] = "html"]
    /\ version' = [version EXCEPT ![t] = v]

VisitServer(t) ==
    /\ page[t] = "closed"
    /\ Answered(release)
    /\ Show(t, release)
    /\ UNCHANGED <<rpc, faults>>

\* An error of the server, or a page that is not the app.
VisitElsewhere(t) ==
    /\ page[t] = "closed"
    /\ Fault
    /\ Answered(Useless)
    /\ UNCHANGED <<rpc, pages>>

VisitOffline(t) ==
    /\ page[t] = "closed"
    /\ ShellServed
    /\ Show(t, shell)
    /\ UNCHANGED <<rpc, cache, network, faults>>

-----------------------------------------------------------------------------
(* The page. *)

\* The script of the page makes the worker; without it the page is inert.
LoadScript(t) ==
    /\ page[t] = "html"
    /\ IF Fetched(version[t])
       THEN page' = [page EXCEPT ![t] = "app"] /\ NewWorker(t)
       ELSE page' = [page EXCEPT ![t] = "inert"] /\ UNCHANGED rpc
    /\ UNCHANGED <<cache, network, version, faults>>

\* The worker's script and wasm, which have names of the same release; init_db.
LoadWorker(t) ==
    /\ IF Fetched(version[t]) THEN InitDb(t) \/ PoolIsTaken(t) ELSE WorkerIsLost(t)
    /\ UNCHANGED <<cache, network, pages, faults>>

StorageFails(t) ==
    /\ Fetched(version[t])
    /\ Fault
    /\ InitFails(t)
    /\ UNCHANGED <<cache, network, pages>>

\* The "load" event, and the end of the script's import of datastar, without
\* which the buttons of the page do nothing.
Loaded(t) ==
    /\ page[t] = "app"
    /\ page' = [page EXCEPT ![t] = IF Fetched(version[t]) THEN "open" ELSE "unbound"]
    /\ Register
    /\ UNCHANGED <<rpc, version, faults>>

Uses(t) == Call(t) /\ UNCHANGED <<cache, network, pages, faults>>
Hears(t) == Messages(t) /\ UNCHANGED <<cache, network, pages, faults>>

IsUp(t) ==
    page[t] \in {"inert", "unbound"} \/ (page[t] = "open" /\ worker[t] \in {"ready", "failed"})

Leave(t) ==
    /\ page[t] # "closed"
    /\ IF IsUp(t) THEN UNCHANGED faults ELSE Fault
    /\ page' = [page EXCEPT ![t] = "closed"]
    /\ version' = [version EXCEPT ![t] = None]
    /\ Terminate(t)
    /\ UNCHANGED <<cache, network>>

-----------------------------------------------------------------------------
ServiceWorker(step) == step /\ UNCHANGED <<rpc, pages, faults>>

FilesReleased == ReleasePool /\ UNCHANGED <<cache, network, pages, faults>>

World ==
    /\ \/ (Kill \/ GoOffline) /\ Fault
       \/ Deploy /\ UNCHANGED faults
    /\ UNCHANGED <<rpc, pages>>

ConnectionIsBack == GoOnline /\ UNCHANGED <<rpc, pages, faults>>

PageStep(t) == LoadScript(t) \/ LoadWorker(t) \/ Loaded(t)

Next ==
    \/ \E t \in Tab :
           \/ VisitServer(t) \/ VisitElsewhere(t) \/ VisitOffline(t)
           \/ PageStep(t) \/ StorageFails(t) \/ Uses(t) \/ Hears(t) \/ Leave(t)
    \/ ServiceWorker(Put) \/ ServiceWorker(Install \/ Activate)
    \/ FilesReleased
    \/ World \/ ConnectionIsBack

Spec == Init /\ [][Next]_vars

\* Pages and browser do what is ready, and the connection comes back.
FairSpec ==
    /\ Spec
    /\ \A t \in Tab : WF_vars(PageStep(t) \/ Hears(t))
    /\ WF_vars(ServiceWorker(Put))
    /\ WF_vars(ServiceWorker(Install \/ Activate))
    /\ WF_vars(FilesReleased) /\ WF_vars(ConnectionIsBack)

\* A user who has seen what a page is up to leaves it and comes back.
Revisits ==
    /\ WF_vars(\E t \in Tab : VisitServer(t))
    /\ \A t \in Tab : WF_vars(IsUp(t) /\ Leave(t))

-----------------------------------------------------------------------------
(* Properties. *)

TypeOK ==
    /\ RpcTypeOK
    /\ ShellTypeOK
    /\ page \in [Tab -> {"closed", "html", "inert", "app", "open", "unbound"}]
    /\ version \in [Tab -> Release \cup {None}]
    /\ faults \in Nat

\* However start-ups of several tabs meet at the pool, workers are terminated
\* with it, or deployments take the assets of a page that loads: a user who
\* comes back finds, again and again, an app that works.
ComesUp == Revisits => []<>(\E t \in Tab : worker[t] = "ready" /\ page[t] = "open")

\* The next navigation that reaches no server gets an app whose assets are there.
ReopensOffline == active # None /\ shell = active

\* When deployments are over and the user comes back, the app can be opened
\* offline, for good, whatever answers and stores were lost, late or useless.
EndsUpOffline == Revisits => <>[]ReopensOffline
=============================================================================

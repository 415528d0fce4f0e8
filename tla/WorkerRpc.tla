----------------------------- MODULE WorkerRpc ------------------------------
(***************************************************************************)
(* The calls of a page to its worker (call() and the message listeners of  *)
(* web/src/offline.ts and worker.ts), and how the worker gets the local    *)
(* database (init_db of crates/client): the pages of one browser, in tabs, *)
(* have a worker each, and the pool of OPFS files is one worker's at a     *)
(* time.                                                                   *)
(*                                                                         *)
(* A call is its rid, which is also its result: an answer that throws      *)
(* settles a call as well as one that does not.                            *)
(***************************************************************************)
EXTENDS Naturals, Sequences

CONSTANTS
    Tab,      \* the tabs of the browser
    NoTab,    \* the pool is free
    Closing,  \* the pool is held by a worker that was terminated
    MaxCalls  \* bound: calls made by one page of each tab

ASSUME RpcAssumption ==
    /\ NoTab \notin Tab /\ Closing \notin Tab /\ NoTab # Closing
    /\ MaxCalls \in [Tab -> Nat]

Rid == Nat \ {0}
Ready == 0    \* the sentinel among the messages of the worker

VARIABLES
    worker,   \* how far the worker of each tab is
    pool,     \* the tab whose worker holds the pool
    made,     \* the last rid of the page
    marked,   \* workerReady is resolved
    pending,  \* the calls that wait for an answer
    inbox,    \* messages to the worker
    outbox,   \* messages to the page
    ran,      \* ghost: the calls run, in order
    settled   \* ghost: the calls answered, in order

channels == <<inbox, outbox>>
ghosts == <<ran, settled>>
rpc == <<worker, pool, made, marked, pending, channels, ghosts>>

RpcInit ==
    /\ worker = [t \in Tab |-> "none"]
    /\ pool = NoTab
    /\ made = [t \in Tab |-> 0]
    /\ marked = [t \in Tab |-> FALSE]
    /\ pending = [t \in Tab |-> {}]
    /\ inbox = [t \in Tab |-> <<>>]
    /\ outbox = [t \in Tab |-> <<>>]
    /\ ran = [t \in Tab |-> <<>>]
    /\ settled = [t \in Tab |-> <<>>]

-----------------------------------------------------------------------------
(* The worker starts. *)

WorkerIs(t, before, after) == worker[t] = before /\ worker' = [worker EXCEPT ![t] = after]

NewWorker(t) ==
    /\ WorkerIs(t, "none", "loading")
    /\ UNCHANGED <<pool, made, marked, pending, channels, ghosts>>

\* Its module cannot be had, and nobody listens for the error.
WorkerIsLost(t) ==
    /\ WorkerIs(t, "loading", "failed")
    /\ UNCHANGED <<pool, made, marked, pending, channels, ghosts>>

\* Its module is evaluated, and init_db succeeds.
InitDb(t) ==
    /\ WorkerIs(t, "loading", "ready")
    /\ pool = NoTab
    /\ pool' = t
    /\ outbox' = [outbox EXCEPT ![t] = Append(@, Ready)]
    /\ UNCHANGED <<made, marked, pending, inbox, ghosts>>

\* ensure_sahpool fails on a pool that is taken: no sentinel is sent.
PoolIsTaken(t) ==
    /\ WorkerIs(t, "loading", "failed")
    /\ pool # NoTab
    /\ UNCHANGED <<pool, made, marked, pending, channels, ghosts>>

\* It fails otherwise, before it has the pool or, in ensure_schema, after.
InitFails(t) ==
    /\ WorkerIs(t, "loading", "failed")
    /\ pool' \in IF pool = NoTab THEN {NoTab, t} ELSE {pool}
    /\ UNCHANGED <<made, marked, pending, channels, ghosts>>

-----------------------------------------------------------------------------
(* Calls. *)

\* The browser drops what is posted to a module that is not evaluated yet.
Posted(t, rids) ==
    inbox' = [inbox EXCEPT ![t] = IF worker[t] = "loading" THEN @ ELSE @ \o rids]

\* Mutants: a call goes by the rid before it is counted up; of the held calls
\* the latest goes first, or none.
CountedLate(t) == IF marked[t] THEN <<made[t]>> ELSE <<>>
NoneHeld(t) == <<>>
LatestFirst(t) == [n \in 1..made[t] |-> made[t] + 1 - n]

\* What call() posts now, and what it posts when workerReady resolves.
PostedNow(t) == IF marked[t] THEN <<made[t] + 1>> ELSE <<>>
HeldBack(t) == [n \in 1..made[t] |-> n]

Call(t) ==
    /\ worker[t] # "none"
    /\ made[t] < MaxCalls[t]
    /\ made' = [made EXCEPT ![t] = @ + 1]
    /\ pending' = [pending EXCEPT ![t] = @ \cup {made[t] + 1}]
    /\ Posted(t, PostedNow(t))
    /\ UNCHANGED <<worker, pool, marked, outbox, ghosts>>

\* The worker's listener: a call is dispatched and answered.
RunCall(t) ==
    /\ worker[t] = "ready"
    /\ inbox[t] # <<>>
    /\ inbox' = [inbox EXCEPT ![t] = Tail(@)]
    /\ outbox' = [outbox EXCEPT ![t] = Append(@, Head(inbox[t]))]
    /\ ran' = [ran EXCEPT ![t] = Append(@, Head(inbox[t]))]
    /\ UNCHANGED <<worker, pool, made, marked, pending, settled>>

\* The page's listener gets the sentinel, or an answer.
MarkReady(t) ==
    /\ outbox[t] # <<>> /\ Head(outbox[t]) = Ready
    /\ outbox' = [outbox EXCEPT ![t] = Tail(@)]
    /\ marked' = [marked EXCEPT ![t] = TRUE]
    /\ Posted(t, HeldBack(t))
    /\ UNCHANGED <<worker, pool, made, pending, ghosts>>

Settle(t) ==
    /\ outbox[t] # <<>> /\ Head(outbox[t]) # Ready
    /\ outbox' = [outbox EXCEPT ![t] = Tail(@)]
    /\ pending' = [pending EXCEPT ![t] = @ \ {Head(outbox[t])}]
    /\ settled' = IF Head(outbox[t]) \in pending[t]
                  THEN [settled EXCEPT ![t] = Append(@, Head(outbox[t]))] ELSE settled
    /\ UNCHANGED <<worker, pool, made, marked, inbox, ran>>

-----------------------------------------------------------------------------
\* The page is left: its worker is terminated, and its files are released later.
Terminate(t) ==
    /\ worker' = [worker EXCEPT ![t] = "none"]
    /\ pool' = IF pool = t THEN Closing ELSE pool
    /\ made' = [made EXCEPT ![t] = 0]
    /\ marked' = [marked EXCEPT ![t] = FALSE]
    /\ pending' = [pending EXCEPT ![t] = {}]
    /\ inbox' = [inbox EXCEPT ![t] = <<>>]
    /\ outbox' = [outbox EXCEPT ![t] = <<>>]
    /\ ran' = [ran EXCEPT ![t] = <<>>]
    /\ settled' = [settled EXCEPT ![t] = <<>>]

ReleasePool ==
    /\ pool = Closing
    /\ pool' = NoTab
    /\ UNCHANGED <<worker, made, marked, pending, channels, ghosts>>

Messages(t) == RunCall(t) \/ MarkReady(t) \/ Settle(t)

RpcNext ==
    \/ \E t \in Tab :
           \/ NewWorker(t) \/ InitDb(t)
           \/ WorkerIsLost(t) \/ PoolIsTaken(t) \/ InitFails(t)
           \/ Call(t) \/ Messages(t)
           \/ Terminate(t)
    \/ ReleasePool

RpcSpec == RpcInit /\ [][RpcNext]_rpc

-----------------------------------------------------------------------------
(* Properties. *)

RpcTypeOK ==
    /\ worker \in [Tab -> {"none", "loading", "ready", "failed"}]
    /\ pool \in Tab \cup {NoTab, Closing}
    /\ made \in [Tab -> Nat]
    /\ marked \in [Tab -> BOOLEAN]
    /\ pending \in [Tab -> SUBSET Rid]
    /\ inbox \in [Tab -> Seq(Rid)]
    /\ outbox \in [Tab -> Seq(Rid \cup {Ready})]
    /\ ran \in [Tab -> Seq(Rid)]
    /\ settled \in [Tab -> Seq(Rid)]

\* Calls made before the worker is ready, while it gets ready and after are run
\* once each, in the order they were made, and settled in that order: sync(),
\* which reads in one call what the call before it wrote, relies on it.
Calls == INSTANCE WorkerCalls

ImplementsCalls == Calls!Spec

\* Every call is settled, also one made before the worker was ready, unless
\* the worker failed to start or the page is left.
CallsAreSettled ==
    \A t \in {u \in Tab : MaxCalls[u] > 0} :
        pending[t] # {} ~> pending[t] = {} \/ worker[t] = "failed"
=============================================================================

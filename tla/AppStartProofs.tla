--------------------------- MODULE AppStartProofs ---------------------------
(***************************************************************************)
(* Theorems of AppStart, for any number of tabs, calls, releases and       *)
(* faults: its types, and that the calls of its pages are WorkerCalls.     *)
(***************************************************************************)
EXTENDS AppStart, TLAPS

\* Before the page knows of the sentinel, nothing has gone to the worker.
Quiet(t) ==
    marked[t] = FALSE =>
        /\ inbox[t] = <<>> /\ ran[t] = <<>> /\ settled[t] = <<>>
        /\ outbox[t] = <<>> \/ outbox[t] = <<Ready>>

\* Only a worker that is up speaks, or is known to.
Speaks(t) == worker[t] # "ready" => outbox[t] = <<>> /\ marked[t] = FALSE

\* From then on a call is in one place: settled, answered, in the inbox; each of
\* these holds consecutive calls, and they follow each other.
Counts(t) ==
    /\ made[t] = Len(ran[t]) + Len(inbox[t])
    /\ Len(ran[t]) = Len(settled[t]) + Len(outbox[t])

Queued(t) ==
    /\ \A i \in 1..Len(inbox[t]) : inbox[t][i] = Len(ran[t]) + i
    /\ \A i \in 1..Len(outbox[t]) : outbox[t][i] = Len(settled[t]) + i

InPlace(t) == marked[t] = TRUE => Counts(t) /\ Queued(t)

\* What is not settled waits.
Waits(t) == pending[t] = (Len(settled[t]) + 1)..made[t]

Placed(t) == Quiet(t) /\ Speaks(t) /\ InPlace(t) /\ Waits(t)

RpcInv == RpcTypeOK /\ \A t \in Tab : Placed(t)

\* The state of one tab; what the proofs say of the tabs a step leaves alone.
OneTab(t) == <<worker[t], made[t], marked[t], pending[t], inbox[t], outbox[t],
               ran[t], settled[t]>>

LEMMA OthersKeepTheirPlace ==
    ASSUME RpcInv, NEW u \in Tab, UNCHANGED OneTab(u)
    PROVE  Placed(u)'
<1>1. /\ worker'[u] = worker[u] /\ made'[u] = made[u] /\ marked'[u] = marked[u]
      /\ pending'[u] = pending[u] /\ inbox'[u] = inbox[u] /\ outbox'[u] = outbox[u]
      /\ ran'[u] = ran[u] /\ settled'[u] = settled[u]
    BY DEF OneTab
<1>2. Quiet(u) /\ Speaks(u) /\ InPlace(u) /\ Waits(u)
    BY DEF RpcInv, Placed
<1>3. Quiet(u)' /\ Speaks(u)'
    BY <1>1, <1>2 DEF Quiet, Speaks
<1>4. InPlace(u)'
    <2>1. CASE marked[u] = TRUE
        <3>1. Counts(u) /\ Queued(u)
            BY <1>2, <2>1 DEF InPlace
        <3>2. Counts(u)'
            BY <1>1, <3>1 DEF Counts
        <3>3. Queued(u)'
            BY <1>1, <3>1, Zenon DEF Queued
        <3> QED
            BY <3>2, <3>3 DEF InPlace
    <2>2. CASE marked[u] # TRUE
        BY <1>1, <2>2 DEF InPlace
    <2> QED
        BY <2>1, <2>2
<1>5. Waits(u)'
    BY <1>1, <1>2 DEF Waits
<1> QED
    BY <1>3, <1>4, <1>5 DEF Placed

LEMMA RpcInitially == RpcInit => RpcInv
<1> SUFFICES ASSUME RpcInit PROVE RpcInv
    OBVIOUS
<1>1. RpcTypeOK
    BY DEF RpcInit, RpcTypeOK
<1>2. ASSUME NEW t \in Tab PROVE Placed(t)
    <2>1. /\ worker[t] = "none" /\ made[t] = 0 /\ marked[t] = FALSE /\ pending[t] = {}
          /\ inbox[t] = <<>> /\ outbox[t] = <<>> /\ ran[t] = <<>> /\ settled[t] = <<>>
        BY DEF RpcInit
    <2> QED
        BY <2>1 DEF Placed, Quiet, Speaks, InPlace, Counts, Queued, Waits
<1> QED
    BY <1>1, <1>2 DEF RpcInv

-----------------------------------------------------------------------------
(* One lemma per kind of step: what it does to its own tab, and which step  *)
(* of WorkerCalls it is.                                                   *)

LEMMA StartingKeeps ==
    ASSUME RpcInv, NEW t \in Tab,
           NewWorker(t) \/ WorkerIsLost(t) \/ PoolIsTaken(t) \/ InitFails(t)
    PROVE  RpcInv' /\ UNCHANGED Calls!vars
<1>1. /\ \E before, after \in {"none", "loading", "failed"} : WorkerIs(t, before, after)
      /\ pool' \in Tab \cup {NoTab, Closing}
      /\ UNCHANGED <<made, marked, pending, channels, ghosts>>
    BY DEF RpcInv, RpcTypeOK, NewWorker, WorkerIsLost, PoolIsTaken, InitFails, WorkerIs
<1>2. PICK before \in {"none", "loading", "failed"}, after \in {"none", "loading", "failed"} :
          WorkerIs(t, before, after)
    BY <1>1
<1>3. RpcTypeOK'
    BY <1>1, <1>2 DEF RpcInv, RpcTypeOK, WorkerIs, channels, ghosts
<1>4. Placed(t)'
    BY <1>1, <1>2 DEF RpcInv, RpcTypeOK, Placed, Quiet, Speaks, InPlace, Counts, Queued, Waits,
                      WorkerIs, channels, ghosts
<1>5. \A u \in Tab : u # t => UNCHANGED OneTab(u)
    BY <1>1, <1>2 DEF OneTab, RpcInv, RpcTypeOK, WorkerIs, channels, ghosts
<1> QED
    BY <1>1, <1>3, <1>4, <1>5, OthersKeepTheirPlace DEF RpcInv, Calls!vars, ghosts

LEMMA InitDbKeeps ==
    ASSUME RpcInv, NEW t \in Tab, InitDb(t)
    PROVE  RpcInv' /\ UNCHANGED Calls!vars
<1>f. RpcTypeOK /\ Quiet(t) /\ Speaks(t) /\ InPlace(t) /\ Waits(t)
    BY DEF RpcInv, Placed
<1>1. RpcTypeOK'
    BY DEF RpcInv, RpcTypeOK, InitDb, WorkerIs, ghosts
<1>2. outbox[t] = <<>> /\ marked[t] = FALSE /\ outbox'[t] = <<Ready>> /\ worker'[t] = "ready"
    <2>1. worker[t] = "loading" /\ worker'[t] = "ready" /\ outbox'[t] = Append(outbox[t], Ready)
        BY DEF RpcInv, RpcTypeOK, InitDb, WorkerIs
    <2>2. outbox[t] = <<>> /\ marked[t] = FALSE
        BY <1>f, <2>1 DEF RpcTypeOK, Speaks
    <2> QED
        BY <2>1, <2>2
<1>3. Placed(t)'
    BY <1>2 DEF RpcInv, RpcTypeOK, Placed, Quiet, Speaks, InPlace, Counts, Queued, Waits, InitDb, ghosts
<1>4. \A u \in Tab : u # t => UNCHANGED OneTab(u)
    BY DEF OneTab, RpcInv, RpcTypeOK, InitDb, WorkerIs, ghosts
<1> QED
    BY <1>1, <1>3, <1>4, OthersKeepTheirPlace DEF RpcInv, InitDb, Calls!vars, ghosts

LEMMA CallKeeps ==
    ASSUME RpcInv, NEW t \in Tab, Call(t)
    PROVE  RpcInv' /\ Calls!Call(t)
<1>f. RpcTypeOK /\ Quiet(t) /\ Speaks(t) /\ InPlace(t) /\ Waits(t)
    BY DEF RpcInv, Placed
<1>1. /\ made'[t] = made[t] + 1 /\ pending'[t] = pending[t] \cup {made[t] + 1}
      /\ worker'[t] = worker[t] /\ marked'[t] = marked[t] /\ outbox'[t] = outbox[t]
      /\ ran'[t] = ran[t] /\ settled'[t] = settled[t]
    BY DEF RpcInv, RpcTypeOK, Call, ghosts
<1>2. PostedNow(t) = IF marked[t] = TRUE THEN <<made[t] + 1>> ELSE <<>>
    BY <1>f, Zenon DEF RpcTypeOK, PostedNow
<1>3. made[t] + 1 \in Rid
    BY <1>f DEF RpcTypeOK, Rid
<1>4. inbox'[t] = IF worker[t] = "loading" THEN inbox[t] ELSE inbox[t] \o PostedNow(t)
    BY DEF RpcInv, RpcTypeOK, Call, Posted
<1>5. RpcTypeOK'
    <2>1. PostedNow(t) \in Seq(Rid)
        BY <1>2, <1>3
    <2>2. inbox' \in [Tab -> Seq(Rid)]
        BY <2>1 DEF RpcInv, RpcTypeOK, Call, Posted
    <2>3. made' \in [Tab -> Nat] /\ pending' \in [Tab -> SUBSET Rid]
        BY <1>3 DEF RpcInv, RpcTypeOK, Call
    <2> QED
        BY <2>2, <2>3 DEF RpcInv, RpcTypeOK, Call, ghosts
<1>6. Len(settled[t]) \in Nat /\ Len(settled[t]) <= made[t]
    <2>1. CASE marked[t] = FALSE
        BY <1>f, <2>1 DEF RpcTypeOK, Quiet
    <2>2. CASE marked[t] = TRUE
        BY <2>2, <1>f DEF RpcTypeOK, InPlace, Counts
    <2> QED
        BY <2>1, <2>2, <1>f DEF RpcTypeOK
<1>7. Waits(t)'
    BY <1>1, <1>6, <1>f DEF RpcTypeOK, Waits
<1>8. ASSUME marked[t] = FALSE PROVE Placed(t)'
    <2>1. inbox'[t] = <<>>
        BY <1>2, <1>4, <1>8, <1>f DEF RpcTypeOK, Quiet
    <2>2. Quiet(t)' /\ Speaks(t)'
        BY <1>1, <1>8, <1>f, <2>1 DEF RpcTypeOK, Quiet, Speaks
    <2>3. InPlace(t)'
        BY <1>1, <1>8 DEF InPlace
    <2> QED
        BY <1>7, <2>2, <2>3 DEF Placed
<1>9. ASSUME marked[t] = TRUE PROVE Placed(t)'
    <2>1. worker[t] = "ready"
        BY <1>9, <1>f DEF RpcTypeOK, Speaks
    <2>2. inbox'[t] = inbox[t] \o <<made[t] + 1>>
        BY <1>2, <1>4, <1>9, <2>1
    <2>3. /\ Len(inbox'[t]) = Len(inbox[t]) + 1
          /\ \A i \in 1..Len(inbox[t]) : inbox'[t][i] = inbox[t][i]
          /\ inbox'[t][Len(inbox[t]) + 1] = made[t] + 1
        BY <1>3, <2>2, <1>f DEF RpcTypeOK
    <2>4. Counts(t)' /\ Queued(t)'
        <3>1. /\ made[t] + 1 = Len(ran[t]) + (Len(inbox[t]) + 1)
              /\ Len(ran[t]) = Len(settled[t]) + Len(outbox[t])
              /\ Len(inbox[t]) \in Nat
            BY <1>9, <1>f DEF RpcTypeOK, InPlace, Counts
        <3>2. Counts(t)'
            BY <1>1, <2>3, <3>1, Zenon DEF Counts
        <3>3. Queued(t)
            BY <1>9, <1>f DEF InPlace
        <3>4. ASSUME NEW i \in 1..(Len(inbox[t]) + 1)
              PROVE  inbox'[t][i] = Len(ran[t]) + i
            <4>1. i \in 1..Len(inbox[t]) \/ i = Len(inbox[t]) + 1
                BY <3>1
            <4>2. CASE i \in 1..Len(inbox[t])
                BY <2>3, <3>3, <4>2, Zenon DEF Queued
            <4>3. CASE i = Len(inbox[t]) + 1
                BY <2>3, <3>1, <4>3, Zenon
            <4> QED
                BY <4>1, <4>2, <4>3
        <3>5. Queued(t)'
            BY <1>1, <2>3, <3>3, <3>4, Zenon DEF Queued
        <3> QED
            BY <3>2, <3>5
    <2>5. Quiet(t)' /\ Speaks(t)'
        BY <1>1, <1>9, <1>f, <2>1 DEF RpcTypeOK, Quiet, Speaks
    <2> QED
        BY <1>7, <2>4, <2>5 DEF Placed, InPlace
<1>10. \A u \in Tab : u # t => UNCHANGED OneTab(u)
    BY DEF OneTab, RpcInv, RpcTypeOK, Call, Posted, ghosts
<1>11. Calls!Call(t)
    BY DEF Call, Calls!Call, ghosts
<1>12. Placed(t)'
    BY <1>8, <1>9, <1>f DEF RpcTypeOK
<1> QED
    BY <1>5, <1>10, <1>11, <1>12, OthersKeepTheirPlace DEF RpcInv

\* The first call in the inbox is the next to be run.
LEMMA RunCallKeeps ==
    ASSUME RpcInv, NEW t \in Tab, RunCall(t)
    PROVE  RpcInv' /\ Calls!Run(t)
<1>f. RpcTypeOK /\ Quiet(t) /\ Speaks(t) /\ InPlace(t) /\ Waits(t)
    BY DEF RpcInv, Placed
<1>1. inbox[t] # <<>> /\ worker[t] = "ready"
    BY DEF RunCall
<1>2. marked[t] = TRUE
    BY <1>1, <1>f DEF RpcTypeOK, Quiet
<1>3. Len(inbox[t]) \in Nat /\ Len(inbox[t]) > 0 /\ Head(inbox[t]) = inbox[t][1]
    BY <1>1, <1>f DEF RpcTypeOK
<1>4. Head(inbox[t]) = Len(ran[t]) + 1 /\ Len(ran[t]) < made[t]
    BY <1>2, <1>3, <1>f DEF RpcTypeOK, InPlace, Counts, Queued
<1>5. Len(ran[t]) + 1 \in Rid
    BY <1>f DEF RpcTypeOK, Rid
<1>6. /\ inbox'[t] = Tail(inbox[t])
      /\ outbox'[t] = Append(outbox[t], Len(ran[t]) + 1)
      /\ ran'[t] = Append(ran[t], Len(ran[t]) + 1)
      /\ worker'[t] = worker[t] /\ made'[t] = made[t] /\ marked'[t] = marked[t]
      /\ pending'[t] = pending[t] /\ settled'[t] = settled[t]
    BY <1>4 DEF RpcInv, RpcTypeOK, RunCall
<1>7. RpcTypeOK'
    <2>1. inbox' \in [Tab -> Seq(Rid)]
        BY <1>1 DEF RpcInv, RpcTypeOK, RunCall
    <2>2. outbox' \in [Tab -> Seq(Rid \cup {Ready})]
        <3>1. /\ outbox' = [outbox EXCEPT ![t] = Append(outbox[t], Len(ran[t]) + 1)]
              /\ outbox \in [Tab -> Seq(Rid \cup {Ready})]
            BY <1>4, <1>f DEF RpcTypeOK, RunCall
        <3>2. Append(outbox[t], Len(ran[t]) + 1) \in Seq(Rid \cup {Ready})
            BY <1>5, <3>1
        <3> QED
            BY <3>1, <3>2
    <2>3. ran' \in [Tab -> Seq(Rid)]
        <3>1. /\ ran' = [ran EXCEPT ![t] = Append(ran[t], Len(ran[t]) + 1)]
              /\ ran \in [Tab -> Seq(Rid)]
            BY <1>4, <1>f DEF RpcTypeOK, RunCall
        <3>2. Append(ran[t], Len(ran[t]) + 1) \in Seq(Rid)
            BY <1>5, <3>1
        <3> QED
            BY <3>1, <3>2
    <2> QED
        BY <2>1, <2>2, <2>3 DEF RpcInv, RpcTypeOK, RunCall
<1>8. InPlace(t)'
    <2>1. /\ Len(inbox'[t]) = Len(inbox[t]) - 1
          /\ \A i \in 1..Len(inbox'[t]) : inbox'[t][i] = inbox[t][i + 1]
        BY <1>1, <1>6, <1>f DEF RpcTypeOK
    <2>2. Len(ran'[t]) = Len(ran[t]) + 1
        BY <1>5, <1>6, <1>f DEF RpcTypeOK
    <2>3. /\ Len(outbox'[t]) = Len(outbox[t]) + 1
          /\ \A i \in 1..Len(outbox[t]) : outbox'[t][i] = outbox[t][i]
          /\ outbox'[t][Len(outbox[t]) + 1] = Len(ran[t]) + 1
        BY <1>5, <1>6, <1>f DEF RpcTypeOK
    <2>4. \A i \in 1..Len(inbox'[t]) : inbox'[t][i] = Len(ran'[t]) + i
        <3>1. Queued(t)
            BY <1>2, <1>f DEF InPlace
        <3>2. ASSUME NEW i \in 1..(Len(inbox[t]) - 1)
              PROVE  inbox[t][i + 1] = (Len(ran[t]) + 1) + i
            <4>1. i + 1 \in 1..Len(inbox[t])
                BY <1>3
            <4>2. inbox[t][i + 1] = Len(ran[t]) + (i + 1)
                BY <3>1, <4>1 DEF Queued
            <4>3. Len(ran[t]) \in Nat
                BY <1>f DEF RpcTypeOK
            <4> QED
                BY <4>2, <4>3
        <3> QED
            BY <2>1, <2>2, <3>2, Zenon
    <2>5. \A i \in 1..Len(outbox'[t]) : outbox'[t][i] = Len(settled'[t]) + i
        <3>1. /\ \A i \in 1..Len(outbox[t]) : outbox[t][i] = Len(settled[t]) + i
              /\ Len(ran[t]) + 1 = Len(settled[t]) + (Len(outbox[t]) + 1)
              /\ Len(outbox[t]) \in Nat
            BY <1>2, <1>f DEF RpcTypeOK, InPlace, Counts, Queued
        <3>2. ASSUME NEW i \in 1..(Len(outbox[t]) + 1)
              PROVE  outbox'[t][i] = Len(settled[t]) + i
            <4>1. i \in 1..Len(outbox[t]) \/ i = Len(outbox[t]) + 1
                BY <3>1
            <4>2. CASE i \in 1..Len(outbox[t])
                BY <2>3, <3>1, <4>2, Zenon
            <4>3. CASE i = Len(outbox[t]) + 1
                BY <2>3, <3>1, <4>3, Zenon
            <4> QED
                BY <4>1, <4>2, <4>3
        <3> QED
            BY <1>6, <2>3, <3>2, Zenon
    <2>6. Counts(t)'
        <3>1. /\ made[t] = (Len(ran[t]) + 1) + (Len(inbox[t]) - 1)
              /\ Len(ran[t]) + 1 = Len(settled[t]) + (Len(outbox[t]) + 1)
            <4>1. Counts(t)
                BY <1>2, <1>f DEF InPlace
            <4>2. /\ Len(ran[t]) \in Nat /\ Len(inbox[t]) \in Nat
                  /\ Len(settled[t]) \in Nat /\ Len(outbox[t]) \in Nat
                BY <1>f DEF RpcTypeOK
            <4> QED
                BY <1>f, <4>1, <4>2 DEF RpcTypeOK, Counts
        <3> QED
            BY <1>6, <2>1, <2>2, <2>3, <3>1, Zenon DEF Counts
    <2> QED
        BY <2>4, <2>5, <2>6 DEF InPlace, Queued
<1>9. Placed(t)'
    BY <1>1, <1>2, <1>6, <1>8, <1>f DEF RpcTypeOK, Placed, Quiet, Speaks, Waits
<1>10. \A u \in Tab : u # t => UNCHANGED OneTab(u)
    BY DEF OneTab, RpcInv, RpcTypeOK, RunCall
<1>11. Calls!Run(t)
    BY <1>4 DEF RunCall, Calls!Run
<1> QED
    BY <1>7, <1>9, <1>10, <1>11, OthersKeepTheirPlace DEF RpcInv

LEMMA MarkReadyKeeps ==
    ASSUME RpcInv, NEW t \in Tab, MarkReady(t)
    PROVE  RpcInv' /\ UNCHANGED Calls!vars
<1>f. RpcTypeOK /\ Quiet(t) /\ Speaks(t) /\ InPlace(t) /\ Waits(t)
    BY DEF RpcInv, Placed
<1>1. outbox[t] # <<>> /\ Head(outbox[t]) = 0
    BY DEF MarkReady, Ready
<1>2. Len(outbox[t]) \in Nat /\ Len(outbox[t]) > 0 /\ outbox[t][1] = 0
    BY <1>1, <1>f DEF RpcTypeOK
<1>3. marked[t] = FALSE
    <2>1. 1 \in 1..Len(outbox[t]) /\ Len(settled[t]) + 1 # 0
        BY <1>2, <1>f DEF RpcTypeOK
    <2>2. marked[t] # TRUE
        BY <1>2, <1>f, <2>1, Zenon DEF InPlace, Queued
    <2> QED
        BY <1>f, <2>2 DEF RpcTypeOK
<1>4. /\ inbox[t] = <<>> /\ ran[t] = <<>> /\ settled[t] = <<>>
      /\ outbox[t] = <<Ready>> /\ worker[t] = "ready"
    BY <1>1, <1>3, <1>f DEF RpcTypeOK, Quiet, Speaks
<1>5. /\ HeldBack(t) \in Seq(Rid) /\ Len(HeldBack(t)) = made[t]
      /\ \A i \in 1..made[t] : HeldBack(t)[i] = i
    <2>1. made[t] \in Nat
        BY <1>f DEF RpcTypeOK
    <2>2. ASSUME NEW m \in Nat
          PROVE  /\ [n \in 1..m |-> n] \in Seq(Rid)
                 /\ Len([n \in 1..m |-> n]) = m
        BY DEF Rid
    <2> QED
        BY <2>1, <2>2 DEF HeldBack
<1>6. inbox'[t] = HeldBack(t)
    BY <1>4, <1>5 DEF RpcInv, RpcTypeOK, MarkReady, Posted
<1>7. /\ outbox'[t] = <<>> /\ marked'[t] = TRUE
      /\ worker'[t] = worker[t] /\ made'[t] = made[t] /\ pending'[t] = pending[t]
      /\ ran'[t] = ran[t] /\ settled'[t] = settled[t]
    BY <1>4 DEF RpcInv, RpcTypeOK, MarkReady, ghosts
<1>8. RpcTypeOK'
    <2>1. inbox' \in [Tab -> Seq(Rid)]
        BY <1>4, <1>5 DEF RpcInv, RpcTypeOK, MarkReady, Posted
    <2>2. outbox' \in [Tab -> Seq(Rid \cup {Ready})]
        BY <1>4 DEF RpcInv, RpcTypeOK, MarkReady
    <2> QED
        BY <2>1, <2>2 DEF RpcInv, RpcTypeOK, MarkReady, ghosts
<1>9. Quiet(t)' /\ Speaks(t)' /\ Waits(t)'
    BY <1>4, <1>7, <1>f DEF RpcTypeOK, Quiet, Speaks, Waits
<1>10. InPlace(t)'
    <2>1. Len(ran'[t]) = 0 /\ Len(settled'[t]) = 0 /\ Len(outbox'[t]) = 0
        BY <1>4, <1>7
    <2>2. Len(inbox'[t]) = made[t] /\ \A i \in 1..made[t] : inbox'[t][i] = i
        BY <1>5, <1>6
    <2> QED
        BY <1>7, <2>1, <2>2, <1>f DEF RpcTypeOK, InPlace, Counts, Queued
<1>11. \A u \in Tab : u # t => UNCHANGED OneTab(u)
    BY DEF OneTab, RpcInv, RpcTypeOK, MarkReady, Posted, ghosts
<1> QED
    BY <1>8, <1>9, <1>10, <1>11, OthersKeepTheirPlace
       DEF RpcInv, Placed, MarkReady, Calls!vars, ghosts

\* The next call in the outbox is the first that waits.
LEMMA SettleKeeps ==
    ASSUME RpcInv, NEW t \in Tab, Settle(t)
    PROVE  RpcInv' /\ Calls!Answer(t)
<1>f. RpcTypeOK /\ Quiet(t) /\ Speaks(t) /\ InPlace(t) /\ Waits(t)
    BY DEF RpcInv, Placed
<1>1. outbox[t] # <<>> /\ Head(outbox[t]) # Ready
    BY DEF Settle
<1>2. marked[t] = TRUE
    BY <1>1, <1>f DEF RpcTypeOK, Quiet
<1>3. /\ Len(outbox[t]) \in Nat /\ Len(outbox[t]) > 0 /\ Head(outbox[t]) = outbox[t][1]
      /\ Len(inbox[t]) \in Nat /\ Len(ran[t]) \in Nat /\ Len(settled[t]) \in Nat
    BY <1>1, <1>f DEF RpcTypeOK
<1>4. /\ Head(outbox[t]) = Len(settled[t]) + 1
      /\ Len(settled[t]) < Len(ran[t]) /\ Len(ran[t]) <= made[t]
    BY <1>2, <1>3, <1>f DEF RpcTypeOK, InPlace, Counts, Queued
<1>5. Head(outbox[t]) \in pending[t] /\ Len(settled[t]) + 1 \in Rid
    <2>1. Len(settled[t]) + 1 \in (Len(settled[t]) + 1)..made[t]
        BY <1>3, <1>4, <1>f DEF RpcTypeOK
    <2> QED
        BY <1>3, <1>4, <1>f, <2>1 DEF Waits, Rid
<1>6. /\ outbox'[t] = Tail(outbox[t])
      /\ settled'[t] = Append(settled[t], Len(settled[t]) + 1)
      /\ pending'[t] = pending[t] \ {Len(settled[t]) + 1}
      /\ worker'[t] = worker[t] /\ made'[t] = made[t] /\ marked'[t] = marked[t]
      /\ inbox'[t] = inbox[t] /\ ran'[t] = ran[t]
    BY <1>4, <1>5 DEF RpcInv, RpcTypeOK, Settle
<1>7. RpcTypeOK'
    <2>1. outbox' \in [Tab -> Seq(Rid \cup {Ready})]
        <3>1. /\ outbox' = [outbox EXCEPT ![t] = Tail(outbox[t])]
              /\ outbox \in [Tab -> Seq(Rid \cup {Ready})]
            BY <1>f DEF RpcTypeOK, Settle
        <3>2. Tail(outbox[t]) \in Seq(Rid \cup {Ready})
            BY <1>1, <3>1
        <3> QED
            BY <3>1, <3>2
    <2>2. settled' \in [Tab -> Seq(Rid)]
        BY <1>4, <1>5 DEF RpcInv, RpcTypeOK, Settle
    <2> QED
        BY <2>1, <2>2 DEF RpcInv, RpcTypeOK, Settle
<1>8. Len(settled'[t]) = Len(settled[t]) + 1
    BY <1>5, <1>6, <1>f DEF RpcTypeOK
<1>9. InPlace(t)'
    <2>1. /\ Len(outbox'[t]) = Len(outbox[t]) - 1
          /\ \A i \in 1..Len(outbox'[t]) : outbox'[t][i] = outbox[t][i + 1]
        BY <1>1, <1>6, <1>f DEF RpcTypeOK
    <2>2. \A i \in 1..Len(outbox'[t]) : outbox'[t][i] = Len(settled'[t]) + i
        BY <1>2, <1>3, <1>8, <1>f, <2>1 DEF RpcTypeOK, InPlace, Counts, Queued
    <2>3. \A i \in 1..Len(inbox'[t]) : inbox'[t][i] = Len(ran'[t]) + i
        BY <1>2, <1>6, <1>f DEF InPlace, Queued
    <2>4. Counts(t)'
        <3>1. /\ made[t] = Len(ran[t]) + Len(inbox[t])
              /\ Len(ran[t]) = (Len(settled[t]) + 1) + (Len(outbox[t]) - 1)
            <4>1. Counts(t)
                BY <1>2, <1>f DEF InPlace
            <4>2. /\ Len(ran[t]) \in Nat /\ Len(inbox[t]) \in Nat
                  /\ Len(settled[t]) \in Nat /\ Len(outbox[t]) \in Nat
                BY <1>f DEF RpcTypeOK
            <4> QED
                BY <1>f, <4>1, <4>2 DEF RpcTypeOK, Counts
        <3> QED
            BY <1>6, <1>8, <2>1, <3>1, Zenon DEF Counts
    <2> QED
        BY <2>2, <2>3, <2>4 DEF InPlace, Queued
<1>10. Waits(t)'
    <2>1. Len(settled[t]) \in Nat /\ made[t] \in Nat
        BY <1>f DEF RpcTypeOK
    <2>2. ((Len(settled[t]) + 1)..made[t]) \ {Len(settled[t]) + 1}
              = ((Len(settled[t]) + 1) + 1)..made[t]
        BY <2>1
    <2> QED
        BY <1>6, <1>8, <1>f, <2>2, Zenon DEF Waits
<1>11. Placed(t)'
    BY <1>2, <1>6, <1>9, <1>10, <1>f DEF RpcTypeOK, Placed, Quiet, Speaks
<1>12. \A u \in Tab : u # t => UNCHANGED OneTab(u)
    BY <1>5 DEF OneTab, RpcInv, RpcTypeOK, Settle
<1>13. Calls!Answer(t)
    BY <1>4, <1>5 DEF Settle, Calls!Answer
<1> QED
    BY <1>7, <1>11, <1>12, <1>13, OthersKeepTheirPlace DEF RpcInv

LEMMA TerminateKeeps ==
    ASSUME RpcInv, NEW t \in Tab, Terminate(t)
    PROVE  RpcInv' /\ Calls!Leave(t)
<1>1. RpcTypeOK'
    BY DEF RpcInv, RpcTypeOK, Terminate
<1>2. /\ worker'[t] = "none" /\ made'[t] = 0 /\ marked'[t] = FALSE /\ pending'[t] = {}
      /\ inbox'[t] = <<>> /\ outbox'[t] = <<>> /\ ran'[t] = <<>> /\ settled'[t] = <<>>
    BY DEF RpcInv, RpcTypeOK, Terminate
<1>3. Placed(t)'
    BY <1>2 DEF Placed, Quiet, Speaks, InPlace, Counts, Queued, Waits
<1>4. \A u \in Tab : u # t => UNCHANGED OneTab(u)
    BY DEF OneTab, RpcInv, RpcTypeOK, Terminate
<1>5. Calls!Leave(t)
    BY DEF Terminate, Calls!Leave
<1> QED
    BY <1>1, <1>3, <1>4, <1>5, OthersKeepTheirPlace DEF RpcInv

-----------------------------------------------------------------------------
(* A step of the pages and workers is one of WorkerCalls, or none.          *)

LEMMA RpcSteps ==
    ASSUME RpcInv, [RpcNext]_rpc
    PROVE  RpcInv' /\ [Calls!Next]_Calls!vars
<1>1. CASE UNCHANGED rpc
    <2>1. RpcTypeOK'
        BY <1>1 DEF RpcInv, RpcTypeOK, rpc, channels, ghosts
    <2>2. \A t \in Tab : Placed(t)'
        BY <1>1 DEF RpcInv, Placed, Quiet, Speaks, InPlace, Counts, Queued, Waits, rpc, channels, ghosts
    <2> QED
        BY <1>1, <2>1, <2>2 DEF RpcInv, rpc, ghosts, Calls!vars
<1>2. CASE ReleasePool
    <2>1. RpcTypeOK'
        BY <1>2 DEF RpcInv, RpcTypeOK, ReleasePool, channels, ghosts
    <2>2. \A t \in Tab : Placed(t)'
        BY <1>2 DEF RpcInv, Placed, Quiet, Speaks, InPlace, Counts, Queued, Waits, ReleasePool, channels, ghosts
    <2> QED
        BY <1>2, <2>1, <2>2 DEF RpcInv, ReleasePool, ghosts, Calls!vars
<1>3. ASSUME NEW t \in Tab,
             \/ NewWorker(t) \/ InitDb(t)
             \/ WorkerIsLost(t) \/ PoolIsTaken(t) \/ InitFails(t)
      PROVE  RpcInv' /\ UNCHANGED Calls!vars
    BY <1>3, StartingKeeps, InitDbKeeps
<1>4. ASSUME NEW t \in Tab, Call(t) \/ Messages(t) \/ Terminate(t)
      PROVE  RpcInv' /\ [Calls!Next]_Calls!vars
    BY <1>4, CallKeeps, RunCallKeeps, MarkReadyKeeps, SettleKeeps, TerminateKeeps
       DEF Messages, Calls!Next
<1> QED
    BY <1>1, <1>2, <1>3, <1>4 DEF RpcNext

\* However they start, are left and contend for the pool, pages with workers run
\* and answer their calls once each and in the order they were made (call() and
\* the listeners of offline.ts, the listener of worker.ts).
THEOREM CallsInOrder == RpcSpec => ImplementsCalls
<1>1. RpcInit => Calls!Init
    BY DEF RpcInit, Calls!Init
<1> QED
    BY <1>1, RpcInitially, RpcSteps, PTL DEF RpcSpec, ImplementsCalls, Calls!Spec

-----------------------------------------------------------------------------
(* The app: its steps are steps of the calls, of the shell, or both.        *)

LEMMA AppIsRpc == Next => [RpcNext]_rpc
<1> SUFFICES ASSUME Next PROVE [RpcNext]_rpc
    OBVIOUS
<1>1. ASSUME NEW t \in Tab, VisitServer(t) \/ VisitElsewhere(t) \/ VisitOffline(t)
      PROVE  UNCHANGED rpc
    BY <1>1 DEF VisitServer, VisitElsewhere, VisitOffline
<1>2. ASSUME NEW t \in Tab, PageStep(t)
      PROVE  [RpcNext]_rpc
    BY <1>2 DEF PageStep, LoadScript, LoadWorker, Loaded, RpcNext
<1>3. ASSUME NEW t \in Tab, StorageFails(t) \/ Uses(t) \/ Hears(t) \/ Leave(t)
      PROVE  [RpcNext]_rpc
    BY <1>3 DEF StorageFails, Uses, Hears, Leave, RpcNext
<1>4. CASE ServiceWorker(Put) \/ ServiceWorker(Install \/ Activate) \/ World \/ ConnectionIsBack
    BY <1>4 DEF ServiceWorker, World, ConnectionIsBack
<1>5. CASE FilesReleased
    BY <1>5 DEF FilesReleased, RpcNext
<1> QED
    BY <1>1, <1>2, <1>3, <1>4, <1>5 DEF Next

\* The calls of the app's pages, whatever deployments, service worker and
\* connection do to their start-up (worker.ts, offline.ts, sw.ts).
THEOREM AppCallsInOrder == Spec => ImplementsCalls
<1>1. Init => RpcInit
    BY DEF Init
<1>2. [Next]_vars => [RpcNext]_rpc
    BY AppIsRpc DEF vars
<1>3. Spec => RpcSpec
    BY <1>1, <1>2, PTL DEF Spec, RpcSpec
<1> QED
    BY <1>3, CallsInOrder

AppInv == RpcInv /\ TypeOK

LEMMA ShellStepKeepsTypes ==
    ASSUME ShellTypeOK, ShellAssumption,
           \/ UNCHANGED <<cache, network>>
           \/ \E answer \in Release \cup {Useless} : Answered(answer)
           \/ Register \/ Put \/ Install \/ Activate
           \/ Kill \/ Deploy \/ GoOffline \/ GoOnline
    PROVE  ShellTypeOK'
<1>1. CASE UNCHANGED <<cache, network>>
    BY <1>1 DEF ShellTypeOK, cache, network, scripts
<1>2. CASE \E answer \in Release \cup {Useless} : Answered(answer)
    BY <1>2 DEF ShellTypeOK, Answered, network, scripts
<1>3. CASE Register \/ Install \/ Activate
    BY <1>3 DEF ShellTypeOK, Register, Install, Activate, IsNews, network
<1>4. CASE Put \/ Kill
    BY <1>4 DEF ShellTypeOK, Put, Kill, network, scripts
<1>5. CASE Deploy
    BY <1>5 DEF ShellTypeOK, Deploy, Release, cache, scripts, ShellAssumption
<1>6. CASE GoOffline \/ GoOnline
    BY <1>6 DEF ShellTypeOK, GoOffline, GoOnline, cache, scripts
<1> QED
    BY <1>1, <1>2, <1>3, <1>4, <1>5, <1>6

LEMMA AppStepShell ==
    ASSUME ShellTypeOK, Next
    PROVE  \/ UNCHANGED <<cache, network>>
           \/ \E answer \in Release \cup {Useless} : Answered(answer)
           \/ Register \/ Put \/ Install \/ Activate
           \/ Kill \/ Deploy \/ GoOffline \/ GoOnline
<1>1. ASSUME NEW t \in Tab, VisitServer(t) \/ VisitElsewhere(t) \/ VisitOffline(t)
      PROVE  \/ UNCHANGED <<cache, network>>
             \/ \E answer \in Release \cup {Useless} : Answered(answer)
    BY <1>1 DEF VisitServer, VisitElsewhere, VisitOffline, ShellTypeOK
<1>2. ASSUME NEW t \in Tab, PageStep(t) \/ StorageFails(t) \/ Uses(t) \/ Hears(t) \/ Leave(t)
      PROVE  UNCHANGED <<cache, network>> \/ Register
    BY <1>2 DEF PageStep, LoadScript, LoadWorker, Loaded, StorageFails, Uses, Hears, Leave
<1>3. CASE ServiceWorker(Put) \/ ServiceWorker(Install \/ Activate) \/ FilesReleased \/ World \/ ConnectionIsBack
    BY <1>3 DEF ServiceWorker, FilesReleased, World, ConnectionIsBack
<1> QED
    BY <1>1, <1>2, <1>3 DEF Next

LEMMA PagesKeepTypes ==
    ASSUME TypeOK, Next, AppAssumption
    PROVE  /\ page' \in [Tab -> {"closed", "html", "inert", "app", "open", "unbound"}]
           /\ version' \in [Tab -> Release \cup {None}]
           /\ faults' \in Nat
<1>1. faults' = faults \/ faults' = faults + 1
    BY DEF Next, VisitServer, VisitElsewhere, VisitOffline, PageStep, LoadScript, LoadWorker,
           Loaded, StorageFails, Uses, Hears, Leave, ServiceWorker, FilesReleased, World, ConnectionIsBack, Fault
<1>2. ASSUME NEW t \in Tab, VisitServer(t) \/ VisitElsewhere(t) \/ VisitOffline(t)
      PROVE  \/ UNCHANGED pages
             \/ \E v \in Release : Show(t, v)
    BY <1>2 DEF VisitServer, VisitElsewhere, VisitOffline, ShellServed, TypeOK, ShellTypeOK
<1>3. ASSUME NEW t \in Tab, PageStep(t) \/ StorageFails(t) \/ Uses(t) \/ Hears(t) \/ Leave(t)
      PROVE  \/ UNCHANGED pages
             \/ /\ \E p \in {"closed", "inert", "app", "open", "unbound"} : page' = [page EXCEPT ![t] = p]
                /\ version' = version \/ version' = [version EXCEPT ![t] = None]
    BY <1>3 DEF PageStep, LoadScript, LoadWorker, Loaded, StorageFails, Uses, Hears, Leave, pages
<1>4. CASE ServiceWorker(Put) \/ ServiceWorker(Install \/ Activate) \/ FilesReleased \/ World \/ ConnectionIsBack
    BY <1>1, <1>4 DEF ServiceWorker, FilesReleased, World, ConnectionIsBack, pages, TypeOK
<1>5. CASE \E t \in Tab : VisitServer(t) \/ VisitElsewhere(t) \/ VisitOffline(t)
    BY <1>1, <1>2, <1>5 DEF Show, pages, TypeOK
<1>6. CASE \E t \in Tab : PageStep(t) \/ StorageFails(t) \/ Uses(t) \/ Hears(t) \/ Leave(t)
    BY <1>1, <1>3, <1>6 DEF pages, TypeOK
<1> QED
    BY <1>4, <1>5, <1>6 DEF Next

\* The pages, their workers and the service worker keep to the states named in
\* worker.ts, offline.ts and sw.ts.
THEOREM AppTypeCorrect == Spec => []TypeOK
<1>1. Init => AppInv
    BY RpcInitially, ShellAssumption
       DEF Init, AppInv, RpcInv, TypeOK, ShellInit, ShellTypeOK, Release, None, ShellAssumption
<1>2. AppInv /\ [Next]_vars => AppInv'
    <2> SUFFICES ASSUME AppInv, [Next]_vars PROVE AppInv'
        OBVIOUS
    <2>1. CASE UNCHANGED vars
        <3>1. RpcInv'
            BY <2>1, RpcSteps DEF AppInv, vars
        <3>2. ShellTypeOK'
            BY <2>1, ShellAssumption, ShellStepKeepsTypes DEF AppInv, TypeOK, vars
        <3> QED
            BY <2>1, <3>1, <3>2 DEF AppInv, RpcInv, TypeOK, vars, pages
    <2>2. CASE Next
        <3>1. RpcInv'
            BY <2>2, AppIsRpc, RpcSteps DEF AppInv
        <3>2. ShellTypeOK'
            BY <2>2, ShellAssumption, AppStepShell, ShellStepKeepsTypes DEF AppInv, TypeOK
        <3> QED
            BY <2>2, <3>1, <3>2, AppAssumption, PagesKeepTypes DEF AppInv, RpcInv, TypeOK
    <2> QED
        BY <2>1, <2>2
<1> QED
    BY <1>1, <1>2, PTL DEF Spec, AppInv
=============================================================================

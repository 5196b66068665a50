-------------------------- MODULE GitWorker_proofs --------------------------
(***************************************************************************)
(* What holds of the git worker for every vault, every bound and every mix  *)
(* of faults: types, the agreement of the refs and what follows from it.    *)
(***************************************************************************)
EXTENDS GitWorkerProps, VaultGit_proofs

LEMMA RootType == Root \in Commit
<1> DEFINE file == [h \in Hunks |-> [ver |-> 0, by |-> IF h = "front" THEN "stamp" ELSE "device"]]
<1>1. file \in File
  BY WritesAssumption DEF File, Edit, Writers
<1>2. Root = [label |-> "root", tree |-> [p \in Paths |-> IF p \in Seeded THEN file ELSE NoFile]]
  BY DEF Root
<1> HIDE DEF file
<1> QED BY <1>1, <1>2 DEF Commit, Labels, Tree

LEMMA InitType == Init => TypeOK
<1> SUFFICES ASSUME Init PROVE TypeOK
  OBVIOUS
<1>1. <<Root>> \in History /\ Root.tree \in Tree
  BY RootType DEF History, Commit
<1>2. /\ queue \in Seq(Event) /\ Len(queue) <= MaxQueue
      /\ 0 \in 0..MaxWrites /\ 0 \in 0..MaxFaults
  BY WritesAssumption, ConfigAssumption DEF Init
<1> QED BY <1>1, <1>2 DEF Init, TypeOK, Steps, PushSteps

\* A version not yet used is an edit.
LEMMA FreshType ==
  ASSUME TypeOK, writes < MaxWrites, NEW source \in Writers
  PROVE  Fresh(source) \in Edit /\ writes + 1 \in 0..MaxWrites
BY WritesAssumption DEF TypeOK, Fresh, Edit

\* What a peer pushes is one more commit.
LEMMA PeerCommit ==
  ASSUME TypeOK, PeerPush
  PROVE  \E c \in Commit : remote' = Append(remote, c)
<1>0. PICK p \in Paths : \E file \in Written(Tip(remote)[p], Fresh("peer")) :
        remote' = Append(remote, [label |-> "peer", tree |-> [Tip(remote) EXCEPT ![p] = file]])
  BY DEF PeerPush
<1>1. PICK file \in Written(Tip(remote)[p], Fresh("peer")) :
        remote' = Append(remote, [label |-> "peer", tree |-> [Tip(remote) EXCEPT ![p] = file]])
  BY <1>0
<1>2. Fresh("peer") \in Edit /\ Tip(remote) \in Tree
  BY FreshType, TipType DEF PeerPush, Writers, TypeOK
<1>3. file \in File
  <2>1. Tip(remote)[p] \in File \cup {NoFile}
    BY <1>2 DEF Tree
  <2> QED BY <1>2, <2>1, WrittenType
<1>4. [label |-> "peer", tree |-> [Tip(remote) EXCEPT ![p] = file]] \in Commit
  BY <1>2, <1>3 DEF Commit, Labels, Tree
<1> QED BY <1>1, <1>4

LEMMA McpEventType ==
  ASSUME NEW op \in Operations, NEW paths \in (SUBSET Paths) \ {{}}
  PROVE  McpWrite(op, paths) \in Event
BY DEF Event

\* What a fault leaves in the two variables it touches.
LEMMA FaultType ==
  ASSUME TypeOK
  PROVE  /\ \A kind : Budget(kind) => faults' \in 0..MaxFaults
         /\ Killed => faults' \in 0..MaxFaults /\ locked' \in BOOLEAN
<1>1. MaxFaults \in Nat /\ faults \in 0..MaxFaults /\ locked \in BOOLEAN
  BY ConfigAssumption DEF TypeOK
<1>2. ASSUME NEW kind, Budget(kind) PROVE faults' \in 0..MaxFaults
  BY <1>1, <1>2 DEF Budget
<1>3. Killed => locked' \in BOOLEAN
  BY <1>1 DEF Killed
<1> QED BY <1>2, <1>3 DEF Killed

-----------------------------------------------------------------------------
(* Where a rebase that is on its way has got to.                            *)

\* Every history starts with the vault's first commit.
SameRoot == \A h \in {head, branch, tracking, remote} : h[1] = Root

\* While the worker's rebase picks, HEAD is the upstream with the first of the
\* branch's own commits on top, and the index is HEAD's; unmerged paths are only ever
\* left by a rebase that is open.
Picking ==
  /\ ~rebasing => unmerged = {}
  /\ pc = "pick" =>
       /\ rebasing /\ unmerged = {} /\ index = Tip(head)
       /\ IsPrefix(tracking, head)
       /\ NextPick - 1 <= Len(branch)

LEMMA PickNumbers ==
  ASSUME TypeOK, SameRoot, Picking, pc = "pick"
  PROVE  LET F == ForkPoint(branch, tracking)
         IN  /\ F \in Nat /\ F >= 1 /\ F <= Len(branch) /\ F <= Len(tracking)
             /\ \A i \in 1..F : branch[i] = tracking[i]
             /\ NextPick - 1 = F + (Len(head) - Len(tracking))
             /\ Len(tracking) <= Len(head) /\ \A i \in 1..Len(tracking) : tracking[i] = head[i]
             /\ NextPick \in Nat /\ NextPick - 1 \in F..Len(branch)
             /\ {Len(head), Len(tracking), Len(branch)} \subseteq Nat \ {0}
<1> DEFINE F == ForkPoint(branch, tracking)
<1>1. /\ {head, branch, tracking} \subseteq History
      /\ {head, tracking} \subseteq Seq(Commit)
  BY DEF TypeOK, History
<1>2. {Len(head), Len(tracking), Len(branch)} \subseteq Nat \ {0}
  BY <1>1, TipType
<1>3. /\ F \in Nat /\ F >= 1 /\ F <= Len(branch) /\ F <= Len(tracking)
      /\ \A i \in 1..F : branch[i] = tracking[i]
  BY <1>1, ForkPointShared DEF SameRoot
<1>4. Len(tracking) <= Len(head) /\ \A i \in 1..Len(tracking) : tracking[i] = head[i]
  BY <1>1, PrefixPoints DEF Picking
<1>5. NextPick = F + (Len(head) - Len(tracking)) + 1 /\ NextPick - 1 <= Len(branch)
  BY DEF NextPick, Picking
<1> HIDE DEF F
<1>6. NextPick - 1 = F + (Len(head) - Len(tracking)) /\ NextPick \in Nat
      /\ NextPick - 1 \in F..Len(branch)
  BY <1>2, <1>3, <1>4, <1>5
<1> QED BY <1>2, <1>3, <1>4, <1>6 DEF F

\* The commit it picks next, and the one that was made on.
LEMMA PickTypes ==
  ASSUME TypeOK, SameRoot, Picking, pc = "pick", ~AllPicked
  PROVE  /\ {branch[NextPick - 1], branch[NextPick]} \subseteq Commit
         /\ {branch[NextPick - 1].tree, branch[NextPick].tree, Tip(head), PickedTree} \subseteq Tree
         /\ Conflicting \subseteq Paths
<1>1. NextPick - 1 \in 1..Len(branch) /\ NextPick \in 1..Len(branch)
  BY PickNumbers DEF AllPicked
<1>2. branch \in Seq(Commit) /\ Tip(head) \in Tree
  BY TipType DEF TypeOK
<1> HIDE DEF NextPick
<1>3. {branch[NextPick - 1], branch[NextPick]} \subseteq Commit
  BY <1>1, <1>2
<1>4. {branch[NextPick - 1].tree, branch[NextPick].tree} \subseteq Tree
  BY <1>3 DEF Commit
<1>5. PickedTree \in Tree
  BY <1>2, <1>4, PickedType DEF PickedTree
<1> QED BY <1>2, <1>3, <1>4, <1>5 DEF Conflicting, ConflictPaths, Changed

\* When none is left, all of the branch's own commits have been picked.
LEMMA PickedAll ==
  ASSUME TypeOK, SameRoot, Picking, pc = "pick", AllPicked
  PROVE  NextPick - 1 = Len(branch)
<1>1. NextPick > Len(branch) /\ NextPick \in Nat /\ NextPick - 1 <= Len(branch) /\ Len(branch) \in Nat
  BY PickNumbers DEF AllPicked
<1> HIDE DEF NextPick
<1> QED BY <1>1

\* Whatever becomes of a pick, disk, index and HEAD keep their types.
LEMMA RebaseTypes ==
  ASSUME TypeOK, SameRoot, Picking
  PROVE  /\ \A tree \in Tree : CheckOut(tree) => {wt', index'} \subseteq Tree
         /\ PickDone => head' \in History /\ {wt', index'} \subseteq Tree
         /\ pc = "pick" /\ PickHalts => unmerged' \subseteq Paths /\ {wt', index'} \subseteq Tree
<1>1. ASSUME NEW tree \in Tree, CheckOut(tree) PROVE {wt', index'} \subseteq Tree
  BY <1>1, TreeTypes DEF CheckOut, TypeOK
<1>2. ASSUME PickDone PROVE head' \in History /\ {wt', index'} \subseteq Tree
  <2>1. {branch[NextPick]} \subseteq Commit /\ PickedTree \in Tree
    BY <1>2, PickTypes DEF PickDone, CanPick
  <2>2. branch[NextPick].label \in Labels
    BY <2>1 DEF Commit
  <2>3. head' = Append(head, [label |-> branch[NextPick].label, tree |-> PickedTree])
    BY <1>2 DEF PickDone
  <2> QED BY <1>1, <1>2, <2>1, <2>2, <2>3, AppendCommit DEF PickDone, TypeOK
<1>3. ASSUME pc = "pick", PickHalts
      PROVE  unmerged' \subseteq Paths /\ {wt', index'} \subseteq Tree
  <2>1. PickedTree \in Tree /\ Conflicting \subseteq Paths
    BY <1>3, PickTypes DEF PickHalts, CanPick
  <2> QED BY <1>1, <1>3, <2>1 DEF PickHalts
<1> QED BY <1>1, <1>2, <1>3

\* What an abort leaves on disk and in the index are trees.
LEMMA AbortTypes ==
  ASSUME TypeOK, AbortEffect
  PROVE  {wt', index'} \subseteq Tree /\ unmerged' \subseteq Paths
<1>1. branch \in History /\ {wt, index} \subseteq Tree /\ unmerged \subseteq Paths
  BY DEF TypeOK
<1>2. Tip(branch) \in Tree
  BY <1>1, TipType
<1>3. ResetHard(wt, index, unmerged, branch) \in Tree
  BY <1>1, <1>2 DEF ResetHard, Tree
<1> QED BY <1>2, <1>3 DEF AbortEffect

LEMMA NextType == TypeOK /\ SameRoot /\ Picking /\ [Next]_vars => TypeOK'
<1> SUFFICES ASSUME TypeOK, SameRoot, Picking, [Next]_vars PROVE TypeOK'
  OBVIOUS
<1> USE DEF repo, refs, world, feed, stamper, health
<1> USE WritesAssumption, ConfigAssumption
<1>0. /\ Tip(branch) \in Tree /\ Tip(head) \in Tree /\ Tip(remote) \in Tree
      /\ Tip(tracking) \in Tree
  BY TipType DEF TypeOK
<1>0a. \A p \in Paths : wt[p] \in File \cup {NoFile}
  BY DEF TypeOK, Tree
<1>1. CASE McpUpdate
  <2>0. PICK p \in Paths : \E file \in Written(wt[p], Fresh("mcp")) :
           McpTool("updated", {p}, [wt EXCEPT ![p] = file])
    BY <1>1 DEF McpUpdate
  <2>1. PICK file \in Written(wt[p], Fresh("mcp")) :
           McpTool("updated", {p}, [wt EXCEPT ![p] = file])
    BY <2>0
  <2>2. file \in File /\ writes + 1 \in 0..MaxWrites
    BY <2>1, FreshType, <1>0a, WrittenType DEF McpTool, Writes, Writers
  <2>3. wt' \in Tree
    BY <2>1, <2>2 DEF McpTool, Writes, TypeOK, Tree
  <2>4. call' \in Event
    <3>1. {p} \in (SUBSET Paths) \ {{}}
      OBVIOUS
    <3>2. McpWrite("updated", {p}) \in Event
      BY <3>1, McpEventType DEF Operations
    <3> QED BY <2>1, <3>2 DEF McpTool
  <2> QED BY <2>1, <2>2, <2>3, <2>4 DEF McpTool, Writes, TypeOK
<1>2. CASE McpDelete
  <2>1. PICK p \in Paths : wt[p] # NoFile /\ McpTool("deleted", {p}, [wt EXCEPT ![p] = NoFile])
    BY <1>2 DEF McpDelete
  <2>2. wt' \in Tree /\ writes + 1 \in 0..MaxWrites
    BY <2>1 DEF McpTool, Writes, TypeOK, Tree
  <2>3. call' \in Event
    <3>1. {p} \in (SUBSET Paths) \ {{}}
      OBVIOUS
    <3>2. McpWrite("deleted", {p}) \in Event
      BY <3>1, McpEventType DEF Operations
    <3> QED BY <2>1, <3>2 DEF McpTool
  <2> QED BY <2>1, <2>2, <2>3 DEF McpTool, Writes, TypeOK
<1>3. CASE McpMove
  <2>1. PICK p \in Paths, q \in Paths :
           \E file \in Written(wt[q], Fresh("mcp")) :
             McpTool("moved", {p, q}, [wt EXCEPT ![p] = NoFile, ![q] = file])
    BY <1>3 DEF McpMove
  <2>1a. PICK file \in Written(wt[q], Fresh("mcp")) :
           McpTool("moved", {p, q}, [wt EXCEPT ![p] = NoFile, ![q] = file])
    BY <2>1
  <2>2. file \in File /\ writes + 1 \in 0..MaxWrites
    BY <2>1a, FreshType, <1>0a, WrittenType DEF McpTool, Writes, Writers
  <2>3. wt' \in Tree
    BY <2>1a, <2>2 DEF McpTool, Writes, TypeOK, Tree
  <2>4. call' \in Event
    <3>1. {p, q} \in (SUBSET Paths) \ {{}}
      OBVIOUS
    <3>2. McpWrite("moved", {p, q}) \in Event
      BY <3>1, McpEventType DEF Operations
    <3> QED BY <2>1a, <3>2 DEF McpTool
  <2> QED BY <2>1a, <2>2, <2>3, <2>4 DEF McpTool, Writes, TypeOK
<1>4. CASE McpNotify
  <2>1. call \in Event /\ queue \in Seq(Event)
    BY <1>4 DEF McpNotify, TypeOK
  <2>2. queue' \in Seq(Event) /\ Len(queue') <= MaxQueue
    BY <1>4, <2>1 DEF McpNotify, TypeOK
  <2> QED BY <1>4, <2>2 DEF McpNotify, TypeOK
<1>5. CASE SweepTrigger
  <2>1. Sweep \in Event /\ queue \in Seq(Event)
    BY DEF Event, TypeOK
  <2>2. queue' \in Seq(Event) /\ Len(queue') <= MaxQueue
    BY <1>5, <2>1 DEF SweepTrigger, TypeOK
  <2> QED BY <1>5, <2>2 DEF SweepTrigger, TypeOK
<1>6. CASE DeviceWrite
  <2>0. PICK p \in Paths : \E file \in Written(wt[p], Fresh("device")) :
           Writes("device", [wt EXCEPT ![p] = file])
    BY <1>6 DEF DeviceWrite
  <2>1. PICK file \in Written(wt[p], Fresh("device")) :
           Writes("device", [wt EXCEPT ![p] = file])
    BY <2>0
  <2>2. file \in File /\ writes + 1 \in 0..MaxWrites
    BY <2>1, FreshType, <1>0a, WrittenType DEF Writes, Writers
  <2>3. wt' \in Tree
    BY <2>1, <2>2 DEF Writes, TypeOK, Tree
  <2> QED BY <1>6, <2>1, <2>2, <2>3 DEF DeviceWrite, Writes, TypeOK
<1>7. CASE DeviceDelete
  <2>1. PICK p \in Paths : Writes("device", [wt EXCEPT ![p] = NoFile])
    BY <1>7 DEF DeviceDelete
  <2>2. wt' \in Tree /\ writes + 1 \in 0..MaxWrites
    BY <2>1 DEF Writes, TypeOK, Tree
  <2> QED BY <1>7, <2>1, <2>2 DEF DeviceDelete, Writes, TypeOK
<1>8. CASE PeerPush
  <2>1. remote' \in History
    <3>1. PICK c \in Commit : remote' = Append(remote, c)
      BY <1>8, PeerCommit
    <3>2. remote \in Seq(Commit)
      BY DEF TypeOK, History
    <3> QED BY <3>1, <3>2 DEF History
  <2>2. writes + 1 \in 0..MaxWrites
    BY <1>8 DEF PeerPush, TypeOK
  <2> QED BY <1>8, <2>1, <2>2 DEF PeerPush, TypeOK
<1>9. CASE NetDown
  BY <1>9, FaultType DEF NetDown, TypeOK
<1>10. CASE NetUp
  BY <1>10, FaultType DEF NetUp, TypeOK
<1>11. CASE LockAppears
  BY <1>11, FaultType DEF LockAppears, TypeOK
<1>12. CASE LockGone
  BY <1>12, FaultType DEF LockGone, TypeOK
<1>13. CASE IntervalPasses
  BY <1>13, FaultType DEF IntervalPasses, TypeOK
<1>14. CASE TakeEvent
  <2>1. ev' \in Event /\ queue' \in Seq(Event) /\ Len(queue') <= MaxQueue
    BY <1>14 DEF TakeEvent, TypeOK
  <2>2. todo' \in SUBSET Paths
    BY <1>14, <2>1 DEF TakeEvent, TypeOK, Event, McpWrite, Sweep
  <2>3. pc' \in Steps
    BY <1>14 DEF TakeEvent, Steps
  <2> QED BY <1>14, <2>1, <2>2, <2>3 DEF TakeEvent, TypeOK
<1>15. CASE StampSkip
  BY <1>15 DEF StampSkip, StampOrStage, Steps, TypeOK
<1>16. CASE StampRead
  BY <1>16 DEF StampRead, Steps, TypeOK, Tree
<1>17. CASE StampWrite
  <2>1. buf \in (Notes \X File) \cup {<<>>}
    BY DEF TypeOK
  <2>2. wt' \in Tree
    <3>1. buf[1] \in Paths /\ buf[2] \in File
      BY <1>17, <2>1, ConfigAssumption DEF StampWrite, TypeOK
    <3>2. [ver |-> writes, by |-> "stamp"] \in Edit
      BY DEF TypeOK, Edit
    <3>3. [buf[2] EXCEPT !["front"] = [ver |-> writes, by |-> "stamp"]] \in File
      BY <3>1, <3>2 DEF File
    <3> QED BY <1>17, <3>1, <3>3 DEF StampWrite, TypeOK, Tree
  <2> QED BY <1>17, <2>2 DEF StampWrite, StampOrStage, Steps, TypeOK
<1>18. CASE StageDone
  <2>1. index' \in Tree /\ unmerged' \subseteq Paths
    BY <1>18, TreeTypes DEF StageDone, StageEffect, TypeOK
  <2> QED BY <1>18, <2>1 DEF StageDone, Steps, TypeOK
<1>19. CASE StageRefused
  BY <1>19 DEF StageRefused, Refused, Budget, EndCycle, MaybePush, Steps, PushSteps, TypeOK
<1>20. CASE StageKilled
  <2>1. index' \in Tree /\ unmerged' \subseteq Paths
    BY <1>20, TreeTypes DEF StageKilled, StageEffect, TypeOK
  <2> QED BY <1>20, <2>1, FaultType DEF StageKilled, EndCycle, MaybePush, Steps, PushSteps, TypeOK
<1>21. CASE DiffClean
  BY <1>21, FaultType DEF DiffClean, Refused, EndCycle, MaybePush, Steps, PushSteps, TypeOK
<1>22. CASE DiffDirty
  BY <1>22, FaultType DEF DiffDirty, Refused, EndCycle, MaybePush, Steps, PushSteps, TypeOK
<1>23. CASE DiffKilled
  BY <1>23, FaultType DEF DiffKilled, Refused, EndCycle, MaybePush, Steps, PushSteps, TypeOK
<1>24. CASE CommitDone
  <2>1. head' \in History /\ branch' \in History
    BY <1>24, AppendCommit DEF CommitDone, CommitEffect, Label, Labels, TypeOK
  <2> QED BY <1>24, <2>1, FaultType DEF CommitDone, EndCycle, MaybePush, Steps, PushSteps, TypeOK
<1>25. CASE CommitRefused
  BY <1>25 DEF CommitRefused, Refused, Budget, EndCycle, MaybePush, Steps, PushSteps, TypeOK
<1>26. CASE CommitKilled
  <2>1. head' \in History /\ branch' \in History
    BY <1>26, AppendCommit DEF CommitKilled, CommitEffect, Label, Labels, TypeOK
  <2> QED BY <1>26, <2>1, FaultType DEF CommitKilled, EndCycle, MaybePush, Steps, PushSteps, TypeOK
<1>27. CASE QuietPush
  BY <1>27 DEF QuietPush, Steps, PushSteps, TypeOK
<1>28. CASE FetchDone
  BY <1>28 DEF FetchDone, Resolve, Refused, Budget, Steps, PushSteps, TypeOK
<1>29. CASE FetchRefused
  BY <1>29 DEF FetchRefused, Resolve, Refused, Budget, Steps, PushSteps, TypeOK
<1>30. CASE FetchGivenUp
  BY <1>30 DEF FetchGivenUp, Resolve, Refused, Budget, Steps, PushSteps, TypeOK
<1>31. CASE RebaseStart
  <2>1. {wt', index'} \subseteq Tree
    BY <1>0, <1>31, RebaseTypes DEF RebaseStart
  <2> QED BY <1>31, <2>1 DEF RebaseStart, Steps, PushSteps, TypeOK
<1>32. CASE RebaseUpToDate
  BY <1>32 DEF RebaseUpToDate, Steps, PushSteps, TypeOK
<1>33. CASE RebaseRefused
  BY <1>33 DEF RebaseRefused, Refused, Budget, Steps, PushSteps, TypeOK
<1>34. CASE PickDone
  BY <1>34, RebaseTypes DEF PickDone, Steps, PushSteps, TypeOK
<1>45. CASE PickStops
  BY <1>45, RebaseTypes DEF PickStops, PickHalts, Steps, PushSteps, TypeOK
<1>46. CASE PickRefused
  BY <1>46 DEF PickRefused, Refused, Budget, Steps, PushSteps, TypeOK
<1>47. CASE RebaseFinish
  BY <1>47 DEF RebaseFinish, RebaseEnds, Steps, PushSteps, TypeOK
<1>48. CASE RebaseKilled
  <2>1. /\ {wt', index'} \subseteq Tree /\ unmerged' \subseteq Paths
        /\ {head', branch'} \subseteq History /\ rebasing' \in BOOLEAN
    <3>1. CASE UNCHANGED <<wt, repo>>
      BY <3>1 DEF TypeOK
    <3>2. CASE pc = "pick" /\ PickHalts
      BY <3>2, RebaseTypes DEF PickHalts, TypeOK
    <3>3. CASE RebaseEnds
      BY <3>3 DEF RebaseEnds, TypeOK
    <3> QED BY <1>48, <3>1, <3>2, <3>3 DEF RebaseKilled
  <2> QED BY <1>48, <2>1, FaultType DEF RebaseKilled, Steps, PushSteps, TypeOK
<1>35. CASE AbortDone
  <2>1. wt' \in Tree /\ index' \in Tree /\ unmerged' \subseteq Paths
    BY <1>35, AbortTypes DEF AbortDone, TypeOK
  <2> QED BY <1>35, <2>1, FaultType DEF AbortDone, AbortEffect, Steps, PushSteps, TypeOK
<1>36. CASE AbortKilled
  <2>1. wt' \in Tree /\ index' \in Tree /\ unmerged' \subseteq Paths
    BY <1>36, AbortTypes DEF AbortKilled, TypeOK
  <2> QED BY <1>36, <2>1, FaultType DEF AbortKilled, AbortEffect, Steps, PushSteps, TypeOK
<1>37. CASE AbortRefused
  BY <1>37 DEF AbortRefused, Refused, Budget, Steps, PushSteps, TypeOK
<1>38. CASE PushDone
  <2>1. Pushed \in History
    BY RootType DEF Pushed, TypeOK, History
  <2> QED BY <1>38, <2>1 DEF PushDone, Steps, PushSteps, TypeOK
<1>39. CASE PushRefused
  BY <1>39 DEF PushRefused, Refused, Budget, Steps, PushSteps, TypeOK
<1>40. CASE PushKilled
  <2>1. Pushed \in History
    BY RootType DEF Pushed, TypeOK, History
  <2> QED BY <1>40, <2>1 DEF PushKilled, Budget, Steps, PushSteps, TypeOK
<1>41. CASE Crash
  <2>1. queue' \in Seq(Event) /\ Len(queue') <= MaxQueue
    BY <1>41 DEF Crash
  <2> QED BY <1>41, <2>1, FaultType DEF Crash, Steps, PushSteps, TypeOK
<1>42. CASE Restart
  BY <1>42 DEF Restart, Steps, PushSteps, TypeOK
<1>43. CASE GitRaises
  BY <1>43 DEF GitRaises, Budget, EndCycle, MaybePush, Steps, PushSteps, TypeOK
<1>44. CASE UNCHANGED vars
  BY <1>44 DEF vars, TypeOK
<1> QED
  BY <1>1, <1>2, <1>3, <1>4, <1>5, <1>6, <1>7, <1>8, <1>9, <1>10, <1>11,
     <1>12, <1>13, <1>14, <1>15, <1>16, <1>17, <1>18, <1>19, <1>20, <1>21,
     <1>22, <1>23, <1>24, <1>25, <1>26, <1>27, <1>28, <1>29, <1>30, <1>31,
     <1>32, <1>33, <1>34, <1>35, <1>36, <1>37, <1>38, <1>39, <1>40, <1>41,
     <1>42, <1>43, <1>44, <1>45, <1>46, <1>47, <1>48
  DEF Next, Environment, Surroundings, Worker, Commits, Pushes

-----------------------------------------------------------------------------
(* The refs, step by step.                                                  *)

\* A peer's push keeps the whole of the remote below it.
LEMMA PeerExtends ==
  ASSUME TypeOK, PeerPush
  PROVE  IsPrefix(remote, remote')
BY PeerCommit, PrefixAppend DEF TypeOK, History

\* Every other step leaves the refs alone.
LEMMA RefSteps ==
  ASSUME [Next]_vars
  PROVE  \/ UNCHANGED <<head, branch, rebasing, refs>>
         \/ PeerPush \/ CommitDone \/ CommitKilled \/ FetchDone \/ FetchGivenUp
         \/ RebaseStart \/ PickDone \/ RebaseFinish \/ RebaseKilled \/ AbortDone \/ AbortKilled
         \/ PushDone \/ PushKilled
<1> USE DEF repo, refs
<1>1. Environment => PeerPush \/ UNCHANGED <<head, branch, rebasing, refs>>
  BY DEF Environment, McpUpdate, McpDelete, McpMove, McpTool, McpNotify, SweepTrigger,
         DeviceWrite, DeviceDelete, Writes
<1>2. Surroundings => UNCHANGED <<head, branch, rebasing, refs>>
  BY DEF Surroundings, NetDown, NetUp, LockAppears, LockGone, IntervalPasses, Crash, Restart
<1>3. Commits => CommitDone \/ CommitKilled \/ UNCHANGED <<head, branch, rebasing, refs>>
  BY DEF Commits, TakeEvent, StampSkip, StampRead, StampWrite, StageDone, StageRefused,
         StageKilled, DiffClean, DiffDirty, DiffKilled, CommitRefused
<1>4. Pushes => \/ FetchDone \/ FetchGivenUp \/ RebaseStart \/ PickDone \/ RebaseFinish
                \/ RebaseKilled \/ AbortDone \/ AbortKilled \/ PushDone \/ PushKilled
                \/ UNCHANGED <<head, branch, rebasing, refs>>
  BY DEF Pushes, QuietPush, FetchRefused, RebaseUpToDate, RebaseRefused, PickStops, PickHalts,
         PickRefused, AbortRefused, PushRefused
<1>5. GitRaises => UNCHANGED <<head, branch, rebasing, refs>>
  BY DEF GitRaises
<1> QED BY <1>1, <1>2, <1>3, <1>4, <1>5 DEF Next, Worker, vars

\* What a killed rebase may have done.
LEMMA KilledRebase ==
  ASSUME RebaseKilled
  PROVE  /\ UNCHANGED <<head, tracking, remote>>
         /\ \/ UNCHANGED <<branch, rebasing>>
            \/ pc = "pick" /\ RebaseEnds
BY DEF RebaseKilled, RebaseEnds, PickHalts, repo, refs

\* While a rebase picks, nothing else touches what it works on.
LEMMA PickSteps ==
  ASSUME [Next]_vars, pc' = "pick"
  PROVE  \/ RebaseStart \/ PickDone
         \/ pc = "pick" /\ UNCHANGED <<repo, tracking>>
<1> USE DEF repo, refs, PushSteps
<1>1. Environment => UNCHANGED <<pc, tracking>> /\ UNCHANGED repo
  <2>1. Environment => UNCHANGED <<pc, tracking>>
    BY DEF Environment, McpUpdate, McpDelete, McpMove, McpTool, McpNotify, SweepTrigger,
           DeviceWrite, DeviceDelete, PeerPush, Writes
  <2>2. Environment => UNCHANGED repo
    BY DEF Environment, McpUpdate, McpDelete, McpMove, McpTool, McpNotify, SweepTrigger,
           DeviceWrite, DeviceDelete, PeerPush, Writes
  <2> QED BY <2>1, <2>2
<1>2. Surroundings => UNCHANGED <<pc, tracking>> /\ UNCHANGED repo
  BY DEF Surroundings, NetDown, NetUp, LockAppears, LockGone, IntervalPasses, Crash, Restart, health
<1>3. ~Commits /\ ~GitRaises
  BY DEF Commits, TakeEvent, StampSkip, StampRead, StampWrite, StampOrStage, StageDone,
         StageRefused, StageKilled, DiffClean, DiffDirty, DiffKilled, CommitDone, CommitRefused,
         CommitKilled, EndCycle, MaybePush, GitRaises
<1>4. Pushes => RebaseStart \/ PickDone
  BY DEF Pushes, QuietPush, FetchDone, FetchRefused, FetchGivenUp, RebaseUpToDate, RebaseRefused,
         PickStops, PickRefused, RebaseFinish, RebaseKilled, AbortDone, AbortRefused, AbortKilled,
         PushDone, PushRefused, PushKilled
<1>5. UNCHANGED vars => UNCHANGED <<pc, tracking>> /\ UNCHANGED repo
  BY DEF vars
<1> QED BY <1>1, <1>2, <1>3, <1>4, <1>5 DEF Next, Worker

LEMMA RootNext ==
  TypeOK /\ TypeOK' /\ SameRoot /\ [Next]_vars => SameRoot'
<1> SUFFICES ASSUME TypeOK, TypeOK', SameRoot, [Next]_vars PROVE SameRoot'
  OBVIOUS
<1> USE DEF repo, refs
<1>0. /\ {head, branch, tracking, remote} \subseteq History
      /\ {head', branch', tracking', remote'} \subseteq History
  BY DEF TypeOK
<1>1. CASE UNCHANGED <<head, branch, rebasing, refs>>
  BY <1>1 DEF SameRoot
<1>2. CASE PeerPush
  <2>1. remote'[1] = remote[1]
    BY <1>0, <1>2, PeerExtends, PrefixFirst
  <2> QED BY <1>2, <2>1 DEF PeerPush, SameRoot
<1>3. CASE CommitDone \/ CommitKilled
  <2>1. /\ UNCHANGED refs
        /\ UNCHANGED <<head, branch>> \/ CommitEffect
    BY <1>3 DEF CommitDone, CommitKilled
  <2>2. CommitEffect => head'[1] = head[1]
    BY <1>0, AppendFirst DEF CommitEffect, History
  <2> QED BY <2>1, <2>2 DEF CommitEffect, SameRoot
<1>4. CASE FetchDone \/ FetchGivenUp
  BY <1>4 DEF FetchDone, FetchGivenUp, SameRoot
<1>5. CASE RebaseStart \/ RebaseFinish \/ RebaseKilled
  <2>1. UNCHANGED refs /\ head' \in {head, tracking} /\ branch' \in {branch, head}
    BY <1>5, KilledRebase DEF RebaseStart, RebaseFinish, RebaseEnds
  <2> QED BY <2>1 DEF SameRoot
<1>6. CASE PickDone
  <2>1. head'[1] = head[1]
    BY <1>0, <1>6, AppendFirst DEF PickDone, History
  <2> QED BY <1>6, <2>1 DEF PickDone, SameRoot
<1>7. CASE AbortDone \/ AbortKilled
  <2>1. UNCHANGED refs /\ (UNCHANGED repo \/ AbortEffect)
    BY <1>7 DEF AbortDone, AbortKilled
  <2> QED BY <2>1 DEF AbortEffect, SameRoot
<1>8. CASE PushDone \/ PushKilled
  <2>1. /\ UNCHANGED repo
        /\ UNCHANGED refs \/ (remote' = Pushed /\ tracking' \in {tracking, Pushed})
    BY <1>8 DEF PushDone, PushKilled
  <2>2. Pushed[1] = Root
    BY DEF Pushed, SameRoot
  <2> QED BY <2>1, <2>2 DEF SameRoot
<1> QED BY <1>1, <1>2, <1>3, <1>4, <1>5, <1>6, <1>7, <1>8, RefSteps

\* Paths stay unmerged only as long as a rebase is open.
LEMMA UnmergedNext ==
  ASSUME TypeOK, Picking, [Next]_vars, ~rebasing'
  PROVE  unmerged' = {}
<1> USE DEF repo, Picking
<1>1. CASE UNCHANGED <<unmerged, rebasing>>
  BY <1>1
<1>2. CASE StageEffect /\ UNCHANGED rebasing
  BY <1>2 DEF StageEffect
<1>3. CASE RebaseEnds /\ pc = "pick"
  BY <1>3 DEF RebaseEnds
<1>4. CASE AbortEffect
  BY <1>4 DEF AbortEffect
<1>5. Environment \/ Surroundings \/ GitRaises \/ UNCHANGED vars => UNCHANGED <<unmerged, rebasing>>
  BY DEF Environment, McpUpdate, McpDelete, McpMove, McpTool, McpNotify, SweepTrigger,
         DeviceWrite, DeviceDelete, PeerPush, Writes, Surroundings, NetDown, NetUp, LockAppears,
         LockGone, IntervalPasses, Crash, Restart, GitRaises, vars
<1>6. Commits => UNCHANGED <<unmerged, rebasing>> \/ (StageEffect /\ UNCHANGED rebasing)
  BY DEF Commits, TakeEvent, StampSkip, StampRead, StampWrite, StageDone, StageRefused,
         StageKilled, DiffClean, DiffDirty, DiffKilled, CommitDone, CommitRefused, CommitKilled
<1>7. Pushes => \/ UNCHANGED <<unmerged, rebasing>> \/ AbortEffect \/ (RebaseEnds /\ pc = "pick")
                \/ rebasing'
  BY DEF Pushes, QuietPush, FetchDone, FetchRefused, FetchGivenUp, RebaseStart, RebaseUpToDate,
         RebaseRefused, PickDone, PickStops, PickHalts, PickRefused, RebaseFinish, RebaseKilled,
         AbortDone, AbortRefused, AbortKilled, PushDone, PushRefused, PushKilled
<1> QED BY <1>1, <1>2, <1>3, <1>4, <1>5, <1>6, <1>7 DEF Next, Worker

LEMMA PickingNext ==
  TypeOK /\ TypeOK' /\ SameRoot /\ Picking /\ [Next]_vars => Picking'
<1> SUFFICES ASSUME TypeOK, TypeOK', SameRoot, Picking, [Next]_vars, pc' = "pick"
             PROVE  /\ rebasing' /\ unmerged' = {} /\ index' = Tip(head')
                    /\ IsPrefix(tracking', head')
                    /\ NextPick' - 1 <= Len(branch')
  BY UnmergedNext DEF Picking
<1> USE DEF repo
<1>0. /\ {head, branch, tracking, head', branch', tracking'} \subseteq Seq(Commit)
      /\ {head, branch, tracking} \subseteq History
  BY DEF TypeOK, History
<1>1. CASE pc = "pick" /\ UNCHANGED <<repo, tracking>>
  BY <1>1 DEF Picking, NextPick
<1>2. CASE RebaseStart
  <2>1. rebasing' /\ head' = tracking /\ UNCHANGED <<unmerged, branch, tracking>>
        /\ index' = Tip(tracking) /\ ~rebasing
    BY <1>2 DEF RebaseStart, CheckOut, CanStart, refs
  <2>2. IsPrefix(tracking', head')
    BY <1>0, <2>1, PrefixReflexive
  <2>3. NextPick' - 1 <= Len(branch')
    <3>1. NextPick' = ForkPoint(branch, tracking) + (Len(tracking) - Len(tracking)) + 1
      BY <2>1 DEF NextPick
    <3>2. /\ ForkPoint(branch, tracking) \in Nat /\ ForkPoint(branch, tracking) <= Len(branch)
          /\ Len(tracking) \in Nat
      BY <1>0, ForkPointShared
    <3> QED BY <2>1, <3>1, <3>2
  <2> QED BY <2>1, <2>2, <2>3 DEF Picking
<1>3. CASE PickDone
  <2>1. pc = "pick" /\ ~AllPicked /\ UNCHANGED <<unmerged, branch, rebasing, tracking>>
        /\ index' = PickedTree
        /\ head' = Append(head, [label |-> branch[NextPick].label, tree |-> PickedTree])
    BY <1>3 DEF PickDone, CanPick, CheckOut, refs
  <2>2. [label |-> branch[NextPick].label, tree |-> PickedTree] \in Commit
    BY <2>1, PickTypes DEF Commit
  <2>3. index' = Tip(head') /\ IsPrefix(head, head') /\ Len(head') = Len(head) + 1
    BY <1>0, <2>1, <2>2, TipAppend, PrefixAppend
  <2>4. IsPrefix(tracking', head')
    BY <1>0, <2>1, <2>3, PrefixTransitive DEF Picking
  <2>5. NextPick' = ForkPoint(branch, tracking) + (Len(head) + 1 - Len(tracking)) + 1
    BY <2>1, <2>3 DEF NextPick
  <2>6. NextPick' - 1 = NextPick /\ NextPick <= Len(branch')
    BY <2>1, <2>5, PickNumbers DEF AllPicked
  <2> QED BY <2>1, <2>3, <2>4, <2>6 DEF Picking
<1> QED BY <1>1, <1>2, <1>3, PickSteps

\* The types, and what they rest on.
LEMMA SoundAlways == Spec => [](TypeOK /\ SameRoot /\ Picking)
<1>1. Init => SameRoot /\ Picking
  BY DEF Init, SameRoot, Picking
<1> QED BY <1>1, InitType, NextType, RootNext, PickingNext, PTL DEF Spec

\* The model's variables keep their types, whatever the constants: in particular
\* the queue stays within its bound, no ref is ever without a commit, and what a pick
\* leaves is a whole tree (worker.py, git_ops.py, events.py).
THEOREM TypeCorrect == Spec => []TypeOK
BY SoundAlways, PTL

-----------------------------------------------------------------------------
(* The refs agree.                                                          *)

\* Nothing rewinds the remote (git_ops.py push: not forced).
LEMMA RemoteGrows ==
  ASSUME TypeOK, [Next]_vars
  PROVE  IsPrefix(remote, remote')
<1>1. remote \in Seq(Commit)
  BY DEF TypeOK, History
<1>2. remote' = remote \/ PeerPush \/ (CanPush /\ remote' = Pushed)
  BY RefSteps DEF refs, repo, CommitDone, CommitKilled, FetchDone, FetchGivenUp, RebaseStart,
                  PickDone, RebaseFinish, RebaseKilled, AbortDone, AbortKilled, PushDone, PushKilled
<1>3. CASE remote' = remote
  BY <1>1, <1>3, PrefixReflexive
<1>4. CASE CanPush /\ remote' = Pushed
  BY <1>4 DEF CanPush
<1> QED BY <1>2, <1>3, <1>4, PeerExtends

\* A push that goes through sends the branch, or finds the remote as it was: the
\* branch VAULT_GIT_BRANCH pins never has anything to send.
LEMMA PushedRef ==
  ASSUME TypeOK, CanPush
  PROVE  \/ Pushed = branch /\ ~Elsewhere
         \/ Pushed = remote /\ Elsewhere
<1>1. CASE Elsewhere
  <2>1. Pushed = <<Root>> /\ IsPrefix(remote, <<Root>>)
    BY <1>1 DEF Pushed, CanPush
  <2>2. remote \in Seq(Commit) /\ remote # <<>>
    BY DEF TypeOK, History
  <2>3. Len(remote) = 1 /\ remote[1] = Root
    BY <2>1, <2>2 DEF IsPrefix
  <2> QED BY <1>1, <2>1, <2>2, <2>3
<1> QED BY <1>1 DEF Pushed

LEMMA RefsInit == Init => RefsAgree
<1> SUFFICES ASSUME Init PROVE RefsAgree
  OBVIOUS
<1>1. <<Root>> \in Seq(Commit)
  BY RootType
<1>2. IsPrefix(<<Root>>, <<Root>>)
  BY <1>1, PrefixReflexive
<1> QED BY <1>2 DEF Init, RefsAgree

LEMMA RefsNext == TypeOK /\ TypeOK' /\ Picking /\ RefsAgree /\ [Next]_vars => RefsAgree'
<1> SUFFICES ASSUME TypeOK, TypeOK', Picking, RefsAgree, [Next]_vars PROVE RefsAgree'
  OBVIOUS
<1> USE DEF repo, refs
<1>0. /\ {head, branch, tracking, remote} \subseteq Seq(Commit)
      /\ {head', branch', tracking', remote'} \subseteq Seq(Commit)
  BY DEF TypeOK, History
<1>1. CASE UNCHANGED <<head, branch, rebasing, refs>>
  BY <1>1 DEF RefsAgree
<1>2. CASE PeerPush
  <2>1. IsPrefix(remote, remote')
    BY <1>2, PeerExtends
  <2>2. IsPrefix(tracking, remote')
    BY <1>0, <2>1, PrefixTransitive DEF RefsAgree
  <2>3. IsPrefix(remote', branch) => IsPrefix(remote, branch)
    BY <1>0, <2>1, PrefixTransitive
  <2> QED BY <1>2, <2>2, <2>3 DEF PeerPush, RefsAgree
<1>3. CASE CommitDone \/ CommitKilled
  <2>1. /\ UNCHANGED <<rebasing, refs>>
        /\ UNCHANGED <<head, branch>> \/ CommitEffect
    BY <1>3 DEF CommitDone, CommitKilled
  <2> QED BY <2>1 DEF CommitEffect, RefsAgree
<1>4. CASE FetchDone \/ FetchGivenUp
  <2>1. tracking' \in {tracking, remote} /\ UNCHANGED <<head, branch, rebasing, remote>>
    BY <1>4 DEF FetchDone, FetchGivenUp
  <2>2. IsPrefix(remote, remote)
    BY <1>0, PrefixReflexive
  <2> QED BY <2>1, <2>2 DEF RefsAgree
<1>5. CASE RebaseStart
  <2>1. head = branch /\ ~IsPrefix(tracking, head)
    BY <1>5 DEF RebaseStart, CanStart, UpToDate, RefsAgree
  <2>2. ~IsPrefix(remote, branch)
    BY <1>0, <2>1, PrefixTransitive DEF RefsAgree
  <2> QED BY <1>5, <2>2 DEF RebaseStart, RefsAgree
<1>8. CASE PickDone
  BY <1>8 DEF PickDone, Picking, RefsAgree
<1>9. CASE RebaseFinish \/ RebaseKilled
  <2>1. /\ UNCHANGED <<head, tracking, remote>>
        /\ \/ UNCHANGED <<branch, rebasing>>
           \/ branch' = head /\ ~rebasing'
    BY <1>9, KilledRebase DEF RebaseFinish, RebaseEnds
  <2> QED BY <2>1 DEF RefsAgree
<1>6. CASE AbortDone \/ AbortKilled
  <2>1. UNCHANGED refs /\ (UNCHANGED repo \/ AbortEffect)
    BY <1>6 DEF AbortDone, AbortKilled
  <2> QED BY <2>1 DEF AbortEffect, RefsAgree
<1>7. CASE PushDone \/ PushKilled
  <2>1. /\ UNCHANGED repo
        /\ \/ UNCHANGED refs
           \/ CanPush /\ remote' = Pushed /\ tracking' \in {tracking, Pushed}
    BY <1>7 DEF PushDone, PushKilled
  <2>2. CASE UNCHANGED refs
    BY <2>1, <2>2 DEF RefsAgree
  <2>3. CASE CanPush /\ remote' = branch /\ Pushed = branch /\ tracking' \in {tracking, branch}
    <3>1. IsPrefix(remote, branch) /\ ~rebasing /\ head = branch
      BY <2>3 DEF CanPush, RefsAgree
    <3>2. IsPrefix(tracking, branch) /\ IsPrefix(branch, branch)
      BY <1>0, <3>1, PrefixTransitive, PrefixReflexive DEF RefsAgree
    <3> QED BY <2>1, <2>3, <3>1, <3>2 DEF RefsAgree
  <2>4. CASE remote' = remote /\ tracking' \in {tracking, remote}
    <3>1. IsPrefix(remote, remote)
      BY <1>0, PrefixReflexive
    <3> QED BY <2>1, <2>4, <3>1 DEF RefsAgree
  <2> QED BY <2>1, <2>2, <2>3, <2>4, PushedRef
<1> QED BY <1>1, <1>2, <1>3, <1>4, <1>5, <1>6, <1>7, <1>8, <1>9, RefSteps

\* HEAD, the branch, the fetched and the actual remote agree in every reachable
\* state, whatever is killed or crashes (worker.py _push_once).
THEOREM RefsAlwaysAgree == Spec => []RefsAgree
BY SoundAlways, RefsInit, RefsNext, PTL DEF Spec
-----------------------------------------------------------------------------
(* What a rebase that is on its way has merged so far.                      *)

\* One of the branch's own commits, up to the n-th, changed this hunk.
TouchedBy(n, p, h) ==
  \E i \in (ForkPoint(branch, tracking) + 1)..n :
    Spot(branch[i].tree, p, h) # Spot(branch[i - 1].tree, p, h)

\* At every hunk, HEAD has what the picked commits made of it, or else what the
\* upstream has.
Merged ==
  pc = "pick" => \A p \in Paths, h \in Hunks :
    Spot(Tip(head), p, h) =
      IF TouchedBy(NextPick - 1, p, h) THEN Spot(branch[NextPick - 1].tree, p, h)
                                       ELSE Spot(Tip(tracking), p, h)

\* The commit a pick appends, hunk by hunk.
LEMMA PickDoneSpots ==
  ASSUME TypeOK, SameRoot, Picking, PickDone
  PROVE  /\ Tip(head') = PickedTree /\ NextPick' = NextPick + 1
         /\ Len(head') = Len(head) + 1 /\ \A i \in 1..Len(head) : head'[i] = head[i]
         /\ head'[Len(head')] = [label |-> branch[NextPick].label, tree |-> PickedTree]
         /\ \A p \in Paths, h \in Hunks :
              Spot(PickedTree, p, h) =
                IF Spot(branch[NextPick].tree, p, h) # Spot(branch[NextPick - 1].tree, p, h)
                  THEN Spot(branch[NextPick].tree, p, h) ELSE Spot(Tip(head), p, h)
<1> DEFINE new == [label |-> branch[NextPick].label, tree |-> PickedTree]
<1>1. /\ pc = "pick" /\ ~AllPicked /\ Conflicting = {} /\ head' = Append(head, new)
      /\ UNCHANGED <<branch, tracking>>
  BY DEF PickDone, CanPick, refs
<1>2. new \in Commit /\ head \in Seq(Commit)
  BY <1>1, PickTypes DEF Commit, TypeOK, History
<1>3. /\ Tip(head') = PickedTree /\ Len(head') = Len(head) + 1 /\ head'[Len(head')] = new
      /\ \A i \in 1..Len(head) : head'[i] = head[i]
  <2>1. Tip(head') = new.tree
    BY <1>1, <1>2, TipAppend
  <2> HIDE DEF new
  <2>2. /\ Len(head') = Len(head) + 1 /\ head'[Len(head')] = new
        /\ \A i \in 1..Len(head) : head'[i] = head[i]
    BY <1>1, <1>2
  <2> QED BY <2>1, <2>2 DEF new
<1>4. NextPick' = NextPick + 1
  <2>1. NextPick' = ForkPoint(branch, tracking) + (Len(head) + 1 - Len(tracking)) + 1
    BY <1>1, <1>3 DEF NextPick
  <2>2. NextPick - 1 = ForkPoint(branch, tracking) + (Len(head) - Len(tracking))
    BY <1>1, PickNumbers
  <2>3. {ForkPoint(branch, tracking), Len(head), Len(tracking), NextPick} \subseteq Int
    BY <1>1, PickNumbers
  <2> HIDE DEF NextPick
  <2> QED BY <2>1, <2>2, <2>3
<1>5. ASSUME NEW p \in Paths, NEW h \in Hunks
      PROVE  Spot(PickedTree, p, h) =
                IF Spot(branch[NextPick].tree, p, h) # Spot(branch[NextPick - 1].tree, p, h)
                  THEN Spot(branch[NextPick].tree, p, h) ELSE Spot(Tip(head), p, h)
  <2>1. {branch[NextPick - 1].tree, Tip(head), branch[NextPick].tree} \subseteq Tree
    BY <1>1, PickTypes
  <2>2. ConflictPaths(branch[NextPick - 1].tree, Tip(head), branch[NextPick].tree) = {}
    BY <1>1 DEF Conflicting
  <2> HIDE DEF NextPick
  <2> QED BY <2>1, <2>2, PickedSpots DEF PickedTree
<1> QED BY <1>3, <1>4, <1>5

LEMMA MergedNext ==
  TypeOK /\ TypeOK' /\ SameRoot /\ Picking /\ Merged /\ [Next]_vars => Merged'
<1> SUFFICES ASSUME TypeOK, TypeOK', SameRoot, Picking, Merged, [Next]_vars, pc' = "pick",
                    NEW p \in Paths, NEW h \in Hunks
             PROVE  Spot(Tip(head'), p, h) =
                      IF TouchedBy(NextPick - 1, p, h)' THEN Spot(branch'[NextPick' - 1].tree, p, h)
                                                        ELSE Spot(Tip(tracking'), p, h)
  BY DEF Merged
<1> DEFINE F == ForkPoint(branch, tracking)
<1>1. CASE pc = "pick" /\ UNCHANGED <<repo, tracking>>
  BY <1>1 DEF Merged, TouchedBy, NextPick, repo
<1>2. CASE RebaseStart
  <2>1. head' = tracking /\ UNCHANGED <<branch, tracking>>
    BY <1>2 DEF RebaseStart, refs
  <2>2. NextPick' = F + (Len(tracking) - Len(tracking)) + 1
    BY <2>1 DEF NextPick
  <2>3. F \in Nat /\ Len(tracking) \in Nat
    BY ForkPointShared, TipType DEF TypeOK
  <2>4. NextPick' - 1 = F
    BY <2>2, <2>3
  <2>5. ~TouchedBy(NextPick - 1, p, h)'
    <3>1. (F + 1)..F = {}
      BY <2>3
    <3> QED BY <2>1, <2>4, <3>1 DEF TouchedBy
  <2> QED BY <2>1, <2>5
<1>3. CASE PickDone
  <2>1. UNCHANGED <<branch, tracking>> /\ pc = "pick"
    BY <1>3 DEF PickDone, refs
  <2>2. /\ Tip(head') = PickedTree /\ NextPick' = NextPick + 1
        /\ Spot(PickedTree, p, h) =
             IF Spot(branch[NextPick].tree, p, h) # Spot(branch[NextPick - 1].tree, p, h)
               THEN Spot(branch[NextPick].tree, p, h) ELSE Spot(Tip(head), p, h)
    BY <1>3, PickDoneSpots
  <2>3. F \in Nat /\ NextPick \in Nat /\ NextPick - 1 \in F..Len(branch) /\ NextPick' - 1 = NextPick
        /\ Len(branch) \in Nat
    BY <2>1, <2>2, PickNumbers
  <2>4. TouchedBy(NextPick - 1, p, h)' <=>
          \/ TouchedBy(NextPick - 1, p, h)
          \/ Spot(branch[NextPick].tree, p, h) # Spot(branch[NextPick - 1].tree, p, h)
    <3>1. (F + 1)..NextPick = ((F + 1)..(NextPick - 1)) \cup {NextPick}
      BY <2>3
    <3>2. TouchedBy(NextPick - 1, p, h)' <=>
            \E i \in (F + 1)..NextPick : Spot(branch[i].tree, p, h) # Spot(branch[i - 1].tree, p, h)
      BY <2>1, <2>3 DEF TouchedBy
    <3> QED BY <3>1, <3>2 DEF TouchedBy
  <2>5. Spot(Tip(head), p, h) = IF TouchedBy(NextPick - 1, p, h)
                                  THEN Spot(branch[NextPick - 1].tree, p, h)
                                  ELSE Spot(Tip(tracking), p, h)
    BY <2>1 DEF Merged
  <2> QED BY <2>1, <2>2, <2>3, <2>4, <2>5
<1> QED BY <1>1, <1>2, <1>3, PickSteps

LEMMA MergedAlways == Spec => []Merged
<1>1. Init => Merged
  BY DEF Init, Merged
<1> QED BY <1>1, SoundAlways, MergedNext, PTL DEF Spec
=============================================================================

-------------------------- MODULE GitBackup_proofs --------------------------
(***************************************************************************)
(* What reaches the remote: what a successful push means, which commits the *)
(* worker still owes, and that it implements the abstract backup; for every *)
(* vault, every bound and every fault.                                      *)
(***************************************************************************)
EXTENDS GitBackup, GitWorker_proofs

-----------------------------------------------------------------------------
\* Unless VAULT_GIT_BRANCH names another branch, a push that succeeds delivers
\* every commit under HEAD, whatever failed before: the heartbeat never reports a
\* backup that is missing commits (worker.py _push_once, heartbeat.ping).
THEOREM HeartbeatIsTruthful ==
  ASSUME ~Elsewhere
  PROVE  Spec => HeartbeatMeansDelivered
<1>1. TypeOK /\ RefsAgree /\ [Next]_vars => [PushDone => IsPrefix(head, remote')]_vars
  <2> SUFFICES ASSUME TypeOK, RefsAgree, PushDone PROVE IsPrefix(head, remote')
    OBVIOUS
  <2>1. IsPrefix(remote, branch) /\ remote' = branch
    BY DEF PushDone, CanPush, Pushed
  <2>2. head = branch /\ head \in Seq(Commit)
    BY <2>1 DEF RefsAgree, TypeOK, History
  <2> QED BY <2>1, <2>2, PrefixReflexive
<1>2. Spec => []TypeOK /\ []RefsAgree
  BY TypeCorrect, RefsAlwaysAgree
<1> QED BY <1>1, <1>2, PTL DEF Spec, HeartbeatMeansDelivered

-----------------------------------------------------------------------------
(* The commits the worker owes, as long as nothing kills a command or the   *)
(* process: both break the promise, and so does pinning another branch.     *)

NothingKilled == {"timeout", "crash"} \cap Faults = {}

\* The push window opens, and a rebase is left open, only over owed commits.
Owed ==
  /\ pc \in PushSteps => unpushed
  /\ rebasing => unpushed
  /\ UnpushedCovers

LEMMA OwedInit == Init => Owed
<1> SUFFICES ASSUME Init PROVE Owed
  OBVIOUS
<1>1. <<Root>> \in Seq(Commit)
  BY RootType
<1>2. IsPrefix(<<Root>>, <<Root>>)
  BY <1>1, PrefixReflexive
<1> QED BY <1>2 DEF Init, Owed, UnpushedCovers, PushSteps

\* The worker's steps up to the commit: they set the flag with the commit.
LEMMA OwedCommits ==
  ASSUME TypeOK, Owed, NothingKilled, Commits
  PROVE  Owed'
<1> USE DEF repo, refs, health, PushSteps
<1>1. CASE TakeEvent \/ StampSkip \/ StampRead \/ StampWrite \/ StageDone \/ DiffDirty
  <2>1. UNCHANGED <<head, remote, rebasing, unpushed>> /\ pc' \notin PushSteps
    BY <1>1 DEF TakeEvent, StampSkip, StampRead, StampWrite, StageDone, DiffDirty, StampOrStage
  <2> QED BY <2>1 DEF Owed, UnpushedCovers
<1>2. CASE StageRefused \/ DiffClean \/ CommitRefused
  <2>1. UNCHANGED <<head, remote, rebasing, unpushed>> /\ pc' = MaybePush(unpushed /\ overdue)
    BY <1>2 DEF StageRefused, DiffClean, CommitRefused, EndCycle
  <2> QED BY <2>1 DEF MaybePush, Owed, UnpushedCovers
<1>3. CASE CommitDone
  BY <1>3 DEF CommitDone, EndCycle, Owed, UnpushedCovers
<1>4. ~Killed
  BY DEF Killed, Budget, NothingKilled
<1> QED BY <1>1, <1>2, <1>3, <1>4 DEF Commits, StageKilled, DiffKilled, CommitKilled

\* The push: only a push that delivered everything clears the flag.
LEMMA OwedPushes ==
  ASSUME TypeOK, RefsAgree, Owed, NothingKilled, ~Elsewhere, Pushes
  PROVE  Owed'
<1> USE DEF repo, refs, health, PushSteps
<1>1. ~Budget("timeout") /\ ~Killed
  BY DEF Killed, Budget, NothingKilled
<1>2. CASE PushDone
  <2>1. IsPrefix(remote, branch) /\ remote' = branch
    BY <1>2 DEF PushDone, CanPush, Pushed
  <2>2. ~rebasing /\ head = branch /\ head \in Seq(Commit)
    BY <2>1 DEF RefsAgree, TypeOK, History
  <2>3. IsPrefix(head', remote') /\ ~rebasing' /\ pc' = "idle"
    BY <1>2, <2>1, <2>2, PrefixReflexive DEF PushDone
  <2> QED BY <2>3 DEF Owed, UnpushedCovers
<1>3. CASE QuietPush \/ FetchDone \/ FetchRefused \/ FetchGivenUp \/ RebaseUpToDate
             \/ RebaseRefused \/ PickStops \/ PickRefused \/ AbortDone \/ AbortRefused
             \/ RebaseStart \/ PickDone \/ RebaseFinish
  <2>1. unpushed
    BY <1>3 DEF Owed, QuietPush, FetchDone, FetchRefused, FetchGivenUp, RebaseUpToDate,
                RebaseRefused, PickStops, PickRefused, AbortDone, AbortRefused, RebaseStart,
                PickDone, RebaseFinish
  <2>2. unpushed' = unpushed
    BY <1>3 DEF QuietPush, FetchDone, FetchRefused, FetchGivenUp, RebaseUpToDate,
                RebaseRefused, PickStops, PickRefused, AbortDone, AbortRefused, RebaseStart,
                PickDone, RebaseFinish
  <2> QED BY <2>1, <2>2 DEF Owed, UnpushedCovers
<1>4. CASE PushRefused
  BY <1>4 DEF PushRefused, Owed, UnpushedCovers
<1> QED BY <1>1, <1>2, <1>3, <1>4 DEF Pushes, RebaseKilled, AbortKilled, PushKilled

LEMMA OwedNext ==
  TypeOK /\ TypeOK' /\ RefsAgree /\ Owed /\ NothingKilled /\ ~Elsewhere /\ [Next]_vars => Owed'
<1> SUFFICES ASSUME TypeOK, TypeOK', RefsAgree, Owed, NothingKilled, ~Elsewhere, [Next]_vars
             PROVE  Owed'
  OBVIOUS
<1> USE DEF repo, refs, health
<1>1. CASE Environment
  <2>1. /\ UNCHANGED <<head, rebasing, pc, unpushed>>
        /\ UNCHANGED remote \/ PeerPush
    BY <1>1 DEF Environment, McpUpdate, McpDelete, McpMove, McpTool, McpNotify,
                SweepTrigger, DeviceWrite, DeviceDelete, PeerPush, Writes
  <2>2. IsPrefix(remote, remote')
    <3>1. {remote, remote'} \subseteq Seq(Commit)
      BY DEF TypeOK, History
    <3>2. CASE PeerPush
      BY <3>2, PeerExtends
    <3> QED BY <2>1, <3>1, <3>2, PrefixReflexive
  <2>3. IsPrefix(head, remote) => IsPrefix(head, remote')
    BY <2>2, PrefixTransitive DEF TypeOK, History
  <2> QED BY <2>1, <2>3 DEF Owed, UnpushedCovers
<1>2. CASE Surroundings
  <2>1. ~Crash
    BY DEF Crash, Budget, NothingKilled
  <2>2. UNCHANGED <<head, rebasing, remote, unpushed>> /\ (pc' = pc \/ pc' = "idle")
    BY <1>2, <2>1 DEF Surroundings, NetDown, NetUp, LockAppears, LockGone,
                      IntervalPasses, Restart
  <2> QED BY <2>2 DEF Owed, UnpushedCovers, PushSteps
<1>3. CASE Worker
  <2>1. CASE GitRaises
    <3>1. UNCHANGED <<head, rebasing, remote, unpushed>> /\ pc' \in {"idle", MaybePush(unpushed /\ overdue)}
      BY <2>1 DEF GitRaises, EndCycle
    <3> QED BY <3>1 DEF MaybePush, Owed, UnpushedCovers, PushSteps
  <2> QED BY <1>3, <2>1, OwedCommits, OwedPushes DEF Worker
<1>4. CASE UNCHANGED vars
  BY <1>4 DEF vars, Owed, UnpushedCovers
<1> QED BY <1>1, <1>2, <1>3, <1>4 DEF Next

\* As long as nothing is killed and no other branch is pinned, a commit missing from the remote is one
\* _unpushed stands for, so it is never forgotten (worker.py __init__, run).
THEOREM NoCommitForgotten ==
  ASSUME NothingKilled, ~Elsewhere
  PROVE  Spec => []UnpushedCovers
<1>1. TypeOK /\ TypeOK' /\ RefsAgree /\ Owed /\ [Next]_vars => Owed'
  BY OwedNext
<1>2. Owed => UnpushedCovers
  BY DEF Owed
<1>3. Spec => []TypeOK /\ []RefsAgree
  BY TypeCorrect, RefsAlwaysAgree
<1> QED BY <1>1, <1>2, <1>3, OwedInit, PTL DEF Spec

-----------------------------------------------------------------------------
(* A rebase redoes the branch's own commits.                                *)

\* The abstract module's prefix, and its hunks, are this one's.
LEMMA SamePrefix == \A s, t : Backup!IsPrefix(s, t) <=> IsPrefix(s, t)
BY DEF Backup!IsPrefix, IsPrefix

LEMMA SameSpot == \A tree, p, h : Backup!Spot(tree, p, h) = Spot(tree, p, h)
BY DEF Backup!Spot, Spot

\* Every commit picked so far makes the changes it made, and is its old self or the
\* upstream's everywhere else.
Redone ==
  pc = "pick" =>
    LET F == ForkPoint(branch, tracking)
    IN  \A i \in (F + 1)..(NextPick - 1) :
          Backup!Redoes(branch[i - 1], branch[i], head[i + (Len(tracking) - F)], Last(tracking))

\* So does the next.
LEMMA PickRedoes ==
  ASSUME TypeOK, SameRoot, Picking, Merged, PickDone
  PROVE  Backup!Redoes(branch[NextPick - 1], branch[NextPick], head'[Len(head')], Last(tracking))
<1> DEFINE before == branch[NextPick - 1]
           old    == branch[NextPick]
           new    == [label |-> old.label, tree |-> PickedTree]
           theirs == Last(tracking)
<1>1. pc = "pick" /\ ~AllPicked
  BY DEF PickDone, CanPick
<1>2. /\ head'[Len(head')] = new
      /\ \A p \in Paths, h \in Hunks :
           Spot(PickedTree, p, h) =
             IF Spot(old.tree, p, h) # Spot(before.tree, p, h)
               THEN Spot(old.tree, p, h) ELSE Spot(Tip(head), p, h)
  BY PickDoneSpots
<1>3. DOMAIN old.tree = Paths
  BY <1>1, PickTypes DEF Tree
<1>4. \A p \in Paths, h \in Hunks :
        Spot(Tip(head), p, h) \in {Spot(before.tree, p, h), Spot(theirs.tree, p, h)}
  BY <1>1 DEF Merged, Tip
<1>5. new.label = old.label /\ new.tree = PickedTree
  OBVIOUS
<1> HIDE DEF before, old, new, theirs
<1>6. ASSUME NEW p \in DOMAIN old.tree, NEW h \in Hunks
      PROVE  IF Spot(old.tree, p, h) # Spot(before.tree, p, h)
               THEN Spot(new.tree, p, h) = Spot(old.tree, p, h)
               ELSE Spot(new.tree, p, h) \in {Spot(old.tree, p, h), Spot(theirs.tree, p, h)}
  BY <1>2, <1>3, <1>4, <1>5
<1>7. Backup!Redoes(before, old, new, theirs)
  BY <1>5, <1>6, SameSpot DEF Backup!Redoes
<1> QED BY <1>2, <1>7 DEF before, old, new, theirs

\* Where a picked commit stands, counted from either end.
LEMMA Offset ==
  ASSUME NEW n \in Int, NEW F \in Int, NEW T \in Int, NEW H \in Int, n - 1 = F + (H - T)
  PROVE  n + (T - F) = H + 1 /\ H = (n - 1) + (T - F)
OBVIOUS

LEMMA RedoneNext ==
  TypeOK /\ TypeOK' /\ SameRoot /\ Picking /\ Merged /\ Redone /\ [Next]_vars => Redone'
<1> SUFFICES ASSUME TypeOK, TypeOK', SameRoot, Picking, Merged, Redone, [Next]_vars, pc' = "pick"
             PROVE  LET F == ForkPoint(branch', tracking')
                    IN  \A i \in (F + 1)..(NextPick' - 1) :
                          Backup!Redoes(branch'[i - 1], branch'[i],
                                        head'[i + (Len(tracking') - F)], Last(tracking'))
  BY DEF Redone
<1> DEFINE F == ForkPoint(branch, tracking)
           T == Len(tracking)
<1>1. CASE pc = "pick" /\ UNCHANGED <<repo, tracking>>
  BY <1>1 DEF Redone, NextPick, repo
<1>2. CASE RebaseStart
  <2>1. head' = tracking /\ UNCHANGED <<branch, tracking>>
    BY <1>2 DEF RebaseStart, refs
  <2>2. NextPick' = F + (T - T) + 1
    BY <2>1 DEF NextPick
  <2>3. F \in Nat /\ T \in Nat
    BY ForkPointShared, TipType DEF TypeOK
  <2> HIDE DEF F, T
  <2>4. (F + 1)..(NextPick' - 1) = {}
    BY <2>2, <2>3
  <2> QED BY <2>1, <2>4 DEF F
<1>3. CASE PickDone
  <2>1. UNCHANGED <<branch, tracking>> /\ pc = "pick"
    BY <1>3 DEF PickDone, refs
  <2>2. /\ NextPick' = NextPick + 1 /\ Len(head') = Len(head) + 1
        /\ \A i \in 1..Len(head) : head'[i] = head[i]
    BY <1>3, PickDoneSpots
  <2>3. /\ {F, T, NextPick, Len(head)} \subseteq Nat /\ F <= T /\ F >= 1
        /\ NextPick - 1 = F + (Len(head) - T)
    BY <2>1, PickNumbers
  <2>4. Backup!Redoes(branch[NextPick - 1], branch[NextPick], head'[Len(head')], Last(tracking))
    BY <1>3, PickRedoes
  <2>5. \A i \in (F + 1)..(NextPick - 1) :
          Backup!Redoes(branch[i - 1], branch[i], head[i + (T - F)], Last(tracking))
    BY <2>1 DEF Redone
  <2> HIDE DEF F, T, NextPick
  <2>6. ASSUME NEW i \in (F + 1)..(NextPick' - 1)
        PROVE  Backup!Redoes(branch[i - 1], branch[i], head'[i + (T - F)], Last(tracking))
    <3>1. CASE i = NextPick
      <4>1. i + (T - F) = Len(head')
        <5>1. NextPick + (T - F) = Len(head) + 1
          BY <2>3, Offset
        <5> QED BY <2>2, <3>1, <5>1
      <4> QED BY <2>4, <3>1, <4>1
    <3>2. CASE i # NextPick
      <4>1. i \in (F + 1)..(NextPick - 1) /\ i + (T - F) \in 1..Len(head)
        BY <2>2, <2>3, <3>2
      <4> QED BY <2>2, <2>5, <4>1
    <3> QED BY <3>1, <3>2
  <2> QED BY <2>1, <2>6 DEF F, T
<1> QED BY <1>1, <1>2, <1>3, PickSteps

LEMMA RedoneAlways == Spec => []Redone
<1>1. Init => Redone
  BY DEF Init, Redone
<1> QED BY <1>1, SoundAlways, MergedAlways, RedoneNext, PTL DEF Spec

\* The branch's own commits, all picked on a prefix of the remote, are a merge.
LEMMA FinishMerges ==
  ASSUME TypeOK, TypeOK', SameRoot, Picking, RefsAgree, Redone, pc = "pick", RebaseEnds,
         UNCHANGED <<remote, unpushed>>, pc' # "down"
  PROVE  Backup!Merge
<1> DEFINE F == ForkPoint(branch, tracking)
           T == Len(tracking)
<1>1. branch \in History /\ tracking \in History /\ remote \in History /\ branch' = head
  BY DEF TypeOK, RebaseEnds
<1>2. /\ F \in Nat /\ F <= Len(branch) /\ F <= T /\ F >= 1
      /\ \A i \in 1..F : branch[i] = tracking[i]
      /\ NextPick - 1 = F + (Len(head) - T) /\ NextPick - 1 \in F..Len(branch)
  BY PickNumbers
<1>3. /\ {T, Len(branch), Len(remote), Len(head)} \subseteq Nat \ {0}
      /\ {branch, tracking, remote, head} \subseteq Seq(Commit)
  BY TipType DEF TypeOK
<1>4. T <= Len(remote) /\ \A i \in 1..T : tracking[i] = remote[i]
  BY <1>3, PrefixPoints DEF RefsAgree
<1>5. IsPrefix(tracking, branch')
  BY <1>1 DEF Picking
<1>6. SubSeq(remote, 1, T) = tracking
  BY <1>3, <1>4
<1>7. SubSeq(branch, 1, F) = SubSeq(remote, 1, F)
  <2>1. \A i \in 1..F : branch[i] = remote[i]
    BY <1>2, <1>3, <1>4
  <2> QED BY <1>2, <1>3, <1>4, <2>1
<1>8. remote[T] = Last(tracking)
  BY <1>3, <1>4 DEF Last
<1>9. NextPick - 1 = Len(branch)
  BY PickedAll DEF RebaseEnds
<1>10. \A i \in (F + 1)..Len(branch) :
         Backup!Redoes(branch[i - 1], branch[i], branch'[i + (T - F)], remote[T])
  BY <1>1, <1>8, <1>9 DEF Redone
<1> HIDE DEF NextPick, F
<1>11. Len(branch') = Len(branch) + (T - F)
  <2>1. Len(head) = (NextPick - 1) + (T - F)
    <3>1. NextPick \in Int
      BY PickNumbers
    <3> HIDE DEF T
    <3> QED BY <1>2, <1>3, <3>1, Offset
  <2> QED BY <1>1, <1>9, <2>1
<1>12. T \in 1..Len(remote) /\ F \in 1..Len(branch)
  BY <1>2, <1>3, <1>4
<1>13. \E n \in 1..Len(remote), fork \in 1..Len(branch) :
         /\ fork <= n /\ SubSeq(branch, 1, fork) = SubSeq(remote, 1, fork)
         /\ Backup!IsPrefix(SubSeq(remote, 1, n), branch')
         /\ Len(branch') = Len(branch) + (n - fork)
         /\ \A i \in (fork + 1)..Len(branch) :
              Backup!Redoes(branch[i - 1], branch[i], branch'[i + (n - fork)], remote[n])
  <2>1. F <= T /\ Backup!IsPrefix(SubSeq(remote, 1, T), branch')
    BY <1>2, <1>5, <1>6, SamePrefix
  <2> HIDE DEF T
  <2> QED BY <1>7, <1>10, <1>11, <1>12, <2>1
<1>14. (pc # "down") /\ (pc # "down")' = (pc # "down")
  OBVIOUS
<1>15. UNCHANGED <<remote, unpushed, pc # "down">>
  BY <1>14
<1> HIDE DEF T
<1> QED BY <1>13, <1>14, <1>15, Zenon DEF Backup!Merge

-----------------------------------------------------------------------------
(* The refinement.                                                          *)

LEMMA BackupInit == Init => Backup!Init
BY DEF Init, Backup!Init

\* What the abstract state does not see.
LEMMA BackupStutter ==
  ASSUME UNCHANGED <<branch, remote, unpushed>>, (pc' = "down") <=> (pc = "down")
  PROVE  UNCHANGED Backup!bvars
<1>1. (pc # "down")' = (pc # "down")
  OBVIOUS
<1> QED BY <1>1, Zenon DEF Backup!bvars

\* One more commit, on the remote or on the branch.
LEMMA BackupGrows ==
  ASSUME NEW old \in Seq(Commit), NEW c \in Commit
  PROVE  Backup!Grows(old, Append(old, c))
<1>1. IsPrefix(old, Append(old, c))
  BY PrefixAppend
<1>2. Len(Append(old, c)) = Len(old) + 1
  OBVIOUS
<1> QED BY <1>1, <1>2, SamePrefix DEF Backup!Grows

\* The environment: only a peer's push is seen.
LEMMA BackupEnvironment ==
  ASSUME TypeOK, Environment
  PROVE  Backup!Contribute \/ UNCHANGED Backup!bvars
<1> USE DEF repo, refs, health
<1>1. CASE PeerPush
  <2>1. PICK c \in Commit : remote' = Append(remote, c)
    BY <1>1, PeerCommit
  <2>2. remote \in Seq(Commit)
    BY DEF TypeOK, History
  <2>4. Backup!Grows(remote, remote')
    BY <2>1, <2>2, BackupGrows
  <2>5. UNCHANGED <<branch, unpushed, pc>>
    BY <1>1 DEF PeerPush
  <2>6. UNCHANGED <<branch, unpushed, pc # "down">>
    BY <2>5, Zenon
  <2> QED BY <2>4, <2>6, Zenon DEF Backup!Contribute
<1>2. CASE ~PeerPush
  <2>1. UNCHANGED <<branch, remote, unpushed, pc>>
    BY <1>2 DEF Environment, McpUpdate, McpDelete, McpMove, McpTool, McpNotify,
                SweepTrigger, DeviceWrite, DeviceDelete, Writes
  <2> QED BY <2>1, BackupStutter
<1> QED BY <1>1, <1>2

LEMMA BackupSurroundings ==
  ASSUME Surroundings
  PROVE  Backup!Stop \/ Backup!Start \/ UNCHANGED Backup!bvars
<1> USE DEF repo, refs, health
<1>1. CASE Crash
  <2>1. pc # "down" /\ pc' = "down" /\ unpushed' = FALSE /\ UNCHANGED <<branch, remote>>
    BY <1>1 DEF Crash
  <2>2. (pc # "down")' = FALSE
    BY <2>1
  <2> QED BY <2>1, <2>2, Zenon DEF Backup!Stop
<1>2. CASE Restart
  <2>1. pc = "down" /\ pc' = "idle" /\ UNCHANGED <<branch, remote, unpushed>>
    BY <1>2 DEF Restart
  <2>2. (pc # "down")' = TRUE
    BY <2>1
  <2> QED BY <2>1, <2>2, Zenon DEF Backup!Start
<1>3. CASE ~Crash /\ ~Restart
  <2>1. UNCHANGED <<branch, remote, unpushed, pc>>
    BY <1>3 DEF Surroundings, NetDown, NetUp, LockAppears, LockGone, IntervalPasses
  <2> QED BY <2>1, BackupStutter
<1> QED BY <1>1, <1>2, <1>3

\* What the abstract state sees of a worker's step but its program counter.
LEMMA BackupRuns ==
  ASSUME Worker
  PROVE  pc # "down" /\ pc' # "down"
<1> USE DEF PushSteps, EndCycle, MaybePush
<1>1. ASSUME Commits PROVE pc # "down" /\ pc' # "down"
  BY <1>1 DEF Commits, TakeEvent, StampSkip, StampRead, StampWrite, StampOrStage, StageDone,
              StageRefused, StageKilled, DiffClean, DiffDirty, DiffKilled, CommitDone,
              CommitRefused, CommitKilled
<1>2. ASSUME Pushes PROVE pc # "down" /\ pc' # "down"
  BY <1>2 DEF Pushes, QuietPush, FetchDone, FetchRefused, FetchGivenUp, RebaseStart,
              RebaseUpToDate, RebaseRefused, PickDone, PickStops, PickRefused, RebaseFinish,
              RebaseKilled, AbortDone, AbortRefused, AbortKilled, PushDone, PushRefused, PushKilled
<1>3. ASSUME GitRaises PROVE pc # "down" /\ pc' # "down"
  BY <1>3 DEF GitRaises
<1> QED BY <1>1, <1>2, <1>3 DEF Worker

LEMMA BackupCommits ==
  ASSUME TypeOK, TypeOK', RefsAgree, Commits
  PROVE  Backup!Save \/ Backup!Assume \/ UNCHANGED Backup!bvars
<1> USE DEF repo, refs, health
<1>1. pc # "down" /\ pc' # "down" /\ (pc # "down")' = (pc # "down")
  BY BackupRuns DEF Worker
<1>2. ASSUME CommitEffect, ~rebasing, UNCHANGED remote, unpushed' \in {unpushed, TRUE}
      PROVE  Backup!Save
  <2>1. branch' = Append(branch, [label |-> Label, tree |-> index])
    BY <1>2 DEF CommitEffect, RefsAgree
  <2>2. branch \in Seq(Commit) /\ [label |-> Label, tree |-> index] \in Commit
    BY DEF TypeOK, History, Commit, Label, Labels
  <2>3. Backup!Grows(branch, branch')
    BY <2>1, <2>2, BackupGrows
  <2> QED BY <1>1, <1>2, <2>3, Zenon DEF Backup!Save
<1>3. ASSUME UNCHANGED <<branch, remote>>, unpushed' = TRUE PROVE Backup!Assume
  BY <1>1, <1>3, Zenon DEF Backup!Assume
<1>4. ASSUME UNCHANGED <<branch, remote, unpushed>> PROVE UNCHANGED Backup!bvars
  BY <1>1, <1>4, BackupStutter
<1>5. CASE CommitDone
  <2>1. unpushed' = TRUE /\ UNCHANGED remote /\ (CommitEffect \/ UNCHANGED branch)
    BY <1>5 DEF CommitDone, EndCycle
  <2>2. CommitEffect /\ rebasing => UNCHANGED branch
    BY DEF CommitEffect
  <2> QED BY <1>2, <1>3, <2>1, <2>2
<1>6. CASE CommitKilled
  <2>1. UNCHANGED <<remote, unpushed>> /\ (CommitEffect \/ UNCHANGED branch)
    BY <1>6 DEF CommitKilled, EndCycle
  <2>2. CommitEffect /\ rebasing => UNCHANGED branch
    BY DEF CommitEffect
  <2> QED BY <1>2, <1>4, <2>1, <2>2
<1>7. CASE ~CommitDone /\ ~CommitKilled
  <2>1. UNCHANGED <<branch, remote, unpushed>>
    BY <1>7 DEF Commits, TakeEvent, StampSkip, StampRead, StampWrite, StageDone, StageRefused,
                StageKilled, DiffClean, DiffDirty, DiffKilled, CommitRefused, EndCycle
  <2> QED BY <1>4, <2>1
<1> QED BY <1>5, <1>6, <1>7

LEMMA BackupPushes ==
  ASSUME TypeOK, TypeOK', RefsAgree, SameRoot, Picking, Redone, ~Elsewhere, Pushes
  PROVE  Backup!Merge \/ Backup!Deliver \/ UNCHANGED Backup!bvars
<1> USE DEF repo, refs, health
<1>1. pc # "down" /\ pc' # "down" /\ (pc # "down")' = (pc # "down")
  BY BackupRuns DEF Worker
<1>2. ASSUME pc = "pick", RebaseEnds, UNCHANGED <<remote, unpushed>> PROVE Backup!Merge
  BY <1>1, <1>2, FinishMerges
<1>3. ASSUME CanPush, remote' = branch, UNCHANGED branch, unpushed' \in {unpushed, FALSE}
      PROVE  Backup!Deliver
  <2>1. Backup!IsPrefix(remote, branch)
    BY <1>3, SamePrefix DEF CanPush, Pushed
  <2> QED BY <1>1, <1>3, <2>1, Zenon DEF Backup!Deliver
<1>4. ASSUME UNCHANGED <<branch, remote, unpushed>> PROVE UNCHANGED Backup!bvars
  BY <1>1, <1>4, BackupStutter
<1>5. CASE RebaseFinish \/ RebaseKilled
  <2>1. UNCHANGED <<remote, unpushed>> /\ ((pc = "pick" /\ RebaseEnds) \/ UNCHANGED branch)
    BY <1>5, KilledRebase DEF RebaseFinish, RebaseKilled
  <2> QED BY <1>2, <1>4, <2>1
<1>6. CASE PushDone \/ PushKilled
  <2>1. /\ UNCHANGED branch /\ unpushed' \in {unpushed, FALSE}
        /\ UNCHANGED <<remote, unpushed>> \/ (CanPush /\ remote' = branch)
    BY <1>6 DEF PushDone, PushKilled, Pushed
  <2> QED BY <1>3, <1>4, <2>1
<1>7. CASE ~RebaseFinish /\ ~RebaseKilled /\ ~PushDone /\ ~PushKilled
  <2>1. UNCHANGED <<branch, remote, unpushed>>
    BY <1>7 DEF Pushes, QuietPush, FetchDone, FetchRefused, FetchGivenUp, RebaseStart,
                RebaseUpToDate, RebaseRefused, PickDone, PickStops, PickHalts, PickRefused,
                AbortDone, AbortRefused, AbortKilled, AbortEffect, PushRefused
  <2> QED BY <1>4, <2>1
<1> QED BY <1>5, <1>6, <1>7

\* Unless another branch is pinned, every step of the worker and its surroundings
\* is a step of the abstract backup or changes nothing it sees.
LEMMA BackupNext ==
  ASSUME ~Elsewhere
  PROVE  TypeOK /\ TypeOK' /\ RefsAgree /\ SameRoot /\ Picking /\ Redone /\ [Next]_vars => [Backup!Next]_(Backup!bvars)
<1> SUFFICES ASSUME TypeOK, TypeOK', RefsAgree, SameRoot, Picking, Redone, [Next]_vars
             PROVE  Backup!Next \/ UNCHANGED Backup!bvars
  OBVIOUS
<1>1. CASE Environment
  BY <1>1, BackupEnvironment DEF Backup!Next
<1>2. CASE Surroundings
  BY <1>2, BackupSurroundings DEF Backup!Next
<1>3. CASE Commits
  BY <1>3, BackupCommits DEF Backup!Next
<1>4. CASE Pushes
  BY <1>4, BackupPushes DEF Backup!Next
<1>5. CASE GitRaises
  <2>1. UNCHANGED <<branch, remote, unpushed>>
    BY <1>5 DEF GitRaises, EndCycle, repo, refs, health
  <2>2. pc # "down" /\ pc' # "down"
    BY <1>5, BackupRuns DEF Worker
  <2> QED BY <2>1, <2>2, BackupStutter
<1>6. CASE UNCHANGED vars
  BY <1>6, BackupStutter DEF vars, repo, refs, health
<1> QED BY <1>1, <1>2, <1>3, <1>4, <1>5, <1>6 DEF Next, Worker

\* The worker, its queue and git implement the abstract backup, whatever fails,
\* is killed or crashes, unless VAULT_GIT_BRANCH names another branch (worker.py
\* _stage_and_commit, _push_once).
THEOREM WorkerIsABackup ==
  ASSUME ~Elsewhere
  PROVE  Spec => ImplementsBackup
<1>1. TypeOK /\ TypeOK' /\ RefsAgree /\ SameRoot /\ Picking /\ Redone /\ [Next]_vars => [Backup!Next]_(Backup!bvars)
  BY BackupNext
<1> QED BY <1>1, SoundAlways, RefsAlwaysAgree, RedoneAlways, BackupInit, PTL DEF Spec, ImplementsBackup, Backup!Spec
=============================================================================

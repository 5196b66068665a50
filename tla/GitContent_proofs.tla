-------------------------- MODULE GitContent_proofs --------------------------
(***************************************************************************)
(* What the worker's commits and rebases make of the vault's content, for   *)
(* every vault, every bound and, unless a theorem says otherwise, every     *)
(* fault.                                                                   *)
(***************************************************************************)
EXTENDS GitWorker_proofs

-----------------------------------------------------------------------------
(* A finished rebase: local wins.                                           *)

\* When the upstream has nothing new, what the local commits left alone is as the
\* upstream has it.
LEMMA UpToDateSpots ==
  ASSUME TypeOK, RefsAgree, ~rebasing, UpToDate, NEW p \in Paths, NEW h \in Hunks,
         ~Touched(branch, tracking, p, h)
  PROVE  Spot(Tip(head), p, h) = Spot(Tip(tracking), p, h)
<1> DEFINE F == ForkPoint(branch, tracking)
           T == Len(tracking)
<1>1. head = branch /\ branch \in History /\ tracking \in History
      /\ {branch, tracking} \subseteq Seq(Commit) /\ IsPrefix(tracking, branch)
  BY DEF RefsAgree, UpToDate, TypeOK, History
<1>2. /\ T \in Nat \ {0} /\ Len(branch) \in Nat \ {0} /\ T <= Len(branch)
      /\ \A i \in 1..T : tracking[i] = branch[i]
  BY <1>1, TipType, PrefixPoints
<1>3. F = T
  <2>1. T \in 1..Len(branch) /\ \A i \in 1..T : branch[i] = tracking[i]
    BY <1>2
  <2>2. T <= F
    BY <1>1, <2>1, ForkPointLast
  <2> QED BY <1>1, <1>2, <2>2, ForkPointShared
<1>4. \A i \in (F + 1)..Len(branch) : Spot(branch[i].tree, p, h) = Spot(branch[i - 1].tree, p, h)
  BY DEF Touched
<1> HIDE DEF F
<1>5. Spot(branch[Len(branch)].tree, p, h) = Spot(branch[F].tree, p, h)
  <2>1. F \in Nat /\ Len(branch) \in Nat /\ F <= Len(branch)
    BY <1>2, <1>3
  <2> QED BY <1>1, <1>4, <2>1, UntouchedStays
<1>6. branch[F] = tracking[T]
  BY <1>2, <1>3
<1> QED BY <1>1, <1>5, <1>6 DEF Tip, Last

\* A rebase that lets the worker go on to push has the fetched remote below it, and is
\* exact hunk by hunk: what a local commit touched is as the last of them left it, all
\* the rest as the remote has it; whatever the histories, whoever writes while it picks
\* and whatever failed before (git_ops.py rebase_theirs, worker.py _push_once).
THEOREM RebaseLetsLocalWin == Spec => LocalWins
<1>1. TypeOK /\ SameRoot /\ Picking /\ RefsAgree /\ Merged /\ [Next]_vars =>
        [pc' = "push" /\ pc \in {"rebase", "pick"} =>
           /\ IsPrefix(tracking, head')
           /\ \A p \in Paths, h \in Hunks :
                Spot(Tip(head'), p, h) =
                  Spot(Tip(IF Touched(branch, tracking, p, h) THEN branch ELSE tracking), p, h)]_vars
  <2> SUFFICES ASSUME TypeOK, SameRoot, Picking, RefsAgree, Merged, Next,
                      pc' = "push", pc \in {"rebase", "pick"}
               PROVE  /\ IsPrefix(tracking, head')
                      /\ \A p \in Paths, h \in Hunks :
                           Spot(Tip(head'), p, h) =
                             Spot(Tip(IF Touched(branch, tracking, p, h) THEN branch ELSE tracking), p, h)
    OBVIOUS
  <2> USE DEF repo
  <2>1. RebaseUpToDate \/ RebaseFinish
    <3>1. ~Environment
      BY DEF Environment, McpUpdate, McpDelete, McpMove, McpTool, McpNotify, SweepTrigger,
             DeviceWrite, DeviceDelete, PeerPush, Writes
    <3>2. ~Surroundings
      BY DEF Surroundings, NetDown, NetUp, LockAppears, LockGone, IntervalPasses, Crash,
             Restart, health
    <3>3. ~Commits /\ ~GitRaises
      BY DEF Commits, TakeEvent, StampSkip, StampRead, StampWrite, StageDone, StageRefused,
             StageKilled, DiffClean, DiffDirty, DiffKilled, CommitDone, CommitRefused,
             CommitKilled, GitRaises
    <3>4. Pushes
      BY <3>1, <3>2, <3>3 DEF Next, Worker
    <3> QED BY <3>4 DEF Pushes, QuietPush, FetchDone, FetchRefused, FetchGivenUp, RebaseStart,
                        RebaseRefused, PickDone, PickStops, PickRefused, RebaseKilled, AbortDone,
                        AbortRefused, AbortKilled, PushDone, PushRefused, PushKilled
  <2>2. CASE RebaseUpToDate
    <3>1. head' = head /\ ~rebasing /\ UpToDate /\ head = branch
      BY <2>2 DEF RebaseUpToDate, CanStart, RefsAgree
    <3>2. IsPrefix(tracking, head')
      BY <3>1 DEF UpToDate
    <3> QED BY <3>1, <3>2, UpToDateSpots
  <2>3. CASE RebaseFinish
    <3>1. head' = head /\ pc = "pick" /\ AllPicked
      BY <2>3 DEF RebaseFinish, RebaseEnds
    <3>2. NextPick - 1 = Len(branch) /\ IsPrefix(tracking, head')
      BY <3>1, PickedAll DEF Picking
    <3>3. ASSUME NEW p \in Paths, NEW h \in Hunks
          PROVE  Spot(Tip(head'), p, h) =
                   Spot(Tip(IF Touched(branch, tracking, p, h) THEN branch ELSE tracking), p, h)
      <4>1. Spot(Tip(head), p, h) = IF TouchedBy(Len(branch), p, h)
                                      THEN Spot(branch[Len(branch)].tree, p, h)
                                      ELSE Spot(Tip(tracking), p, h)
        BY <3>1, <3>2 DEF Merged
      <4>2. TouchedBy(Len(branch), p, h) <=> Touched(branch, tracking, p, h)
        BY DEF TouchedBy, Touched
      <4> QED BY <3>1, <4>1, <4>2 DEF Tip, Last
    <3> QED BY <3>2, <3>3
  <2> QED BY <2>1, <2>2, <2>3
<1> QED BY <1>1, SoundAlways, RefsAlwaysAgree, MergedAlways, PTL DEF Spec, LocalWins

-----------------------------------------------------------------------------
(* A rebase and what no commit holds.                                       *)

\* A checkout on top of a clean index overwrites nothing that HEAD does not hold.
LEMMA CheckoutSpares ==
  ASSUME TypeOK, index = Tip(head), NEW new, CanCheckOut(new), CheckOut(new),
         NEW p \in Paths, wt'[p] # wt[p]
  PROVE  wt[p] = NoFile \/ \E i \in 1..Len(head) : head[i].tree[p] = wt[p]
<1>1. index[p] # new[p]
  BY DEF CheckOut, CheckedOut
<1>2. wt[p] \in {index[p], NoFile}
  BY <1>1 DEF CanCheckOut, InTheWay, Changed
<1>3. Len(head) \in 1..Len(head) /\ Tip(head) = head[Len(head)].tree
  BY TipType DEF TypeOK, Tip, Last
<1> QED BY <1>2, <1>3

\* Committing and pushing, also when killed or crashing half-way through a rebase,
\* overwrites no file whose content no commit of HEAD holds; only the stamper and an
\* abort do (worker.py _push_once; git_ops.py rebase_theirs).
THEOREM RebaseSparesWrites == Spec => RebaseKeepsWrites
<1>1. TypeOK /\ Picking /\ [Next]_vars =>
        [writes' = writes /\ pc \notin {"restamp", "abort"} => \A p \in Paths :
           wt'[p] # wt[p] =>
             wt[p] = NoFile \/ \E i \in 1..Len(head) : head[i].tree[p] = wt[p]]_vars
  <2> SUFFICES ASSUME TypeOK, Picking, Next, writes' = writes, pc \notin {"restamp", "abort"},
                      NEW p \in Paths, wt'[p] # wt[p]
               PROVE  wt[p] = NoFile \/ \E i \in 1..Len(head) : head[i].tree[p] = wt[p]
    OBVIOUS
  <2> USE DEF repo
  <2>1. RebaseStart \/ PickDone \/ (pc = "pick" /\ PickHalts)
    <3>1. CASE Environment
      <4>1. writes \in Nat /\ writes + 1 # writes
        BY WritesAssumption DEF TypeOK
      <4> QED BY <3>1, <4>1 DEF Environment, McpUpdate, McpDelete, McpMove, McpTool, McpNotify,
                    SweepTrigger, DeviceWrite, DeviceDelete, PeerPush, Writes
    <3>2. CASE Surroundings
      BY <3>2 DEF Surroundings, NetDown, NetUp, LockAppears, LockGone, IntervalPasses, Crash,
                  Restart
    <3>3. CASE Commits
      BY <3>3 DEF Commits, TakeEvent, StampSkip, StampRead, StampWrite, StageDone, StageRefused,
                  StageKilled, DiffClean, DiffDirty, DiffKilled, CommitDone, CommitRefused,
                  CommitKilled
    <3>4. CASE Pushes
      BY <3>4 DEF Pushes, QuietPush, FetchDone, FetchRefused, FetchGivenUp, RebaseUpToDate,
                  RebaseRefused, PickStops, PickRefused, RebaseFinish, RebaseEnds, RebaseKilled,
                  AbortDone, AbortRefused, AbortKilled, PushDone, PushRefused, PushKilled
    <3>5. CASE GitRaises
      BY <3>5 DEF GitRaises
    <3> QED BY <3>1, <3>2, <3>3, <3>4, <3>5 DEF Next, Worker
  <2>2. CASE RebaseStart
    <3>1. index = Tip(head)
      BY <2>2 DEF RebaseStart, CanStart, Dirty
    <3> QED BY <2>2, <3>1, CheckoutSpares DEF RebaseStart
  <2>3. CASE PickDone \/ (pc = "pick" /\ PickHalts)
    <3>1. index = Tip(head)
      BY <2>3 DEF PickDone, Picking
    <3> QED BY <2>3, <3>1, CheckoutSpares DEF PickDone, PickHalts, CanPick
  <2> QED BY <2>1, <2>2, <2>3
<1> QED BY <1>1, SoundAlways, PTL DEF Spec, RebaseKeepsWrites

-----------------------------------------------------------------------------
(* When nothing but the network fails, a rebase is over before the worker   *)
(* does anything else; with no rival for the remote there is none.          *)

Calm == Faults \subseteq {"offline"}

\* No other clone pushes, or there is no remote to push to.
NoRival == "peer" \notin Sources \/ ~HasRemote

\* No lock is ever left, and a rebase that is open is picking or about to be aborted.
Undisturbed == ~locked /\ (rebasing => pc \in {"pick", "abort"})

LEMMA CalmBudget ==
  ASSUME Calm
  PROVE  \A kind \in {"lock", "rc", "timeout", "raise", "crash"} : ~Budget(kind)
BY DEF Calm, Budget

\* What a step does to the repository and to the program counter, when it is calm.
CalmStep ==
  \/ UNCHANGED <<repo, pc, ev>>
  \/ UNCHANGED repo /\ {pc, pc'} \cap {"diff", "commit", "pick", "abort"} = {}
  \/ StageDone \/ DiffClean \/ (DiffDirty /\ HasStaged)
  \/ CommitDone \/ (CommitRefused /\ unmerged # {})
  \/ RebaseStart \/ PickDone \/ PickStops \/ RebaseFinish
  \/ (pc \in {"rebase", "pick"} /\ pc' = "abort" /\ UNCHANGED repo)
  \/ AbortDone \/ (AbortRefused /\ ~rebasing)

LEMMA CalmSteps ==
  ASSUME Calm, Undisturbed, Next
  PROVE  CalmStep /\ ~locked'
<1> USE CalmBudget DEF repo, CalmStep
<1>1. CASE Environment
  <2>1. UNCHANGED <<pc, ev, locked>>
    BY <1>1 DEF Environment, McpUpdate, McpDelete, McpMove, McpTool, McpNotify,
                SweepTrigger, DeviceWrite, DeviceDelete, PeerPush, Writes, world
  <2>2. UNCHANGED repo
    BY <1>1 DEF Environment, McpUpdate, McpDelete, McpMove, McpTool, McpNotify,
                SweepTrigger, DeviceWrite, DeviceDelete, PeerPush, Writes
  <2> QED BY <2>1, <2>2 DEF Undisturbed
<1>2. CASE Surroundings
  <2>1. ~LockAppears /\ ~Crash
    BY DEF LockAppears, Crash
  <2>2. CASE NetDown \/ NetUp \/ LockGone \/ IntervalPasses
    BY <2>2 DEF NetDown, NetUp, LockGone, IntervalPasses, Undisturbed, world
  <2>3. CASE Restart
    <3>1. UNCHANGED repo /\ pc = "down" /\ pc' = "idle"
      BY <2>3 DEF Restart
    <3>2. ~locked'
      BY <2>3, Zenon DEF Restart, Undisturbed
    <3> QED BY <3>1, <3>2
  <2> QED BY <1>2, <2>1, <2>2, <2>3 DEF Surroundings
<1>3. CASE Commits
  <2>1. ~StageKilled /\ ~DiffKilled /\ ~CommitKilled
    BY DEF StageKilled, DiffKilled, CommitKilled, Killed
  <2>2. CASE TakeEvent \/ StampSkip \/ StampRead \/ StampWrite
    BY <2>2 DEF TakeEvent, StampSkip, StampRead, StampWrite, StampOrStage, Undisturbed, world
  <2>3. CASE StageDone \/ DiffClean \/ CommitDone
    <3>1. ~locked'
      BY <2>3 DEF StageDone, DiffClean, CommitDone, Undisturbed, world
    <3> QED BY <2>3, <3>1
  <2>4. CASE StageRefused
    BY <2>4 DEF StageRefused, EndCycle, MaybePush, Undisturbed
  <2>5. CASE DiffDirty
    BY <2>5 DEF DiffDirty, Refused, Undisturbed
  <2>6. CASE CommitRefused
    BY <2>6 DEF CommitRefused, Refused, CanCommit, Undisturbed
  <2> QED BY <1>3, <2>1, <2>2, <2>3, <2>4, <2>5, <2>6 DEF Commits
<1>4. CASE Pushes
  <2>1. ~RebaseKilled /\ ~AbortKilled /\ ~PushKilled /\ ~FetchGivenUp
    BY DEF RebaseKilled, AbortKilled, PushKilled, FetchGivenUp, Killed
  <2>2. CASE QuietPush \/ FetchDone \/ FetchRefused \/ RebaseUpToDate \/ PushDone \/ PushRefused
    BY <2>2 DEF QuietPush, FetchDone, FetchRefused, RebaseUpToDate, PushDone, PushRefused,
                Undisturbed, world
  <2>3. CASE RebaseStart \/ PickDone \/ PickStops \/ RebaseFinish \/ AbortDone
    <3>1. ~locked'
      BY <2>3 DEF RebaseStart, PickDone, PickStops, RebaseFinish, AbortDone, Undisturbed, world
    <3> QED BY <2>3, <3>1
  <2>4. CASE RebaseRefused \/ PickRefused
    BY <2>4 DEF RebaseRefused, PickRefused, Undisturbed
  <2>5. CASE AbortRefused
    BY <2>5 DEF AbortRefused, Refused, CanAbort, Undisturbed
  <2> QED BY <1>4, <2>1, <2>2, <2>3, <2>4, <2>5 DEF Pushes
<1>5. CASE GitRaises
  BY <1>5 DEF GitRaises
<1> QED BY <1>1, <1>2, <1>3, <1>4, <1>5 DEF Next, Worker

LEMMA CalmNext ==
  ASSUME Calm, Undisturbed, [Next]_vars
  PROVE  Undisturbed'
<1> USE DEF repo
<1>1. CASE UNCHANGED vars
  BY <1>1 DEF vars, world, Undisturbed
<1>2. CASE Next
  <2>1. CalmStep /\ ~locked'
    BY <1>2, CalmSteps
  <2>2. rebasing' => pc' \in {"pick", "abort"}
    <3>1. CASE UNCHANGED <<repo, pc, ev>>
      BY <3>1 DEF Undisturbed
    <3>2. CASE UNCHANGED repo /\ {pc, pc'} \cap {"diff", "commit", "pick", "abort"} = {}
      BY <3>2 DEF Undisturbed
    <3>3. CASE StageDone \/ DiffClean \/ DiffDirty \/ CommitDone \/ CommitRefused
      BY <3>3 DEF StageDone, DiffClean, DiffDirty, CommitDone, CommitRefused, Undisturbed
    <3>4. CASE RebaseStart \/ PickDone \/ PickStops \/ RebaseFinish
      BY <3>4 DEF RebaseStart, PickDone, PickStops, RebaseFinish, RebaseEnds
    <3>5. CASE AbortDone
      BY <3>5 DEF AbortDone, AbortEffect
    <3>6. CASE AbortRefused /\ ~rebasing
      BY <3>6 DEF AbortRefused
    <3> QED BY <2>1, <3>1, <3>2, <3>3, <3>4, <3>5, <3>6 DEF CalmStep
  <2> QED BY <2>1, <2>2 DEF Undisturbed
<1> QED BY <1>1, <1>2

LEMMA CalmAlways ==
  ASSUME Calm
  PROVE  Spec => []Undisturbed
<1>1. Init => Undisturbed
  BY DEF Init, Undisturbed
<1>2. Undisturbed /\ [Next]_vars => Undisturbed'
  BY CalmNext
<1> QED BY <1>1, <1>2, PTL DEF Spec

\* With no rival, what the remote has is below the branch, so that there is never
\* anything to rebase onto.
Unrivalled ==
  /\ ~rebasing
  /\ IF HasRemote THEN IsPrefix(remote, branch) ELSE pc \notin PushSteps

LEMMA NothingToReplay ==
  ASSUME TypeOK, RefsAgree, Unrivalled, HasRemote
  PROVE  UpToDate
<1>1. {head, branch, tracking, remote} \subseteq Seq(Commit)
  BY DEF TypeOK, History
<1> QED BY <1>1, PrefixTransitive DEF RefsAgree, Unrivalled, UpToDate

\* So no step of the worker's but a commit touches what HEAD or the branch point at.
LEMMA UnrivalledStep ==
  ASSUME TypeOK, Picking, RefsAgree, NoRival, Unrivalled, Next
  PROVE  /\ ~PeerPush \/ ~HasRemote
         /\ \/ UNCHANGED <<head, branch, rebasing>>
            \/ (CommitDone \/ CommitKilled) /\ CommitEffect /\ UNCHANGED rebasing
         /\ Pushes => UNCHANGED <<wt, repo>>
         /\ ~RebaseStart
<1> USE DEF repo, PushSteps
<1>1. ~PeerPush \/ ~HasRemote
  BY DEF NoRival, PeerPush
<1>2. pc # "pick" /\ ~CanAbort /\ ~RebaseStart
  BY NothingToReplay DEF Picking, Unrivalled, CanAbort, RebaseStart
<1>3. Environment => UNCHANGED <<head, branch, rebasing>>
  BY DEF Environment, McpUpdate, McpDelete, McpMove, McpTool, McpNotify, SweepTrigger,
         DeviceWrite, DeviceDelete, PeerPush, Writes
<1>4. Surroundings => UNCHANGED <<wt, repo>>
  BY DEF Surroundings, NetDown, NetUp, LockAppears, LockGone, IntervalPasses, Restart, Crash
<1>5. Commits => /\ pc \notin PushSteps
                 /\ \/ UNCHANGED <<head, branch, rebasing>>
                    \/ (CommitDone \/ CommitKilled) /\ CommitEffect /\ UNCHANGED rebasing
  BY DEF Commits, TakeEvent, StampSkip, StampRead, StampWrite, StageDone, StageRefused,
         StageKilled, DiffClean, DiffDirty, DiffKilled, CommitDone, CommitRefused, CommitKilled
<1>6. Pushes => UNCHANGED <<wt, repo>>
  BY <1>2 DEF Pushes, QuietPush, FetchDone, FetchRefused, FetchGivenUp, RebaseUpToDate,
              RebaseRefused, PickDone, PickStops, PickRefused, RebaseFinish, RebaseKilled,
              AbortDone, AbortRefused, AbortKilled, PushDone, PushRefused, PushKilled
<1>7. GitRaises => UNCHANGED <<wt, repo>>
  BY DEF GitRaises
<1> QED BY <1>1, <1>2, <1>3, <1>4, <1>5, <1>6, <1>7 DEF Next, Worker

LEMMA UnrivalledNext ==
  ASSUME NoRival, TypeOK, TypeOK', Picking, RefsAgree, Unrivalled, [Next]_vars
  PROVE  Unrivalled'
<1> USE DEF repo, refs
<1>0. {head, branch, remote} \subseteq Seq(Commit) /\ {head', branch', remote'} \subseteq Seq(Commit)
  BY DEF TypeOK, History
<1>1. CASE UNCHANGED vars
  BY <1>1 DEF vars, Unrivalled
<1>2. CASE Next
  <2>1. ~rebasing' /\ (UNCHANGED branch \/ CommitEffect)
    BY <1>2, UnrivalledStep DEF Unrivalled
  <2>2. IsPrefix(branch, branch')
    <3>1. CASE UNCHANGED branch
      BY <1>0, <3>1, PrefixReflexive
    <3>2. CASE CommitEffect
      <4>1. branch = head /\ branch' = Append(head, [label |-> Label, tree |-> index])
        BY <3>2 DEF CommitEffect, RefsAgree, Unrivalled
      <4>2. [label |-> Label, tree |-> index] \in Commit
        BY DEF Label, Labels, Commit, TypeOK
      <4> QED BY <1>0, <4>1, <4>2, PrefixAppend
    <3> QED BY <2>1, <3>1, <3>2
  <2>3. CASE HasRemote
    <3>1. UNCHANGED remote \/ (CanPush /\ remote' = Pushed /\ UNCHANGED branch)
      BY <1>2, <2>3, UnrivalledStep, RefSteps
      DEF CommitDone, CommitKilled, FetchDone, FetchGivenUp, RebaseStart, PickDone, RebaseFinish,
          RebaseKilled, AbortDone, AbortKilled, PushDone, PushKilled
    <3>2. IsPrefix(remote', branch)
      BY <1>0, <2>3, <3>1, PushedRef, PrefixReflexive DEF Unrivalled
    <3>3. IsPrefix(remote', branch')
      BY <1>0, <2>2, <3>2, PrefixTransitive
    <3> QED BY <2>1, <2>3, <3>3 DEF Unrivalled
  <2>4. CASE ~HasRemote
    <3>1. pc' \notin PushSteps
      BY <1>2, <2>4
      DEF Unrivalled, PushSteps, Next, Environment, Surroundings, Worker, Commits, Pushes,
          McpUpdate, McpDelete, McpMove, McpTool, McpNotify, SweepTrigger, DeviceWrite,
          DeviceDelete, PeerPush, Writes, NetDown, NetUp, LockAppears, LockGone, IntervalPasses,
          Restart, Crash, TakeEvent, StampSkip, StampRead, StampWrite, StampOrStage, StageDone,
          StageRefused, StageKilled, DiffClean, DiffDirty, DiffKilled, CommitDone, CommitRefused,
          CommitKilled, EndCycle, MaybePush, QuietPush, FetchDone, FetchRefused, FetchGivenUp,
          RebaseStart, RebaseUpToDate, RebaseRefused, PickDone, PickStops, PickRefused,
          RebaseFinish, RebaseKilled, AbortDone, AbortRefused, AbortKilled, PushDone, PushRefused,
          PushKilled, GitRaises
    <3> QED BY <2>1, <2>4, <3>1 DEF Unrivalled
  <2> QED BY <2>3, <2>4
<1> QED BY <1>1, <1>2

LEMMA UnrivalledAlways ==
  ASSUME NoRival
  PROVE  Spec => []Unrivalled
<1>1. Init => Unrivalled
  <2>1. <<Root>> \in Seq(Commit)
    BY RootType
  <2> QED BY <2>1, PrefixReflexive DEF Init, Unrivalled, PushSteps
<1>2. TypeOK /\ TypeOK' /\ Picking /\ RefsAgree /\ Unrivalled /\ [Next]_vars => Unrivalled'
  BY UnrivalledNext
<1> QED BY <1>1, <1>2, SoundAlways, RefsAlwaysAgree, PTL DEF Spec

\* No event is ever committed on the detached HEAD of a half-done rebase: while
\* only the network fails, or when nobody else pushes (worker.py _push_once).
THEOREM RebaseNeverLeftOpen ==
  ASSUME Calm \/ NoRival
  PROVE  Spec => []NoRebaseLeftOpen
<1>1. CASE Calm
  <2>1. Undisturbed => NoRebaseLeftOpen
    BY DEF Undisturbed, NoRebaseLeftOpen
  <2> QED BY <1>1, <2>1, CalmAlways, PTL
<1>2. CASE NoRival
  <2>1. Unrivalled => NoRebaseLeftOpen
    BY DEF Unrivalled, NoRebaseLeftOpen
  <2> QED BY <1>2, <2>1, UnrivalledAlways, PTL
<1> QED BY <1>1, <1>2

-----------------------------------------------------------------------------
(* The index, when nothing but the network fails: it is what HEAD holds,    *)
(* apart from what an event has staged and is about to commit.              *)

IndexFollows ==
  /\ ~rebasing /\ pc \notin {"diff", "commit"} => index = Tip(head)
  /\ pc \in {"diff", "commit"} => Changed(Tip(head), index) \subseteq EventPaths

\* The commit a commit appends.
LEMMA CommitTip ==
  ASSUME TypeOK, CommitEffect
  PROVE  Tip(head') = index
<1>1. [label |-> Label, tree |-> index] \in Commit /\ head \in Seq(Commit)
  BY DEF Label, Labels, Commit, TypeOK, History
<1> QED BY <1>1, TipAppend DEF CommitEffect

LEMMA IndexNext ==
  ASSUME Calm, TypeOK, Picking, Undisturbed, IndexFollows, [Next]_vars
  PROVE  IndexFollows'
<1> USE DEF repo
<1>1. CASE UNCHANGED <<repo, pc, ev>>
  BY <1>1 DEF IndexFollows, EventPaths
<1>2. CASE UNCHANGED repo /\ {pc, pc'} \cap {"diff", "commit", "pick", "abort"} = {}
  <2>1. ~rebasing /\ pc \notin {"diff", "commit"} /\ pc' \notin {"diff", "commit"}
    BY <1>2 DEF Undisturbed
  <2> QED BY <1>2, <2>1 DEF IndexFollows
<1>3. CASE StageDone
  <2>1. index = Tip(head) /\ ~rebasing
    BY <1>3 DEF StageDone, Undisturbed, IndexFollows
  <2>2. index' = Staged(EventPaths, wt, index) /\ head' = head /\ pc' = "diff" /\ ev' = ev
    BY <1>3, <2>1 DEF StageDone, StageEffect
  <2>3. Changed(Tip(head'), index') \subseteq EventPaths'
    BY <2>1, <2>2 DEF Changed, Staged, EventPaths
  <2> QED BY <2>2, <2>3 DEF IndexFollows
<1>4. CASE DiffClean
  <2>1. index = Tip(head) /\ UNCHANGED repo /\ pc' \notin {"diff", "commit"}
    BY <1>4 DEF DiffClean, HasStaged, EndCycle, MaybePush
  <2> QED BY <2>1 DEF IndexFollows
<1>5. CASE DiffDirty
  BY <1>5 DEF DiffDirty, IndexFollows, EventPaths
<1>6. CASE CommitDone
  <2>1. UNCHANGED index /\ pc' \notin {"diff", "commit"}
    BY <1>6 DEF CommitDone, EndCycle, MaybePush
  <2>2. index = Tip(head')
    BY <1>6, CommitTip DEF CommitDone, HasStaged
  <2> QED BY <2>1, <2>2 DEF IndexFollows
<1>7. CASE CommitRefused /\ unmerged # {}
  BY <1>7 DEF CommitRefused, Undisturbed, Picking
<1>8. CASE RebaseStart \/ PickDone \/ PickStops
  BY <1>8 DEF RebaseStart, PickDone, PickStops, PickHalts, Picking, IndexFollows
<1>9. CASE RebaseFinish
  BY <1>9 DEF RebaseFinish, RebaseEnds, Picking, IndexFollows
<1>10. CASE pc \in {"rebase", "pick"} /\ pc' = "abort" /\ UNCHANGED repo
  BY <1>10 DEF IndexFollows
<1>11. CASE AbortDone
  BY <1>11 DEF AbortDone, AbortEffect, IndexFollows
<1>12. CASE AbortRefused /\ ~rebasing
  BY <1>12 DEF AbortRefused, IndexFollows
<1>13. CASE UNCHANGED vars
  BY <1>1, <1>13 DEF vars
<1> QED BY <1>1, <1>2, <1>3, <1>4, <1>5, <1>6, <1>7, <1>8, <1>9, <1>10, <1>11, <1>12, <1>13,
           CalmSteps DEF CalmStep

LEMMA IndexAlways ==
  ASSUME Calm
  PROVE  Spec => []IndexFollows
<1>1. Init => IndexFollows
  BY DEF Init, IndexFollows, Tip, Last
<1>2. TypeOK /\ Picking /\ Undisturbed /\ IndexFollows /\ [Next]_vars => IndexFollows'
  BY IndexNext
<1>3. Spec => []Undisturbed
  BY CalmAlways
<1> QED BY <1>1, <1>2, <1>3, SoundAlways, PTL DEF Spec

\* What a commit that nobody disturbs takes along: its event's paths.
LEMMA CommitTakes ==
  ASSUME TypeOK, IndexFollows, CommitEffect, pc = "commit", ev.kind = "mcp_write"
  PROVE  Changed(Tip(head), Tip(head')) \subseteq ev.paths
BY CommitTip DEF IndexFollows, EventPaths

\* A step that moves HEAD while the worker commits is the commit.
LEMMA CommitSteps ==
  ASSUME Next, pc = "commit", head' # head
  PROVE  CommitEffect
<1> USE DEF repo, refs
<1>1. CASE CommitDone \/ CommitKilled
  BY <1>1 DEF CommitDone, CommitKilled
<1>2. CASE PeerPush
  BY <1>2 DEF PeerPush
<1> QED BY <1>1, <1>2, RefSteps
      DEF FetchDone, FetchGivenUp, RebaseStart, PickDone, RebaseFinish, RebaseKilled,
          AbortDone, AbortKilled, PushDone, PushKilled

\* While only the network fails, an `mcp:` commit holds its own event's paths and
\* nothing else, whatever devices and peers write meanwhile (worker.py
\* _handle_mcp_write, git_ops.add_paths).
THEOREM McpCommitsAreTight ==
  ASSUME Calm
  PROVE  Spec => McpCommitTight
<1>1. TypeOK /\ IndexFollows /\ [Next]_vars =>
        [pc = "commit" /\ ev.kind = "mcp_write" /\ head' # head
           => Changed(Tip(head), Tip(head')) \subseteq ev.paths]_vars
  BY CommitSteps, CommitTakes
<1>2. Spec => []IndexFollows
  BY IndexAlways
<1> QED BY <1>1, <1>2, SoundAlways, PTL DEF Spec, McpCommitTight

-----------------------------------------------------------------------------
(* No version is lost with its commit.                                      *)

LEMMA RemoteHolds ==
  ASSUME TypeOK, TypeOK', [Next]_vars
  PROVE  Versions(remote) \subseteq Versions(remote')
<1>1. remote \in Seq(Commit) /\ remote' \in Seq(Commit)
  BY DEF TypeOK, History
<1> QED BY <1>1, RemoteGrows, VersionsPrefix

\* A commit adds versions and takes none away ...
LEMMA CommitKeeps ==
  ASSUME TypeOK, CommitEffect
  PROVE  Versions(head) \subseteq Versions(head')
<1>1. [label |-> Label, tree |-> index] \in Commit /\ head \in Seq(Commit)
  BY DEF Label, Labels, Commit, TypeOK, History
<1>2. head' = Append(head, [label |-> Label, tree |-> index])
  BY DEF CommitEffect
<1>3. head' \in Seq(Commit) /\ IsPrefix(head, head')
  BY <1>1, <1>2, PrefixAppend
<1> QED BY <1>1, <1>3, VersionsPrefix

\* ... and so does a pick: all that is new comes from the commit it picks.
LEMMA PickKeeps ==
  ASSUME TypeOK, TypeOK', SameRoot, Picking, PickDone
  PROVE  /\ Versions(head) \subseteq Versions(head')
         /\ Versions(head') \subseteq Versions(head) \cup Versions(branch)
         /\ \A p \in Paths, h \in Hunks :
              Spot(branch[NextPick].tree, p, h) \notin {NoFile, Spot(branch[NextPick - 1].tree, p, h)}
                => <<p, h, Spot(branch[NextPick].tree, p, h)>> \in Versions(head')
<1>1. /\ Tip(head') = PickedTree
      /\ Len(head') = Len(head) + 1 /\ \A i \in 1..Len(head) : head'[i] = head[i]
      /\ head'[Len(head')].tree = PickedTree
      /\ \A p \in Paths, h \in Hunks :
           Spot(PickedTree, p, h) =
             IF Spot(branch[NextPick].tree, p, h) # Spot(branch[NextPick - 1].tree, p, h)
               THEN Spot(branch[NextPick].tree, p, h) ELSE Spot(Tip(head), p, h)
  BY PickDoneSpots
<1>2. {head, head', branch} \subseteq History /\ {Len(head), Len(branch)} \subseteq Nat \ {0}
  BY TipType DEF TypeOK
<1>3. NextPick \in 1..Len(branch)
  <2>1. pc = "pick" /\ ~AllPicked
    BY DEF PickDone, CanPick
  <2>2. NextPick \in Nat /\ NextPick - 1 \in ForkPoint(branch, tracking)..Len(branch)
        /\ ForkPoint(branch, tracking) \in Nat /\ ForkPoint(branch, tracking) >= 1
    BY <2>1, PickNumbers
  <2> HIDE DEF NextPick
  <2> QED BY <1>2, <2>1, <2>2 DEF AllPicked
<1> HIDE DEF NextPick
<1>4. Versions(head) \subseteq Versions(head')
  <2> SUFFICES ASSUME NEW v \in Versions(head) PROVE v \in Versions(head')
    OBVIOUS
  <2>1. PICK i \in 1..Len(head), p \in Paths, h \in Hunks :
          Spot(head[i].tree, p, h) # NoFile /\ v = <<p, h, Spot(head[i].tree, p, h)>>
    BY <1>2, VersionsAreSpots
  <2>2. i \in 1..Len(head') /\ head'[i] = head[i]
    BY <1>1, <1>2
  <2> QED BY <1>2, <2>1, <2>2, VersionsAreSpots
<1>5. Versions(head') \subseteq Versions(head) \cup Versions(branch)
  <2> SUFFICES ASSUME NEW v \in Versions(head') PROVE v \in Versions(head) \cup Versions(branch)
    OBVIOUS
  <2>1. PICK i \in 1..Len(head'), p \in Paths, h \in Hunks :
          Spot(head'[i].tree, p, h) # NoFile /\ v = <<p, h, Spot(head'[i].tree, p, h)>>
    BY <1>2, VersionsAreSpots
  <2>2. CASE i \in 1..Len(head)
    BY <1>1, <1>2, <2>1, <2>2, VersionsAreSpots
  <2>3. CASE i = Len(head')
    <3>1. Spot(head'[i].tree, p, h) \in {Spot(branch[NextPick].tree, p, h), Spot(Tip(head), p, h)}
      BY <1>1, <2>3
    <3>2. Tip(head) = head[Len(head)].tree /\ Len(head) \in 1..Len(head)
      BY <1>2 DEF Tip, Last
    <3> QED BY <1>2, <1>3, <2>1, <3>1, <3>2, VersionsAreSpots
  <2> QED BY <1>1, <1>2, <2>2, <2>3
<1>6. ASSUME NEW p \in Paths, NEW h \in Hunks,
             Spot(branch[NextPick].tree, p, h) \notin {NoFile, Spot(branch[NextPick - 1].tree, p, h)}
      PROVE  <<p, h, Spot(branch[NextPick].tree, p, h)>> \in Versions(head')
  <2>1. Spot(head'[Len(head')].tree, p, h) = Spot(branch[NextPick].tree, p, h)
    BY <1>1, <1>6
  <2>2. Len(head') \in 1..Len(head')
    BY <1>1, <1>2
  <2> QED BY <1>2, <1>6, <2>1, <2>2, VersionsAreSpots
<1> QED BY <1>4, <1>5, <1>6

\* While a rebase is open, what HEAD holds the branch or the remote holds; and HEAD holds
\* everything of the branch's commits the rebase has come past.
Kin ==
  /\ rebasing => Versions(head) \subseteq Versions(branch) \cup Versions(remote)
  /\ pc = "pick" => \A i \in 1..(NextPick - 1), p \in Paths, h \in Hunks :
       Spot(branch[i].tree, p, h) # NoFile =>
         <<p, h, Spot(branch[i].tree, p, h)>> \in Versions(head)

LEMMA KinNext ==
  ASSUME Calm, TypeOK, TypeOK', SameRoot, Picking, RefsAgree, Undisturbed, Kin, [Next]_vars
  PROVE  Kin'
<1> USE DEF repo
<1>0. /\ Versions(remote) \subseteq Versions(remote')
      /\ {head, branch, tracking, remote} \subseteq History
      /\ {head, branch, tracking, remote} \subseteq Seq(Commit)
  BY RemoteHolds DEF TypeOK, History
<1>1. rebasing' => Versions(head') \subseteq Versions(branch') \cup Versions(remote')
  <2>1. CASE UNCHANGED <<head, branch, rebasing>>
    BY <1>0, <2>1 DEF Kin
  <2>2. CASE RebaseStart
    <3>1. head' = tracking /\ Versions(tracking) \subseteq Versions(remote)
      BY <1>0, <2>2, VersionsPrefix DEF RebaseStart, RefsAgree
    <3> QED BY <1>0, <3>1
  <2>3. CASE PickDone
    <3>1. rebasing /\ UNCHANGED branch
      BY <2>3 DEF PickDone, Picking
    <3> QED BY <1>0, <2>3, <3>1, PickKeeps DEF Kin
  <2>4. CASE RebaseFinish \/ AbortDone
    BY <2>4 DEF RebaseFinish, RebaseEnds, AbortDone, AbortEffect
  <2>5. CASE CommitDone
    BY <2>5 DEF CommitDone, Undisturbed
  <2>6. CalmStep => \/ UNCHANGED <<head, branch, rebasing>>
                    \/ RebaseStart \/ PickDone \/ RebaseFinish \/ AbortDone \/ CommitDone
    BY DEF CalmStep, StageDone, DiffClean, DiffDirty, CommitRefused, PickStops, PickHalts,
           AbortRefused
  <2>7. UNCHANGED vars => UNCHANGED <<head, branch, rebasing>>
    BY DEF vars
  <2> QED BY <2>1, <2>2, <2>3, <2>4, <2>5, <2>6, <2>7, CalmSteps
<1>2. ASSUME pc' = "pick", NEW i \in 1..(NextPick' - 1), NEW p \in Paths, NEW h \in Hunks,
             Spot(branch'[i].tree, p, h) # NoFile
      PROVE  <<p, h, Spot(branch'[i].tree, p, h)>> \in Versions(head')
  <2>1. CASE pc = "pick" /\ UNCHANGED <<repo, tracking>>
    BY <1>2, <2>1 DEF Kin, NextPick
  <2>2. CASE RebaseStart
    <3> DEFINE F == ForkPoint(branch, tracking)
    <3>1. head' = tracking /\ UNCHANGED <<branch, tracking>>
      BY <2>2 DEF RebaseStart, refs
    <3>2. NextPick' = F + (Len(tracking) - Len(tracking)) + 1
      BY <3>1 DEF NextPick
    <3>3. /\ F \in Nat /\ F <= Len(tracking) /\ Len(tracking) \in Nat
          /\ \A j \in 1..F : branch[j] = tracking[j]
      BY <1>0, ForkPointShared, TipType
    <3> HIDE DEF F
    <3>4. i \in 1..Len(tracking) /\ branch[i] = tracking[i]
      BY <1>2, <3>2, <3>3
    <3> QED BY <1>0, <1>2, <3>1, <3>4, VersionsAreSpots
  <2>3. CASE PickDone
    <3>1. pc = "pick" /\ UNCHANGED branch /\ NextPick' = NextPick + 1
      BY <2>3, PickDoneSpots DEF PickDone
    <3>2. NextPick \in Nat /\ NextPick - 1 \in 1..Len(branch) /\ Len(branch) \in Nat
      <4>1. /\ ForkPoint(branch, tracking) \in Nat /\ ForkPoint(branch, tracking) >= 1
            /\ NextPick \in Nat /\ NextPick - 1 \in ForkPoint(branch, tracking)..Len(branch)
            /\ Len(branch) \in Nat
        BY <3>1, PickNumbers
      <4> HIDE DEF NextPick
      <4> QED BY <4>1
    <3>3. \A j \in 1..(NextPick - 1), q \in Paths, k \in Hunks :
            Spot(branch[j].tree, q, k) # NoFile =>
              <<q, k, Spot(branch[j].tree, q, k)>> \in Versions(head')
      BY <2>3, <3>1, PickKeeps DEF Kin
    <3>4. Spot(branch[NextPick].tree, p, h) \notin {NoFile, Spot(branch[NextPick - 1].tree, p, h)}
            => <<p, h, Spot(branch[NextPick].tree, p, h)>> \in Versions(head')
      BY <2>3, PickKeeps
    <3> HIDE DEF NextPick
    <3>5. i \in 1..(NextPick - 1) \/ i = NextPick
      BY <1>2, <3>1, <3>2
    <3>6. NextPick - 1 \in 1..(NextPick - 1)
      BY <3>2
    <3> QED BY <1>2, <3>1, <3>3, <3>4, <3>5, <3>6
  <2> QED BY <1>2, <2>1, <2>2, <2>3, PickSteps
<1> QED BY <1>1, <1>2 DEF Kin

LEMMA KinAlways ==
  ASSUME Calm
  PROVE  Spec => []Kin
<1>1. Init => Kin
  BY DEF Init, Kin
<1>2. /\ TypeOK /\ TypeOK' /\ SameRoot /\ Picking /\ RefsAgree /\ Undisturbed /\ Kin /\ [Next]_vars
      => Kin'
  BY KinNext
<1>3. Spec => []Undisturbed
  BY CalmAlways
<1> QED BY <1>1, <1>2, <1>3, SoundAlways, RefsAlwaysAgree, PTL DEF Spec

Kept == (Versions(head) \cup Versions(branch) \cup Versions(remote))
          \subseteq (Versions(head') \cup Versions(branch') \cup Versions(remote'))

LEMMA CalmKeeps ==
  ASSUME Calm, TypeOK, TypeOK', SameRoot, Picking, RefsAgree, Undisturbed, Kin, Next
  PROVE  Kept
<1> USE DEF repo
<1>0. /\ Versions(remote) \subseteq Versions(remote')
      /\ {head, branch} \subseteq History
  BY RemoteHolds DEF TypeOK
<1>1. CASE UNCHANGED <<head, branch>>
  BY <1>0, <1>1 DEF Kept
<1>2. CASE RebaseStart
  <2>1. head = branch /\ UNCHANGED branch
    BY <1>2 DEF RebaseStart, CanStart, RefsAgree
  <2> QED BY <1>0, <2>1 DEF Kept
<1>3. CASE PickDone
  BY <1>0, <1>3, PickKeeps DEF PickDone, Kept
<1>4. CASE RebaseFinish
  <2>1. head' = head /\ pc = "pick" /\ AllPicked
    BY <1>4 DEF RebaseFinish, RebaseEnds
  <2>2. NextPick - 1 = Len(branch)
    BY <2>1, PickedAll
  <2>3. \A i \in 1..Len(branch), p \in Paths, h \in Hunks :
          Spot(branch[i].tree, p, h) # NoFile =>
            <<p, h, Spot(branch[i].tree, p, h)>> \in Versions(head)
    BY <2>1, <2>2 DEF Kin
  <2>4. Versions(branch) \subseteq Versions(head)
    BY <1>0, <2>3, VersionsAreSpots
  <2> QED BY <1>0, <2>1, <2>4 DEF Kept
<1>5. CASE CommitDone /\ CommitEffect
  <2>1. branch = head
    BY <1>5 DEF CommitDone, Undisturbed, RefsAgree
  <2> QED BY <1>0, <1>5, <2>1, CommitKeeps DEF Kept
<1>6. CASE AbortDone
  <2>1. head' = branch /\ branch' = branch /\ rebasing
    BY <1>6 DEF AbortDone, CanAbort, AbortEffect
  <2> QED BY <1>0, <2>1 DEF Kept, Kin
<1>7. CalmStep => \/ UNCHANGED <<head, branch>> \/ RebaseStart \/ PickDone \/ RebaseFinish
                  \/ (CommitDone /\ CommitEffect) \/ AbortDone
  BY DEF CalmStep, StageDone, DiffClean, DiffDirty, CommitDone, CommitRefused, PickStops,
         PickHalts, AbortRefused
<1> QED BY <1>1, <1>2, <1>3, <1>4, <1>5, <1>6, <1>7, CalmSteps

LEMMA UnrivalledKeeps ==
  ASSUME NoRival, TypeOK, TypeOK', Picking, RefsAgree, Unrivalled, Next
  PROVE  Kept
<1>1. Versions(remote) \subseteq Versions(remote')
  BY RemoteHolds
<1>2. CASE UNCHANGED <<head, branch>>
  BY <1>1, <1>2 DEF Kept
<1>3. CASE CommitEffect
  <2>1. branch = head
    BY DEF Unrivalled, RefsAgree
  <2> QED BY <1>1, <1>3, <2>1, CommitKeeps DEF Kept
<1> QED BY <1>2, <1>3, UnrivalledStep

\* Rebasing, aborting and pushing lose no version any commit holds: while only the
\* network fails, or when nobody else pushes (worker.py _push_once; git_ops.py
\* rebase_theirs, rebase_abort).
THEOREM CommitsAreKept ==
  ASSUME Calm \/ NoRival
  PROVE  Spec => NoCommitDropped
<1>1. CASE Calm
  <2>1. /\ TypeOK /\ TypeOK' /\ SameRoot /\ Picking /\ RefsAgree /\ Undisturbed /\ Kin
        /\ [Next]_vars
        => [Kept]_vars
    BY <1>1, CalmKeeps
  <2>2. Spec => []Undisturbed /\ []Kin
    BY <1>1, CalmAlways, KinAlways
  <2> QED BY <2>1, <2>2, SoundAlways, RefsAlwaysAgree, PTL DEF Spec, NoCommitDropped, Kept
<1>2. CASE NoRival
  <2>1. TypeOK /\ TypeOK' /\ Picking /\ RefsAgree /\ Unrivalled /\ [Next]_vars => [Kept]_vars
    BY <1>2, UnrivalledKeeps
  <2>2. Spec => []Unrivalled
    BY <1>2, UnrivalledAlways
  <2> QED BY <2>1, <2>2, SoundAlways, RefsAlwaysAgree, PTL DEF Spec, NoCommitDropped, Kept
<1> QED BY <1>1, <1>2

-----------------------------------------------------------------------------
(* A clean record.                                                          *)

\* No exception ends a cycle unrecorded, and no restart clears the record.
NothingUnrecorded == {"raise", "crash"} \cap Faults = {}

\* A clean record means a clean index between cycles, and during one an index that
\* differs from HEAD by what the event has staged.
CleanRecord ==
  degraded = "clean" =>
    IF pc \in {"diff", "commit"} THEN Changed(Tip(head), index) \subseteq EventPaths ELSE ~HasStaged

LEMMA CleanNext ==
  ASSUME NothingUnrecorded, NoRival, TypeOK, Picking, RefsAgree, Unrivalled, CleanRecord,
         [Next]_vars
  PROVE  CleanRecord'
<1> USE DEF repo, health, PushSteps
<1>1. ASSUME UNCHANGED <<index, unmerged, head, degraded>>, pc \notin {"diff", "commit"},
             pc' \notin {"diff", "commit"}
      PROVE  CleanRecord'
  BY <1>1 DEF CleanRecord, HasStaged
<1>2. CASE UNCHANGED <<repo, pc, ev, degraded>>
  BY <1>2 DEF CleanRecord, HasStaged, EventPaths
<1>3. CASE Environment
  <2>1. UNCHANGED <<pc, ev, degraded>>
    BY <1>3 DEF Environment, McpUpdate, McpDelete, McpMove, McpTool, McpNotify, SweepTrigger,
                DeviceWrite, DeviceDelete, PeerPush, Writes
  <2>2. UNCHANGED repo
    BY <1>3 DEF Environment, McpUpdate, McpDelete, McpMove, McpTool, McpNotify, SweepTrigger,
                DeviceWrite, DeviceDelete, PeerPush, Writes
  <2> QED BY <1>2, <2>1, <2>2
<1>4. CASE Surroundings
  <2>1. ~Crash
    BY DEF Crash, Budget, NothingUnrecorded
  <2>2. CASE Restart
    BY <1>1, <2>2 DEF Restart
  <2>3. CASE NetDown \/ NetUp \/ LockAppears \/ LockGone \/ IntervalPasses
    BY <1>2, <2>3 DEF NetDown, NetUp, LockAppears, LockGone, IntervalPasses
  <2> QED BY <1>4, <2>1, <2>2, <2>3 DEF Surroundings
<1>5. CASE Commits
  <2>1. CASE TakeEvent \/ StampSkip \/ StampRead \/ StampWrite
    BY <1>1, <2>1 DEF TakeEvent, StampSkip, StampRead, StampWrite, StampOrStage
  <2>2. CASE StageDone
    <3>1. /\ degraded = "clean" => index = Tip(head)
          /\ index' = Staged(EventPaths, wt, index) /\ pc' = "diff"
          /\ UNCHANGED <<head, ev, degraded>>
      BY <2>2 DEF StageDone, StageEffect, CleanRecord, HasStaged
    <3> QED BY <3>1 DEF CleanRecord, Changed, Staged, EventPaths
  <2>3. CASE DiffDirty
    BY <2>3 DEF DiffDirty, CleanRecord, EventPaths
  <2>4. CASE StageRefused \/ StageKilled \/ DiffKilled \/ CommitRefused \/ CommitKilled
    BY <2>4 DEF StageRefused, StageKilled, DiffKilled, CommitRefused, CommitKilled, EndCycle,
                CleanRecord
  <2>5. CASE DiffClean
    <3>1. UNCHANGED <<index, unmerged, head>> /\ pc' \notin {"diff", "commit"} /\ ~HasStaged
      BY <2>5 DEF DiffClean, EndCycle, MaybePush
    <3> QED BY <3>1 DEF CleanRecord, HasStaged
  <2>6. CASE CommitDone
    <3>1. UNCHANGED <<index, unmerged>> /\ pc' \notin {"diff", "commit"}
      BY <2>6 DEF CommitDone, EndCycle, MaybePush
    <3>2. index = Tip(head') /\ unmerged = {}
      BY <2>6, CommitTip DEF CommitDone, HasStaged, CanCommit
    <3> QED BY <3>1, <3>2 DEF CleanRecord, HasStaged
  <2> QED BY <1>5, <2>1, <2>2, <2>3, <2>4, <2>5, <2>6 DEF Commits
<1>6. CASE Pushes
  <2>1. pc \notin {"diff", "commit"} /\ pc' \notin {"diff", "commit"} /\ UNCHANGED degraded
    BY <1>6 DEF Pushes, QuietPush, FetchDone, FetchRefused, FetchGivenUp, RebaseStart,
                RebaseUpToDate, RebaseRefused, PickDone, PickStops, PickRefused, RebaseFinish,
                RebaseKilled, AbortDone, AbortRefused, AbortKilled, PushDone, PushRefused, PushKilled
  <2>2. UNCHANGED repo
    BY <1>6, UnrivalledStep DEF Next, Worker
  <2> QED BY <1>1, <2>1, <2>2
<1>7. ~GitRaises
  BY DEF GitRaises, Budget, NothingUnrecorded
<1>8. CASE UNCHANGED vars
  BY <1>2, <1>8 DEF vars
<1> QED BY <1>3, <1>4, <1>5, <1>6, <1>7, <1>8 DEF Next, Worker

LEMMA CleanAlways ==
  ASSUME NoRival, NothingUnrecorded
  PROVE  Spec => []CleanRecord
<1>1. Init => CleanRecord
  BY DEF Init, CleanRecord, HasStaged, Tip, Last
<1>2. TypeOK /\ Picking /\ RefsAgree /\ Unrivalled /\ CleanRecord /\ [Next]_vars => CleanRecord'
  BY CleanNext
<1>3. Spec => []Unrivalled
  BY UnrivalledAlways
<1> QED BY <1>1, <1>2, <1>3, SoundAlways, RefsAlwaysAgree, PTL DEF Spec

\* A worker that waits and reports a clean last cycle has left nothing in the
\* index: while only the network fails, or, when nobody else pushes, as long as no
\* exception and no crash ends a cycle unrecorded (worker.py _record_clean,
\* _record_failure).
THEOREM CleanIsCommitted ==
  ASSUME Calm \/ (NoRival /\ NothingUnrecorded)
  PROVE  Spec => []CleanMeansCommitted
<1>1. CASE Calm
  <2>1. Picking /\ Undisturbed /\ IndexFollows => CleanMeansCommitted
    BY DEF Picking, Undisturbed, IndexFollows, CleanMeansCommitted, HasStaged
  <2> QED BY <1>1, <2>1, SoundAlways, CalmAlways, IndexAlways, PTL
<1>2. CASE NoRival /\ NothingUnrecorded
  <2>1. CleanRecord => CleanMeansCommitted
    BY DEF CleanRecord, CleanMeansCommitted
  <2> QED BY <1>2, <2>1, CleanAlways, PTL
<1> QED BY <1>1, <1>2

\* An `mcp:` commit that takes along more than its event's paths ends a streak of
\* failures the record has announced, under the same conditions (worker.py
\* _record_failure, _handle_mcp_write).
THEOREM LeftoversAreAnnounced ==
  ASSUME Calm \/ (NoRival /\ NothingUnrecorded)
  PROVE  Spec => LeftoversAreRecorded
<1>1. CASE Calm
  <2>1. TypeOK /\ IndexFollows /\ [Next]_vars =>
          [pc = "commit" /\ ev.kind = "mcp_write" /\ head' # head
             => Changed(Tip(head), Tip(head')) \subseteq ev.paths \/ degraded # "clean"]_vars
    BY CommitSteps, CommitTakes
  <2>2. Spec => []IndexFollows
    BY <1>1, IndexAlways
  <2> QED BY <2>1, <2>2, SoundAlways, PTL DEF Spec, LeftoversAreRecorded
<1>2. CASE NoRival /\ NothingUnrecorded
  <2>1. TypeOK /\ CleanRecord /\ [Next]_vars =>
          [pc = "commit" /\ ev.kind = "mcp_write" /\ head' # head
             => Changed(Tip(head), Tip(head')) \subseteq ev.paths \/ degraded # "clean"]_vars
    BY CommitSteps, CommitTip DEF CleanRecord, EventPaths
  <2>2. Spec => []CleanRecord
    BY <1>2, CleanAlways
  <2> QED BY <2>1, <2>2, SoundAlways, PTL DEF Spec, LeftoversAreRecorded
<1> QED BY <1>1, <1>2
=============================================================================

----------------------------- MODULE GitWorker -----------------------------
(***************************************************************************)
(* The git worker (worker.py) over the vault's repository (git_ops.py), the *)
(* event queue that feeds it (events.py, extension.py) and the environment: *)
(* MCP tools, synced devices and peer clones writing, the network, locks,   *)
(* killed commands and process crashes.                                     *)
(*                                                                         *)
(* Everything outside the worker interleaves between any two of its git     *)
(* commands.  A command is one step, except for the rebase: its start, each *)
(* commit it picks and its end are, and others may write in between.        *)
(***************************************************************************)
EXTENDS VaultGit

CONSTANTS
  Notes,      \* the .md files: the ones stamping.py touches
  Seeded,     \* the files the vault starts with, committed and pushed
  Sources,    \* who writes: a subset of Writers
  Stamping,   \* VAULT_GIT_STAMP
  HasRemote,  \* VAULT_GIT_REMOTE is set
  Pinned,     \* VAULT_GIT_BRANCH is set
  Elsewhere,  \* ... to another branch than the one that is checked out
  Faults,     \* what may go wrong: a subset of FaultKinds
  MaxFaults,  \* bound: how often
  MaxQueue    \* bound: events waiting in the queue (unbounded in the code)

FaultKinds == {"offline", "lock", "rc", "timeout", "raise", "crash"}

ASSUME ConfigAssumption ==
  /\ Notes \subseteq Paths
  /\ Seeded \subseteq Paths
  /\ Sources \subseteq Writers
  /\ {Stamping, HasRemote, Pinned, Elsewhere} \subseteq BOOLEAN
  /\ Elsewhere => Pinned
  /\ Faults \subseteq FaultKinds
  /\ {MaxFaults, MaxQueue} \subseteq Nat

VARIABLES
  \* The working tree on disk.
  wt,
  \* The repository: the index and its unmerged paths, what HEAD and the branch
  \* point at (one history unless a rebase is in progress, which has HEAD detached),
  \* the remote-tracking branch, and whether a rebase is in progress.
  index, unmerged, head, branch, tracking, rebasing,
  \* The branch on the remote.
  remote,
  \* What surrounds them: the network, an index.lock nobody holds, the counts.
  online, locked, writes, faults,
  \* The event queue, and the MCP call that has written but not yet notified.
  queue, call,
  \* The worker: its program counter, the event it handles, the paths it has
  \* yet to stamp and the note it has read to stamp, _unpushed, whether
  \* push_max_interval has passed since _last_push, _degraded_rc, and the ref
  \* _resolve_branch() named for the push.
  pc, ev, todo, buf, unpushed, overdue, degraded, target

repo    == <<index, unmerged, head, branch, rebasing>>
refs    == <<tracking, remote>>
world   == <<online, locked, writes, faults>>
feed    == <<queue, call>>
stamper == <<todo, buf>>
health  == <<unpushed, overdue, degraded, target>>
vars    == <<wt, repo, refs, world, feed, pc, ev, stamper, health>>

-----------------------------------------------------------------------------
NoEvent == [kind |-> "none", op |-> "none", paths |-> {}]
Sweep   == [kind |-> "sync_sweep", op |-> "none", paths |-> {}]
McpWrite(op, paths) == [kind |-> "mcp_write", op |-> op, paths |-> paths]

Operations == {"updated", "moved", "deleted"}   \* "updated" stands for "created" too
Event == {McpWrite(op, paths) : op \in Operations, paths \in (SUBSET Paths) \ {{}}}
           \cup {Sweep}

\* Where the worker is: the git command it is about to run, waiting in get(), or
\* ("pick") waiting for a rebase that is on its way.
PushSteps == {"fetch", "rebase", "pick", "abort", "push"}
Steps == {"idle", "stamp", "restamp", "stage", "diff", "commit", "down"} \cup PushSteps

Root == [label |-> "root",
         tree  |-> [p \in Paths |-> IF p \in Seeded
                      THEN [h \in Hunks |-> [ver |-> 0, by |-> IF h = "front" THEN "stamp" ELSE "device"]]
                      ELSE NoFile]]

Init ==
  /\ wt = Root.tree /\ index = Root.tree /\ unmerged = {}
  /\ head = <<Root>> /\ branch = <<Root>> /\ tracking = <<Root>> /\ remote = <<Root>>
  /\ rebasing = FALSE
  /\ online = TRUE /\ locked = FALSE /\ writes = 0 /\ faults = 0
  /\ queue = <<>> /\ call = NoEvent
  /\ pc = "idle" /\ ev = NoEvent /\ todo = {} /\ buf = <<>>
  /\ unpushed = FALSE /\ overdue = FALSE /\ degraded = "clean" /\ target = "branch"

-----------------------------------------------------------------------------
(* The environment: writers.                                                *)

Fresh(source) == [ver |-> writes + 1, by |-> source]

\* One more write; every write and deletion counts against the bound.
Writes(source, tree) ==
  /\ source \in Sources
  /\ writes < MaxWrites
  /\ writes' = writes + 1
  /\ wt' = tree
  /\ UNCHANGED <<repo, refs, online, locked, faults, queue, pc, ev, stamper, health>>

\* An MCP tool changes the vault; its write listeners have yet to run.
McpTool(op, paths, tree) ==
  /\ pc # "down" /\ call = NoEvent
  /\ call' = McpWrite(op, paths)
  /\ Writes("mcp", tree)

McpUpdate == \E p \in Paths : \E file \in Written(wt[p], Fresh("mcp")) :
  McpTool("updated", {p}, [wt EXCEPT ![p] = file])

McpDelete == \E p \in Paths :
  wt[p] # NoFile /\ McpTool("deleted", {p}, [wt EXCEPT ![p] = NoFile])

McpMove == \E p, q \in Paths : \E file \in Written(wt[q], Fresh("mcp")) :
  /\ wt[p] # NoFile /\ wt[q] = NoFile
  /\ McpTool("moved", {p, q}, [wt EXCEPT ![p] = NoFile, ![q] = file])

\* The write listener puts the event on the queue.
McpNotify ==
  /\ call # NoEvent /\ Len(queue) < MaxQueue
  /\ queue' = Append(queue, call)
  /\ call' = NoEvent
  /\ UNCHANGED <<wt, repo, refs, world, pc, ev, stamper, health>>

\* Mutant: no timer, only the .md watcher.
SweepTrigger_WatcherOnly ==
  /\ pc # "down" /\ Len(queue) < MaxQueue /\ \E p \in Notes : wt[p] # index[p]
  /\ queue' = Append(queue, Sweep)
  /\ UNCHANGED <<wt, repo, refs, world, call, pc, ev, stamper, health>>

\* The sweep timer fires, or the .md watcher reports a change: the event is the
\* same, and the timer alone may fire at any moment.
SweepTrigger ==
  /\ pc # "down" /\ Len(queue) < MaxQueue
  /\ queue' = Append(queue, Sweep)
  /\ UNCHANGED <<wt, repo, refs, world, call, pc, ev, stamper, health>>

\* The sidecar writes what a device sent, or a human edits the vault.
DeviceWrite == \E p \in Paths : \E file \in Written(wt[p], Fresh("device")) :
  /\ Writes("device", [wt EXCEPT ![p] = file])
  /\ UNCHANGED call

DeviceDelete == \E p \in Paths :
  /\ wt[p] # NoFile
  /\ Writes("device", [wt EXCEPT ![p] = NoFile])
  /\ UNCHANGED call

\* Another clone pushes an edit on top of what the remote has.
PeerPush == \E p \in Paths : \E file \in Written(Tip(remote)[p], Fresh("peer")) :
  /\ "peer" \in Sources
  /\ writes < MaxWrites
  /\ writes' = writes + 1
  /\ remote' = Append(remote, [label |-> "peer",
                               tree  |-> [Tip(remote) EXCEPT ![p] = file]])
  /\ UNCHANGED <<wt, repo, tracking, online, locked, faults, feed, pc, ev, stamper, health>>

Environment ==
  \/ McpUpdate \/ McpDelete \/ McpMove \/ McpNotify
  \/ SweepTrigger \/ DeviceWrite \/ DeviceDelete \/ PeerPush

-----------------------------------------------------------------------------
(* The environment: time and faults.                                        *)

\* The fault happens, and counts against the bound.
Budget(kind) == kind \in Faults /\ faults < MaxFaults /\ faults' = faults + 1

NetDown ==
  /\ online /\ Budget("offline") /\ online' = FALSE
  /\ UNCHANGED <<wt, repo, refs, locked, writes, feed, pc, ev, stamper, health>>

NetUp ==
  /\ ~online /\ online' = TRUE
  /\ UNCHANGED <<wt, repo, refs, locked, writes, faults, feed, pc, ev, stamper, health>>

\* Some other git leaves an index.lock behind, or holds one for a while.
LockAppears ==
  /\ ~locked /\ Budget("lock") /\ locked' = TRUE
  /\ UNCHANGED <<wt, repo, refs, online, writes, feed, pc, ev, stamper, health>>

LockGone ==
  /\ locked /\ locked' = FALSE
  /\ UNCHANGED <<wt, repo, refs, online, writes, faults, feed, pc, ev, stamper, health>>

\* push_max_interval passes without a successful push.
IntervalPasses ==
  /\ ~overdue /\ overdue' = TRUE
  /\ UNCHANGED <<wt, repo, refs, world, feed, pc, ev, stamper, unpushed, degraded, target>>

-----------------------------------------------------------------------------
(* The worker: events, stamping, staging, committing.                       *)

MaybePush(pending) == IF pending /\ HasRemote THEN "fetch" ELSE "idle"

\* run(): an event wakes get().  _handle_mcp_write stamps before it stages,
\* unless there is no file to stamp.
TakeEvent ==
  /\ pc = "idle" /\ queue # <<>>
  /\ ev' = Head(queue) /\ queue' = Tail(queue)
  /\ IF ev'.kind = "mcp_write" /\ Stamping /\ ev'.op # "deleted"
       THEN pc' = "stamp" /\ todo' = ev'.paths
       ELSE pc' = "stage" /\ UNCHANGED todo
  /\ UNCHANGED <<wt, repo, refs, world, call, buf, health>>

\* run(): the queue stayed empty for the debounce window.
QuietPush ==
  /\ pc = "idle" /\ queue = <<>> /\ unpushed /\ HasRemote
  /\ pc' = "fetch"
  /\ UNCHANGED <<wt, repo, refs, world, feed, ev, stamper, health>>

StampOrStage(left) == IF left = {} THEN "stage" ELSE "stamp"

\* `modified` is no older than any of the file.
Stamped(file) ==
  file["front"].by = "stamp" /\ \A h \in Hunks : file[h].ver <= file["front"].ver

\* stamp(): nothing to do for a path that is no note, is gone, or carries the
\* `modified` of its last write already ...
StampSkip == \E p \in todo :
  /\ pc = "stamp"
  /\ p \notin Notes \/ wt[p] = NoFile \/ (wt[p] # NoFile /\ Stamped(wt[p]))
  /\ todo' = todo \ {p} /\ pc' = StampOrStage(todo \ {p})
  /\ UNCHANGED <<wt, repo, refs, world, feed, ev, buf, health>>

\* Mutant: goes on to write a note it has not read.
StampRead_Forgets == \E p \in todo :
  /\ pc = "stamp"
  /\ p \in Notes /\ wt[p] # NoFile /\ ~Stamped(wt[p])
  /\ todo' = todo \ {p} /\ pc' = "restamp"
  /\ UNCHANGED <<wt, repo, refs, world, feed, ev, buf, health>>

\* ... otherwise it reads the note ...
StampRead == \E p \in todo :
  /\ pc = "stamp"
  /\ p \in Notes /\ wt[p] # NoFile /\ ~Stamped(wt[p])
  /\ buf' = <<p, wt[p]>> /\ todo' = todo \ {p} /\ pc' = "restamp"
  /\ UNCHANGED <<wt, repo, refs, world, feed, ev, health>>

\* ... and writes it back with `modified` bumped, whatever is there by now.
StampWrite ==
  /\ pc = "restamp"
  /\ wt' = [wt EXCEPT ![buf[1]] = [buf[2] EXCEPT !["front"] = [ver |-> writes, by |-> "stamp"]]]
  /\ buf' = <<>> /\ pc' = StampOrStage(todo)
  /\ UNCHANGED <<repo, refs, world, feed, ev, todo, health>>

\* A command exits non-zero: for the reason given, or by a fault of its own.
Refused(reason) == (reason /\ UNCHANGED faults) \/ Budget("rc")

\* A command outlives the timeout and is killed; a lock it held stays behind.
Killed == Budget("timeout") /\ locked' \in {locked, TRUE}

\* Mutant: no overdue check, so only a quiet queue pushes.
EndCycle_NeverOverdue(outcome, pending) ==
  /\ degraded' = outcome
  /\ unpushed' = pending
  /\ pc' = "idle"
  /\ ev' = NoEvent

\* The event is done with: _record_clean or _record_failure, then run()'s
\* overdue check.
EndCycle(outcome, pending) ==
  /\ degraded' = outcome
  /\ unpushed' = pending
  /\ pc' = MaybePush(pending /\ overdue)
  /\ ev' = NoEvent

\* Mutant: an MCP write stages everything, as a sweep does.
EventPaths_All == Paths

EventPaths == IF ev.kind = "mcp_write" THEN ev.paths ELSE Paths
CanStage == ~locked /\ (ev.kind = "mcp_write" => Unmatched(ev.paths, wt, index) = {})
StageEffect == index' = Staged(EventPaths, wt, index) /\ unmerged' = unmerged \ EventPaths

\* git add -A, of the event's paths or of everything.
StageDone ==
  /\ pc = "stage" /\ CanStage /\ StageEffect
  /\ pc' = "diff"
  /\ UNCHANGED <<wt, head, branch, rebasing, refs, world, feed, ev, stamper, health>>

StageRefused ==
  /\ pc = "stage" /\ Refused(~CanStage)
  /\ EndCycle("rc", unpushed)
  /\ UNCHANGED <<wt, repo, refs, online, locked, writes, feed, stamper, overdue, target>>

StageKilled ==
  /\ pc = "stage" /\ Killed
  /\ UNCHANGED <<index, unmerged>> \/ (CanStage /\ StageEffect)
  /\ EndCycle("timeout", unpushed)
  /\ UNCHANGED <<wt, head, branch, rebasing, refs, online, writes, feed, stamper, overdue, target>>

\* has_staged(): git diff --cached --quiet
HasStaged == index # Tip(head) \/ unmerged # {}

\* Mutant: a cycle with nothing to commit does not clear the record.
DiffClean_KeepsDegraded ==
  /\ pc = "diff" /\ ~HasStaged
  /\ EndCycle(degraded, unpushed)
  /\ UNCHANGED <<wt, repo, refs, world, feed, stamper, overdue, target>>

DiffClean ==
  /\ pc = "diff" /\ ~HasStaged
  /\ EndCycle("clean", unpushed)
  /\ UNCHANGED <<wt, repo, refs, world, feed, stamper, overdue, target>>

\* Any non-zero exit counts as "something staged", a failed diff too.
DiffDirty ==
  /\ pc = "diff" /\ Refused(HasStaged)
  /\ pc' = "commit"
  /\ UNCHANGED <<wt, repo, refs, online, locked, writes, feed, ev, stamper, health>>

DiffKilled ==
  /\ pc = "diff" /\ Killed
  /\ EndCycle("timeout", unpushed)
  /\ UNCHANGED <<wt, repo, refs, online, writes, feed, stamper, overdue, target>>

CanCommit == ~locked /\ unmerged = {}
Label == IF ev.kind = "mcp_write" THEN "mcp" ELSE "sync"
CommitEffect ==
  /\ head' = Append(head, [label |-> Label, tree |-> index])
  /\ branch' = IF rebasing THEN branch ELSE head'

\* commit(): asks has_staged() again, so an empty index is no commit but still ok.
CommitDone ==
  /\ pc = "commit"
  /\ IF HasStaged THEN CanCommit /\ CommitEffect ELSE UNCHANGED <<head, branch>>
  /\ EndCycle("clean", TRUE)
  /\ UNCHANGED <<wt, index, unmerged, rebasing, refs, world, feed, stamper, overdue, target>>

\* Mutant: a failed commit is recorded as a clean cycle.
CommitRefused_Clean ==
  /\ pc = "commit" /\ Refused(HasStaged /\ ~CanCommit)
  /\ EndCycle("clean", unpushed)
  /\ UNCHANGED <<wt, repo, refs, online, locked, writes, feed, stamper, overdue, target>>

\* With nothing staged there is no commit to be refused, but has_staged() may fail.
CommitRefused ==
  /\ pc = "commit" /\ Refused(HasStaged /\ ~CanCommit)
  /\ EndCycle("rc", unpushed)
  /\ UNCHANGED <<wt, repo, refs, online, locked, writes, feed, stamper, overdue, target>>

CommitKilled ==
  /\ pc = "commit" /\ Killed
  /\ UNCHANGED <<head, branch>> \/ (HasStaged /\ CanCommit /\ CommitEffect)
  /\ EndCycle("timeout", unpushed)
  /\ UNCHANGED <<wt, index, unmerged, rebasing, refs, online, writes, feed, stamper, overdue, target>>

-----------------------------------------------------------------------------
(* The worker: _push_once.                                                  *)

\* _resolve_branch(): the configured branch, or what HEAD is on: "HEAD" itself
\* while it is detached.
Resolve == target' = IF Pinned \/ ~rebasing THEN "branch" ELSE "HEAD"

FetchDone ==
  /\ pc = "fetch" /\ Resolve
  /\ online /\ tracking' = remote
  /\ pc' = "rebase"
  /\ UNCHANGED <<wt, repo, remote, world, feed, ev, stamper, unpushed, overdue, degraded>>

\* Offline-tolerant: no rebase, but the push is still tried.
FetchRefused ==
  /\ pc = "fetch" /\ Resolve /\ Refused(~online)
  /\ pc' = "push"
  /\ UNCHANGED <<wt, repo, refs, online, locked, writes, feed, ev, stamper, unpushed, overdue, degraded>>

\* No branch to push, or a command that hung: this push is given up.
FetchGivenUp ==
  /\ pc = "fetch"
  /\ \/ ~Pinned /\ Budget("rc") /\ UNCHANGED tracking
     \/ Budget("timeout") /\ tracking' \in {tracking} \cup (IF online THEN {remote} ELSE {})
  /\ pc' = "idle"
  /\ UNCHANGED <<wt, repo, remote, online, locked, writes, feed, ev, stamper, health>>

\* git rebase -X theirs <remote>/<branch>
UpToDate == IsPrefix(tracking, head)

\* Mutant: rebases over uncommitted changes.
CanStart_Dirty == ~rebasing

CanStart == ~rebasing /\ ~Dirty(wt, index, head)
CanCheckOut(tree) == ~locked /\ ~InTheWay(wt, index, tree)
CheckOut(tree) == index' = tree /\ wt' = CheckedOut(wt, index, tree)

\* HEAD is detached at the upstream; the branch stays where it is.
RebaseStart ==
  /\ pc = "rebase" /\ CanStart /\ ~UpToDate /\ CanCheckOut(Tip(tracking))
  /\ head' = tracking /\ rebasing' = TRUE /\ CheckOut(Tip(tracking))
  /\ pc' = "pick"
  /\ UNCHANGED <<unmerged, branch, refs, world, feed, ev, stamper, health>>

\* Nothing new upstream.
RebaseUpToDate ==
  /\ pc = "rebase" /\ CanStart /\ UpToDate
  /\ pc' = "push"
  /\ UNCHANGED <<wt, repo, refs, world, feed, ev, stamper, health>>

RebaseRefused ==
  /\ pc = "rebase"
  /\ Refused(~CanStart \/ (~UpToDate /\ ~CanCheckOut(Tip(tracking))))
  /\ pc' = "abort"
  /\ UNCHANGED <<wt, repo, refs, online, locked, writes, feed, ev, stamper, health>>

\* The commits on top of the upstream are the first of the branch's own, picked.
NextPick == ForkPoint(branch, tracking) + (Len(head) - Len(tracking)) + 1
AllPicked == NextPick > Len(branch)
PickedTree == Picked(branch[NextPick - 1].tree, Tip(head), branch[NextPick].tree)
Conflicting == ConflictPaths(branch[NextPick - 1].tree, Tip(head), branch[NextPick].tree)
CanPick == ~AllPicked /\ CanCheckOut(PickedTree)

PickDone ==
  /\ pc = "pick" /\ CanPick /\ Conflicting = {}
  /\ head' = Append(head, [label |-> branch[NextPick].label, tree |-> PickedTree])
  /\ CheckOut(PickedTree)
  /\ UNCHANGED <<unmerged, branch, rebasing, refs, world, feed, pc, ev, stamper, health>>

\* A conflict: git stops, with what merged of the commit staged.
PickHalts ==
  /\ CanPick /\ Conflicting # {}
  /\ unmerged' = Conflicting
  /\ CheckOut(PickedTree)
  /\ UNCHANGED <<head, branch, rebasing>>

\* Mutant: a failed rebase is not aborted.
PickStops_NoAbort ==
  /\ pc = "pick" /\ PickHalts
  /\ pc' = "push"
  /\ UNCHANGED <<refs, world, feed, ev, stamper, health>>

PickStops ==
  /\ pc = "pick" /\ PickHalts
  /\ pc' = "abort"
  /\ UNCHANGED <<refs, world, feed, ev, stamper, health>>

\* Something is in the way of the next commit: nothing of it is done.
PickRefused ==
  /\ pc = "pick" /\ Refused(~AllPicked /\ ~CanCheckOut(PickedTree))
  /\ pc' = "abort"
  /\ UNCHANGED <<wt, repo, refs, online, locked, writes, feed, ev, stamper, health>>

\* Mutant: the branch does not follow HEAD to the picked commits.
RebaseEnds_Detached ==
  /\ AllPicked
  /\ rebasing' = FALSE
  /\ UNCHANGED <<wt, index, unmerged, head, branch>>

RebaseEnds ==
  /\ AllPicked
  /\ branch' = head /\ rebasing' = FALSE
  /\ UNCHANGED <<wt, index, unmerged, head>>

RebaseFinish ==
  /\ pc = "pick" /\ RebaseEnds
  /\ pc' = "push"
  /\ UNCHANGED <<refs, world, feed, ev, stamper, health>>

\* TimeoutExpired leaves _push_once before the rebase_abort; git may just have stopped
\* at a conflict, or ended.
RebaseKilled ==
  /\ pc \in {"rebase", "pick"} /\ Killed
  /\ \/ UNCHANGED <<wt, repo>>
     \/ pc = "pick" /\ (PickHalts \/ RebaseEnds)
  /\ pc' = "idle"
  /\ UNCHANGED <<refs, online, writes, feed, ev, stamper, health>>

\* git rebase --abort, run whenever the rebase failed
CanAbort == rebasing /\ ~locked
\* Mutant: recovers by resetting to the remote instead of aborting.
AbortEffect_TakesRemote ==
  /\ wt' = ResetHard(wt, index, unmerged, tracking)
  /\ index' = Tip(tracking) /\ unmerged' = {}
  /\ head' = tracking /\ branch' = tracking /\ rebasing' = FALSE

AbortEffect ==
  /\ wt' = ResetHard(wt, index, unmerged, branch)
  /\ index' = Tip(branch) /\ unmerged' = {}
  /\ head' = branch /\ rebasing' = FALSE
  /\ UNCHANGED branch

AbortDone ==
  /\ pc = "abort" /\ CanAbort /\ AbortEffect
  /\ pc' = "push"
  /\ UNCHANGED <<refs, world, feed, ev, stamper, health>>

\* Its result is ignored.
AbortRefused ==
  /\ pc = "abort" /\ Refused(~CanAbort)
  /\ pc' = "push"
  /\ UNCHANGED <<wt, repo, refs, online, locked, writes, feed, ev, stamper, health>>

AbortKilled ==
  /\ pc = "abort" /\ Killed
  /\ UNCHANGED <<wt, repo>> \/ (CanAbort /\ AbortEffect)
  /\ pc' = "idle"
  /\ UNCHANGED <<refs, online, writes, feed, ev, stamper, health>>

\* What <branch> names in a push: the branch the worker commits to, or another
\* local branch, which nothing ever moves.
Pushed == IF Elsewhere THEN <<Root>> ELSE branch

\* Mutant: git push --force
CanPush_Forced == online /\ (target = "branch" \/ ~rebasing)

\* git push <remote> <branch>, never forced
CanPush == online /\ (target = "branch" \/ ~rebasing) /\ IsPrefix(remote, Pushed)

\* The heartbeat pings here and nowhere else.
PushDone ==
  /\ pc = "push" /\ CanPush
  /\ remote' = Pushed /\ tracking' = Pushed
  /\ unpushed' = FALSE /\ overdue' = FALSE
  /\ pc' = "idle"
  /\ UNCHANGED <<wt, repo, world, feed, ev, stamper, degraded, target>>

\* Mutant: a refused push counts as a push.
PushRefused_Forgets ==
  /\ pc = "push" /\ Refused(~CanPush)
  /\ pc' = "idle" /\ unpushed' = FALSE
  /\ UNCHANGED <<wt, repo, refs, online, locked, writes, feed, ev, stamper,
                 overdue, degraded, target>>

PushRefused ==
  /\ pc = "push" /\ Refused(~CanPush)
  /\ pc' = "idle"
  /\ UNCHANGED <<wt, repo, refs, online, locked, writes, feed, ev, stamper, health>>

PushKilled ==
  /\ pc = "push" /\ Budget("timeout")
  /\ UNCHANGED refs \/ (CanPush /\ remote' = Pushed /\ UNCHANGED tracking)
  /\ pc' = "idle"
  /\ UNCHANGED <<wt, repo, online, locked, writes, feed, ev, stamper, health>>

Commits ==
  \/ TakeEvent \/ StampSkip \/ StampRead \/ StampWrite
  \/ StageDone \/ StageRefused \/ StageKilled
  \/ DiffClean \/ DiffDirty \/ DiffKilled
  \/ CommitDone \/ CommitRefused \/ CommitKilled

Pushes ==
  \/ QuietPush \/ FetchDone \/ FetchRefused \/ FetchGivenUp
  \/ RebaseStart \/ RebaseUpToDate \/ RebaseRefused
  \/ PickDone \/ PickStops \/ PickRefused \/ RebaseFinish \/ RebaseKilled
  \/ AbortDone \/ AbortRefused \/ AbortKilled
  \/ PushDone \/ PushRefused \/ PushKilled

\* A command cannot even be started (git is gone, fork fails): the exception ends
\* the cycle, unrecorded, or the push, and the loop goes on.
GitRaises ==
  /\ Budget("raise")
  /\ \/ pc \in {"stage", "diff", "commit"} /\ EndCycle(degraded, unpushed)
     \/ pc \in PushSteps \ {"pick"} /\ pc' = "idle" /\ UNCHANGED <<ev, unpushed, degraded>>
  /\ UNCHANGED <<wt, repo, refs, online, locked, writes, feed, stamper, overdue, target>>

Worker == Commits \/ Pushes \/ GitRaises

-----------------------------------------------------------------------------
(* The process dies and comes back.                                         *)

\* The queue and the worker's memory go; the repository stays as it is, a rebase open
\* and a lock perhaps left by the command that was running.
Crash ==
  /\ pc # "down" /\ Budget("crash")
  /\ locked' \in {locked, locked \/ pc \in {"stage", "commit", "rebase", "pick", "abort"}}
  /\ pc' = "down" /\ ev' = NoEvent /\ todo' = {} /\ buf' = <<>>
  /\ queue' = <<>> /\ call' = NoEvent
  /\ unpushed' = FALSE /\ overdue' = FALSE /\ degraded' = "clean" /\ target' = "branch"
  /\ UNCHANGED <<wt, repo, refs, online, writes>>

\* after_indexes_start: the lock sweep removes a stale lock, then the worker
\* starts with _unpushed = False.
Restart ==
  /\ pc = "down"
  /\ pc' = "idle"
  /\ locked' \in {locked, FALSE}
  /\ UNCHANGED <<wt, repo, refs, online, writes, faults, feed, ev, stamper, health>>

Surroundings ==
  \/ NetDown \/ NetUp \/ LockAppears \/ LockGone \/ IntervalPasses \/ Crash \/ Restart

Next == Environment \/ Surroundings \/ Worker

Spec == Init /\ [][Next]_vars

\* The worker thread runs and every git call returns or is killed; the timer
\* fires; a listener called is a listener run; time passes.  The network comes
\* back, a lock goes away and the container restarts: that much is assumed.
Fairness ==
  /\ WF_vars(Worker) /\ WF_vars(SweepTrigger) /\ WF_vars(McpNotify)
  /\ WF_vars(IntervalPasses) /\ WF_vars(NetUp) /\ WF_vars(LockGone) /\ WF_vars(Restart)

LiveSpec == Spec /\ Fairness
=============================================================================

--------------------------- MODULE GitWorkerProps ---------------------------
(***************************************************************************)
(* What the git worker promises, over the states and steps of GitWorker.    *)
(***************************************************************************)
EXTENDS GitWorker

\* Types, and what each program counter says of the worker's locals.
TypeOK ==
  /\ {wt, index} \subseteq Tree
  /\ unmerged \subseteq Paths
  /\ {head, branch, tracking, remote} \subseteq History
  /\ {rebasing, online, locked, unpushed, overdue} \subseteq BOOLEAN
  /\ writes \in 0..MaxWrites /\ faults \in 0..MaxFaults
  /\ queue \in Seq(Event) /\ Len(queue) <= MaxQueue
  /\ call \in Event \cup {NoEvent} /\ ev \in Event \cup {NoEvent}
  /\ pc \in Steps
  /\ todo \in SUBSET Paths /\ buf \in (Notes \X File) \cup {<<>>}
  /\ pc = "restamp" => buf # <<>>
  /\ degraded \in {"clean", "rc", "timeout"} /\ target \in {"branch", "HEAD"}

-----------------------------------------------------------------------------
(* Commits and the flag that says they are owed to the remote.              *)

\* Whenever a commit under HEAD is missing from the remote, _unpushed is set,
\* so a later push window will deliver it (worker.py _unpushed: set by every
\* commit, cleared only by a push that delivered them all).
UnpushedCovers == ~unpushed => IsPrefix(head, remote)

\* The heartbeat monitor is told "pushed" only when the remote holds everything
\* the worker has committed (heartbeat.ping after a confirmed push).
HeartbeatMeansDelivered == [][PushDone => IsPrefix(head, remote')]_vars

\* No step takes back a commit: every version of a hunk that some commit under
\* HEAD, the branch or the remote holds stays in one of their histories
\* (rebase replays the local commits, abort restores them, push is not forced).
NoCommitDropped ==
  [][(Versions(head) \cup Versions(branch) \cup Versions(remote))
       \subseteq (Versions(head') \cup Versions(branch') \cup Versions(remote'))]_vars

\* HEAD is the branch unless a rebase is open; a rebase is open only while the
\* branch lacks something the remote has, so that the push the worker still
\* tries cannot go through; and what was last fetched is below what the remote
\* has now.
RefsAgree ==
  /\ ~rebasing => head = branch
  /\ rebasing => ~IsPrefix(remote, branch)
  /\ IsPrefix(tracking, remote)

\* An `mcp:` commit changes only the paths of its event, so the provenance tag
\* speaks for everything in the commit (git add of the event's paths alone).
McpCommitTight ==
  [][pc = "commit" /\ ev.kind = "mcp_write" /\ head' # head
       => Changed(Tip(head), Tip(head')) \subseteq ev.paths]_vars

-----------------------------------------------------------------------------
(* Rebase: local wins, nothing half-merged is recorded, nothing is lost.    *)

\* Some commit of the branch changed this hunk since it left the upstream.
Touched(local, upstream, p, h) ==
  \E i \in (ForkPoint(local, upstream) + 1)..Len(local) :
    Spot(local[i].tree, p, h) # Spot(local[i - 1].tree, p, h)

\* Local wins, and no more than that: after a rebase that went through, every hunk a
\* local commit touched is as the last of them left it, every other one as the remote
\* has it, and the remote's commits are all below (git_ops.py rebase_theirs: "local
\* content wins on conflict").  Devices write while the commits are picked.
LocalWins ==
  [][pc' = "push" /\ pc \in {"rebase", "pick"} =>
       /\ IsPrefix(tracking, head')
       /\ \A p \in Paths, h \in Hunks :
            Spot(Tip(head'), p, h) =
              Spot(Tip(IF Touched(branch, tracking, p, h) THEN branch ELSE tracking), p, h)]_vars

\* A rebase that could not complete has been aborted before the worker does
\* anything else, so no event is ever committed on the detached HEAD of a
\* half-done rebase (worker.py _push_once: abort on a failed rebase).
NoRebaseLeftOpen == rebasing => pc \in {"pick", "abort"}

\* The worker pushes the branch that was checked out when it started (config.py:
\* the current branch, "resolved at worker start").
PushesStartBranch == pc \in PushSteps => target = "branch"

\* Of what the worker does to the disk, only the stamper and an abort ever
\* overwrite a file no commit of HEAD holds: what devices write while it commits,
\* pushes and picks is still there afterwards, also when it dies picking.
RebaseKeepsWrites ==
  [][writes' = writes /\ pc \notin {"restamp", "abort"} => \A p \in Paths :
       wt'[p] # wt[p] => wt[p] = NoFile \/ \E i \in 1..Len(head) : head[i].tree[p] = wt[p]]_vars

-----------------------------------------------------------------------------
(* Health.                                                                  *)

\* A worker that waits for work and reports a clean last cycle has nothing
\* left in the index: "nothing to commit" is never said of "cannot commit".
CleanMeansCommitted == pc = "idle" /\ degraded = "clean" => ~HasStaged

\* A worker no fault has touched is not degraded (worker.py degraded: it
\* "distinguishes nothing to commit from cannot commit").
DegradedMeansFailure == degraded # "clean" => faults > 0

\* _unpushed becomes true by a commit and by nothing else (worker.py __init__:
\* "Set when a commit is made").
UnpushedMeansCommit == [][~unpushed /\ unpushed' => head' # head]_vars

\* What a failed cycle left in the index and a later `mcp:` commit takes along, the
\* record has announced: the commit ends a streak of failures (_record_failure).
LeftoversAreRecorded ==
  [][pc = "commit" /\ ev.kind = "mcp_write" /\ head' # head
       => Changed(Tip(head), Tip(head')) \subseteq ev.paths \/ degraded # "clean"]_vars

\* What came through an MCP tool is committed under the `mcp:` tag, never swept
\* up under `sync:` (README, Architecture).
SweepTakesNoMcpWrite ==
  [][pc = "commit" /\ ev.kind = "sync_sweep" /\ head' # head =>
       \A p \in Changed(Tip(head), Tip(head')), h \in Hunks :
         LET spot == Spot(Tip(head'), p, h)
         IN  spot \notin {NoFile, Spot(Tip(head), p, h)} => spot.by # "mcp"]_vars

-----------------------------------------------------------------------------
(* Liveness, under LiveSpec.                                                *)

\* Every change in the vault, attachments included, is committed in the end.
EventuallyCommitted == []<>(wt = Tip(head))

\* A commit of the branch that conflicts when the branch is picked onto the remote: a
\* deletion against an edit.
NeedsHuman ==
  LET fork == ForkPoint(branch, remote)
      after[n \in fork..Len(branch)] ==
        IF n = fork THEN Tip(remote)
        ELSE Picked(branch[n - 1].tree, after[n - 1], branch[n].tree)
  IN  \E n \in (fork + 1)..Len(branch) :
        ConflictPaths(branch[n - 1].tree, after[n - 1], branch[n].tree) # {}

\* Commits reach the remote in the end, however busy the queue is, unless the
\* rebase needs a human.
EventuallyPushed == []<>(IsPrefix(head, remote) \/ NeedsHuman)

\* A degraded worker recovers once the cause is gone.
EventuallyHealthy == []<>(degraded = "clean")
=============================================================================

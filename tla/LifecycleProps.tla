--------------------------- MODULE LifecycleProps ---------------------------
(***************************************************************************)
(* What starting and stopping the process promises.                         *)
(***************************************************************************)
EXTENDS Lifecycle

\* Types, and the bounds of what is counted.
TypeOK ==
  /\ phase \in Phases /\ {enabled, timerStop, stop, unpushed, expired} \subseteq BOOLEAN
  /\ timer \in {"off", "wait", "put", "ended"}
  /\ worker \in {"off", "check", "get", "handle", "ended"}
  /\ cmd \in [Threads -> Commands \cup {"none"}]
  /\ age \in [Threads -> 0..(Timeout + PingLimit)] /\ waited \in 0..Debounce
  /\ carries \in [Threads -> 0..commits]
  /\ pushed <= commits /\ commits <= puts /\ queue <= puts /\ puts <= MaxEvents

\* The threads that touch the repository: main while it sweeps locks.
GitUsers == {t \in Threads : cmd[t] \notin {"none", "ping"}}
              \cup {t \in {"main"} : phase = "sweeping"}

\* Only one thread touches git: worker.py, module docstring.
OneGitUser == Cardinality(GitUsers) <= 1

\* As long as join() has not given up, only one thread touches git: neither
\* the lock sweep nor the final flush ever meets a command of the worker.
OneGitUserUnlessExpired == expired \/ OneGitUser

\* Once it is told to stop, the worker takes one more event at most.
StopIsHeeded == taken <= 1

\* However long commands take, shutdown is over within the join and the longest
\* push cycle with its ping (worker.py stop: bounded).
ShutdownBounded ==
  spent <= Timeout + Grace + (IF Pinned THEN 4 ELSE 5) * Timeout + PingLimit

\* A final flush that goes through leaves no commit behind, unless join() has
\* given up (worker.py stop: "so shutdown loses no commits").
FlushLosesNothing ==
  [][cmd["main"] = "push" /\ unpushed /\ ~unpushed' /\ ~expired => pushed' = commits']_vars

\* Shutdown ends: no command, no busy queue and no join keeps the process.
EventuallyExits == stop ~> phase = "exited"

-----------------------------------------------------------------------------
\* The final flush sees a settled queue (extension.py shutdown).
SettledQueue == [][phase = "flushing" => queue' = queue]_vars

\* What was pending when shutdown began is committed before the process is
\* gone (git-worker design: one final commit and push of anything pending).
PendingIsCommitted == phase = "exited" => queue = 0
=============================================================================

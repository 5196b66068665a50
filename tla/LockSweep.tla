------------------------------ MODULE LockSweep ------------------------------
(***************************************************************************)
(* The startup sweep of stale git locks (locks.py), beside other git        *)
(* processes of the container: a command an operator runs in it, or what a  *)
(* previous run left behind. Each look at the file system or at /proc is a  *)
(* step of its own, and the other processes move in between.                *)
(***************************************************************************)
EXTENDS FiniteSets, Naturals

CONSTANTS
  Names,  \* the lock files: index.lock, HEAD.lock, refs/heads/main.lock...
  Procs,  \* the git processes other than ours
  Foreign \* those that run as somebody else, where /proc does not let us read them

Dead   == "dead"    \* the owner of a lock whose git was killed
Absent == [owner |-> "none", old |-> FALSE]
Lock   == [owner : Procs \cup {Dead}, old : BOOLEAN] \cup {Absent}

ASSUME NamesAssumption == {Dead, "none"} \cap Procs = {} /\ Foreign \subseteq Procs

VARIABLES
  lock,      \* each lock file; "old" is older than STALE_AFTER
  running,   \* the git processes alive
  started,   \* those that ever ran
  pc,        \* the sweep
  cands,     \* the candidates not yet looked at (find_locks)
  found,     \* the locks found, TRUE for one that was old
  todo,      \* those not yet judged (sweep)
  pids,      \* the processes listed and not yet read (git_running)
  verdict,   \* what git_running() returned; "none" until it has
  failed,    \* the locks whose unlink() failed
  readable,  \* /proc can be listed
  company,   \* some process that is not git runs beside the server: an init as PID 1
  listed,    \* history: the processes alive when /proc was listed
  orphans    \* history: the stale locks of dead processes at the start

others == <<lock, running, started>>
finder == <<cands, found, todo>>
prober == <<pids, verdict>>
past   == <<failed, readable, company, listed, orphans>>
vars   == <<others, pc, finder, prober, past>>

Init ==
  /\ running \in SUBSET Procs /\ started = running
  /\ lock \in [Names -> [owner : running \cup {Dead}, old : BOOLEAN] \cup {Absent}]
  /\ pc = "glob" /\ cands = {} /\ found = [n \in {} |-> FALSE] /\ todo = {}
  /\ pids = {} /\ verdict = "none"
  /\ failed = {} /\ listed = {} /\ readable \in BOOLEAN /\ company \in BOOLEAN
  /\ orphans = {n \in Names : lock[n] = [owner |-> Dead, old |-> TRUE]}

Present == {n \in Names : lock[n] # Absent}

-----------------------------------------------------------------------------
(* Other git processes.                                                     *)

Others == UNCHANGED <<pc, finder, prober, past>>

GitStarts == \E p \in Procs \ started :
  /\ running' = running \cup {p} /\ started' = started \cup {p}
  /\ UNCHANGED lock /\ Others

GitLocks == \E p \in running, n \in Names \ Present :
  /\ lock' = [lock EXCEPT ![n] = [owner |-> p, old |-> FALSE]]
  /\ UNCHANGED <<running, started>> /\ Others

\* A git process is done with its locks and removes them, or is killed and
\* leaves them.
GitEnds == \E p \in running, killed \in BOOLEAN :
  /\ running' = running \ {p}
  /\ lock' = [n \in Names |-> IF lock[n].owner # p THEN lock[n]
                              ELSE IF killed THEN [lock[n] EXCEPT !.owner = Dead] ELSE Absent]
  /\ UNCHANGED started /\ Others

LockAges == \E n \in Present :
  /\ ~lock[n].old
  /\ lock' = [lock EXCEPT ![n].old = TRUE]
  /\ UNCHANGED <<running, started>> /\ Others

-----------------------------------------------------------------------------
(* find_locks: glob, then stat each.                                        *)

Glob ==
  /\ pc = "glob"
  /\ cands' = Present /\ pc' = "stat"
  /\ UNCHANGED <<others, found, todo, prober, past>>

\* A candidate that has vanished since is skipped.
Stat == \E n \in cands :
  /\ pc = "stat"
  /\ cands' = cands \ {n}
  /\ found' = IF n \in Present
                THEN [m \in DOMAIN found \cup {n} |-> IF m = n THEN lock[n].old ELSE found[m]]
                ELSE found
  /\ UNCHANGED <<others, pc, todo, prober, past>>

\* Mutant: the locks are judged without a look at /proc.
Found_Unprobed ==
  /\ pc = "stat" /\ cands = {}
  /\ todo' = DOMAIN found /\ pc' = "judge"
  /\ UNCHANGED <<others, cands, found, prober, past>>

\* With no lock the sweep is over: git_running() is not even called.
Found ==
  /\ pc = "stat" /\ cands = {}
  /\ todo' = DOMAIN found
  /\ pc' = IF DOMAIN found = {} THEN "done" ELSE "list"
  /\ UNCHANGED <<others, cands, found, prober, past>>

-----------------------------------------------------------------------------
(* git_running: list /proc, then read the name of each process.             *)

\* /proc cannot be listed, or nothing is left of the list once the server's own
\* process is taken out: nobody knows.
CannotTell ==
  /\ pc = "list" /\ (~readable \/ (running = {} /\ ~company))
  /\ verdict' = "unknown" /\ pc' = "judge"
  /\ UNCHANGED <<others, finder, pids, past>>

ListProc ==
  /\ pc = "list" /\ readable /\ (running # {} \/ company)
  /\ pids' = running /\ listed' = running /\ pc' = "read"
  /\ UNCHANGED <<others, finder, verdict, failed, readable, company, orphans>>

\* A process whose name cannot be read is skipped: it is gone, or not ours to read.
ReadProc == \E p \in pids :
  /\ pc = "read"
  /\ IF p \in running \ Foreign
       THEN verdict' = "yes" /\ pc' = "judge" /\ UNCHANGED pids
       ELSE pids' = pids \ {p} /\ UNCHANGED <<pc, verdict>>
  /\ UNCHANGED <<others, finder, past>>

\* Mutant: git_running() says no before it has read every name.
NoneRuns_TooSoon ==
  /\ pc = "read"
  /\ verdict' = "no" /\ pc' = "judge"
  /\ UNCHANGED <<others, finder, pids, past>>

NoneRuns ==
  /\ pc = "read" /\ pids = {}
  /\ verdict' = "no" /\ pc' = "judge"
  /\ UNCHANGED <<others, finder, pids, past>>

-----------------------------------------------------------------------------
(* sweep: judge each lock by what was found, and remove it if it is stale.  *)

Stale(n) == verdict = "no" /\ found[n]

Judge(n) == pc = "judge" /\ n \in todo /\ todo' = todo \ {n}

Keep == \E n \in todo :
  /\ Judge(n) /\ ~Stale(n)
  /\ UNCHANGED <<others, pc, cands, found, prober, past>>

\* unlink() removes the file that has the name now; it fails when there is none
\* or for lack of permission.
Unlink == \E n \in todo :
  /\ Judge(n) /\ Stale(n) /\ n \in Present
  /\ lock' = [lock EXCEPT ![n] = Absent]
  /\ UNCHANGED <<running, started, pc, cands, found, prober, past>>

\* Mutant: the sweep gives up at the first unlink() that fails.
UnlinkFails_GivesUp == \E n \in todo :
  /\ pc = "judge" /\ Stale(n)
  /\ todo' = {} /\ failed' = failed \cup {n}
  /\ UNCHANGED <<others, pc, cands, found, prober, readable, company, listed, orphans>>

\* The failure is logged, and the sweep goes on to the next lock.
UnlinkFails == \E n \in todo :
  /\ Judge(n) /\ Stale(n)
  /\ failed' = failed \cup {n}
  /\ UNCHANGED <<others, pc, cands, found, prober, readable, company, listed, orphans>>

\* Mutant: startup waits until no other git runs.
Finish_Waits ==
  /\ pc = "judge" /\ todo = {} /\ running = {}
  /\ pc' = "done"
  /\ UNCHANGED <<others, finder, prober, past>>

Finish ==
  /\ pc = "judge" /\ todo = {}
  /\ pc' = "done"
  /\ UNCHANGED <<others, finder, prober, past>>

Git   == GitStarts \/ GitLocks \/ GitEnds \/ LockAges
Sweep == Glob \/ Stat \/ Found \/ CannotTell \/ ListProc \/ ReadProc \/ NoneRuns
           \/ Keep \/ Unlink \/ UnlinkFails \/ Finish

Next == Git \/ Sweep

Spec == Init /\ [][Next]_vars

\* The main thread runs; the other processes owe nothing.
LiveSpec == Spec /\ WF_vars(Sweep)

-----------------------------------------------------------------------------
TypeOK ==
  /\ lock \in [Names -> Lock] /\ running \subseteq started /\ started \subseteq Procs
  /\ pc \in {"glob", "stat", "list", "read", "judge", "done"}
  /\ cands \subseteq Names /\ DOMAIN found \subseteq Names /\ todo \subseteq DOMAIN found
  /\ pids \subseteq listed /\ verdict \in {"none", "yes", "no", "unknown"}
  /\ \A n \in Names : lock[n].owner \in running \cup {Dead, "none"}
  /\ pc = "judge" => verdict # "none"

\* A lock held by a git process that was there when /proc was listed, is still there
\* and may be read is never removed (locks.py: removing a lock a live git holds
\* corrupts the repository), whatever else starts, ends or dies meanwhile.
ListedOwnersKeepLocks ==
  [][\A n \in Names : lock[n].owner \in (listed \ Foreign) \cap running \cap running'
       => lock'[n].owner = lock[n].owner]_vars

\* The same of all that were there, readable or not.
AllListedKeepLocks ==
  [][\A n \in Names : lock[n].owner \in listed \cap running \cap running'
       => lock'[n].owner = lock[n].owner]_vars

\* With no other git about and a /proc to look at, every stale lock there was at
\* startup is gone before the worker starts (locks.sweep: "Remove stale locks").
OrphansAreCleared ==
  pc = "done" /\ started = {} /\ readable => \A n \in orphans \ failed : lock[n] = Absent

\* What really becomes of them is settled by the company the server has: beside an
\* init they all go, except where unlink() itself failed (one lock that cannot be
\* removed does not keep the others), and a server that is alone removes none.
OrphansFate ==
  pc = "done" /\ started = {} /\ readable =>
    \A n \in orphans : IF company THEN lock[n] = Absent \/ n \in failed
                                  ELSE lock[n] # Absent

\* The sweep never keeps the server from starting, whatever git does meanwhile.
StartupProceeds == <>(pc = "done")

\* No lock of a running git process is removed (spec git-worker: stale only
\* when no git process is running).
NoLiveLockRemoved ==
  [][Unlink => \A n \in Names : lock[n].owner \in running => lock'[n] # Absent]_vars
=============================================================================

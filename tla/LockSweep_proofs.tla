-------------------------- MODULE LockSweep_proofs --------------------------
(***************************************************************************)
(* Proofs that the startup sweep takes no lock from a git process it could  *)
(* have seen and clears the orphans when it can tell that no git runs, for  *)
(* any number of locks and processes.                                       *)
(***************************************************************************)
EXTENDS LockSweep, TLAPS

\* Every process that was listed, may be read and is still alive is yet to be read,
\* and none is when git_running() has said no.
Watched ==
  /\ lock \in [Names -> Lock]
  /\ listed \subseteq started /\ running \subseteq started /\ started \subseteq Procs
  /\ pc = "read" => (listed \ Foreign) \cap running \subseteq pids
  /\ verdict = "no" => (listed \ Foreign) \cap running = {} /\ pc \notin {"list", "read"}
  /\ pc \in {"glob", "stat", "list"} => verdict = "none" /\ listed = {}

LEMMA WatchedInit == Init => Watched
BY DEF Init, Watched, Lock

LEMMA WatchedNext == Watched /\ [Next]_vars => Watched'
<1> SUFFICES ASSUME Watched, [Next]_vars PROVE Watched'
  OBVIOUS
<1> USE DEF Watched, others, finder, prober, past
<1>1. CASE GitStarts
  BY <1>1 DEF GitStarts, Others
<1>2. CASE GitLocks
  <2>1. PICK p \in running, n \in Names \ Present :
          lock' = [lock EXCEPT ![n] = [owner |-> p, old |-> FALSE]]
    BY <1>2 DEF GitLocks
  <2>2. [owner |-> p, old |-> FALSE] \in Lock
    BY DEF Lock
  <2>3. lock' \in [Names -> Lock]
    BY <2>1, <2>2
  <2> QED BY <1>2, <2>3 DEF GitLocks, Others
<1>3. CASE GitEnds
  <2>1. PICK p \in running, killed \in BOOLEAN :
          /\ running' = running \ {p}
          /\ lock' = [n \in Names |-> IF lock[n].owner # p THEN lock[n]
                        ELSE IF killed THEN [lock[n] EXCEPT !.owner = Dead] ELSE Absent]
    BY <1>3 DEF GitEnds
  <2>2. ASSUME NEW n \in Names PROVE lock'[n] \in Lock
    <3>1. lock[n] \in Lock /\ Absent \in Lock
      BY DEF Lock
    <3>2. CASE lock[n].owner = p
      <4>1. lock[n] # Absent
        BY <3>2, NamesAssumption DEF Absent
      <4>2. [lock[n] EXCEPT !.owner = Dead] \in Lock
        BY <3>1, <4>1 DEF Lock
      <4> QED BY <2>1, <3>1, <3>2, <4>2
    <3> QED BY <2>1, <3>1, <3>2
  <2>3. lock' \in [Names -> Lock]
    BY <2>1, <2>2
  <2> QED BY <1>3, <2>1, <2>3 DEF GitEnds, Others
<1>4. CASE LockAges
  <2>1. PICK n \in Present : lock' = [lock EXCEPT ![n].old = TRUE]
    BY <1>4 DEF LockAges
  <2>2. lock[n] \in [owner : Procs \cup {Dead}, old : BOOLEAN]
    BY <2>1 DEF Present, Lock
  <2>3. lock' \in [Names -> Lock]
    BY <2>1, <2>2 DEF Present, Lock
  <2> QED BY <1>4, <2>3 DEF LockAges, Others
<1>5. CASE Glob \/ Stat \/ Found
  BY <1>5 DEF Glob, Stat, Found
<1>6. CASE CannotTell \/ ListProc \/ ReadProc \/ NoneRuns
  BY <1>6 DEF CannotTell, ListProc, ReadProc, NoneRuns
<1>7. CASE Keep \/ UnlinkFails \/ Finish
  BY <1>7 DEF Keep, UnlinkFails, Finish, Judge
<1>8. CASE Unlink
  BY <1>8 DEF Unlink, Judge, Lock
<1>9. CASE UNCHANGED vars
  BY <1>9 DEF vars
<1> QED BY <1>1, <1>2, <1>3, <1>4, <1>5, <1>6, <1>7, <1>8, <1>9 DEF Next, Git, Sweep

\* A git process that was alive when /proc was listed, and whose name the server may
\* read, keeps its locks for as long as it lives.
THEOREM ListedOwnersSafe == Spec => ListedOwnersKeepLocks
<1> DEFINE Kept == \A n \in Names : lock[n].owner \in (listed \ Foreign) \cap running \cap running'
                     => lock'[n].owner = lock[n].owner
<1>1. Watched /\ [Next]_vars => [Kept]_vars
  <2> SUFFICES ASSUME Watched, Next PROVE Kept
    OBVIOUS
  <2> SUFFICES ASSUME NEW n \in Names, lock[n].owner \in (listed \ Foreign) \cap running \cap running'
               PROVE lock'[n].owner = lock[n].owner
    OBVIOUS
  <2> USE DEF Watched, others
  <2>2. CASE GitStarts
    BY <2>2 DEF GitStarts
  <2>3. CASE GitLocks
    <3>1. PICK p \in running, m \in Names \ Present :
            lock' = [lock EXCEPT ![m] = [owner |-> p, old |-> FALSE]]
      BY <2>3 DEF GitLocks
    <3>2. m # n
      BY <3>1, NamesAssumption DEF Present, Absent
    <3> QED BY <3>1, <3>2
  <2>4. CASE GitEnds
    BY <2>4 DEF GitEnds
  <2>5. CASE LockAges
    <3>1. PICK m \in Present : lock' = [lock EXCEPT ![m].old = TRUE]
      BY <2>5 DEF LockAges
    <3>2. lock[m] \in [owner : Procs \cup {Dead}, old : BOOLEAN]
      BY <3>1 DEF Present, Lock
    <3> QED BY <3>1, <3>2 DEF Present
  <2>6. CASE Unlink
    BY <2>6 DEF Unlink, Stale
  <2>7. CASE Glob \/ Stat \/ Found \/ CannotTell \/ ListProc \/ ReadProc \/ NoneRuns
               \/ Keep \/ UnlinkFails \/ Finish
    BY <2>7 DEF Glob, Stat, Found, CannotTell, ListProc, ReadProc, NoneRuns, Keep,
                UnlinkFails, Finish
  <2> QED BY <2>2, <2>3, <2>4, <2>5, <2>6, <2>7 DEF Next, Git, Sweep
<1> QED BY <1>1, WatchedInit, WatchedNext, PTL DEF Spec, ListedOwnersKeepLocks

-----------------------------------------------------------------------------
LEMMA TypesNext == TypeOK /\ [Next]_vars => TypeOK'
<1> SUFFICES ASSUME TypeOK, [Next]_vars PROVE TypeOK'
  OBVIOUS
<1> USE DEF TypeOK, others, finder, prober, past
<1>1. CASE GitStarts
  BY <1>1 DEF GitStarts, Others
<1>2. CASE GitLocks
  <2>1. PICK p \in running, n \in Names \ Present :
          lock' = [lock EXCEPT ![n] = [owner |-> p, old |-> FALSE]]
    BY <1>2 DEF GitLocks
  <2>2. [owner |-> p, old |-> FALSE] \in Lock
    BY <2>1 DEF Lock
  <2>3. lock' \in [Names -> Lock] /\ \A m \in Names : lock'[m].owner \in running \cup {Dead, "none"}
    BY <2>1, <2>2
  <2> QED BY <1>2, <2>3 DEF GitLocks, Others
<1>3. CASE GitEnds
  <2>1. PICK p \in running, killed \in BOOLEAN :
          /\ running' = running \ {p}
          /\ lock' = [n \in Names |-> IF lock[n].owner # p THEN lock[n]
                        ELSE IF killed THEN [lock[n] EXCEPT !.owner = Dead] ELSE Absent]
    BY <1>3 DEF GitEnds
  <2>2. ASSUME NEW n \in Names
        PROVE  lock'[n] \in Lock /\ lock'[n].owner \in running' \cup {Dead, "none"}
    <3>1. lock[n] \in Lock /\ Absent \in Lock /\ Absent.owner = "none"
      BY DEF Lock, Absent
    <3>2. CASE lock[n].owner = p
      <4>1. lock[n] # Absent
        BY <2>1, <3>2, NamesAssumption DEF Absent
      <4>2. [lock[n] EXCEPT !.owner = Dead] \in Lock /\ [lock[n] EXCEPT !.owner = Dead].owner = Dead
        BY <3>1, <4>1 DEF Lock
      <4> QED BY <2>1, <3>1, <3>2, <4>2
    <3> QED BY <2>1, <3>1, <3>2
  <2>3. lock' \in [Names -> Lock]
    BY <2>1, <2>2
  <2>4. running' \subseteq started' /\ started' \subseteq Procs
    BY <1>3, <2>1 DEF GitEnds
  <2> QED BY <1>3, <2>2, <2>3, <2>4 DEF GitEnds, Others
<1>4. CASE LockAges
  <2>1. PICK n \in Present : lock' = [lock EXCEPT ![n].old = TRUE]
    BY <1>4 DEF LockAges
  <2>2. lock[n] \in [owner : Procs \cup {Dead}, old : BOOLEAN]
    BY <2>1 DEF Present, Lock
  <2>3. lock' \in [Names -> Lock] /\ \A m \in Names : lock'[m].owner = lock[m].owner
    BY <2>1, <2>2 DEF Present, Lock
  <2> QED BY <1>4, <2>3 DEF LockAges, Others
<1>5. CASE Glob \/ Found
  BY <1>5 DEF Glob, Found, Present
<1>6. CASE Stat
  <2>1. PICK n \in cands :
          found' = IF n \in Present
                     THEN [m \in DOMAIN found \cup {n} |-> IF m = n THEN lock[n].old ELSE found[m]]
                     ELSE found
    BY <1>6 DEF Stat
  <2>2. DOMAIN found' \subseteq Names /\ DOMAIN found \subseteq DOMAIN found'
    BY <2>1
  <2> QED BY <1>6, <2>2 DEF Stat
<1>7. CASE CannotTell \/ ListProc \/ ReadProc \/ NoneRuns
  BY <1>7 DEF CannotTell, ListProc, ReadProc, NoneRuns
<1>8. CASE Keep \/ UnlinkFails \/ Finish
  BY <1>8 DEF Keep, UnlinkFails, Finish, Judge
<1>9. CASE Unlink
  <2>1. PICK n \in todo : lock' = [lock EXCEPT ![n] = Absent]
    BY <1>9 DEF Unlink
  <2>2. lock' \in [Names -> Lock] /\ \A m \in Names : lock'[m].owner \in running \cup {Dead, "none"}
    BY <2>1 DEF Lock, Absent
  <2> QED BY <1>9, <2>2 DEF Unlink, Judge
<1>10. CASE UNCHANGED vars
  BY <1>10 DEF vars
<1> QED BY <1>1, <1>2, <1>3, <1>4, <1>5, <1>6, <1>7, <1>8, <1>9, <1>10 DEF Next, Git, Sweep

\* A lock names a process that is alive, or a dead one; no lock is judged before
\* git_running() has answered.
THEOREM SweepTypes == Spec => []TypeOK
<1>1. Init => TypeOK
  <2> SUFFICES ASSUME Init PROVE TypeOK
    OBVIOUS
  <2>1. \A n \in Names : lock[n] \in Lock /\ lock[n].owner \in running \cup {Dead, "none"}
    <3> SUFFICES ASSUME NEW n \in Names
                 PROVE  lock[n] \in Lock /\ lock[n].owner \in running \cup {Dead, "none"}
      OBVIOUS
    <3>1. lock[n] \in [owner : running \cup {Dead}, old : BOOLEAN] \cup {Absent}
      BY DEF Init
    <3> QED BY <3>1 DEF Init, Lock, Absent
  <2>2. lock \in [Names -> Lock]
    BY <2>1 DEF Init
  <2> QED BY <2>1, <2>2 DEF Init, TypeOK
<1> QED BY <1>1, TypesNext, PTL DEF Spec

-----------------------------------------------------------------------------
(* What becomes of the orphans.                                             *)

Orphan == [owner |-> Dead, old |-> TRUE]
Seen(n) == n \in DOMAIN found /\ found[n]

\* Where an orphan is on its way through the sweep, to its end in company, and
\* nowhere in the end for a server that is alone.
OnItsWay(n) ==
  /\ lock[n] = Orphan
  /\ pc = "stat" => n \in cands \/ Seen(n)
  /\ pc \in {"list", "read"} => n \in todo /\ Seen(n)
  /\ pc = "read" => company
  /\ pc = "judge" => IF company THEN n \in todo /\ Seen(n) /\ verdict = "no"
                                ELSE verdict = "unknown"
  /\ pc = "done" => ~company

Clearing ==
  started = {} /\ readable =>
    \A n \in orphans : OnItsWay(n) \/ (company /\ (lock[n] = Absent \/ n \in failed))

OrphansNamed == orphans \subseteq Names

LEMMA OrphanIsNone == Orphan # Absent /\ Orphan.old = TRUE
BY DEF Orphan, Absent

LEMMA ClearingNext == TypeOK /\ OrphansNamed /\ Clearing /\ [Next]_vars => Clearing'
<1> SUFFICES ASSUME TypeOK, OrphansNamed, Clearing, [Next]_vars,
                    started' = {}, readable', NEW n \in orphans'
             PROVE  OnItsWay(n)' \/ (company' /\ (lock'[n] = Absent \/ n \in failed'))
  BY DEF Clearing
<1> USE DEF others, finder, prober, past
<1>1. UNCHANGED <<orphans, readable, company>> /\ started \subseteq started' /\ failed \subseteq failed'
  <2>1. CASE Git
    BY <2>1 DEF Git, GitStarts, GitLocks, GitEnds, LockAges, Others
  <2>2. CASE Sweep
    BY <2>2 DEF Sweep, Glob, Stat, Found, CannotTell, ListProc, ReadProc, NoneRuns, Keep, Unlink,
                UnlinkFails, Finish
  <2> QED BY <2>1, <2>2 DEF Next, vars
<1>2. /\ started = {} /\ readable /\ running = {} /\ n \in orphans /\ n \in Names
      /\ OnItsWay(n) \/ (company /\ (lock[n] = Absent \/ n \in failed))
  BY <1>1 DEF Clearing, TypeOK, OrphansNamed
<1>3. CASE company /\ n \in failed
  BY <1>1, <1>3
<1>4. ~GitStarts /\ ~GitLocks /\ ~GitEnds
  <2>1. ~GitStarts
    BY DEF GitStarts
  <2>2. ~GitLocks /\ ~GitEnds
    BY <1>2 DEF GitLocks, GitEnds
  <2> QED BY <2>1, <2>2
<1>5. CASE company /\ lock[n] = Absent
  <2>1. CASE LockAges
    <3>1. PICK m \in Present : lock' = [lock EXCEPT ![m].old = TRUE]
      BY <2>1 DEF LockAges
    <3>2. m # n
      BY <1>5, <3>1 DEF Present
    <3> QED BY <1>1, <1>2, <1>5, <3>1, <3>2 DEF TypeOK
  <2>2. CASE Unlink
    <3>1. PICK m \in todo : lock' = [lock EXCEPT ![m] = Absent]
      BY <2>2 DEF Unlink
    <3> QED BY <1>1, <1>2, <1>5, <3>1 DEF TypeOK
  <2>3. CASE UNCHANGED lock
    BY <1>1, <1>5, <2>3
  <2> QED BY <1>4, <2>1, <2>2, <2>3
          DEF Next, vars, Git, Sweep, Glob, Stat, Found, CannotTell, ListProc, ReadProc, NoneRuns,
              Keep, UnlinkFails, Finish
<1>6. CASE OnItsWay(n)
  <2> USE <1>2, <1>6 DEF OnItsWay
  <2>1. CASE LockAges
    <3>1. PICK m \in Present : ~lock[m].old /\ lock' = [lock EXCEPT ![m].old = TRUE]
      BY <2>1 DEF LockAges
    <3>2. m # n /\ lock'[n] = lock[n]
      BY <3>1, OrphanIsNone DEF TypeOK
    <3> QED BY <2>1, <3>2 DEF LockAges, Others, Seen
  <2>2. CASE Glob
    BY <2>2, OrphanIsNone DEF Glob, Present, Seen
  <2>3. CASE Stat
    <3>1. PICK m \in cands :
            /\ cands' = cands \ {m}
            /\ found' = IF m \in Present
                          THEN [k \in DOMAIN found \cup {m} |-> IF k = m THEN lock[m].old ELSE found[k]]
                          ELSE found
      BY <2>3 DEF Stat
    <3>2. n \in Present
      BY OrphanIsNone DEF Present
    <3>3. CASE m = n
      <4>1. Seen(n)'
        BY <3>1, <3>2, <3>3, OrphanIsNone DEF Seen
      <4> QED BY <2>3, <4>1 DEF Stat
    <3>4. CASE m # n
      <4>1. Seen(n) => Seen(n)'
        BY <3>1, <3>4 DEF Seen
      <4> QED BY <2>3, <3>1, <3>4, <4>1 DEF Stat
    <3> QED BY <3>3, <3>4
  <2>4. CASE Found
    BY <2>4 DEF Found, Seen
  <2>5. CASE CannotTell
    BY <2>5 DEF CannotTell
  <2>6. CASE ListProc \/ NoneRuns
    BY <2>6 DEF ListProc, NoneRuns, Seen
  <2>7. CASE ReadProc
    BY <2>7 DEF ReadProc, Seen
  <2>8. CASE Keep
    <3>1. PICK m \in todo : Judge(m) /\ ~Stale(m)
      BY <2>8 DEF Keep
    <3>2. company => m # n
      BY <3>1 DEF Judge, Stale, Seen
    <3> QED BY <2>8, <3>1, <3>2 DEF Keep, Judge, Seen
  <2>9. CASE Unlink
    <3>1. PICK m \in todo : Judge(m) /\ Stale(m) /\ lock' = [lock EXCEPT ![m] = Absent]
      BY <2>9 DEF Unlink
    <3>2. company
      BY <3>1 DEF Judge, Stale
    <3>3. m = n => lock'[n] = Absent
      BY <3>1 DEF TypeOK
    <3>4. m # n => lock'[n] = lock[n]
      BY <3>1 DEF TypeOK
    <3> QED BY <1>1, <2>9, <3>1, <3>2, <3>3, <3>4 DEF Unlink, Judge, Seen
  <2>10. CASE UnlinkFails
    <3>1. PICK m \in todo : Judge(m) /\ failed' = failed \cup {m}
      BY <2>10 DEF UnlinkFails
    <3> QED BY <2>10, <3>1 DEF UnlinkFails, Judge, Seen
  <2>11. CASE Finish
    BY <2>11 DEF Finish
  <2>12. CASE UNCHANGED vars
    BY <2>12 DEF vars, Seen
  <2> QED BY <1>4, <2>1, <2>2, <2>3, <2>4, <2>5, <2>6, <2>7, <2>8, <2>9, <2>10, <2>11, <2>12
          DEF Next, Git, Sweep
<1> QED BY <1>2, <1>3, <1>5, <1>6

\* With no git about, every stale lock found at startup goes where an init runs
\* beside the server, except where unlink() fails; where the server is alone, as in
\* the image as shipped, all of them stay.
THEOREM OrphansHaveTheirFate == Spec => []OrphansFate
<1>1. Init => OrphansNamed /\ Clearing
  BY DEF Init, Clearing, OnItsWay, Orphan, OrphansNamed
<1>2. OrphansNamed /\ [Next]_vars => OrphansNamed'
  BY DEF OrphansNamed, Next, vars, past, Git, GitStarts, GitLocks, GitEnds, LockAges, Others, Sweep, Glob, Stat,
         Found, CannotTell, ListProc, ReadProc, NoneRuns, Keep, Unlink, UnlinkFails, Finish
<1>3. Clearing => OrphansFate
  BY OrphanIsNone DEF Clearing, OnItsWay, OrphansFate
<1>4. TypeOK /\ OrphansNamed /\ Clearing /\ [Next]_vars => Clearing'
  BY ClearingNext
<1> QED BY <1>1, <1>2, <1>3, <1>4, SweepTypes, PTL DEF Spec
=============================================================================

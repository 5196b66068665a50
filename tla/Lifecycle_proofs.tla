-------------------------- MODULE Lifecycle_proofs --------------------------
(***************************************************************************)
(* Proofs about Lifecycle, for every timeout, debounce and bound: one       *)
(* thread at a time runs git unless join() has given up, the worker heeds   *)
(* the stop flag, shutdown takes no longer than the join and one push, and  *)
(* the final flush leaves no commit behind.                                 *)
(***************************************************************************)
EXTENDS LifecycleProps, FiniteSetTheorems, TLAPS

\* What the two threads may be doing, by the phase of the main thread: the
\* worker is started after the sweep, and main runs git in the flush only.
Turns ==
  /\ cmd \in [Threads -> Commands \cup {"none"}] /\ age \in [Threads -> Nat]
  /\ phase \in Phases
  /\ phase \in {"validating", "listening", "sweeping"} => worker = "off"
  /\ worker \in {"off", "ended"} => cmd["worker"] = "none"
  /\ phase # "flushing" => cmd["main"] = "none"
  /\ phase = "flushing" => expired \/ worker = "ended"

LEMMA TurnsInit == Init => Turns
BY DEF Init, Turns, Threads, Phases, Commands, PushPath

LEMMA TurnsNext == Turns /\ [Next]_vars => Turns'
<1> SUFFICES ASSUME Turns, [Next]_vars PROVE Turns'
  OBVIOUS
<1> USE DEF Turns
<1> USE DEF Threads
<1>1. CASE UNCHANGED vars
  BY <1>1 DEF vars, git, flags, events, history, clocks
<1>2. CASE Worker
  <2> USE DEF WorkerStep
  <2>1. CASE WorkerLoops
    BY <2>1 DEF WorkerLoops, git
  <2>2. CASE WorkerEnds
    BY <2>2 DEF WorkerEnds, git
  <2>3. CASE WorkerTakes
    BY <2>3 DEF WorkerTakes, Run, Commands
  <2>4. CASE WorkerTimesOut
    BY <2>4 DEF WorkerTimesOut, Run, PushStart, Commands, PushPath
  <2>5. CASE WorkerHandled
    BY <2>5 DEF WorkerHandled, Run, PushStart, Commands, PushPath
  <2> QED BY <1>2, <2>1, <2>2, <2>3, <2>4, <2>5 DEF Worker
<1>3. CASE Main
  <2> USE DEF MainStep, Phases
  <2>1. CASE Validate
    BY <2>1 DEF Validate, git
  <2>2. CASE StartSweep
    BY <2>2 DEF StartSweep, git
  <2>3. CASE StartThreads
    BY <2>3 DEF StartThreads, git
  <2>4. CASE Shutdown
    BY <2>4 DEF Shutdown, git
  <2>5. CASE Joined
    BY <2>5 DEF Joined, Flush, Run, PushStart, Commands, PushPath
  <2>6. CASE JoinExpires
    BY <2>6 DEF JoinExpires, Flush, Run, PushStart, Commands, PushPath
  <2>7. CASE Exit
    BY <2>7 DEF Exit, git
  <2> QED BY <1>3, <2>1, <2>2, <2>3, <2>4, <2>5, <2>6, <2>7 DEF Main
<1>4. CASE Timer \/ ListenerPuts \/ Tick \/ Gone
  BY <1>4 DEF Timer, TimerWakes, TimerPuts, TimerEnds, ListenerPuts, Tick, Gone,
              vars, git, flags, events, history, clocks
<1>5. ASSUME NEW t \in Threads, Git(t) PROVE Turns'
  <2>1. PICK c \in Commands \cup {"none"} : cmd[t] # "none" /\ Run(t, c)
    <3>1. CASE CommandKilled(t)
      BY <3>1 DEF CommandKilled, Ended
    <3>2. CASE \E next \in Commands \cup {"none"} : CommandEnds(t, next)
      BY <3>2 DEF CommandEnds
    <3> QED BY <1>5, <3>1, <3>2 DEF Git
  <2>2. UNCHANGED <<phase, worker, expired>>
    BY <1>5 DEF Git, CommandKilled, CommandEnds
  <2> QED BY <2>1, <2>2 DEF Run
<1> QED BY <1>1, <1>2, <1>3, <1>4, <1>5 DEF Next

\* Only one of the threads touches git until join() gives up: the lock sweep
\* is over before the worker starts, and the flush waits for it to end.
THEOREM OneThreadRunsGit == Spec => []OneGitUserUnlessExpired
<1>1. Turns => OneGitUserUnlessExpired
  <2> SUFFICES ASSUME Turns, ~expired PROVE OneGitUser
    BY DEF OneGitUserUnlessExpired
  <2>1. GitUsers \subseteq {"main"} \/ GitUsers \subseteq {"worker"}
    BY DEF Turns, GitUsers, Threads, Phases
  <2>2. PICK t : GitUsers \subseteq {t}
    BY <2>1
  <2>3. IsFiniteSet({t}) /\ Cardinality({t}) = 1
    BY FS_Singleton
  <2>4. Cardinality(GitUsers) <= Cardinality({t}) /\ Cardinality(GitUsers) \in Nat
    BY <2>2, <2>3, FS_Subset, FS_CardinalityType
  <2> QED BY <2>3, <2>4 DEF OneGitUser
<1> QED BY <1>1, TurnsInit, TurnsNext, PTL DEF Spec

-----------------------------------------------------------------------------
\* An event taken after the stop flag was set is the last: the worker is past
\* get() and its loop will see the flag.
Heeded ==
  /\ taken \in Nat
  /\ ~stop => taken = 0
  /\ worker = "get" => taken = 0
  /\ taken <= 1

\* Once told to stop, the worker takes at most one more event from the queue.
THEOREM StopFlagIsHeeded == Spec => []StopIsHeeded
<1>1. Init => Heeded
  BY DEF Init, Heeded
<1>2. Heeded /\ [Next]_vars => Heeded'
  <2> SUFFICES ASSUME Heeded, [Next]_vars PROVE Heeded'
    OBVIOUS
  <2> USE DEF Heeded
  <2>1. CASE Worker
    BY <2>1 DEF Worker, WorkerLoops, WorkerEnds, WorkerTakes, WorkerTimesOut, WorkerHandled,
                WorkerStep, flags, events
  <2>2. CASE Main
    BY <2>2 DEF Main, Validate, StartSweep, StartThreads, Shutdown, Joined, JoinExpires,
                Flush, Exit, MainStep, flags, events
  <2>3. CASE Timer \/ ListenerPuts \/ Tick \/ Gone \/ UNCHANGED vars
    BY <2>3 DEF Timer, TimerWakes, TimerPuts, TimerEnds, ListenerPuts, Put, Tick, Gone,
                vars, flags, events
  <2>4. ASSUME NEW t \in Threads, Git(t) PROVE Heeded'
    BY <2>4 DEF Git, CommandKilled, CommandEnds, flags, events
  <2> QED BY <2>1, <2>2, <2>3, <2>4 DEF Next
<1>3. Heeded => StopIsHeeded
  BY DEF Heeded, StopIsHeeded
<1> QED BY <1>1, <1>2, <1>3, PTL DEF Spec

-----------------------------------------------------------------------------
(* How long shutdown takes.                                                 *)

\* The time a push cycle may have taken before each of its commands.
First  == IF Pinned THEN 0 ELSE Timeout
Before == [resolve |-> 0, fetch |-> First, rebase |-> First + Timeout,
           abort |-> First + 2 * Timeout, push |-> First + 3 * Timeout,
           ping |-> First + 4 * Timeout]
Longest == First + 4 * Timeout + PingLimit

\* The commands the final flush may run.
Flushes == {"fetch", "rebase", "abort", "push", "ping"} \cup (IF Pinned THEN {} ELSE {"resolve"})

LEMMA PushCycle ==
  /\ PushStart \in Flushes /\ Before[PushStart] = 0
  /\ Longest \in Nat
  /\ \A c \in Flushes :
       /\ c \in Commands /\ c # "none"
       /\ Before[c] \in Nat /\ Limit(c) \in Nat /\ Before[c] + Limit(c) <= Longest
       /\ \A n \in Follow[c] : n # "none" => n \in Flushes /\ Before[c] + Limit(c) <= Before[n]
BY TimesAssumption
   DEF PushStart, Flushes, Before, First, Longest, Limit, Follow, Commands, PushPath

\* While main joins it stays within the join; while it flushes it is as late as
\* the commands before the one it runs, and this one so far, can make it.
OnTime ==
  /\ spent \in Nat
  /\ cmd["main"] # "none" => age["main"] <= Limit(cmd["main"])
  /\ phase \notin {"joining", "flushing", "exited"} => spent = 0
  /\ phase = "joining" => spent <= JoinLimit
  /\ phase = "flushing" /\ cmd["main"] # "none" =>
       /\ cmd["main"] \in Flushes
       /\ spent <= JoinLimit + Before[cmd["main"]] + age["main"]
  /\ spent <= JoinLimit + Longest

\* Shutdown lasts as long as the join and one push cycle with its ping.
THEOREM ShutdownIsBounded == Spec => []ShutdownBounded
<1>1. Init => OnTime
  BY TimesAssumption, PushCycle DEF Init, OnTime, Threads, JoinLimit
<1>2. Turns /\ OnTime /\ [Next]_vars => OnTime'
  <2> SUFFICES ASSUME Turns, OnTime, [Next]_vars PROVE OnTime'
    OBVIOUS
  <2> USE DEF OnTime
  <2>9. Turns'
    BY TurnsNext
  <2> USE <2>9 DEF Turns
  <2>0. JoinLimit \in Nat
    BY TimesAssumption DEF JoinLimit
  <2>1. CASE Worker
    <3>1. UNCHANGED <<phase, spent, cmd["main"], age["main"]>>
      BY <2>1 DEF Worker, WorkerLoops, WorkerEnds, WorkerTakes, WorkerTimesOut, WorkerHandled,
                  WorkerStep, Run, git, Threads
    <3> QED BY <3>1
  <2>2. CASE Main
    <3>1. CASE Flush
      BY <2>0, <3>1, PushCycle DEF Flush, MainStep, Run, Threads, Phases
    <3>2. CASE Validate \/ StartSweep \/ StartThreads \/ Shutdown \/ Exit
      BY <2>0, <3>2, PushCycle
         DEF Validate, StartSweep, StartThreads, Shutdown, Exit, MainStep, git, Phases
    <3> QED BY <2>2, <3>1, <3>2 DEF Main, Joined, JoinExpires
  <2>3. CASE Timer \/ ListenerPuts \/ Gone \/ UNCHANGED vars
    BY <2>3 DEF Timer, TimerWakes, TimerPuts, TimerEnds, ListenerPuts, Gone, vars, git, clocks
  <2>4. CASE Tick
    <3>1. CASE cmd["main"] # "none"
      <4>1. phase = "flushing" /\ spent' = spent + 1 /\ age'["main"] = age["main"] + 1
        BY <2>4, <3>1 DEF Tick, Threads, git
      <4>2. age["main"] < Limit(cmd["main"]) /\ UNCHANGED <<phase, cmd>>
        BY <2>4, <3>1 DEF Tick, Threads
      <4>3. /\ Before[cmd["main"]] \in Nat /\ Limit(cmd["main"]) \in Nat /\ Longest \in Nat
            /\ Before[cmd["main"]] + Limit(cmd["main"]) <= Longest
            /\ age["main"] \in Nat
        BY <3>1, <4>1, PushCycle DEF Threads
      <4> QED BY <2>0, <3>1, <4>1, <4>2, <4>3
    <3>2. CASE cmd["main"] = "none"
      <4>1. phase = "serving" \/ (phase = "joining" /\ spent < JoinLimit)
        BY <2>4, <3>2 DEF Tick, Waits, Threads
      <4>2. age'["main"] = age["main"] /\ UNCHANGED <<phase, cmd>>
        BY <2>4, <3>2 DEF Tick, Threads
      <4>3. spent' = IF phase = "serving" THEN spent ELSE spent + 1
        BY <2>4 DEF Tick
      <4> QED BY <2>0, <3>2, <4>1, <4>2, <4>3, PushCycle
    <3> QED BY <3>1, <3>2
  <2>5. ASSUME NEW t \in Threads, Git(t) PROVE OnTime'
    <3>1. UNCHANGED <<phase, spent>>
      BY <2>5 DEF Git, CommandKilled, CommandEnds, clocks
    <3>2. PICK c : cmd[t] # "none" /\ Run(t, c) /\ (c = "none" \/ c \in Follow[cmd[t]])
      BY <2>5 DEF Git, CommandKilled, CommandEnds, Ended
    <3>3. CASE t = "worker"
      BY <3>1, <3>2, <3>3 DEF Run
    <3>4. CASE t = "main" /\ c = "none"
      BY <3>1, <3>2, <3>4 DEF Run
    <3>5. CASE t = "main" /\ c # "none"
      <4>1. phase = "flushing" /\ cmd["main"] \in Flushes
        BY <3>2, <3>5
      <4>2. c \in Flushes /\ Before[cmd["main"]] + Limit(cmd["main"]) <= Before[c]
        BY <3>2, <3>5, <4>1, PushCycle
      <4>3. cmd'["main"] = c /\ age'["main"] = 0
        BY <3>2, <3>5 DEF Run, Threads
      <4>4. /\ {Before[cmd["main"]], Limit(cmd["main"]), Before[c], Limit(c)} \subseteq Nat
            /\ age["main"] \in Nat
        BY <4>1, <4>2, PushCycle DEF Threads
      <4>5. spent <= JoinLimit + Before[c]
        BY <2>0, <3>2, <3>5, <4>1, <4>2, <4>4
      <4> QED BY <2>0, <3>1, <4>1, <4>2, <4>3, <4>4, <4>5
    <3> QED BY <2>5, <3>3, <3>4, <3>5 DEF Threads
  <2> QED BY <2>1, <2>2, <2>3, <2>4, <2>5 DEF Next
<1>3. OnTime => ShutdownBounded
  BY TimesAssumption DEF OnTime, ShutdownBounded, JoinLimit, Longest, First
<1> QED BY <1>1, <1>2, <1>3, TurnsInit, TurnsNext, PTL DEF Spec

-----------------------------------------------------------------------------
(* Types and counts.                                                        *)

\* A command out of its time is killed before the next tick, and the worker runs
\* none while it waits in get().
Timed ==
  /\ {enabled, timerStop, stop, unpushed, expired} \subseteq BOOLEAN
  /\ timer \in {"off", "wait", "put", "ended"}
  /\ worker \in {"off", "check", "get", "handle", "ended"}
  /\ worker = "get" => cmd["worker"] = "none"
  /\ \A t \in Threads : age[t] <= Timeout + PingLimit
  /\ waited \in 0..Debounce

LEMMA TimedInit == Init => Timed
<1> SUFFICES ASSUME Init PROVE Timed
  OBVIOUS
<1>1. {enabled, timerStop, stop, unpushed, expired} \subseteq BOOLEAN
  BY DEF Init
<1>2. timer = "off" /\ worker = "off" /\ waited = 0 /\ \A t \in Threads : age[t] = 0
  BY DEF Init
<1>3. waited \in 0..Debounce /\ \A t \in Threads : age[t] <= Timeout + PingLimit
  BY <1>2, TimesAssumption
<1> QED BY <1>1, <1>2, <1>3 DEF Timed

LEMMA TimedNext == Turns /\ Timed /\ [Next]_vars => Timed'
<1> SUFFICES ASSUME Turns, Timed, [Next]_vars PROVE Timed'
  OBVIOUS
<1> USE DEF Timed
<1>1. CASE Worker
  <2>1. UNCHANGED <<enabled, timerStop, stop, unpushed, expired, timer>>
    BY <1>1 DEF Worker, WorkerLoops, WorkerEnds, WorkerTakes, WorkerTimesOut, WorkerHandled,
                WorkerStep, flags, history
  <2>2. /\ worker' \in {"check", "get", "handle", "ended"}
        /\ worker' = "get" => cmd'["worker"] = "none"
        /\ waited' \in {waited, 0}
    BY <1>1 DEF Worker, WorkerLoops, WorkerEnds, WorkerTakes, WorkerTimesOut, WorkerHandled,
                WorkerStep, git
  <2>3. \A t \in Threads : age'[t] \in {age[t], 0}
    BY <1>1 DEF Turns, Worker, WorkerLoops, WorkerEnds, WorkerTakes, WorkerTimesOut, WorkerHandled,
                WorkerStep, git, Run
  <2>4. \A t \in Threads : age'[t] <= Timeout + PingLimit
    BY <2>3, TimesAssumption DEF Turns
  <2>5. waited' \in 0..Debounce
    BY <2>2, TimesAssumption
  <2> QED BY <2>1, <2>2, <2>4, <2>5
<1>2. CASE Main
  <2>1. /\ enabled' = enabled /\ unpushed' = unpushed
        /\ timerStop' \in {timerStop, TRUE} /\ stop' \in {stop, TRUE}
        /\ expired' \in {expired, TRUE}
    BY <1>2 DEF Main, Validate, StartSweep, StartThreads, Shutdown, Joined, JoinExpires, Flush,
                Exit, MainStep, flags, history
  <2>2. timer' \in {timer, "wait"} /\ worker' \in {worker, "check"} /\ waited' = waited
    BY <1>2 DEF Main, Validate, StartSweep, StartThreads, Shutdown, Joined, JoinExpires, Flush,
                Exit, MainStep
  <2>3. cmd'["worker"] = cmd["worker"] /\ \A t \in Threads : age'[t] \in {age[t], 0}
    <3>1. CASE Flush
      <4>1. PICK c : Run("main", c)
        BY <3>1 DEF Flush
      <4> QED BY <4>1 DEF Run, Turns, Threads
    <3>2. CASE Validate \/ StartSweep \/ StartThreads \/ Shutdown \/ Exit
      BY <3>2 DEF Validate, StartSweep, StartThreads, Shutdown, Exit, git
    <3> QED BY <1>2, <3>1, <3>2 DEF Main, Joined, JoinExpires
  <2>4. \A t \in Threads : age'[t] <= Timeout + PingLimit
    BY <2>3, TimesAssumption DEF Turns
  <2> QED BY <2>1, <2>2, <2>3, <2>4
<1>3. CASE Timer \/ ListenerPuts \/ Gone \/ UNCHANGED vars
  BY <1>3 DEF Timer, TimerWakes, TimerPuts, TimerEnds, ListenerPuts, Gone, vars, flags, git,
              history, clocks
<1>4. CASE Tick
  <2>1. ASSUME NEW t \in Threads PROVE age'[t] <= Timeout + PingLimit
    <3>1. age'[t] = IF cmd[t] # "none" THEN age[t] + 1 ELSE age[t]
      BY <1>4 DEF Tick
    <3>2. cmd[t] # "none" => age[t] < Limit(cmd[t])
      BY <1>4 DEF Tick
    <3>3. Limit(cmd[t]) \in Nat /\ Limit(cmd[t]) <= Timeout + PingLimit
      BY TimesAssumption DEF Limit
    <3> QED BY <3>1, <3>2, <3>3, TimesAssumption DEF Turns
  <2>2. waited' \in 0..Debounce
    <3>1. worker = "get" => waited < Debounce
      BY <1>4 DEF Tick, Waits, Threads
    <3>2. waited' = IF worker = "get" THEN waited + 1 ELSE waited
      BY <1>4 DEF Tick
    <3> QED BY <3>1, <3>2, TimesAssumption
  <2> QED BY <1>4, <2>1, <2>2 DEF Tick, flags, history
<1>5. ASSUME NEW t \in Threads, Git(t) PROVE Timed'
  <2>1. UNCHANGED <<enabled, timerStop, stop, expired, timer, worker, waited>>
    BY <1>5 DEF Git, CommandKilled, CommandEnds, flags, clocks
  <2>2. unpushed' \in {unpushed, TRUE, FALSE}
    BY <1>5 DEF Git, CommandKilled, CommandEnds, history
  <2>3. PICK c : cmd[t] # "none" /\ Run(t, c)
    BY <1>5 DEF Git, CommandKilled, CommandEnds, Ended
  <2>4. \A u \in Threads : age'[u] \in {age[u], 0}
    BY <2>3 DEF Run, Turns
  <2>5. \A u \in Threads : age'[u] <= Timeout + PingLimit
    BY <2>4, TimesAssumption DEF Turns
  <2>6. worker = "get" => cmd'["worker"] = "none"
    BY <2>3 DEF Run, Turns, Threads
  <2> QED BY <2>1, <2>2, <2>5, <2>6
<1> QED BY <1>1, <1>2, <1>3, <1>4, <1>5 DEF Next

\* An event is on the queue, in the worker's hands on its way to a commit, or
\* spent; main commits nothing.  A push under way delivers no more than there is,
\* and the final flush all of it, for nobody commits beside it.
CommitPath == {"stage", "diff", "recheck", "commit"}

Counted ==
  /\ puts \in Nat /\ queue \in Nat /\ commits \in Nat /\ pushed \in Nat
  /\ carries \in [Threads -> Nat]
  /\ puts <= MaxEvents
  /\ commits + queue <= puts
  /\ cmd["worker"] \in CommitPath => commits + queue < puts
  /\ pushed <= commits
  /\ \A t \in Threads : carries[t] <= commits
  /\ cmd["main"] \notin CommitPath
  /\ cmd["main"] = "push" /\ ~expired => carries["main"] = commits

LEMMA Paths ==
  /\ PushStart \notin CommitPath /\ PushStart \notin {"push", "commit", "none"}
  /\ Commands = CommitPath \cup PushPath \cup {"ping"}
  /\ \A c \in CommitPath : \A next \in Follow[c] :
       /\ next \in CommitPath \cup {"none"} /\ next # "push"
       /\ c = "commit" => next = "none"
  /\ \A c \in PushPath \cup {"ping"} : \A next \in Follow[c] : next \notin CommitPath
BY DEF PushStart, CommitPath, Commands, PushPath, Follow

LEMMA CountedInit == Init => Counted
BY TimesAssumption DEF Init, Counted, CommitPath, Threads

LEMMA CountedNext == Turns /\ Counted /\ [Next]_vars => Counted'
<1> SUFFICES ASSUME Turns, Counted, [Next]_vars PROVE Counted'
  OBVIOUS
<1> USE DEF Counted
<1>0. Threads = {"main", "worker"} /\ "none" \notin CommitPath
  BY DEF Threads, CommitPath
<1>1. CASE Worker
  <2>1. UNCHANGED <<puts, commits, pushed, expired>> /\ cmd["worker"] = "none"
    BY <1>1 DEF Worker, WorkerLoops, WorkerEnds, WorkerTakes, WorkerTimesOut, WorkerHandled,
                WorkerStep, history, events
  <2>2. CASE WorkerTakes
    <3>1. PICK c \in {"stage", "none"} : queue > 0 /\ queue' = queue - 1 /\ Run("worker", c)
      BY <2>2 DEF WorkerTakes
    <3>2. UNCHANGED <<cmd["main"], carries>>
      BY <3>1 DEF Run, Threads, Turns
    <3>3. queue' \in Nat /\ commits + queue' < puts
      BY <3>1
    <3>4. queue' <= queue /\ commits + queue' <= puts
      BY <3>1, <3>3
    <3>5. /\ puts' \in Nat /\ queue' \in Nat /\ commits' \in Nat /\ pushed' \in Nat
          /\ puts' <= MaxEvents /\ pushed' <= commits'
      BY <2>1, <3>3
    <3>6. commits' + queue' <= puts' /\ commits' + queue' < puts'
      BY <2>1, <3>3, <3>4
    <3>7. carries' \in [Threads -> Nat] /\ \A t \in Threads : carries'[t] <= commits'
      BY <2>1, <3>2
    <3>8. /\ cmd'["main"] \notin CommitPath
          /\ cmd'["main"] = "push" /\ ~expired' => carries'["main"] = commits'
      BY <2>1, <3>2
    <3> QED BY <3>5, <3>6, <3>7, <3>8
  <2>3. CASE WorkerLoops \/ WorkerEnds
    <3>1. UNCHANGED <<queue, cmd, carries>>
      BY <2>3 DEF WorkerLoops, WorkerEnds, git, events
    <3> QED BY <2>1, <3>1
  <2>4. CASE WorkerTimesOut \/ WorkerHandled
    <3>1. PICK c \in {PushStart, "none"} : queue' = queue /\ Run("worker", c)
      BY <2>4 DEF WorkerTimesOut, WorkerHandled, events
    <3>2. UNCHANGED <<cmd["main"], carries>> /\ cmd'["worker"] \notin CommitPath
      BY <1>0, <3>1, Paths DEF Run, Turns, Threads
    <3> QED BY <2>1, <3>1, <3>2
  <2> QED BY <1>1, <2>2, <2>3, <2>4 DEF Worker
<1>2. CASE Main
  <2>1. UNCHANGED <<puts, queue, commits, pushed>>
    BY <1>2 DEF Main, Validate, StartSweep, StartThreads, Shutdown, Joined, JoinExpires, Flush,
                Exit, MainStep, history, events
  <2>2. CASE Flush
    <3>1. PICK c \in {PushStart, "none"} : Run("main", c)
      BY <2>2 DEF Flush
    <3>2. /\ cmd'["worker"] = cmd["worker"] /\ carries' = carries
          /\ cmd'["main"] \in {PushStart, "none"}
      BY <3>1, Paths DEF Run, Turns, Threads
    <3>3. cmd'["main"] \notin CommitPath /\ cmd'["main"] # "push"
      BY <3>2, Paths DEF CommitPath
    <3> QED BY <2>1, <3>2, <3>3
  <2>3. CASE Validate \/ StartSweep \/ StartThreads \/ Shutdown \/ Exit
    <3>1. UNCHANGED <<cmd, carries, expired>>
      BY <2>3 DEF Validate, StartSweep, StartThreads, Shutdown, Exit, git
    <3> QED BY <2>1, <3>1
  <2> QED BY <1>2, <2>2, <2>3 DEF Main, Joined, JoinExpires
<1>3. CASE TimerPuts \/ ListenerPuts
  <2>1. puts < MaxEvents /\ queue' = queue + 1 /\ puts' = puts + 1
    BY <1>3 DEF TimerPuts, ListenerPuts, Put
  <2>2. UNCHANGED <<cmd, carries, commits, pushed, expired>>
    BY <1>3 DEF TimerPuts, ListenerPuts, git, history
  <2> QED BY <2>1, <2>2, TimesAssumption
<1>4. CASE TimerWakes \/ TimerEnds \/ Tick \/ Gone \/ UNCHANGED vars
  <2>1. UNCHANGED <<puts, queue, commits, pushed, cmd, carries, expired>>
    BY <1>4 DEF TimerWakes, TimerEnds, Tick, Gone, vars, git, history, events
  <2> QED BY <2>1
<1>5. ASSUME NEW t \in Threads, Git(t) PROVE Counted'
  <2>1. UNCHANGED <<puts, queue, expired, phase>>
    BY <1>5 DEF Git, CommandKilled, CommandEnds, events
  <2>2. PICK c : cmd[t] # "none" /\ Run(t, c) /\ (c = "none" \/ c \in Follow[cmd[t]])
    BY <1>5 DEF Git, CommandKilled, CommandEnds, Ended
  <2>3. commits' \in Nat /\ (commits' = commits \/ (commits' = commits + 1 /\ cmd[t] = "commit"))
    BY <1>5 DEF Git, CommandKilled, CommandEnds, history
  <2>4. pushed' = pushed \/ (cmd[t] = "push" /\ pushed' = carries[t])
    BY <1>5 DEF Git, CommandKilled, CommandEnds, history
  <2>5. pushed' \in Nat /\ pushed' <= commits'
    BY <2>3, <2>4
  <2>6. cmd[t] \in CommitPath \cup PushPath \cup {"ping"}
    BY <2>2, Paths DEF Turns
  <2>7. /\ cmd'[t] = c /\ \A u \in Threads \ {t} : cmd'[u] = cmd[u] /\ carries'[u] = carries[u]
        /\ carries'[t] = IF c = "push" THEN commits ELSE carries[t]
        /\ carries' \in [Threads -> Nat]
    BY <2>2 DEF Run, Turns
  <2>8. \A u \in Threads : carries'[u] <= commits'
    BY <2>3, <2>7
  <2>9. cmd[t] = "commit" => c = "none"
    BY <2>2, Paths DEF CommitPath
  <2>10. c \in CommitPath => cmd[t] \in CommitPath
    BY <1>0, <2>2, <2>6, Paths
  <2>11. CASE t = "worker"
    <3>1. commits' + queue <= puts
      <4>1. CASE commits' = commits
        BY <4>1
      <4>2. CASE commits' = commits + 1 /\ cmd["worker"] = "commit"
        <5>1. commits + queue < puts
          BY <4>2 DEF CommitPath
        <5> QED BY <4>2, <5>1
      <4> QED BY <2>3, <2>11, <4>1, <4>2
    <3>2. c \in CommitPath => commits' + queue < puts
      <4>1. c \in CommitPath => cmd["worker"] # "commit" /\ commits + queue < puts
        BY <1>0, <2>9, <2>10, <2>11
      <4> QED BY <2>3, <2>11, <4>1
    <3>3. cmd'["worker"] = c /\ cmd'["main"] = cmd["main"] /\ carries'["main"] = carries["main"]
      BY <1>0, <2>7, <2>11
    <3>4. cmd["main"] = "push" /\ ~expired => commits' = commits
      <4>1. cmd["main"] = "push" => phase = "flushing"
        BY DEF Turns
      <4>2. cmd["main"] = "push" /\ ~expired => cmd["worker"] = "none"
        BY <4>1 DEF Turns
      <4> QED BY <2>2, <2>11, <4>2
    <3> QED BY <2>1, <2>3, <2>5, <2>7, <2>8, <3>1, <3>2, <3>3, <3>4
  <2>12. CASE t = "main"
    <3>1. cmd["main"] # "commit" /\ c \notin CommitPath
      BY <2>10, <2>12 DEF CommitPath
    <3>2. commits' = commits /\ cmd'["worker"] = cmd["worker"]
      BY <1>0, <2>3, <2>7, <2>12, <3>1
    <3>3. cmd'["main"] = c /\ (c = "push" => carries'["main"] = commits)
      BY <2>7, <2>12
    <3> QED BY <2>1, <2>3, <2>5, <2>7, <2>8, <3>1, <3>2, <3>3
  <2> QED BY <1>0, <2>11, <2>12
<1> QED BY <1>1, <1>2, <1>3, <1>4, <1>5 DEF Next, Timer

\* Every variable keeps its type; no more is committed than was put on the queue,
\* and no more is pushed than committed.
THEOREM LifecycleTypes == Spec => []TypeOK
<1>1. Turns /\ Timed /\ Counted => TypeOK
  <2> SUFFICES ASSUME Turns, Timed, Counted PROVE TypeOK
    OBVIOUS
  <2>1. age \in [Threads -> 0..(Timeout + PingLimit)]
    BY TimesAssumption DEF Turns, Timed
  <2>2. carries \in [Threads -> 0..commits]
    BY DEF Counted
  <2>3. pushed <= commits /\ commits <= puts /\ queue <= puts /\ puts <= MaxEvents
    BY DEF Counted
  <2> QED BY <2>1, <2>2, <2>3 DEF Turns, Timed, TypeOK
<1> QED BY <1>1, TurnsInit, TurnsNext, TimedInit, TimedNext, CountedInit, CountedNext, PTL DEF Spec

\* When the final flush clears _unpushed the remote has every commit, unless
\* join() has given up on the worker.
THEOREM FlushDelivers == Spec => FlushLosesNothing
<1> DEFINE Delivers == cmd["main"] = "push" /\ unpushed /\ ~unpushed' /\ ~expired => pushed' = commits'
<1>1. Turns /\ Counted /\ [Next]_vars => [Delivers]_vars
  <2> SUFFICES ASSUME Turns, Counted, Next,
                      cmd["main"] = "push", unpushed, ~unpushed', ~expired
               PROVE  pushed' = commits'
    BY DEF Turns
  <2>1. carries["main"] = commits /\ pushed <= commits /\ commits \in Nat /\ pushed \in Nat
    BY DEF Counted
  <2>2. cmd["worker"] = "none"
    BY DEF Turns
  <2>3. PICK t \in Threads : Git(t)
    <3>1. unpushed' = unpushed \/ \E t \in Threads : Git(t)
      BY DEF Next, Worker, WorkerLoops, WorkerEnds, WorkerTakes, WorkerTimesOut, WorkerHandled,
             WorkerStep, Main, Validate, StartSweep, StartThreads, Shutdown, Joined, JoinExpires,
             Flush, Exit, MainStep, Timer, TimerWakes, TimerPuts, TimerEnds, ListenerPuts, Tick,
             Gone, vars, history
    <3> QED BY <3>1
  <2>4. t = "main" /\ \E next : CommandEnds(t, next)
    BY <2>2, <2>3 DEF Git, CommandKilled, CommandEnds, Threads
  <2>5. pushed' = IF carries["main"] > pushed THEN carries["main"] ELSE pushed
    BY <2>4 DEF CommandEnds, history
  <2>6. commits' = commits
    BY <2>4 DEF CommandEnds, history
  <2> QED BY <2>1, <2>5, <2>6
<1> QED BY <1>1, TurnsInit, TurnsNext, CountedInit, CountedNext, PTL DEF Spec, FlushLosesNothing
=============================================================================

------------------------------ MODULE Lifecycle ------------------------------
(***************************************************************************)
(* The life of the server process: main.py validates and hosts the         *)
(* extension, extension.py starts and stops the threads, worker.py runs     *)
(* and joins the git worker. Time passes in ticks while a git command runs, *)
(* while the worker waits in get() and while stop() waits in join();        *)
(* Python code takes none. What a command does to the repository is the     *)
(* subject of GitWorker: here commits are counted.                          *)
(***************************************************************************)
EXTENDS Naturals, FiniteSets

CONSTANTS
  Timeout,    \* git_ops.DEFAULT_TIMEOUT, in ticks
  Grace,      \* what stop() adds to it for the join
  Debounce,   \* VAULT_GIT_PUSH_DEBOUNCE
  PingLimit,  \* the heartbeat's timeout
  Pinned,     \* VAULT_GIT_BRANCH is set: no command resolves the branch
  MaxEvents   \* bound: events put on the queue over the process's life

ASSUME TimesAssumption ==
  /\ {Timeout, Grace, Debounce, PingLimit} \subseteq Nat \ {0}
  /\ Pinned \in BOOLEAN /\ MaxEvents \in Nat

VARIABLES
  enabled,    \* VAULT_GIT_ENABLED, read once
  phase,      \* the main thread
  timer,      \* the sweep timer's thread
  timerStop,  \* _timer_stop
  stop,       \* GitWorker._stop
  worker,     \* the git worker's thread
  waited,     \* how long it has waited in get()
  cmd,        \* the command each thread is running
  age,        \* for how long
  carries,    \* the commits the push it runs delivers
  queue,      \* the events waiting
  puts,       \* the events ever put
  taken,      \* the events taken once _stop was set
  unpushed,   \* _unpushed
  commits,    \* the commits made
  pushed,     \* those the remote has
  spent,      \* how long shutdown has taken
  expired     \* join() gave up on the worker

git     == <<cmd, age, carries>>
flags   == <<timerStop, stop>>
events  == <<queue, puts, taken>>
history == <<unpushed, commits, pushed>>
clocks  == <<waited, spent>>
vars == <<enabled, phase, timer, flags, worker, git, events, history, clocks, expired>>

Threads  == {"main", "worker"}
Phases   == {"validating", "listening", "sweeping", "serving", "joining", "flushing", "exited"}
PushPath == {"resolve", "fetch", "rebase", "abort", "push"}
Commands == {"stage", "diff", "recheck", "commit", "ping"} \cup PushPath

\* The command that may follow: in a commit cycle (_stage_and_commit, commit)
\* and in a push cycle (_push_once); "none" ends the cycle.
Follow == [stage   |-> {"diff", "none"},      diff   |-> {"recheck", "none"},
           recheck |-> {"commit", "none"},    commit |-> {"none"},
           resolve |-> {"fetch", "none"},     fetch  |-> {"rebase", "push"},
           rebase  |-> {"abort", "push"},     abort  |-> {"push"},
           push    |-> {"ping", "none"},      ping   |-> {"none"}]

PushStart == IF Pinned THEN "fetch" ELSE "resolve"
Limit(c)  == IF c = "ping" THEN PingLimit ELSE Timeout
JoinLimit_Forever == 20 * Timeout   \* mutant: join() without a timeout
JoinLimit == Timeout + Grace

Init ==
  /\ enabled \in BOOLEAN
  /\ phase = "validating" /\ timer = "off" /\ worker = "off"
  /\ timerStop = FALSE /\ stop = FALSE
  /\ cmd = [t \in Threads |-> "none"]
  /\ age = [t \in Threads |-> 0] /\ carries = [t \in Threads |-> 0]
  /\ queue = 0 /\ puts = 0 /\ taken = 0
  /\ unpushed = FALSE /\ commits = 0 /\ pushed = 0
  /\ waited = 0 /\ spent = 0 /\ expired = FALSE

-----------------------------------------------------------------------------
(* Git commands, run by either thread.                                      *)

Run(t, c) ==
  /\ cmd' = [cmd EXCEPT ![t] = c]
  /\ age' = [age EXCEPT ![t] = 0]
  /\ carries' = [carries EXCEPT ![t] = IF c = "push" THEN commits ELSE @]

Ended(t) == Run(t, "none")

\* A command of thread t ends within its time. A commit may have failed; so may
\* a push, and only a push that went through clears _unpushed and pings. When
\* commit() finds nothing staged it returns ok: _unpushed is set all the same.
CommandEnds(t, next) ==
  /\ cmd[t] # "none" /\ next \in Follow[cmd[t]]
  /\ Run(t, next)
  /\ \/ /\ cmd[t] = "commit"
        /\ commits' = commits + 1 /\ unpushed' = TRUE /\ UNCHANGED pushed
     \/ /\ cmd[t] = "recheck" /\ next = "none"
        /\ unpushed' = TRUE /\ UNCHANGED <<commits, pushed>>
     \/ /\ cmd[t] = "push"
        /\ pushed' = IF carries[t] > pushed THEN carries[t] ELSE pushed
        /\ unpushed' = FALSE /\ UNCHANGED commits
     \/ /\ cmd[t] # "recheck" \/ next # "none"
        /\ next # "ping" /\ UNCHANGED history
  /\ UNCHANGED <<enabled, phase, timer, flags, worker, events, clocks, expired>>

CommandKilled_NoTimeout(t) == t = "none" /\ UNCHANGED vars   \* mutant: no timeout=

\* subprocess.run() kills the command at the timeout and raises, which ends
\* the cycle; a commit may have landed by then, or a push.
CommandKilled(t) ==
  /\ cmd[t] # "none" /\ age[t] = Limit(cmd[t])
  /\ Ended(t)
  /\ commits' \in {commits} \cup {commits + 1 : c \in {"commit"} \cap {cmd[t]}}
  /\ pushed' \in {pushed} \cup {n \in {carries[t]} : cmd[t] = "push" /\ n > pushed}
  /\ UNCHANGED <<enabled, phase, timer, flags, worker, events, unpushed, clocks, expired>>

-----------------------------------------------------------------------------
(* Producers: the listeners and the sweep timer.                            *)

Put ==
  /\ puts < MaxEvents
  /\ queue' = queue + 1 /\ puts' = puts + 1
  /\ UNCHANGED taken

\* The MCP write listener or the .md watcher, both attached until the process
\* is gone (atexit stops the index after the extension).
ListenerPuts ==
  /\ enabled /\ phase \notin {"validating", "exited"}
  /\ Put
  /\ UNCHANGED <<enabled, phase, timer, flags, worker, git, history, clocks, expired>>

\* The interval is over before the flag is set: wait() returns False.
TimerWakes ==
  /\ timer = "wait" /\ ~timerStop /\ phase # "exited"
  /\ timer' = "put"
  /\ UNCHANGED <<enabled, phase, flags, worker, git, events, history, clocks, expired>>

TimerPuts ==
  /\ timer = "put" /\ phase # "exited"
  /\ Put
  /\ timer' = "wait"
  /\ UNCHANGED <<enabled, phase, flags, worker, git, history, clocks, expired>>

TimerEnds ==
  /\ timer = "wait" /\ timerStop /\ phase # "exited"
  /\ timer' = "ended"
  /\ UNCHANGED <<enabled, phase, flags, worker, git, events, history, clocks, expired>>

-----------------------------------------------------------------------------
(* The worker's loop (GitWorker.run).                                       *)

WorkerStep(from) ==
  /\ worker = from /\ cmd["worker"] = "none" /\ phase # "exited"
  /\ UNCHANGED <<enabled, phase, timer, flags, history, spent, expired>>

\* Mutant: the loop never looks at the flag.
WorkerLoops_Heedless ==
  /\ WorkerStep("check")
  /\ worker' = "get" /\ waited' = 0
  /\ UNCHANGED <<git, events>>

WorkerLoops ==
  /\ WorkerStep("check") /\ ~stop
  /\ worker' = "get" /\ waited' = 0
  /\ UNCHANGED <<git, events>>

WorkerEnds ==
  /\ WorkerStep("check") /\ stop
  /\ worker' = "ended"
  /\ UNCHANGED <<git, events, waited>>

\* Mutant: the event stays on the queue.
WorkerTakes_Peeks ==
  /\ WorkerStep("get") /\ queue > 0
  /\ worker' = "handle" /\ Run("worker", "stage")
  /\ UNCHANGED <<events, waited>>

\* get() returns an event; one without paths runs no command.
WorkerTakes == \E c \in {"stage", "none"} :
  /\ WorkerStep("get") /\ queue > 0
  /\ queue' = queue - 1
  /\ taken' = IF stop THEN taken + 1 ELSE taken
  /\ worker' = "handle" /\ Run("worker", c)
  /\ UNCHANGED <<puts, waited>>

\* queue.Empty: the push window opens.
WorkerTimesOut ==
  /\ WorkerStep("get") /\ queue = 0 /\ waited = Debounce
  /\ worker' = "check"
  /\ Run("worker", IF unpushed THEN PushStart ELSE "none")
  /\ UNCHANGED <<events, waited>>

\* The event is handled; the push may be overdue.
WorkerHandled == \E overdue \in BOOLEAN :
  /\ WorkerStep("handle")
  /\ worker' = "check"
  /\ Run("worker", IF overdue /\ unpushed THEN PushStart ELSE "none")
  /\ UNCHANGED <<events, waited>>

-----------------------------------------------------------------------------
(* The main thread.                                                         *)

MainStep(from, to) ==
  /\ phase = from /\ phase' = to
  /\ UNCHANGED <<enabled, events, history, waited>>

\* main() and before_indexes_start(): refuse to boot, or attach the listeners.
\* The upstream server then builds the index.
Validate == \E to \in {"listening", "exited"} :
  MainStep("validating", to) /\ UNCHANGED <<timer, flags, worker, git, spent, expired>>

\* Mutant: the worker is started before the sweep.
StartSweep_WorkerFirst ==
  /\ enabled /\ MainStep("listening", "sweeping")
  /\ worker' = "check"
  /\ UNCHANGED <<timer, flags, git, spent, expired>>

\* after_indexes_start(): sweep the locks, then start the threads.
StartSweep ==
  /\ enabled /\ MainStep("listening", "sweeping")
  /\ UNCHANGED <<timer, flags, worker, git, spent, expired>>

StartThreads ==
  /\ MainStep("sweeping", "serving")
  /\ worker' = "check" /\ timer' = "wait"
  /\ UNCHANGED <<flags, git, spent, expired>>

\* shutdown(): stop the timer, then the worker, if there is one.
Shutdown ==
  /\ \/ MainStep("serving", "joining") /\ stop' = TRUE
     \/ MainStep("listening", "exited") /\ UNCHANGED stop
  /\ timerStop' = TRUE
  /\ UNCHANGED <<timer, worker, git, spent, expired>>

\* join() returns, and the final flush starts if anything is unpushed.
Flush ==
  /\ MainStep("joining", "flushing")
  /\ Run("main", IF unpushed THEN PushStart ELSE "none")
  /\ UNCHANGED <<timer, flags, worker, spent>>

Joined_NotWaited == Flush /\ UNCHANGED expired   \* mutant: no join()

Joined      == worker = "ended" /\ Flush /\ UNCHANGED expired
JoinExpires == worker # "ended" /\ spent = JoinLimit /\ Flush /\ expired' = TRUE

\* The daemon threads die with the process.
Exit ==
  /\ cmd["main"] = "none" /\ MainStep("flushing", "exited")
  /\ UNCHANGED <<timer, flags, worker, git, spent, expired>>

-----------------------------------------------------------------------------
\* A thread lets time pass while its command runs within its limit, or while
\* the worker waits within the debounce window and main within the join.
Waits == [worker |-> worker \in {"off", "ended"}
                       \/ (worker = "get" /\ queue = 0 /\ waited < Debounce),
          main   |-> phase = "serving"
                       \/ (phase = "joining" /\ spent < JoinLimit /\ worker # "ended")]

Tick ==
  /\ \A t \in Threads :
       IF cmd[t] # "none" THEN age[t] < Limit(cmd[t]) ELSE Waits[t]
  /\ age' = [t \in Threads |-> IF cmd[t] # "none" THEN age[t] + 1 ELSE age[t]]
  /\ waited' = IF worker = "get" THEN waited + 1 ELSE waited
  /\ spent' = IF phase = "serving" THEN spent ELSE spent + 1
  /\ UNCHANGED <<enabled, phase, timer, flags, worker, cmd, carries, events, history, expired>>

Running == phase # "exited"
Git(t)  == Running /\ (CommandKilled(t) \/ \E next \in Commands \cup {"none"} : CommandEnds(t, next))
Worker  == WorkerLoops \/ WorkerEnds \/ WorkerTakes \/ WorkerTimesOut \/ WorkerHandled
Main    == Validate \/ StartSweep \/ StartThreads \/ Shutdown \/ Joined \/ JoinExpires \/ Exit
Timer   == TimerWakes \/ TimerPuts \/ TimerEnds
Gone    == phase = "exited" /\ UNCHANGED vars

Next == Worker \/ Main \/ Timer \/ ListenerPuts \/ Tick \/ Gone \/ \E t \in Threads : Git(t)

Spec == Init /\ [][Next]_vars

\* Threads are scheduled, the clock moves and a command that is out of time is
\* killed; nothing says that a command ends by itself, or when shutdown comes.
LiveSpec == Spec /\ WF_vars(Worker) /\ WF_vars(Tick)
                 /\ WF_vars(Joined \/ JoinExpires \/ Exit)
                 /\ \A t \in Threads : WF_vars(Running /\ CommandKilled(t))
=============================================================================

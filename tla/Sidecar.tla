------------------------------ MODULE Sidecar ------------------------------
(***************************************************************************)
(* The obsidian-sync container: PID 1 (entrypoint.sh, started without a     *)
(* command), the operator's bootstrap beside it (bootstrap.sh), Docker's    *)
(* restart policy and the health check (healthcheck.sh).  They meet in the  *)
(* configuration directory on a volume.  The `ob` client is external.       *)
(***************************************************************************)
EXTENDS Naturals

CONSTANTS
  Accounts,        \* the Obsidian accounts an operator may bootstrap
  None,
  StaleAfter,      \* SYNC_STALE_AFTER, in beats of `ob`
  Retries,         \* failed probes that make Docker call it unhealthy
  MaxBootstraps,   \* bound: how often the operator runs bootstrap
  MaxFailures      \* bound: how often `ob` dies or wedges

ASSUME SidecarAssumption ==
  /\ None \notin Accounts
  /\ {StaleAfter, Retries} \subseteq Nat \ {0}
  /\ {MaxBootstraps, MaxFailures} \subseteq Nat

VARIABLES
  login, setup,    \* whose credentials and whose sync set-up the directory holds
  age,             \* beats since sync.log was last written; None: no log
  main,            \* PID 1: not running, polling, or `ob sync` in its place
  session,         \* the account `ob sync` found set up when it started
  wedged,          \* it is alive and makes no progress
  switched,        \* the set-up has been given to another account since
  boot, who,       \* where a bootstrap is, and for which account
  fails,           \* consecutive failed probes
  bootstraps, failures

config == <<login, setup, age>>
pid1   == <<main, session, wedged, switched>>
oper   == <<boot, who, bootstraps>>
vars   == <<config, pid1, oper, fails, failures>>

Init ==
  /\ login = None /\ setup = None /\ age = None
  /\ main = "down" /\ session = None /\ wedged = FALSE /\ switched = FALSE
  /\ boot = "none" /\ who = None
  /\ fails = 0 /\ bootstraps = 0 /\ failures = 0

-----------------------------------------------------------------------------
(* entrypoint.sh                                                            *)

\* Mutant: asks for sync.log, which only `ob sync` writes.
is_bootstrapped_Log == age # None

\* Any file in the directory will do.
is_bootstrapped == login # None \/ setup # None \/ age # None

\* exec ob sync --continuous, for what is set up at that moment.
Exec == /\ main' = "sync" /\ wedged' = FALSE /\ switched' = FALSE
        /\ session' = IF login # None THEN setup ELSE None

\* restart: unless-stopped
Start ==
  /\ main = "down" /\ fails' = 0
  /\ IF is_bootstrapped THEN Exec ELSE main' = "polling" /\ UNCHANGED <<session, wedged, switched>>
  /\ UNCHANGED <<config, oper, failures>>

Poll ==
  /\ main = "polling" /\ is_bootstrapped /\ Exec
  /\ UNCHANGED <<config, oper, fails, failures>>

-----------------------------------------------------------------------------
(* ob sync                                                                  *)

\* The container goes down with its PID 1, and an exec'd bootstrap with it; one
\* that runs in a container of its own goes on.
Down ==
  /\ main' = "down" /\ session' = None /\ wedged' = FALSE /\ switched' = FALSE
  /\ boot' \in {boot, "none"}
  /\ UNCHANGED <<config, who, bootstraps, fails>>

\* There is nothing to sync without sync-setup.
ObGivesUp ==
  /\ main = "sync" /\ session = None /\ Down
  /\ UNCHANGED failures

ObFails ==
  /\ main = "sync" /\ failures < MaxFailures /\ failures' = failures + 1
  /\ Down \/ (wedged' = TRUE /\ UNCHANGED <<config, main, session, switched, oper, fails>>)

\* "Fully synced", every 30 seconds.
Beat ==
  /\ main = "sync" /\ session # None /\ ~wedged
  /\ age' = 0
  /\ UNCHANGED <<login, setup, pid1, oper, fails, failures>>

Tick ==
  /\ age # None /\ age < StaleAfter /\ age' = age + 1
  /\ UNCHANGED <<login, setup, pid1, oper, fails, failures>>

-----------------------------------------------------------------------------
(* healthcheck.sh                                                           *)

\* Mutant: the process is there, so all is well.
Fresh_Alive == main = "sync"

Fresh == age # None /\ age < StaleAfter

Probe ==
  /\ main # "down"
  /\ fails' = IF Fresh THEN 0 ELSE IF fails < Retries THEN fails + 1 ELSE fails
  /\ UNCHANGED <<config, pid1, oper, failures>>

Unhealthy == fails = Retries

-----------------------------------------------------------------------------
(* bootstrap.sh                                                             *)

\* With --reset and its confirmation, or without.
Bootstrap == \E account \in Accounts :
  /\ boot = "none" /\ bootstraps < MaxBootstraps /\ bootstraps' = bootstraps + 1
  /\ who' = account /\ boot' \in {"wipe", "login"}
  /\ UNCHANGED <<config, pid1, fails, failures>>

Wipe ==
  /\ boot = "wipe" /\ boot' = "login"
  /\ login' = None /\ setup' = None /\ age' = None
  /\ UNCHANGED <<pid1, who, bootstraps, fails, failures>>

Login ==
  /\ boot = "login" /\ boot' = "setup" /\ login' = who
  /\ UNCHANGED <<setup, age, pid1, who, bootstraps, fails, failures>>

Setup ==
  /\ boot = "setup" /\ boot' = "none" /\ setup' = who
  /\ switched' = (switched \/ session \notin {None, who})
  /\ UNCHANGED <<login, age, main, session, wedged, who, bootstraps, fails, failures>>

\* set -e, or the operator gives up.
BootstrapFails ==
  /\ boot # "none" /\ boot' = "none"
  /\ UNCHANGED <<config, pid1, who, bootstraps, fails, failures>>

Next ==
  \/ Start \/ Poll \/ ObGivesUp \/ ObFails \/ Beat \/ Tick \/ Probe
  \/ Bootstrap \/ Wipe \/ Login \/ Setup \/ BootstrapFails

\* Docker restarts and probes, the shell polls, time passes, and `ob sync` does not
\* stay up with nothing set up.  No operator need ever finish a bootstrap.
Fairness ==
  /\ WF_vars(Start) /\ WF_vars(Poll) /\ WF_vars(Probe) /\ WF_vars(Tick)
  /\ WF_vars(ObGivesUp)

Spec == Init /\ [][Next]_vars /\ Fairness

-----------------------------------------------------------------------------
\* Whenever the poll or a restart may have started `ob sync` too early, and however
\* the bootstrap went, with a login and a set-up in the directory `ob sync` runs in the
\* end, for the account that is set up, and if it makes no progress Docker says so
\* (entrypoint.sh: "sync starts automatically once you do").  Spared is an `ob` that
\* was running when the set-up went to another account: nothing restarts it.
EventuallySyncs ==
  <>[](login # None /\ setup # None =>
         /\ main = "sync" /\ session # None
         /\ session = setup \/ switched
         /\ wedged => Unhealthy)

\* A sidecar that is up and makes no progress is called unhealthy, whether `ob` is
\* wedged, was never set up or never started (healthcheck.sh).
Stalled == main # "down" /\ (main = "polling" \/ session = None \/ wedged)
StallIsNoticed == Stalled ~> (Unhealthy \/ ~Stalled)

-----------------------------------------------------------------------------
(* What TLC refutes (see the README).                                       *)

\* A start that is not bootstrapped "does NOT crash-loop" (entrypoint.sh).
NoCrashLoop == <>[](main # "down")

\* "Continuous sync auto-starts for the new account once the fresh bootstrap
\* completes -- no manual restart" (obsidian-sync/README.md).
SwitchTakesEffect == <>[](login # None /\ setup = login => session = setup)
=============================================================================

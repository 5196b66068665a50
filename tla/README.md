# Formal model of obsidian-git-sync-mcp

TLA+ specifications of the git-sync extension, TLC configurations that check
them on small instances, and TLAPS proofs that hold for every instance. Paths
below are relative to the repository root.

## The system

An MCP server edits an Obsidian vault; this extension backs the vault up with
git. Every change becomes a local commit at once (`mcp:` for changes made through
an MCP tool, `sync:` for anything else), and commits are pushed in batches, local
content winning over the remote's.

| Component | State | Operations | Talks to |
|---|---|---|---|
| Git worker, `worker.py` | `_stop`, `_unpushed`, `_last_push`, `_degraded_rc`; one thread | `run`, `stop`, event dispatch, commit cycle, push cycle | takes events; runs git; pings |
| Git operations, `git_ops.py` | the repository itself; cached git dir | add, diff, commit, fetch, rebase, abort, push, rev-parse; a timeout on each | subprocesses |
| Event queue, `events.py` | unbounded FIFO | `put`, `get(timeout)` | listeners and timer to worker |
| Extension, `extension.py`, `main.py` | enabled flag, `_timer_stop`, threads | validate, attach listeners, lock sweep, start, timer loop, shutdown | upstream server's hooks, `atexit` |
| Stamping, `stamping.py` | none (the note on disk) | read, gate on mtime, write `modified` | called by the worker before staging |
| Lock sweep, `locks.py` | none (`*.lock`, `/proc`) | find, look at processes, judge, unlink | called before the worker starts |
| Heartbeat, `heartbeat.py` | none | one HTTP GET | called after a push |
| Configuration, `config.py` | environment, read at import | parse, `validate_gitsync` | `main` and the extension, which both validate |
| Extension hosting, `extension_hosting.py` | none | resolve and construct the declared list | `main` |
| Credential helper, `credential_helper.py` | none | answer `get` with the token | git, when it asks for a password |
| Sidecar, `obsidian-sync/*.sh` | its config directory, a volume | start, poll, sync; bootstrap; health check | writes the same vault; Docker restarts and probes it |

What is hard here: the environment (MCP tools, synced devices, peers with their
own clones, humans running git) moves between any two git commands of the
worker; a command can fail, find a lock, lose the network or be killed half-way;
a rebase has intermediate states on disk; the process can die anywhere and keeps
`_unpushed` in memory only; stamping reads, then writes; shutdown races a worker
that is joined for a limited time; the configuration is validated against a vault
that others change, and the sidecar's poll races the operator's bootstrap. What
makes each component correct:

- worker: nothing committed is lost or forgotten, what is reported as delivered
  is delivered, provenance is right, half-merged states are never recorded,
  health says "cannot commit" exactly when that is so, everything gets committed
  and pushed in the end;
- git operations: the remote is never rewound, local content wins, uncommitted
  content survives a rebase;
- extension: one thread touches git, shutdown is bounded and ends, nothing that
  was pending is lost;
- lock sweep: orphans go, a live process keeps its locks, startup proceeds;
- stamping: an MCP-written note ends up dated, `created` is never changed, a
  client's own stamps are respected;
- configuration and hosting: what boots has a backup that works, what is refused
  would not have, and the server gets all declared extensions or does not start;
- sidecar: once set up it syncs, and a stall is noticed.

## Modules

| Module | What it models |
|---|---|
| `VaultGit` | The repository as data: trees of files of hunks, histories, the index, `git add`, what picking one commit with `-X theirs` makes, `rebase --abort`. Operators only. |
| `GitWorker` | The worker, queue, producers, stamper, repository, remote and faults: one action per git command and outcome. |
| `GitWorkerProps` | Its properties. |
| `VaultBackup` | The abstract promise: a history that is saved, a backup of it, and a record of what the backup lacks. No git in it. |
| `GitBackup` | The refinement mapping from `GitWorker` to `VaultBackup`. |
| `MC_GitWorker` | Two files for TLC: `note` (stamped) and `clip` (an attachment the watcher is blind to). |
| `Lifecycle`, `LifecycleProps` | Process start, threads, timer and shutdown, in time. |
| `LockSweep`, `MC_LockSweep` | The startup lock sweep, step by step, beside other git processes. |
| `Stamping` | `stamp()` on one note, against the clock and other writers. |
| `StartupConfig` | The settings, both validations, the hosted extensions, and what the accepted settings do to the threads. |
| `Sidecar`, `MC_Sidecar` | The sync container: PID 1, bootstrap, health check, Docker's restarts. |
| `VaultGit_proofs`, `GitWorker_proofs`, `GitBackup_proofs`, `GitContent_proofs`, `Lifecycle_proofs`, `LockSweep_proofs`, `Stamping_proofs`, `StartupConfig_proofs` | TLAPS proofs. |

`GitWorker` EXTENDS `VaultGit`, and `GitBackup` is `GitWorkerProps` with an
INSTANCE of `VaultBackup`. `Lifecycle` counts commits where `GitWorker` says what
they contain; `LockSweep` is the step that `GitWorker.Restart` and
`Lifecycle.StartSweep` take as one; `Stamping` is `GitWorker`'s two stamping steps
with what a stamp contains; `StartupConfig` says with which constants
(`Pinned`, `Elsewhere`, `HasRemote`, `Stamping`) and with which timeouts the
others can run; for the worker, the sidecar is the writer of `DeviceWrite`.

### GitWorker against worker.py and git_ops.py

`pc` names the git command the worker is about to run; a command is one step with
the environment free to act before and after it. Of each command there are up to
four outcomes: `...Done`, `...Refused` (non-zero exit), `...Killed`
(`TimeoutExpired`, done or not) and `GitRaises` (any other exception: the command
did not run, and `run` logs it and goes on). The rebase alone takes many steps, so
that others write and delete while it is on its way (`pc = "pick"`): HEAD is
detached at the upstream, each of the branch's own commits is picked onto it, and
the branch follows at the end.

| Action | Code |
|---|---|
| `McpUpdate/Delete/Move`, `McpNotify` | an upstream tool writes, then its write listener puts the event |
| `SweepTrigger` | timer or `.md` watcher: the same event |
| `DeviceWrite/Delete`, `PeerPush` | sidecar or human; another clone |
| `TakeEvent`, `QuietPush` | `run`: `get` returns, or times out and opens the push window |
| `StampSkip/Read/Write` | `stamp`: gate, read, write back |
| `Stage*`, `Diff*`, `Commit*` | `_stage_and_commit`, with `_record_failure`/`_record_clean` and the overdue check |
| `Fetch*`, `Rebase*`, `Pick*`, `Abort*`, `Push*` | `_push_once` under `_maybe_push` |
| `RebaseStart`, `RebaseUpToDate`, `RebaseRefused` | `git rebase -X theirs`: checks out the upstream, has nothing to do, or does not start |
| `PickDone`, `PickStops`, `PickRefused` | its next commit: picked; stopped at a conflict, half of it on disk; not begun because something is in the way |
| `RebaseFinish`, `RebaseKilled` | its end, or the timeout's `kill` after any number of commits |
| `Crash`, `Restart` | the process dies; `after_indexes_start` with a fresh worker |

State: `wt`, `index`, `unmerged`, `head`, `branch`, `tracking`, `rebasing`,
`remote` are the disk and the repository; `queue`, `call` the events; `ev`,
`todo`, `buf` the worker's locals; `unpushed`, `overdue`, `degraded` its fields;
`target` the branch name it resolved.

Abstractions, all deliberate:

- A file is a few hunks (`Hunks`), far enough apart for git to merge each on its
  own; a hunk holds the write that left it, a number and its writer, so no two
  writes are equal. A write replaces a file or any part of its hunks (`Written`),
  and frontmatter is the hunk `front`. Lines that move or hunks that grow into one
  another are left out. A history is a sequence of commits (nobody merges); a
  commit is its prefix and its whole tree.
- Picking a commit is a three-way merge: hunks it changed are its own, as `-X
  theirs` has it, the others HEAD's (`Picked`). A file that one side deleted and the
  other changed is a conflict `-X theirs` does not settle (`ConflictPaths`). The
  checkout of one commit is one step and refuses to overwrite what the index does
  not know (`InTheWay`). git's rename detection is left out; a file that moves holds
  new content.
- git drops a commit that became empty, or was already applied upstream. With no
  two writes equal and peers that edit and create but never delete, neither
  happens here, and it is left out.
- `commit()` asks `has_staged()` once more: that diff and the commit are one step.
  With nothing staged it ends in `CommitDone` without a commit, or, when the diff
  fails, in `CommitRefused`.
- One MCP call at a time is between its write and its notification.
- A pinned branch is the checked-out one, or (`Elsewhere`) one that the remote
  has already and that nobody commits to: rebase and push then name a branch that
  is not HEAD's (`Pushed`).
- Whether notes are stamped (`VAULT_GIT_STAMP`) is the constant `Stamping`.
- "created" is "updated"; a stamp rewrites the hunk `front`, and a note whose
  `front` is a stamp no older than any of its hunks is not stamped again (the mtime
  gate, `Stamped`).
- `MaxWrites`, `MaxFaults` and `MaxQueue` bound the environment; the code has
  none of these limits.

### VaultBackup

Four variables: the commits `saved`, those in the `backup`, the record `owed`,
and whether the server is `up`. A step saves one commit more, redoes the vault's
own commits on top of the backup's (`Merge`: none left out, in order, each with
all of the hunks it changed, and at every other hunk what was there or what the
backup has), delivers everything, or stops and starts; someone else may
contribute to the backup at any time. `GitBackup` maps `saved` to the branch and
not to HEAD: while a killed rebase is open HEAD is somewhere else, and what is
committed there never joins the branch (`dropped_commit` shows how it is lost).
The abstract promise speaks of the branch alone. `Assume` admits what is left, the
record being set without a commit of the branch: by a commit on a detached HEAD,
or by a failing `git diff` that is taken for "staged".

### Lifecycle

Time passes in ticks only while a git command or the ping runs (up to its limit),
while the worker waits in `get` and while `stop` waits in `join`; Python code is
instantaneous, so a deadline that is due happens before the next tick. `Follow`
gives the order of the commands of a cycle. The timer's wake-up and its `put`
are two steps, because `wait()` may have returned before the flag was set.
Abstracted: what commits contain; the HTTP timeout as one limit on the ping (in
the code its 10 s hold for each socket operation, not for the whole request).
Exceptions other than timeouts (`GitWorker` has them), and failures of the threads
to start, are not modelled. `MaxEvents` bounds the events over the life of the process.

### LockSweep

Each glob, stat, listing of `/proc`, read of a process name and unlink is a step;
other git processes start, take locks, finish or are killed between them. `old`
stands for older than `STALE_AFTER`. A process of `Foreign` runs as somebody else
and `/proc` does not let us read its name; `git_running` passes over it as over
one that has exited. The variable `company` says whether any process that is not
git runs beside the server: under an init one does, in the image as shipped
(`Dockerfile` runs the server as PID 1) none need.

### Stamping

| Action | Code (`stamping.py`, `stamp`) |
|---|---|
| `Take`, `Skip`, `Read` | called for an event's path; missing or unparseable: no stamp; `read_text` and `yaml.load` |
| `Stat` | `path.stat().st_mtime` against `modified`, the gate |
| `Now` | `now_utc()` |
| `Write` | `write_text` of what was read, with its stamps |
| `Tick`, `McpWrites`, `DeviceWrites`, `Deletes`, `Notify` | the clock and the other writers, between any two of these |

A version of the note has the two stamps as whole seconds, as the code compares
them, and `restamped` says whose they are. A writer leaves no stamp, the one it
found, its own clock's, or (devices have clocks of their own) one that is a
second ahead. YAML "loads" or "does not"; key order, quotes and comments are left
out, and so are files that cannot be written.

### StartupConfig

A setting is the class of its text: for the three numbers, whether `int()` and
`float()` take it, whether it is `<= 0`, and what `Queue.get`, `Event.wait` and
the overdue comparison do with it (`Debounce`, `Timer`, `Overdue`: they wait,
spin, end the thread with an exception, or never fire). `Check` is one test of
`validate_gitsync`, in its order, and `VaultChanges` may fall between any two, so
that what `main` validated need no longer hold in `before_indexes_start`, which
validates again. `Load` takes one entry of the declared list: an extension, a
refusal (`ValueError`) or an exception of the entry's own code. `HelperAnswers`
is the credential helper; `Authenticates` is what `_credential_args` makes of it:
with a token the helper is the only one git asks, without one git asks whom it
always asks (`helper`: a credential.helper of its own, netrc). A vault is at the
root of a work tree, below it (where `git -C` works too) or in none; HEAD is on the
configured branch, on another or detached, and `PushesHead` says whether what a
push names is what HEAD is on. `Works` says what commits and pushes need, and
`Pings` what the heartbeat needs; both are written from what the worker and git do
with a setting, not from what the validation asks. `MaxEdits` bounds the
settings that are off their defaults, `MaxChanges` the changes of the vault.

### Sidecar

`Start`, `Poll` and `Exec` are `entrypoint.sh` without a command, `Bootstrap`,
`Wipe`, `Login`, `Setup` and `BootstrapFails` are `bootstrap.sh` (with or without
`--reset`, in the running container or one of its own), `Probe` is
`healthcheck.sh`, and `Beat`, `ObGivesUp`, `ObFails` the `ob` client, which is
external: it syncs what was set up when it started, or gives up. They meet only in the
configuration directory: any file in it makes `is_bootstrapped` true, and
`sync.log`'s age is what the health check looks at. `switched` records that the
set-up went to another account under an `ob` that was running: nothing restarts
it, and `EventuallySyncs` spares it and nothing else. Left out: an explicit
command and the `BOOTSTRAP` variable, which exec something else. `MaxBootstraps`
and `MaxFailures` bound the operator and `ob`'s deaths.

## Runs

Passing runs:

| Run | Question | Properties |
|---|---|---|
| `peer_sync` | MCP tools and peers write, also while commits are picked, and clones diverge; network and git reliable | `NoRebaseLeftOpen`, `NoCommitDropped`, `LocalWins`, `McpCommitTight` |
| `commit_faults` | stamping and committing with locks, failures and kills | `TypeOK`, `CleanMeansCommitted`, `LeftoversAreRecorded` |
| `killed` | every fault at once, kills and crashes included, around one file that devices create and delete while a peer pushes it and the worker picks it | `RefsAgree`, `HeartbeatMeansDelivered`, `RebaseKeepsWrites`, `ImplementsBackup` |
| `live` | every failure that kills nothing, and progress once failures stop | `UnpushedCovers`, `EventuallyCommitted`, `EventuallyPushed`, `EventuallyHealthy` |
| `lifetime` | start, work, shutdown with slow and hanging commands | `TypeOK`, `OneGitUserUnlessExpired`, `StopIsHeeded`, `ShutdownBounded`, `FlushLosesNothing`, `EventuallyExits` |
| `startup_sweep` | the sweep beside two git processes, one of them not ours to read, and two locks, with and without company | `TypeOK`, `OrphansFate`, `ListedOwnersKeepLocks`, `StartupProceeds` |
| `stamping` | one note, its stamps and the clock, with other writers between any two steps of `stamp` | `TypeOK`, `NoteIsDated`, `CreatedIsKept`, `ClientStampIsKept`, `OverwrittenIsPending` |
| `startup_config` | every pair of settings and every two changes of the vault during the boot | `TypeOK`, `RunningBackupWorks`, `RefusalIsDeserved`, `WholeListServed` |
| `sidecar` | bootstraps of two accounts beside the poll, an `ob` that dies or wedges, Docker's restarts | `EventuallySyncs`, `StallIsNoticed` |

`ShutdownBounded` makes a number of what `worker.py:179` calls "bounded by the git
timeout": the join takes one timeout and its grace, the flush up to a timeout for
each of its commands, so that the whole is about six of them and the ping.

Runs that show the code and what is said of it to differ (each a short
counterexample; `PROJECT.json` quotes the line it contradicts):

| Run | Property | What happens |
|---|---|---|
| `dropped_commit` | `NoCommitDropped` | a rebase that timed out is not aborted; commits made on its detached HEAD are later thrown away, on disk too |
| `alone_in_container` | `OrphansAreCleared` | as PID 1 and alone, the server takes an empty process list for an unreadable `/proc` and never removes a lock |
| `false_heartbeat` | `HeartbeatMeansDelivered` | pinned to a branch other than HEAD's, the worker commits to one branch and pushes, and reports, the other |

TLC also refutes the following, each in the configuration named with its property
line replaced (and, where given, other values). They are stated in the modules,
next to what holds, as a record of where the code stops short:

| Property | Configuration | What happens |
|---|---|---|
| `SweepTakesNoMcpWrite` | `PeerSync`, sources mcp only, two writes, `MaxQueue = 2` | a queued sweep commits an MCP write under `sync:` (`README.md`: MCP changes are `mcp:` commits) |
| `DegradedMeansFailure` | the same | a file created and deleted before its event makes `git add` fail: degraded though nothing is wrong |
| `EventuallyPushed` | `Live`, `Faults = {"crash"}` | commits unpushed at a restart wait for the next new commit |
| `CleanMeansCommitted` | `CommitFaults`, `Faults = {"raise"}` | an exception between staging and committing leaves the index staged and the last record clean |
| `NoRebaseLeftOpen` | `DroppedCommit` | a rebase that timed out is left open (`worker.py:322`; spec `git-worker`: "the worker aborts the rebase") |
| `PushesStartBranch` | `DroppedCommit` | the branch is resolved at each push, as `HEAD` when detached (`config.py:45-46`: "resolved at worker start") |
| `McpCommitTight` | `PeerSync`, sources mcp and device, `Faults = {"lock"}`, `MaxFaults = 1`, two writes, `MaxQueue = 2` | after a failed commit the next `mcp:` commit takes the leftovers of the index |
| `UnpushedCovers` | `Live`, `Spec`, `Faults = {"timeout"}` | a commit that landed before its kill is not owed to the remote |
| `UnpushedMeansCommit` | `Live`, `Spec`, `Faults = {"rc"}` | a failing `git diff` counts as "staged" and sets `_unpushed` with no commit |
| `OneGitUser` | `Lifetime` | the join gives up and main runs git beside the worker (`worker.py`: only one thread touches git) |
| `SettledQueue` | `Lifetime` | events are put during the final flush (`extension.py:128-130`: "sees a settled queue") |
| `PendingIsCommitted` | `Lifetime` | events queued at shutdown are not handled before exit |
| `NoLiveLockRemoved` | `StartupSweep` | a git that starts after `/proc` was listed loses the lock it takes under a stale lock's name |
| `AllListedKeepLocks` | `StartupSweep` | a live git whose name cannot be read does not count as running, and loses a lock it has held for long (`locks.py:89-90`) |
| `StampIsIdempotent` | `Stamping` | when the clock ticks between `now_utc()` and the write, the next event stamps the note again (`stamping.py:114`: "a re-run is a no-op") |
| `DeletedStaysDeleted` | `Stamping` | a note deleted after it was read is written again (`stamping.py:131`) |
| `NoteIsBorn` | `Stamping` | a client's current `modified` closes the gate, and a missing `created` is not added (`stamping.py:6`) |
| `RunningMeansWorking` | `StartupConfig` | each of the blind spots below (`config.py:210-213`: "we verify the essentials up front") |
| `RefusalMeansBroken` | `StartupConfig` | a boot is refused that could have worked: the validation is overcautious, see below |
| `RefusedListUnloaded` | `StartupConfig` | the entries before a bad one have been imported and constructed (`openspec/specs/extension-hosting/spec.md`) |
| `NoCrashLoop` | `Sidecar` | after `ob login` alone the poll starts `ob sync`, which exits, again and again (`entrypoint.sh:9-12`) |
| `SwitchTakesEffect` | `Sidecar` | a bootstrap `--reset` under a running `ob sync` starts nothing for the new account (`obsidian-sync/README.md:146`) |

The blind spots (`BlindSpot`) are: nobody looks whether a push names what HEAD is
on, neither for a configured branch nor for a detached HEAD; a URL that names a
user is taken to have a password; git's own `GIT_AUTHOR_*` satisfy the identity
check and do not name a committer; and `nan`, `inf` and huge numbers are not `<= 0`.
`RunningBackupWorks` says that a validated backup works if and only if it is in none
of them: no other is left, and each of the four really breaks it. The other way
round the validation asks for more than the worker needs (`Overcautious`): a `.git`
at the vault's root though git finds one above, a token though git itself may find
a password, and in commit-only mode a positive `VAULT_GIT_PUSH_MAX_INTERVAL` and a
heartbeat URL that is one.

`alone_in_container` concerns the deployment as shipped: the image starts the server as
PID 1, where it is normally the only process, so stale locks survive every
restart. `startup_sweep` shows what decides it: `OrphansFate` says that with company
every stale lock goes unless its own `unlink()` fails, and alone none does.

Bounds. Two files let commits overlap in one and differ in the other, and one is
invisible to the watcher and the stamper. Two hunks, in `peer_sync`, are enough for
a file to be changed by both sides in different places, in the same place, and in
both. Two writes are enough for local and remote to diverge, three in `peer_sync`
for a conflict with a commit to spare, or for a write while the other two are being
merged; two faults let one failure follow another. `killed` gives up the second file
for four writes on one: created, deleted and created again on disk, and pushed by
the peer, so that it is untracked and in the way at any commit of a rebase; what
two files add is in the other runs and in the proofs. A queue of one
already has an event waiting while one is handled; `commit_faults` and the runs
about order use two. In `Lifecycle` a timeout of two ticks with a grace of one
tells "ended before", "at" and "after" the join apart; only one event may be
taken after the flag, so two events would show a second. In
`LockSweep` one lock goes wrong while the other is fine, and one process can end
while another starts. In `Stamping` four seconds separate a write, a read, a stamp
and a later write, and four writes give the stamper one to hold, one to overwrite
and one to come. In `StartupConfig` a check depends on two settings at most and
one fact of the vault: two changes break it and mend it again. In `Sidecar` the
second bootstrap can switch the account or finish what the first left undone.

Fairness. `GitWorker`: the worker thread is scheduled and every git call returns
or is killed (`subprocess.run` has a timeout); the timer fires; a listener that
was called runs; `push_max_interval` passes. That the network comes back, a lock
goes away and the container is restarted is assumed of the surroundings
(`MaxFaults` bounds how often they fail), and liveness is claimed under it only.
The branch a human must merge (`NeedsHuman`: a deletion against an edit, which
`-X theirs` does not settle) is excepted. `Lifecycle`: threads are scheduled, the
clock moves, a command out of time is killed. It is not assumed that a command
ends by itself. `LockSweep`: the main thread runs; other processes owe nothing.
`Sidecar`: Docker restarts (`restart: unless-stopped`) and probes, the shell
polls, time passes, and an `ob sync` with nothing set up exits. The operator owes
nothing, and a working `ob` need not ever write a line. `Stamping` and
`StartupConfig` claim no liveness.

`CHECK_DEADLOCK FALSE` is set for `LockSweep` (the sweep is over, no git need be
left), `Stamping` (the bounded clock and writes run out while the stamper is idle),
`StartupConfig` (a refused boot is over, a running one has no step of the boot
left) and `Sidecar` (a wedged `ob` that has been noticed has nothing more to do).

## Proofs

For all values of the constants satisfying the modules' `ASSUME`s:

| Theorem | Statement |
|---|---|
| `GitWorker_proofs!TypeCorrect` | `Spec => []TypeOK` |
| `GitWorker_proofs!RefsAlwaysAgree` | `Spec => []RefsAgree` |
| `GitBackup_proofs!HeartbeatIsTruthful` | a push that succeeds delivers all of HEAD, unless another branch is pinned |
| `GitBackup_proofs!NoCommitForgotten` | `UnpushedCovers`, assuming nothing is killed, no process crashes and no other branch is pinned |
| `GitBackup_proofs!WorkerIsABackup` | `Spec => ImplementsBackup`, whatever the faults, unless another branch is pinned |
| `GitContent_proofs!RebaseLetsLocalWin` | `Spec => LocalWins`, whatever the faults |
| `GitContent_proofs!RebaseSparesWrites` | `Spec => RebaseKeepsWrites`, whatever the faults |
| `GitContent_proofs!RebaseNeverLeftOpen` | `Spec => []NoRebaseLeftOpen`, assuming `Calm` or `NoRival` |
| `GitContent_proofs!CommitsAreKept` | `Spec => NoCommitDropped`, assuming `Calm` or `NoRival` |
| `GitContent_proofs!CleanIsCommitted` | `Spec => []CleanMeansCommitted`, assuming `Calm`, or `NoRival` and `NothingUnrecorded` |
| `GitContent_proofs!LeftoversAreAnnounced` | `Spec => LeftoversAreRecorded`, under the same assumption |
| `GitContent_proofs!McpCommitsAreTight` | `Spec => McpCommitTight`, assuming `Calm` |
| `Lifecycle_proofs!OneThreadRunsGit` | one git user unless the join expired |
| `Lifecycle_proofs!StopFlagIsHeeded` | at most one event after the flag |
| `Lifecycle_proofs!ShutdownIsBounded` | join + one push cycle + ping |
| `Lifecycle_proofs!LifecycleTypes` | `Spec => []TypeOK` |
| `Lifecycle_proofs!FlushDelivers` | a final flush that goes through leaves no commit behind unless the join expired |
| `LockSweep_proofs!ListedOwnersSafe` | a listed, living process that can be read keeps its locks |
| `LockSweep_proofs!SweepTypes` | `Spec => []TypeOK` |
| `LockSweep_proofs!OrphansHaveTheirFate` | `Spec => []OrphansFate`: in company stale orphans go, alone they stay |
| `Stamping_proofs!StamperTypes` | `Spec => []TypeOK` |
| `Stamping_proofs!EveryMcpNoteIsDated` | `NoteIsDated` |
| `Stamping_proofs!CreatedNeverChanges`, `ClientStampNeverTouched`, `OverwrittenComesAgain` | the three action properties of `Stamping` |
| `StartupConfig_proofs!BootTypes` | `Spec => []TypeOK` |
| `StartupConfig_proofs!ValidatedBackupWorks`, `NoUndeservedRefusal`, `ServedListIsWhole` | the three invariants of `StartupConfig` |

The assumptions are real ones: with another branch pinned the heartbeat lies
(`false_heartbeat`), and with killed commands or crashes commits are forgotten
(`UnpushedCovers` in the table above). `Calm` says that nothing but the network fails (`Faults \subseteq {"offline"}`);
`NoRival` that no other clone pushes, or that there is no remote;
`NothingUnrecorded` that no exception and no restart skips or clears the record of
a cycle. Without them TLC refutes the properties (`dropped_commit`,
and `NoRebaseLeftOpen`, `CleanMeansCommitted` and `McpCommitTight` in the table
above): a rebase that is killed, or whose abort fails, stays open, and a commit
that fails leaves its paths staged. `peer_sync` is a calm instance, and
`commit_faults` one without a rival whose every failure is recorded.

The arguments. *Delivery*: a successful push sends the branch (or HEAD, when it
is detached), so the heartbeat could lie if the branch were not all of HEAD.
`RefsAgree` is the invariant that rules it out: HEAD is the branch unless a
rebase is open, and then the remote has something the branch lacks, so that a
push of it is refused. It is inductive together with `TypeOK`, `SameRoot` (all
histories start with the same commit) and `Picking` (while the worker's rebase is on
its way, HEAD is the upstream with the first of the branch's own commits picked onto
it): opening a rebase requires a fetched history the branch does not contain, the
remote only grows, and everything that ends a rebase puts HEAD back. *Nothing forgotten*:
`UnpushedCovers` is not inductive, because between the commit and its flag, and
while a rebase rewrites HEAD, the flag alone does not cover it; `Owed` adds what
holds at those program points. *Refinement*: each action
maps to one step of `VaultBackup` or stutters, from `TypeOK`, `RefsAgree` and
`Picking`. A rebase stutters until its last step, which is one `Merge`: the branch
becomes the upstream followed by as many commits as it had beyond the fork point
(`Offset`), and by the invariant `Redone` each of them makes the changes of its original and
holds what was there, or what the upstream has, elsewhere (`Redoes`).
*One thread*: `Turns` relates the phase of the main thread to what either thread may
be running. *Bound*: `OnTime` bounds the time spent by what the commands before the current one can have taken, plus the
current one so far. *Flush*: `Counted` says that an event is on the queue, on its
way to a commit or spent, that main commits nothing, and that a push main runs
carries all commits, because the worker runs no command beside it. *Locks*:
`Watched` says that a listed process that is alive and may be read has yet to be,
and that none is once the answer is "no"; `Clearing` says where an orphan is on its
way through the sweep, in company and alone, and that in company the sweep does not
end while one is on its way.
*Stamps*: the invariant keeps mtime, stamps and the clock in order and says that
whatever is not dated has an event, or the stamper holding this very version,
still before it (`StampComes`, `EventComes`); `GateOpened` that the stamper past
its gate does not hold a version its client stamped. *Configuration*: what a
validation has passed so far still holds as long as the vault is untouched
(`Progress`); that what passed all eight checks works exactly if it is in no blind
spot, and that each failing one denies `Works` or `Pings` or is overcautious, are
facts about the settings and the vault alone.


What rebases do to content is `GitContent_proofs`. *Local wins*: `Merged` says how far
it has got: at every hunk HEAD has what the branch's picked commits made of it if one
of them touched it, and what the upstream has otherwise. A pick extends it by one
commit (`PickedSpots`), and once all are picked it is `LocalWins`. *Writes spared*: a
checkout overwrites a file only where the disk has what the index has, and `Picking`
says that the index is HEAD's tree, so what it overwrites is in a commit of HEAD.
*Rebases end*: in a calm system a rebase that stops is aborted by the next command,
which finds no lock (`Undisturbed`); without a rival the remote is always below the
branch, so that no rebase has anything to pick (`Unrivalled`). *Nothing dropped*:
while a rebase is open HEAD already holds every hunk of the commits it has come past,
and nothing that is not in the branch or the remote (`Kin`), so that neither its end
nor its abort loses any. *Tight commits*: between cycles the index is HEAD's tree, and
within one it differs from it at the event's paths only (`IndexFollows`). *Clean
record*: while the record is clean the index is HEAD's between cycles and differs from
it by what the event has staged within one (`CleanRecord`); every way out of a
cycle with something staged records a failure, unless an exception or a restart
skips it. Leftovers in a commit are therefore announced.

Every invariant and every action property that a passing run checks is thus
stated by a theorem. Model-checked only is liveness, which needs ENABLED and
fairness: `EventuallyCommitted`, `EventuallyPushed`, `EventuallyHealthy`,
`EventuallyExits`, `StartupProceeds`, and all of `Sidecar` (`EventuallySyncs`,
`StallIsNoticed`). The induction theorems of the library that take an operator
cannot be instantiated by the provers; where induction was needed, over the
commits of a branch, it is made over a set of numbers, from `WFMin` (`SetInduction`).

## Not modelled

- The HTTP ping's content, log lines, commit messages, YAML's layout: no property
  is about them.
- What `ob` does to files, and its explicit commands: external.
- A device's write in the middle of one commit's checkout: the checkout of a commit is
  one step. A write between two of them, and between a rebase that stopped and its
  abort, is modelled; the latter is lost, and `RebaseKeepsWrites` excepts it.
- Renames git would detect, line-level diffs, and the commits a rebase drops because
  they became empty or were already applied: see the abstractions of `GitWorker`.
- A branch deleted on the remote, and rewritten histories there: nobody but the
  worker and peers that push on top of it touches the remote.
- A `git` of the startup validation that hangs: it has no timeout, and the boot
  then never ends, which the model's boot, having no fairness, allows too.
- A queue that outgrows memory: the model's queue is bounded by `MaxQueue`.
- Packaging: `Dockerfile` and `docker-compose.yml` enter through the assumptions
  (PID 1, restart policy, probes).

## Plan

Done: the worker with its properties, delivery proofs, abstract backup and
refinement; the process's life; the lock sweep; stamping; configuration, hosting
and the credential helper; the sidecar. What is left, most useful first:

1. A remote whose branch is deleted or rewritten, and what fetch, rebase and push
   make of it.
2. What an abort may cost a device, as a property of its own, and a refinement of
   `VaultBackup` that speaks of the disk too.
3. `GitWorker` with `Stamping` in place of its two stamping steps: whether a
   stamp's echo through the watcher ever makes a commit of its own.
4. Peers that delete or make the same change: a picked commit may then be empty, and
   git drops it.

--------------------------- MODULE StartupConfig ---------------------------
(***************************************************************************)
(* Booting: the VAULT_GIT_* settings (config.py), the declared extensions   *)
(* (extension_hosting.py), main(), the second validation before the indexes *)
(* start, and the threads that then live on what was accepted, together     *)
(* with the credential helper their pushes ask.                             *)
(*                                                                         *)
(* A setting's raw text is a member of a small class of texts.  The vault's *)
(* repository is not held still: it may change between any two checks, and  *)
(* between the two validations.                                             *)
(***************************************************************************)
EXTENDS Naturals, Sequences

CONSTANTS
  MaxEdits,    \* bound: settings the operator changes from their defaults
  MaxChanges   \* bound: times the vault's repository changes

ASSUME BoundsAssumption == {MaxEdits, MaxChanges} \subseteq Nat

VARIABLES
  env,       \* the environment, read at import and fixed from then on
  vault,     \* what the checks find at VAULT_PATH
  pc,        \* how far the boot is
  at,        \* the check, or the declared extension, that is next
  round,     \* which validation: main's (1) or before_indexes_start's (2)
  loaded,    \* the extensions constructed so far
  touched,   \* the vault has changed since this validation began
  edits, changes

vars == <<env, vault, pc, at, round, loaded, touched, edits, changes>>

-----------------------------------------------------------------------------
(* The settings, named as after VAULT_GIT_, by what their text is; ENABLED    *)
(* itself is a word of TLA+.                                                *)

Numbers == {"word", "negative", "zero", "fraction", "count", "huge", "inf", "nan"}

\* A declared extension resolves and constructs; or names nothing that is an
\* Extension; or its own code raises while it is imported or constructed.
Entries == {"extension", "unresolvable", "raises"}

Values == [
  SYNC_ENABLED  |-> {"", "truthy", "word"},
  SWEEP         |-> Numbers,
  DEBOUNCE      |-> Numbers,
  MAX_INTERVAL  |-> Numbers,
  REMOTE        |-> {"", "named"},
  BRANCH        |-> {"", "named"},
  TOKEN         |-> {"", "set"},
  AUTHOR_NAME   |-> {"", "set"},
  AUTHOR_EMAIL  |-> {"", "set"},
  GIT_AUTHOR    |-> {"", "set"},    \* git's own GIT_AUTHOR_NAME and _EMAIL
  HEARTBEAT_URL |-> {"", "url", "no url"},
  EXTENSIONS    |-> UNION {[1..n -> Entries] : n \in 0..2}]

Default == [name \in DOMAIN Values |->
              CASE name \in {"SWEEP", "DEBOUNCE", "MAX_INTERVAL"} -> "count"
                [] name = "REMOTE" -> "named"
                [] name = "EXTENSIONS" -> <<>>
                [] OTHER -> ""]

\* _is_truthy with default FALSE: what is not recognised disables.
Enabled == env["SYNC_ENABLED"] = "truthy"

\* int(raw) and float(raw): the texts they parse ("inf" and "nan" are floats,
\* a fraction is no int), and the values `<= 0` is true of (nan is not one).
IsInt(raw)   == raw \in {"negative", "zero", "count", "huge"}
IsFloat(raw) == raw # "word"

NonPositive(raw) == raw \in {"negative", "zero"}

\* What the vault may hold: the root of a work tree, a directory in one whose root is
\* above, or no repository; HEAD on the branch that is configured (on any, if none
\* is), on another one or on none; and whether git itself can find a password
\* (credential.helper, netrc).  `https user` names a user but no password.
Urls   == {"ssh", "https", "https user", "https user:password"}
Facts  == [dir |-> BOOLEAN, tree |-> {"none", "root", "above"}, url |-> Urls \cup {""},
           head |-> {"branch", "other", "detached"}, identity |-> SUBSET {"name", "email"},
           helper |-> BOOLEAN]

-----------------------------------------------------------------------------
(* validate_gitsync(), one check at a time.                                 *)

\* git -C finds a repository in the directory or above it.
Repository  == vault.dir /\ vault.tree # "none"
RemoteKnown == Repository /\ vault.url # ""

\* Mutant: asks for a token whatever the URL embeds.
NeedsToken_Always == vault.url \notin {"", "ssh"}

NeedsToken == vault.url = "https"

\* `-c user.name=... -c user.email=...` go before the host's configuration.
Identity(source) ==
  /\ env["AUTHOR_NAME"] = "set"  \/ "name" \in source
  /\ env["AUTHOR_EMAIL"] = "set" \/ "email" \in source

\* `git var GIT_AUTHOR_IDENT` also knows git's own GIT_AUTHOR_* variables.
AuthorResolves ==
  Identity(vault.identity \cup (IF env["GIT_AUTHOR"] = "set" THEN {"name", "email"} ELSE {}))

Checks == <<"is_dir", "dotgit", "sweep", "debounce", "max_interval", "remote", "identity", "heartbeat">>

Fails(check) ==
  CASE check = "is_dir"       -> ~vault.dir
    [] check = "dotgit"       -> ~(vault.dir /\ vault.tree = "root")
    [] check = "sweep"        -> ~IsInt(env["SWEEP"]) \/ NonPositive(env["SWEEP"])
    [] check = "debounce"     -> ~IsFloat(env["DEBOUNCE"]) \/ NonPositive(env["DEBOUNCE"])
    [] check = "max_interval" -> ~IsFloat(env["MAX_INTERVAL"]) \/ NonPositive(env["MAX_INTERVAL"])
    [] check = "remote"       -> /\ env["REMOTE"] # ""
                                 /\ ~RemoteKnown \/ (NeedsToken /\ env["TOKEN"] = "")
    [] check = "identity"     -> ~AuthorResolves
    [] check = "heartbeat"    -> env["HEARTBEAT_URL"] = "no url"

-----------------------------------------------------------------------------
(* What the accepted settings come to once the threads run.                 *)

\* get(timeout=push_debounce): "spins" never sleeps; a timeout beyond what the
\* platform's clock holds raises OverflowError, a negative one ValueError, and
\* neither is queue.Empty, so the thread ends.
Debounce(raw) ==
  CASE raw \in {"count", "fraction"}       -> "waits"
    [] raw \in {"zero", "nan"}             -> "spins"
    [] raw \in {"negative", "huge", "inf"} -> "dies"
    [] OTHER                               -> "no number"

\* wait(sweep_interval)
Timer(raw) ==
  CASE raw = "count"                 -> "waits"
    [] raw \in {"zero", "negative"}  -> "spins"
    [] raw = "huge"                  -> "dies"
    [] OTHER                         -> "no number"

\* elapsed >= push_max_interval: every cycle, or never.
Overdue(raw) ==
  CASE raw \in {"count", "fraction"}    -> "bounds"
    [] raw \in {"zero", "negative"}     -> "always"
    [] raw \in {"nan", "inf", "huge"}   -> "never"
    [] OTHER                            -> "no number"

\* git-credential-obsidian-env <action>: prints the token, if there is one.
HelperAnswers(action) == action = "get" /\ env["TOKEN"] # ""

\* GitOps._credential_args: the helper is wired when there is a token, and then it is
\* the only one git asks about the password the URL does not have; without a token
\* git asks whom it always asks.
Authenticates ==
  \/ vault.url \in {"ssh", "https user:password"}
  \/ HelperAnswers("get")
  \/ env["TOKEN"] = "" /\ vault.helper

\* git commit needs a committer, which git's own GIT_AUTHOR_* do not name.
CanCommit == Repository /\ Identity(vault.identity)

\* What a push names is what HEAD is on: a configured branch may be another one, and
\* without one a detached HEAD resolves to "HEAD", which no push takes.
PushesHead == IF env["BRANCH"] = "" THEN vault.head # "detached" ELSE vault.head = "branch"

CanPush == RemoteKnown /\ Authenticates /\ PushesHead

\* A backup that works: the threads can be given their numbers and wait by them, and
\* everything they do can go through; without a remote (commit-only mode) no push does.
Works ==
  /\ CanCommit
  /\ env["REMOTE"] # "" => CanPush /\ Overdue(env["MAX_INTERVAL"]) = "bounds"
  /\ Debounce(env["DEBOUNCE"]) = "waits" /\ Timer(env["SWEEP"]) = "waits"
  /\ Overdue(env["MAX_INTERVAL"]) # "no number"

\* heartbeat.ping is fail-soft: a URL that is none costs the ping, not the backup; and
\* only a push is followed by one.
Pings == env["REMOTE"] # "" => env["HEARTBEAT_URL"] \in {"", "url"}

-----------------------------------------------------------------------------
(* The operator and the vault.                                              *)

Init ==
  /\ env \in {[Default EXCEPT !["SYNC_ENABLED"] = value] : value \in Values["SYNC_ENABLED"]}
  /\ vault \in [dir : {TRUE}, tree : {"root"}, url : Urls, head : {"branch"},
                identity : {{"name", "email"}}, helper : {FALSE}]
  /\ pc = "off" /\ at = 1 /\ round = 0 /\ loaded = <<>>
  /\ touched = FALSE /\ edits = 0 /\ changes = 0

Edit == \E name \in DOMAIN Values : \E value \in Values[name] :
  /\ pc = "off" /\ edits < MaxEdits
  /\ name # "SYNC_ENABLED" /\ env[name] = Default[name] /\ value # Default[name]
  /\ env' = [env EXCEPT ![name] = value] /\ edits' = edits + 1
  /\ UNCHANGED <<vault, pc, at, round, loaded, touched, changes>>

\* Someone renames the remote, checks out a clone, sets user.email ...
VaultChanges == \E field \in DOMAIN vault : \E fact \in Facts[field] \ {vault[field]} :
  /\ changes < MaxChanges /\ pc \notin {"refused", "traceback", "inert"}
  /\ vault' = [vault EXCEPT ![field] = fact] /\ changes' = changes + 1 /\ touched' = TRUE
  /\ UNCHANGED <<env, pc, at, round, loaded, edits>>

-----------------------------------------------------------------------------
(* main(), serve() and the extension's hooks.                               *)

\* validate_gitsync() is entered; it returns at once when disabled.
Validating(nth, next) ==
  /\ round' = nth /\ at' = 1 /\ touched' = FALSE
  /\ pc' = IF Enabled THEN "validate" ELSE next
  /\ UNCHANGED <<env, vault, loaded, edits, changes>>

Main == pc = "off" /\ Validating(1, "load")

\* Mutant: the entry point's validation is trusted.
BeforeIndexesStart_Trusts ==
  /\ pc = "serve" /\ at' = 1 /\ touched' = FALSE
  /\ pc' = IF Enabled THEN "listen" ELSE "inert"
  /\ UNCHANGED <<env, vault, round, loaded, edits, changes>>

\* before_indexes_start, called from serve().
BeforeIndexesStart == pc = "serve" /\ Validating(2, "inert")

\* Mutant: one check too many.
Check_Past ==
  /\ pc = "validate"
  /\ IF Fails(Checks[at]) THEN pc' = "refused" /\ UNCHANGED at
     ELSE IF at <= Len(Checks) THEN at' = at + 1 /\ UNCHANGED pc
     ELSE at' = 1 /\ pc' = IF round = 1 THEN "load" ELSE "listen"
  /\ UNCHANGED <<env, vault, round, loaded, touched, edits, changes>>

\* The next check passes, or its ValueError ends the boot.
Check ==
  /\ pc = "validate"
  /\ IF Fails(Checks[at]) THEN pc' = "refused" /\ UNCHANGED at
     ELSE IF at < Len(Checks) THEN at' = at + 1 /\ UNCHANGED pc
     ELSE at' = 1 /\ pc' = IF round = 1 THEN "load" ELSE "listen"
  /\ UNCHANGED <<env, vault, round, loaded, touched, edits, changes>>

Declared == env["EXTENSIONS"]

\* Mutant: an entry that does not resolve is skipped.
Load_Skips ==
  /\ pc = "load" /\ at <= Len(Declared)
  /\ at' = at + 1 /\ UNCHANGED pc
  /\ loaded' = IF Declared[at] = "extension" THEN Append(loaded, at) ELSE loaded
  /\ UNCHANGED <<env, vault, round, touched, edits, changes>>

\* load_extra_extensions(): each entry is resolved and constructed in turn; what
\* its own code raises is no ValueError and comes out of main as a traceback.
Load ==
  /\ pc = "load" /\ at <= Len(Declared)
  /\ CASE Declared[at] = "extension" ->
            loaded' = Append(loaded, at) /\ at' = at + 1 /\ UNCHANGED pc
       [] Declared[at] = "raises" ->
            pc' = "traceback" /\ UNCHANGED <<loaded, at>>
       [] OTHER ->
            pc' = "refused" /\ UNCHANGED <<loaded, at>>
  /\ UNCHANGED <<env, vault, round, touched, edits, changes>>

Serve ==
  /\ pc = "load" /\ at > Len(Declared)
  /\ pc' = "serve"
  /\ UNCHANGED <<env, vault, at, round, loaded, touched, edits, changes>>

\* Listeners attached, indexes built, worker and timer started.
AfterIndexesStart ==
  /\ pc = "listen"
  /\ pc' = "running"
  /\ UNCHANGED <<env, vault, at, round, loaded, touched, edits, changes>>

Next ==
  \/ Edit \/ VaultChanges
  \/ Main \/ Check \/ Load \/ Serve \/ BeforeIndexesStart \/ AfterIndexesStart

Spec == Init /\ [][Next]_vars

-----------------------------------------------------------------------------
TypeOK ==
  /\ DOMAIN env = DOMAIN Values /\ \A name \in DOMAIN Values : env[name] \in Values[name]
  /\ DOMAIN vault = DOMAIN Facts /\ \A field \in DOMAIN Facts : vault[field] \in Facts[field]
  /\ pc \in {"off", "validate", "load", "serve", "listen", "running", "inert", "refused", "traceback"}
  /\ at \in 1..Len(Checks) /\ round \in 0..2 /\ touched \in BOOLEAN
  /\ edits \in 0..MaxEdits /\ changes \in 0..MaxChanges

\* What validate_gitsync() does not look at: whether what is pushed is what HEAD is on,
\* whether a URL that names a user comes with a password, whether git's own
\* GIT_AUTHOR_* hide that there is no committer, and numbers `<= 0` lets through.
BlindSpot ==
  \/ env["REMOTE"] # "" /\ ~PushesHead
  \/ env["REMOTE"] # "" /\ vault.url = "https user" /\ env["TOKEN"] = "" /\ ~vault.helper
  \/ env["GIT_AUTHOR"] = "set" /\ ~Identity(vault.identity)
  \/ {env["SWEEP"], env["DEBOUNCE"]} \cap {"huge", "inf", "nan"} # {}
  \/ env["REMOTE"] # "" /\ env["MAX_INTERVAL"] \in {"huge", "inf", "nan"}

\* These are all there are, and each is one: a server that runs git sync has a backup
\* that works, unless the vault changed since before_indexes_start began to look
\* at it, if and only if it is in no blind spot (validate_gitsync: "we verify the
\* essentials up front").
RunningBackupWorks == pc = "running" /\ ~touched => (Works <=> ~BlindSpot)

\* The same without the exceptions, which is what config.py claims: "a misconfigured
\* backup that looks healthy until the first write is a worse failure mode".
RunningMeansWorking == pc = "running" /\ ~touched => Works

Unloadable == \E i \in DOMAIN Declared : Declared[i] # "extension"

\* Where the validation asks for more than the worker needs: a vault in a directory
\* of a work tree, a password that git would find by itself, and, with no remote, what
\* pushes and pings would need.
Overcautious ==
  \/ vault.tree = "above"
  \/ env["REMOTE"] # "" /\ vault.url = "https" /\ env["TOKEN"] = "" /\ vault.helper
  \/ env["REMOTE"] = "" /\ (NonPositive(env["MAX_INTERVAL"]) \/ env["HEARTBEAT_URL"] = "no url")

\* Apart from that, no boot is refused that would have worked: a refusal means that an
\* enabled backup could not run or its heartbeat not ping, or that a declared
\* extension could not be loaded (validate_gitsync: "the disabled case must never
\* abort startup").
RefusalIsDeserved ==
  pc = "refused" /\ ~touched => (Enabled /\ (~Works \/ ~Pings \/ Overcautious)) \/ Unloadable

\* The same without the exceptions, as config.py has it: an HTTPS remote without an
\* embedded credential "needs VAULT_GIT_TOKEN", and without a .git at the vault's
\* root "git sync has nothing to commit against".
RefusalMeansBroken == pc = "refused" /\ ~touched => ~Works \/ ~Pings \/ Unloadable

\* The server is handed every declared extension in order, or does not start.
WholeListServed ==
  pc \in {"serve", "listen", "running", "inert"} => loaded = [i \in DOMAIN Declared |-> i]

\* A list that is refused has constructed none of its extensions
\* (openspec/specs/extension-hosting/spec.md).
RefusedListUnloaded == pc = "refused" /\ round = 1 /\ loaded # <<>> => Declared[at] = "extension"
=============================================================================

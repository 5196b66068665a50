------------------------ MODULE StartupConfig_proofs ------------------------
(***************************************************************************)
(* What a boot that got through, and one that was refused, say of the       *)
(* configuration: for any number of settings changed and any changes of the *)
(* vault.                                                                   *)
(***************************************************************************)
EXTENDS StartupConfig, SequenceTheorems, TLAPS

\* Types, with the settings the checks and the threads read.
EnvOK ==
  /\ {env["SWEEP"], env["DEBOUNCE"], env["MAX_INTERVAL"]} \subseteq Numbers
  /\ env["GIT_AUTHOR"] \in {"", "set"}
  /\ env["HEARTBEAT_URL"] \in {"", "url", "no url"}
  /\ Declared \in Seq(Entries)

VaultOK == vault.url \in Urls \cup {""} /\ vault.tree \in {"none", "root", "above"}

\* How far the present validation has come: what it has passed still holds,
\* unless the vault has changed.
Passed(n) == \A i \in 1..n : ~Fails(Checks[i])
Progress ==
  /\ pc = "validate" => /\ Enabled /\ at \in 1..8
                        /\ ~touched => Passed(at - 1)
  /\ pc \in {"listen", "running"} /\ ~touched => Passed(8)
  /\ pc = "refused" /\ ~touched =>
       \/ Enabled /\ \E i \in 1..8 : Fails(Checks[i])
       \/ Unloadable

\* The extensions constructed so far are the first of those declared.
FirstN(n) == [i \in 1..n |-> i]
Loading ==
  /\ at \in Nat /\ round \in {0, 1, 2}
  /\ pc = "off" \/ (pc = "validate" /\ round = 1) => loaded = <<>>
  /\ pc = "load" => at \in 1..(Len(Declared) + 1) /\ loaded = FirstN(at - 1)
  /\ pc \in {"serve", "listen", "running", "inert"} \/ (pc = "validate" /\ round = 2)
       => loaded = FirstN(Len(Declared))
  /\ pc = "off" => round = 0
  /\ pc = "validate" => round # 0

Places == {"off", "validate", "load", "serve", "listen", "running", "inert", "refused", "traceback"}

IInv == EnvOK /\ VaultOK /\ pc \in Places /\ Progress /\ Loading

-----------------------------------------------------------------------------
(* The checks.                                                              *)

LEMMA EightChecks ==
  /\ Len(Checks) = 8
  /\ Checks[1] = "is_dir" /\ Checks[2] = "dotgit" /\ Checks[3] = "sweep"
  /\ Checks[4] = "debounce" /\ Checks[5] = "max_interval" /\ Checks[6] = "remote"
  /\ Checks[7] = "identity" /\ Checks[8] = "heartbeat"
  BY DEF Checks

\* An index of a check is one of eight.
LEMMA CheckIndex == \A i \in 1..8 : i \in {1, 2, 3, 4, 5, 6, 7, 8}
  OBVIOUS

LEMMA TheChecks ==
  /\ Fails("is_dir") = ~vault.dir
  /\ Fails("dotgit") = ~(vault.dir /\ vault.tree = "root")
  /\ Fails("sweep") = (~IsInt(env["SWEEP"]) \/ NonPositive(env["SWEEP"]))
  /\ Fails("debounce") = (~IsFloat(env["DEBOUNCE"]) \/ NonPositive(env["DEBOUNCE"]))
  /\ Fails("max_interval") = (~IsFloat(env["MAX_INTERVAL"]) \/ NonPositive(env["MAX_INTERVAL"]))
  /\ Fails("remote") = (env["REMOTE"] # "" /\ (~RemoteKnown \/ (NeedsToken /\ env["TOKEN"] = "")))
  /\ Fails("identity") = ~AuthorResolves
  /\ Fails("heartbeat") = (env["HEARTBEAT_URL"] = "no url")
  BY DEF Fails

\* What passes every check works, unless it is in a blind spot ...
LEMMA PassedWorks ==
  ASSUME EnvOK, VaultOK, Passed(8), ~BlindSpot
  PROVE  Works
  <1>1. \A i \in {1, 2, 3, 4, 5, 6, 7, 8} : ~Fails(Checks[i])
    BY DEF Passed
  <1>2. /\ ~Fails("is_dir") /\ ~Fails("dotgit") /\ ~Fails("sweep") /\ ~Fails("debounce")
        /\ ~Fails("max_interval") /\ ~Fails("remote") /\ ~Fails("identity")
    BY <1>1, EightChecks
  <1>3. CanCommit
    <2>1. Repository /\ AuthorResolves
      BY <1>2, TheChecks DEF Repository
    <2>2. env["GIT_AUTHOR"] # "set" \/ Identity(vault.identity)
      BY DEF BlindSpot
    <2>3. vault.identity \cup {} = vault.identity
      OBVIOUS
    <2>4. QED
      BY <2>1, <2>2, <2>3 DEF CanCommit, AuthorResolves, Identity
  <1>4. env["REMOTE"] # "" => CanPush
    <2>1. SUFFICES ASSUME env["REMOTE"] # "" PROVE CanPush
      OBVIOUS
    <2>2. RemoteKnown /\ (vault.url = "https" => env["TOKEN"] # "")
      BY <1>2, <2>1, TheChecks DEF NeedsToken
    <2>3. Authenticates
      BY <2>1, <2>2 DEF VaultOK, Urls, RemoteKnown, BlindSpot, Authenticates, HelperAnswers
    <2>4. QED
      BY <2>1, <2>2, <2>3 DEF CanPush, BlindSpot
  <1>5. Debounce(env["DEBOUNCE"]) = "waits"
    BY <1>2, TheChecks DEF EnvOK, Numbers, IsFloat, NonPositive, BlindSpot, Debounce
  <1>6. Timer(env["SWEEP"]) = "waits"
    BY <1>2, TheChecks DEF EnvOK, Numbers, IsInt, NonPositive, BlindSpot, Timer
  <1>7. /\ Overdue(env["MAX_INTERVAL"]) # "no number"
        /\ env["REMOTE"] # "" => Overdue(env["MAX_INTERVAL"]) = "bounds"
    BY <1>2, TheChecks DEF EnvOK, Numbers, IsFloat, NonPositive, BlindSpot, Overdue
  <1>8. QED
    BY <1>3, <1>4, <1>5, <1>6, <1>7 DEF Works

\* ... and what is in one does not work, whatever it has passed.
LEMMA BlindIsBroken ==
  ASSUME EnvOK, VaultOK, Passed(8), BlindSpot
  PROVE  ~Works
  <1>1. CASE env["REMOTE"] # "" /\ ~PushesHead
    BY <1>1 DEF Works, CanPush
  <1>2. CASE env["REMOTE"] # "" /\ vault.url = "https user" /\ env["TOKEN"] = "" /\ ~vault.helper
    BY <1>2 DEF Works, CanPush, Authenticates, HelperAnswers
  <1>3. CASE env["GIT_AUTHOR"] = "set" /\ ~Identity(vault.identity)
    BY <1>3 DEF Works, CanCommit
  <1>4. CASE {env["SWEEP"], env["DEBOUNCE"]} \cap {"huge", "inf", "nan"} # {}
    <2>1. CASE env["SWEEP"] \in {"huge", "inf", "nan"}
      BY <2>1 DEF Works, Timer
    <2>2. CASE env["DEBOUNCE"] \in {"huge", "inf", "nan"}
      BY <2>2 DEF Works, Debounce
    <2>3. QED
      BY <1>4, <2>1, <2>2
  <1>5. CASE env["REMOTE"] # "" /\ env["MAX_INTERVAL"] \in {"huge", "inf", "nan"}
    BY <1>5 DEF Works, Overdue
  <1>6. QED
    BY <1>1, <1>2, <1>3, <1>4, <1>5 DEF BlindSpot

\* What fails a check does not work, or not its heartbeat, or is refused out of caution.
LEMMA FailedIsBroken ==
  ASSUME EnvOK, VaultOK, NEW i \in 1..8, Fails(Checks[i])
  PROVE  ~Works \/ ~Pings \/ Overcautious
  <1>1. CASE i = 1
    BY <1>1, EightChecks, TheChecks DEF Works, CanCommit, Repository
  <1>2. CASE i = 2
    BY <1>2, EightChecks, TheChecks DEF Works, CanCommit, Repository, VaultOK, Overcautious
  <1>3. CASE i = 3
    BY <1>3, EightChecks, TheChecks DEF Works, EnvOK, Numbers, IsInt, NonPositive, Timer
  <1>4. CASE i = 4
    BY <1>4, EightChecks, TheChecks DEF Works, EnvOK, Numbers, IsFloat, NonPositive, Debounce
  <1>5. CASE i = 5
    BY <1>5, EightChecks, TheChecks DEF Works, EnvOK, Numbers, IsFloat, NonPositive, Overdue, Overcautious
  <1>6. CASE i = 6
    BY <1>6, EightChecks, TheChecks
       DEF Works, CanPush, Authenticates, HelperAnswers, NeedsToken, Overcautious
  <1>7. CASE i = 7
    BY <1>7, EightChecks, TheChecks DEF Works, CanCommit, AuthorResolves, Identity
  <1>8. CASE i = 8
    BY <1>8, EightChecks, TheChecks DEF Pings, Overcautious
  <1>9. QED
    BY <1>1, <1>2, <1>3, <1>4, <1>5, <1>6, <1>7, <1>8, CheckIndex

-----------------------------------------------------------------------------
(* The invariant.                                                           *)

LEMMA ListsAreSequences ==
  ASSUME NEW list \in UNION {[1..n -> Entries] : n \in 0..2}
  PROVE  list \in Seq(Entries)
  <1>1. PICK n \in 0..2 : list \in [1..n -> Entries]
    OBVIOUS
  <1>2. QED
    BY <1>1, SeqDef

LEMMA SettingValues ==
  /\ Values["SWEEP"] = Numbers /\ Values["DEBOUNCE"] = Numbers
  /\ Values["MAX_INTERVAL"] = Numbers
  /\ Values["GIT_AUTHOR"] = {"", "set"} /\ Values["HEARTBEAT_URL"] = {"", "url", "no url"}
  /\ Values["EXTENSIONS"] = UNION {[1..n -> Entries] : n \in 0..2}
  BY DEF Values

LEMMA InitIInv == Init => IInv
  <1> SUFFICES ASSUME Init PROVE IInv
    OBVIOUS
  <1>1. PICK value \in Values["SYNC_ENABLED"] : env = [Default EXCEPT !["SYNC_ENABLED"] = value]
    BY DEF Init
  <1>2. /\ env["SWEEP"] = "count" /\ env["DEBOUNCE"] = "count" /\ env["MAX_INTERVAL"] = "count"
        /\ env["GIT_AUTHOR"] = "" /\ env["HEARTBEAT_URL"] = "" /\ env["EXTENSIONS"] = <<>>
    BY <1>1 DEF Default, Values
  <1>3. EnvOK
    <2>1. "count" \in Numbers /\ Declared = <<>>
      BY <1>2 DEF Numbers, Declared
    <2>2. <<>> \in Seq(Entries)
      BY EmptySeq
    <2>3. QED
      BY <1>2, <2>1, <2>2 DEF EnvOK
  <1>4. VaultOK
    BY DEF Init, VaultOK
  <1>5. QED
    BY <1>3, <1>4 DEF Init, IInv, Places, Progress, Loading

LEMMA EditKeepsIInv ==
  ASSUME IInv, Edit
  PROVE  IInv'
  <1>1. PICK name \in DOMAIN Values : \E value \in Values[name] :
          env' = [env EXCEPT ![name] = value]
    BY DEF Edit
  <1>2. PICK value \in Values[name] : env' = [env EXCEPT ![name] = value]
    BY <1>1
  <1>3. \A other : other # name => env'[other] = env[other]
    BY <1>2
  <1>4. EnvOK'
    <2>1. env'[name] = value \/ env'[name] = env[name]
      BY <1>2
    <2>2. name = "EXTENSIONS" => env'[name] \in Seq(Entries)
      BY <2>1, <1>2, ListsAreSequences, SettingValues DEF IInv, EnvOK, Declared
    <2>3. Declared' \in Seq(Entries)
      BY <2>2, <1>3 DEF IInv, EnvOK, Declared
    <2>4. \A n \in {"SWEEP", "DEBOUNCE", "MAX_INTERVAL"} : env'[n] \in Numbers
      BY <2>1, <1>2, <1>3, SettingValues DEF IInv, EnvOK
    <2>5. env'["GIT_AUTHOR"] \in {"", "set"} /\ env'["HEARTBEAT_URL"] \in {"", "url", "no url"}
      BY <2>1, <1>2, <1>3, SettingValues DEF IInv, EnvOK
    <2>6. QED
      BY <2>3, <2>4, <2>5 DEF EnvOK
  <1>5. QED
    BY <1>4 DEF Edit, IInv, VaultOK, Progress, Loading

LEMMA VaultChangesKeepsIInv ==
  ASSUME IInv, VaultChanges
  PROVE  IInv'
  <1>1. PICK field \in DOMAIN vault : \E fact \in Facts[field] \ {vault[field]} :
          vault' = [vault EXCEPT ![field] = fact]
    BY DEF VaultChanges
  <1>2. PICK fact \in Facts[field] : vault' = [vault EXCEPT ![field] = fact]
    BY <1>1
  <1>3. VaultOK'
    <2>1. /\ Facts["url"] = Urls \cup {""} /\ Facts["tree"] = {"none", "root", "above"}
      BY DEF Facts
    <2>2. \A other : vault'[other] = IF other = field THEN fact ELSE vault[other]
      BY <1>1, <1>2
    <2>3. vault["url"] \in Urls \cup {""} /\ vault["tree"] \in {"none", "root", "above"}
      BY DEF IInv, VaultOK
    <2>4. vault'["url"] \in Urls \cup {""} /\ vault'["tree"] \in {"none", "root", "above"}
      BY <1>2, <2>1, <2>2, <2>3
    <2>5. QED
      BY <2>4 DEF VaultOK
  <1>4. /\ touched' /\ pc' = pc /\ pc # "refused"
        /\ UNCHANGED <<env, pc, at, round, loaded>>
    BY DEF VaultChanges
  <1>5. EnvOK' /\ Progress' /\ Loading'
    BY <1>4 DEF IInv, EnvOK, Progress, Loading, Declared, Enabled
  <1>6. QED
    BY <1>3, <1>4, <1>5 DEF IInv

-----------------------------------------------------------------------------
\* What depends only on the settings and the vault.
LEMMA SameConfig ==
  ASSUME UNCHANGED <<env, vault>>, EnvOK, VaultOK
  PROVE  /\ EnvOK' /\ VaultOK' /\ Enabled' = Enabled /\ Declared' = Declared
         /\ \A i \in 1..8 : Fails(Checks[i])' = Fails(Checks[i])
         /\ \A n \in 0..8 : Passed(n)' = Passed(n)
  <1>1. EnvOK' /\ VaultOK' /\ Enabled' = Enabled /\ Declared' = Declared
    BY DEF EnvOK, VaultOK, Enabled, Declared
  <1>2. \A i \in 1..8 : Fails(Checks[i])' = Fails(Checks[i])
    BY DEF Fails, Checks, Repository, RemoteKnown, NeedsToken, AuthorResolves, Identity
  <1>3. \A n \in 0..8 : Passed(n)' = Passed(n)
    BY <1>2 DEF Passed
  <1>4. QED
    BY <1>1, <1>2, <1>3

\* Main and before_indexes_start begin a validation.
LEMMA ValidatingKeepsIInv ==
  ASSUME IInv, Main \/ BeforeIndexesStart
  PROVE  IInv'
  <1>1. UNCHANGED <<env, vault, loaded>> /\ at' = 1 /\ touched' = FALSE
    BY DEF Main, BeforeIndexesStart, Validating
  <1>2. EnvOK' /\ VaultOK' /\ Enabled' = Enabled /\ Declared' = Declared
    BY <1>1, SameConfig DEF IInv
  <1>3. Passed(0)'
    BY DEF Passed
  <1>4. Len(Declared) \in Nat
    BY LenProperties DEF IInv, EnvOK
  <1>5. FirstN(0) = <<>>
    BY DEF FirstN
  <1>6. CASE Main
    <2>1. /\ round' = 1 /\ loaded' = <<>>
          /\ (Enabled /\ pc' = "validate") \/ (~Enabled /\ pc' = "load")
      BY <1>6 DEF Main, Validating, IInv, Loading
    <2>2. Progress'
      BY <1>1, <1>2, <1>3, <2>1 DEF Progress
    <2>3. Loading'
      BY <1>1, <1>2, <1>4, <1>5, <2>1 DEF Loading
    <2>4. QED
      BY <1>2, <2>1, <2>2, <2>3 DEF IInv, Places
  <1>7. CASE BeforeIndexesStart
    <2>1. /\ round' = 2 /\ loaded' = FirstN(Len(Declared))
          /\ (Enabled /\ pc' = "validate") \/ (~Enabled /\ pc' = "inert")
      BY <1>1, <1>7 DEF BeforeIndexesStart, Validating, IInv, Loading
    <2>2. Progress'
      BY <1>1, <1>2, <1>3, <2>1 DEF Progress
    <2>3. Loading'
      BY <1>1, <1>2, <2>1 DEF Loading, FirstN
    <2>4. QED
      BY <1>2, <2>1, <2>2, <2>3 DEF IInv, Places
  <1>8. QED
    BY <1>6, <1>7

LEMMA CheckKeepsIInv ==
  ASSUME IInv, Check
  PROVE  IInv'
  <1>1. /\ UNCHANGED <<env, vault, round, loaded, touched>> /\ pc = "validate"
        /\ Enabled /\ at \in 1..8 /\ (~touched => Passed(at - 1)) /\ round \in {1, 2}
    BY DEF Check, IInv, Progress, Loading
  <1>2. /\ EnvOK' /\ VaultOK' /\ Enabled' = Enabled /\ Declared' = Declared
        /\ \A i \in 1..8 : Fails(Checks[i])' = Fails(Checks[i])
        /\ \A n \in 0..8 : Passed(n)' = Passed(n)
    BY <1>1, SameConfig DEF IInv
  <1>3. CASE Fails(Checks[at])
    <2>1. pc' = "refused" /\ at' = at
      BY <1>3 DEF Check
    <2>2. Progress'
      BY <1>1, <1>2, <1>3, <2>1 DEF Progress
    <2>3. QED
      BY <1>1, <1>2, <2>1, <2>2 DEF IInv, Loading, Places
  <1>4. CASE ~Fails(Checks[at])
    <2>1. ~touched => Passed(at)
      BY <1>1, <1>4 DEF Passed
    <2>2. CASE at < 8
      <3>1. at' = at + 1 /\ pc' = "validate"
        BY <1>1, <1>4, <2>2, EightChecks DEF Check
      <3>2. Progress'
        BY <1>1, <1>2, <2>1, <2>2, <3>1 DEF Progress
      <3>3. Loading'
        BY <1>1, <1>2, <3>1 DEF IInv, Loading, FirstN
      <3>4. QED
        BY <1>2, <3>1, <3>2, <3>3 DEF IInv, Places
    <2>3. CASE at = 8
      <3>1. at' = 1 /\ pc' = IF round = 1 THEN "load" ELSE "listen"
        BY <1>1, <1>4, <2>3, EightChecks DEF Check
      <3>2. Progress'
        BY <1>1, <1>2, <2>1, <2>3, <3>1 DEF Progress
      <3>3. Len(Declared) \in Nat /\ FirstN(0) = <<>>
        <4>1. Len(Declared) \in Nat
          BY LenProperties DEF IInv, EnvOK
        <4>2. QED
          BY <4>1 DEF FirstN
      <3>4. Loading'
        BY <1>1, <1>2, <3>1, <3>3 DEF IInv, Loading, FirstN
      <3>5. QED
        BY <1>2, <3>1, <3>2, <3>4 DEF IInv, Places
    <2>4. QED
      BY <1>1, <2>2, <2>3
  <1>5. QED
    BY <1>3, <1>4

LEMMA LoadKeepsIInv ==
  ASSUME IInv, Load
  PROVE  IInv'
  <1>1. /\ UNCHANGED <<env, vault, round, touched>> /\ pc = "load"
        /\ at \in 1..Len(Declared) /\ loaded = FirstN(at - 1) /\ Len(Declared) \in Nat
        /\ DOMAIN Declared = 1..Len(Declared)
    <2>1. Len(Declared) \in Nat /\ DOMAIN Declared = 1..Len(Declared)
      BY LenProperties DEF IInv, EnvOK
    <2>2. UNCHANGED <<env, vault, round, touched>> /\ pc = "load" /\ at <= Len(Declared)
      BY DEF Load
    <2>3. at \in 1..(Len(Declared) + 1) /\ loaded = FirstN(at - 1)
      BY <2>2 DEF IInv, Loading
    <2>4. QED
      BY <2>1, <2>2, <2>3
  <1>2. EnvOK' /\ VaultOK' /\ Enabled' = Enabled /\ Declared' = Declared
    BY <1>1, SameConfig DEF IInv
  <1>3. CASE Declared[at] = "extension"
    <2>1. loaded' = Append(FirstN(at - 1), at) /\ at' = at + 1 /\ pc' = "load"
      BY <1>1, <1>3 DEF Load
    <2>2. Append(FirstN(at - 1), at) = FirstN(at)
      <3>1. at - 1 \in Nat /\ at \in Nat
        BY <1>1
      <3>2. FirstN(at - 1) \in Seq(Nat) /\ Len(FirstN(at - 1)) = at - 1
        <4>1. FirstN(at - 1) \in [1..(at - 1) -> Nat]
          BY <3>1 DEF FirstN
        <4>2. QED
          BY <3>1, <4>1, SeqDef, LenProperties
      <3>3. Append(FirstN(at - 1), at) = [i \in 1..at |-> IF i = at THEN at ELSE FirstN(at - 1)[i]]
        BY <3>1, <3>2
      <3>4. QED
        BY <3>1, <3>3 DEF FirstN
    <2>3. Progress'
      BY <2>1 DEF Progress
    <2>4. Loading'
      BY <1>1, <1>2, <2>1, <2>2 DEF IInv, Loading
    <2>5. QED
      BY <1>2, <2>1, <2>3, <2>4 DEF IInv, Places
  <1>4. CASE Declared[at] # "extension"
    <2>1. pc' \in {"traceback", "refused"} /\ loaded' = loaded /\ at' = at
      BY <1>1, <1>4 DEF Load
    <2>2. Progress'
      BY <1>1, <1>2, <1>4, <2>1 DEF Progress, Unloadable
    <2>3. Loading'
      BY <1>1, <1>2, <2>1 DEF IInv, Loading
    <2>4. QED
      BY <1>2, <2>1, <2>2, <2>3 DEF IInv, Places
  <1>5. QED
    BY <1>3, <1>4

LEMMA ServingKeepsIInv ==
  ASSUME IInv, Serve \/ AfterIndexesStart
  PROVE  IInv'
  <1>1. /\ UNCHANGED <<env, vault, at, round, loaded, touched>>
        /\ (pc = "load" /\ pc' = "serve" /\ at > Len(Declared)) \/ (pc = "listen" /\ pc' = "running")
    BY DEF Serve, AfterIndexesStart
  <1>2. /\ EnvOK' /\ VaultOK' /\ Enabled' = Enabled /\ Declared' = Declared
        /\ \A n \in 0..8 : Passed(n)' = Passed(n)
    BY <1>1, SameConfig DEF IInv
  <1>3. Len(Declared) \in Nat
    BY LenProperties DEF IInv, EnvOK
  <1>4. Progress'
    BY <1>1, <1>2 DEF IInv, Progress
  <1>5. Loading'
    <2>1. pc = "load" => at - 1 = Len(Declared)
      BY <1>1, <1>3 DEF IInv, Loading
    <2>2. QED
      BY <1>1, <1>2, <1>3, <2>1 DEF IInv, Loading, FirstN
  <1>6. QED
    BY <1>1, <1>2, <1>4, <1>5 DEF IInv, Places

\* The inductive invariant.
LEMMA Invariant == Spec => []IInv
  <1>1. IInv /\ [Next]_vars => IInv'
    <2> SUFFICES ASSUME IInv, [Next]_vars PROVE IInv'
      OBVIOUS
    <2>1. CASE UNCHANGED vars
      <3>1. /\ EnvOK' /\ VaultOK' /\ Enabled' = Enabled /\ Declared' = Declared
            /\ \A i \in 1..8 : Fails(Checks[i])' = Fails(Checks[i])
            /\ \A n \in 0..8 : Passed(n)' = Passed(n)
        BY <2>1, SameConfig DEF vars, IInv
      <3>2. QED
        BY <2>1, <3>1 DEF vars, IInv, Progress, Loading, Unloadable
    <2>2. QED
      BY <2>1, EditKeepsIInv, VaultChangesKeepsIInv, ValidatingKeepsIInv, CheckKeepsIInv,
         LoadKeepsIInv, ServingKeepsIInv DEF Next
  <1>2. QED
    BY <1>1, InitIInv, PTL DEF Spec

-----------------------------------------------------------------------------
\* A backup that runs works if and only if it is in no blind spot (validate_gitsync).
THEOREM ValidatedBackupWorks == Spec => []RunningBackupWorks
  <1>1. IInv => RunningBackupWorks
    BY PassedWorks, BlindIsBroken DEF IInv, Progress, RunningBackupWorks
  <1>2. QED
    BY <1>1, Invariant, PTL

\* No boot is refused that would have worked, but out of caution (validate_gitsync).
THEOREM NoUndeservedRefusal == Spec => []RefusalIsDeserved
  <1>1. IInv => RefusalIsDeserved
    BY FailedIsBroken DEF IInv, Progress, RefusalIsDeserved
  <1>2. QED
    BY <1>1, Invariant, PTL

\* The server gets the whole list of extensions, or none (load_extra_extensions).
THEOREM ServedListIsWhole == Spec => []WholeListServed
  <1>1. IInv => WholeListServed
    <2> SUFFICES ASSUME IInv, pc \in {"serve", "listen", "running", "inert"}
                 PROVE  loaded = [i \in DOMAIN Declared |-> i]
      BY DEF WholeListServed
    <2>1. DOMAIN Declared = 1..Len(Declared)
      BY LenProperties DEF IInv, EnvOK
    <2>2. QED
      BY <2>1 DEF IInv, Loading, FirstN
  <1>2. QED
    BY <1>1, Invariant, PTL

-----------------------------------------------------------------------------
(* Types.                                                                   *)

LEMMA ShortLists ==
  ASSUME NEW list \in Values["EXTENSIONS"]
  PROVE  Len(list) \in 0..2
  <1>1. list \in UNION {[1..n -> Entries] : n \in 0..2}
    BY SettingValues
  <1>2. PICK n \in 0..2 : list \in [1..n -> Entries]
    BY <1>1
  <1>3. n \in Nat
    OBVIOUS
  <1>4. list \in Seq(Entries)
    BY <1>2, <1>3, SeqDef
  <1>5. Len(list) = n
    BY <1>2, <1>3, <1>4, LenProperties
  <1>6. QED
    BY <1>5

\* Every default is a value of its setting.
LEMMA DefaultsTyped ==
  /\ DOMAIN Default = DOMAIN Values
  /\ \A name \in DOMAIN Values : Default[name] \in Values[name]
  <1>1. <<>> \in [1..0 -> Entries]
    OBVIOUS
  <1>2. <<>> \in UNION {[1..n -> Entries] : n \in 0..2}
    <2>1. 0 \in 0..2
      OBVIOUS
    <2>2. [1..0 -> Entries] \in {[1..n -> Entries] : n \in 0..2}
      BY <2>1, Zenon
    <2>3. QED
      BY <1>1, <2>2, Zenon
  <1>2a. <<>> \in Values["EXTENSIONS"]
    BY <1>2, SettingValues
  <1>3. "count" \in Numbers
    BY DEF Numbers
  <1>4. DOMAIN Values = {"SYNC_ENABLED", "SWEEP", "DEBOUNCE", "MAX_INTERVAL", "REMOTE", "BRANCH",
                         "TOKEN", "AUTHOR_NAME", "AUTHOR_EMAIL", "GIT_AUTHOR", "HEARTBEAT_URL",
                         "EXTENSIONS"}
    BY DEF Values
  <1>5. /\ "" \in Values["SYNC_ENABLED"] /\ "named" \in Values["REMOTE"] /\ "" \in Values["BRANCH"]
        /\ "" \in Values["TOKEN"] /\ "" \in Values["AUTHOR_NAME"] /\ "" \in Values["AUTHOR_EMAIL"]
        /\ "" \in Values["GIT_AUTHOR"] /\ "" \in Values["HEARTBEAT_URL"]
    BY DEF Values
  <1>6. /\ Default["SWEEP"] = "count" /\ Default["DEBOUNCE"] = "count"
        /\ Default["MAX_INTERVAL"] = "count" /\ Default["REMOTE"] = "named"
        /\ Default["EXTENSIONS"] = <<>>
    BY <1>4 DEF Default
  <1>7. \A name \in DOMAIN Values :
          name \notin {"SWEEP", "DEBOUNCE", "MAX_INTERVAL", "REMOTE", "EXTENSIONS"}
            => Default[name] = ""
    BY DEF Default
  <1>8. DOMAIN Default = DOMAIN Values
    BY DEF Default
  <1>9. ASSUME NEW name \in DOMAIN Values PROVE Default[name] \in Values[name]
    <2>1. CASE name \in {"SWEEP", "DEBOUNCE", "MAX_INTERVAL"}
      BY <1>3, <1>6, <2>1, SettingValues
    <2>2. CASE name = "REMOTE"
      BY <1>5, <1>6, <2>2
    <2>3. CASE name = "EXTENSIONS"
      BY <1>2a, <1>6, <2>3
    <2>4. CASE name \notin {"SWEEP", "DEBOUNCE", "MAX_INTERVAL", "REMOTE", "EXTENSIONS"}
      <3>1. "" \in Values[name]
        BY <1>4, <1>5, <2>4
      <3>2. Default[name] = ""
        BY <1>7, <2>4
      <3>3. QED
        BY <3>1, <3>2
    <2>5. QED
      BY <2>1, <2>2, <2>3, <2>4
  <1>10. QED
    BY <1>8, <1>9

LEMMA InitTypes == Init => TypeOK
  <1> SUFFICES ASSUME Init PROVE TypeOK
    OBVIOUS
  <1>1. PICK value \in Values["SYNC_ENABLED"] : env = [Default EXCEPT !["SYNC_ENABLED"] = value]
    BY DEF Init
  <1>2. DOMAIN env = DOMAIN Values /\ \A name \in DOMAIN Values : env[name] \in Values[name]
    BY <1>1, DefaultsTyped
  <1>3. DOMAIN vault = DOMAIN Facts /\ \A field \in DOMAIN Facts : vault[field] \in Facts[field]
    <2>1. PICK url \in Urls :
            vault = [dir |-> TRUE, tree |-> "root", url |-> url, head |-> "branch",
                     identity |-> {"name", "email"}, helper |-> FALSE]
      BY DEF Init
    <2>2. DOMAIN vault = {"dir", "tree", "url", "head", "identity", "helper"}
      BY <2>1
    <2>3. DOMAIN Facts = {"dir", "tree", "url", "head", "identity", "helper"}
      BY DEF Facts
    <2>4. /\ Facts["dir"] = BOOLEAN /\ Facts["tree"] = {"none", "root", "above"}
          /\ Facts["head"] = {"branch", "other", "detached"} /\ Facts["helper"] = BOOLEAN
          /\ Facts["url"] = Urls \cup {""} /\ Facts["identity"] = SUBSET {"name", "email"}
      BY DEF Facts
    <2>5. /\ vault["dir"] = TRUE /\ vault["tree"] = "root" /\ vault["head"] = "branch"
          /\ vault["url"] = url /\ vault["identity"] = {"name", "email"} /\ vault["helper"] = FALSE
      BY <2>1
    <2>6. /\ vault["dir"] \in BOOLEAN /\ vault["tree"] \in {"none", "root", "above"}
          /\ vault["head"] \in {"branch", "other", "detached"} /\ vault["helper"] \in BOOLEAN
          /\ vault["url"] \in Urls \cup {""} /\ vault["identity"] \in SUBSET {"name", "email"}
      BY <2>5, Zenon
    <2>7. ASSUME NEW field \in DOMAIN Facts PROVE vault[field] \in Facts[field]
      BY <2>3, <2>4, <2>6, Zenon
    <2>8. QED
      BY <2>2, <2>3, <2>7
  <1>4. Len(Checks) = 8 /\ MaxEdits \in Nat /\ MaxChanges \in Nat
    BY EightChecks, BoundsAssumption
  <1>5. /\ edits = 0 /\ changes = 0 /\ at = 1 /\ round = 0 /\ touched = FALSE /\ pc = "off"
    BY Zenon DEF Init
  <1>6. /\ edits \in 0..MaxEdits /\ changes \in 0..MaxChanges /\ at \in 1..Len(Checks)
        /\ round \in 0..2
    BY <1>4, <1>5
  <1>7. touched \in BOOLEAN
    BY <1>5, Zenon
  <1>8. QED
    BY <1>2, <1>3, <1>5, <1>6, <1>7 DEF TypeOK

LEMMA NextTypes == IInv /\ TypeOK /\ [Next]_vars => TypeOK'
  <1> SUFFICES ASSUME IInv, TypeOK, [Next]_vars PROVE TypeOK'
    OBVIOUS
  <1>0. Len(Checks) = 8 /\ MaxEdits \in Nat /\ MaxChanges \in Nat
    BY EightChecks, BoundsAssumption
  <1>1. CASE Edit
    <2>1. \E name \in DOMAIN Values : \E value \in Values[name] : env' = [env EXCEPT ![name] = value]
      BY <1>1 DEF Edit
    <2>2. DOMAIN env' = DOMAIN Values /\ \A other \in DOMAIN Values : env'[other] \in Values[other]
      BY <2>1 DEF TypeOK
    <2>3. edits' \in 0..MaxEdits
      BY <1>0, <1>1 DEF Edit, TypeOK
    <2>4. QED
      BY <1>1, <2>2, <2>3 DEF Edit, TypeOK
  <1>2. CASE VaultChanges
    <2>1. \E field \in DOMAIN vault : \E fact \in Facts[field] : vault' = [vault EXCEPT ![field] = fact]
      BY <1>2 DEF VaultChanges
    <2>2. DOMAIN vault' = DOMAIN Facts /\ \A other \in DOMAIN Facts : vault'[other] \in Facts[other]
      BY <2>1 DEF TypeOK
    <2>3. changes' \in 0..MaxChanges
      BY <1>0, <1>2 DEF VaultChanges, TypeOK
    <2>4. QED
      BY <1>2, <2>2, <2>3 DEF VaultChanges, TypeOK
  <1>3. CASE Main \/ BeforeIndexesStart
    <2>1. round' \in {1, 2} /\ at' = 1 /\ touched' = FALSE
      BY <1>3 DEF Main, BeforeIndexesStart, Validating
    <2>2. pc' \in {"validate", "load", "inert"}
      BY <1>3 DEF Main, BeforeIndexesStart, Validating
    <2>3. UNCHANGED <<env, vault, edits, changes>>
      BY <1>3 DEF Main, BeforeIndexesStart, Validating
    <2>4. round' \in 0..2 /\ at' \in 1..Len(Checks)
      BY <1>0, <2>1
    <2>5. touched' \in BOOLEAN
      BY <2>1, Zenon
    <2>6. /\ DOMAIN env' = DOMAIN Values /\ \A name \in DOMAIN Values : env'[name] \in Values[name]
          /\ DOMAIN vault' = DOMAIN Facts
          /\ \A field \in DOMAIN Facts : vault'[field] \in Facts[field]
          /\ edits' \in 0..MaxEdits /\ changes' \in 0..MaxChanges
      BY <2>3, Zenon DEF TypeOK
    <2>7. pc' \in {"off", "validate", "load", "serve", "listen", "running", "inert", "refused",
                   "traceback"}
      BY <2>2
    <2>8. QED
      BY <2>4, <2>5, <2>6, <2>7, Zenon DEF TypeOK
  <1>4. CASE Check
    <2>1. at' \in 1..8
      BY <1>0, <1>4 DEF Check, TypeOK
    <2>2. pc' \in Places
      BY <1>4 DEF Check, Places
    <2>3. QED
      BY <1>0, <1>4, <2>1, <2>2 DEF Check, TypeOK, Places
  <1>5. CASE Load
    <2>1. Len(Declared) \in 0..2
      <3>1. env["EXTENSIONS"] \in Values["EXTENSIONS"]
        BY DEF TypeOK, Values
      <3>2. QED
        BY <3>1, ShortLists DEF Declared
    <2>2. at' \in 1..8
      BY <1>0, <1>5, <2>1 DEF Load, TypeOK
    <2>3. pc' \in Places
      BY <1>5 DEF Load, Places
    <2>4. QED
      BY <1>0, <1>5, <2>2, <2>3 DEF Load, TypeOK, Places
  <1>6. CASE Serve \/ AfterIndexesStart
    BY <1>6 DEF Serve, AfterIndexesStart, TypeOK
  <1>7. CASE UNCHANGED vars
    BY <1>7 DEF vars, TypeOK
  <1>8. QED
    BY <1>1, <1>2, <1>3, <1>4, <1>5, <1>6, <1>7 DEF Next

\* Every setting and every fact of the vault keeps its class, and no boot looks for
\* a ninth check or past its list of extensions (validate_gitsync,
\* load_extra_extensions).
THEOREM BootTypes == Spec => []TypeOK
  <1>1. QED
    BY InitTypes, NextTypes, Invariant, PTL DEF Spec
=============================================================================

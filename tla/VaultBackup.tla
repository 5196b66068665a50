---------------------------- MODULE VaultBackup ----------------------------
(***************************************************************************)
(* What the extension is for, with no git command in sight: the vault's     *)
(* history is saved commit by commit, its backup on the remote holds the    *)
(* same commits sooner or later, and the server knows when it does not yet. *)
(* GitWorker implements this module (GitBackup).                            *)
(***************************************************************************)
EXTENDS Naturals, SequencesExt

CONSTANTS
  First,    \* the commit the vault and its backup start with
  Parts,    \* the parts of a file
  Absent    \* what a path holds that has no file

VARIABLES
  saved,    \* the commits of the vault's branch
  backup,   \* the commits of the remote's
  owed,     \* the server's record that the backup lacks something
  up        \* whether the server runs

bvars == <<saved, backup, owed, up>>

Init == saved = <<First>> /\ backup = <<First>> /\ owed = FALSE /\ up = TRUE

\* One more commit on top.
Grows(old, new) == IsPrefix(old, new) /\ Len(new) = Len(old) + 1

\* The vault is saved.  The server may not learn of it, when the command that
\* saved it is killed.
Save == up /\ Grows(saved, saved') /\ owed' \in {owed, TRUE} /\ UNCHANGED <<backup, up>>

\* The server takes something for saved that is not part of the history.
Assume == up /\ owed' = TRUE /\ UNCHANGED <<saved, backup, up>>

\* What a tree has at a hunk of a path.
Spot(tree, p, h) == IF tree[p] = Absent THEN Absent ELSE tree[p][h]

\* `new` makes the changes `old` made to the tree before it, and holds at every
\* other hunk what was there or what `theirs` has.
Redoes(before, old, new, theirs) ==
  /\ new.label = old.label
  /\ \A p \in DOMAIN old.tree, h \in Parts :
       IF Spot(old.tree, p, h) # Spot(before.tree, p, h)
         THEN Spot(new.tree, p, h) = Spot(old.tree, p, h)
         ELSE Spot(new.tree, p, h) \in {Spot(old.tree, p, h), Spot(theirs.tree, p, h)}

\* The vault's own commits are redone on top of some of the backup's: in order,
\* none left out, and each with all of its changes.
Merge ==
  /\ up
  /\ \E n \in 1..Len(backup), fork \in 1..Len(saved) :
       /\ fork <= n /\ SubSeq(saved, 1, fork) = SubSeq(backup, 1, fork)
       /\ IsPrefix(SubSeq(backup, 1, n), saved')
       /\ Len(saved') = Len(saved) + (n - fork)
       /\ \A i \in (fork + 1)..Len(saved) :
            Redoes(saved[i - 1], saved[i], saved'[i + (n - fork)], backup[n])
  /\ UNCHANGED <<backup, owed, up>>

\* The backup catches up with the vault: it only ever gains commits, and only
\* then is the record cleared.
Deliver ==
  /\ up /\ IsPrefix(backup, saved)
  /\ backup' = saved
  /\ owed' \in {owed, FALSE}
  /\ UNCHANGED <<saved, up>>

\* Someone else adds to the backup.
Contribute == Grows(backup, backup') /\ UNCHANGED <<saved, owed, up>>

\* The server stops, and forgets.
Stop == up /\ up' = FALSE /\ owed' = FALSE /\ UNCHANGED <<saved, backup>>
Start == ~up /\ up' = TRUE /\ UNCHANGED <<saved, backup, owed>>

Next == Save \/ Assume \/ Merge \/ Deliver \/ Contribute \/ Stop \/ Start

Spec == Init /\ [][Next]_bvars
=============================================================================

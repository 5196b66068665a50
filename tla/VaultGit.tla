------------------------------ MODULE VaultGit ------------------------------
(***************************************************************************)
(* The vault's git repository, as the commands of git_ops.py see it: trees, *)
(* linear histories, the index, and what `git add`, `git commit`,           *)
(* `git rebase -X theirs` and `git push` make of them.  Pure operators, no  *)
(* state.  git itself is external; each operator says which call of         *)
(* src/src/obsidian_git_sync/git_ops.py it stands behind.                   *)
(*                                                                         *)
(* A file is a few hunks, far enough apart for git to merge them one by one; *)
(* each holds the write that left it, so no two writes are equal.           *)
(* A history is the sequence of commits from the root: merges do not occur  *)
(* (the worker rebases, peers push on top of what they fetched).  A commit  *)
(* is its label (the message's `mcp:`/`sync:` prefix) and its whole tree;   *)
(* the history before it makes it the commit it is, as a parent hash does.  *)
(***************************************************************************)
EXTENDS Naturals, FiniteSets, SequencesExt

CONSTANTS
  Paths,       \* the vault's files
  Hunks,       \* the parts of a file that are merged on their own
  NoFile,      \* what an absent path holds
  MaxWrites    \* bound: how many writes the environment makes in a behaviour

\* "front" is a note's frontmatter, where its stamps are.
ASSUME WritesAssumption == MaxWrites \in Nat /\ IsFiniteSet(Paths) /\ "front" \in Hunks

Writers == {"mcp", "device", "peer"}

Edit == [ver : 0..MaxWrites, by : Writers \cup {"stamp"}]
File == [Hunks -> Edit]
Tree == [Paths -> File \cup {NoFile}]

ASSUME AbsenceAssumption == NoFile \notin File \cup Edit

Labels == {"root", "mcp", "sync", "peer"}
Commit == [label : Labels, tree : Tree]
History == Seq(Commit) \ {<<>>}

Tip(history) == Last(history).tree

\* What a write makes of a path that held `old`: a new file, or some of its hunks.
Written(old, edit) ==
  {[h \in Hunks |-> IF old = NoFile \/ h \in part THEN edit ELSE old[h]] :
     part \in (SUBSET Hunks) \ {{}}}

\* What a tree has at a hunk of a path.
Spot(tree, p, h) == IF tree[p] = NoFile THEN NoFile ELSE tree[p][h]

\* The paths two trees disagree on.
Changed(old, new) == {p \in Paths : old[p] # new[p]}

\* `git add -A -- <paths>` refuses, staging nothing, when a pathspec matches
\* neither a file on disk nor an entry of the index.
Unmatched(paths, wt, index) == {p \in paths : wt[p] = NoFile /\ index[p] = NoFile}

\* The index after `git add -A -- <paths>`: additions, edits and removals.
Staged(paths, wt, index) == [p \in Paths |-> IF p \in paths THEN wt[p] ELSE index[p]]

\* What a checkout that moves HEAD from tree `old` to tree `new` leaves on disk.
CheckedOut(wt, old, new) == [p \in Paths |-> IF old[p] = new[p] THEN wt[p] ELSE new[p]]

-----------------------------------------------------------------------------
(* git rebase -X theirs <upstream>                                          *)

\* How many commits two histories share; both start at the same root.
ForkPoint(local, upstream) ==
  Cardinality({n \in 1..Len(local) :
                 n <= Len(upstream) /\ \A i \in 1..n : local[i] = upstream[i]})

\* A commit that deletes what HEAD has changed, or changes what HEAD has deleted,
\* stops the rebase: -X theirs settles hunks, not existence.
ConflictPaths(base, ours, theirs) ==
  {p \in Changed(base, theirs) :
     ours[p] # base[p] /\ (ours[p] = NoFile) # (theirs[p] = NoFile)}

\* Mutant: -X ours, the upstream wins a conflicting hunk.
Picked_Ours(base, ours, theirs) ==
  [p \in Paths |->
     IF theirs[p] = base[p] \/ (theirs[p] = NoFile /\ p \in ConflictPaths(base, ours, theirs))
       THEN ours[p]
     ELSE IF NoFile \in {base[p], ours[p], theirs[p]} THEN theirs[p]
     ELSE [h \in Hunks |-> IF ours[p][h] # base[p][h] THEN ours[p][h] ELSE theirs[p][h]]]

\* Picking a commit (`theirs`, made on `base`) onto HEAD (`ours`): a path it left
\* alone stays, a file one side lacks is taken whole, and of a file all three have,
\* the hunks it changed are its own (-X theirs) and the others HEAD's.  What is left
\* on disk at a conflict is the side that has the file.
Picked(base, ours, theirs) ==
  [p \in Paths |->
     IF theirs[p] = base[p] \/ (theirs[p] = NoFile /\ p \in ConflictPaths(base, ours, theirs))
       THEN ours[p]
     ELSE IF NoFile \in {base[p], ours[p], theirs[p]} THEN theirs[p]
     ELSE [h \in Hunks |-> IF theirs[p][h] # base[p][h] THEN theirs[p][h] ELSE ours[p][h]]]

\* The rebase refuses to start on tracked changes, staged or not.
Dirty(wt, index, head) ==
  index # Tip(head) \/ \E p \in Paths : index[p] # NoFile /\ wt[p] # index[p]

\* A checkout refuses to overwrite what the index does not know, untracked files
\* and changes to tracked ones; a file that is gone from the disk is not in its way.
InTheWay(wt, index, new) == \E p \in Changed(index, new) : wt[p] \notin {index[p], NoFile}

\* `git rebase --abort` resets index and disk hard to the branch's tip: only
\* files neither the index nor the tip knows stay as they are.
ResetHard(wt, index, unmerged, branch) ==
  [p \in Paths |-> IF index[p] # NoFile \/ p \in unmerged \/ Tip(branch)[p] # NoFile
                     THEN Tip(branch)[p] ELSE wt[p]]

-----------------------------------------------------------------------------
\* Everything some commit of the history holds: at which hunk of which path.
Versions(history) ==
  UNION {{<<p, h, history[i].tree[p][h]>> : p \in {q \in Paths : history[i].tree[q] # NoFile},
                                            h \in Hunks} : i \in 1..Len(history)}
=============================================================================

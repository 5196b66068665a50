--------------------------- MODULE VaultGit_proofs ---------------------------
(***************************************************************************)
(* Facts about the repository operators, for every set of files and every   *)
(* history.                                                                 *)
(***************************************************************************)
EXTENDS VaultGit, FiniteSetTheorems, WellFoundedInduction, TLAPS

\* Induction on a set of numbers: those outside it would have a least one.
LEMMA SetInduction ==
  ASSUME NEW S \in SUBSET Nat, 0 \in S, \A n \in S : n + 1 \in S
  PROVE  S = Nat
<1> SUFFICES ASSUME Nat \ S # {} PROVE FALSE
  OBVIOUS
<1> DEFINE T == Nat \ S
<1>1. PICK m \in T : \A n \in T : <<n, m>> \notin OpToRel(<, Nat)
  BY WFMin, NatLessThanWellFounded, Zenon
<1>2. \A n \in T : ~(n < m)
  BY <1>1, Zenon DEF OpToRel
<1>3. m \in Nat /\ m # 0
  OBVIOUS
<1>4. m - 1 \in Nat /\ m - 1 < m /\ (m - 1) + 1 = m
  BY <1>3
<1>5. m - 1 \in S
  BY <1>2, <1>4
<1> QED BY <1>4, <1>5

\* IsPrefix, point by point: the form the provers reason with.
LEMMA PrefixPoints ==
  ASSUME NEW S, NEW s \in Seq(S), NEW t \in Seq(S)
  PROVE  IsPrefix(s, t) <=> /\ Len(s) <= Len(t)
                            /\ \A i \in 1..Len(s) : s[i] = t[i]
<1>1. ASSUME Len(s) <= Len(t)
      PROVE  /\ SubSeq(s, 1, Len(s)) = [i \in 1..Len(s) |-> s[i]]
             /\ SubSeq(t, 1, Len(s)) = [i \in 1..Len(s) |-> t[i]]
  BY <1>1
<1> QED BY <1>1 DEF IsPrefix

\* A history is a prefix of itself, and prefixes compose.
LEMMA PrefixReflexive ==
  ASSUME NEW S, NEW s \in Seq(S)
  PROVE  IsPrefix(s, s)
BY PrefixPoints

LEMMA PrefixTransitive ==
  ASSUME NEW S, NEW s \in Seq(S), NEW t \in Seq(S), NEW u \in Seq(S),
         IsPrefix(s, t), IsPrefix(t, u)
  PROVE  IsPrefix(s, u)
BY PrefixPoints

\* What a push on top of the remote leaves below it.
LEMMA PrefixAppend ==
  ASSUME NEW S, NEW s \in Seq(S), NEW e \in S
  PROVE  IsPrefix(s, Append(s, e))
<1> DEFINE t == Append(s, e)
<1>1. t \in Seq(S) /\ Len(t) = Len(s) + 1 /\ Len(s) \in Nat
  OBVIOUS
<1>2. \A i \in 1..Len(s) : t[i] = s[i]
  OBVIOUS
<1> HIDE DEF t
<1>3. IsPrefix(s, t)
  BY <1>1, <1>2, PrefixPoints
<1> QED BY <1>3 DEF t

LEMMA ConcatLength ==
  ASSUME NEW S, NEW s \in Seq(S), NEW t \in Seq(S)
  PROVE  Len(s \o t) = Len(s) + Len(t)
OBVIOUS

LEMMA AppendFirst ==
  ASSUME NEW S, NEW s \in Seq(S), s # <<>>, NEW e
  PROVE  Append(s, e)[1] = s[1]
OBVIOUS

-----------------------------------------------------------------------------
\* The tip of a history is a tree.
LEMMA TipType ==
  ASSUME NEW h \in History
  PROVE  h \in Seq(Commit) /\ Len(h) \in Nat \ {0} /\ Tip(h) \in Tree
<1>1. h \in Seq(Commit) /\ h # <<>>
  BY DEF History
<1>2. Len(h) \in Nat \ {0}
  BY <1>1
<1>3. h[Len(h)] \in Commit
  BY <1>1, <1>2
<1> QED BY <1>1, <1>2, <1>3 DEF Tip, Last, Commit

LEMMA TreeTypes ==
  ASSUME NEW wt \in Tree, NEW index \in Tree, NEW new \in Tree,
         NEW h \in History, NEW paths, NEW unmerged
  PROVE  /\ Staged(paths, wt, index) \in Tree
         /\ CheckedOut(wt, index, new) \in Tree
         /\ ResetHard(wt, index, unmerged, h) \in Tree
<1>1. Tip(h) \in Tree
  BY TipType
<1> QED BY <1>1 DEF Staged, CheckedOut, ResetHard, Tree

LEMMA AppendCommit ==
  ASSUME NEW h \in History, NEW l \in Labels, NEW t \in Tree
  PROVE  Append(h, [label |-> l, tree |-> t]) \in History
<1>1. [label |-> l, tree |-> t] \in Commit
  BY DEF Commit
<1>2. Append(h, [label |-> l, tree |-> t]) \in Seq(Commit)
  BY <1>1 DEF History
<1>3. Len(Append(h, [label |-> l, tree |-> t])) = Len(h) + 1 /\ Len(h) \in Nat
  BY <1>1, TipType
<1> QED BY <1>2, <1>3 DEF History

LEMMA TipAppend ==
  ASSUME NEW S, NEW h \in Seq(S), NEW c \in S
  PROVE  Tip(Append(h, c)) = c.tree
<1>1. Append(h, c)[Len(Append(h, c))] = c
  OBVIOUS
<1> QED BY <1>1 DEF Tip, Last

\* Whatever part of a file a write changes, a file is what it leaves.
LEMMA WrittenType ==
  ASSUME NEW old \in File \cup {NoFile}, NEW edit \in Edit, NEW file \in Written(old, edit)
  PROVE  file \in File
<1>1. PICK part \in (SUBSET Hunks) \ {{}} :
        file = [h \in Hunks |-> IF old = NoFile \/ h \in part THEN edit ELSE old[h]]
  BY DEF Written
<1> QED BY <1>1 DEF File

\* Two histories share at most all of the local one.
LEMMA ForkPointType ==
  ASSUME NEW local \in History, NEW upstream \in History
  PROVE  ForkPoint(local, upstream) \in 0..Len(local)
<1> DEFINE Shared == {n \in 1..Len(local) :
              n <= Len(upstream) /\ \A i \in 1..n : local[i] = upstream[i]}
<1>1. Len(local) \in Nat
  BY TipType
<1>2. IsFiniteSet(1..Len(local)) /\ Cardinality(1..Len(local)) = Len(local)
  BY <1>1, FS_Interval
<1>3. Shared \subseteq 1..Len(local)
  OBVIOUS
<1>4. IsFiniteSet(Shared) /\ Cardinality(Shared) <= Len(local)
  BY <1>2, <1>3, FS_Subset
<1>5. Cardinality(Shared) \in Nat
  BY <1>4, FS_CardinalityType
<1> QED BY <1>1, <1>4, <1>5 DEF ForkPoint

LEMMA PrefixFirst ==
  ASSUME NEW s \in History, NEW t \in History, IsPrefix(s, t)
  PROVE  t[1] = s[1]
<1>1. /\ s \in Seq(Commit) /\ t \in Seq(Commit) /\ 1 \in 1..Len(s)
  BY TipType
<1> QED BY <1>1, PrefixPoints

-----------------------------------------------------------------------------
(* The fork point is what its name says: the histories agree up to there.   *)

\* A set of numbers that holds with every number the smaller ones, and has F
\* members, holds exactly 1..F.
LEMMA InitialSegment ==
  ASSUME NEW N \in Nat, NEW S \in SUBSET (1..N),
         \A n \in S : \A i \in 1..n : i \in S
  PROVE  Cardinality(S) \in Nat /\ S = 1..Cardinality(S)
<1> DEFINE F == Cardinality(S)
<1>1. IsFiniteSet(1..N)
  BY FS_Interval
<1>2. IsFiniteSet(S) /\ F \in Nat
  BY <1>1, FS_Subset, FS_CardinalityType
<1>3. ASSUME NEW n \in S PROVE n \in 1..F
  <2>1. n \in Nat /\ n >= 1 /\ 1..n \subseteq S
    OBVIOUS
  <2>2. Cardinality(1..n) = n
    BY <2>1, FS_Interval
  <2>3. n <= F
    BY <1>2, <2>1, <2>2, FS_Subset
  <2> QED BY <1>2, <2>1, <2>3
<1>4. ASSUME NEW i \in 1..F, i \notin S PROVE FALSE
  <2>1. ASSUME NEW j \in S PROVE j \in 1..(i - 1)
    <3>1. i \in Nat /\ i >= 1 /\ j \in Nat /\ j >= 1
      BY <1>2
    <3>2. j >= i => i \in 1..j
      BY <3>1
    <3> QED BY <1>4, <3>1, <3>2
  <2>2. i - 1 \in Nat /\ IsFiniteSet(1..(i - 1)) /\ Cardinality(1..(i - 1)) = i - 1
    <3>1. i \in Int /\ i >= 1 /\ i - 1 \in Int /\ i - 1 \in Nat
      BY <1>2
    <3> QED BY <3>1, FS_Interval
  <2>3. F <= i - 1
    BY <2>1, <2>2, FS_Subset
  <2> QED BY <1>2, <2>2, <2>3
<1> QED BY <1>2, <1>3, <1>4

LEMMA ForkPointShared ==
  ASSUME NEW local \in History, NEW upstream \in History
  PROVE  LET F == ForkPoint(local, upstream)
         IN  /\ F \in Nat /\ F <= Len(local) /\ F <= Len(upstream)
             /\ \A i \in 1..F : local[i] = upstream[i]
             /\ local[1] = upstream[1] => F >= 1
<1> DEFINE S == {n \in 1..Len(local) :
              n <= Len(upstream) /\ \A i \in 1..n : local[i] = upstream[i]}
           F == ForkPoint(local, upstream)
<1>1. Len(local) \in Nat \ {0} /\ Len(upstream) \in Nat \ {0}
  BY TipType
<1>2. \A n \in S : \A i \in 1..n : i \in S
  BY <1>1
<1>3. F = Cardinality(S)
  BY DEF ForkPoint
<1>4. S \in SUBSET (1..Len(local))
  OBVIOUS
<1> HIDE DEF S
<1>5. F \in Nat /\ S = 1..F
  BY <1>1, <1>2, <1>3, <1>4, InitialSegment
<1> USE DEF S
<1>6. F >= 1 => F \in S
  BY <1>5
<1>7. local[1] = upstream[1] => 1 \in S
  BY <1>1
<1>8. F \in S => F <= Len(local) /\ F <= Len(upstream) /\ \A i \in 1..F : local[i] = upstream[i]
  OBVIOUS
<1>9. local[1] = upstream[1] => F >= 1
  <2>1. 1 \in 1..F => F >= 1
    BY <1>5
  <2> QED BY <1>5, <1>7, <2>1
<1>10. F = 0 => F <= Len(local) /\ F <= Len(upstream) /\ \A i \in 1..F : local[i] = upstream[i]
  BY <1>1
<1> QED BY <1>5, <1>6, <1>8, <1>9, <1>10

\* ... and no further.
LEMMA ForkPointLast ==
  ASSUME NEW local \in History, NEW upstream \in History,
         NEW n \in 1..Len(local), n <= Len(upstream), \A i \in 1..n : local[i] = upstream[i]
  PROVE  n <= ForkPoint(local, upstream)
<1> DEFINE S == {m \in 1..Len(local) :
              m <= Len(upstream) /\ \A i \in 1..m : local[i] = upstream[i]}
           F == ForkPoint(local, upstream)
<1>1. Len(local) \in Nat \ {0} /\ Len(upstream) \in Nat \ {0}
  BY TipType
<1>2. \A m \in S : \A i \in 1..m : i \in S
  BY <1>1
<1>3. F = Cardinality(S)
  BY DEF ForkPoint
<1>4. S \in SUBSET (1..Len(local)) /\ n \in S
  OBVIOUS
<1> HIDE DEF S
<1>5. F \in Nat /\ S = 1..F
  BY <1>1, <1>2, <1>3, <1>4, InitialSegment
<1> QED BY <1>4, <1>5

-----------------------------------------------------------------------------
(* Picking a commit.                                                        *)

LEMMA PickedType ==
  ASSUME NEW base \in Tree, NEW ours \in Tree, NEW theirs \in Tree
  PROVE  Picked(base, ours, theirs) \in Tree
<1> SUFFICES ASSUME NEW p \in Paths
             PROVE  Picked(base, ours, theirs)[p] \in File \cup {NoFile}
  BY DEF Picked, Tree
<1>1. {base[p], ours[p], theirs[p]} \subseteq File \cup {NoFile}
  BY DEF Tree
<1>2. CASE NoFile \in {base[p], ours[p], theirs[p]}
  BY <1>1, <1>2 DEF Picked
<1>3. CASE NoFile \notin {base[p], ours[p], theirs[p]}
  <2> DEFINE merged == [h \in Hunks |-> IF theirs[p][h] # base[p][h] THEN theirs[p][h] ELSE ours[p][h]]
  <2>1. merged \in File
    BY <1>1, <1>3 DEF File
  <2>2. Picked(base, ours, theirs)[p] \in {ours[p], theirs[p], merged}
    BY <1>3 DEF Picked
  <2> QED BY <1>1, <2>1, <2>2
<1> QED BY <1>2, <1>3

\* A tree has an edit at a hunk of a file, and nothing at a hunk of no file.
LEMMA SpotType ==
  ASSUME NEW tree \in Tree, NEW p \in Paths, NEW h \in Hunks
  PROVE  (Spot(tree, p, h) = NoFile) <=> (tree[p] = NoFile)
<1>1. tree[p] # NoFile => tree[p][h] \in Edit
  BY DEF Tree, File
<1> QED BY <1>1, AbsenceAssumption DEF Spot

\* Without a conflict the pick is exact, hunk by hunk: what the commit changed is as
\* the commit has it, the rest as HEAD has it.
LEMMA PickedSpots ==
  ASSUME NEW base \in Tree, NEW ours \in Tree, NEW theirs \in Tree,
         ConflictPaths(base, ours, theirs) = {}, NEW p \in Paths, NEW h \in Hunks
  PROVE  Spot(Picked(base, ours, theirs), p, h) =
           IF Spot(theirs, p, h) # Spot(base, p, h) THEN Spot(theirs, p, h) ELSE Spot(ours, p, h)
<1> DEFINE new == Picked(base, ours, theirs)
<1>1. theirs[p] = base[p] \/ ours[p] = base[p] \/ (ours[p] = NoFile) = (theirs[p] = NoFile)
  BY DEF ConflictPaths, Changed
<1>2. new[p] = IF theirs[p] = base[p] THEN ours[p]
               ELSE IF NoFile \in {base[p], ours[p], theirs[p]} THEN theirs[p]
               ELSE [i \in Hunks |-> IF theirs[p][i] # base[p][i] THEN theirs[p][i] ELSE ours[p][i]]
  BY DEF Picked
<1>3. /\ (Spot(base, p, h) = NoFile) <=> (base[p] = NoFile)
      /\ (Spot(theirs, p, h) = NoFile) <=> (theirs[p] = NoFile)
  BY SpotType
<1> HIDE DEF new
<1>4. CASE theirs[p] = base[p]
  BY <1>2, <1>4 DEF Spot, new
<1>5. CASE theirs[p] # base[p] /\ NoFile \in {base[p], ours[p], theirs[p]}
  <2>1. Spot(theirs, p, h) # Spot(base, p, h)
    BY <1>1, <1>3, <1>5
  <2> QED BY <1>2, <1>5, <2>1 DEF Spot, new
<1>6. CASE theirs[p] # base[p] /\ NoFile \notin {base[p], ours[p], theirs[p]}
  <2>1. new[p] = [i \in Hunks |-> IF theirs[p][i] # base[p][i] THEN theirs[p][i] ELSE ours[p][i]]
    BY <1>2, <1>6
  <2>2. new[p] # NoFile
    <3>1. ours[p] \in File /\ theirs[p] \in File
      BY <1>6 DEF Tree
    <3>2. new[p] \in File
      BY <2>1, <3>1 DEF File
    <3> QED BY <3>2, AbsenceAssumption
  <2> QED BY <1>6, <2>1, <2>2 DEF Spot, new
<1> QED BY <1>4, <1>5, <1>6

\* A hunk that no commit of a stretch of history changes is at its end as at its start.
LEMMA UntouchedStays ==
  ASSUME NEW local \in History, NEW F \in Nat, NEW n \in Nat, F <= n,
         NEW p \in Paths, NEW h \in Hunks,
         \A i \in (F + 1)..n : Spot(local[i].tree, p, h) = Spot(local[i - 1].tree, p, h)
  PROVE  Spot(local[n].tree, p, h) = Spot(local[F].tree, p, h)
<1> DEFINE S == {i \in Nat : F + i <= n => Spot(local[F + i].tree, p, h) = Spot(local[F].tree, p, h)}
<1>1. 0 \in S
  BY F + 0 = F
<1>2. ASSUME NEW i \in S PROVE i + 1 \in S
  <2>1. SUFFICES ASSUME F + (i + 1) <= n
                 PROVE  Spot(local[F + (i + 1)].tree, p, h) = Spot(local[F].tree, p, h)
    OBVIOUS
  <2>2. F + (i + 1) \in (F + 1)..n /\ (F + (i + 1)) - 1 = F + i /\ F + i <= n
    BY <2>1
  <2>3. Spot(local[F + (i + 1)].tree, p, h) = Spot(local[F + i].tree, p, h)
    BY <2>2
  <2> QED BY <2>2, <2>3
<1>3. S \in SUBSET Nat
  OBVIOUS
<1> HIDE DEF S
<1>4. n - F \in S
  BY <1>1, <1>2, <1>3, SetInduction
<1> QED BY <1>4, F + (n - F) = n DEF S

-----------------------------------------------------------------------------
(* What a history holds.                                                    *)

LEMMA VersionsAreSpots ==
  ASSUME NEW history \in History, NEW v
  PROVE  v \in Versions(history) <=>
           \E i \in 1..Len(history), p \in Paths, h \in Hunks :
             Spot(history[i].tree, p, h) # NoFile /\ v = <<p, h, Spot(history[i].tree, p, h)>>
<1>1. ASSUME NEW i \in 1..Len(history), NEW p \in Paths, NEW h \in Hunks
      PROVE  /\ (Spot(history[i].tree, p, h) = NoFile) <=> (history[i].tree[p] = NoFile)
             /\ history[i].tree[p] # NoFile => Spot(history[i].tree, p, h) = history[i].tree[p][h]
  <2>1. history \in Seq(Commit) /\ history[i] \in Commit
    BY DEF History
  <2>2. history[i].tree \in Tree
    BY <2>1 DEF Commit
  <2> QED BY <2>2, SpotType DEF Spot
<1>2. v \in Versions(history) <=>
        \E i \in 1..Len(history), p \in Paths, h \in Hunks :
          history[i].tree[p] # NoFile /\ v = <<p, h, history[i].tree[p][h]>>
  BY DEF Versions
<1> QED BY <1>1, <1>2

\* A longer history holds no less.
LEMMA VersionsPrefix ==
  ASSUME NEW s \in Seq(Commit), NEW t \in Seq(Commit), IsPrefix(s, t)
  PROVE  Versions(s) \subseteq Versions(t)
<1>1. Len(s) \in Nat /\ Len(t) \in Nat /\ Len(s) <= Len(t) /\ \A i \in 1..Len(s) : s[i] = t[i]
  BY PrefixPoints
<1>2. ASSUME NEW i \in 1..Len(s) PROVE i \in 1..Len(t) /\ s[i] = t[i]
  BY <1>1
<1> QED BY <1>2 DEF Versions
=============================================================================

------------------------------- MODULE Merkle -------------------------------
(***************************************************************************)
(* The Merkle tree of dontlie/batch.py.  A hash is modelled by what went   *)
(* into it: a leaf hash is a one-element sequence, the hash of a pair the  *)
(* two sequences joined.  Hashes made from different leaves in a different *)
(* order, or from a different number of leaves, are then different.        *)
(* Indices count from zero, as in the code.                                *)
(***************************************************************************)
EXTENDS Naturals, Sequences

HashPair(left, right) == left \o right

\* Fault variant: an odd node is moved up as it is.
LevelUpPromoting(level) ==
  [k \in 1..((Len(level) + 1) \div 2) |->
     IF 2 * k <= Len(level) THEN HashPair(level[2 * k - 1], level[2 * k])
     ELSE level[2 * k - 1]]

\* The next level of the tree; the last node of an odd level is its own pair.
LevelUp(level) ==
  [k \in 1..((Len(level) + 1) \div 2) |->
     HashPair(level[2 * k - 1], level[IF 2 * k <= Len(level) THEN 2 * k ELSE 2 * k - 1])]

\* All levels from the leaves to the root.
Levels(leaves) ==
  LET level[k \in 1..Len(leaves)] ==
        IF k = 1 THEN <<leaves>>
        ELSE LET below == level[k - 1][Len(level[k - 1])]
             IN  IF Len(below) = 1 THEN level[k - 1] ELSE Append(level[k - 1], LevelUp(below))
  IN  level[Len(leaves)]

\* merkle_root, for at least one leaf; it raises for none.
MerkleRoot(leaves) == Levels(leaves)[Len(Levels(leaves))][1]

\* Fault variant: the sibling is always the right neighbour.
SiblingRight(index) == index + 1

Sibling(index) == IF index % 2 = 0 THEN index + 1 ELSE index - 1

\* Where a leaf and the nodes above it are: the index, halved level by level.
Ascent(index, height) ==
  LET at[k \in 1..height] == IF k = 1 THEN index ELSE at[k - 1] \div 2
  IN  at

\* merkle_path: the siblings from a leaf up to the root.
MerklePath(leaves, index) ==
  LET levels == Levels(leaves)
      at == Ascent(index, Len(levels))
  IN  [k \in 1..(Len(levels) - 1) |->
         levels[k][IF Sibling(at[k]) < Len(levels[k]) THEN Sibling(at[k]) + 1
                   ELSE Len(levels[k])]]

\* verify_merkle_path folds the path into the leaf hash.
VerifyMerklePath(leaf, index, path, root) ==
  LET at == Ascent(index, Len(path) + 1)
      hash[k \in 0..Len(path)] ==
        IF k = 0 THEN leaf
        ELSE IF at[k] % 2 = 0 THEN HashPair(hash[k - 1], path[k])
        ELSE HashPair(path[k], hash[k - 1])
  IN  hash[Len(path)] = root
=============================================================================

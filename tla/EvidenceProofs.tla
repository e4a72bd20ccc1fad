--------------------------- MODULE EvidenceProofs ---------------------------
(* Theorems about evidence, for every number of clients, keys, receipts and *)
(* rows: first about the Merkle trees of every size, then about what        *)
(* create() leaves behind.                                                  *)
EXTENDS Evidence, Wellorder

-----------------------------------------------------------------------------
(* Merkle trees *)

\* One level more: half as many nodes, rounded up, each of two of the nodes
\* below it.
LEMMA LevelAbove ==
  ASSUME NEW H, NEW level \in Seq(Seq(H)), level # <<>>
  PROVE  LET up == LevelUp(level)
         IN  /\ up \in Seq(Seq(H)) /\ up # <<>> /\ Len(up) = (Len(level) + 1) \div 2
             /\ \A k \in 1..Len(up) :
                  up[k] = level[2 * k - 1] \o level[IF 2 * k <= Len(level) THEN 2 * k ELSE 2 * k - 1]
<1> DEFINE n == Len(level)
           m == (n + 1) \div 2
           up == LevelUp(level)
<1>1. n \in Nat /\ n > 0 /\ DOMAIN level = 1..n /\ \A k \in 1..n : level[k] \in Seq(H)
  OBVIOUS
<1>2. m \in Nat /\ m > 0 /\ 2 * m <= n + 1
  BY <1>1
<1>3. up = [k \in 1..m |-> level[2 * k - 1] \o level[IF 2 * k <= n THEN 2 * k ELSE 2 * k - 1]]
  BY DEF LevelUp, HashPair
<1> HIDE DEF n, m, up
<1>4. ASSUME NEW k \in 1..m
      PROVE  2 * k - 1 \in 1..n /\ (IF 2 * k <= n THEN 2 * k ELSE 2 * k - 1) \in 1..n
  BY <1>1, <1>2
<1>5. up \in [1..m -> Seq(H)]
  BY <1>1, <1>3, <1>4
<1>6. up \in Seq(Seq(H)) /\ Len(up) = m /\ up # <<>>
  BY <1>2, <1>5
<1> QED BY <1>3, <1>6 DEF n, m, up

\* The levels of a tree with these leaves, as far as they go.
Trunk(H, leaves) ==
  {levels \in Seq(Seq(Seq(H))) :
     /\ Len(levels) > 0 /\ levels[1] = leaves
     /\ \A k \in 1..Len(levels) : levels[k] # <<>>
     /\ \A k \in 1..(Len(levels) - 1) : levels[k + 1] = LevelUp(levels[k])}

Top(levels) == levels[Len(levels)]

\* The last element of a list, whatever its elements are.
LEMMA LastIsElement ==
  ASSUME NEW S, NEW s \in Seq(S), Len(s) > 0
  PROVE  s[Len(s)] \in S
<1>1. Len(s) \in 1..Len(s)
  OBVIOUS
<1> QED BY <1>1

LEMMA TrunkGrows ==
  ASSUME NEW H, NEW leaves, NEW levels \in Trunk(H, leaves)
  PROVE  Append(levels, LevelUp(Top(levels))) \in Trunk(H, leaves)
<1> DEFINE n == Len(levels)
           up == LevelUp(levels[n])
           more == Append(levels, up)
<1>1. /\ levels \in Seq(Seq(Seq(H))) /\ n \in Nat /\ n > 0 /\ levels[1] = leaves
      /\ \A k \in 1..n : levels[k] \in Seq(Seq(H)) /\ levels[k] # <<>>
      /\ \A k \in 1..(n - 1) : levels[k + 1] = LevelUp(levels[k])
  BY DEF Trunk
<1>2. up \in Seq(Seq(H)) /\ up # <<>>
  <2> DEFINE top == levels[n]
  <2>1. top \in Seq(Seq(H)) /\ top # <<>>
    BY <1>1
  <2> HIDE DEF top
  <2>2. LevelUp(top) \in Seq(Seq(H)) /\ LevelUp(top) # <<>>
    BY <2>1, LevelAbove
  <2> QED BY <2>2 DEF top
<1> HIDE DEF n, up
<1>3. /\ more \in Seq(Seq(Seq(H))) /\ Len(more) = n + 1 /\ more[n + 1] = up
      /\ \A k \in 1..n : more[k] = levels[k]
  BY <1>1, <1>2, AppendProperties DEF n
<1> HIDE DEF more
<1>4. \A k \in 1..(n + 1) : k \in 1..n \/ k = n + 1
  BY <1>1
<1>5. ASSUME NEW k \in 1..n PROVE more[k + 1] = LevelUp(more[k])
  <2>1. CASE k = n
    BY <1>3, <2>1 DEF up
  <2>2. CASE k # n
    <3>1. k \in 1..(n - 1) /\ k + 1 \in 1..n
      BY <1>1, <2>2
    <3> QED BY <1>1, <1>3, <3>1
  <2> QED BY <2>1, <2>2
<1>6. more[1] = leaves /\ \A k \in 1..(n + 1) : more[k] # <<>>
  <2>1. 1 \in 1..n
    BY <1>1
  <2> QED BY <1>1, <1>2, <1>3, <1>4, <2>1
<1>7. more \in Trunk(H, leaves)
  BY <1>1, <1>3, <1>5, <1>6 DEF Trunk
<1> QED BY <1>7 DEF more, up, n, Top

\* Levels are computed until one node is left.
LEMMA LevelsRise ==
  ASSUME NEW H, NEW leaves \in Seq(Seq(H)), leaves # <<>>
  PROVE  Levels(leaves) \in Trunk(H, leaves) /\ Len(Top(Levels(leaves))) = 1
<1> DEFINE n == Len(leaves)
           T == Trunk(H, leaves)
           Rises(level) ==
             level = [k \in 1..n |->
                        IF k = 1 THEN <<leaves>>
                        ELSE LET below == level[k - 1][Len(level[k - 1])]
                             IN  IF Len(below) = 1 THEN level[k - 1]
                                 ELSE Append(level[k - 1], LevelUp(below))]
           step == [p \in Nat \X T |->
                      IF Len(Top(p[2])) = 1 THEN p[2] ELSE Append(p[2], LevelUp(Top(p[2])))]
<1>1. n \in Nat /\ n > 0
  OBVIOUS
<1>2. <<leaves>> \in T
  BY DEF Trunk
<1>3. step \in [Nat \X T -> T]
  BY TrunkGrows
<1>4. PICK f \in [1..n -> T] :
        f[1] = <<leaves>> /\ \A k \in 2..n : f[k] = step[<<k, f[k - 1]>>]
  <2> HIDE DEF T, n, step
  <2>1. PICK f : StepsFrom(f, T, <<leaves>>, step, 1, n)
    <3>1. step \in [Nat \X T -> T] /\ <<leaves>> \in T /\ n \in Nat /\ 1 \in Nat
      BY <1>1, <1>2, <1>3
    <3> QED BY <3>1, Recursion
  <2>2. f \in [1..n -> T] /\ f[1] = <<leaves>>
    BY <1>1, <2>1 DEF StepsFrom
  <2>3. ASSUME NEW k \in 2..n PROVE f[k] = step[<<k, f[k - 1]>>]
    BY <1>1, <2>1 DEF StepsFrom
  <2> QED BY <2>2, <2>3
<1>5. \A k \in 2..n : f[k] = IF Len(Top(f[k - 1])) = 1 THEN f[k - 1]
                             ELSE Append(f[k - 1], LevelUp(Top(f[k - 1])))
  <2> HIDE DEF T, n
  <2>1. ASSUME NEW k \in 2..n PROVE k \in Nat /\ f[k - 1] \in T
    <3>1. k - 1 \in 1..n /\ k \in Nat
      BY <1>1
    <3> QED BY <1>4, <3>1
  <2> QED BY <1>4, <2>1
<1>6. Rises(f)
  <2> HIDE DEF T, n
  <2>1. \A k \in 1..n : k # 1 => k \in 2..n
    BY <1>1
  <2>2. f = [k \in 1..n |-> f[k]]
    BY <1>4
  <2> QED BY <1>4, <1>5, <2>1, <2>2 DEF Top
<1> DEFINE level == CHOOSE g : Rises(g)
<1>7. Rises(level)
  BY <1>6
<1>8. Levels(leaves) = level[n]
  BY DEF Levels
<1> HIDE DEF level, n
\* What holds of f holds of the function the definition speaks of.
<1>9. /\ level[1] = <<leaves>>
      /\ \A k \in 2..n : level[k] = IF Len(Top(level[k - 1])) = 1 THEN level[k - 1]
                                    ELSE Append(level[k - 1], LevelUp(Top(level[k - 1])))
  <2>1. 1 \in 1..n /\ \A k \in 2..n : k \in 1..n /\ k # 1
    BY <1>1
  <2> QED BY <1>7, <2>1 DEF Top
<1> DEFINE Good(k) == /\ level[k] \in T
                      /\ Len(Top(level[k])) = 1 \/ Len(Top(level[k])) + k <= n + 1
           Bad == {k \in 1..n : ~Good(k)}
<1>10. SUFFICES Bad = {}
  <2>1. n \in 1..n
    BY <1>1
  <2>0. Good(n)
    BY <1>10, <2>1
  <2>2. Len(Top(level[n])) \in Nat \ {0}
    <3> DEFINE levels == level[n]
    <3>1. levels \in Seq(Seq(Seq(H))) /\ Len(levels) > 0
          /\ \A k \in 1..Len(levels) : levels[k] # <<>>
      BY <2>0 DEF Trunk
    <3> HIDE DEF levels
    <3>2. Len(levels) \in 1..Len(levels)
      BY <3>1
    <3>3. levels[Len(levels)] # <<>>
      BY <3>1, <3>2
    <3>4. levels[Len(levels)] \in Seq(Seq(H))
      BY <3>1, LastIsElement
    <3>5. Len(levels[Len(levels)]) \in Nat \ {0}
      BY <3>3, <3>4
    <3> QED BY <3>5 DEF Top, levels
  <2>3. Len(Top(level[n])) = 1
    <3> DEFINE m == Len(Top(level[n]))
    <3>1. m \in Nat \ {0} /\ (m = 1 \/ m + n <= n + 1)
      BY <2>0, <2>2
    <3> HIDE DEF m
    <3>2. m = 1
      BY <1>1, <3>1
    <3> QED BY <3>2 DEF m
  <2> QED BY <1>8, <2>0, <2>3
<1>11. SUFFICES ASSUME Bad # {} PROVE FALSE
  OBVIOUS
<1>12. PICK k \in Bad : \A j \in Bad : k <= j
  <2>1. Bad \subseteq Nat
    OBVIOUS
  <2> HIDE DEF Bad
  <2> QED BY <1>11, <2>1, Least
<1>13. k # 1
  <2>1. <<leaves>>[1] = leaves /\ Len(<<leaves>>) = 1
    OBVIOUS
  <2>2. Good(1)
    BY <1>1, <1>2, <1>9, <2>1 DEF Top, n
  <2> QED BY <1>12, <2>2
<1>14. k \in 2..n /\ k - 1 \in 1..n /\ k - 1 \notin Bad
  BY <1>1, <1>12, <1>13
<1>15. Good(k - 1)
  BY <1>14
<1> DEFINE top == Top(level[k - 1])
<1>16. top \in Seq(Seq(H)) /\ top # <<>> /\ Len(top) \in Nat /\ Len(top) > 0
  <2>1. level[k - 1] \in Seq(Seq(Seq(H))) /\ Len(level[k - 1]) > 0
        /\ \A j \in 1..Len(level[k - 1]) : level[k - 1][j] # <<>>
    BY <1>15 DEF Trunk
  <2> QED BY <2>1, SMTT(30) DEF Top
<1>17. CASE Len(top) = 1
  BY <1>9, <1>12, <1>14, <1>15, <1>17
<1>18. CASE Len(top) # 1
  <2> DEFINE up == LevelUp(top)
  <2>1. level[k] = Append(level[k - 1], up)
    BY <1>9, <1>14, <1>18
  <2>2. level[k] \in T
    BY <1>15, <2>1, TrunkGrows
  <2>3. Top(level[k]) = up
    <3>1. level[k - 1] \in Seq(Seq(Seq(H)))
      BY <1>15 DEF Trunk
    <3>2. up \in Seq(Seq(H))
      BY <1>16, LevelAbove
    <3> HIDE DEF up
    <3> QED BY <2>1, <3>1, <3>2, AppendProperties DEF Top
  <2>4. Len(up) = (Len(top) + 1) \div 2
    <3> HIDE DEF top
    <3> QED BY <1>16, LevelAbove
  <2>5. Len(top) + (k - 1) <= n + 1
    BY <1>15, <1>18
  <2>6. Len(up) + k <= n + 1
    <3> HIDE DEF top, up
    <3>1. ASSUME NEW m \in Nat, m > 1 PROVE (m + 1) \div 2 <= m - 1
      BY <3>1
    <3>2. k \in Nat
      BY <1>14
    <3> QED BY <1>1, <1>16, <2>4, <2>5, <3>1, <3>2
  <2> QED BY <1>12, <2>2, <2>3, <2>6
<1> QED BY <1>17, <1>18

\* On the way up an index is halved.
LEMMA AscentHalves ==
  ASSUME NEW index \in Nat, NEW height \in Nat \ {0}
  PROVE  LET at == Ascent(index, height)
         IN  at \in [1..height -> Nat] /\ at[1] = index
             /\ \A k \in 2..height : at[k] = at[k - 1] \div 2
<1> DEFINE step == [p \in Nat \X Nat |-> p[2] \div 2]
           Halves(at) == at = [k \in 1..height |-> IF k = 1 THEN index ELSE at[k - 1] \div 2]
<1>1. step \in [Nat \X Nat -> Nat]
  <2>1. ASSUME NEW p \in Nat \X Nat PROVE p[2] \div 2 \in Nat
    <3>1. p[2] \in Nat
      OBVIOUS
    <3> QED BY <3>1
  <2> QED BY <2>1
<1>2. PICK f : StepsFrom(f, Nat, index, step, 1, height)
  <2> HIDE DEF step
  <2> QED BY <1>1, Recursion
<1>3. f \in [1..height -> Nat] /\ f[1] = index
  BY <1>2 DEF StepsFrom
<1>4. ASSUME NEW k \in 2..height PROVE f[k] = f[k - 1] \div 2
  <2>1. f[k] = step[<<k, f[k - 1]>>] /\ k \in Nat /\ k - 1 \in 1..height
    BY <1>2 DEF StepsFrom
  <2> QED BY <1>3, <2>1
<1>5. Halves(f)
  <2>1. \A k \in 1..height : k # 1 => k \in 2..height
    OBVIOUS
  <2>2. f = [k \in 1..height |-> f[k]]
    BY <1>3
  <2> QED BY <1>3, <1>4, <2>1, <2>2
<1> DEFINE at == CHOOSE g : Halves(g)
<1>6. Halves(at)
  BY <1>5
<1>7. Ascent(index, height) = at
  BY DEF Ascent
<1> HIDE DEF at
<1>8. /\ DOMAIN at = 1..height /\ at[1] = index
      /\ \A k \in 2..height : at[k] = at[k - 1] \div 2
  <2>1. 1 \in 1..height /\ \A k \in 2..height : k \in 1..height /\ k # 1
    OBVIOUS
  <2> QED BY <1>6, <2>1
<1> DEFINE Bad == {k \in 1..height : at[k] \notin Nat}
<1>9. Bad = {}
  <2> SUFFICES ASSUME Bad # {} PROVE FALSE
    OBVIOUS
  <2>1. PICK k \in Bad : \A j \in Bad : k <= j
    <3>1. Bad \subseteq Nat
      OBVIOUS
    <3> HIDE DEF Bad
    <3> QED BY <3>1, Least
  <2>2. k # 1
    BY <1>8, <2>1
  <2>3. k \in 2..height /\ k - 1 \in 1..height /\ k - 1 \notin Bad
    BY <2>1, <2>2
  <2>4. at[k - 1] \in Nat
    BY <2>3
  <2>5. at[k] \in Nat
    BY <1>8, <2>3, <2>4
  <2> QED BY <2>1, <2>5
<1>10. at \in [1..height -> Nat]
  BY <1>6, <1>9
<1> QED BY <1>7, <1>8, <1>10

\* verify_merkle_path: the hashes on the way up, and what the last must be.
Climbs(h, leaf, at, path) ==
  /\ h[0] = leaf
  /\ \A k \in 1..Len(path) : h[k] = IF at[k] % 2 = 0 THEN h[k - 1] \o path[k]
                                    ELSE path[k] \o h[k - 1]

Judges(h, leaf, index, path, root) ==
  /\ Climbs(h, leaf, Ascent(index, Len(path) + 1), path)
  /\ VerifyMerklePath(leaf, index, path, root) <=> h[Len(path)] = root

LEMMA VerificationClimbs ==
  ASSUME NEW H, NEW leaf \in Seq(H), NEW path \in Seq(Seq(H)), NEW index \in Nat, NEW root
  PROVE  \E h : Judges(h, leaf, index, path, root)
<1> DEFINE n == Len(path)
           at == Ascent(index, n + 1)
           N == Seq(H)
           step == [p \in Nat \X N |-> IF p[1] \notin 1..n THEN p[2]
                                       ELSE IF at[p[1]] % 2 = 0 THEN p[2] \o path[p[1]]
                                       ELSE path[p[1]] \o p[2]]
           Is(h) == h = [k \in 0..n |-> IF k = 0 THEN leaf
                                        ELSE IF at[k] % 2 = 0 THEN h[k - 1] \o path[k]
                                        ELSE path[k] \o h[k - 1]]
<1>1. n \in Nat /\ \A k \in 1..n : path[k] \in N
  OBVIOUS
<1>2. step \in [Nat \X N -> N]
  <2>1. ASSUME NEW k \in Nat, NEW s \in N
        PROVE  (IF k \notin 1..n THEN s ELSE IF at[k] % 2 = 0 THEN s \o path[k] ELSE path[k] \o s) \in N
    <3> HIDE DEF at, n
    <3>1. \A a, b \in N : a \o b \in N
      OBVIOUS
    <3> HIDE DEF N
    <3> QED BY <1>1, <3>1
  <2> HIDE DEF at, n, N
  <2> QED BY <2>1
<1>3. PICK f : StepsFrom(f, N, leaf, step, 0, n)
  <2>1. leaf \in N /\ 0 \in Nat
    OBVIOUS
  <2> HIDE DEF step, N, n, at
  <2> QED BY <1>1, <1>2, <2>1, Recursion
<1>4. Is(f)
  <2>1. f \in [0..n -> N] /\ f[0] = leaf
    BY <1>1, <1>3 DEF StepsFrom
  <2>2. ASSUME NEW k \in 1..n
        PROVE  f[k] = IF at[k] % 2 = 0 THEN f[k - 1] \o path[k] ELSE path[k] \o f[k - 1]
    <3>1. k \in (0 + 1)..n /\ k - 1 \in 0..n /\ k \in Nat
      BY <1>1
    <3>2. f[k] = step[<<k, f[k - 1]>>] /\ f[k - 1] \in N
      BY <1>3, <2>1, <3>1 DEF StepsFrom
    <3> HIDE DEF at, n, N
    <3> QED BY <3>1, <3>2
  <2>3. \A k \in 0..n : k # 0 => k \in 1..n
    BY <1>1
  <2>4. f = [k \in 0..n |-> f[k]]
    BY <2>1
  <2> HIDE DEF at, n, N
  <2> QED BY <2>1, <2>2, <2>3, <2>4
<1> DEFINE hash == CHOOSE h : Is(h)
<1>5. Is(hash)
  BY <1>4
<1>6. VerifyMerklePath(leaf, index, path, root) <=> hash[n] = root
  BY DEF VerifyMerklePath, HashPair
<1> HIDE DEF hash
<1>7. Climbs(hash, leaf, at, path)
  <2>1. 0 \in 0..n /\ \A k \in 1..n : k \in 0..n /\ k # 0
    BY <1>1
  <2> HIDE DEF at, n
  <2>2. hash[0] = leaf /\ \A k \in 1..n : hash[k] = IF at[k] % 2 = 0 THEN hash[k - 1] \o path[k]
                                                   ELSE path[k] \o hash[k - 1]
    BY <1>5, <2>1
  <2> QED BY <2>2 DEF Climbs, n
<1> QED BY <1>6, <1>7 DEF Judges

\* One step of the way: if node i of a level is hashed with its sibling, or by
\* itself if it is the odd one, the result is the node above it.
LEMMA OneLevelUp ==
  ASSUME NEW H, NEW level \in Seq(Seq(H)), level # <<>>, NEW i \in 0..(Len(level) - 1)
  PROVE  LET up == LevelUp(level)
             sibling == level[IF Sibling(i) < Len(level) THEN Sibling(i) + 1 ELSE Len(level)]
         IN  /\ i \div 2 \in 0..(Len(up) - 1) /\ sibling \in Seq(H)
             /\ up[i \div 2 + 1] = IF i % 2 = 0 THEN level[i + 1] \o sibling
                                   ELSE sibling \o level[i + 1]
<1> DEFINE n == Len(level)
           up == LevelUp(level)
           at == IF Sibling(i) < n THEN Sibling(i) + 1 ELSE n
           j == i \div 2
<1>1. n \in Nat /\ n > 0 /\ i \in Nat /\ i < n /\ \A k \in 1..n : level[k] \in Seq(H)
  OBVIOUS
<1>2. /\ Len(up) = (n + 1) \div 2
      /\ \A k \in 1..Len(up) : up[k] = level[2 * k - 1] \o level[IF 2 * k <= n THEN 2 * k ELSE 2 * k - 1]
  BY LevelAbove
<1> HIDE DEF n, up
<1>3. j \in Nat /\ (i % 2 = 0 => i = 2 * j) /\ (i % 2 # 0 => i = 2 * j + 1)
  BY <1>1
<1> HIDE DEF j
<1>4. j + 1 \in 1..Len(up) /\ j \in 0..(Len(up) - 1)
  <2>1. 2 * j + 1 <= n
    BY <1>1, <1>3
  <2>2. j + 1 <= (n + 1) \div 2
    BY <1>1, <1>3, <2>1
  <2>3. (n + 1) \div 2 \in Nat
    BY <1>1
  <2> QED BY <1>2, <1>3, <2>2, <2>3
<1>5. up[j + 1] = level[2 * j + 1] \o level[IF 2 * j + 2 <= n THEN 2 * j + 2 ELSE 2 * j + 1]
  <2>1. 2 * (j + 1) = 2 * j + 2 /\ 2 * (j + 1) - 1 = 2 * j + 1
    BY <1>3
  <2> QED BY <1>2, <1>4, <2>1
<1>6. CASE i % 2 = 0
  <2>1. i = 2 * j /\ at = IF 2 * j + 2 <= n THEN 2 * j + 2 ELSE 2 * j + 1
    BY <1>1, <1>3, <1>6 DEF Sibling
  <2>2. at \in 1..n
    BY <1>1, <1>3, <2>1
  <2> HIDE DEF at
  <2>3. level[at] \in Seq(H) /\ up[j + 1] = level[i + 1] \o level[at]
    BY <1>1, <1>5, <2>1, <2>2
  <2> QED BY <1>4, <1>6, <2>3 DEF at, up, j, n
<1>7. CASE i % 2 # 0
  <2>1. i = 2 * j + 1 /\ at = 2 * j + 1 /\ 2 * j + 2 <= n
    BY <1>1, <1>3, <1>7 DEF Sibling
  <2>2. at \in 1..n
    BY <1>1, <1>3, <2>1
  <2>3. i + 1 = 2 * j + 2
    BY <1>3, <2>1
  <2> HIDE DEF at
  <2>4. level[at] \in Seq(H) /\ up[j + 1] = level[at] \o level[i + 1]
    BY <1>1, <1>5, <2>1, <2>2, <2>3
  <2> QED BY <1>4, <1>7, <2>4 DEF at, up, j, n
<1> QED BY <1>6, <1>7

\* The path of a leaf leads to the root, in trees of every size: hash and node
\* agree on every level, the first on which they did not being the next after
\* one on which they do.
THEOREM MerklePathsLead ==
  ASSUME NEW H, NEW leaves \in Seq(Seq(H)), NEW i \in 0..(Len(leaves) - 1)
  PROVE  VerifyMerklePath(leaves[i + 1], i, MerklePath(leaves, i), MerkleRoot(leaves))
<1> DEFINE levels == Levels(leaves)
           d == Len(levels)
           at == Ascent(i, d)
           path == MerklePath(leaves, i)
<1>1. leaves # <<>> /\ i \in Nat /\ leaves[i + 1] \in Seq(H)
  OBVIOUS
<1>2. levels \in Trunk(H, leaves) /\ Len(Top(levels)) = 1
  BY <1>1, LevelsRise
<1> HIDE DEF levels
<1>3. /\ levels \in Seq(Seq(Seq(H))) /\ d \in Nat /\ d > 0 /\ levels[1] = leaves
      /\ \A k \in 1..d : levels[k] \in Seq(Seq(H)) /\ levels[k] # <<>>
      /\ \A k \in 1..(d - 1) : levels[k + 1] = LevelUp(levels[k])
      /\ Len(levels[d]) = 1
  BY <1>2 DEF Trunk, Top
<1>4. /\ at \in [1..d -> Nat] /\ at[1] = i
      /\ \A k \in 2..d : at[k] = at[k - 1] \div 2
  <2>1. d \in Nat \ {0}
    BY <1>3
  <2> HIDE DEF d
  <2> QED BY <1>1, <2>1, AscentHalves
<1> HIDE DEF d, at
<1> DEFINE Node(k) == levels[k][at[k] + 1]
           Sib(k) == levels[k][IF Sibling(at[k]) < Len(levels[k]) THEN Sibling(at[k]) + 1
                               ELSE Len(levels[k])]
<1>5. path = [k \in 1..(d - 1) |-> Sib(k)]
  BY DEF MerklePath, levels, d, at
\* A node, its sibling and the one above them.
<1>6. ASSUME NEW k \in 1..d, at[k] \in 0..(Len(levels[k]) - 1)
      PROVE  /\ Sib(k) \in Seq(H)
             /\ k < d => /\ at[k + 1] \in 0..(Len(levels[k + 1]) - 1)
                         /\ Node(k + 1) = IF at[k] % 2 = 0 THEN Node(k) \o Sib(k)
                                          ELSE Sib(k) \o Node(k)
  <2> DEFINE level == levels[k]
             j == at[k]
  <2>1. level \in Seq(Seq(H)) /\ level # <<>> /\ j \in 0..(Len(level) - 1)
    BY <1>3, <1>6
  <2>2. k < d => levels[k + 1] = LevelUp(level) /\ at[k + 1] = j \div 2
    <3> SUFFICES ASSUME k < d PROVE levels[k + 1] = LevelUp(level) /\ at[k + 1] = j \div 2
      OBVIOUS
    <3>1. k \in 1..(d - 1) /\ k + 1 \in 2..d /\ (k + 1) - 1 = k
      BY <1>3
    <3>2. levels[k + 1] = LevelUp(level)
      BY <1>3, <3>1
    <3>3. at[k + 1] = at[(k + 1) - 1] \div 2
      BY <1>4, <3>1
    <3> QED BY <3>1, <3>2, <3>3
  <2>3. Sib(k) = level[IF Sibling(j) < Len(level) THEN Sibling(j) + 1 ELSE Len(level)]
        /\ Node(k) = level[j + 1] /\ (k < d => Node(k + 1) = LevelUp(level)[j \div 2 + 1])
    BY <2>2
  <2> HIDE DEF level, j, Sib, Node
  <2>4. /\ j \div 2 \in 0..(Len(LevelUp(level)) - 1)
        /\ Sib(k) \in Seq(H)
        /\ LevelUp(level)[j \div 2 + 1] = IF j % 2 = 0 THEN level[j + 1] \o Sib(k)
                                          ELSE Sib(k) \o level[j + 1]
    BY <2>1, <2>3, OneLevelUp
  <2> QED BY <2>2, <2>3, <2>4 DEF j
<1> HIDE DEF Sib
<1>7. \A k \in 1..d : at[k] \in 0..(Len(levels[k]) - 1)
  <2> DEFINE Bad == {k \in 1..d : at[k] \notin 0..(Len(levels[k]) - 1)}
  <2> SUFFICES ASSUME Bad # {} PROVE FALSE
    OBVIOUS
  <2>1. PICK k \in Bad : \A j \in Bad : k <= j
    <3>1. Bad \subseteq Nat
      BY <1>3
    <3> HIDE DEF Bad
    <3> QED BY <3>1, Least
  <2>2. k # 1
    BY <1>3, <1>4, <2>1
  <2>3. k - 1 \in 1..d /\ k - 1 \notin Bad /\ k - 1 < d /\ (k - 1) + 1 = k
    <3>1. k \in 1..d
      OBVIOUS
    <3> HIDE DEF Bad
    <3>2. k - 1 \in 1..d /\ k - 1 < d /\ (k - 1) + 1 = k /\ ~(k <= k - 1)
      BY <1>3, <2>2, <3>1
    <3> QED BY <2>1, <3>2
  <2>4. at[k - 1] \in 0..(Len(levels[k - 1]) - 1)
    BY <2>3
  <2>5. at[(k - 1) + 1] \in 0..(Len(levels[(k - 1) + 1]) - 1)
    BY <1>6, <2>3, <2>4
  <2> QED BY <2>1, <2>3, <2>5
<1>8. path \in Seq(Seq(H)) /\ Len(path) + 1 = d /\ \A k \in 1..Len(path) : path[k] = Sib(k)
  <2>1. \A k \in 1..(d - 1) : k \in 1..d
    BY <1>3
  <2>2. d - 1 \in Nat /\ path \in [1..(d - 1) -> Seq(H)]
    BY <1>3, <1>5, <1>6, <1>7, <2>1
  <2>3. path \in Seq(Seq(H)) /\ Len(path) = d - 1
    BY <2>2, SMTT(30)
  <2> HIDE DEF path
  <2> QED BY <1>3, <1>5, <2>3
<1> HIDE DEF path
<1>9. PICK h : /\ Climbs(h, leaves[i + 1], at, path)
               /\ VerifyMerklePath(leaves[i + 1], i, path, MerkleRoot(leaves))
                    <=> h[Len(path)] = MerkleRoot(leaves)
  <2> DEFINE leaf == leaves[i + 1]
             root == MerkleRoot(leaves)
  <2>1. leaf \in Seq(H) /\ at = Ascent(i, Len(path) + 1)
    BY <1>1, <1>8 DEF at
  <2> HIDE DEF leaf, root
  <2>2. PICK h : Judges(h, leaf, i, path, root)
    BY <1>1, <1>8, <2>1, VerificationClimbs
  <2> QED BY <2>1, <2>2 DEF Judges, leaf, root
<1>10. \A k \in 1..d : h[k - 1] = Node(k)
  <2> DEFINE Bad == {k \in 1..d : h[k - 1] # Node(k)}
  <2> SUFFICES ASSUME Bad # {} PROVE FALSE
    OBVIOUS
  <2>1. PICK k \in Bad : \A j \in Bad : k <= j
    <3>1. Bad \subseteq Nat
      BY <1>3
    <3> HIDE DEF Bad
    <3> QED BY <3>1, Least
  <2>2. k # 1
    <3>1. h[1 - 1] = leaves[i + 1] /\ Node(1) = leaves[i + 1]
      BY <1>3, <1>4, <1>9 DEF Climbs
    <3> QED BY <2>1, <3>1
  <2> DEFINE b == k - 1
  <2>3. b \in 1..d /\ b \notin Bad /\ b < d /\ b + 1 = k /\ b \in 1..Len(path)
    BY <1>3, <1>8, <2>1, <2>2
  <2>4. h[b - 1] = Node(b)
    BY <2>3
  <2> HIDE DEF b
  <2>5. h[b] = IF at[b] % 2 = 0 THEN h[b - 1] \o path[b] ELSE path[b] \o h[b - 1]
    BY <1>9, <2>3 DEF Climbs
  <2>6. Node(b + 1) = IF at[b] % 2 = 0 THEN Node(b) \o Sib(b) ELSE Sib(b) \o Node(b)
    <3> HIDE DEF Node
    <3> QED BY <1>6, <1>7, <2>3
  <2>7. h[b] = Node(b + 1)
    <3> HIDE DEF Node
    <3> QED BY <1>8, <2>3, <2>4, <2>5, <2>6
  <2>8. h[k - 1] = Node(k)
    BY <2>3, <2>7 DEF b
  <2> QED BY <2>1, <2>8
<1>11. h[Len(path)] = MerkleRoot(leaves)
  <2>1. d \in 1..d /\ d - 1 = Len(path)
    BY <1>3, <1>8
  <2>2. at[d] \in 0..(1 - 1)
    BY <1>3, <1>7, <2>1
  <2>3. h[d - 1] = levels[d][0 + 1]
    <3>1. at[d] = 0 /\ h[d - 1] = Node(d)
      BY <1>10, <2>1, <2>2
    <3> QED BY <3>1
  <2> QED BY <2>1, <2>3 DEF MerkleRoot, levels, d
<1> QED BY <1>9, <1>11 DEF path
-----------------------------------------------------------------------------
(* create() *)

\* The leaves of a set of receipts are their ids, each once.
LEMMA LeavesAreIds ==
  ASSUME NEW n \in Nat, NEW ids, ids \subseteq 1..n
  PROVE  /\ LeavesOf(ids) \in Seq(Seq(Nat))
         /\ Len(LeavesOf(ids)) = Cardinality(ids) /\ (ids # {} => LeavesOf(ids) # <<>>)
         /\ \A i \in ids : \E k \in 1..Len(LeavesOf(ids)) : LeavesOf(ids)[k] = <<i>>
<1> DEFINE m == Cardinality(ids)
           Rank(i) == Cardinality({j \in ids : j <= i})
<1>1. IsFiniteSet(ids) /\ m \in Nat /\ ids \subseteq Nat /\ (ids # {} => m > 0)
  <2>1. IsFiniteSet(1..n)
    BY FS_Interval
  <2>2. IsFiniteSet(ids)
    BY <2>1, FS_Subset
  <2> QED BY <2>2, FS_CardinalityType, FS_EmptySet
<1>2. \A k \in 1..m : Nth(ids, k) \in ids /\ Rank(Nth(ids, k)) = k
  BY Ranked
<1>3. ASSUME NEW i \in ids PROVE Rank(i) \in 1..m /\ Nth(ids, Rank(i)) = i
  <2> DEFINE below == {j \in ids : j <= i}
  <2>1. i \in below /\ below \subseteq ids
    BY <1>1
  <2>2. IsFiniteSet(below) /\ Cardinality(below) \in Nat /\ Cardinality(below) <= m
    BY <1>1, <2>1, FS_Subset, FS_CardinalityType
  <2>3. Cardinality(below) # 0
    BY <2>1, <2>2, FS_EmptySet
  <2>4. Rank(i) \in 1..m
    <3> HIDE DEF below, m
    <3>1. Cardinality(below) \in 1..m
      BY <1>1, <2>2, <2>3
    <3> QED BY <3>1 DEF below
  <2> DEFINE other == Nth(ids, Rank(i))
  <2>5. other \in ids /\ Rank(other) = Rank(i)
    BY <1>2, <2>4
  <2> HIDE DEF other
  <2>6. other < i => Rank(other) < Rank(i)
    BY <1>1, <2>5, RanksGrow
  <2>7. i < other => Rank(i) < Rank(other)
    BY <1>1, <2>5, RanksGrow
  <2>8. Rank(i) \in Nat /\ i \in Nat /\ other \in Nat
    BY <1>1, <2>4, <2>5
  <2> HIDE DEF Rank
  <2>9. other = i
    BY <2>5, <2>6, <2>7, <2>8
  <2> QED BY <2>4, <2>9 DEF other
<1> HIDE DEF m, Rank
<1>4. LeavesOf(ids) = [k \in 1..m |-> <<Nth(ids, k)>>]
  BY DEF LeavesOf, m
<1>5. LeavesOf(ids) \in [1..m -> Seq(Nat)]
  <2>1. ASSUME NEW k \in 1..m PROVE <<Nth(ids, k)>> \in Seq(Nat)
    <3>1. Nth(ids, k) \in Nat
      BY <1>1, <1>2
    <3> QED BY <3>1
  <2> QED BY <1>4, <2>1
<1>6. LeavesOf(ids) \in Seq(Seq(Nat)) /\ Len(LeavesOf(ids)) = m
  BY <1>1, <1>5
<1>7. ASSUME NEW i \in ids PROVE Rank(i) \in 1..m /\ LeavesOf(ids)[Rank(i)] = <<i>>
  BY <1>3, <1>4
<1>8. ids # {} => LeavesOf(ids) # <<>>
  BY <1>1, <1>6
<1> QED BY <1>6, <1>7, <1>8 DEF m

\* The root of a tree of receipts is a hash.
LEMMA RootIsHash ==
  ASSUME NEW n \in Nat, NEW ids, ids \subseteq 1..n, ids # {}
  PROVE  MerkleRoot(LeavesOf(ids)) \in Seq(Nat)
<1> DEFINE leaves == LeavesOf(ids)
           levels == Levels(leaves)
<1>1. leaves \in Seq(Seq(Nat)) /\ leaves # <<>>
  BY LeavesAreIds
<1> HIDE DEF leaves
<1>2. levels \in Trunk(Nat, leaves) /\ Len(Top(levels)) = 1
  BY <1>1, LevelsRise
<1> HIDE DEF levels
<1>3. levels \in Seq(Seq(Seq(Nat))) /\ Len(levels) \in 1..Len(levels)
  BY <1>2 DEF Trunk
<1>4. levels[Len(levels)] \in Seq(Seq(Nat)) /\ Len(levels[Len(levels)]) = 1
  BY <1>2, <1>3 DEF Top
<1>5. levels[Len(levels)][1] \in Seq(Nat)
  BY <1>4
<1> QED BY <1>5 DEF MerkleRoot, levels, leaves

-----------------------------------------------------------------------------
EvidenceRow ==
  [kind : {"batch", "note"}, key : Keys, sealed : (SUBSET (1..MaxId)) \ {{}},
   root : Seq(Nat), links : SUBSET (1..MaxId)]

Work ==
  [pc : {"idle", "check", "hash", "sign", "insert", "link"}, kind : {"batch", "note"},
   ids : SUBSET (1..MaxId), todo : SUBSET (1..MaxId), at : Nat, key : Keys \cup {None}]

EvidenceType ==
  /\ active \in Keys \cup {None}
  /\ row \in Seq(EvidenceRow) /\ given \subseteq DOMAIN row
  /\ job \in [Client -> Work]

\* A client that is to look receipts up has some left; one that is to sign or
\* insert has them all to link, and the key it signed with.
Ready(work) ==
  /\ work.pc # "idle" => work.ids # {}
  /\ work.pc \in {"check", "hash"} => work.todo # {} /\ work.todo \subseteq work.ids
  /\ work.pc \in {"sign", "insert"} => work.todo = work.ids
  /\ work.pc = "insert" => work.key \in Keys

\* What a row still lacks is what its client has to do; nobody else links to it.
Linking(c) ==
  At(c, "link") =>
    LET e == job[c].at
    IN  /\ e \in DOMAIN row \ given
        /\ job[c].todo # {} /\ job[c].todo \subseteq row[e].sealed
        /\ row[e].links = row[e].sealed \ job[c].todo
        /\ \A b \in Client : At(b, "link") /\ job[b].at = e => b = c

EvidenceInv ==
  /\ EvidenceType
  /\ \A c \in Client : Ready(job[c]) /\ Linking(c)
  /\ \A e \in DOMAIN row :
       row[e].kind = "batch" => row[e].root = MerkleRoot(LeavesOf(row[e].sealed))
  /\ \A e \in given : row[e].links = row[e].sealed

LEMMA MinIsMember ==
  ASSUME NEW S, S \subseteq 1..MaxId, S # {}
  PROVE  Min(S) \in S
<1>1. S \subseteq Nat
  BY EvidenceAssumption
<1> QED BY <1>1, Least DEF Min

LEMMA EvidenceBegins == Init => EvidenceInv
<1> SUFFICES ASSUME Init PROVE EvidenceInv
  OBVIOUS
<1>1. Idle \in Work /\ Ready(Idle) /\ Idle.pc = "idle"
  BY DEF Idle, Work, Ready
<1>2. \A c \in Client : job[c] = Idle
  BY DEF Init
<1>3. EvidenceType
  BY <1>1 DEF Init, EvidenceType
<1> QED BY <1>1, <1>2, <1>3 DEF Init, EvidenceInv, Linking, At

\* A client that moves without a row in sight disturbs no row.
LEMMA MovesApart ==
  ASSUME EvidenceInv, NEW c \in Client, NEW work \in Work, work.pc # "link", Ready(work),
         job' = [job EXCEPT ![c] = work], active' \in Keys \cup {None},
         UNCHANGED <<row, given>>
  PROVE  EvidenceInv'
<1>1. EvidenceType'
  BY DEF EvidenceInv, EvidenceType
<1>2. job'[c] = work /\ \A b \in Client : b # c => job'[b] = job[b]
  BY DEF EvidenceInv, EvidenceType
<1>3. ASSUME NEW b \in Client PROVE Ready(job'[b]) /\ Linking(b)'
  <2>1. CASE b = c
    BY <1>2, <2>1 DEF Linking, At
  <2>2. CASE b # c
    <3>1. Ready(job[b]) /\ Linking(b) /\ job'[b] = job[b]
      BY <1>2, <2>2 DEF EvidenceInv
    <3>2. \A a \in Client : At(a, "link")' /\ job'[a].at = job'[b].at
                              => At(a, "link") /\ job[a].at = job[b].at
      BY <1>2, <3>1 DEF At
    <3> QED BY <3>1, <3>2 DEF Linking, At
  <2> QED BY <2>1, <2>2
<1> QED BY <1>1, <1>3 DEF EvidenceInv

\* Nor does what happens to the vault around it.
LEMMA StaysAside ==
  ASSUME EvidenceInv, active' \in Keys \cup {None}, UNCHANGED <<row, given, job>>
  PROVE  EvidenceInv'
BY DEF EvidenceInv, EvidenceType, Ready, Linking, At

\* Looking one receipt up.
LEMMA LookingUp ==
  ASSUME EvidenceInv, NEW c \in Client, job[c].pc \in {"check", "hash"},
         NEW then \in {"hash", "sign"}, LookUpNext(c, then), Elsewhere, UNCHANGED <<row, given>>
  PROVE  EvidenceInv'
<1> DEFINE w == job[c]
           rest == w.todo \ {Min(w.todo)}
           work == IF ~Exists(Min(w.todo)) THEN Idle
                   ELSE IF rest # {} THEN [w EXCEPT !.todo = rest]
                   ELSE [w EXCEPT !.pc = then, !.todo = w.ids]
<1>1. w \in Work /\ Ready(w)
  BY DEF EvidenceInv, EvidenceType
<1>2. job' = [job EXCEPT ![c] = work]
  BY DEF LookUpNext, Become
<1>3. w.ids # {} /\ rest \subseteq w.ids
  BY <1>1 DEF Ready
<1>4. work \in Work /\ Ready(work) /\ work.pc # "link"
  <2>1. Idle \in Work /\ Ready(Idle) /\ Idle.pc # "link"
    BY DEF Idle, Work, Ready
  <2> DEFINE onward == [w EXCEPT !.todo = rest]
             done == [w EXCEPT !.pc = then, !.todo = w.ids]
  <2> HIDE DEF w, rest
  <2>2. ASSUME rest # {} PROVE onward \in Work /\ Ready(onward) /\ onward.pc # "link"
    <3>1. w.pc \in {"check", "hash"} /\ rest \in SUBSET (1..MaxId)
      BY <1>1 DEF w, rest, Work
    <3>2. onward.pc = w.pc /\ onward.ids = w.ids /\ onward.todo = rest
      BY <1>1 DEF Work
    <3>3. onward \in Work
      BY <1>1, <3>1 DEF Work
    <3> QED BY <1>3, <2>2, <3>1, <3>2, <3>3 DEF Ready
  <2>3. done \in Work /\ Ready(done) /\ done.pc # "link"
    <3>1. done.pc = then /\ done.ids = w.ids /\ done.todo = w.ids
      BY <1>1 DEF Work
    <3>2. done \in Work
      BY <1>1 DEF Work
    <3> QED BY <1>3, <3>1, <3>2 DEF Ready
  <2> QED BY <2>1, <2>2, <2>3
<1>5. active' \in Keys \cup {None}
  BY DEF EvidenceInv, EvidenceType, Elsewhere
<1> HIDE DEF work
<1> QED BY <1>2, <1>4, <1>5, MovesApart

LEMMA Inserting ==
  ASSUME EvidenceInv, NEW c \in Client, InsertRow(c)
  PROVE  EvidenceInv'
<1> DEFINE w == job[c]
           n == Len(row)
           new == [kind |-> w.kind, key |-> w.key, sealed |-> w.ids,
                   root |-> IF w.kind = "batch" THEN MerkleRoot(LeavesOf(w.ids)) ELSE <<>>,
                   links |-> {}]
           work == [w EXCEPT !.pc = "link", !.at = n + 1]
<1>1. w \in Work /\ Ready(w) /\ w.pc = "insert" /\ row \in Seq(EvidenceRow)
      /\ given \subseteq DOMAIN row /\ n \in Nat /\ job \in [Client -> Work]
  BY DEF EvidenceInv, EvidenceType, InsertRow, At
<1>2. w.ids \in SUBSET (1..MaxId) /\ w.ids # {} /\ w.todo = w.ids /\ w.key \in Keys
  BY <1>1 DEF Work, Ready
<1>3. new \in EvidenceRow
  <2>1. MerkleRoot(LeavesOf(w.ids)) \in Seq(Nat)
    BY <1>2, RootIsHash, EvidenceAssumption
  <2>2. (IF w.kind = "batch" THEN MerkleRoot(LeavesOf(w.ids)) ELSE <<>>) \in Seq(Nat)
    BY <2>1
  <2>3. w.kind \in {"batch", "note"}
    BY <1>1 DEF Work
  <2> QED BY <1>2, <2>2, <2>3 DEF EvidenceRow
<1>4. row' = Append(row, new) /\ given' = given /\ active' = active
  BY DEF InsertRow, Elsewhere
<1>5. row' \in Seq(EvidenceRow) /\ Len(row') = n + 1 /\ row'[n + 1] = new
      /\ \A e \in 1..n : row'[e] = row[e]
  <2> HIDE DEF new
  <2> QED BY <1>1, <1>3, <1>4, AppendProperties
<1>6. job' = [job EXCEPT ![c] = work]
  BY <1>5 DEF InsertRow, Become
<1>7. work \in Work /\ Ready(work) /\ work.pc = "link" /\ work.at = n + 1
      /\ work.todo = w.ids /\ work.ids = w.ids
  <2> HIDE DEF w, n
  <2>1. work.pc = "link" /\ work.at = n + 1 /\ work.todo = w.todo /\ work.ids = w.ids
    BY <1>1 DEF Work
  <2>2. n + 1 \in Nat /\ "link" \in {"idle", "check", "hash", "sign", "insert", "link"}
    BY <1>1
  <2>3. work \in Work
    BY <1>1, <2>2 DEF Work
  <2> QED BY <1>2, <2>1, <2>3 DEF Ready
<1>8. new.sealed = w.ids /\ new.links = {}
      /\ (new.kind = "batch" => new.root = MerkleRoot(LeavesOf(new.sealed)))
  OBVIOUS
<1> HIDE DEF work, new
<1>9. job'[c] = work /\ \A b \in Client : b # c => job'[b] = job[b]
  BY <1>1, <1>6
<1> HIDE DEF w, n
<1>10. DOMAIN row = 1..n /\ DOMAIN row' = 1..(n + 1) /\ n + 1 \notin 1..n /\ n + 1 \in 1..(n + 1)
       /\ 1..n \subseteq 1..(n + 1) /\ \A e \in 1..(n + 1) : e \in 1..n \/ e = n + 1
  BY <1>1, <1>5 DEF n
<1>11. EvidenceType'
  BY <1>1, <1>4, <1>5, <1>6, <1>7, <1>10 DEF EvidenceInv, EvidenceType
<1>12. ASSUME NEW b \in Client PROVE Ready(job'[b]) /\ Linking(b)'
  <2>1. \A a \in Client : a # c /\ At(a, "link")' => At(a, "link") /\ job'[a].at \in 1..n
    BY <1>9, <1>10 DEF At, EvidenceInv, Linking
  <2>2. CASE b = c
    <3>1. \A a \in Client : At(a, "link")' /\ job'[a].at = n + 1 => a = c
      BY <1>10, <2>1
    <3>2. n + 1 \in DOMAIN row' \ given'
      BY <1>1, <1>4, <1>10
    <3> QED BY <1>2, <1>5, <1>7, <1>8, <1>9, <2>2, <3>1, <3>2 DEF Linking
  <2>3. CASE b # c
    <3>1. Ready(job[b]) /\ Linking(b) /\ job'[b] = job[b]
      BY <1>9, <2>3 DEF EvidenceInv
    <3>2. SUFFICES ASSUME At(b, "link") PROVE Linking(b)'
      BY <3>1 DEF Linking, At
    <3>3. job[b].at \in 1..n
      BY <1>10, <3>1, <3>2 DEF Linking
    <3>4. \A a \in Client : At(a, "link")' /\ job'[a].at = job[b].at
                              => At(a, "link") /\ job[a].at = job[b].at
      BY <1>7, <1>9, <1>10, <3>3 DEF At
    <3>5. row'[job[b].at] = row[job[b].at] /\ job[b].at \in DOMAIN row'
      BY <1>5, <1>10, <3>3
    <3> QED BY <1>4, <3>1, <3>2, <3>4, <3>5 DEF Linking
  <2> QED BY <2>2, <2>3
<1>13. \A e \in DOMAIN row' : row'[e].kind = "batch" => row'[e].root = MerkleRoot(LeavesOf(row'[e].sealed))
  BY <1>5, <1>8, <1>10 DEF EvidenceInv
<1>14. \A e \in given' : row'[e].links = row'[e].sealed
  BY <1>1, <1>4, <1>5, <1>10 DEF EvidenceInv
<1> QED BY <1>11, <1>12, <1>13, <1>14 DEF EvidenceInv

LEMMA LinkingOne ==
  ASSUME EvidenceInv, NEW c \in Client, InsertLink(c)
  PROVE  EvidenceInv'
<1> DEFINE w == job[c]
           e == w.at
           next == Min(w.todo)
           rest == w.todo \ {next}
           work == IF rest = {} THEN Idle ELSE [w EXCEPT !.todo = rest]
           linked == row[e].links \cup {next}
<1>1. /\ w \in Work /\ Ready(w) /\ w.pc = "link" /\ Linking(c)
      /\ row \in Seq(EvidenceRow) /\ given \subseteq DOMAIN row /\ job \in [Client -> Work]
  BY DEF EvidenceInv, EvidenceType, InsertLink, At
<1>2. /\ e \in DOMAIN row /\ e \notin given /\ w.todo # {} /\ w.todo \subseteq row[e].sealed
      /\ row[e].links = row[e].sealed \ w.todo
      /\ \A b \in Client : At(b, "link") /\ job[b].at = e => b = c
  BY <1>1 DEF Linking, At
<1>3. next \in w.todo
  <2>1. w.todo \subseteq 1..MaxId
    BY <1>1 DEF Work
  <2> QED BY <1>2, <2>1, MinIsMember
<1>4. /\ row' = [row EXCEPT ![e].links = linked]
      /\ given' = IF rest = {} THEN given \cup {e} ELSE given
      /\ job' = [job EXCEPT ![c] = work]
      /\ active' = active
  BY DEF InsertLink, Become, Elsewhere
<1> HIDE DEF next
<1>5. linked = row[e].sealed \ rest /\ rest \subseteq row[e].sealed
  BY <1>2, <1>3
<1>6. row[e] \in EvidenceRow
  BY <1>1, <1>2
<1> DEFINE new == [row[e] EXCEPT !.links = linked]
<1>7. new.links = linked /\ new.sealed = row[e].sealed /\ new.root = row[e].root
      /\ new.kind = row[e].kind /\ new \in EvidenceRow
  <2>1. linked \in SUBSET (1..MaxId)
    BY <1>5, <1>6 DEF EvidenceRow
  <2> HIDE DEF linked
  <2> QED BY <1>6, <2>1 DEF EvidenceRow
<1>8. row' = [row EXCEPT ![e] = new]
  BY <1>4
<1> HIDE DEF new, linked, e
<1>9. /\ row' \in Seq(EvidenceRow) /\ DOMAIN row' = DOMAIN row /\ row'[e] = new
      /\ \A f \in DOMAIN row : f # e => row'[f] = row[f]
  BY <1>1, <1>2, <1>7, <1>8
<1>10. work \in Work /\ Ready(work)
       /\ IF rest = {} THEN work.pc # "link"
          ELSE work.pc = "link" /\ work.at = e /\ work.todo = rest
  <2>1. Idle \in Work /\ Ready(Idle) /\ Idle.pc = "idle"
    BY DEF Idle, Work, Ready
  <2> DEFINE onward == [w EXCEPT !.todo = rest]
  <2>2. rest \in SUBSET (1..MaxId)
    BY <1>1 DEF Work
  <2>3. e = w.at
    BY DEF e
  <2> HIDE DEF w, rest
  <2>4. onward.pc = w.pc /\ onward.at = w.at /\ onward.todo = rest /\ onward.ids = w.ids
    BY <1>1 DEF Work
  <2>5. onward \in Work
    BY <1>1, <2>2 DEF Work
  <2>6. Ready(onward)
    BY <1>1, <2>4 DEF Ready
  <2> QED BY <1>1, <2>1, <2>3, <2>4, <2>5, <2>6
<1>11. job'[c] = work /\ \A b \in Client : b # c => job'[b] = job[b]
  BY <1>1, <1>4
<1> HIDE DEF work
<1>12. EvidenceType'
  <2>1. given' \subseteq DOMAIN row'
    BY <1>1, <1>2, <1>4, <1>9
  <2> QED BY <1>1, <1>4, <1>9, <1>10, <2>1 DEF EvidenceInv, EvidenceType
<1>13. ASSUME NEW b \in Client PROVE Ready(job'[b]) /\ Linking(b)'
  <2>1. \A a \in Client : At(a, "link")' => At(a, "link") /\ job'[a].at = job[a].at
    BY <1>1, <1>10, <1>11 DEF At, e
  <2>2. CASE b = c
    <3>1. SUFFICES ASSUME rest # {} PROVE Linking(b)'
      BY <1>10, <1>11, <2>2 DEF Linking, At
    <3>2. e \in DOMAIN row' \ given'
      BY <1>2, <1>4, <1>9, <3>1
    <3>3. \A a \in Client : At(a, "link")' /\ job'[a].at = e => a = c
      BY <1>2, <2>1
    <3> HIDE DEF rest
    <3> QED BY <1>5, <1>7, <1>9, <1>10, <1>11, <2>2, <3>1, <3>2, <3>3 DEF Linking, linked
  <2>3. CASE b # c
    <3>1. Ready(job[b]) /\ Linking(b) /\ job'[b] = job[b]
      BY <1>11, <2>3 DEF EvidenceInv
    <3>2. SUFFICES ASSUME At(b, "link") PROVE Linking(b)'
      BY <3>1 DEF Linking, At
    <3>3. job[b].at \in DOMAIN row /\ job[b].at \notin given /\ job[b].at # e
      BY <1>2, <2>3, <3>1, <3>2 DEF Linking
    <3>4. \A a \in Client : At(a, "link")' /\ job'[a].at = job[b].at => a = b
      BY <2>1, <3>1, <3>2 DEF Linking
    <3>5. job[b].at \in DOMAIN row' \ given' /\ row'[job[b].at] = row[job[b].at]
      BY <1>4, <1>9, <3>3
    <3> QED BY <3>1, <3>2, <3>4, <3>5 DEF Linking
  <2> QED BY <2>2, <2>3
<1>14. \A f \in DOMAIN row' : row'[f].kind = "batch" => row'[f].root = MerkleRoot(LeavesOf(row'[f].sealed))
  BY <1>7, <1>9 DEF EvidenceInv
<1>15. \A f \in given' : row'[f].links = row'[f].sealed
  <2>1. rest = {} => row'[e].links = row'[e].sealed
    BY <1>5, <1>7, <1>9
  <2>2. \A f \in given : row'[f] = row[f]
    BY <1>1, <1>2, <1>9
  <2> QED BY <1>4, <2>1, <2>2 DEF EvidenceInv
<1> QED BY <1>12, <1>13, <1>14, <1>15 DEF EvidenceInv

LEMMA EvidenceSteps == EvidenceInv /\ [Next]_vars => EvidenceInv'
<1> SUFFICES ASSUME EvidenceInv, [Next]_vars PROVE EvidenceInv'
  OBVIOUS
<1>1. active \in Keys \cup {None} /\ KeyAtHand \subseteq Keys
  BY DEF EvidenceInv, EvidenceType, KeyAtHand
<1>2. ASSUME NEW c \in Client, NEW asked \in Requests, Begin(c, asked) PROVE EvidenceInv'
  <2> DEFINE work == [Idle EXCEPT !.pc = "check", !.kind = asked.kind,
                                  !.ids = asked.ids, !.todo = asked.ids]
  <2>1. asked.kind \in {"batch", "note"} /\ asked.ids \in SUBSET (1..MaxId) /\ asked.ids # {}
    BY EvidenceAssumption
  <2>2. work \in Work /\ Ready(work) /\ work.pc # "link"
    BY <2>1 DEF Idle, Work, Ready
  <2>3. job' = [job EXCEPT ![c] = work]
    BY <1>2 DEF Begin, Become
  <2>4. active' \in Keys \cup {None} /\ UNCHANGED <<row, given>>
    BY <1>1, <1>2 DEF Begin, Elsewhere
  <2> HIDE DEF work
  <2> QED BY <2>2, <2>3, <2>4, MovesApart
<1>3. ASSUME NEW c \in Client, CheckReceipt(c) PROVE EvidenceInv'
  <2> DEFINE then == IF job[c].kind = "batch" THEN "hash" ELSE "sign"
  <2>1. job[c].pc \in {"check", "hash"} /\ then \in {"hash", "sign"} /\ LookUpNext(c, then)
        /\ Elsewhere /\ UNCHANGED <<row, given>>
    BY <1>3 DEF CheckReceipt, At
  <2> HIDE DEF then
  <2> QED BY <2>1, LookingUp
<1>4. ASSUME NEW c \in Client, HashReceipt(c) PROVE EvidenceInv'
  <2>1. job[c].pc \in {"check", "hash"} /\ LookUpNext(c, "sign")
        /\ Elsewhere /\ UNCHANGED <<row, given>>
    BY <1>4 DEF HashReceipt, At
  <2> QED BY <2>1, LookingUp
<1>5. ASSUME NEW c \in Client, SignEvidence(c) PROVE EvidenceInv'
  <2>1. PICK key \in KeyAtHand : Use(key) /\ Become(c, [job[c] EXCEPT !.pc = "insert", !.key = key])
    BY <1>5 DEF SignEvidence
  <2> DEFINE work == [job[c] EXCEPT !.pc = "insert", !.key = key]
  <2>2. job[c] \in Work /\ Ready(job[c]) /\ job[c].pc = "sign"
    BY <1>5 DEF EvidenceInv, EvidenceType, SignEvidence, At
  <2>3. work \in Work /\ Ready(work) /\ work.pc # "link"
    BY <1>1, <2>2 DEF Work, Ready
  <2>4. job' = [job EXCEPT ![c] = work] /\ active' \in Keys \cup {None}
        /\ UNCHANGED <<row, given>>
    BY <1>1, <1>5, <2>1 DEF SignEvidence, Become, Use
  <2> HIDE DEF work
  <2> QED BY <2>3, <2>4, MovesApart
<1>6. ASSUME NEW c \in Client, Crash(c) PROVE EvidenceInv'
  <2>1. Idle \in Work /\ Ready(Idle) /\ Idle.pc # "link"
    BY DEF Idle, Work, Ready
  <2>2. job' = [job EXCEPT ![c] = Idle] /\ active' \in Keys \cup {None}
        /\ UNCHANGED <<row, given>>
    BY <1>1, <1>6 DEF Crash, Become, Elsewhere
  <2> QED BY <2>1, <2>2, MovesApart
<1>7. ASSUME NEW c \in Client, Create(c) PROVE EvidenceInv'
  BY <1>2, <1>3, <1>4, <1>5, <1>6, <1>7, Inserting, LinkingOne DEF Create
<1>8. ASSUME NEW n \in Namespaces, AppendReceipt(n) \/ DeleteNamespace(n) PROVE EvidenceInv'
  <2>1. active' \in Keys \cup {None} /\ UNCHANGED <<row, given, job>>
    BY <1>1, <1>8 DEF AppendReceipt, DeleteNamespace, Use
  <2> QED BY <2>1, StaysAside
<1>9. ASSUME LoseKey \/ UNCHANGED vars PROVE EvidenceInv'
  <2>1. active' \in Keys \cup {None} /\ UNCHANGED <<row, given, job>>
    BY <1>1, <1>9 DEF LoseKey, vars
  <2> QED BY <2>1, StaysAside
<1> QED BY <1>7, <1>8, <1>9 DEF Next

LEMMA EvidenceInvariance == EvidenceSpec => []EvidenceInv
BY EvidenceBegins, EvidenceSteps, PTL DEF EvidenceSpec

\* What create() returned verifies as long as its receipts are there and its
\* key can be found, whatever other creators, appends, deletions and key losses
\* come in between; what is still being linked never verifies.
THEOREM WholeEvidenceVerifies == EvidenceSpec => []VerifiesWhenWhole
<1>1. EvidenceInv => VerifiesWhenWhole
  <2> SUFFICES ASSUME EvidenceInv PROVE VerifiesWhenWhole
    OBVIOUS
  <2>1. ASSUME NEW e \in given, AllThere(e), Findable(row[e].key) PROVE Verifies(e)
    <3>1. e \in DOMAIN row /\ row[e] \in EvidenceRow /\ row[e].links = row[e].sealed
      BY DEF EvidenceInv, EvidenceType
    <3>2. row[e].sealed # {}
      BY <3>1 DEF EvidenceRow
    <3> QED BY <2>1, <3>1, <3>2 DEF EvidenceInv, Verifies, SealHolds, AllThere
  <2>2. ASSUME NEW e \in Rows, NEW c \in Client, At(c, "link"), job[c].at = e PROVE ~Verifies(e)
    BY <2>2 DEF EvidenceInv, Linking, Verifies, SealHolds
  <2> QED BY <2>1, <2>2 DEF VerifiesWhenWhole, GivenVerifies, PartIsRefused
<1> QED BY <1>1, EvidenceInvariance, PTL

\* The path that prove() gives for a receipt of a batch that verifies leads to
\* the root that was signed, for batches of every size.
THEOREM ProofsLeadToRoot == EvidenceSpec => []ProofsLead
<1>1. EvidenceInv => ProofsLead
  <2> SUFFICES ASSUME EvidenceInv, NEW e \in Rows, row[e].kind = "batch", Verifies(e),
                      NEW i \in row[e].links
               PROVE  Proof(e, i)
    BY DEF ProofsLead
  <2> DEFINE leaves == LeavesOf(row[e].links)
             at == CHOOSE k \in DOMAIN leaves : leaves[k] = <<i>>
  <2>1. row[e].links \subseteq 1..MaxId /\ MaxId \in Nat
    <3>1. row \in Seq(EvidenceRow) /\ e \in DOMAIN row
      BY DEF EvidenceInv, EvidenceType, Rows
    <3>2. row[e] \in EvidenceRow
      BY <3>1
    <3> QED BY <3>2, EvidenceAssumption DEF EvidenceRow
  <2>2. leaves \in Seq(Seq(Nat)) /\ \E k \in 1..Len(leaves) : leaves[k] = <<i>>
    BY <2>1, LeavesAreIds
  <2>3. MerkleRoot(leaves) = row[e].root
    BY DEF Verifies
  <2> HIDE DEF leaves
  <2>4. at \in DOMAIN leaves /\ leaves[at] = <<i>>
    <3>1. \E k \in DOMAIN leaves : leaves[k] = <<i>>
      <4>1. PICK k \in 1..Len(leaves) : leaves[k] = <<i>>
        BY <2>2
      <4>2. k \in DOMAIN leaves
        BY <2>2
      <4> QED BY <4>1, <4>2
    <3> QED BY <3>1
  <2> HIDE DEF at
  <2>5. at - 1 \in 0..(Len(leaves) - 1) /\ (at - 1) + 1 = at
    BY <2>2, <2>4
  <2> DEFINE index == at - 1
  <2>6. VerifyMerklePath(leaves[index + 1], index, MerklePath(leaves, index), MerkleRoot(leaves))
    <3> HIDE DEF index
    <3>1. index \in 0..(Len(leaves) - 1)
      BY <2>5 DEF index
    <3> QED BY <2>2, <3>1, MerklePathsLead
  <2>7. VerifyMerklePath(<<i>>, index, MerklePath(leaves, index), row[e].root)
    BY <2>3, <2>4, <2>5, <2>6
  <2> QED BY <2>7 DEF Proof, leaves, at
<1> QED BY <1>1, EvidenceInvariance, PTL
=============================================================================

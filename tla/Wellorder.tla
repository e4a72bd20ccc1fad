----------------------------- MODULE Wellorder -----------------------------
(***************************************************************************)
(* Least and greatest numbers of sets of naturals, in the form in which    *)
(* proofs about chains of receipts argue by induction: about a set, not    *)
(* about a predicate.  They follow from the library's theorem that the     *)
(* finite subsets of a set are well founded under inclusion.  From them,   *)
(* what leaving things out of a list leaves in.                            *)
(***************************************************************************)
EXTENDS Lists, FiniteSetTheorems, SequenceTheorems, WellFoundedInduction, TLAPS

-----------------------------------------------------------------------------
\* Every set of naturals that is not empty has a least element: among its
\* initial segments, which are finite, there is a minimal one.
LEMMA Least ==
  ASSUME NEW S, S \subseteq Nat, S # {}
  PROVE  \E m \in S : \A k \in S : m <= k
<1> DEFINE Upto(n) == {k \in S : k <= n}
           T == {Upto(n) : n \in S}
<1>1. IsWellFoundedOn(StrictSubsetOrdering(S), FiniteSubsetsOf(S))
  BY FS_StrictSubsetOrderingWellFounded
<1>2. T \subseteq FiniteSubsetsOf(S)
  <2>1. ASSUME NEW n \in S PROVE IsFiniteSet(Upto(n)) /\ Upto(n) \subseteq S
    <3>1. n \in Nat /\ Upto(n) \in SUBSET Nat /\ \A k \in Upto(n) : k <= n
      OBVIOUS
    <3> HIDE DEF Upto
    <3>2. IsFiniteSet(Upto(n))
      BY <3>1, FS_BoundedSetOfNaturals
    <3> QED BY <3>2 DEF Upto
  <2> QED BY <2>1 DEF FiniteSubsetsOf
<1>3. T # {}
  OBVIOUS
<1>4. PICK U \in T : \A V \in T : ~(<<V, U>> \in StrictSubsetOrdering(S))
  <2> HIDE DEF T
  <2> QED BY <1>1, <1>2, <1>3, WFMin
<1>5. PICK m \in S : U = Upto(m)
  BY <1>4
<1>6. ASSUME NEW k \in S PROVE m <= k
  <2>1. SUFFICES ASSUME k < m PROVE FALSE
    BY <1>6
  <2>2. Upto(k) \subseteq Upto(m)
    <3>1. ASSUME NEW n \in S, n <= k PROVE n <= m
      <4>1. n \in Nat /\ k \in Nat /\ m \in Nat
        OBVIOUS
      <4> QED BY <2>1, <3>1, <4>1
    <3> QED BY <3>1
  <2>3. m \in Upto(m) /\ m \notin Upto(k)
    BY <2>1
  <2>4. Upto(k) # Upto(m)
    <3> HIDE DEF Upto
    <3> QED BY <2>3
  <2>5. <<Upto(k), Upto(m)>> \in StrictSubsetOrdering(S)
    BY <2>2, <2>4 DEF StrictSubsetOrdering
  <2> QED BY <2>5, <1>4, <1>5
<1> QED BY <1>6

\* One that is bounded has a greatest element as well: its least bound.
LEMMA Greatest ==
  ASSUME NEW S, S \subseteq Nat, S # {}, NEW n \in Nat, \A k \in S : k <= n
  PROVE  \E m \in S : \A k \in S : k <= m
<1> DEFINE B == {b \in Nat : \A k \in S : k <= b}
<1>1. B \subseteq Nat /\ n \in B
  OBVIOUS
<1>2. PICK b \in B : \A c \in B : b <= c
  <2> HIDE DEF B
  <2> QED BY <1>1, Least
<1>3. b \in S
  <2>1. SUFFICES ASSUME b \notin S PROVE FALSE
    OBVIOUS
  <2>2. PICK s \in S : TRUE
    OBVIOUS
  <2>3. b \in Nat /\ b - 1 \in Nat
    BY <2>1, <2>2
  <2>4. \A k \in S : k <= b - 1
    BY <2>1, <2>3
  <2> QED BY <1>2, <2>3, <2>4
<1> QED BY <1>3

-----------------------------------------------------------------------------
\* Recursion: there is a function whose first value is given and whose later
\* values are made from the one before.  (Of a definition f[k \in b..n] == ...
\* the provers know only that it is such a function if there is one.)
StepsFrom(f, S, a, step, b, n) ==
  /\ f \in [b..n -> S]
  /\ b <= n => f[b] = a
  /\ \A k \in (b + 1)..n : f[k] = step[<<k, f[k - 1]>>]

LEMMA Recursion ==
  ASSUME NEW S, NEW a \in S, NEW step \in [Nat \X S -> S], NEW b \in Nat, NEW n \in Nat
  PROVE  \E f : StepsFrom(f, S, a, step, b, n)
<1> USE DEF StepsFrom
<1> DEFINE Is(f, m) == StepsFrom(f, S, a, step, b, m)
           Bad == {m \in Nat : ~\E f : Is(f, m)}
<1>1. SUFFICES ASSUME Bad # {} PROVE FALSE
  BY <1>1
<1>2. PICK m \in Bad : \A k \in Bad : m <= k
  <2> HIDE DEF Bad
  <2>1. Bad \subseteq Nat
    BY DEF Bad
  <2> QED BY <1>1, <2>1, Least
<1>3. CASE m <= b
  <2>1. Is([k \in b..m |-> a], m)
    <3>1. m \in Nat
      BY <1>2
    <3>2. (b + 1)..m = {} /\ (b <= m => b \in b..m)
      BY <1>3, <3>1
    <3> DEFINE f == [k \in b..m |-> a]
    <3>3. f \in [b..m -> S] /\ \A k \in b..m : f[k] = a
      OBVIOUS
    <3> HIDE DEF f
    <3> QED BY <3>2, <3>3 DEF f
  <2> QED BY <1>2, <2>1
<1>4. CASE ~(m <= b)
  <2>1. m \in Nat /\ m - 1 \in Nat /\ m - 1 \notin Bad /\ b <= m - 1
    BY <1>2, <1>4, SMTT(30)
  <2>2. PICK f : Is(f, m - 1)
    BY <2>1
  <2> DEFINE g == [k \in b..m |-> IF k = m THEN step[<<m, f[m - 1]>>] ELSE f[k]]
  <2>3. m - 1 \in b..(m - 1) /\ f[m - 1] \in S /\ step[<<m, f[m - 1]>>] \in S
    BY <2>1, <2>2
  <2>4. \A k \in b..m : k = m \/ k \in b..(m - 1)
    BY <2>1
  <2>5. g \in [b..m -> S] /\ g[m] = step[<<m, f[m - 1]>>] /\ \A k \in b..(m - 1) : g[k] = f[k]
    <3>1. \A k \in b..(m - 1) : k \in b..m /\ k # m
      BY <2>1
    <3>2. m \in b..m
      BY <2>1
    <3> QED BY <2>2, <2>3, <2>4, <3>1, <3>2
  <2> HIDE DEF g
  <2>6. \A k \in (b + 1)..m : /\ k = m \/ k \in (b + 1)..(m - 1)
                              /\ k - 1 \in b..(m - 1)
    BY <2>1
  <2>7. \A k \in (b + 1)..(m - 1) : k \in b..(m - 1)
    BY <2>1
  <2>8. ASSUME NEW k \in (b + 1)..m PROVE g[k] = step[<<k, g[k - 1]>>]
    BY <2>2, <2>5, <2>6, <2>7
  <2>9. g[b] = a
    BY <2>1, <2>2, <2>5
  <2> QED BY <1>2, <2>5, <2>8, <2>9
<1> QED BY <1>3, <1>4

-----------------------------------------------------------------------------
\* Up to a later place there are more of the places than up to an earlier one.
LEMMA RanksGrow ==
  ASSUME NEW S, S \subseteq Nat, IsFiniteSet(S), NEW i \in S, NEW j \in S, i < j
  PROVE  Cardinality({k \in S : k <= i}) < Cardinality({k \in S : k <= j})
<1> DEFINE A == {k \in S : k <= i}
           B == {k \in S : k <= j}
<1>1. i \in Nat /\ j \in Nat /\ \A k \in S : k \in Nat
  OBVIOUS
<1>2. A \subseteq B /\ j \in B /\ j \notin A /\ B \subseteq S
  <2>1. ASSUME NEW k \in S, k <= i PROVE k <= j
    <3>1. k \in Nat
      OBVIOUS
    <3> QED BY <1>1, <2>1, <3>1
  <2>2. j <= j /\ ~(j <= i)
    BY <1>1
  <2> QED BY <2>1, <2>2
<1> HIDE DEF A, B
<1>3. IsFiniteSet(B)
  BY <1>2, FS_Subset
<1>4. IsFiniteSet(A) /\ Cardinality(A) <= Cardinality(B) /\ Cardinality(A) # Cardinality(B)
  BY <1>2, <1>3, FS_Subset
<1>5. Cardinality(A) \in Nat /\ Cardinality(B) \in Nat
  BY <1>3, <1>4, FS_CardinalityType
<1> QED BY <1>4, <1>5 DEF A, B

\* Every rank is some place's: of the least number up to which there are as
\* many places.
LEMMA Ranked ==
  ASSUME NEW n \in Nat, NEW S, S \subseteq 1..n, NEW k \in 1..Cardinality(S)
  PROVE  Nth(S, k) \in S /\ Cardinality({i \in S : i <= Nth(S, k)}) = k
<1> DEFINE A(b) == {i \in S : i <= b}
           R == {b \in Nat : Cardinality(A(b)) >= k}
<1>1. IsFiniteSet(S) /\ Cardinality(S) \in Nat /\ k \in Nat /\ k > 0
  <2>1. IsFiniteSet(1..n)
    BY FS_Interval
  <2>2. IsFiniteSet(S)
    BY <2>1, FS_Subset
  <2> QED BY <2>2, FS_CardinalityType
<1>2. ASSUME NEW b \in Nat PROVE IsFiniteSet(A(b)) /\ Cardinality(A(b)) \in Nat
  <2>1. A(b) \subseteq S
    OBVIOUS
  <2> HIDE DEF A
  <2> QED BY <1>1, <2>1, FS_Subset, FS_CardinalityType
<1>3. A(n) = S /\ A(0) = {} /\ \A b \in Nat \ {0} : b \in S => A(b) = A(b - 1) \cup {b}
  <2>1. \A i \in S : i \in Nat /\ i <= n /\ ~(i <= 0)
    OBVIOUS
  <2>2. A(n) = S /\ A(0) = {}
    BY <2>1
  <2>3. ASSUME NEW b \in Nat \ {0}, b \in S PROVE A(b) = A(b - 1) \cup {b}
    <3>1. ASSUME NEW i \in S PROVE i <= b <=> i <= b - 1 \/ i = b
      <4>1. i \in Nat
        BY <2>1
      <4> QED BY <4>1
    <3> QED BY <2>3, <3>1
  <2> QED BY <2>2, <2>3
<1>4. ASSUME NEW b \in Nat \ {0}, b \notin S PROVE A(b) = A(b - 1)
  <2>1. ASSUME NEW i \in S PROVE i <= b <=> i <= b - 1
    <3>1. i \in Nat /\ i # b
      BY <1>4
    <3> QED BY <3>1
  <2> QED BY <2>1
<1> HIDE DEF A
<1>5. PICK b \in R : \A c \in R : b <= c
  <2>1. n \in R
    BY <1>1, <1>3
  <2> HIDE DEF R
  <2>2. R \subseteq Nat
    BY DEF R
  <2> QED BY <2>1, <2>2, Least
<1>6. b \in Nat \ {0} /\ Cardinality(A(b)) >= k
  <2>1. Cardinality(A(0)) = 0
    BY <1>3, FS_EmptySet
  <2> QED BY <1>1, <2>1
<1>7. b - 1 \in Nat /\ Cardinality(A(b - 1)) < k
  BY <1>1, <1>2, <1>5, <1>6
<1>8. b \in S
  BY <1>4, <1>6, <1>7, <1>1, <1>2
<1>9. Cardinality(A(b)) = k
  <2>1. A(b) = A(b - 1) \cup {b} /\ IsFiniteSet(A(b - 1))
    BY <1>2, <1>3, <1>6, <1>7, <1>8
  <2>2. Cardinality(A(b)) = IF b \in A(b - 1) THEN Cardinality(A(b - 1))
                            ELSE Cardinality(A(b - 1)) + 1
    BY <2>1, FS_AddElement
  <2> QED BY <1>1, <1>2, <1>6, <1>7, <2>2
<1> QED BY <1>8, <1>9 DEF A, Nth

\* What is left of a list: its other elements, in their order.
LEMMA OmittingKeeps ==
  ASSUME NEW X, NEW seq \in Seq(X), NEW set
  PROVE  LET out == Omitting(seq, set)
             places == Places(seq, set)
         IN  /\ out \in Seq(X) /\ Len(out) = Cardinality(places)
             /\ \A k \in DOMAIN out : Nth(places, k) \in places /\ out[k] = seq[Nth(places, k)]
             /\ \A k, l \in DOMAIN out : k < l => Nth(places, k) < Nth(places, l)
             /\ \A j \in places : \E k \in DOMAIN out : Nth(places, k) = j
<1> DEFINE out == Omitting(seq, set)
           S == Places(seq, set)
<1>1. S \subseteq 1..Len(seq) /\ Len(seq) \in Nat /\ \A j \in S : seq[j] \in X /\ j \in Nat
  BY DEF Places
<1>2. IsFiniteSet(S) /\ Cardinality(S) \in Nat
  <2>1. IsFiniteSet(1..Len(seq))
    BY <1>1, FS_Interval
  <2>2. IsFiniteSet(S)
    BY <1>1, <2>1, FS_Subset
  <2> QED BY <2>2, FS_CardinalityType
<1> HIDE DEF S
<1>3. \A k \in 1..Cardinality(S) : Nth(S, k) \in S /\ Cardinality({i \in S : i <= Nth(S, k)}) = k
  BY <1>1, Ranked
<1>4. out = [k \in 1..Cardinality(S) |-> seq[Nth(S, k)]]
  BY DEF Omitting, S
<1> HIDE DEF out
<1>5. out \in Seq(X) /\ Len(out) = Cardinality(S) /\ DOMAIN out = 1..Cardinality(S)
      /\ \A k \in DOMAIN out : Nth(S, k) \in S /\ out[k] = seq[Nth(S, k)]
  <2>1. ASSUME NEW n \in Nat, n = Cardinality(S)
        PROVE  out \in Seq(X) /\ Len(out) = n /\ DOMAIN out = 1..n
    <3>1. out = [k \in 1..n |-> seq[Nth(S, k)]]
      BY <1>4, <2>1
    <3>2. \A k \in 1..n : seq[Nth(S, k)] \in X
      BY <1>1, <1>3, <2>1
    <3>3. out \in [1..n -> X]
      BY <3>1, <3>2
    <3> QED BY <3>3, IsASeq, LenProperties
  <2> QED BY <1>2, <1>3, <1>4, <2>1
<1>6. ASSUME NEW i \in S, NEW j \in S PROVE
        i < j <=> Cardinality({k \in S : k <= i}) < Cardinality({k \in S : k <= j})
  <2>1. S \subseteq Nat /\ i \in Nat /\ j \in Nat
    BY <1>1
  <2>2. Cardinality({k \in S : k <= i}) \in Nat /\ Cardinality({k \in S : k <= j}) \in Nat
    BY <1>2, FS_Subset, FS_CardinalityType
  <2>3. i < j \/ i = j \/ j < i
    BY <2>1
  <2>4. CASE i < j
    BY <1>2, <2>1, <2>4, RanksGrow
  <2>5. CASE i = j
    BY <2>1, <2>2, <2>5
  <2>6. CASE j < i
    <3>1. Cardinality({k \in S : k <= j}) < Cardinality({k \in S : k <= i})
      BY <1>2, <2>1, <2>6, RanksGrow
    <3> QED BY <2>1, <2>2, <2>6, <3>1
  <2> QED BY <2>3, <2>4, <2>5, <2>6
<1>7. \A k, l \in DOMAIN out : k < l => Nth(S, k) < Nth(S, l)
  BY <1>3, <1>5, <1>6
<1>8. ASSUME NEW j \in S PROVE \E k \in DOMAIN out : Nth(S, k) = j
  <2> DEFINE k == Cardinality({i \in S : i <= j})
  <2>1. k \in 1..Cardinality(S)
    <3>1. k \in Nat /\ k <= Cardinality(S) /\ IsFiniteSet({i \in S : i <= j})
      BY <1>2, FS_Subset, FS_CardinalityType
    <3>2. j \in {i \in S : i <= j}
      BY <1>1
    <3>3. k # 0
      BY <3>1, <3>2, FS_EmptySet
    <3> QED BY <1>2, <3>1, <3>3
  <2>2. Nth(S, k) \in S /\ Cardinality({i \in S : i <= Nth(S, k)}) = k
    BY <1>3, <2>1
  <2>3. ~(j < Nth(S, k)) /\ ~(Nth(S, k) < j)
    <3>1. k \in Nat /\ ~(k < k)
      BY <1>2, <2>1
    <3>2. j < Nth(S, k) <=> k < Cardinality({i \in S : i <= Nth(S, k)})
      BY <1>6, <2>2
    <3>3. Nth(S, k) < j <=> Cardinality({i \in S : i <= Nth(S, k)}) < k
      BY <1>6, <2>2
    <3> QED BY <2>2, <3>1, <3>2, <3>3
  <2>4. j \in Nat /\ Nth(S, k) \in Nat
    BY <1>1, <2>2
  <2> HIDE DEF k
  <2> QED BY <1>5, <2>1, <2>3, <2>4
<1> QED BY <1>5, <1>7, <1>8 DEF out, S

\* In particular they are the elements that are not in the set, and those of a
\* list without repetitions are one as well.
LEMMA OmittingElements ==
  ASSUME NEW X, NEW seq \in Seq(X), NEW set
  PROVE  LET out == Omitting(seq, set)
         IN  /\ out \in Seq(X)
             /\ {out[k] : k \in DOMAIN out} = {seq[j] : j \in DOMAIN seq} \ set
             /\ (\A i, j \in DOMAIN seq : seq[i] = seq[j] => i = j)
                  => (\A k, l \in DOMAIN out : out[k] = out[l] => k = l)
<1> DEFINE out == Omitting(seq, set)
           S == Places(seq, set)
<1>1. /\ out \in Seq(X)
      /\ \A k \in DOMAIN out : Nth(S, k) \in S /\ out[k] = seq[Nth(S, k)]
      /\ \A k, l \in DOMAIN out : k < l => Nth(S, k) < Nth(S, l)
      /\ \A j \in S : \E k \in DOMAIN out : Nth(S, k) = j
  BY OmittingKeeps
<1>2. S = {j \in DOMAIN seq : seq[j] \notin set} /\ S \subseteq Nat
  BY DEF Places
<1> HIDE DEF out, S
<1>3. {out[k] : k \in DOMAIN out} = {seq[j] : j \in DOMAIN seq} \ set
  <2>1. ASSUME NEW k \in DOMAIN out
        PROVE  out[k] \in {seq[j] : j \in DOMAIN seq} \ set
    BY <1>1, <1>2
  <2>2. ASSUME NEW j \in DOMAIN seq, seq[j] \notin set
        PROVE  \E k \in DOMAIN out : out[k] = seq[j]
    BY <1>1, <1>2, <2>2
  <2> QED BY <2>1, <2>2
<1>4. ASSUME \A i, j \in DOMAIN seq : seq[i] = seq[j] => i = j,
             NEW k \in DOMAIN out, NEW l \in DOMAIN out, out[k] = out[l]
      PROVE  k = l
  <2>1. Nth(S, k) = Nth(S, l) /\ Nth(S, k) \in Nat
    BY <1>1, <1>2, <1>4
  <2>2. k \in Nat /\ l \in Nat
    BY <1>1
  <2>3. ~(k < l) /\ ~(l < k)
    BY <1>1, <2>1
  <2> QED BY <2>2, <2>3
<1> QED BY <1>1, <1>3, <1>4 DEF out

-----------------------------------------------------------------------------
(* Loops, sorted lists and pieces of lists *)

\* Induction over the places of a list.
LEMMA Climb ==
  ASSUME NEW n \in Nat, NEW G, 0 \in G, \A k \in 1..n : k - 1 \in G => k \in G
  PROVE  0..n \subseteq G
<1> DEFINE B == 0..n \ G
<1>1. SUFFICES ASSUME B # {} PROVE FALSE
  OBVIOUS
<1>2. B \subseteq Nat
  OBVIOUS
<1>3. PICK b \in B : \A c \in B : b <= c
  <2> HIDE DEF B
  <2> QED BY <1>1, <1>2, Least
<1>4. b \in 1..n /\ b - 1 \in 0..n /\ ~(b <= b - 1)
  BY <1>3
<1> QED BY <1>3, <1>4

\* A loop goes from state to state, and what its turns keep holds of each.
Passes(after, turns, state, S) ==
  /\ after \in [0..Len(turns) -> S]
  /\ after[0] = state
  /\ \A k \in 1..Len(turns) : after[k] = turns[k][after[k - 1]]
  /\ Looped(turns, state) = after[Len(turns)]

LEMMA LoopedRuns ==
  ASSUME NEW S, NEW state \in S, NEW turns, Len(turns) \in Nat,
         NEW G, <<0, state>> \in G,
         \A k \in 1..Len(turns) : \A s \in S :
            <<k - 1, s>> \in G => turns[k][s] \in S /\ <<k, turns[k][s]>> \in G
  PROVE  \E after : /\ Passes(after, turns, state, S)
                    /\ \A k \in 0..Len(turns) : <<k, after[k]>> \in G
<1> DEFINE n == Len(turns)
           Fine(k, s) == k \in 1..n /\ <<k - 1, s>> \in G
           step == [p \in Nat \X S |-> IF Fine(p[1], p[2]) THEN turns[p[1]][p[2]] ELSE state]
           Runs(after) == after = [k \in 0..n |-> IF k = 0 THEN state ELSE turns[k][after[k - 1]]]
<1>1. n \in Nat
  OBVIOUS
<1>2. step \in [Nat \X S -> S]
  <2>1. ASSUME NEW p \in Nat \X S
        PROVE  (IF Fine(p[1], p[2]) THEN turns[p[1]][p[2]] ELSE state) \in S
    <3>1. p[2] \in S
      OBVIOUS
    <3> QED BY <3>1
  <2> QED BY <2>1
<1> HIDE DEF n
<1>3. PICK f : StepsFrom(f, S, state, step, 0, n)
  <2> HIDE DEF step
  <2> QED BY <1>1, <1>2, Recursion
<1>4. f \in [0..n -> S] /\ f[0] = state
  BY <1>1, <1>3 DEF StepsFrom
<1> DEFINE H == {k \in 0..n : <<k, f[k]>> \in G}
<1>5. ASSUME NEW k \in 1..n, k - 1 \in H PROVE f[k] = turns[k][f[k - 1]] /\ k \in H
  <2>1. f[k] = step[<<k, f[k - 1]>>] /\ k \in Nat /\ k - 1 \in 0..n /\ k \in 0..n
    <3> HIDE DEF step
    <3> QED BY <1>1, <1>3 DEF StepsFrom
  <2>2. f[k - 1] \in S /\ Fine(k, f[k - 1])
    BY <1>4, <1>5, <2>1
  <2>3. f[k] = turns[k][f[k - 1]]
    BY <2>1, <2>2
  <2>4. <<k, turns[k][f[k - 1]]>> \in G
    BY <2>2 DEF n
  <2> QED BY <2>1, <2>3, <2>4
<1>6. 0..n \subseteq H
  <2>1. 0 \in H
    BY <1>1, <1>4
  <2> HIDE DEF H
  <2> QED BY <1>1, <1>5, <2>1, Climb
<1>7. \A k \in 1..n : k \in 0..n /\ k - 1 \in 0..n /\ k # 0
  BY <1>1
<1>8. \A k \in 1..n : f[k] = turns[k][f[k - 1]]
  <2> HIDE DEF H
  <2> QED BY <1>5, <1>6, <1>7
<1>9. Runs(f)
  <2>1. \A k \in 0..n : k # 0 => k \in 1..n
    BY <1>1
  <2>2. f = [k \in 0..n |-> f[k]]
    BY <1>4
  <2> QED BY <1>4, <1>8, <2>1, <2>2
<1> DEFINE after == CHOOSE g : Runs(g)
<1>10. Runs(after)
  BY <1>9
<1>11. Looped(turns, state) = after[n]
  BY DEF Looped, n
<1> HIDE DEF after
<1>12. after[0] = state /\ \A k \in 1..n : after[k] = turns[k][after[k - 1]]
  <2>1. 0 \in 0..n
    BY <1>1
  <2> QED BY <1>7, <1>10, <2>1
<1>13. DOMAIN after = 0..n /\ after = [k \in 0..n |-> after[k]]
  BY <1>10
<1> DEFINE E == {k \in 0..n : after[k] = f[k]}
<1>14. 0..n \subseteq E
  <2>1. 0 \in E
    BY <1>1, <1>4, <1>12
  <2>2. ASSUME NEW k \in 1..n, k - 1 \in E PROVE k \in E
    BY <1>7, <1>8, <1>12, <2>2
  <2> HIDE DEF E
  <2> QED BY <1>1, <2>1, <2>2, Climb
<1>15. \A k \in 0..n : after[k] = f[k] /\ f[k] \in S /\ <<k, f[k]>> \in G
  BY <1>4, <1>6, <1>14
<1>16. after \in [0..n -> S]
  BY <1>13, <1>15
<1>17. \A k \in 0..n : <<k, after[k]>> \in G
  BY <1>15
<1> QED BY <1>11, <1>12, <1>16, <1>17 DEF n, Passes

\* What holds before a loop and is kept by each of its turns holds after it.
LEMMA LoopKeeps ==
  ASSUME NEW S, NEW state \in S, NEW turns, Len(turns) \in Nat,
         NEW G, <<0, state>> \in G,
         \A k \in 1..Len(turns) : \A s \in S :
            <<k - 1, s>> \in G => turns[k][s] \in S /\ <<k, turns[k][s]>> \in G
  PROVE  Looped(turns, state) \in S /\ <<Len(turns), Looped(turns, state)>> \in G
<1>1. PICK after : /\ Passes(after, turns, state, S)
                   /\ \A k \in 0..Len(turns) : <<k, after[k]>> \in G
  BY LoopedRuns
<1>2. Len(turns) \in 0..Len(turns)
  OBVIOUS
<1> QED BY <1>1, <1>2 DEF Passes

\* Sorting by a strict order on the elements lists each of them once, none
\* before one that precedes it.
LEMMA SortedProperly ==
  ASSUME NEW S, IsFiniteSet(S), NEW before,
         \A x \in S : <<x, x>> \notin before,
         \A x, y \in S : x # y => <<x, y>> \in before \/ <<y, x>> \in before,
         \A x, y, z \in S : <<x, y>> \in before /\ <<y, z>> \in before => <<x, z>> \in before
  PROVE  LET s == Sorted(S, before)
         IN  /\ s \in Seq(S) /\ Len(s) = Cardinality(S) /\ DOMAIN s = 1..Len(s)
             /\ \A i, j \in DOMAIN s : i < j => <<s[i], s[j]>> \in before
             /\ \A x \in S : \E k \in DOMAIN s : s[k] = x
<1> DEFINE n == Cardinality(S)
           B(x) == {y \in S : <<y, x>> \in before}
           rank == [x \in S |-> Cardinality(B(x)) + 1]
           s == Sorted(S, before)
<1>1. n \in Nat
  BY FS_CardinalityType
<1>2. /\ \A x \in S : B(x) \subseteq S /\ x \notin B(x)
      /\ \A x, y \in S : <<x, y>> \in before => B(x) \subseteq B(y) /\ x \in B(y)
  OBVIOUS
<1>11. s = [k \in 1..n |-> CHOOSE x \in S : Cardinality(B(x)) = k - 1]
  BY DEF Sorted, n
<1> HIDE DEF B, s
<1>0. ASSUME NEW x \in S PROVE IsFiniteSet(B(x)) /\ Cardinality(B(x)) \in 0..(n - 1)
  <2>1. IsFiniteSet(B(x)) /\ Cardinality(B(x)) \in Nat /\ Cardinality(B(x)) <= n
        /\ Cardinality(B(x)) # n
    BY <1>2, FS_Subset, FS_CardinalityType
  <2> QED BY <1>1, <2>1
<1>3. ASSUME NEW x \in S, NEW y \in S, <<x, y>> \in before PROVE rank[x] < rank[y]
  <2>1. B(x) \subseteq B(y) /\ B(x) # B(y)
    BY <1>2, <1>3
  <2>3. IsFiniteSet(B(y)) /\ Cardinality(B(x)) \in Nat /\ Cardinality(B(y)) \in Nat
    BY <1>0
  <2>4. Cardinality(B(x)) <= Cardinality(B(y)) /\ Cardinality(B(x)) # Cardinality(B(y))
    BY <2>1, <2>3, FS_Subset
  <2> QED BY <2>3, <2>4
<1>4. rank \in [S -> 1..n]
  <2>1. \A x \in S : Cardinality(B(x)) + 1 \in 1..n
    BY <1>0, <1>1
  <2> QED BY <2>1
<1>5. \A x \in S : rank[x] \in Nat /\ rank[x] = Cardinality(B(x)) + 1 /\ Cardinality(B(x)) \in Nat
  BY <1>0
<1> HIDE DEF rank, n
<1>6. \A x, y \in S : rank[x] = rank[y] => x = y
  <2>1. ASSUME NEW x \in S, NEW y \in S, rank[x] = rank[y], x # y PROVE FALSE
    <3>1. rank[x] < rank[y] \/ rank[y] < rank[x]
      BY <1>3, <2>1
    <3> QED BY <1>5, <2>1, <3>1
  <2> QED BY <2>1
<1>7. rank \in Injection(S, 1..n)
  BY <1>4, <1>6 DEF Injection, IsInjective
<1>8. IsFiniteSet(1..n) /\ Cardinality(1..n) = n
  BY <1>1, FS_Interval
<1>9. rank \in Surjection(S, 1..n)
  BY <1>7, <1>8, FS_Injection DEF n
<1>10. \A k \in 1..n : \E x \in S : rank[x] = k
  BY <1>9 DEF Surjection
<1>12. ASSUME NEW k \in 1..n PROVE s[k] \in S /\ rank[s[k]] = k
  <2>1. PICK x \in S : rank[x] = k
    BY <1>10
  <2>2. Cardinality(B(x)) = k - 1
    BY <1>1, <1>5, <2>1
  <2>3. s[k] \in S /\ Cardinality(B(s[k])) = k - 1
    BY <1>11, <2>2
  <2> QED BY <1>1, <1>5, <2>3
<1>13. s \in Seq(S) /\ Len(s) = n /\ DOMAIN s = 1..n
  <2>1. s \in [1..n -> S]
    BY <1>11, <1>12
  <2> QED BY <1>1, <2>1, SeqDef, LenProperties
<1>14. ASSUME NEW i \in 1..n, NEW j \in 1..n, i < j PROVE <<s[i], s[j]>> \in before
  <2>1. s[i] \in S /\ s[j] \in S /\ rank[s[i]] = i /\ rank[s[j]] = j
    BY <1>12
  <2>2. s[i] # s[j] /\ ~(rank[s[j]] < rank[s[i]])
    BY <1>1, <1>14, <2>1
  <2> QED BY <1>3, <2>1, <2>2
<1>15. ASSUME NEW x \in S PROVE \E k \in 1..n : s[k] = x
  <2>1. rank[x] \in 1..n
    BY <1>4
  <2>2. s[rank[x]] \in S /\ rank[s[rank[x]]] = rank[x]
    BY <1>12, <2>1
  <2> QED BY <1>6, <2>1, <2>2
<1> QED BY <1>13, <1>14, <1>15 DEF s, n

\* Two lists of growing numbers that have the same elements are equal.
Elements(s) == {s[j] : j \in DOMAIN s}
Grows(s) == \A i, j \in DOMAIN s : i < j => s[i] < s[j]

LEMMA GrowingAlike ==
  ASSUME NEW s \in Seq(Nat), NEW t \in Seq(Nat), Grows(s), Grows(t), Elements(s) = Elements(t)
  PROVE  s = t
<1> DEFINE Same(k) == k \in DOMAIN s /\ k \in DOMAIN t /\ s[k] = t[k]
           B == {k \in DOMAIN s \cup DOMAIN t : ~Same(k)}
<1>1. /\ DOMAIN s = 1..Len(s) /\ DOMAIN t = 1..Len(t) /\ Len(s) \in Nat /\ Len(t) \in Nat
      /\ \A k \in DOMAIN s : s[k] \in Nat
      /\ \A k \in DOMAIN t : t[k] \in Nat
  OBVIOUS
<1>2. SUFFICES B = {}
  <2>1. \A k \in DOMAIN s \cup DOMAIN t : Same(k)
    BY <1>2
  <2>2. Len(s) = Len(t)
    <3>1. Len(s) \in DOMAIN s => Len(s) \in DOMAIN t
      BY <2>1
    <3>2. Len(t) \in DOMAIN t => Len(t) \in DOMAIN s
      BY <2>1
    <3> HIDE DEF B, Same
    <3>3. Len(s) <= Len(t) /\ Len(t) <= Len(s)
      BY <1>1, <3>1, <3>2
    <3>4. \A m, n \in Nat : m <= n /\ n <= m => m = n
      OBVIOUS
    <3> QED BY ONLY <1>1, <3>3, <3>4
  <2> QED BY <1>1, <2>1, <2>2, SeqEqual
<1>3. SUFFICES ASSUME B # {} PROVE FALSE
  BY <1>3
<1>4. B \subseteq Nat
  BY <1>1
<1>5. PICK k \in B : \A j \in B : k <= j
  <2> HIDE DEF B
  <2> QED BY <1>3, <1>4, Least
<1>6. k \in Nat /\ \A j \in 1..(k - 1) : j \in DOMAIN s \cup DOMAIN t => Same(j)
  <2>1. k \in Nat
    BY <1>4, <1>5
  <2>2. \A j \in 1..(k - 1) : ~(k <= j)
    BY <2>1
  <2> QED BY <1>5, <2>1, <2>2
<1>7. k \in DOMAIN s => k \in DOMAIN t /\ t[k] <= s[k]
  <2>1. SUFFICES ASSUME k \in DOMAIN s PROVE k \in DOMAIN t /\ t[k] <= s[k]
    OBVIOUS
  <2>2. PICK j \in DOMAIN t : s[k] = t[j]
    BY <2>1 DEF Elements
  <2>3. ~(j < k)
    <3>1. SUFFICES ASSUME j < k PROVE FALSE
      OBVIOUS
    <3>2. Same(j)
      BY <1>1, <1>6, <2>2, <3>1
    <3>3. s[j] < s[k] /\ s[j] = s[k] /\ s[k] \in Nat
      BY <1>1, <2>1, <2>2, <3>1, <3>2 DEF Grows
    <3> QED BY <3>3
  <2>4. k \in DOMAIN t /\ (k < j \/ k = j)
    BY <1>1, <1>6, <2>1, <2>2, <2>3
  <2>5. t[k] \in Nat /\ t[j] \in Nat
    BY <1>1, <2>2, <2>4
  <2>6. k < j => t[k] < t[j]
    BY <2>2, <2>4 DEF Grows
  <2> QED BY <2>2, <2>4, <2>5, <2>6
<1>8. k \in DOMAIN t => k \in DOMAIN s /\ s[k] <= t[k]
  <2>1. SUFFICES ASSUME k \in DOMAIN t PROVE k \in DOMAIN s /\ s[k] <= t[k]
    OBVIOUS
  <2>2. PICK j \in DOMAIN s : s[j] = t[k]
    BY <2>1 DEF Elements
  <2>3. ~(j < k)
    <3>1. SUFFICES ASSUME j < k PROVE FALSE
      OBVIOUS
    <3>2. Same(j)
      <4>1. k \in Nat /\ j \in Nat /\ j >= 1 /\ j \in DOMAIN s
        BY <1>1, <1>6, <2>2
      <4>2. j \in 1..(k - 1)
        BY <3>1, <4>1
      <4> QED BY <1>6, <4>1, <4>2
    <3>3. t[j] < t[k] /\ t[j] = t[k] /\ t[k] \in Nat
      BY <1>1, <2>1, <2>2, <3>1, <3>2 DEF Grows
    <3> QED BY <3>3
  <2>4. k \in DOMAIN s /\ (k < j \/ k = j)
    BY <1>1, <1>6, <2>1, <2>2, <2>3
  <2>5. s[k] \in Nat /\ s[j] \in Nat
    BY <1>1, <2>2, <2>4
  <2>6. k < j => s[k] < s[j]
    BY <2>2, <2>4 DEF Grows
  <2> QED BY <2>2, <2>4, <2>5, <2>6
<1>9. k \in DOMAIN s /\ k \in DOMAIN t /\ s[k] = t[k]
  <2>1. k \in DOMAIN s /\ k \in DOMAIN t /\ s[k] <= t[k] /\ t[k] <= s[k]
    BY <1>5, <1>7, <1>8
  <2>2. s[k] \in Nat /\ t[k] \in Nat
    BY <1>1, <2>1
  <2> QED BY <2>1, <2>2
<1> QED BY <1>5, <1>9

\* The beginning and the end of two lists that follow each other.
LEMMA FrontOfJoined ==
  ASSUME NEW S, NEW s \in Seq(S), NEW r \in Seq(S), NEW f \in 0..Len(s)
  PROVE  SubSeq(s \o r, 1, f) = SubSeq(s, 1, f)
<1>1. Len(s) \in Nat /\ Len(r) \in Nat
  OBVIOUS
<1>2. CASE f = 0
  <2>1. SubSeq(s \o r, 1, 0) = <<>> /\ SubSeq(s, 1, 0) = <<>>
    BY SubSeqEmpty
  <2> QED BY <1>2, <2>1
<1>3. CASE f # 0
  <2>1. 1 \in 1..Len(s) /\ f \in 1..Len(s)
    BY <1>1, <1>3
  <2> QED BY <2>1, SubSeqOfConcat1
<1> QED BY <1>2, <1>3

LEMMA BackOfJoined ==
  ASSUME NEW S, NEW s \in Seq(S), NEW r \in Seq(S), NEW g \in 0..Len(s)
  PROVE  SubSeq(s \o r, g + 1, Len(s \o r)) = SubSeq(s, g + 1, Len(s)) \o r
<1> DEFINE a == Len(s)
           b == Len(r)
           v == s \o r
           t == SubSeq(s, g + 1, a)
           u == SubSeq(v, g + 1, a + b)
<1>0. a \in Nat /\ b \in Nat /\ g \in Nat /\ g <= a
  OBVIOUS
<1>1. a \in Nat /\ b \in Nat /\ v \in Seq(S) /\ Len(v) = a + b /\ g \in Nat /\ g <= a
      /\ \A i \in 1..(a + b) : v[i] = IF i <= a THEN s[i] ELSE r[i - a]
  BY ConcatProperties
<1>2. t \in Seq(S) /\ Len(t) = a - g /\ \A i \in 1..(a - g) : t[i] = s[g + i]
  <2>1. \A i \in (g + 1)..a : s[i] \in S
    BY <1>1
  <2>2. g + 1 \in Int /\ a \in Int
    BY <1>1
  <2>3. /\ t \in Seq(S) /\ Len(t) = IF g + 1 <= a THEN a - (g + 1) + 1 ELSE 0
        /\ \A i \in 1..(a - (g + 1) + 1) : t[i] = s[g + 1 + i - 1]
    BY <2>1, <2>2, SubSeqProperties
  <2> HIDE DEF t
  <2>4. a - (g + 1) + 1 = a - g /\ (IF g + 1 <= a THEN a - (g + 1) + 1 ELSE 0) = a - g
        /\ \A i \in Nat : g + 1 + i - 1 = g + i
    BY <1>0
  <2>5. t \in Seq(S) /\ Len(t) = a - g
    BY <2>3, <2>4
  <2>6. ASSUME NEW i \in 1..(a - g) PROVE t[i] = s[g + i]
    <3>1. i \in Nat
      OBVIOUS
    <3> HIDE DEF a
    <3> QED BY <2>3, <2>4, <3>1
  <2> QED BY <2>5, <2>6
<1>3. u \in Seq(S) /\ Len(u) = a + b - g /\ \A i \in 1..(a + b - g) : u[i] = v[g + i]
  <2>1. \A i \in (g + 1)..(a + b) : v[i] \in S
    <3>1. ASSUME NEW i \in (g + 1)..(a + b) PROVE v[i] \in S
      <4>1. i \in 1..Len(v)
        BY <1>1
      <4> HIDE DEF v
      <4> QED BY <1>1, <4>1, ElementOfSeq
    <3> QED BY <3>1
  <2>2. g + 1 \in Int /\ a + b \in Int
    BY <1>1
  <2>3. /\ u \in Seq(S) /\ Len(u) = IF g + 1 <= a + b THEN a + b - (g + 1) + 1 ELSE 0
        /\ \A i \in 1..(a + b - (g + 1) + 1) : u[i] = v[g + 1 + i - 1]
    BY <2>1, <2>2, SubSeqProperties
  <2> HIDE DEF u, v
  <2>4. a + b - (g + 1) + 1 = a + b - g /\ \A i \in Nat : g + 1 + i - 1 = g + i
    BY <1>1
  <2> QED BY <1>1, <2>3, <2>4
<1> HIDE DEF u, v, t, a, b
<1>4. /\ t \o r \in Seq(S) /\ Len(t \o r) = a - g + b
      /\ \A i \in 1..(a - g + b) : (t \o r)[i] = IF i <= a - g THEN t[i] ELSE r[i - (a - g)]
  <2>1. /\ t \o r \in Seq(S) /\ Len(t \o r) = Len(t) + Len(r)
        /\ \A i \in 1..Len(t) + Len(r) : (t \o r)[i] = IF i <= Len(t) THEN t[i] ELSE r[i - Len(t)]
    BY <1>2, ConcatProperties
  <2>2. Len(t) = a - g /\ Len(r) = b
    BY <1>2 DEF b
  <2> QED BY <2>1, <2>2
<1>5. ASSUME NEW i \in 1..Len(u) PROVE u[i] = (t \o r)[i]
  <2>1. i \in 1..(a + b - g) /\ i \in 1..(a - g + b) /\ g + i \in 1..(a + b)
    BY <1>1, <1>3
  <2>2. CASE i <= a - g
    <3>1. g + i <= a /\ i \in 1..(a - g)
      BY <1>1, <2>1, <2>2
    <3>2. u[i] = s[g + i]
      <4>1. u[i] = v[g + i]
        BY <1>3, <2>1
      <4> QED BY <1>1, <2>1, <3>1, <4>1
    <3>3. (t \o r)[i] = s[g + i]
      BY <1>2, <1>4, <2>1, <2>2, <3>1
    <3> QED BY <3>2, <3>3
  <2>3. CASE ~(i <= a - g)
    <3>1. ~(g + i <= a) /\ g + i - a = i - (a - g)
      BY <1>1, <2>1, <2>3
    <3>2. u[i] = r[g + i - a]
      <4>1. u[i] = v[g + i]
        BY <1>3, <2>1
      <4> QED BY SMTT(30), <1>1, <2>1, <3>1, <4>1
    <3>3. (t \o r)[i] = r[i - (a - g)]
      BY <1>4, <2>1, <2>3
    <3> QED BY <3>1, <3>2, <3>3
  <2> QED BY <2>2, <2>3
<1>6. Len(u) = Len(t \o r)
  BY <1>1, <1>3, <1>4
<1>7. u = t \o r
  BY <1>3, <1>4, <1>5, <1>6, SeqEqual
<1> QED BY <1>1, <1>7 DEF u, v, t, a, b

\* The middle of a part of a list.
LEMMA PartOfFront ==
  ASSUME NEW S, NEW s \in Seq(S), NEW e \in 0..Len(s), NEW f \in 0..e
  PROVE  /\ SubSeq(s, 1, e) \in Seq(S) /\ Len(SubSeq(s, 1, e)) = e
         /\ SubSeq(SubSeq(s, 1, e), 1, f) = SubSeq(s, 1, f)
         /\ SubSeq(SubSeq(s, 1, e), f + 1, e) = SubSeq(s, f + 1, e)
<1>1. Len(s) \in Nat /\ e \in Nat /\ e <= Len(s) /\ f \in Nat /\ f <= e
  OBVIOUS
<1>2. SubSeq(s, 1, e) \in Seq(S) /\ Len(SubSeq(s, 1, e)) = e
  <2>1. \A i \in 1..e : s[i] \in S
    BY <1>1
  <2>2. 1 \in Int /\ e \in Int
    BY <1>1
  <2>3. SubSeq(s, 1, e) \in Seq(S) /\ Len(SubSeq(s, 1, e)) = IF 1 <= e THEN e - 1 + 1 ELSE 0
    BY <2>1, <2>2, SubSeqProperties
  <2> QED BY <1>1, <2>3
<1>3. SubSeq(SubSeq(s, 1, e), 1, f) = SubSeq(s, 1, f)
  <2>1. CASE f = 0
    BY <2>1, SubSeqEmpty
  <2>2. CASE f # 0
    <3>1. 1 \in 1..Len(s) /\ e \in 1..Len(s) /\ 1 \in 1..(e - 1 + 1) /\ f \in 1..(e - 1 + 1)
      BY <1>1, <2>2
    <3>2. SubSeq(SubSeq(s, 1, e), 1, f) = SubSeq(s, 1 + 1 - 1, 1 + f - 1)
      BY <3>1, SubSeqOfSubSeq
    <3>3. 1 + 1 - 1 = 1 /\ 1 + f - 1 = f
      BY <1>1
    <3> QED BY <3>2, <3>3
  <2> QED BY <2>1, <2>2
<1>4. SubSeq(SubSeq(s, 1, e), f + 1, e) = SubSeq(s, f + 1, e)
  <2>1. CASE f = e
    <3>1. f + 1 \in Int /\ e \in Int /\ e < f + 1
      BY <1>1, <2>1
    <3> QED BY <3>1, SubSeqEmpty
  <2>2. CASE f # e
    <3>1. 1 \in 1..Len(s) /\ e \in 1..Len(s) /\ f + 1 \in 1..(e - 1 + 1) /\ e \in 1..(e - 1 + 1)
      BY <1>1, <2>2
    <3>2. SubSeq(SubSeq(s, 1, e), f + 1, e) = SubSeq(s, 1 + (f + 1) - 1, 1 + e - 1)
      BY <3>1, SubSeqOfSubSeq
    <3>3. 1 + (f + 1) - 1 = f + 1 /\ 1 + e - 1 = e
      BY <1>1
    <3> QED BY <3>2, <3>3
  <2> QED BY <2>1, <2>2
<1> QED BY <1>2, <1>3, <1>4

\* A function on the first n numbers is a list of n elements.
LEMMA ListOf ==
  ASSUME NEW n \in Nat, NEW T, NEW f \in [1..n -> T]
  PROVE  f \in Seq(T) /\ Len(f) = n
<1>1. f \in Seq(T)
  BY SeqDef
<1>2. DOMAIN f = 1..n
  OBVIOUS
<1> QED BY <1>1, <1>2, LenProperties
=============================================================================

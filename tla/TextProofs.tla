---------------------------- MODULE TextProofs -----------------------------
(***************************************************************************)
(* Lemmas about the parts of Periphery that read and clean texts, for its  *)
(* theorems about them in PeripheryProofs.  What a loop does is argued     *)
(* with the lemmas of Wellorder about Looped and Sorted.                   *)
(***************************************************************************)
EXTENDS Redaction, Adapters, Sse, Cbor, Wellorder

-----------------------------------------------------------------------------
(* Redaction *)

\* A piece of a redacted text: the characters of S in their order, and n tokens
\* of the rules in R.
Part(text, S, n, R) ==
  /\ text \in Seq(Nat)
  /\ \A i, j \in DOMAIN text \ Tokens(text) : i < j => text[i] < text[j]
  /\ {text[i] : i \in DOMAIN text \ Tokens(text)} = S
  /\ IsFiniteSet(Tokens(text)) /\ Cardinality(Tokens(text)) = n
  /\ RulesIn(text) = R

\* Pieces that follow each other are a piece.
LEMMA PartsJoin ==
  ASSUME NEW t, NEW u, NEW S, NEW T, NEW m \in Nat, NEW n \in Nat, NEW Q, NEW R,
         Part(t, S, m, Q), Part(u, T, n, R), S \subseteq Nat, T \subseteq Nat,
         \A x \in S, y \in T : x < y
  PROVE  Part(t \o u, S \cup T, m + n, Q \cup R)
<1> DEFINE v == t \o u
           a == Len(t)
           Moved == [i \in Tokens(u) |-> a + i]
           Later == {a + i : i \in Tokens(u)}
<1>1. t \in Seq(Nat) /\ u \in Seq(Nat) /\ a \in Nat /\ Len(u) \in Nat
      /\ DOMAIN t = 1..a /\ DOMAIN u = 1..Len(u)
  BY DEF Part
<1>2. v \in Seq(Nat) /\ Len(v) = a + Len(u) /\ DOMAIN v = 1..(a + Len(u))
      /\ (\A i \in 1..a : v[i] = t[i]) /\ (\A i \in 1..Len(u) : v[a + i] = u[i])
  <2>1. v \in Seq(Nat) /\ Len(v) = a + Len(u)
        /\ \A i \in 1..(a + Len(u)) : v[i] = IF i <= a THEN t[i] ELSE u[i - a]
    BY <1>1, ConcatProperties
  <2>2. DOMAIN v = 1..(a + Len(u))
    BY <2>1
  <2> HIDE DEF v, a
  <2>3. \A i \in 1..a : i \in 1..(a + Len(u)) /\ i <= a
    BY <1>1
  <2>4. \A i \in 1..Len(u) : a + i \in 1..(a + Len(u)) /\ ~(a + i <= a) /\ a + i - a = i
    BY <1>1
  <2>5. ASSUME NEW i \in 1..a PROVE v[i] = t[i]
    BY <2>1, <2>3
  <2>6. ASSUME NEW i \in 1..Len(u) PROVE v[a + i] = u[i]
    <3> DEFINE k == a + i
    <3>1. k \in 1..(a + Len(u)) /\ ~(k <= a) /\ k - a = i
      BY <1>1
    <3> HIDE DEF k
    <3>2. v[k] = u[k - a]
      BY <2>1, <3>1
    <3>3. v[k] = u[i]
      BY <3>1, <3>2
    <3> QED BY <3>3 DEF k
  <2> QED BY <2>1, <2>2, <2>5, <2>6
<1> HIDE DEF v, a
<1>3. \A i \in 1..(a + Len(u)) : i \in 1..a \/ (i - a \in 1..Len(u) /\ i = a + (i - a))
  BY <1>1
<1>4. /\ \A i \in 1..a : i \in DOMAIN v /\ (i \in Tokens(v) <=> i \in Tokens(t))
      /\ \A i \in 1..Len(u) : a + i \in DOMAIN v /\ (a + i \in Tokens(v) <=> i \in Tokens(u))
  <2>1. \A i \in 1..a : i \in 1..(a + Len(u))
    BY <1>1
  <2>2. \A i \in 1..Len(u) : a + i \in 1..(a + Len(u))
    BY <1>1
  <2> QED BY <1>1, <1>2, <2>1, <2>2 DEF Tokens
<1>13. ASSUME NEW i \in DOMAIN v, i \notin 1..a
       PROVE  i - a \in 1..Len(u) /\ v[i] = u[i - a] /\ (i \in Tokens(v) <=> i - a \in Tokens(u))
  <2>1. i - a \in 1..Len(u) /\ i = a + (i - a)
    BY <1>2, <1>3, <1>13
  <2>2. v[a + (i - a)] = u[i - a] /\ (a + (i - a) \in Tokens(v) <=> i - a \in Tokens(u))
    BY <1>2, <1>4, <2>1
  <2> QED BY <2>1, <2>2
<1>5. Tokens(t) \subseteq 1..a /\ Tokens(u) \subseteq 1..Len(u) /\ Tokens(v) \subseteq 1..(a + Len(u))
  BY <1>1, <1>2 DEF Tokens
<1>6. Tokens(v) = Tokens(t) \cup Later
  BY <1>3, <1>4, <1>5
<1>7. Tokens(t) \cap Later = {}
  BY <1>1, <1>5
<1>8. IsFiniteSet(Later) /\ Cardinality(Later) = n
  <2>1. Moved \in Bijection(Tokens(u), Later)
    <3>1. \A i, j \in Tokens(u) : a + i = a + j => i = j
      BY <1>1, <1>5
    <3>2. Moved \in [Tokens(u) -> Later] /\ \A i \in Tokens(u) : Moved[i] = a + i
      OBVIOUS
    <3>3. \A k \in Later : \E i \in Tokens(u) : Moved[i] = k
      OBVIOUS
    <3> HIDE DEF Moved, Later
    <3> QED BY <3>1, <3>2, <3>3 DEF Bijection, Injection, Surjection, IsInjective
  <2>2. ExistsBijection(Tokens(u), Later)
    BY <2>1 DEF ExistsBijection
  <2>3. IsFiniteSet(Tokens(u)) /\ Cardinality(Tokens(u)) = n
    BY DEF Part
  <2> QED BY <2>2, <2>3, FS_Bijection
<1> HIDE DEF Later
<1>9. IsFiniteSet(Tokens(v)) /\ Cardinality(Tokens(v)) = m + n
  <2>1. IsFiniteSet(Tokens(t)) /\ Cardinality(Tokens(t)) = m
    BY DEF Part
  <2>2. Cardinality(Tokens(t) \cap Later) = 0
    BY <1>7, FS_EmptySet
  <2>3. Cardinality(Tokens(t) \cup Later) = m + n - 0 /\ IsFiniteSet(Tokens(t) \cup Later)
    BY <1>8, <2>1, <2>2, FS_Union
  <2> QED BY <1>6, <2>3
<1>10. RulesIn(v) = Q \cup R
  <2>1. ASSUME NEW i \in Tokens(v) PROVE v[i] - TextLength \in Q \cup R
    <3>1. CASE i \in 1..a
      BY <1>2, <1>4, <2>1, <3>1 DEF Part, RulesIn
    <3>2. CASE i \notin 1..a
      <4>1. i - a \in Tokens(u) /\ v[i] = u[i - a]
        BY <1>2, <1>5, <1>13, <2>1, <3>2
      <4> QED BY <4>1 DEF Part, RulesIn
    <3> QED BY <3>1, <3>2
  <2>2. ASSUME NEW r \in Q PROVE \E i \in Tokens(v) : v[i] - TextLength = r
    <3>1. PICK i \in Tokens(t) : t[i] - TextLength = r
      BY <2>2 DEF Part, RulesIn
    <3> QED BY <1>2, <1>4, <1>5, <3>1
  <2>3. ASSUME NEW r \in R PROVE \E i \in Tokens(v) : v[i] - TextLength = r
    <3>1. PICK i \in Tokens(u) : u[i] - TextLength = r
      BY <2>3 DEF Part, RulesIn
    <3> QED BY <1>2, <1>4, <1>5, <3>1
  <2> QED BY <2>1, <2>2, <2>3 DEF RulesIn
<1>11. {v[i] : i \in DOMAIN v \ Tokens(v)} = S \cup T
  <2>1. ASSUME NEW i \in DOMAIN v \ Tokens(v) PROVE v[i] \in S \cup T
    <3>1. CASE i \in 1..a
      BY <1>1, <1>2, <1>4, <2>1, <3>1 DEF Part
    <3>2. CASE i \notin 1..a
      <4>1. i - a \in DOMAIN u \ Tokens(u) /\ v[i] = u[i - a]
        BY <1>1, <1>13, <2>1, <3>2
      <4> QED BY <4>1 DEF Part
    <3> QED BY <3>1, <3>2
  <2>2. ASSUME NEW x \in S PROVE \E i \in DOMAIN v \ Tokens(v) : v[i] = x
    <3>1. PICK i \in DOMAIN t \ Tokens(t) : t[i] = x
      BY <2>2 DEF Part
    <3> QED BY <1>1, <1>2, <1>4, <3>1
  <2>3. ASSUME NEW x \in T PROVE \E i \in DOMAIN v \ Tokens(v) : v[i] = x
    <3>1. PICK i \in DOMAIN u \ Tokens(u) : u[i] = x
      BY <2>3 DEF Part
    <3> QED BY <1>1, <1>2, <1>4, <3>1
  <2> QED BY <2>1, <2>2, <2>3
<1>12. ASSUME NEW i \in DOMAIN v \ Tokens(v), NEW j \in DOMAIN v \ Tokens(v), i < j
       PROVE  v[i] < v[j]
  <2>1. CASE i \in 1..a /\ j \in 1..a
    BY <1>1, <1>2, <1>4, <1>12, <2>1 DEF Part
  <2>2. CASE i \in 1..a /\ j \notin 1..a
    <3>1. v[i] \in S
      BY <1>1, <1>2, <1>4, <2>2 DEF Part
    <3>2. v[j] \in T
      <4>1. j - a \in DOMAIN u \ Tokens(u) /\ v[j] = u[j - a]
        BY <1>1, <1>13, <2>2
      <4> QED BY <4>1 DEF Part
    <3> QED BY <3>1, <3>2
  <2>3. CASE i \notin 1..a /\ j \notin 1..a
    <3>1. i - a \in DOMAIN u \ Tokens(u) /\ j - a \in DOMAIN u \ Tokens(u)
          /\ v[i] = u[i - a] /\ v[j] = u[j - a]
      BY <1>1, <1>13, <2>3
    <3>2. i - a < j - a
      BY <1>1, <1>2, <1>12
    <3> QED BY <3>1, <3>2 DEF Part
  <2>4. ~(i \notin 1..a /\ j \in 1..a)
    BY <1>1, <1>2, <1>12
  <2> QED BY <2>1, <2>2, <2>3, <2>4
<1> QED BY <1>2, <1>9, <1>10, <1>11, <1>12 DEF Part, v

\* The matches of a text, as they are reported.
HitSet ==
  {h \in [rule : 1..Detectors, from : 0..TextLength, to : 0..TextLength] : h.from < h.to}

LEMMA TextPart ==
  ASSUME NEW a \in Nat, NEW b \in Nat, a <= b, b <= TextLength
  PROVE  Part(SubSeq(Text, a + 1, b), (a + 1)..b, 0, {})
<1> DEFINE t == SubSeq(Text, a + 1, b)
<1>1. TextLength \in Nat
  BY RedactionAssumption
<1>2. \A i \in (a + 1)..b : Text[i] \in Nat /\ Text[i] = i
  BY <1>1 DEF Text
<1>3. /\ t \in Seq(Nat) /\ Len(t) = IF a + 1 <= b THEN b - (a + 1) + 1 ELSE 0
      /\ \A i \in 1..(b - (a + 1) + 1) : t[i] = Text[a + 1 + i - 1]
  <2>1. a + 1 \in Int /\ b \in Int
    OBVIOUS
  <2> QED BY <1>2, <2>1, SubSeqProperties
<1> HIDE DEF t
<1>4. Len(t) = b - a /\ DOMAIN t = 1..(b - a)
  BY <1>3
<1>5. ASSUME NEW i \in 1..(b - a) PROVE t[i] = a + i /\ a + i \in 1..TextLength
  <2>1. i \in 1..(b - (a + 1) + 1) /\ a + 1 + i - 1 = a + i /\ a + i \in (a + 1)..b
    OBVIOUS
  <2>2. t[i] = Text[a + i]
    BY <1>3, <2>1
  <2> QED BY <1>1, <1>2, <2>1, <2>2
<1>6. Tokens(t) = {}
  BY <1>4, <1>5 DEF Tokens
<1>7. {t[i] : i \in DOMAIN t \ Tokens(t)} = (a + 1)..b
  <2>1. ASSUME NEW k \in (a + 1)..b PROVE k - a \in 1..(b - a) /\ t[k - a] = k
    <3>1. k - a \in 1..(b - a) /\ a + (k - a) = k
      OBVIOUS
    <3> QED BY <1>5, <3>1
  <2>2. ASSUME NEW i \in 1..(b - a) PROVE t[i] \in (a + 1)..b
    BY <1>5
  <2> QED BY <1>4, <1>6, <2>1, <2>2
<1>8. \A i, j \in DOMAIN t \ Tokens(t) : i < j => t[i] < t[j]
  BY <1>4, <1>5
<1>9. RulesIn(t) = {}
  BY <1>6 DEF RulesIn
<1> QED BY <1>3, <1>6, <1>7, <1>8, <1>9, FS_EmptySet DEF Part, t

LEMMA TokenPart ==
  ASSUME NEW hit \in HitSet
  PROVE  Part(<<Token(hit)>>, {}, 1, {hit.rule})
<1> DEFINE t == <<Token(hit)>>
<1>1. TextLength \in Nat /\ hit.rule \in Nat /\ hit.rule > 0
  BY RedactionAssumption DEF HitSet
<1>2. Token(hit) \in Nat /\ Token(hit) \notin 1..TextLength /\ Token(hit) - TextLength = hit.rule
  BY <1>1 DEF Token
<1>3. t \in Seq(Nat) /\ DOMAIN t = {1} /\ t[1] = Token(hit)
  BY <1>2
<1> HIDE DEF t
<1>4. Tokens(t) = {1}
  BY <1>2, <1>3 DEF Tokens
<1>5. IsFiniteSet(Tokens(t)) /\ Cardinality(Tokens(t)) = 1
  BY <1>4, FS_Singleton
<1>6. RulesIn(t) = {hit.rule}
  BY <1>2, <1>3, <1>4 DEF RulesIn
<1> QED BY <1>3, <1>4, <1>5, <1>6 DEF Part, t

\* Hits in the order of the text, of which none overlaps another.
NoOverlaps(hits) ==
  /\ hits \in Seq(HitSet)
  /\ \A i, j \in DOMAIN hits : i < j => hits[i].to <= hits[j].from

\* The rules of the hits of a list with places in S.
RulesOf(hits, S) == {hits[k].rule : k \in S \cap DOMAIN hits}

\* A text of which everything in the hits of a list is replaced hides them.
LEMMA PartHides ==
  ASSUME NEW matches, NEW t, NEW hits, NoOverlaps(hits), Elements(hits) \subseteq Hits(matches),
         Part(t, 1..TextLength \ Claimed(Elements(hits)), Len(hits), RulesOf(hits, 1..Len(hits))),
         \A h \in Hits(matches) : h \in HitSet /\ \E k \in DOMAIN hits : Overlaps(h, hits[k])
  PROVE  /\ Hides(t, matches, Range(hits))
         /\ Cardinality(Tokens(t)) = Len(hits)
         /\ RulesIn(t) = {h.rule : h \in Range(hits)}
<1> DEFINE H == Elements(hits)
<1>1. TextLength \in Nat /\ hits \in Seq(HitSet) /\ Range(hits) = H /\ DOMAIN hits = 1..Len(hits)
      /\ Len(hits) \in Nat
  BY RedactionAssumption DEF NoOverlaps, Range, Elements
<1>2. RulesIn(t) = {h.rule : h \in H}
  BY <1>1 DEF Part, RulesOf, Elements
<1>3. Cardinality(H) = Len(hits)
  <2>1. \A k \in DOMAIN hits : hits[k] \in HitSet
    BY <1>1
  <2>2. ASSUME NEW i \in DOMAIN hits, NEW j \in DOMAIN hits, i < j PROVE hits[i] # hits[j]
    <3>1. hits[i].to <= hits[j].from /\ hits[i].from < hits[i].to
          /\ hits[i].from \in Nat /\ hits[i].to \in Nat /\ hits[j].from \in Nat
      BY <1>1, <2>1, <2>2 DEF NoOverlaps, HitSet
    <3> QED BY <3>1
  <2>3. \A i, j \in DOMAIN hits : hits[i] = hits[j] => i = j
    <3>1. \A i, j \in 1..Len(hits) : i < j \/ i = j \/ j < i
      BY <1>1
    <3> QED BY <1>1, <2>2, <3>1
  <2>4. hits \in [1..Len(hits) -> H] /\ \A h \in H : \E k \in 1..Len(hits) : hits[k] = h
    <3>1. hits = [k \in 1..Len(hits) |-> hits[k]]
      BY <1>1, LenProperties
    <3>2. (\A k \in 1..Len(hits) : hits[k] \in H)
          /\ \A h \in H : \E k \in 1..Len(hits) : hits[k] = h
      BY <1>1 DEF Elements
    <3> HIDE DEF H
    <3> QED BY <3>1, <3>2
  <2>5. hits \in Bijection(1..Len(hits), H)
    <3> HIDE DEF H
    <3> QED BY <1>1, <2>3, <2>4 DEF Bijection, Injection, Surjection, IsInjective
  <2>6. ExistsBijection(1..Len(hits), H)
    BY <2>5 DEF ExistsBijection
  <2> QED BY <1>1, <2>6, FS_CountingElements
<1>4. Shown(t) = Kept(H)
  <2> DEFINE tokens == {t[i] : i \in Tokens(t)}
             P == Places(t, tokens)
             s == Shown(t)
             C == Claimed(H)
             Q == Places(Text, C)
             u == Kept(H)
  <2>1. t \in Seq(Nat) /\ Text \in Seq(Nat) /\ DOMAIN Text = 1..TextLength
        /\ \A i \in 1..TextLength : Text[i] = i
    <3>1. Text \in [1..TextLength -> Nat]
      BY <1>1 DEF Text
    <3> QED BY <1>1, <3>1, SeqDef DEF Part, Text
  <2>2. P = DOMAIN t \ Tokens(t)
    BY DEF Places, Tokens
  <2>3. Q = 1..TextLength \ C
    BY <2>1 DEF Places
  <2> HIDE DEF tokens, P, Q, C
  <2>4. /\ s \in Seq(Nat)
        /\ \A i \in DOMAIN s : Nth(P, i) \in P /\ s[i] = t[Nth(P, i)]
        /\ \A i, j \in DOMAIN s : i < j => Nth(P, i) < Nth(P, j)
        /\ \A p \in P : \E i \in DOMAIN s : Nth(P, i) = p
    <3>1. s = Omitting(t, tokens)
      BY DEF Shown, tokens
    <3> QED BY <2>1, <3>1, OmittingKeeps DEF P
  <2>5. /\ u \in Seq(Nat)
        /\ \A i \in DOMAIN u : Nth(Q, i) \in Q /\ u[i] = Text[Nth(Q, i)]
        /\ \A i, j \in DOMAIN u : i < j => Nth(Q, i) < Nth(Q, j)
        /\ \A p \in Q : \E i \in DOMAIN u : Nth(Q, i) = p
    <3>1. u = Omitting(Text, C)
      BY DEF Kept, C
    <3>2. Text \in Seq(Nat)
      BY <2>1
    <3> QED BY <3>1, <3>2, OmittingKeeps DEF Q
  <2> HIDE DEF s, u
  <2>6. Grows(s) /\ Elements(s) = 1..TextLength \ C
    <3>1. Grows(s)
      BY ZenonT(60), <2>2, <2>4 DEF Grows, Part
    <3>2. Elements(s) = {t[i] : i \in DOMAIN t \ Tokens(t)}
      <4>1. ASSUME NEW i \in DOMAIN s PROVE s[i] \in {t[j] : j \in DOMAIN t \ Tokens(t)}
        BY <2>2, <2>4
      <4>2. ASSUME NEW j \in DOMAIN t \ Tokens(t) PROVE \E i \in DOMAIN s : s[i] = t[j]
        BY <2>2, <2>4
      <4> QED BY <4>1, <4>2 DEF Elements
    <3>3. Elements(s) = 1..TextLength \ C
      BY <3>2 DEF Part, C
    <3> QED BY <3>1, <3>3
  <2>7. Grows(u) /\ Elements(u) = 1..TextLength \ C
    <3>1. \A i \in DOMAIN u : Nth(Q, i) \in 1..TextLength \ C /\ u[i] = Nth(Q, i)
      BY <2>1, <2>3, <2>5
    <3>2. Grows(u)
      BY <2>5, <3>1 DEF Grows
    <3>3. Elements(u) = 1..TextLength \ C
      <4>1. ASSUME NEW i \in DOMAIN u PROVE u[i] \in 1..TextLength \ C
        BY <3>1
      <4>2. ASSUME NEW p \in 1..TextLength \ C PROVE \E i \in DOMAIN u : u[i] = p
        BY ZenonT(60), <2>3, <2>5, <3>1
      <4> QED BY <4>1, <4>2 DEF Elements
    <3> QED BY <3>2, <3>3
  <2>8. s = u
    BY <2>4, <2>5, <2>6, <2>7, GrowingAlike
  <2> QED BY <2>8 DEF s, u
<1>5. ASSUME NEW h \in Hits(matches) PROVE Claimed({h}) \cap Claimed(H) # {}
  <2>1. PICK j \in DOMAIN hits : Overlaps(h, hits[j])
    OBVIOUS
  <2> DEFINE o == hits[j]
  <2>2. h \in HitSet /\ o \in HitSet /\ o \in H /\ Overlaps(h, o)
    BY <1>1, <2>1 DEF Elements
  <2> HIDE DEF o
  <2> DEFINE i == IF h.from <= o.from THEN o.from + 1 ELSE h.from + 1
  <2>3. i \in 1..TextLength /\ h.from < i /\ i <= h.to /\ o.from < i /\ i <= o.to
    <3>1. h.from \in 0..TextLength /\ h.to \in 0..TextLength /\ h.from < h.to
          /\ o.from \in 0..TextLength /\ o.to \in 0..TextLength /\ o.from < o.to
      BY <2>2 DEF HitSet
    <3>2. h.from < o.to /\ o.from < h.to
      BY <2>2 DEF Overlaps
    <3>3. PICK a \in Nat, b \in Nat : a = h.from /\ b = h.to
      BY <1>1, <3>1
    <3>4. PICK c \in Nat, d \in Nat : c = o.from /\ d = o.to
      BY <1>1, <3>1
    <3>5. TextLength \in Nat /\ b <= TextLength /\ d <= TextLength
          /\ a < b /\ c < d /\ a < d /\ c < b
      BY <1>1, <3>1, <3>2, <3>3, <3>4
    <3>6. CASE a <= c
      <4>1. i = c + 1
        BY <3>3, <3>4, <3>6
      <4>2. c + 1 \in 1..TextLength /\ a < c + 1 /\ c + 1 <= b /\ c < c + 1 /\ c + 1 <= d
        BY ONLY <3>5, <3>6, a \in Nat, b \in Nat, c \in Nat, d \in Nat
      <4> QED BY <3>3, <3>4, <4>1, <4>2
    <3>7. CASE ~(a <= c)
      <4>1. i = a + 1
        BY <3>3, <3>4, <3>7
      <4>2. a + 1 \in 1..TextLength /\ a < a + 1 /\ a + 1 <= b /\ c < a + 1 /\ a + 1 <= d
        BY ONLY <3>5, <3>7, a \in Nat, b \in Nat, c \in Nat, d \in Nat
      <4> QED BY <3>3, <3>4, <4>1, <4>2
    <3> QED BY <3>6, <3>7
  <2> HIDE DEF i, H
  <2>4. i \in Claimed({h}) /\ i \in Claimed(H)
    BY <2>2, <2>3 DEF Claimed
  <2> QED BY <2>4
<1>6. Cardinality(Tokens(t)) = Len(hits)
  BY DEF Part
<1> HIDE DEF H
<1> QED BY <1>1, <1>2, <1>3, <1>4, <1>5, <1>6 DEF Hides, H

Some(hits, S) == {hits[k] : k \in S \cap DOMAIN hits}
Within(a, b) == (a + 1)..b

LEMMA HitFacts ==
  ASSUME NEW hits, NoOverlaps(hits)
  PROVE  /\ Len(hits) \in Nat /\ DOMAIN hits = 1..Len(hits)
         /\ \A k \in 1..Len(hits) :
              /\ hits[k] \in HitSet /\ hits[k].from \in Nat /\ hits[k].to \in Nat
              /\ hits[k].from < hits[k].to /\ hits[k].to <= TextLength
         /\ \A i, j \in 1..Len(hits) : i < j => hits[i].to <= hits[j].from
<1>1. hits \in Seq(HitSet) /\ TextLength \in Nat
  BY RedactionAssumption DEF NoOverlaps
<1>2. \A h \in HitSet : h.from \in Nat /\ h.to \in Nat /\ h.from < h.to /\ h.to <= TextLength
  BY <1>1 DEF HitSet
<1>3. DOMAIN hits = 1..Len(hits) /\ Len(hits) \in Nat /\ \A k \in 1..Len(hits) : hits[k] \in HitSet
  BY <1>1
<1> QED BY <1>2, <1>3 DEF NoOverlaps

\* What lies behind the place where a hit of a list begins, all hits of the
\* list from this one on taken out.
LEMMA ClaimedBehind ==
  ASSUME NEW hits, NoOverlaps(hits), NEW k \in 1..Len(hits), NEW e \in Nat,
         e = IF k = Len(hits) THEN TextLength ELSE hits[k + 1].from
  PROVE  /\ hits[k].to <= e /\ e <= TextLength
         /\ Within(hits[k].from, TextLength) \ Claimed(Some(hits, k..Len(hits)))
              = Within(hits[k].to, e)
                  \cup (Within(e, TextLength) \ Claimed(Some(hits, (k + 1)..Len(hits))))
<1> DEFINE n == Len(hits)
           C == Claimed(Some(hits, k..n))
           D == Claimed(Some(hits, (k + 1)..n))
<1>0. n \in Nat /\ DOMAIN hits = 1..n /\ TextLength \in Nat
  BY HitFacts, RedactionAssumption
<1>1. n \in Nat /\ DOMAIN hits = 1..n /\ TextLength \in Nat /\ k \in Nat /\ k >= 1 /\ k <= n
  <2>1. k \in 1..n
    OBVIOUS
  <2> HIDE DEF n
  <2> QED BY <1>0, <2>1
<1>2. \A j \in 1..n : /\ hits[j].from \in Nat /\ hits[j].to \in Nat
                      /\ hits[j].from < hits[j].to /\ hits[j].to <= TextLength
  BY HitFacts
<1>3. \A i, j \in 1..n : i < j => hits[i].to <= hits[j].from
  BY HitFacts
<1>4. hits[k].to <= e /\ e <= TextLength
  <2>1. CASE k = n
    BY <1>1, <1>2, <2>1
  <2>2. CASE k # n
    <3>1. k + 1 \in 1..n /\ k < k + 1
      <4>1. k # n
        BY <2>2
      <4> HIDE DEF n
      <4> QED BY ONLY <1>1, <4>1
    <3>2. e = hits[k + 1].from
      BY <2>2
    <3> HIDE DEF n
    <3> QED BY <1>1, <1>2, <1>3, <3>1, <3>2
  <2> QED BY <2>1, <2>2
<1>5. \A j \in (k + 1)..n : e <= hits[j].from /\ j \in 1..n
  <2>1. ASSUME NEW j \in (k + 1)..n PROVE e <= hits[j].from /\ j \in 1..n
    <3> HIDE DEF n
    <3>3. k + 1 \in 1..n /\ j \in 1..n /\ (j = k + 1 \/ k + 1 < j) /\ k # n
      BY ONLY <1>1, j \in (k + 1)..n
    <3>1. k + 1 \in 1..n /\ e = hits[k + 1].from /\ j \in 1..n /\ (j = k + 1 \/ k + 1 < j)
      BY <3>3 DEF n
    <3>2. k + 1 < j => hits[k + 1].to <= hits[j].from
      BY <1>3, <3>1
    <3> HIDE DEF n
    <3> QED BY <1>2, <3>1, <3>2
  <2> QED BY <2>1
<1> DEFINE In(i, j) == hits[j].from < i /\ i <= hits[j].to
<1>6. \A i \in 1..TextLength : /\ i \in C <=> \E j \in k..n : In(i, j)
                               /\ i \in D <=> \E j \in (k + 1)..n : In(i, j)
  <2>1. k..n \subseteq 1..n /\ (k + 1)..n \subseteq 1..n
    <3>1. k \in Nat /\ k >= 1 /\ n \in Nat
      BY ONLY <1>1
    <3> QED BY ONLY <3>1
  <2>2. ASSUME NEW S, S \subseteq 1..n, NEW i \in 1..TextLength
        PROVE  i \in Claimed(Some(hits, S)) <=> \E j \in S : In(i, j)
    <3> HIDE DEF n
    <3> QED BY <1>1, <2>2 DEF Claimed, Some
  <2> HIDE DEF In, n
  <2> QED BY <2>1, <2>2 DEF C, D
<1> HIDE DEF C, D
<1>7. \A i \in 1..TextLength : i \in C <=> In(i, k) \/ i \in D
  <2>1. \A j : j \in k..n <=> j = k \/ j \in (k + 1)..n
    <3> HIDE DEF n
    <3>1. n \in Nat /\ k \in Nat /\ k <= n
      BY ONLY <1>1
    <3> QED BY ONLY <3>1
  <2> HIDE DEF In
  <2> QED BY <1>6, <2>1
<1>8. ASSUME NEW i \in 1..TextLength, i <= e PROVE i \notin D
  <2>1. \A j \in (k + 1)..n : ~In(i, j)
    <3> HIDE DEF n
    <3> QED BY SMTT(30), <1>1, <1>2, <1>5, <1>8
  <2> HIDE DEF In
  <2> QED BY <1>6, <2>1
<1>9. ASSUME NEW i \in 1..TextLength
      PROVE  i \in Within(hits[k].from, TextLength) \ C
               <=> i \in Within(hits[k].to, e) \cup (Within(e, TextLength) \ D)
  <2>0. k \in 1..n /\ hits[k].from \in Nat /\ hits[k].to \in Nat /\ hits[k].from < hits[k].to
    BY <1>2
  <2>1. CASE i <= e
    <3> DEFINE f == hits[k].from
               g == hits[k].to
    <3>0. f \in Nat /\ g \in Nat /\ f < g /\ g <= e /\ e <= TextLength /\ TextLength \in Nat
          /\ i \in 1..TextLength /\ i <= e
      BY <1>1, <1>4, <1>9, <2>0, <2>1
    <3>1. i \in C <=> f < i /\ i <= g
      BY <1>7, <1>8, <1>9, <2>1
    <3> HIDE DEF f, g
    <3>2. i \in Within(f, TextLength) \ C <=> i \in Within(g, e)
      BY ONLY <3>0, <3>1, e \in Nat DEF Within
    <3>3. i \notin Within(e, TextLength)
      BY ONLY <3>0, e \in Nat DEF Within
    <3> QED BY <3>2, <3>3 DEF f, g
  <2>2. CASE ~(i <= e)
    <3> DEFINE f == hits[k].from
               g == hits[k].to
    <3>0. f \in Nat /\ g \in Nat /\ f < g /\ g <= e /\ i \in Nat /\ e < i /\ i <= TextLength
      <4>1. TextLength \in Nat /\ i \in 1..TextLength /\ ~(i <= e) /\ e \in Nat
        BY <1>1, <1>9, <2>2
      <4>2. i \in Nat /\ e < i /\ i <= TextLength
        BY ONLY <4>1
      <4> QED BY SMTT(30), <1>4, <2>0, <4>2
    <3> HIDE DEF f, g, In
    <3>1. ~(f < i /\ i <= g) /\ i \notin Within(g, e) /\ i \in Within(e, TextLength)
          /\ i \in Within(f, TextLength)
      BY ONLY <1>1, <3>0, e \in Nat DEF Within
    <3>2. ~In(i, k)
      BY <3>1 DEF f, g, In
    <3> HIDE DEF In, f, g
    <3> QED BY <1>7, <1>9, <3>1, <3>2 DEF f, g
  <2> QED BY <2>1, <2>2
<1>10. /\ Within(hits[k].from, TextLength) \subseteq 1..TextLength
       /\ Within(hits[k].to, e) \subseteq 1..TextLength
       /\ Within(e, TextLength) \subseteq 1..TextLength
  <2>0. k \in 1..n /\ hits[k].from \in Nat /\ hits[k].to \in Nat
    BY <1>2
  <2>1. \A a, b \in Nat : b <= TextLength => Within(a, b) \subseteq 1..TextLength
    <3>1. ASSUME NEW a \in Nat, NEW b \in Nat, b <= TextLength, NEW i \in Within(a, b)
          PROVE  i \in 1..TextLength
      <4>1. TextLength \in Nat
        BY <1>1
      <4>2. i \in Int /\ a + 1 <= i /\ i <= b
        BY DEF Within
      <4> QED BY ONLY SMTT(30), <3>1, <4>1, <4>2
    <3> QED BY <3>1
  <2>2. TextLength <= TextLength /\ TextLength \in Nat
    BY <1>1
  <2>3. e \in Nat /\ e <= TextLength
    BY <1>4
  <2> HIDE DEF n
  <2>4. Within(hits[k].from, TextLength) \subseteq 1..TextLength
    BY ONLY <2>0, <2>1, <2>2
  <2>5. Within(hits[k].to, e) \subseteq 1..TextLength
    BY ONLY <2>0, <2>1, <2>3
  <2>6. Within(e, TextLength) \subseteq 1..TextLength
    BY ONLY <2>1, <2>2, <2>3
  <2> QED BY <2>4, <2>5, <2>6
<1>11. Within(hits[k].from, TextLength) \ C = Within(hits[k].to, e) \cup (Within(e, TextLength) \ D)
  BY <1>9, <1>10
<1> QED BY <1>4, <1>11 DEF C, D, n

LEMMA TextFacts ==
  /\ TextLength \in Nat /\ Text \in Seq(Nat) /\ Len(Text) = TextLength
  /\ \A i \in 1..TextLength : Text[i] = i
<1>1. TextLength \in Nat
  BY RedactionAssumption
<1>2. Text \in [1..TextLength -> Nat] /\ \A i \in 1..TextLength : Text[i] = i
  BY <1>1 DEF Text
<1>3. Text \in Seq(Nat)
  BY <1>1, <1>2, SeqDef
<1>4. Len(Text) = TextLength
  BY <1>1, <1>2, <1>3, LenProperties
<1> QED BY <1>1, <1>2, <1>3, <1>4

LEMMA RulesJoin ==
  ASSUME NEW hits, NoOverlaps(hits), NEW k \in 1..Len(hits), NEW S, NEW T, T = {k} \cup S
  PROVE  RulesOf(hits, T) = {hits[k].rule} \cup RulesOf(hits, S)
<1>1. DOMAIN hits = 1..Len(hits)
  BY HitFacts
<1> QED BY <1>1 DEF RulesOf

\* What is behind the last hit of a list that is already replaced.
Rest(hits, k, e, r) ==
  /\ e = (IF k = Len(hits) + 1 THEN TextLength ELSE hits[k].from)
  /\ Part(r, Within(e, TextLength) \ Claimed(Some(hits, k..Len(hits))), Len(hits) + 1 - k,
          RulesOf(hits, k..Len(hits)))

\* Replacing the hit before leaves what is behind it as it is.
LEMMA ReplacedOne ==
  ASSUME NEW hits, NoOverlaps(hits), NEW k \in 1..Len(hits), NEW e \in Nat, NEW r,
         Rest(hits, k + 1, e, r)
  PROVE  /\ Replaced(SubSeq(Text, 1, e) \o r, hits[k]) \in Seq(Nat)
         /\ \E s \in Seq(Nat) :
              /\ Replaced(SubSeq(Text, 1, e) \o r, hits[k]) = SubSeq(Text, 1, hits[k].from) \o s
              /\ Rest(hits, k, hits[k].from, s)
<1> DEFINE n == Len(hits)
           h == hits[k]
           f == h.from
           g == h.to
           x == SubSeq(Text, 1, e)
           mid == SubSeq(Text, g + 1, e)
           tok == <<Token(h)>>
           s == tok \o (mid \o r)
           S == Within(e, TextLength) \ Claimed(Some(hits, (k + 1)..n))
           R == RulesOf(hits, (k + 1)..n)
<1>1. n \in Nat /\ k \in Nat /\ k <= n /\ h \in HitSet /\ f \in Nat /\ g \in Nat /\ f < g
      /\ TextLength \in Nat
  BY HitFacts, TextFacts
<1>2. e = (IF k = n THEN TextLength ELSE hits[k + 1].from)
  <2>1. k + 1 = n + 1 <=> k = n
    BY <1>1
  <2> QED BY <2>1 DEF Rest
<1>3. g <= e /\ e <= TextLength
      /\ Within(f, TextLength) \ Claimed(Some(hits, k..n)) = Within(g, e) \cup S
  BY <1>2, ClaimedBehind
<1>4. Part(r, S, n - k, R)
  <2>1. n + 1 - (k + 1) = n - k
    BY <1>1
  <2> QED BY <2>1 DEF Rest
<1> HIDE DEF n, S, R
<1>5. Part(mid, Within(g, e), 0, {})
  BY <1>1, <1>3, TextPart DEF Within
<1>6. Part(tok, {}, 1, {h.rule})
  BY <1>1, TokenPart
<1>7. Part(mid \o r, Within(g, e) \cup S, 0 + (n - k), {} \cup R)
  <2>1. Within(g, e) \subseteq Nat /\ S \subseteq Nat /\ \A i \in Within(g, e), j \in S : i < j
    BY <1>1, <1>3 DEF Within, S
  <2>2. 0 \in Nat /\ n - k \in Nat
    BY <1>1
  <2> HIDE DEF mid
  <2> QED BY <1>4, <1>5, <2>1, <2>2, PartsJoin
<1>8. Part(s, {} \cup (Within(g, e) \cup S), 1 + (0 + (n - k)), {h.rule} \cup ({} \cup R))
  <2>1. Within(g, e) \cup S \subseteq Nat
    BY <1>1, <1>3 DEF Within, S
  <2>2. 0 + (n - k) \in Nat /\ 1 \in Nat
    BY <1>1
  <2> HIDE DEF mid, tok
  <2> QED BY <1>6, <1>7, <2>1, <2>2, PartsJoin
<1>9. Rest(hits, k, f, s)
  <2>1. {} \cup (Within(g, e) \cup S) = Within(f, TextLength) \ Claimed(Some(hits, k..n))
    BY <1>3
  <2>2. 1 + (0 + (n - k)) = n + 1 - k /\ k # n + 1
    BY <1>1
  <2>3. {h.rule} \cup ({} \cup R) = RulesOf(hits, k..n)
    <3> DEFINE A == k..n
               B == (k + 1)..n
    <3>1. A = {k} \cup B
      BY <1>1
    <3> HIDE DEF A, B, h
    <3>2. RulesOf(hits, A) = {hits[k].rule} \cup RulesOf(hits, B)
      BY <3>1, RulesJoin
    <3>3. RulesOf(hits, k..n) = {hits[k].rule} \cup RulesOf(hits, (k + 1)..n)
      BY <3>2 DEF A, B
    <3> USE DEF h
    <3> QED BY <3>3 DEF R
  <2>4. Part(s, Within(f, TextLength) \ Claimed(Some(hits, k..n)), n + 1 - k, RulesOf(hits, k..n))
    <3> HIDE DEF s, f
    <3> QED BY <1>8, <2>1, <2>2, <2>3
  <2>5. f = (IF k = n + 1 THEN TextLength ELSE hits[k].from)
    BY <2>2
  <2> HIDE DEF s, f
  <2> QED BY <2>2, <2>4, <2>5 DEF Rest, n
<1>10. mid \in Seq(Nat) /\ r \in Seq(Nat) /\ tok \in Seq(Nat) /\ s \in Seq(Nat) /\ mid \o r \in Seq(Nat)
  BY SMTT(30), <1>4, <1>5, <1>6, <1>7, <1>8 DEF Part
<1>11. Replaced(x \o r, h) = SubSeq(Text, 1, f) \o s
  <2>1. e \in 0..Len(Text) /\ Text \in Seq(Nat) /\ f \in 0..e /\ g \in 0..e
    BY <1>1, <1>3, TextFacts
  <2>2. x \in Seq(Nat) /\ Len(x) = e /\ SubSeq(x, 1, f) = SubSeq(Text, 1, f)
    BY <2>1, PartOfFront
  <2>3. SubSeq(x, g + 1, e) = mid
    BY <2>1, PartOfFront
  <2> HIDE DEF x, mid
  <2>4. SubSeq(x \o r, 1, f) = SubSeq(Text, 1, f)
    BY <1>10, <2>1, <2>2, FrontOfJoined
  <2>5. SubSeq(x \o r, g + 1, Len(x \o r)) = mid \o r
    <3>1. SubSeq(x \o r, g + 1, Len(x \o r)) = SubSeq(x, g + 1, Len(x)) \o r
      BY <1>10, <2>1, <2>2, BackOfJoined
    <3> QED BY <2>2, <2>3, <3>1
  <2>6. Replaced(x \o r, h) = SubSeq(Text, 1, f) \o tok \o (mid \o r)
    BY <2>4, <2>5 DEF Replaced
  <2>7. SubSeq(Text, 1, f) \in Seq(Nat)
    <3>1. f \in 0..Len(Text) /\ f \in 0..f
      BY <1>1, <1>3, TextFacts
    <3> QED BY <2>1, <3>1, PartOfFront
  <2>8. (SubSeq(Text, 1, f) \o tok) \o (mid \o r) = SubSeq(Text, 1, f) \o (tok \o (mid \o r))
    <3> DEFINE front == SubSeq(Text, 1, f)
               back == mid \o r
    <3>1. front \in Seq(Nat) /\ tok \in Seq(Nat) /\ back \in Seq(Nat)
      BY <1>10, <2>7
    <3> HIDE DEF front, back, tok
    <3>2. (front \o tok) \o back = front \o (tok \o back)
      BY ONLY <3>1, ConcatAssociative
    <3> QED BY <3>2 DEF front, back
  <2> QED BY <2>6, <2>8
<1>12. SubSeq(Text, 1, f) \in Seq(Nat)
  <2>1. f \in 0..Len(Text) /\ f \in 0..f /\ Text \in Seq(Nat)
    BY <1>1, <1>3, TextFacts
  <2> QED BY <2>1, PartOfFront
<1>13. SubSeq(Text, 1, f) \o s \in Seq(Nat)
  <2> HIDE DEF s, f
  <2> QED BY <1>10, <1>12, ConcatProperties
<1> HIDE DEF s
<1> QED BY <1>9, <1>10, <1>11, <1>13

\* Replaced from the last match to the first, a text hides all of them.
LEMMA AppliedPart ==
  ASSUME NEW matches, NoOverlaps(Merge(Hits(matches)))
  PROVE  LET hits == Merge(Hits(matches))
         IN  /\ ApplyPolicy(Text, matches).detections = hits
             /\ Part(ApplyPolicy(Text, matches).text, 1..TextLength \ Claimed(Elements(hits)),
                     Len(hits), RulesOf(hits, 1..Len(hits)))
<1> DEFINE hits == Merge(Hits(matches))
           n == Len(hits)
           turns == [k \in DOMAIN hits |-> [rest \in Seq(Nat) |-> Replaced(rest, hits[n + 1 - k])]]
           text == Looped(turns, Text)
           Done(m, t) == \E e \in Nat : \E r \in Seq(Nat) :
                           t = SubSeq(Text, 1, e) \o r /\ Rest(hits, n + 1 - m, e, r)
           G == {p \in (0..n) \X Seq(Nat) : Done(p[1], p[2])}
<1>1. ApplyPolicy(Text, matches).detections = hits /\ ApplyPolicy(Text, matches).text = text
  BY DEF ApplyPolicy
<1> HIDE DEF hits
<1>2. NoOverlaps(hits) /\ n \in Nat /\ DOMAIN hits = 1..n /\ TextLength \in Nat /\ Text \in Seq(Nat)
      /\ Len(Text) = TextLength
  BY HitFacts, TextFacts DEF hits
<1>3. Len(turns) = n
  <2>1. turns \in [1..n -> {turns[k] : k \in 1..n}]
    BY <1>2
  <2> HIDE DEF turns
  <2>2. turns \in Seq({turns[k] : k \in 1..n})
    BY <1>2, <2>1, SeqDef
  <2> QED BY <1>2, <2>1, <2>2, LenProperties
<1>4. <<0, Text>> \in G
  <2>1. Text = SubSeq(Text, 1, TextLength) \o <<>>
    <3>1. SubSeq(Text, 1, TextLength) = Text
      BY <1>2, SubSeqFull
    <3> QED BY <1>2, <3>1, ConcatEmptySeq
  <2>2. Rest(hits, n + 1, TextLength, <<>>)
    <3>1. SubSeq(Text, TextLength + 1, TextLength) = <<>>
      <4>1. TextLength + 1 \in Int /\ TextLength \in Int /\ TextLength < TextLength + 1
        BY <1>2
      <4> QED BY <4>1, SubSeqEmpty
    <3>2. Part(<<>>, (TextLength + 1)..TextLength, 0, {})
      <4>1. TextLength <= TextLength
        BY <1>2
      <4> QED BY <1>2, <3>1, <4>1, TextPart
    <3>3. (n + 1)..n = {} /\ (TextLength + 1)..TextLength = {} /\ n + 1 - (n + 1) = 0
      BY <1>2
    <3>4. Within(TextLength, TextLength) \ Claimed(Some(hits, (n + 1)..n)) = (TextLength + 1)..TextLength
      BY <3>3 DEF Within
    <3>5. RulesOf(hits, (n + 1)..n) = {}
      BY <3>3 DEF RulesOf
    <3> QED BY <3>2, <3>3, <3>4, <3>5 DEF Rest
  <2>3. n + 1 - 0 = n + 1 /\ 0 \in 0..n
    BY <1>2
  <2>4. <<>> \in Seq(Nat)
    OBVIOUS
  <2>5. Done(0, Text)
    BY <1>2, <2>1, <2>2, <2>3, <2>4
  <2> HIDE DEF Done
  <2> QED BY <1>2, <2>3, <2>5
<1>5. ASSUME NEW k \in 1..n, NEW t \in Seq(Nat), <<k - 1, t>> \in G
      PROVE  turns[k][t] \in Seq(Nat) /\ <<k, turns[k][t]>> \in G
  <2> DEFINE j == n + 1 - k
  <2>1. j \in 1..n /\ j + 1 = n + 1 - (k - 1) /\ k \in 0..n
    BY <1>2
  <2>2. PICK e \in Nat, r \in Seq(Nat) : t = SubSeq(Text, 1, e) \o r /\ Rest(hits, j + 1, e, r)
    BY <1>5, <2>1
  <2>3. turns[k][t] = Replaced(t, hits[j])
    BY <1>2
  <2> HIDE DEF turns
  <2>4. turns[k][t] \in Seq(Nat)
        /\ \E s \in Seq(Nat) : /\ turns[k][t] = SubSeq(Text, 1, hits[j].from) \o s
                               /\ Rest(hits, j, hits[j].from, s)
    <3> DEFINE cleaned == Replaced(SubSeq(Text, 1, e) \o r, hits[j])
    <3>1. turns[k][t] = cleaned
      BY <2>2, <2>3
    <3> HIDE DEF j
    <3>2. j \in 1..Len(hits) /\ NoOverlaps(hits) /\ Rest(hits, j + 1, e, r) /\ e \in Nat
      BY <1>2, <2>1, <2>2
    <3>3. /\ cleaned \in Seq(Nat)
          /\ \E s \in Seq(Nat) : /\ cleaned = SubSeq(Text, 1, hits[j].from) \o s
                                 /\ Rest(hits, j, hits[j].from, s)
      BY <3>2, ReplacedOne
    <3> HIDE DEF cleaned
    <3> QED BY <3>1, <3>3
  <2>5. hits[j].from \in Nat
    <3> HIDE DEF j
    <3> QED BY <1>2, <2>1, HitFacts
  <2>6. Done(k, turns[k][t])
    BY <2>4, <2>5
  <2> HIDE DEF Done
  <2> QED BY <2>1, <2>4, <2>6
<1>6. text \in Seq(Nat) /\ <<n, text>> \in G
  <2> HIDE DEF turns, G
  <2>1. Len(turns) \in Nat
    BY <1>2, <1>3
  <2>2. \A k \in 1..Len(turns) : \A t \in Seq(Nat) :
          <<k - 1, t>> \in G => turns[k][t] \in Seq(Nat) /\ <<k, turns[k][t]>> \in G
    BY <1>3, <1>5
  <2> QED BY <1>2, <1>3, <1>4, <2>1, <2>2, LoopKeeps
<1>7. Part(text, 1..TextLength \ Claimed(Elements(hits)), n, RulesOf(hits, 1..n))
  <2>1. PICK e \in Nat, r \in Seq(Nat) : text = SubSeq(Text, 1, e) \o r /\ Rest(hits, 1, e, r)
    <3>1. Done(n, text)
      BY <1>6
    <3>2. n + 1 - n = 1
      BY <1>2
    <3> QED BY <3>1, <3>2
  <2> DEFINE S == Within(e, TextLength) \ Claimed(Some(hits, 1..n))
  <2>2. Part(r, S, n, RulesOf(hits, 1..n))
    <3>1. n + 1 - 1 = n
      BY <1>2
    <3> QED BY <2>1, <3>1 DEF Rest
  <2>3. e <= TextLength /\ \A k \in 1..n : e <= hits[k].from
    <3>1. e = IF 1 = n + 1 THEN TextLength ELSE hits[1].from
      BY <2>1 DEF Rest
    <3>2. CASE n = 0
      BY <1>2, <3>1, <3>2
    <3>3. CASE n # 0
      <4>1. 1 \in 1..n /\ 1 # n + 1
        BY <1>2, <3>3
      <4>2. e = hits[1].from
        BY <3>1, <4>1
      <4>3. \A k \in 1..n : /\ hits[k].from \in Nat /\ hits[k].to \in Nat
                            /\ hits[k].from < hits[k].to /\ hits[k].to <= TextLength
        BY <1>2, HitFacts
      <4>4. ASSUME NEW k \in 1..n PROVE e <= hits[k].from
        <5>1. k = 1 \/ 1 < k
          BY <1>2
        <5>2. 1 < k => hits[1].to <= hits[k].from
          BY <1>2, <4>1, HitFacts
        <5> HIDE DEF n
        <5> QED BY <4>1, <4>2, <4>3, <5>1, <5>2
      <4>5. e <= TextLength
        <5>1. hits[1].from \in Nat /\ hits[1].to \in Nat /\ hits[1].from < hits[1].to
              /\ hits[1].to <= TextLength
          BY <4>1, <4>3
        <5> QED BY ONLY <1>2, <4>2, <5>1
      <4> QED BY <4>4, <4>5
    <3> QED BY <3>2, <3>3
  <2>4. Part(SubSeq(Text, 1, e), 1..e, 0, {})
    <3>1. 0 \in Nat /\ 0 <= e /\ 0 + 1 = 1
      OBVIOUS
    <3>2. Part(SubSeq(Text, 0 + 1, e), (0 + 1)..e, 0, {})
      BY ONLY <2>3, <3>1, e \in Nat, TextPart
    <3> QED BY <3>1, <3>2
  <2>5. Some(hits, 1..n) = Elements(hits)
    BY <1>2 DEF Some, Elements
  <2>6. 1..e \cup S = 1..TextLength \ Claimed(Elements(hits))
    <3>1. \A i \in 1..e : i \in 1..TextLength /\ i \notin Claimed(Elements(hits))
      <4>1. ASSUME NEW i \in 1..e, NEW k \in 1..n PROVE ~(hits[k].from < i)
        <5>1. hits[k].from \in Nat /\ e <= hits[k].from
          BY <1>2, <2>3, HitFacts
        <5> QED BY <5>1
      <4>2. \A i \in 1..e : i \in 1..TextLength
        BY <1>2, <2>3
      <4> HIDE DEF n
      <4> QED BY <1>2, <4>1, <4>2 DEF Claimed, Elements
    <3>2. 1..TextLength = 1..e \cup Within(e, TextLength)
      BY <1>2, <2>3 DEF Within
    <3> QED BY <2>5, <3>1, <3>2
  <2>7. \A i \in 1..e, j \in S : i < j
    BY <1>2, <2>3 DEF Within
  <2>8. S \subseteq Nat /\ 1..e \subseteq Nat
    BY <1>2, <2>3 DEF Within
  <2> HIDE DEF S, text
  <2>9. Part(SubSeq(Text, 1, e) \o r, 1..e \cup S, 0 + n, {} \cup RulesOf(hits, 1..n))
    <3>1. 0 \in Nat
      OBVIOUS
    <3> HIDE DEF n
    <3> QED BY <1>2, <2>2, <2>4, <2>7, <2>8, <3>1, PartsJoin
  <2>10. 0 + n = n /\ {} \cup RulesOf(hits, 1..n) = RulesOf(hits, 1..n)
    BY <1>2
  <2> HIDE DEF n
  <2> QED BY <2>1, <2>6, <2>9, <2>10
<1> HIDE DEF text
<1> QED BY <1>1, <1>7 DEF n, hits

\* What is before the place where the k-th hit of a list ends, and that the
\* first k hits do not take out.
Before(hits, k, e) == 1..e \ Claimed(Some(hits, 1..k))

LEMMA ClaimedBefore ==
  ASSUME NEW hits, NoOverlaps(hits), NEW k \in 0..Len(hits), NEW c \in Nat,
         c = IF k = 0 THEN 0 ELSE hits[k].to
  PROVE  /\ c <= TextLength
         /\ \A j \in 1..k : hits[j].to <= c
         /\ k < Len(hits) => /\ c <= hits[k + 1].from
                             /\ Before(hits, k, c) \cup Within(c, hits[k + 1].from)
                                  = Before(hits, k + 1, hits[k + 1].to)
         /\ k = Len(hits) => Before(hits, k, c) \cup Within(c, TextLength)
                               = 1..TextLength \ Claimed(Elements(hits))
<1> DEFINE n == Len(hits)
           In(i, j) == hits[j].from < i /\ i <= hits[j].to
           C == Claimed(Some(hits, 1..k))
<1>1. n \in Nat /\ DOMAIN hits = 1..n /\ TextLength \in Nat /\ k \in Nat /\ k <= n
  BY HitFacts, RedactionAssumption
<1>2. \A j \in 1..n : /\ hits[j].from \in Nat /\ hits[j].to \in Nat
                      /\ hits[j].from < hits[j].to /\ hits[j].to <= TextLength
  BY HitFacts
<1>3. \A i, j \in 1..n : i < j => hits[i].to <= hits[j].from
  BY HitFacts
<1> HIDE DEF n
<1>4. c <= TextLength
  <2>1. CASE k = 0
    BY <1>1, <2>1
  <2>2. CASE k # 0
    <3>1. k \in 1..n /\ c = hits[k].to
      BY <1>1, <2>2
    <3> QED BY <1>2, <3>1
  <2> QED BY <2>1, <2>2
<1>5. ASSUME NEW j \in 1..k PROVE hits[j].to <= c /\ j \in 1..n
  <2>1. k \in 1..n /\ c = hits[k].to /\ j \in 1..n /\ (j = k \/ j < k)
    BY <1>1
  <2>2. j < k => hits[j].to <= hits[k].from
    BY <1>3, <2>1
  <2>3. /\ hits[j].to \in Nat /\ hits[k].to \in Nat /\ hits[k].from \in Nat
        /\ hits[k].from < hits[k].to
    BY <1>2, <2>1
  <2>4. j < k => hits[j].to <= hits[k].to
    BY ONLY <2>2, <2>3
  <2>5. j = k => hits[j].to <= hits[k].to
    BY ONLY <2>3
  <2> QED BY <2>1, <2>4, <2>5
<1>6. \A m \in 0..n : \A i \in 1..TextLength :
        i \in Claimed(Some(hits, 1..m)) <=> \E j \in 1..m : In(i, j)
  <2>1. \A m \in 0..n : 1..m \subseteq 1..n
    BY <1>1
  <2> QED BY <1>1, <2>1 DEF Claimed, Some
<1>7. \A i \in 1..TextLength : i \in C => i <= c
  <2>1. ASSUME NEW i \in 1..TextLength, i \in C PROVE i <= c
    <3>1. PICK j \in 1..k : In(i, j)
      BY <1>1, <1>6, <2>1
    <3>2. hits[j].to \in Nat /\ hits[j].to <= c /\ i <= hits[j].to /\ i \in Nat
      BY <1>1, <1>2, <1>5, <3>1
    <3> QED BY ONLY <3>2, c \in Nat
  <2> QED BY <2>1
<1>8. ASSUME k < n
      PROVE  /\ c <= hits[k + 1].from
             /\ Before(hits, k, c) \cup Within(c, hits[k + 1].from)
                  = Before(hits, k + 1, hits[k + 1].to)
  <2> DEFINE f == hits[k + 1].from
             g == hits[k + 1].to
             D == Claimed(Some(hits, 1..(k + 1)))
  <2>1. k + 1 \in 1..n /\ k + 1 \in 0..n /\ k \in 0..n
    BY <1>1, <1>8
  <2>2. f \in Nat /\ g \in Nat /\ f < g /\ g <= TextLength
    BY <1>2, <2>1
  <2>3. c <= f
    <3>1. CASE k = 0
      BY <2>2, <3>1
    <3>2. CASE k # 0
      <4>1. k \in 1..n /\ k < k + 1 /\ c = hits[k].to
        BY <1>1, <3>2
      <4> QED BY <1>3, <2>1, <4>1
    <3> QED BY <3>1, <3>2
  <2>4. \A i \in 1..TextLength : i \in D <=> i \in C \/ (f < i /\ i <= g)
    <3>1. \A j : j \in 1..(k + 1) <=> j \in 1..k \/ j = k + 1
      BY <1>1
    <3>2. \A i : In(i, k + 1) <=> f < i /\ i <= g
      OBVIOUS
    <3> HIDE DEF In, f, g
    <3> QED BY <1>6, <2>1, <3>1, <3>2
  <2> HIDE DEF C, D, f, g
  <2>5. ASSUME NEW i \in 1..TextLength
        PROVE  i \in (1..c \ C) \cup Within(c, f) <=> i \in 1..g \ D
    BY <1>1, <1>4, <1>7, <2>2, <2>3, <2>4 DEF Within
  <2>6. 1..c \subseteq 1..TextLength /\ 1..g \subseteq 1..TextLength
        /\ Within(c, f) \subseteq 1..TextLength
    BY <1>1, <1>4, <2>2, <2>3 DEF Within
  <2>7. (1..c \ C) \cup Within(c, f) = 1..g \ D
    BY <2>5, <2>6
  <2> QED BY <2>3, <2>7 DEF f, g, C, D, Before
<1>9. ASSUME k = n
      PROVE  Before(hits, k, c) \cup Within(c, TextLength)
               = 1..TextLength \ Claimed(Elements(hits))
  <2>1. Some(hits, 1..k) = Elements(hits)
    BY <1>1, <1>9 DEF Some, Elements
  <2>2. 1..TextLength = 1..c \cup Within(c, TextLength)
    BY <1>1, <1>4 DEF Within
  <2>3. \A i \in Within(c, TextLength) : i \in 1..TextLength /\ ~(i <= c)
    BY <1>1, <1>4 DEF Within
  <2> HIDE DEF In
  <2> QED BY <1>7, <2>1, <2>2, <2>3 DEF C, Before
<1> QED BY <1>4, <1>5, <1>8, <1>9 DEF n

\* The text between two hits copied and each hit replaced, a text hides all of
\* them.
LEMMA RedactedPart ==
  ASSUME NEW hits, NoOverlaps(hits)
  PROVE  Part(RedactText(Text, hits), 1..TextLength \ Claimed(Elements(hits)),
              Len(hits), RulesOf(hits, 1..Len(hits)))
<1> DEFINE n == Len(hits)
           States == [pieces : Seq(Nat), cursor : Nat]
           Next(k, s) == [pieces |-> s.pieces \o SubSeq(Text, s.cursor + 1, hits[k].from)
                                       \o <<Token(hits[k])>>,
                          cursor |-> hits[k].to]
           Skips(k, s) == \/ hits[k].from < s.cursor
                          \/ hits[k].to > Len(Text)
                          \/ hits[k].from >= hits[k].to
           turns == [k \in DOMAIN hits |-> [s \in States |-> IF Skips(k, s) THEN s ELSE Next(k, s)]]
           start == [pieces |-> <<>>, cursor |-> 0]
           done == Looped(turns, start)
           Done(k, s) == /\ s.cursor = IF k = 0 THEN 0 ELSE hits[k].to
                         /\ Part(s.pieces, Before(hits, k, s.cursor), k, RulesOf(hits, 1..k))
           G == {p \in (0..n) \X States : Done(p[1], p[2])}
<1>1. RedactText(Text, hits) = done.pieces \o SubSeq(Text, done.cursor + 1, Len(Text))
  BY DEF RedactText
<1>2. n \in Nat /\ DOMAIN hits = 1..n /\ TextLength \in Nat /\ Text \in Seq(Nat)
      /\ Len(Text) = TextLength
  BY HitFacts, TextFacts
<1>3. Len(turns) = n
  <2>1. turns \in [1..n -> {turns[k] : k \in 1..n}]
    BY <1>2
  <2> HIDE DEF turns
  <2>2. turns \in Seq({turns[k] : k \in 1..n})
    BY <1>2, <2>1, SeqDef
  <2> QED BY <1>2, <2>1, <2>2, LenProperties
<1>4. start \in States /\ <<0, start>> \in G
  <2>1. SubSeq(Text, 0 + 1, 0) = <<>>
    BY SubSeqEmpty
  <2>2. Part(<<>>, (0 + 1)..0, 0, {})
    <3>1. 0 \in Nat /\ 0 <= 0 /\ 0 <= TextLength
      BY <1>2
    <3> QED BY <2>1, <3>1, TextPart
  <2>3. (0 + 1)..0 = {} /\ 1..0 = {}
    OBVIOUS
  <2>4. Before(hits, 0, 0) = (0 + 1)..0 /\ RulesOf(hits, 1..0) = {}
    BY <2>3 DEF Before, RulesOf
  <2>5. Done(0, start)
    BY <2>2, <2>4
  <2>6. start \in States /\ 0 \in 0..n
    BY <1>2
  <2> HIDE DEF Done
  <2> QED BY <2>5, <2>6
<1>5. ASSUME NEW k \in 1..n, NEW s \in States, <<k - 1, s>> \in G
      PROVE  turns[k][s] \in States /\ <<k, turns[k][s]>> \in G
  <2> DEFINE c == s.cursor
             p == s.pieces
             h == hits[k]
             f == h.from
             g == h.to
             B == Before(hits, k - 1, c)
             R == RulesOf(hits, 1..(k - 1))
  <2>1. k - 1 \in 0..n /\ k \in 0..n /\ k - 1 + 1 = k /\ k - 1 < n /\ k - 1 \in Nat
        /\ k \in 1..Len(hits) /\ k - 1 \in 0..Len(hits)
    BY <1>2
  <2>2. Done(k - 1, s)
    BY <1>5
  <2>3. c \in Nat /\ p \in Seq(Nat) /\ c = (IF k - 1 = 0 THEN 0 ELSE hits[k - 1].to)
        /\ Part(p, B, k - 1, R)
    BY <2>2
  <2>4. h \in HitSet /\ f \in Nat /\ g \in Nat /\ f < g /\ g <= TextLength
    BY <2>1, HitFacts
  <2>5. c <= f /\ c <= TextLength /\ B \cup Within(c, f) = Before(hits, k, g)
    <3> DEFINE m == k - 1
    <3>1. m \in 0..Len(hits) /\ m < Len(hits) /\ m + 1 = k /\ c = IF m = 0 THEN 0 ELSE hits[m].to
      BY <2>1, <2>3
    <3>2. c \in Nat
      BY <2>3
    <3> HIDE DEF m, c, n
    <3>3. c <= f /\ c <= TextLength /\ Before(hits, m, c) \cup Within(c, f) = Before(hits, m + 1, g)
      BY <3>1, <3>2, ClaimedBefore
    <3> QED BY <3>1, <3>3 DEF m, B
  <2>6. turns[k][s] = Next(k, s)
    <3>1. ~(f < c) /\ ~(g > TextLength) /\ ~(f >= g)
      BY ONLY <2>3, <2>4, <2>5, <1>2
    <3>2. ~Skips(k, s)
      BY <1>2, <3>1
    <3>3. turns[k][s] = IF Skips(k, s) THEN s ELSE Next(k, s)
      BY <1>2
    <3> HIDE DEF Skips, turns, Next
    <3> QED BY <3>2, <3>3
  <2> DEFINE mid == SubSeq(Text, c + 1, f)
             tok == <<Token(h)>>
  <2>7. Next(k, s).cursor = g /\ Next(k, s).pieces = (p \o mid) \o tok
        /\ Next(k, s) = [pieces |-> (p \o mid) \o tok, cursor |-> g]
    OBVIOUS
  <2> HIDE DEF turns, Next, B, R
  <2>8. Part(mid, Within(c, f), 0, {})
    <3>1. f <= TextLength
      BY ONLY <1>2, <2>4
    <3> QED BY <2>3, <2>4, <2>5, <3>1, TextPart DEF Within
  <2>9. Part(tok, {}, 1, {h.rule})
    BY <2>4, TokenPart
  <2> HIDE DEF mid, tok, p, c, f, g
  <2>10. Part(p \o mid, B \cup Within(c, f), k - 1 + 0, R \cup {})
    <3>1. B \subseteq Nat /\ Within(c, f) \subseteq Nat /\ \A i \in B, j \in Within(c, f) : i < j
      BY <2>3, <2>4 DEF B, Before, Within
    <3>2. 0 \in Nat
      OBVIOUS
    <3> QED BY <2>1, <2>3, <2>8, <3>1, <3>2, PartsJoin
  <2>11. Part((p \o mid) \o tok, (B \cup Within(c, f)) \cup {}, (k - 1 + 0) + 1, (R \cup {}) \cup {h.rule})
    <3>1. B \cup Within(c, f) \subseteq Nat
      BY <2>3, <2>4 DEF B, Before, Within
    <3>2. k - 1 + 0 \in Nat /\ 1 \in Nat
      BY <2>1
    <3> QED BY <2>9, <2>10, <3>1, <3>2, PartsJoin
  <2>12. (R \cup {}) \cup {h.rule} = RulesOf(hits, 1..k)
    <3> DEFINE A == 1..k
               Z == 1..(k - 1)
    <3>1. A = {k} \cup Z
      BY <1>2
    <3> HIDE DEF A, Z, h
    <3>2. RulesOf(hits, A) = {hits[k].rule} \cup RulesOf(hits, Z)
      BY <2>1, <3>1, RulesJoin
    <3> QED BY <3>2 DEF A, Z, R, h
  <2>13. (k - 1 + 0) + 1 = k /\ (B \cup Within(c, f)) \cup {} = Before(hits, k, g)
    BY <2>1, <2>5
  <2>14. Part((p \o mid) \o tok, Before(hits, k, g), k, RulesOf(hits, 1..k))
    BY <2>11, <2>12, <2>13
  <2>15. Next(k, s) \in States
    <3>1. (p \o mid) \o tok \in Seq(Nat)
      BY <2>14 DEF Part
    <3> QED BY <2>4, <2>7, <3>1
  <2>16. Done(k, Next(k, s))
    <3>1. k # 0
      BY <2>1
    <3> QED BY <2>7, <2>14, <3>1 DEF g, h
  <2> HIDE DEF Done, States
  <2>17. <<k, Next(k, s)>> \in G
    BY <2>1, <2>15, <2>16
  <2> QED BY <2>6, <2>15, <2>17
<1>6. done \in States /\ <<n, done>> \in G
  <2> HIDE DEF turns, G, States, start
  <2>1. Len(turns) \in Nat
    BY <1>2, <1>3
  <2>2. \A k \in 1..Len(turns) : \A s \in States :
          <<k - 1, s>> \in G => turns[k][s] \in States /\ <<k, turns[k][s]>> \in G
    BY <1>3, <1>5
  <2> QED BY <1>3, <1>4, <2>1, <2>2, LoopKeeps
<1> DEFINE c == done.cursor
           p == done.pieces
           tail == SubSeq(Text, c + 1, TextLength)
<1>7. Done(n, done)
  <2> HIDE DEF Done, done
  <2> QED BY <1>6
<1> HIDE DEF done
<1>8. c \in Nat /\ p \in Seq(Nat) /\ c = (IF n = 0 THEN 0 ELSE hits[n].to)
      /\ Part(p, Before(hits, n, c), n, RulesOf(hits, 1..n))
  BY <1>6, <1>7
<1> HIDE DEF c, p
<1>9. c <= TextLength /\ Before(hits, n, c) \cup Within(c, TextLength) = 1..TextLength \ Claimed(Elements(hits))
  <2>1. n \in 0..Len(hits)
    BY <1>2
  <2> QED BY <1>8, <2>1, ClaimedBefore
<1>10. Part(tail, Within(c, TextLength), 0, {})
  <2>1. TextLength <= TextLength
    BY <1>2
  <2> QED BY <1>2, <1>8, <1>9, <2>1, TextPart DEF Within
<1> HIDE DEF tail
<1>11. Part(p \o tail, Before(hits, n, c) \cup Within(c, TextLength), n + 0, RulesOf(hits, 1..n) \cup {})
  <2> DEFINE B == Before(hits, n, c)
             R == RulesOf(hits, 1..n)
  <2>1. B \subseteq Nat /\ Within(c, TextLength) \subseteq Nat
        /\ \A i \in B, j \in Within(c, TextLength) : i < j
    BY <1>2, <1>8 DEF Before, Within
  <2>2. 0 \in Nat /\ Part(p, B, n, R)
    BY <1>8
  <2> HIDE DEF B, R, n
  <2>3. Part(p \o tail, B \cup Within(c, TextLength), n + 0, R \cup {})
    BY <1>2, <1>10, <2>1, <2>2, PartsJoin
  <2> QED BY <2>3 DEF B, R
<1>12. n + 0 = n /\ RulesOf(hits, 1..n) \cup {} = RulesOf(hits, 1..n)
  BY <1>2
<1>13. RedactText(Text, hits) = p \o tail
  BY <1>1, <1>2 DEF p, tail, c
<1> HIDE DEF n
<1> QED BY <1>9, <1>11, <1>12, <1>13 DEF n

AllMatches == [1..Detectors -> MatchSets]

\* Of a text that is searched there are finitely many hits.
LEMMA HitsFinite ==
  ASSUME NEW matches \in AllMatches
  PROVE  Hits(matches) \subseteq HitSet /\ IsFiniteSet(Hits(matches))
<1> DEFINE A == 1..Detectors
           B == 0..TextLength
           cleaned == [p \in A \X (B \X B) |-> [rule |-> p[1], from |-> p[2][1], to |-> p[2][2]]]
<1>1. IsFiniteSet(A) /\ IsFiniteSet(B)
  BY RedactionAssumption, FS_Interval
<1> HIDE DEF A, B
<1>2. IsFiniteSet(A \X (B \X B))
  BY <1>1, FS_Product
<1>3. IsFiniteSet({cleaned[p] : p \in A \X (B \X B)})
  <2> DEFINE P == A \X (B \X B)
             Made == {cleaned[p] : p \in P}
  <2>1. cleaned \in [P -> Made]
    <3>1. DOMAIN cleaned = P /\ cleaned = [p \in P |-> cleaned[p]]
      OBVIOUS
    <3> HIDE DEF cleaned, P
    <3> QED BY <3>1
  <2> HIDE DEF cleaned, P
  <2>2. \A m \in Made : \E p \in P : cleaned[p] = m
    OBVIOUS
  <2> HIDE DEF Made
  <2>3. cleaned \in Surjection(P, Made) /\ IsFiniteSet(P)
    BY <1>2, <2>1, <2>2 DEF Surjection, P
  <2>4. IsFiniteSet(Made)
    BY <2>3, FS_Surjection
  <2> QED BY <2>4 DEF Made, P
<1>4. [rule : A, from : B, to : B] \subseteq {cleaned[p] : p \in A \X (B \X B)}
  <2>1. ASSUME NEW h \in [rule : A, from : B, to : B]
        PROVE  h \in {cleaned[p] : p \in A \X (B \X B)}
    <3>1. <<h.rule, <<h.from, h.to>>>> \in A \X (B \X B)
      OBVIOUS
    <3>2. cleaned[<<h.rule, <<h.from, h.to>>>>] = h
      BY <3>1
    <3> HIDE DEF cleaned
    <3> QED BY <3>1, <3>2
  <2> QED BY <2>1
<1>5. HitSet \subseteq [rule : A, from : B, to : B]
  BY DEF HitSet, A, B
<1>6. Hits(matches) \subseteq HitSet
  <2>1. ASSUME NEW d \in 1..Detectors, NEW m \in matches[d]
        PROVE  [rule |-> d, from |-> m.from, to |-> m.to] \in HitSet
    <3>1. m \in Spans
      BY <2>1 DEF AllMatches, MatchSets
    <3> QED BY <3>1 DEF Spans, HitSet
  <2> QED BY <2>1 DEF Hits
<1>7. IsFiniteSet({cleaned[p] : p \in A \X (B \X B)}) /\ Hits(matches) \subseteq {cleaned[p] : p \in A \X (B \X B)}
  BY <1>3, <1>4, <1>5, <1>6
<1> HIDE DEF cleaned
<1> QED BY <1>6, <1>7, FS_Subset

LEMMA ByStartOrders ==
  ASSUME NEW hits, hits \subseteq HitSet, IsFiniteSet(hits)
  PROVE  LET order == Sorted(hits, ByStart(hits))
         IN  /\ order \in Seq(hits) /\ Len(order) \in Nat /\ DOMAIN order = 1..Len(order)
             /\ \A i, j \in 1..Len(order) : i < j => order[i].from <= order[j].from
             /\ \A h \in hits : \E k \in 1..Len(order) : order[k] = h
<1> DEFINE before == ByStart(hits)
           order == Sorted(hits, before)
           First(f, t, r, g, u, s) == f < g \/ (f = g /\ t > u) \/ (f = g /\ t = u /\ r < s)
<1>1. \A h \in hits : h.rule \in Nat /\ h.from \in Nat /\ h.to \in Nat
  BY RedactionAssumption DEF HitSet
<1>2. \A x, y \in hits : <<x, y>> \in before
                           <=> First(x.from, x.to, x.rule, y.from, y.to, y.rule)
  BY DEF ByStart
<1>3. \A x, y \in hits : x.from = y.from /\ x.to = y.to /\ x.rule = y.rule => x = y
  BY DEF HitSet
<1>4. /\ \A f, t, r \in Nat : ~First(f, t, r, f, t, r)
      /\ \A f, t, r, g, u, s \in Nat : (f = g /\ t = u /\ r = s) \/ First(f, t, r, g, u, s)
                                       \/ First(g, u, s, f, t, r)
      /\ \A f, t, r, g, u, s \in Nat : First(f, t, r, g, u, s) => f <= g
  OBVIOUS
<1>5. \A f, t, r, g, u, s, a, b, c \in Nat :
        First(f, t, r, g, u, s) /\ First(g, u, s, a, b, c) => First(f, t, r, a, b, c)
  OBVIOUS
<1> HIDE DEF before, First
<1>6. \A x \in hits : <<x, x>> \notin before
  BY <1>1, <1>2, <1>4
<1>7. \A x, y \in hits : x # y => <<x, y>> \in before \/ <<y, x>> \in before
  BY ZenonT(60), <1>1, <1>2, <1>3, <1>4
<1>8. ASSUME NEW x \in hits, NEW y \in hits, NEW z \in hits,
             <<x, y>> \in before, <<y, z>> \in before
      PROVE  <<x, z>> \in before
  BY <1>1, <1>2, <1>5, <1>8
<1>9. /\ order \in Seq(hits) /\ Len(order) = Cardinality(hits) /\ DOMAIN order = 1..Len(order)
      /\ \A i, j \in DOMAIN order : i < j => <<order[i], order[j]>> \in before
      /\ \A x \in hits : \E k \in DOMAIN order : order[k] = x
  BY <1>6, <1>7, <1>8, SortedProperly
<1> HIDE DEF order
<1>12. Len(order) \in Nat /\ DOMAIN order = 1..Len(order)
  BY <1>9
<1>10. \A i, j \in 1..Len(order) : i < j => order[i].from <= order[j].from
  <2>1. ASSUME NEW i \in 1..Len(order), NEW j \in 1..Len(order), i < j
        PROVE  order[i].from <= order[j].from
    <3> DEFINE x == order[i]
               y == order[j]
    <3>1. x \in hits /\ y \in hits
      BY <1>9, <2>1
    <3>2. <<x, y>> \in before
      BY <1>9, <1>12, <2>1
    <3> HIDE DEF x, y
    <3>3. First(x.from, x.to, x.rule, y.from, y.to, y.rule)
      BY <1>2, <3>1, <3>2
    <3>4. x.from <= y.from
      BY <1>1, <1>4, <3>1, <3>3
    <3> QED BY <3>4 DEF x, y
  <2> QED BY <2>1
<1>11. \A h \in hits : \E k \in 1..Len(order) : order[k] = h
  BY <1>9, <1>12
<1> QED BY <1>9, <1>10, <1>11, <1>12 DEF order, before

\* Of the hits in a text, those that are kept before signing do not overlap,
\* and every other overlaps one of them.
LEMMA MergedApart ==
  ASSUME NEW hits, hits \subseteq HitSet, IsFiniteSet(hits)
  PROVE  /\ NoOverlaps(Merge(hits)) /\ Elements(Merge(hits)) \subseteq hits
         /\ \A h \in hits : \E k \in DOMAIN Merge(hits) : Overlaps(h, Merge(hits)[k])
<1> DEFINE order == Sorted(hits, ByStart(hits))
           n == Len(order)
           States == [kept : Seq(hits), end : Nat]
           Takes(k, s) == [kept |-> Append(s.kept, order[k]), end |-> order[k].to]
           turns == [k \in DOMAIN order |-> [s \in States |->
                       IF order[k].from < s.end THEN s ELSE Takes(k, s)]]
           start == [kept |-> <<>>, end |-> 0]
           done == Looped(turns, start)
           Covers(s, k) == \A i \in 1..k : \E m \in DOMAIN s.kept : Overlaps(order[i], s.kept[m])
           Ends(s) == \A m \in DOMAIN s.kept : s.kept[m].to <= s.end
           Ended(s, k) == s.end # 0 => \E m \in DOMAIN s.kept, i \in 1..k :
                           s.kept[m] = order[i] /\ s.end = order[i].to
           Done(k, s) == NoOverlaps(s.kept) /\ Ends(s) /\ Ended(s, k) /\ Covers(s, k)
           G == {p \in (0..n) \X States : Done(p[1], p[2])}
<1>1. Merge(hits) = done.kept
  BY DEF Merge
<1>2. /\ order \in Seq(hits) /\ n \in Nat /\ DOMAIN order = 1..n
      /\ \A i, j \in 1..n : i < j => order[i].from <= order[j].from
      /\ \A h \in hits : \E k \in 1..n : order[k] = h
  BY ByStartOrders
<1>3. \A h \in hits : h.from \in Nat /\ h.to \in Nat /\ h.from < h.to
  BY RedactionAssumption DEF HitSet
<1> HIDE DEF order, n
<1>4. Len(turns) = n
  <2> DEFINE T == {turns[k] : k \in 1..n}
  <2>1. turns \in [1..n -> T]
    BY <1>2
  <2> HIDE DEF turns, T
  <2> QED BY <1>2, <2>1, ListOf
<1>5. start \in States /\ <<0, start>> \in G
  <2>1. DOMAIN <<>> = {} /\ <<>> \in Seq(HitSet) /\ <<>> \in Seq(hits)
    OBVIOUS
  <2>2. Done(0, start)
    <3>1. NoOverlaps(<<>>)
      BY <2>1 DEF NoOverlaps
    <3>2. 1..0 = {}
      OBVIOUS
    <3> QED BY <2>1, <3>1, <3>2
  <2>3. start \in States /\ 0 \in 0..n
    BY <1>2, <2>1
  <2> HIDE DEF Done, States, start
  <2> QED BY <2>2, <2>3
<1>6. ASSUME NEW k \in 1..n, NEW s \in States, <<k - 1, s>> \in G
      PROVE  turns[k][s] \in States /\ <<k, turns[k][s]>> \in G
  <2>1. k \in 0..n /\ k - 1 \in Nat /\ 1..k = 1..(k - 1) \cup {k} /\ 1..k \subseteq 1..n
    BY <1>2
  <2>2. Done(k - 1, s)
    BY <1>6
  <2>3. order[k] \in hits /\ \A i \in 1..k : order[i] \in hits /\ order[i].from <= order[k].from
    <3>1. \A i \in 1..n : order[i] \in hits
      BY <1>2
    <3>2. \A i \in 1..k : i = k \/ i < k
      OBVIOUS
    <3> QED BY <1>2, <1>3, <2>1, <3>1, <3>2
  <2>4. turns[k][s] = IF order[k].from < s.end THEN s ELSE Takes(k, s)
    BY <1>2
  <2>5. s.kept \in Seq(hits) /\ s.end \in Nat
    OBVIOUS
  <2> HIDE DEF turns
  <2>6. CASE order[k].from < s.end
    <3>1. PICK m \in DOMAIN s.kept, i \in 1..(k - 1) : s.kept[m] = order[i] /\ s.end = order[i].to
      <4>1. s.end # 0
        BY <1>3, <2>3, <2>5, <2>6
      <4> QED BY <2>2, <4>1
    <3>2. Overlaps(order[k], s.kept[m])
      <4>1. i \in 1..k /\ order[i].from <= order[k].from
        BY <2>1, <2>3
      <4>2. order[i].from < order[k].to
        BY <1>3, <2>3, <4>1
      <4> QED BY <2>6, <3>1, <4>2 DEF Overlaps
    <3>3. Covers(s, k)
      <4> HIDE DEF Done
      <4>1. Covers(s, k - 1)
        BY <2>2 DEF Done
      <4> QED BY <2>1, <3>1, <3>2, <4>1
    <3>4. Ended(s, k)
      BY <2>1, <2>2
    <3>5. Done(k, s)
      BY <2>2, <3>3, <3>4
    <3> HIDE DEF Done
    <3> QED BY <2>1, <2>4, <2>6, <3>5
  <2>7. CASE ~(order[k].from < s.end)
    <3> DEFINE t == Takes(k, s)
               l == Len(s.kept)
    <3>1. t.kept = Append(s.kept, order[k]) /\ t.end = order[k].to
      OBVIOUS
    <3>2. /\ l \in Nat /\ DOMAIN s.kept = 1..l
          /\ t.kept \in Seq(hits) /\ Len(t.kept) = l + 1 /\ DOMAIN t.kept = 1..(l + 1)
          /\ \A m \in 1..l : t.kept[m] = s.kept[m]
          /\ t.kept[l + 1] = order[k]
      <4>1. /\ t.kept \in Seq(hits) /\ Len(t.kept) = l + 1
            /\ \A m \in 1..l : t.kept[m] = s.kept[m]
            /\ t.kept[l + 1] = order[k]
        BY <2>3, <2>5, AppendProperties
      <4>2. l \in Nat /\ DOMAIN s.kept = 1..l
        BY <2>5
      <4>3. DOMAIN t.kept = 1..(l + 1)
        BY <4>1, LenProperties
      <4> QED BY <4>1, <4>2, <4>3
    <3>3. t \in States
      BY <1>3, <2>3, <3>1, <3>2
    <3> HIDE DEF t, l, Takes
    <3>4. \A m \in 1..(l + 1) : m \in 1..l \/ m = l + 1
      BY <3>2
    <3>5. \A m \in 1..l : s.kept[m] \in hits /\ s.kept[m].to <= s.end /\ s.kept[m].to <= order[k].from
      <4>1. ASSUME NEW m \in 1..l PROVE s.kept[m] \in hits /\ s.kept[m].to <= s.end
        BY <2>2, <2>5, <3>2
      <4>2. s.end <= order[k].from
        BY <1>3, <2>3, <2>5, <2>7
      <4> QED BY <1>3, <2>3, <2>5, <4>1, <4>2
    <3>6. NoOverlaps(t.kept)
      <4>1. t.kept \in Seq(HitSet)
        BY <3>2
      <4>2. ASSUME NEW i \in 1..(l + 1), NEW j \in 1..(l + 1), i < j
            PROVE  t.kept[i].to <= t.kept[j].from
        <5>1. i \in 1..l
          BY <3>2, <4>2
        <5>2. CASE j \in 1..l
          <6>1. s.kept[i].to <= s.kept[j].from
            BY <2>2, <3>2, <4>2, <5>1, <5>2 DEF NoOverlaps
          <6> QED BY <3>2, <5>1, <5>2, <6>1
        <5>3. CASE j = l + 1
          BY <3>2, <3>5, <5>1, <5>3
        <5> QED BY <3>4, <5>2, <5>3
      <4> QED BY <3>2, <4>1, <4>2 DEF NoOverlaps
    <3>7. Ends(t)
      <4>1. ASSUME NEW m \in 1..(l + 1) PROVE t.kept[m].to <= t.end
        <5>1. CASE m = l + 1
          BY <1>3, <2>3, <3>1, <3>2, <5>1
        <5>2. CASE m \in 1..l
          BY <1>3, <2>3, <3>1, <3>2, <3>5, <5>2
        <5> QED BY <3>4, <5>1, <5>2
      <4> QED BY <3>2, <4>1
    <3>8. Ended(t, k)
      <4>1. l + 1 \in DOMAIN t.kept /\ k \in 1..k
        BY <2>1, <3>2
      <4> QED BY <3>1, <3>2, <4>1
    <3>9. Covers(t, k)
      <4>1. ASSUME NEW i \in 1..k PROVE \E m \in DOMAIN t.kept : Overlaps(order[i], t.kept[m])
        <5>1. CASE i = k
          <6>1. l + 1 \in DOMAIN t.kept
            BY <3>2
          <6>2. Overlaps(order[i], t.kept[l + 1])
            BY <1>3, <2>3, <3>2, <5>1 DEF Overlaps
          <6> QED BY <6>1, <6>2
        <5>2. CASE i \in 1..(k - 1)
          <6>1. PICK m \in 1..l : Overlaps(order[i], s.kept[m])
            BY <2>2, <3>2, <5>2
          <6>2. m \in 1..(l + 1)
            BY <3>2
          <6> QED BY <3>2, <6>1, <6>2
        <5> QED BY <2>1, <5>1, <5>2
      <4> QED BY <4>1
    <3>10. Done(k, t)
      BY <3>6, <3>7, <3>8, <3>9
    <3>11. turns[k][s] = t
      BY <2>4, <2>7 DEF t
    <3> HIDE DEF Done, States
    <3> QED BY <2>1, <3>3, <3>10, <3>11
  <2> QED BY <2>6, <2>7
<1>7. done \in States /\ <<n, done>> \in G
  <2> HIDE DEF turns, G, States, start
  <2>1. Len(turns) \in Nat
    BY <1>2, <1>4
  <2>2. \A k \in 1..Len(turns) : \A s \in States :
          <<k - 1, s>> \in G => turns[k][s] \in States /\ <<k, turns[k][s]>> \in G
    BY <1>4, <1>6
  <2> QED BY <1>4, <1>5, <2>1, <2>2, LoopKeeps
<1>8. Done(n, done)
  <2> HIDE DEF Done, done
  <2> QED BY <1>7
<1>9. Elements(done.kept) \subseteq hits
  <2>1. done.kept \in Seq(hits)
    <3> HIDE DEF done
    <3> QED BY <1>7
  <2> HIDE DEF done
  <2> QED BY <2>1 DEF Elements
<1> HIDE DEF done
<1>10. \A h \in hits : \E k \in DOMAIN done.kept : Overlaps(h, done.kept[k])
  BY <1>2, <1>8
<1> QED BY <1>1, <1>8, <1>9, <1>10

\* What one detector finds does not overlap.
LEMMA OneDetector ==
  ASSUME NEW matches \in AllMatches, NEW x \in Hits(matches), NEW y \in Hits(matches),
         x.rule = y.rule, Overlaps(x, y)
  PROVE  x = y
<1>1. PICK d \in 1..Detectors : \E m \in matches[d] : x = [rule |-> d, from |-> m.from, to |-> m.to]
  BY DEF Hits
<1>2. PICK m \in matches[d] : x = [rule |-> d, from |-> m.from, to |-> m.to]
  BY <1>1
<1>3. PICK e \in 1..Detectors : \E m2 \in matches[e] : y = [rule |-> e, from |-> m2.from, to |-> m2.to]
  BY DEF Hits
<1>4. PICK m2 \in matches[e] : y = [rule |-> e, from |-> m2.from, to |-> m2.to]
  BY <1>3
<1>5. d = e
  BY <1>2, <1>4
<1>6. Overlaps(m, m2)
  BY <1>2, <1>4 DEF Overlaps
<1>7. matches[d] \in MatchSets
  BY DEF AllMatches
<1>8. m = m2
  BY <1>5, <1>6, <1>7 DEF MatchSets
<1> QED BY <1>2, <1>4, <1>5, <1>8

\* Hits of which no two overlap, sorted by their start, are in the order of the
\* text.
LEMMA SortedApart ==
  ASSUME NEW claims, claims \subseteq HitSet, IsFiniteSet(claims),
         \A x, y \in claims : x # y => ~Overlaps(x, y)
  PROVE  LET hits == Sorted(claims, {p \in claims \X claims : p[1].from < p[2].from})
         IN  NoOverlaps(hits) /\ Elements(hits) = claims
<1> DEFINE before == {p \in claims \X claims : p[1].from < p[2].from}
           hits == Sorted(claims, before)
<1>1. \A h \in claims : h.from \in Nat /\ h.to \in Nat /\ h.from < h.to
  BY RedactionAssumption DEF HitSet
<1>2. \A x, y \in claims : <<x, y>> \in before <=> x.from < y.from
  OBVIOUS
<1> HIDE DEF before
<1>3. \A x \in claims : <<x, x>> \notin before
  BY <1>1, <1>2
<1>4. ASSUME NEW x \in claims, NEW y \in claims, x # y
      PROVE  <<x, y>> \in before \/ <<y, x>> \in before
  <2>1. x.from # y.from
    BY <1>1, <1>4 DEF Overlaps
  <2> QED BY <1>1, <1>2, <2>1
<1>5. ASSUME NEW x \in claims, NEW y \in claims, NEW z \in claims,
             <<x, y>> \in before, <<y, z>> \in before
      PROVE  <<x, z>> \in before
  BY <1>1, <1>2, <1>5
<1>6. /\ hits \in Seq(claims) /\ DOMAIN hits = 1..Len(hits)
      /\ \A i, j \in DOMAIN hits : i < j => <<hits[i], hits[j]>> \in before
      /\ \A x \in claims : \E k \in DOMAIN hits : hits[k] = x
  BY <1>3, <1>4, <1>5, SortedProperly
<1> HIDE DEF hits
<1>7. Elements(hits) = claims
  BY <1>6 DEF Elements
<1>8. ASSUME NEW i \in DOMAIN hits, NEW j \in DOMAIN hits, i < j
      PROVE  hits[i].to <= hits[j].from
  <2> DEFINE x == hits[i]
             y == hits[j]
  <2>1. x \in claims /\ y \in claims
    BY <1>6
  <2>2. <<x, y>> \in before
    BY <1>6, <1>8
  <2> HIDE DEF x, y
  <2>3. x.from < y.from /\ ~Overlaps(x, y)
    BY <1>1, <1>2, <2>1, <2>2
  <2>4. x.to <= y.from
    BY <1>1, <2>1, <2>3 DEF Overlaps
  <2> QED BY <2>4 DEF x, y
<1>9. hits \in Seq(HitSet)
  BY <1>6
<1> QED BY <1>7, <1>8, <1>9 DEF NoOverlaps, hits, before

\* Of the hits in a text, those that are reported do not overlap, and every
\* other overlaps one of them.
LEMMA DetectedApart ==
  ASSUME NEW matches \in AllMatches
  PROVE  /\ NoOverlaps(Detect(matches)) /\ Elements(Detect(matches)) \subseteq Hits(matches)
         /\ \A h \in Hits(matches) : \E k \in DOMAIN Detect(matches) : Overlaps(h, Detect(matches)[k])
<1> DEFINE hits == Hits(matches)
           before == FirstRegistered(hits)
           order == Sorted(hits, before)
           n == Len(order)
           turns == [k \in DOMAIN order |-> [claimed \in SUBSET hits |->
                       IF \E other \in claimed : Overlaps(order[k], other) THEN claimed
                       ELSE claimed \cup {order[k]}]]
           claims == Looped(turns, {})
           Clear(c) == \A x, y \in c : x # y => ~Overlaps(x, y)
           Covers(c, k) == \A i \in 1..k : \E o \in c : Overlaps(order[i], o)
           G == {p \in (0..n) \X SUBSET hits : Clear(p[2]) /\ Covers(p[2], p[1])}
<1>1. Detect(matches) = Sorted(claims, {p \in claims \X claims : p[1].from < p[2].from})
  BY DEF Detect
<1>2. hits \subseteq HitSet /\ IsFiniteSet(hits)
  BY HitsFinite
<1>3. \A h \in hits : h.from \in Nat /\ h.to \in Nat /\ h.rule \in Nat /\ h.from < h.to
  BY <1>2, RedactionAssumption DEF HitSet
<1>4. \A x, y \in hits : x.rule = y.rule /\ Overlaps(x, y) => x = y
  BY OneDetector
<1> HIDE DEF hits
<1>5. /\ order \in Seq(hits) /\ n \in Nat /\ DOMAIN order = 1..n
      /\ \A h \in hits : \E k \in 1..n : order[k] = h
  <2>1. \A x, y \in hits : <<x, y>> \in before
                             <=> x.rule < y.rule \/ (x.rule = y.rule /\ x.from < y.from)
    BY DEF FirstRegistered
  <2> HIDE DEF before
  <2>2. \A x \in hits : <<x, x>> \notin before
    BY <1>3, <2>1
  <2>3. ASSUME NEW x \in hits, NEW y \in hits, x # y
        PROVE  <<x, y>> \in before \/ <<y, x>> \in before
    <3>1. x.rule # y.rule \/ x.from # y.from
      BY <1>3, <1>4, <2>3 DEF Overlaps
    <3> QED BY <1>3, <2>1, <3>1
  <2>4. ASSUME NEW x \in hits, NEW y \in hits, NEW z \in hits,
               <<x, y>> \in before, <<y, z>> \in before
        PROVE  <<x, z>> \in before
    <3>1. x.rule \in Nat /\ y.rule \in Nat /\ z.rule \in Nat
          /\ x.from \in Nat /\ y.from \in Nat /\ z.from \in Nat
      BY <1>3
    <3>2. /\ x.rule < y.rule \/ (x.rule = y.rule /\ x.from < y.from)
          /\ y.rule < z.rule \/ (y.rule = z.rule /\ y.from < z.from)
      BY <2>1, <2>4
    <3>3. x.rule < z.rule \/ (x.rule = z.rule /\ x.from < z.from)
      BY ONLY <3>1, <3>2
    <3> QED BY <2>1, <3>3
  <2>5. /\ order \in Seq(hits) /\ n = Cardinality(hits) /\ DOMAIN order = 1..n
        /\ \A x \in hits : \E k \in DOMAIN order : order[k] = x
    BY <1>2, <2>2, <2>3, <2>4, SortedProperly
  <2> HIDE DEF order
  <2> QED BY <2>5
<1> HIDE DEF order, n
<1>6. Len(turns) = n
  <2> DEFINE T == {turns[k] : k \in 1..n}
  <2>1. turns \in [1..n -> T]
    BY <1>5
  <2> HIDE DEF turns, T
  <2> QED BY <1>5, <2>1, ListOf
<1>7. <<0, {}>> \in G
  <2>1. 0 \in 0..n /\ 1..0 = {} /\ {} \in SUBSET hits
    BY <1>5
  <2> QED BY <2>1
<1>8. ASSUME NEW k \in 1..n, NEW c \in SUBSET hits, <<k - 1, c>> \in G
      PROVE  turns[k][c] \in SUBSET hits /\ <<k, turns[k][c]>> \in G
  <2> DEFINE d == turns[k][c]
  <2>1. Clear(c) /\ Covers(c, k - 1)
    BY <1>8
  <2>2. d = IF \E other \in c : Overlaps(order[k], other) THEN c ELSE c \cup {order[k]}
    BY <1>5
  <2>3. k \in 0..n /\ 1..k = 1..(k - 1) \cup {k}
    BY <1>5
  <2>4. order[k] \in hits /\ \A i \in 1..(k - 1) : order[i] \in hits
    <3>1. \A i \in 1..n : order[i] \in hits
      BY <1>5
    <3>2. 1..(k - 1) \subseteq 1..n
      BY <1>5
    <3> QED BY <3>1, <3>2
  <2> HIDE DEF d, turns
  <2>5. Overlaps(order[k], order[k])
    BY <1>3, <2>4 DEF Overlaps
  <2>6. \A x, y : Overlaps(x, y) <=> Overlaps(y, x)
    BY DEF Overlaps
  <2>7. Clear(d)
    BY <2>1, <2>2, <2>6
  <2>8. Covers(d, k)
    BY <2>1, <2>2, <2>3, <2>5
  <2>9. d \in SUBSET hits
    BY <2>2, <2>4
  <2> HIDE DEF Clear, Covers
  <2> QED BY <2>3, <2>7, <2>8, <2>9 DEF d
<1>9. claims \in SUBSET hits /\ <<n, claims>> \in G
  <2> DEFINE S == SUBSET hits
  <2>1. Len(turns) \in Nat /\ {} \in S
    BY <1>5, <1>6
  <2>2. \A k \in 1..Len(turns) : \A c \in S :
          <<k - 1, c>> \in G => turns[k][c] \in S /\ <<k, turns[k][c]>> \in G
    BY <1>6, <1>8
  <2> HIDE DEF turns, G, S
  <2>3. claims \in S /\ <<Len(turns), claims>> \in G
    BY <1>7, <2>1, <2>2, LoopKeeps
  <2> QED BY <1>6, <2>3 DEF S
<1>10. Clear(claims) /\ Covers(claims, n)
  <2> HIDE DEF Clear, Covers, claims
  <2> QED BY <1>9
<1> HIDE DEF claims
<1>11. IsFiniteSet(claims) /\ claims \subseteq HitSet
  BY <1>2, <1>9, FS_Subset
<1>12. NoOverlaps(Detect(matches)) /\ Elements(Detect(matches)) = claims
  <2> DEFINE sorted == Sorted(claims, {p \in claims \X claims : p[1].from < p[2].from})
  <2>1. NoOverlaps(sorted) /\ Elements(sorted) = claims
    BY <1>10, <1>11, SortedApart
  <2> HIDE DEF sorted
  <2>2. Detect(matches) = sorted
    BY <1>1 DEF sorted
  <2> QED BY <2>1, <2>2
<1>13. \A h \in hits : \E o \in claims : Overlaps(h, o)
  BY <1>5, <1>10
<1>14. ASSUME NEW h \in hits PROVE \E k \in DOMAIN Detect(matches) : Overlaps(h, Detect(matches)[k])
  <2>1. PICK o \in claims : Overlaps(h, o)
    BY <1>13
  <2>2. PICK k \in DOMAIN Detect(matches) : Detect(matches)[k] = o
    BY <1>12, <2>1 DEF Elements
  <2> QED BY <2>1, <2>2
<1> QED BY <1>9, <1>12, <1>14 DEF hits

\* What the policy makes of a text hides what it reports.
LEMMA PolicyHides ==
  ASSUME NEW matches \in AllMatches, NEW cleaned, cleaned = ApplyPolicy(Text, matches)
  PROVE  /\ Hides(cleaned.text, matches, Range(Merge(Hits(matches))))
         /\ Len(cleaned.detections) = Cardinality(Tokens(cleaned.text))
         /\ RulesIn(cleaned.text) = {h.rule : h \in Range(cleaned.detections)}
         /\ cleaned.detections # <<>> <=> RulesIn(cleaned.text) # {}
<1> DEFINE hits == Merge(Hits(matches))
<1>1. Hits(matches) \subseteq HitSet /\ IsFiniteSet(Hits(matches))
  BY HitsFinite
<1>2. /\ NoOverlaps(hits) /\ Elements(hits) \subseteq Hits(matches)
      /\ \A h \in Hits(matches) : \E k \in DOMAIN hits : Overlaps(h, hits[k])
  BY <1>1, MergedApart
<1>3. /\ cleaned.detections = hits
      /\ Part(cleaned.text, 1..TextLength \ Claimed(Elements(hits)), Len(hits), RulesOf(hits, 1..Len(hits)))
  BY <1>2, AppliedPart
<1> HIDE DEF hits
<1>4. /\ Hides(cleaned.text, matches, Range(hits))
      /\ Cardinality(Tokens(cleaned.text)) = Len(hits)
      /\ RulesIn(cleaned.text) = {h.rule : h \in Range(hits)}
  <2> DEFINE t == cleaned.text
  <2>1. Part(t, 1..TextLength \ Claimed(Elements(hits)), Len(hits), RulesOf(hits, 1..Len(hits)))
        /\ \A h \in Hits(matches) : h \in HitSet /\ \E k \in DOMAIN hits : Overlaps(h, hits[k])
    BY <1>1, <1>2, <1>3
  <2> HIDE DEF t
  <2> QED BY <1>2, <2>1, PartHides DEF t
<1>5. hits # <<>> <=> {h.rule : h \in Range(hits)} # {}
  <2>1. hits \in Seq(HitSet)
    BY <1>2 DEF NoOverlaps
  <2>2. hits = <<>> <=> DOMAIN hits = {}
    BY <2>1
  <2> QED BY <2>2 DEF Range
<1> QED BY <1>3, <1>4, <1>5 DEF hits

\* What is shared of a text hides what it reports.
LEMMA DocumentHides ==
  ASSUME NEW matches \in AllMatches
  PROVE  /\ Hides(RedactText(Text, Detect(matches)), matches, Range(Detect(matches)))
         /\ RedactText(Text, Detect(matches)) \in Seq(Nat)
<1> DEFINE hits == Detect(matches)
           t == RedactText(Text, hits)
<1>1. Hits(matches) \subseteq HitSet
  BY HitsFinite
<1>2. /\ NoOverlaps(hits) /\ Elements(hits) \subseteq Hits(matches)
      /\ \A h \in Hits(matches) : \E k \in DOMAIN hits : Overlaps(h, hits[k])
  BY DetectedApart
<1> HIDE DEF hits
<1>3. Part(t, 1..TextLength \ Claimed(Elements(hits)), Len(hits), RulesOf(hits, 1..Len(hits)))
  BY <1>2, RedactedPart
<1> HIDE DEF t
<1>4. Hides(t, matches, Range(hits))
  <2>1. \A h \in Hits(matches) : h \in HitSet /\ \E k \in DOMAIN hits : Overlaps(h, hits[k])
    BY <1>1, <1>2
  <2> QED BY <1>2, <1>3, <2>1, PartHides
<1> QED BY <1>3, <1>4 DEF Part, t, hits

RedactionInv == found \in AllMatches /\ NothingLeaks

LEMMA RedactionStarts == ASSUME RedactionInit PROVE RedactionInv
  BY DEF RedactionInit, RedactionInv, AllMatches, NothingLeaks

\* A text without a symbol is another text.
LEMMA DamagedDiffers ==
  ASSUME NEW t \in Seq(Nat), NEW i \in DOMAIN t
  PROVE  RemoveAt(t, i) # t
<1>1. i \in 1..Len(t) /\ Len(t) \in Nat
  OBVIOUS
<1> DEFINE a == SubSeq(t, 1, i - 1)
           b == SubSeq(t, i + 1, Len(t))
<1>2. a \in Seq(Nat) /\ Len(a) = i - 1
  <2>1. \A j \in 1..(i - 1) : t[j] \in Nat
    BY <1>1
  <2>2. 1 \in Int /\ i - 1 \in Int
    BY <1>1
  <2>3. a \in Seq(Nat) /\ Len(a) = IF 1 <= i - 1 THEN i - 1 - 1 + 1 ELSE 0
    BY <2>1, <2>2, SubSeqProperties
  <2> HIDE DEF a
  <2> QED BY <1>1, <2>3
<1>3. b \in Seq(Nat) /\ Len(b) = Len(t) - i
  <2>1. \A j \in (i + 1)..Len(t) : t[j] \in Nat
    BY <1>1
  <2>2. i + 1 \in Int /\ Len(t) \in Int
    BY <1>1
  <2>3. b \in Seq(Nat) /\ Len(b) = IF i + 1 <= Len(t) THEN Len(t) - (i + 1) + 1 ELSE 0
    BY <2>1, <2>2, SubSeqProperties
  <2> HIDE DEF b
  <2> QED BY <1>1, <2>3
<1>4. Len(a \o b) = i - 1 + (Len(t) - i)
  <2> HIDE DEF a, b
  <2>1. Len(a \o b) = Len(a) + Len(b)
    BY <1>2, <1>3, ConcatProperties
  <2> QED BY <1>2, <1>3, <2>1
<1>5. RemoveAt(t, i) = a \o b
  BY DEF RemoveAt
<1> HIDE DEF a, b
<1> QED BY <1>1, <1>4, <1>5

LEMMA RedactionKeeps == ASSUME RedactionInv, RedactionNext PROVE RedactionInv'
<1>1. CASE AppendRedacted
  <2>0. found \in AllMatches /\ found' = found
    BY <1>1 DEF AppendRedacted, RedactionInv
  <2>1. PICK active \in BOOLEAN, response \in {found, Unmatched},
             given \in {NoRules, [redacted |-> FALSE, rules |-> {}, count |-> 0]} :
          LET reports == <<ApplyPolicy(Text, found), ApplyPolicy(Text, response)>> IN
          outcome' = [is |-> "receipt", active |-> active, given |-> given,
                      matched |-> <<found, response>>,
                      texts |-> IF active THEN <<reports[1].text, reports[2].text>> ELSE <<Text, Text>>,
                      extra |-> IF active THEN Summary(reports, given) ELSE given]
    BY <1>1 DEF AppendRedacted
  <2>2. response \in AllMatches
    <3>1. {} \in MatchSets
      BY DEF MatchSets
    <3> QED BY <2>0, <3>1 DEF Unmatched, AllMatches
  <2> DEFINE p == ApplyPolicy(Text, found)
             q == ApplyPolicy(Text, response)
  <2>3. /\ Hides(p.text, found, Range(Merge(Hits(found))))
        /\ Len(p.detections) = Cardinality(Tokens(p.text))
        /\ RulesIn(p.text) = {h.rule : h \in Range(p.detections)}
        /\ p.detections # <<>> <=> RulesIn(p.text) # {}
    BY <2>0, PolicyHides
  <2>4. /\ Hides(q.text, response, Range(Merge(Hits(response))))
        /\ Len(q.detections) = Cardinality(Tokens(q.text))
        /\ RulesIn(q.text) = {h.rule : h \in Range(q.detections)}
        /\ q.detections # <<>> <=> RulesIn(q.text) # {}
    BY <2>2, PolicyHides
  <2> HIDE DEF p, q
  <2>5. /\ outcome'.is = "receipt" /\ outcome'.active = active /\ outcome'.given = given
        /\ outcome'.matched = <<found, response>>
        /\ active => outcome'.texts = <<p.text, q.text>> /\ outcome'.extra = Summary(<<p, q>>, given)
    BY <2>1 DEF p, q
  <2>6. given = NoRules =>
          /\ Summary(<<p, q>>, given).count = Cardinality(Tokens(p.text)) + Cardinality(Tokens(q.text))
          /\ Summary(<<p, q>>, given).rules = RulesIn(p.text) \cup RulesIn(q.text)
          /\ Summary(<<p, q>>, given).redacted <=> Summary(<<p, q>>, given).rules # {}
    <3> SUFFICES ASSUME given = NoRules
                 PROVE  /\ Summary(<<p, q>>, given).count
                             = Cardinality(Tokens(p.text)) + Cardinality(Tokens(q.text))
                        /\ Summary(<<p, q>>, given).rules = RulesIn(p.text) \cup RulesIn(q.text)
                        /\ Summary(<<p, q>>, given).redacted <=> Summary(<<p, q>>, given).rules # {}
      OBVIOUS
    <3> DEFINE reports == <<p, q>>
               rules == UNION {{hit.rule : hit \in Range(reports[r].detections)} : r \in DOMAIN reports}
    <3>1. DOMAIN reports = {1, 2} /\ reports[1] = p /\ reports[2] = q
      OBVIOUS
    <3> HIDE DEF reports
    <3>2. rules = RulesIn(p.text) \cup RulesIn(q.text)
      BY <2>3, <2>4, <3>1
    <3> HIDE DEF rules
    <3>3. (\E r \in DOMAIN reports : reports[r].detections # <<>>) <=> rules # {}
      BY <2>3, <2>4, <3>1, <3>2
    <3>4. /\ Summary(reports, given).redacted = (\E r \in DOMAIN reports : reports[r].detections # <<>>)
          /\ Summary(reports, given).rules = rules
          /\ Summary(reports, given).count = Len(reports[1].detections) + Len(reports[2].detections)
      BY DEF Summary, rules
    <3> QED BY <2>3, <2>4, <3>1, <3>2, <3>3, <3>4 DEF reports
  <2>7. NothingLeaks'
    <3>1. outcome'.active => \A r \in {1, 2} :
            Hides(outcome'.texts[r], outcome'.matched[r], Range(Merge(Hits(outcome'.matched[r]))))
      BY <2>3, <2>4, <2>5
    <3>2. outcome'.active /\ outcome'.given = NoRules =>
            /\ outcome'.extra.count = Cardinality(Tokens(outcome'.texts[1]))
                                        + Cardinality(Tokens(outcome'.texts[2]))
            /\ outcome'.extra.rules = RulesIn(outcome'.texts[1]) \cup RulesIn(outcome'.texts[2])
            /\ outcome'.extra.redacted <=> outcome'.extra.rules # {}
      <4> SUFFICES ASSUME active, given = NoRules
                   PROVE  /\ outcome'.extra.count = Cardinality(Tokens(outcome'.texts[1]))
                                                      + Cardinality(Tokens(outcome'.texts[2]))
                          /\ outcome'.extra.rules
                               = RulesIn(outcome'.texts[1]) \cup RulesIn(outcome'.texts[2])
                          /\ outcome'.extra.redacted <=> outcome'.extra.rules # {}
        BY <2>5
      <4>1. outcome'.texts[1] = p.text /\ outcome'.texts[2] = q.text
            /\ outcome'.extra = Summary(<<p, q>>, given)
        BY <2>5
      <4> QED BY <2>6, <4>1
    <3>3. outcome'.is # "document"
      BY <2>5
    <3> QED BY <3>1, <3>2, <3>3 DEF NothingLeaks
  <2> QED BY <2>0, <2>7 DEF RedactionInv
<1>2. CASE ShareEvidence
  <2>0. found \in AllMatches /\ found' = found
    BY <1>2 DEF ShareEvidence, RedactionInv
  <2>1. PICK mode \in Modes :
          LET built == BuildEvidence(mode, found)
              Damaged == IF mode # "redacted" THEN {}
                         ELSE {[built EXCEPT !.text = RemoveAt(@, i)] : i \in DOMAIN built.text}
          IN \E paper \in {built} \cup Damaged :
               outcome' = [is |-> "document", intact |-> paper = built,
                           evidence |-> VerifyEvidence(paper)]
    BY <1>2 DEF ShareEvidence
  <2> DEFINE built == BuildEvidence(mode, found)
             hits == Detect(found)
             text == RedactText(Text, hits)
  <2>2. PICK paper :
          /\ paper = built \/ (mode = "redacted" /\ \E i \in DOMAIN built.text :
                                    paper = [built EXCEPT !.text = RemoveAt(@, i)])
          /\ outcome' = [is |-> "document", intact |-> paper = built,
                         evidence |-> VerifyEvidence(paper)]
    BY <2>1
  <2>3. text \in Seq(Nat) /\ Hides(text, found, Range(hits))
    BY <2>0, DocumentHides
  <2> HIDE DEF text
  <2>4. /\ outcome'.is = "document" /\ outcome'.intact = (paper = built)
        /\ outcome'.evidence = VerifyEvidence(paper)
    BY <2>2
  <2>5. CASE mode # "redacted"
    <3>1. paper = built
      BY <2>2, <2>5
    <3> DEFINE fields == Over([mode |-> mode, digest |-> Text],
                              IF mode = "fingerprint" THEN [fingerprint |-> Text]
                              ELSE Over(IF hits = <<>> THEN <<>> ELSE [redactions |-> hits],
                                        [text |-> Text, fingerprint |-> Text]))
    <3>2. built = fields
      BY <2>5 DEF BuildEvidence, Modes
    <3> HIDE DEF hits, built
    <3>3. fields.mode = mode /\ DOMAIN fields \subseteq {"mode", "digest", "redactions", "text", "fingerprint", 1}
      BY DEF Over
    <3>4. outcome'.evidence.mode = mode
      BY <2>4, <3>1, <3>2 DEF VerifyEvidence, Over
    <3>5. mode = "fingerprint" => outcome'.evidence.text = <<>> /\ outcome'.evidence.redactions = <<>>
      BY <2>4, <3>1, <3>2 DEF VerifyEvidence, Over, Blank
    <3> QED BY <2>0, <2>4, <2>5, <3>4, <3>5 DEF RedactionInv, NothingLeaks
  <2>6. CASE mode = "redacted"
    <3> DEFINE Reported == IF hits = <<>> THEN <<>> ELSE [redactions |-> hits]
    <3>1. built = Over([mode |-> "redacted", digest |-> Text], Over(Reported, [text |-> text]))
      BY <2>6 DEF BuildEvidence, text
    <3> HIDE DEF built, hits
    <3>0. /\ DOMAIN Reported \subseteq {"redactions"}
          /\ hits = <<>> => DOMAIN Reported = {}
          /\ hits # <<>> => DOMAIN Reported = {"redactions"} /\ Reported["redactions"] = hits
      <4>1. DOMAIN <<>> = {}
        OBVIOUS
      <4> QED BY <4>1
    <3> HIDE DEF Reported
    <3>6. /\ DOMAIN built = {"mode", "digest", "text"} \cup DOMAIN Reported
          /\ built["text"] = text /\ built["mode"] = "redacted"
          /\ "redactions" \in DOMAIN Reported => built["redactions"] = Reported["redactions"]
      BY <3>0, <3>1 DEF Over
    <3>2. /\ built.text = text /\ built.mode = "redacted" /\ VerifyEvidence(built).redactions = hits
          /\ VerifyEvidence(built).text = text /\ VerifyEvidence(built).mode = "redacted"
      BY <3>0, <3>6 DEF Over, VerifyEvidence, Blank
    <3>3. text = RedactText(Text, hits)
      BY DEF text
    <3>4. CASE paper = built
      <4>1. ByteEqual(Text, outcome'.evidence) /\ outcome'.intact
        BY <2>4, <3>2, <3>3, <3>4 DEF ByteEqual
      <4>2. Hides(outcome'.evidence.text, found, Range(outcome'.evidence.redactions))
        BY <2>3, <2>4, <3>2, <3>4
      <4>3. outcome'.evidence.mode = "redacted"
        BY <2>4, <3>2, <3>4
      <4> QED BY <2>0, <2>4, <4>1, <4>2, <4>3 DEF RedactionInv, NothingLeaks
    <3>5. CASE paper # built
      <4>1. PICK i \in DOMAIN text : paper = [built EXCEPT !.text = RemoveAt(text, i)]
        BY <2>2, <3>2, <3>5
      <4>2. RemoveAt(text, i) # text
        BY <2>3, DamagedDiffers
      <4> HIDE DEF text
      <4>3. /\ VerifyEvidence(paper).text = RemoveAt(text, i)
            /\ VerifyEvidence(paper).redactions = hits
            /\ VerifyEvidence(paper).mode = "redacted"
        BY <3>0, <3>6, <4>1 DEF Over, VerifyEvidence, Blank
      <4>4. ~ByteEqual(Text, outcome'.evidence) /\ ~outcome'.intact
        BY <2>4, <3>3, <3>5, <4>2, <4>3 DEF ByteEqual
      <4>5. outcome'.evidence.mode = "redacted"
        BY <2>4, <4>3
      <4> QED BY <2>0, <2>4, <4>4, <4>5 DEF RedactionInv, NothingLeaks
    <3> QED BY <3>4, <3>5
  <2> QED BY <2>5, <2>6
<1> QED BY <1>1, <1>2 DEF RedactionNext

-----------------------------------------------------------------------------
(* Adapters *)

\* What is left of a list when what stays is one stretch of it.
LEMMA OmittingStretch ==
  ASSUME NEW X, NEW seq \in Seq(X), NEW set, NEW a \in Nat, NEW m \in Nat,
         Places(seq, set) = (a + 1)..(a + m)
  PROVE  LET out == Omitting(seq, set)
         IN  /\ out \in Seq(X) /\ Len(out) = m /\ DOMAIN out = 1..m
             /\ \A k \in 1..m : out[k] = seq[a + k]
<1> DEFINE out == Omitting(seq, set)
           S == Places(seq, set)
<1>1. Cardinality(S) = m /\ S \subseteq Nat
  BY FS_Interval
<1>2. /\ out \in Seq(X) /\ Len(out) = Cardinality(S)
      /\ \A k \in DOMAIN out : Nth(S, k) \in S /\ out[k] = seq[Nth(S, k)]
  BY OmittingKeeps
<1>3. S \subseteq 1..Len(seq) /\ Len(seq) \in Nat
  BY DEF Places
<1>4. \A k \in 1..m : Cardinality({i \in S : i <= Nth(S, k)}) = k
  BY <1>1, <1>3, Ranked
<1>5. ASSUME NEW k \in 1..m PROVE Nth(S, k) = a + k
  <2>1. PICK j \in (a + 1)..(a + m) : j = Nth(S, k)
    BY SMTT(30), <1>1, <1>2
  <2>2. {i \in S : i <= j} = (a + 1)..j
    BY <2>1
  <2>3. Cardinality((a + 1)..j) = j - a
    BY <2>1, FS_Interval
  <2>4. j - a = k
    BY <1>4, <2>1, <2>2, <2>3
  <2> QED BY <2>1, <2>4
<1> HIDE DEF S, out
<1>6. DOMAIN out = 1..m
  BY SMTT(30), <1>1, <1>2
<1> QED BY <1>1, <1>2, <1>5, <1>6 DEF out, S

Contented == [role : Speakers, content : Contents, texts : Seq(Nat)]

\* What one turn of JoinTexts does.
LEMMA JoiningTexts ==
  ASSUME NEW messages \in Seq(Contented), NEW t,
         t = [j \in DOMAIN messages |-> [texts \in Seq(Nat) |-> texts \o messages[j].texts]]
  PROVE  /\ Len(t) = Len(messages) /\ Len(messages) \in Nat /\ <<>> \in Seq(Nat)
         /\ \A k \in 1..Len(messages) : \A s \in Seq(Nat) :
              t[k][s] = s \o messages[k].texts /\ t[k][s] \in Seq(Nat)
<1>1. Len(messages) \in Nat /\ DOMAIN messages = 1..Len(messages) /\ <<>> \in Seq(Nat)
  BY LenProperties
<1>2. ASSUME NEW n \in Nat, n = Len(messages) PROVE Len(t) = n
  <2>1. t \in [1..n -> {t[k] : k \in 1..n}]
    BY <1>1, <1>2
  <2> QED BY <2>1, ListOf
<1>3. ASSUME NEW k \in 1..Len(messages), NEW s \in Seq(Nat)
      PROVE  t[k][s] = s \o messages[k].texts /\ t[k][s] \in Seq(Nat)
  <2>1. messages[k] \in Contented
    BY <1>1, ElementOfSeq
  <2>2. messages[k].texts \in Seq(Nat)
    BY <2>1 DEF Contented
  <2>3. t[k] = [texts \in Seq(Nat) |-> texts \o messages[k].texts]
    BY <1>1
  <2>4. t[k][s] = s \o messages[k].texts
    BY <2>3
  <2> QED BY <2>2, <2>4, ConcatProperties
<1> QED BY <1>1, <1>2, <1>3

\* The texts of no message, of one, and of several.
LEMMA TextsJoined ==
  /\ JoinTexts(<<>>) = <<>>
  /\ \A m \in Contented : JoinTexts(<<m>>) = m.texts
  /\ \A messages \in Seq(Contented) : JoinTexts(messages) \in Seq(Nat)
<1> DEFINE S == Seq(Nat)
           join(messages) == [j \in DOMAIN messages |-> [texts \in S |-> texts \o messages[j].texts]]
<1>1. JoinTexts(<<>>) = <<>>
  <2> DEFINE G == {<<0, <<>>>>}
             t == join(<<>>)
  <2>1. <<>> \in Seq(Contented) /\ Len(<<>>) = 0
    OBVIOUS
  <2>2. Len(t) = 0 /\ <<>> \in S
    BY <2>1, JoiningTexts
  <2> HIDE DEF t, S
  <2>3. <<0, <<>>>> \in G /\ Len(t) \in Nat
        /\ \A k \in 1..Len(t) : \A s \in S : <<k - 1, s>> \in G => t[k][s] \in S /\ <<k, t[k][s]>> \in G
    BY <2>2
  <2> HIDE DEF G
  <2>4. <<Len(t), Looped(t, <<>>)>> \in G
    BY <2>2, <2>3, LoopKeeps
  <2>5. <<0, Looped(t, <<>>)>> \in G
    BY <2>2, <2>4
  <2>6. Looped(t, <<>>) = <<>>
    BY <2>5 DEF G
  <2> QED BY <2>6 DEF JoinTexts, t, S
<1>2. ASSUME NEW m \in Contented PROVE JoinTexts(<<m>>) = m.texts
  <2> DEFINE G == {<<0, <<>>>>, <<1, m.texts>>}
             t == join(<<m>>)
  <2>1. <<m>> \in Seq(Contented) /\ Len(<<m>>) = 1 /\ <<m>>[1] = m /\ m.texts \in S
    BY DEF Contented
  <2>2. Len(t) = 1 /\ <<>> \in S /\ \A k \in 1..1 : \A s \in S : t[k][s] = s \o m.texts
    BY <2>1, JoiningTexts
  <2> HIDE DEF t
  <2>3. ASSUME NEW k \in 1..1, NEW s \in S, <<k - 1, s>> \in G
        PROVE  t[k][s] \in S /\ <<k, t[k][s]>> \in G
    <3>1. k = 1 /\ s = <<>>
      BY <2>3
    <3>2. t[k][s] = <<>> \o m.texts
      BY <2>2, <3>1
    <3>3. <<>> \o m.texts = m.texts
      BY <2>1, ConcatEmptySeq
    <3> QED BY <2>1, <3>1, <3>2, <3>3
  <2> HIDE DEF S
  <2>4. <<0, <<>>>> \in G /\ Len(t) \in Nat
        /\ \A k \in 1..Len(t) : \A s \in S : <<k - 1, s>> \in G => t[k][s] \in S /\ <<k, t[k][s]>> \in G
    BY <2>2, <2>3
  <2> HIDE DEF G
  <2>5. <<Len(t), Looped(t, <<>>)>> \in G
    BY <2>2, <2>4, LoopKeeps
  <2>6. <<1, Looped(t, <<>>)>> \in G
    BY <2>2, <2>5
  <2>7. Looped(t, <<>>) = m.texts
    BY <2>6 DEF G
  <2> QED BY <2>7 DEF JoinTexts, t, S
<1>3. ASSUME NEW messages \in Seq(Contented) PROVE JoinTexts(messages) \in S
  <2> DEFINE t == join(messages)
             n == Len(messages)
             G == (0..n) \X S
  <2>1. n \in Nat /\ Len(t) = n /\ <<>> \in S /\ \A k \in 1..n : \A s \in S : t[k][s] \in S
    BY JoiningTexts
  <2> HIDE DEF t, S
  <2>2. <<0, <<>>>> \in G /\ \A k \in 1..n : \A s \in S : <<k, t[k][s]>> \in G
    BY <2>1
  <2> HIDE DEF G
  <2>3. Looped(t, <<>>) \in S
    BY <2>1, <2>2, LoopKeeps
  <2> QED BY <2>3 DEF JoinTexts, t, S
<1> QED BY <1>1, <1>2, <1>3

LEMMA RoleOfPlace ==
  ASSUME NEW messages, NEW roles, NEW j \in DOMAIN messages
  PROVE  messages[j] \in InRole(messages, roles) <=> messages[j].role \in roles
  BY DEF InRole

\* The turns of a conversation are its messages that are not the system's; if
\* all are, nothing goes.
LEMMA TurnsStay ==
  ASSUME NEW messages \in Seq(Contented)
  PROVE  /\ Turns(messages) \in Seq(Contented)
         /\ \A k \in DOMAIN Turns(messages) :
              /\ Turns(messages)[k].role # "system"
              /\ \E j \in DOMAIN messages : Turns(messages)[k] = messages[j]
         /\ (\A j \in DOMAIN messages : messages[j].role # "system") => Turns(messages) = messages
<1> DEFINE set == InRole(messages, {"system"})
           out == Omitting(messages, set)
<1>0. \A j \in DOMAIN messages : messages[j] \in set <=> messages[j].role = "system"
  BY RoleOfPlace
<1> HIDE DEF set
<1>1. out \in Seq(Contented)
      /\ {out[k] : k \in DOMAIN out} = {messages[j] : j \in DOMAIN messages} \ set
  <2>1. /\ out \in Seq(Contented)
        /\ {out[k] : k \in DOMAIN out} = {messages[j] : j \in DOMAIN messages} \ set
        /\ (\A i, j \in DOMAIN messages : messages[i] = messages[j] => i = j)
             => (\A k, l \in DOMAIN out : out[k] = out[l] => k = l)
    BY OmittingElements
  <2> QED BY <2>1
<1>2. ASSUME NEW k \in DOMAIN out
      PROVE  out[k].role # "system" /\ \E j \in DOMAIN messages : out[k] = messages[j]
  <2>1. out[k] \in {messages[j] : j \in DOMAIN messages} /\ out[k] \notin set
    BY <1>1
  <2>2. PICK j \in DOMAIN messages : out[k] = messages[j]
    BY <2>1
  <2>3. messages[j].role # "system"
    BY <1>0, <2>1, <2>2
  <2> QED BY <2>2, <2>3
<1>3. ASSUME \A j \in DOMAIN messages : messages[j].role # "system" PROVE out = messages
  <2>1. Len(messages) \in Nat /\ DOMAIN messages = 1..Len(messages)
    BY LenProperties
  <2>2. ASSUME NEW a \in Nat, a = 0
        PROVE  Len(out) = Len(messages) /\ \A k \in 1..Len(messages) : out[k] = messages[a + k]
    <3>1. Places(messages, set) = (a + 1)..(a + Len(messages))
      BY <1>0, <1>3, <2>1, <2>2 DEF Places
    <3> QED BY <2>1, <3>1, OmittingStretch
  <2>3. Len(out) = Len(messages) /\ \A k \in 1..Len(messages) : out[k] = messages[0 + k]
    BY <2>2
  <2>4. \A k \in 1..Len(out) : out[k] = messages[k]
    BY <2>1, <2>3
  <2> HIDE DEF out
  <2> QED BY <1>1, <2>3, <2>4, SeqEqual
<1> QED BY <1>1, <1>2, <1>3 DEF Turns, set

\* A conversation that begins with the system's messages comes apart again.
LEMMA SystemApart ==
  ASSUME NEW system \in Seq(Contented), \A j \in DOMAIN system : system[j].role = "system",
         NEW turns \in Seq(Contented), \A j \in DOMAIN turns : turns[j].role # "system"
  PROVE  LET messages == system \o turns
         IN  /\ messages \in Seq(Contented)
             /\ Turns(messages) = turns
             /\ Omitting(messages, InRole(messages, Speakers \ {"system"})) = system
<1> DEFINE messages == system \o turns
           a == Len(system)
           m == Len(turns)
<1>1. a \in Nat /\ m \in Nat /\ DOMAIN system = 1..a /\ DOMAIN turns = 1..m
  BY LenProperties
<1>2. messages \in Seq(Contented) /\ Len(messages) = a + m
      /\ \A i \in 1..(a + m) : messages[i] = IF i <= a THEN system[i] ELSE turns[i - a]
  BY ConcatProperties
<1>3. DOMAIN messages = 1..(a + m)
  BY <1>2, LenProperties
<1> HIDE DEF messages
<1>4. ASSUME NEW i \in 1..(a + m)
      PROVE  messages[i].role = "system" <=> i <= a
  <2>1. CASE i <= a
    BY <1>1, <1>2, <2>1
  <2>2. CASE i > a
    <3>1. messages[i] = turns[i - a] /\ i - a \in 1..m
      BY <1>1, <1>2, <2>2
    <3> QED BY <1>1, <2>2, <3>1
  <2> QED BY <1>1, <2>1, <2>2
<1>5. ASSUME NEW i \in 1..(a + m) PROVE messages[i].role \in Speakers
  <2>1. messages[i] \in Contented
    BY <1>2, ElementOfSeq
  <2> QED BY <2>1 DEF Contented
<1>6. Turns(messages) = turns
  <2> DEFINE set == InRole(messages, {"system"})
             out == Omitting(messages, set)
  <2>1. \A i \in 1..(a + m) : messages[i] \notin set <=> i > a
    <3>1. ASSUME NEW i \in 1..(a + m) PROVE messages[i] \in set <=> messages[i].role = "system"
      <4>1. i \in DOMAIN messages
        BY <1>3
      <4>2. messages[i] \in set <=> messages[i].role \in {"system"}
        BY <4>1, RoleOfPlace
      <4> QED BY <4>2
    <3> QED BY <1>1, <1>4, <3>1
  <2> HIDE DEF set
  <2>2. Places(messages, set) = (a + 1)..(a + m)
    BY <1>1, <1>3, <2>1 DEF Places
  <2>3. out \in Seq(Contented) /\ Len(out) = m /\ \A k \in 1..m : out[k] = messages[a + k]
    BY <1>1, <1>2, <2>2, OmittingStretch
  <2> HIDE DEF out
  <2>4. \A k \in 1..m : out[k] = turns[k]
    BY <1>1, <1>2, <2>3
  <2>5. out = turns
    BY <2>3, <2>4, SeqEqual
  <2> QED BY <2>5 DEF out, set, Turns
<1>7. Omitting(messages, InRole(messages, Speakers \ {"system"})) = system
  <2> DEFINE set == InRole(messages, Speakers \ {"system"})
             out == Omitting(messages, set)
  <2>1. \A i \in 1..(a + m) : messages[i] \notin set <=> i <= a
    <3>1. \A i \in 1..(a + m) : messages[i] \in set <=> messages[i].role \in Speakers \ {"system"}
      BY <1>3, RoleOfPlace
    <3> QED BY <1>1, <1>4, <1>5, <3>1
  <2> HIDE DEF set
  <2>2. ASSUME NEW b \in Nat, b = 0
        PROVE  out \in Seq(Contented) /\ Len(out) = a /\ \A k \in 1..a : out[k] = messages[b + k]
    <3>1. Places(messages, set) = (b + 1)..(b + a)
      BY <1>1, <1>3, <2>1, <2>2 DEF Places
    <3> HIDE DEF out
    <3>2. ASSUME NEW some, Places(messages, some) = (b + 1)..(b + a)
          PROVE  /\ Omitting(messages, some) \in Seq(Contented) /\ Len(Omitting(messages, some)) = a
                 /\ \A k \in 1..a : Omitting(messages, some)[k] = messages[b + k]
      BY <1>1, <1>2, <3>2, OmittingStretch
    <3> QED BY <3>1, <3>2 DEF out
  <2>3. out \in Seq(Contented) /\ Len(out) = a /\ \A k \in 1..a : out[k] = messages[0 + k]
    BY <2>2
  <2> HIDE DEF out
  <2>4. \A k \in 1..a : out[k] = system[k]
    BY SMTT(30), <1>1, <1>2, <2>3
  <2>5. out = system
    BY <2>3, <2>4, SeqEqual
  <2> QED BY <2>5 DEF out, set
<1> QED BY <1>2, <1>6, <1>7 DEF messages

\* The texts of the system, joined into one message or none.
LEMMA SystemJoined ==
  ASSUME NEW messages \in Seq(Contented), NEW system, system = JoinSystem(messages)
  PROVE  system = <<>> \/ \E m \in Contented : system = <<m>> /\ m.role = "system" /\ m.content = "text"
<1> DEFINE parts == Omitting(messages, InRole(messages, Speakers \ {"system"}))
           m == Message("system", "text", JoinTexts(parts))
<1>1. parts \in Seq(Contented)
  <2> DEFINE set == InRole(messages, Speakers \ {"system"})
  <2> HIDE DEF set
  <2>1. Omitting(messages, set) \in Seq(Contented)
    BY OmittingElements
  <2> QED BY <2>1 DEF set
<1>2. JoinTexts(parts) \in Seq(Nat)
  BY <1>1, TextsJoined
<1> HIDE DEF parts
<1>3. m \in Contented /\ m.role = "system" /\ m.content = "text"
  BY <1>2 DEF Contented, Message, Speakers, Contents
<1>4. system = IF parts = <<>> THEN <<>> ELSE <<m>>
  BY DEF JoinSystem, parts
<1> HIDE DEF m
<1> QED BY <1>3, <1>4

\* Requests of either provider, as far as conversions look at them.
OpenAIAsk(r) == r.provider = "openai" /\ r.messages \in Seq(Contented)
AnthropicAsk(r) ==
  /\ r.provider = "anthropic" /\ r.messages \in Seq(Contented) /\ r.stop # "bad"
  /\ r.system = <<>> \/ \E m \in Contented : r.system = <<m>> /\ m.role = "system"

\* What is converted is valid, asks for the same and can be converted back.
LEMMA ToAnthropic ==
  ASSUME NEW d, NEW r, OpenAIAsk(r), NEW out, out = OpenAIToAnthropic(r, d), out # Refusal
  PROVE  AnthropicAsk(out) /\ Valid(out) /\ Asks(out, d) = Asks(r, d) /\ AnthropicToOpenAI(out) # Refusal
<1> DEFINE system == JoinSystem(r.messages)
           turns == Turns(r.messages)
<1>1. /\ out = [provider |-> "anthropic", model |-> r.model, system |-> system, messages |-> turns,
                max_tokens |-> MaxTokens(r, d), stop |-> StopList(r.stop), tools |-> r.tools]
      /\ \A j \in DOMAIN r.messages :
           /\ r.messages[j].role \in {"system", "user", "assistant"}
           /\ r.messages[j].content = "text"
      /\ r.stop # "bad" /\ ConvertibleTools(r.tools) /\ ValidAnthropic(out)
  BY DEF OpenAIToAnthropic
<1>2. r.messages \in Seq(Contented) /\ r.provider = "openai"
  BY DEF OpenAIAsk
<1>3. system = <<>> \/ \E m \in Contented : system = <<m>> /\ m.role = "system" /\ m.content = "text"
  BY <1>2, SystemJoined
<1>4. /\ turns \in Seq(Contented)
      /\ \A k \in DOMAIN turns :
           turns[k].role # "system" /\ \E j \in DOMAIN r.messages : turns[k] = r.messages[j]
  BY <1>2, TurnsStay
<1>5. Turns(turns) = turns
  BY <1>4, TurnsStay
<1> HIDE DEF system, turns
<1>6. /\ out.provider = "anthropic" /\ out.model = r.model /\ out.system = system
      /\ out.messages = turns /\ out.max_tokens = MaxTokens(r, d) /\ out.stop = StopList(r.stop)
      /\ out.tools = r.tools
  BY <1>1
<1>7. AnthropicAsk(out)
  BY <1>1, <1>3, <1>4, <1>6 DEF AnthropicAsk, StopList
<1>8. Valid(out)
  BY <1>1, <1>6 DEF Valid
<1>9. Asks(out, d) = Asks(r, d)
  <2>1. StopList(out.stop) = StopList(r.stop)
    BY <1>6 DEF StopList
  <2>2. Turns(out.messages) = Turns(r.messages)
    BY <1>5, <1>6 DEF turns
  <2>3. out.system = JoinSystem(r.messages) /\ out.provider # "openai"
    BY <1>6 DEF system
  <2> QED BY <1>2, <1>6, <2>1, <2>2, <2>3 DEF Asks
<1>10. AnthropicToOpenAI(out) # Refusal
  <2>1. \A j \in DOMAIN out.system : out.system[j].content = "text"
    BY <1>3, <1>6
  <2>2. \A j \in DOMAIN out.messages : out.messages[j].content \in {"text", "blocks"}
    BY <1>1, <1>4, <1>6
  <2>3. AnthropicToOpenAI(out).provider = "openai"
    BY <1>1, <1>6, <2>1, <2>2 DEF AnthropicToOpenAI
  <2> QED BY <2>3 DEF Refusal
<1> QED BY <1>7, <1>8, <1>9, <1>10

LEMMA ToOpenAI ==
  ASSUME NEW d, NEW r, AnthropicAsk(r), NEW out, out = AnthropicToOpenAI(r), out # Refusal
  PROVE  OpenAIAsk(out) /\ Valid(out) /\ Asks(out, d) = Asks(r, d) /\ OpenAIToAnthropic(out, d) # Refusal
<1> DEFINE system == r.system
           turns == [j \in DOMAIN r.messages |-> [r.messages[j] EXCEPT !.content = "text"]]
           messages == system \o turns
<1>1. /\ out = [provider |-> "openai", model |-> r.model, messages |-> messages,
                max_tokens |-> r.max_tokens, max_completion_tokens |-> NoParam,
                stop |-> r.stop, tools |-> r.tools]
      /\ \A j \in DOMAIN system : system[j].content = "text"
      /\ \A j \in DOMAIN r.messages : r.messages[j].content \in {"text", "blocks"}
      /\ ConvertibleTools(r.tools) /\ ValidAnthropic(r)
  BY DEF AnthropicToOpenAI
<1>2. /\ r.provider = "anthropic" /\ r.messages \in Seq(Contented) /\ r.stop # "bad"
      /\ system = <<>> \/ \E m \in Contented : system = <<m>> /\ m.role = "system"
  BY DEF AnthropicAsk
<1>3. system \in Seq(Contented) /\ \A j \in DOMAIN system : system[j].role = "system"
  <2>1. CASE system = <<>>
    <3>1. <<>> \in Seq(Contented) /\ DOMAIN <<>> = {}
      OBVIOUS
    <3> HIDE DEF system
    <3> QED BY <2>1, <3>1
  <2>2. CASE system # <<>>
    <3>1. PICK m \in Contented : system = <<m>> /\ m.role = "system"
      BY <1>2, <2>2
    <3>2. <<m>> \in Seq(Contented) /\ DOMAIN <<m>> = 1..1 /\ <<m>>[1] = m
      OBVIOUS
    <3> HIDE DEF system
    <3> QED BY <3>1, <3>2
  <2> QED BY <2>1, <2>2
<1>4. \A j \in DOMAIN r.messages : r.messages[j].role \in {"user", "assistant"}
  BY <1>1 DEF ValidAnthropic
<1>5. /\ turns \in Seq(Contented) /\ DOMAIN turns = DOMAIN r.messages
      /\ \A j \in DOMAIN turns :
           /\ turns[j].role = r.messages[j].role /\ turns[j].texts = r.messages[j].texts
           /\ turns[j].content = "text"
  <2>1. Len(r.messages) \in Nat /\ DOMAIN r.messages = 1..Len(r.messages)
    BY <1>2, LenProperties
  <2>2. ASSUME NEW j \in 1..Len(r.messages)
        PROVE  /\ turns[j] \in Contented /\ turns[j].role = r.messages[j].role
               /\ turns[j].texts = r.messages[j].texts /\ turns[j].content = "text"
    <3>1. r.messages[j] \in Contented
      BY <1>2, ElementOfSeq
    <3> QED BY <2>1, <3>1 DEF Contented, Contents
  <2>3. turns \in [1..Len(r.messages) -> Contented]
    BY <2>1, <2>2
  <2>4. turns \in Seq(Contented)
    BY <2>1, <2>3, ListOf
  <2> QED BY <2>1, <2>2, <2>4
<1>6. \A j \in DOMAIN turns : turns[j].role # "system"
  BY <1>4, <1>5
<1> HIDE DEF turns, system
<1>7. /\ messages \in Seq(Contented) /\ Turns(messages) = turns
      /\ Omitting(messages, InRole(messages, Speakers \ {"system"})) = system
  BY <1>3, <1>5, <1>6, SystemApart
<1>8. Turns(r.messages) = r.messages
  BY <1>2, <1>4, TurnsStay
<1>9. JoinTexts(JoinSystem(messages)) = JoinTexts(system)
  <2>1. JoinSystem(messages)
          = IF system = <<>> THEN <<>> ELSE <<Message("system", "text", JoinTexts(system))>>
    BY <1>7 DEF JoinSystem
  <2>2. JoinTexts(system) \in Seq(Nat)
    BY <1>3, TextsJoined
  <2>3. Message("system", "text", JoinTexts(system)) \in Contented
        /\ Message("system", "text", JoinTexts(system)).texts = JoinTexts(system)
    BY <2>2 DEF Message, Contented, Speakers, Contents
  <2>4. JoinTexts(<<Message("system", "text", JoinTexts(system))>>) = JoinTexts(system)
    BY <2>3, TextsJoined
  <2> QED BY <2>1, <2>4
<1> HIDE DEF messages
<1>10. /\ out.provider = "openai" /\ out.model = r.model /\ out.messages = messages
       /\ out.max_tokens = r.max_tokens /\ out.max_completion_tokens = NoParam
       /\ out.stop = r.stop /\ out.tools = r.tools
  BY <1>1
<1>11. MaxTokens(out, d) = r.max_tokens /\ r.max_tokens \notin {NoParam, 0} /\ r.model # ""
  <2>1. r.max_tokens \notin {NoParam, 0} /\ r.model # ""
    BY <1>1 DEF ValidAnthropic
  <2>2. out.max_tokens # NoParam
    BY <1>10, <2>1
  <2> QED BY <1>10, <2>1, <2>2 DEF MaxTokens
<1>12. OpenAIAsk(out) /\ Valid(out)
  BY <1>7, <1>10, <1>11 DEF OpenAIAsk, Valid, ValidOpenAI
<1>13. Asks(out, d) = Asks(r, d)
  <2>1. [j \in DOMAIN turns |-> [role |-> turns[j].role, texts |-> turns[j].texts]]
          = [j \in DOMAIN r.messages |-> [role |-> r.messages[j].role, texts |-> r.messages[j].texts]]
    BY <1>5
  <2>2. r.provider # "openai" /\ r.system = system
    BY <1>2 DEF system
  <2> QED BY <1>7, <1>8, <1>9, <1>10, <1>11, <2>1, <2>2 DEF Asks
<1>14. OpenAIToAnthropic(out, d) # Refusal
  <2>1. ASSUME NEW j \in DOMAIN out.messages
        PROVE  /\ out.messages[j].role \in {"system", "user", "assistant"}
               /\ out.messages[j].content = "text"
    <3>1. PICK a \in Nat, m \in Nat : a = Len(system) /\ m = Len(turns)
                                     /\ DOMAIN system = 1..a /\ DOMAIN turns = 1..m
      BY <1>3, <1>5, LenProperties
    <3>2. j \in 1..(a + m) /\ messages[j] = IF j <= a THEN system[j] ELSE turns[j - a]
      BY <1>3, <1>5, <1>7, <1>10, <2>1, <3>1, ConcatProperties, LenProperties DEF messages
    <3>3. CASE j <= a
      <4>1. messages[j] = system[j] /\ j \in DOMAIN system
        BY <3>1, <3>2, <3>3
      <4> QED BY <1>1, <1>3, <1>10, <4>1
    <3>4. CASE ~(j <= a)
      <4>1. messages[j] = turns[j - a] /\ j - a \in DOMAIN turns
        BY <3>1, <3>2, <3>4
      <4> QED BY <1>4, <1>5, <1>10, <4>1
    <3> QED BY <3>3, <3>4
  <2> DEFINE output ==
               [provider |-> "anthropic", model |-> out.model,
                system |-> JoinSystem(out.messages), messages |-> Turns(out.messages),
                max_tokens |-> MaxTokens(out, d),
                stop |-> StopList(out.stop), tools |-> out.tools]
  <2>2. output.model = r.model /\ output.max_tokens = r.max_tokens /\ output.messages = turns
    BY <1>7, <1>10, <1>11
  <2>3. ValidAnthropic(output)
    BY <1>4, <1>5, <1>11, <2>2 DEF ValidAnthropic
  <2>4. OpenAIToAnthropic(out, d) = output
    BY <1>1, <1>2, <1>10, <1>11, <2>1, <2>3 DEF OpenAIToAnthropic, ValidOpenAI
  <2>5. output.provider = "anthropic"
    OBVIOUS
  <2> QED BY <2>4, <2>5 DEF Refusal
<1> QED BY <1>12, <1>13, <1>14

\* What was asked, and what it was turned into so far.
AdaptersInv ==
  /\ OpenAIAsk(asked) \/ AnthropicAsk(asked)
  /\ \/ sent = <<>>
     \/ sent = <<Converted(asked, default)>>
     \/ /\ sent = <<Converted(asked, default), Converted(Converted(asked, default), default)>>
        /\ Converted(asked, default) # Refusal

LEMMA ConvertedKeeps ==
  ASSUME NEW d, NEW r, OpenAIAsk(r) \/ AnthropicAsk(r), NEW out, out = Converted(r, d), out # Refusal
  PROVE  /\ OpenAIAsk(out) \/ AnthropicAsk(out)
         /\ Valid(out) /\ Asks(out, d) = Asks(r, d) /\ Converted(out, d) # Refusal
<1>1. CASE OpenAIAsk(r)
  <2>1. out = OpenAIToAnthropic(r, d)
    BY <1>1 DEF Converted, OpenAIAsk
  <2>2. AnthropicAsk(out) /\ Valid(out) /\ Asks(out, d) = Asks(r, d) /\ AnthropicToOpenAI(out) # Refusal
    BY <1>1, <2>1, ToAnthropic
  <2>3. Converted(out, d) = AnthropicToOpenAI(out)
    BY <2>2 DEF Converted, AnthropicAsk
  <2> QED BY <2>2, <2>3
<1>2. CASE AnthropicAsk(r)
  <2>1. out = AnthropicToOpenAI(r)
    BY <1>2 DEF Converted, AnthropicAsk
  <2>2. OpenAIAsk(out) /\ Valid(out) /\ Asks(out, d) = Asks(r, d) /\ OpenAIToAnthropic(out, d) # Refusal
    BY <1>2, <2>1, ToOpenAI
  <2>3. Converted(out, d) = OpenAIToAnthropic(out, d)
    BY <2>2 DEF Converted, OpenAIAsk
  <2> QED BY <2>2, <2>3
<1> QED BY <1>1, <1>2

LEMMA AdaptersKept == ASSUME AdaptersInv PROVE ConversionKeeps
<1> DEFINE one == Converted(asked, default)
           two == Converted(one, default)
<1>1. OpenAIAsk(asked) \/ AnthropicAsk(asked)
  BY DEF AdaptersInv
<1>2. one # Refusal => /\ OpenAIAsk(one) \/ AnthropicAsk(one)
                       /\ Valid(one) /\ Asks(one, default) = Asks(asked, default) /\ two # Refusal
  BY <1>1, ConvertedKeeps
<1>3. one # Refusal => Valid(two) /\ Asks(two, default) = Asks(asked, default)
  <2> HIDE DEF one
  <2>1. ASSUME one # Refusal
        PROVE  Valid(two) /\ Asks(two, default) = Asks(one, default)
    BY <1>2, <2>1, ConvertedKeeps
  <2> QED BY <1>2, <2>1
<1>4. sent = <<>> \/ sent = <<one>> \/ (sent = <<one, two>> /\ one # Refusal)
  BY DEF AdaptersInv
<1> HIDE DEF one, two
<1>5. CASE sent = <<>>
  BY <1>5 DEF ConversionKeeps
<1>6. CASE sent = <<one>>
  <2>1. DOMAIN sent = {1} /\ sent[1] = one /\ Len(sent) = 1
    BY <1>6
  <2> QED BY <1>2, <2>1 DEF ConversionKeeps
<1>7. CASE sent = <<one, two>> /\ one # Refusal
  <2>1. DOMAIN sent = {1, 2} /\ sent[1] = one /\ sent[2] = two
    BY <1>7
  <2> QED BY <1>2, <1>3, <1>7, <2>1 DEF ConversionKeeps
<1> QED BY <1>4, <1>5, <1>6, <1>7

LEMMA ConversationsContented ==
  ASSUME NEW roles, roles \subseteq Speakers, NEW contents, contents \subseteq Contents,
         NEW messages \in MessageLists(roles, contents)
  PROVE  messages \in Seq(Contented)
<1>1. PICK shape \in UNION {[1..n -> roles \X contents] : n \in 0..MaxMessages} :
        messages = [j \in DOMAIN shape |-> Message(shape[j][1], shape[j][2], <<j>>)]
  BY DEF MessageLists
<1>2. PICK n \in 0..MaxMessages : shape \in [1..n -> roles \X contents]
  BY <1>1
<1>3. n \in Nat /\ DOMAIN shape = 1..n
  BY <1>2, AdaptersAssumption
<1>4. ASSUME NEW j \in 1..n PROVE Message(shape[j][1], shape[j][2], <<j>>) \in Contented
  <2>1. shape[j][1] \in Speakers /\ shape[j][2] \in Contents /\ <<j>> \in Seq(Nat)
    BY <1>2, <1>3
  <2> QED BY <2>1 DEF Message, Contented
<1>5. messages \in [1..n -> Contented]
  BY <1>1, <1>3, <1>4
<1> QED BY <1>3, <1>5, ListOf

LEMMA AdaptersStarts == ASSUME AdaptersInit PROVE AdaptersInv
<1>1. asked \in OpenAIRequests \cup AnthropicRequests /\ sent = <<>>
  BY DEF AdaptersInit
<1>2. CASE asked \in OpenAIRequests
  <2>1. asked.provider = "openai"
        /\ asked.messages \in MessageLists(Speakers, {"text", "blocks", "tool_calls"})
    BY <1>2 DEF OpenAIRequests
  <2>2. asked.messages \in Seq(Contented)
    <3>1. {"text", "blocks", "tool_calls"} \subseteq Contents
      BY DEF Contents
    <3> QED BY <2>1, <3>1, ConversationsContented
  <2> QED BY <1>1, <2>1, <2>2 DEF AdaptersInv, OpenAIAsk
<1>3. CASE asked \in AnthropicRequests
  <2>1. /\ asked.provider = "anthropic" /\ asked.stop \in {NoParam, "list"}
        /\ asked.messages \in MessageLists({"user", "assistant", "system"}, {"text", "blocks", "more"})
        /\ asked.system \in {<<>>} \cup {<<Message("system", content, <<0>>)>> : content \in {"text", "blocks"}}
    BY <1>3 DEF AnthropicRequests
  <2>2. asked.messages \in Seq(Contented)
    <3>1. {"text", "blocks", "more"} \subseteq Contents /\ {"user", "assistant", "system"} \subseteq Speakers
      BY DEF Contents, Speakers
    <3> QED BY <2>1, <3>1, ConversationsContented
  <2>3. asked.system = <<>> \/ \E m \in Contented : asked.system = <<m>> /\ m.role = "system"
    <3>1. ASSUME NEW content \in {"text", "blocks"}
          PROVE  Message("system", content, <<0>>) \in Contented
                 /\ Message("system", content, <<0>>).role = "system"
      BY DEF Message, Contented, Contents, Speakers
    <3> QED BY <2>1, <3>1
  <2>4. asked.stop # "bad"
    BY <2>1, AdaptersAssumption
  <2> QED BY <1>1, <2>1, <2>2, <2>3, <2>4 DEF AdaptersInv, AnthropicAsk
<1> QED BY <1>1, <1>2, <1>3

LEMMA AdaptersKeeps == ASSUME AdaptersInv, AdaptersNext PROVE AdaptersInv'
<1> DEFINE one == Converted(asked, default)
<1>1. /\ sent = <<>> \/ (Len(sent) = 1 /\ sent[1] # Refusal)
      /\ sent' = Append(sent, Converted(IF sent = <<>> THEN asked ELSE sent[1], default))
      /\ asked' = asked /\ default' = default
  BY DEF AdaptersNext, Translate
<1>2. CASE sent = <<>>
  <2>1. sent' = Append(<<>>, one)
    BY <1>1, <1>2
  <2>2. sent' = <<one>>
    <3> HIDE DEF one
    <3> QED BY <2>1
  <2> QED BY <1>1, <2>2 DEF AdaptersInv
<1>3. CASE Len(sent) = 1 /\ sent[1] # Refusal
  <2>1. sent = <<one>> /\ one # Refusal
    <3> DEFINE two == Converted(one, default)
    <3>1. sent = <<>> \/ sent = <<one>> \/ sent = <<one, two>>
      BY DEF AdaptersInv
    <3> HIDE DEF one, two
    <3>2. Len(<<>>) = 0 /\ Len(<<one, two>>) = 2 /\ <<one>>[1] = one
      OBVIOUS
    <3>3. sent = <<one>>
      BY <1>3, <3>1, <3>2
    <3> QED BY <1>3, <3>2, <3>3
  <2>2. sent' = Append(<<one>>, Converted(one, default))
    <3> HIDE DEF one
    <3> QED BY <1>1, <2>1
  <2>3. sent' = <<one, Converted(one, default)>>
    <3>1. ASSUME NEW x, NEW y PROVE Append(<<x>>, y) = <<x, y>>
      <4>1. <<x>> \in Seq({x, y}) /\ <<x, y>> \in Seq({x, y}) /\ Len(<<x>>) = 1 /\ Len(<<x, y>>) = 2
        OBVIOUS
      <4>2. /\ Append(<<x>>, y) \in Seq({x, y}) /\ Len(Append(<<x>>, y)) = 2
            /\ \A i \in 1..2 : Append(<<x>>, y)[i] = <<x, y>>[i]
        BY <4>1, AppendProperties
      <4> QED BY <4>1, <4>2, SeqEqual
    <3> QED BY <2>2, <3>1
  <2>4. one' = one
    BY <1>1 DEF Converted
  <2>5. sent' = <<one', Converted(one', default')>> /\ one' # Refusal
    <3> HIDE DEF one
    <3> QED BY <1>1, <2>1, <2>3, <2>4
  <2>6. OpenAIAsk(asked') \/ AnthropicAsk(asked')
    BY <1>1 DEF AdaptersInv
  <2> QED BY <2>5, <2>6 DEF AdaptersInv
<1> QED BY <1>1, <1>2, <1>3

LEMMA AdaptersRests == ASSUME AdaptersInv, UNCHANGED adaptersVars PROVE AdaptersInv'
  BY DEF AdaptersInv, adaptersVars

-----------------------------------------------------------------------------
(* Sse *)

\* A delimiter, byte by byte.
Ends2(x, p) == p + 1 <= Len(x) /\ ((x[p] = Lf /\ x[p + 1] = Lf) \/ (x[p] = Cr /\ x[p + 1] = Cr))
Ends4(x, p) == p + 3 <= Len(x) /\ x[p] = Cr /\ x[p + 1] = Lf /\ x[p + 2] = Cr /\ x[p + 3] = Lf

LEMMA BoundaryBytes ==
  ASSUME NEW x \in Seq(Byte), NEW p \in Nat, p > 0
  PROVE  /\ <<p, 2>> \in Boundaries(x) <=> Ends2(x, p)
         /\ <<p, 4>> \in Boundaries(x) <=> Ends4(x, p)
<1>1. Len(x) \in Nat /\ DOMAIN x = 1..Len(x) /\ \A i \in 1..Len(x) : x[i] \in Byte
  BY LenProperties, ElementOfSeq
<1>2. \A b : b \in Boundaries(x) <=>
        /\ b \in (1..Len(x)) \X {2, 4} /\ b[1] + b[2] - 1 <= Len(x)
        /\ SubSeq(x, b[1], b[1] + b[2] - 1) \in Delimiters
  BY DEF Boundaries
<1>3. ASSUME NEW w \in {2, 4}, p + w - 1 <= Len(x)
      PROVE  LET s == SubSeq(x, p, p + w - 1)
             IN  s \in Seq(Byte) /\ Len(s) = w /\ \A i \in 1..w : s[i] = x[p + i - 1]
  <2>1. \A i \in p..(p + w - 1) : x[i] \in Byte
    BY <1>1, <1>3
  <2> QED BY <1>1, <1>3, <2>1, SubSeqProperties
<1>4. <<p, 2>> \in Boundaries(x) <=> Ends2(x, p)
  <2> DEFINE s == SubSeq(x, p, p + 2 - 1)
  <2>1. <<p, 2>> \in Boundaries(x) <=> p + 2 - 1 <= Len(x) /\ s \in Delimiters
    BY <1>1, <1>2
  <2>2. ASSUME p + 2 - 1 <= Len(x)
        PROVE  s \in Delimiters <=> ((x[p] = Lf /\ x[p + 1] = Lf) \/ (x[p] = Cr /\ x[p + 1] = Cr))
    <3>1. s \in Seq(Byte) /\ Len(s) = 2 /\ \A i \in 1..2 : s[i] = x[p + i - 1]
      BY <1>3, <2>2
    <3>2. s[1] = x[p] /\ s[2] = x[p + 1]
      BY <3>1
    <3> HIDE DEF s
    <3>3. s \in Delimiters <=> s = <<Lf, Lf>> \/ s = <<Cr, Cr>>
      <4>1. Len(<<Cr, Lf, Cr, Lf>>) = 4
        OBVIOUS
      <4> QED BY <3>1, <4>1 DEF Delimiters
    <3>4. ASSUME NEW c \in Byte PROVE s = <<c, c>> <=> s[1] = c /\ s[2] = c
      <4>1. <<c, c>> \in Seq(Byte) /\ Len(<<c, c>>) = 2 /\ <<c, c>>[1] = c /\ <<c, c>>[2] = c
        OBVIOUS
      <4>2. ASSUME s[1] = c, s[2] = c PROVE s = <<c, c>>
        <5>1. \A i \in 1..Len(s) : s[i] = <<c, c>>[i]
          BY <3>1, <4>1, <4>2
        <5> QED BY <3>1, <4>1, <5>1, SeqEqual
      <4> QED BY <4>1, <4>2
    <3>5. Lf \in Byte /\ Cr \in Byte
      BY DEF Byte
    <3>6. /\ s = <<Lf, Lf>> <=> s[1] = Lf /\ s[2] = Lf
          /\ s = <<Cr, Cr>> <=> s[1] = Cr /\ s[2] = Cr
      BY <3>4, <3>5
    <3>7. /\ s = <<Lf, Lf>> <=> x[p] = Lf /\ x[p + 1] = Lf
          /\ s = <<Cr, Cr>> <=> x[p] = Cr /\ x[p + 1] = Cr
      BY <3>2, <3>6
    <3> QED BY <3>3, <3>7
  <2> QED BY <1>1, <2>1, <2>2 DEF Ends2
<1>5. <<p, 4>> \in Boundaries(x) <=> Ends4(x, p)
  <2> DEFINE s == SubSeq(x, p, p + 4 - 1)
             d == <<Cr, Lf, Cr, Lf>>
  <2>1. <<p, 4>> \in Boundaries(x) <=> p + 4 - 1 <= Len(x) /\ s \in Delimiters
    BY <1>1, <1>2
  <2>2. ASSUME p + 4 - 1 <= Len(x)
        PROVE  s \in Delimiters <=> x[p] = Cr /\ x[p + 1] = Lf /\ x[p + 2] = Cr /\ x[p + 3] = Lf
    <3>1. s \in Seq(Byte) /\ Len(s) = 4 /\ \A i \in 1..4 : s[i] = x[p + i - 1]
      BY <1>3, <2>2
    <3>2. s[1] = x[p] /\ s[2] = x[p + 1] /\ s[3] = x[p + 2] /\ s[4] = x[p + 3]
      BY <3>1
    <3>3. d \in Seq(Byte) /\ Len(d) = 4 /\ d[1] = Cr /\ d[2] = Lf /\ d[3] = Cr /\ d[4] = Lf
      BY DEF Byte
    <3> HIDE DEF s
    <3>4. s \in Delimiters <=> s = d
      <4>1. Len(<<Lf, Lf>>) = 2 /\ Len(<<Cr, Cr>>) = 2
        OBVIOUS
      <4>2. s # <<Lf, Lf>> /\ s # <<Cr, Cr>>
        BY SMTT(30), <3>1, <4>1
      <4> QED BY <4>2 DEF Delimiters
    <3> HIDE DEF d
    <3>5. s = d <=> s[1] = Cr /\ s[2] = Lf /\ s[3] = Cr /\ s[4] = Lf
      <4>1. ASSUME s[1] = Cr, s[2] = Lf, s[3] = Cr, s[4] = Lf PROVE s = d
        <5>1. \A i \in 1..Len(s) : s[i] = d[i]
          BY <3>1, <3>3, <4>1
        <5> QED BY <3>1, <3>3, <5>1, SeqEqual
      <4> QED BY <3>3, <4>1
    <3> QED BY <3>2, <3>4, <3>5
  <2> QED BY <1>1, <2>1, <2>2 DEF Ends4
<1> QED BY <1>4, <1>5

\* The first delimiter is one, and there is one first.
LEMMA FirstBoundary ==
  ASSUME NEW x \in Seq(Byte), Boundaries(x) # {}
  PROVE  LET b == NextBoundary(x)
         IN  /\ b \in Boundaries(x) /\ \A c \in Boundaries(x) : b[1] <= c[1]
             /\ b[1] \in 1..Len(x) /\ b[2] \in {2, 4} /\ b[1] + b[2] - 1 <= Len(x) /\ b = <<b[1], b[2]>>
             /\ \A d \in Boundaries(x) : (\A c \in Boundaries(x) : d[1] <= c[1]) => d = b
<1> DEFINE B == Boundaries(x)
           P == {b[1] : b \in B}
<1>1. Len(x) \in Nat /\ DOMAIN x = 1..Len(x)
  BY LenProperties
<1>2. \A b \in B : b \in (1..Len(x)) \X {2, 4} /\ b[1] + b[2] - 1 <= Len(x)
  BY DEF Boundaries
<1>3. P \subseteq Nat /\ P # {}
  BY <1>1, <1>2
<1> HIDE DEF B
<1>4. PICK d \in B : \A c \in B : d[1] <= c[1]
  <2>1. \E m \in P : \A k \in P : m <= k
    BY <1>3, Least
  <2> QED BY <2>1
<1>5. NextBoundary(x) \in B /\ \A c \in B : NextBoundary(x)[1] <= c[1]
  BY <1>4 DEF NextBoundary, B
<1>6. ASSUME NEW b \in B, NEW c \in B, b[1] = c[1] PROVE b = c
  <2>1. PICK p \in 1..Len(x), v \in {2, 4}, w \in {2, 4} : b = <<p, v>> /\ c = <<p, w>>
    BY <1>2, <1>6
  <2>2. CASE v = w
    BY <2>1, <2>2
  <2>3. CASE v # w
    <3>1. <<p, 2>> \in Boundaries(x) /\ <<p, 4>> \in Boundaries(x)
      BY SMTT(30), <1>6, <2>1, <2>3 DEF B
    <3>2. Ends2(x, p) /\ Ends4(x, p)
      BY <1>1, <3>1, BoundaryBytes
    <3> QED BY <3>2, SseAssumption DEF Ends2, Ends4
  <2> QED BY <2>2, <2>3
<1>7. ASSUME NEW d2 \in B, \A c \in B : d2[1] <= c[1] PROVE d2 = NextBoundary(x)
  <2>1. d2[1] <= NextBoundary(x)[1] /\ NextBoundary(x)[1] <= d2[1]
    BY <1>5, <1>7
  <2>2. d2[1] \in Nat /\ NextBoundary(x)[1] \in Nat
    BY <1>1, <1>2, <1>5
  <2>3. d2[1] = NextBoundary(x)[1]
    BY <2>1, <2>2
  <2> QED BY <1>5, <1>6, <2>3
<1>8. LET b == NextBoundary(x)
      IN  b[1] \in 1..Len(x) /\ b[2] \in {2, 4} /\ b[1] + b[2] - 1 <= Len(x) /\ b = <<b[1], b[2]>>
  BY <1>2, <1>5
<1> QED BY <1>5, <1>7, <1>8 DEF B

\* What more bytes do not change: the first delimiter.
LEMMA FirstStays ==
  ASSUME NEW x \in Seq(Byte), NEW y \in Seq(Byte), Boundaries(x) # {}
  PROVE  Boundaries(x \o y) # {} /\ NextBoundary(x \o y) = NextBoundary(x)
<1> DEFINE z == x \o y
           b == NextBoundary(x)
           n == Len(x)
<1>1. /\ z \in Seq(Byte) /\ Len(z) = n + Len(y) /\ n \in Nat /\ Len(y) \in Nat
      /\ \A i \in 1..n : z[i] = x[i]
  BY ConcatProperties, LenProperties
<1>2. PICK p \in 1..n, w \in {2, 4} :
        b = <<p, w>> /\ p + w - 1 <= n /\ <<p, w>> \in Boundaries(x) /\ \A c \in Boundaries(x) : p <= c[1]
  <2>1. b \in Boundaries(x) /\ b[1] \in 1..n /\ b[2] \in {2, 4} /\ b[1] + b[2] - 1 <= n
        /\ b = <<b[1], b[2]>> /\ \A c \in Boundaries(x) : b[1] <= c[1]
    BY FirstBoundary
  <2> QED BY <2>1
<1> HIDE DEF z
<1>3. ASSUME NEW q \in 1..n, NEW v \in {2, 4}, q + v - 1 <= n
      PROVE  <<q, v>> \in Boundaries(x) <=> <<q, v>> \in Boundaries(z)
  <2>1. /\ <<q, 2>> \in Boundaries(x) <=> Ends2(x, q)
        /\ <<q, 4>> \in Boundaries(x) <=> Ends4(x, q)
        /\ <<q, 2>> \in Boundaries(z) <=> Ends2(z, q)
        /\ <<q, 4>> \in Boundaries(z) <=> Ends4(z, q)
    BY <1>1, BoundaryBytes
  <2>2. CASE v = 2
    <3>1. Ends2(x, q) <=> Ends2(z, q)
      BY <1>1, <1>3, <2>2 DEF Ends2
    <3> QED BY <2>1, <2>2, <3>1
  <2>3. CASE v = 4
    <3>1. /\ q + 3 <= n /\ q + 3 <= Len(z) /\ z[q] = x[q] /\ z[q + 1] = x[q + 1]
          /\ z[q + 2] = x[q + 2] /\ z[q + 3] = x[q + 3]
      <4>1. q \in 1..n /\ q + 1 \in 1..n /\ q + 2 \in 1..n /\ q + 3 \in 1..n
        BY <1>1, <1>3, <2>3
      <4> QED BY <1>1, <4>1
    <3>2. Ends4(x, q) <=> Ends4(z, q)
      BY <3>1 DEF Ends4
    <3> QED BY <2>1, <2>3, <3>2
  <2> QED BY <2>2, <2>3
<1>4. <<p, w>> \in Boundaries(z)
  BY <1>2, <1>3
<1>5. ASSUME NEW c \in Boundaries(z) PROVE p <= c[1]
  <2>1. PICK q \in 1..Len(z), v \in {2, 4} : c = <<q, v>>
    BY DEF Boundaries
  <2>2. SUFFICES ASSUME q < p PROVE FALSE
    BY <1>1, <1>2, <2>1
  <2>3. CASE q + v - 1 <= n
    <3>1. q \in 1..n /\ q + v - 1 <= n
      BY <1>1, <1>2, <2>1, <2>2, <2>3
    <3>2. c \in Boundaries(x)
      BY <1>3, <2>1, <3>1
    <3>3. p <= q
      BY <1>2, <2>1, <3>2
    <3> QED BY <1>2, <2>2, <3>1, <3>3
  <2>4. CASE ~(q + v - 1 <= n)
    <3>1. v = 4 /\ w = 2 /\ p = q + 1
      BY <1>1, <1>2, <2>1, <2>2, <2>4
    <3>2. Ends4(z, q) /\ Ends2(x, p)
      <4>1. <<q, 4>> \in Boundaries(z) /\ <<p, 2>> \in Boundaries(x) /\ p \in Nat /\ q \in Nat /\ p > 0 /\ q > 0
        BY <1>1, <1>2, <2>1, <3>1
      <4> QED BY <1>1, <4>1, BoundaryBytes
    <3>3. z[p] = x[p] /\ z[p + 1] = x[p + 1]
      BY <1>1, <1>2, <3>1
    <3> QED BY <3>1, <3>2, <3>3, SseAssumption DEF Ends2, Ends4
  <2> QED BY <2>3, <2>4
<1>6. <<p, w>> = NextBoundary(z)
  <2>1. \A d \in Boundaries(z) : (\A c \in Boundaries(z) : d[1] <= c[1]) => d = NextBoundary(z)
    BY <1>1, <1>4, FirstBoundary
  <2> QED BY <1>4, <1>5, <2>1
<1> QED BY <1>2, <1>4, <1>6 DEF z

\* The loop of LinesOf.
LineStates == [lines : Event, line : Line]
LineStart == [lines |-> <<>>, line |-> <<>>]
ReadLine(x, j, state) ==
  CASE EndsLine(x, j) -> [lines |-> Noted(state.lines, state.line), line |-> <<>>]
    [] ~EndsLine(x, j) /\ x[j] = Cr -> state
    [] OTHER -> [state EXCEPT !.line = Append(@, x[j])]
LineTurns(x) == [j \in DOMAIN x |-> [state \in LineStates |-> ReadLine(x, j, state)]]

LEMMA NotedTyped ==
  ASSUME NEW lines \in Event, NEW line \in Line
  PROVE  Noted(lines, line) \in Event /\ EventOf(lines) \in Seq(Event)
<1>1. Append(lines, line) \in Event
  BY AppendProperties DEF Event
<1>2. EventOf(lines) \in Seq(Event)
  BY DEF EventOf
<1> QED BY <1>1, <1>2 DEF Noted

LEMMA ReadLineTyped ==
  ASSUME NEW x \in Seq(Byte), NEW j \in DOMAIN x, NEW s \in LineStates
  PROVE  ReadLine(x, j, s) \in LineStates
<1>1. x[j] \in Byte /\ s.lines \in Event /\ s.line \in Line
  BY LenProperties, ElementOfSeq DEF LineStates
<1>2. Noted(s.lines, s.line) \in Event
  BY <1>1, NotedTyped
<1>3. Append(s.line, x[j]) \in Line /\ <<>> \in Line
  BY <1>1, AppendProperties DEF Line
<1>4. [lines |-> Noted(s.lines, s.line), line |-> <<>>] \in LineStates
  BY <1>2, <1>3 DEF LineStates
<1>5. [s EXCEPT !.line = Append(@, x[j])] \in LineStates
  BY <1>1, <1>3 DEF LineStates
<1> QED BY <1>4, <1>5 DEF ReadLine

LEMMA LinesRun ==
  ASSUME NEW x \in Seq(Byte)
  PROVE  /\ Len(LineTurns(x)) = Len(x)
         /\ \E after :
              /\ Passes(after, LineTurns(x), LineStart, LineStates)
              /\ LinesOf(x) = Noted(after[Len(x)].lines, after[Len(x)].line)
              /\ \A k \in 1..Len(x) : after[k] = ReadLine(x, k, after[k - 1])
<1> DEFINE n == Len(x)
           t == LineTurns(x)
           G == (0..n) \X LineStates
<1>1. n \in Nat /\ DOMAIN x = 1..n
  BY LenProperties
<1>2. t = [j \in 1..n |-> t[j]]
  BY <1>1 DEF LineTurns
<1>3. Len(t) = n
  <2> HIDE DEF t, n
  <2>1. t \in [1..n -> {t[j] : j \in 1..n}]
    BY <1>2
  <2> QED BY <1>1, <2>1, ListOf
<1>4. \A k \in 1..n : \A s \in LineStates : t[k][s] = ReadLine(x, k, s) /\ t[k][s] \in LineStates
  BY <1>1, ReadLineTyped DEF LineTurns
<1>5. LineStart \in LineStates
  BY DEF LineStart, LineStates, Event, Line
<1>6. <<0, LineStart>> \in G /\ \A k \in 1..n : \A s \in LineStates : <<k, t[k][s]>> \in G
  BY <1>1, <1>4, <1>5
<1> HIDE DEF n, t, G
<1>7. PICK after : Passes(after, t, LineStart, LineStates)
  BY <1>1, <1>3, <1>4, <1>5, <1>6, LoopedRuns
<1>8. Looped(t, LineStart) = after[n]
  BY <1>3, <1>7 DEF Passes
<1>9. LinesOf(x) = Noted(after[n].lines, after[n].line)
  <2>1. LinesOf(x) = Noted(Looped(t, LineStart).lines, Looped(t, LineStart).line)
    BY DEF LinesOf, t, LineTurns, LineStates, ReadLine, LineStart
  <2> QED BY <1>8, <2>1
<1>10. ASSUME NEW k \in 1..n PROVE after[k] = ReadLine(x, k, after[k - 1])
  <2>1. after \in [0..n -> LineStates] /\ after[k] = t[k][after[k - 1]] /\ k - 1 \in 0..n
    BY <1>1, <1>3, <1>7 DEF Passes
  <2>2. after[k - 1] \in LineStates
    BY <2>1
  <2> QED BY <1>4, <2>1, <2>2
<1> QED BY <1>3, <1>7, <1>9, <1>10 DEF n, t

LEMMA FrameTyped ==
  ASSUME NEW x \in Seq(Byte)
  PROVE  LinesOf(x) \in Event /\ ParseFrame(x) \in Seq(Event)
<1>1. PICK after : /\ Passes(after, LineTurns(x), LineStart, LineStates)
                   /\ LinesOf(x) = Noted(after[Len(x)].lines, after[Len(x)].line)
  BY LinesRun
<1>2. Len(LineTurns(x)) = Len(x) /\ Len(x) \in Nat
  BY LinesRun, LenProperties
<1>3. after[Len(x)] \in LineStates
  <2>1. after \in [0..Len(x) -> LineStates]
    BY <1>1, <1>2 DEF Passes
  <2>2. Len(x) \in 0..Len(x)
    BY <1>2
  <2> QED BY <2>1, <2>2
<1>4. LinesOf(x) \in Event
  <2>1. after[Len(x)].lines \in Event /\ after[Len(x)].line \in Line
    BY <1>3 DEF LineStates
  <2> QED BY <1>1, <2>1, NotedTyped
<1>5. <<>> \in Line
  BY DEF Line
<1> QED BY <1>4, <1>5, NotedTyped DEF ParseFrame

\* What the decoder makes of a buffer with a delimiter in it.
FrameOf(x) == SubSeq(x, 1, NextBoundary(x)[1] - 1)
RestOf(x) == SubSeq(x, NextBoundary(x)[1] + NextBoundary(x)[2], Len(x))

LEMMA CutOff ==
  ASSUME NEW x \in Seq(Byte), Boundaries(x) # {}
  PROVE  /\ FrameOf(x) \in Seq(Byte) /\ RestOf(x) \in Seq(Byte)
         /\ Len(RestOf(x)) \in Nat /\ Len(RestOf(x)) < Len(x)
         /\ \A y \in Seq(Byte) : /\ FrameOf(x \o y) = FrameOf(x)
                                 /\ RestOf(x \o y) = RestOf(x) \o y
<1> DEFINE b == NextBoundary(x)
           n == Len(x)
           g == b[1] + b[2] - 1
<1>1. n \in Nat /\ b[1] \in 1..n /\ b[2] \in {2, 4} /\ g <= n
  BY FirstBoundary, LenProperties
<1>2. g \in 0..n /\ b[1] + b[2] = g + 1 /\ b[1] - 1 \in 0..n /\ g > 0
  BY <1>1
<1>3. FrameOf(x) = SubSeq(x, 1, b[1] - 1) /\ RestOf(x) = SubSeq(x, g + 1, n)
  BY <1>2 DEF FrameOf, RestOf
<1> HIDE DEF g, n
<1>4. \A i \in 1..n : x[i] \in Byte
  BY ElementOfSeq DEF n
<1>5. FrameOf(x) \in Seq(Byte)
  <2>1. \A i \in 1..(b[1] - 1) : x[i] \in Byte
    BY <1>1, <1>4
  <2> QED BY <1>1, <1>3, <2>1, SubSeqProperties
<1>6. RestOf(x) \in Seq(Byte) /\ Len(RestOf(x)) = n - g
  <2>1. \A i \in (g + 1)..n : x[i] \in Byte
    BY <1>1, <1>2, <1>4
  <2>2. SubSeq(x, g + 1, n) \in Seq(Byte)
        /\ Len(SubSeq(x, g + 1, n)) = IF g + 1 <= n THEN n - (g + 1) + 1 ELSE 0
    BY <1>1, <1>2, <2>1, SubSeqProperties
  <2> QED BY <1>1, <1>2, <1>3, <2>2
<1>7. ASSUME NEW y \in Seq(Byte)
      PROVE  FrameOf(x \o y) = FrameOf(x) /\ RestOf(x \o y) = RestOf(x) \o y
  <2>1. NextBoundary(x \o y) = b
    BY FirstStays
  <2>2. FrameOf(x \o y) = SubSeq(x \o y, 1, b[1] - 1) /\ RestOf(x \o y) = SubSeq(x \o y, g + 1, Len(x \o y))
    BY <1>2, <2>1 DEF FrameOf, RestOf
  <2>3. ASSUME NEW f \in 0..n PROVE SubSeq(x \o y, 1, f) = SubSeq(x, 1, f)
    BY <2>3, FrontOfJoined DEF n
  <2>4. SubSeq(x \o y, g + 1, Len(x \o y)) = SubSeq(x, g + 1, n) \o y
    BY <1>2, BackOfJoined DEF n
  <2> QED BY <1>2, <1>3, <2>2, <2>3, <2>4
<1> QED BY <1>1, <1>2, <1>5, <1>6, <1>7 DEF n

\* A loop that makes the same turn again and again may begin with it, and one
\* that has come to rest stays.
Again(turn, n) == [k \in 1..n |-> turn]
Follows(a, S, turn, s, n) ==
  /\ a \in [0..n -> S] /\ a[0] = s
  /\ \A k \in 1..n : a[k] = turn[a[k - 1]]
  /\ Looped(Again(turn, n), s) = a[n]

LEMMA AgainRuns ==
  ASSUME NEW S, NEW turn \in [S -> S], NEW s \in S, NEW n \in Nat
  PROVE  /\ Looped(Again(turn, n), s) \in S
         /\ \E a : Follows(a, S, turn, s, n)
<1> DEFINE t == Again(turn, n)
           G == (0..n) \X S
<1>1. t \in [1..n -> {turn}]
  BY DEF Again
<1>2. Len(t) = n
  BY <1>1, ListOf
<1>3. \A k \in 1..n : \A x \in S : t[k][x] = turn[x] /\ t[k][x] \in S
  BY DEF Again
<1> HIDE DEF t
<1>4. <<0, s>> \in G /\ \A k \in 1..n : \A x \in S : <<k, t[k][x]>> \in G
  BY <1>3
<1> HIDE DEF G
<1>5. PICK a : Passes(a, t, s, S)
  BY <1>2, <1>3, <1>4, LoopedRuns
<1>6. a \in [0..n -> S] /\ a[0] = s /\ Looped(t, s) = a[n] /\ \A k \in 1..n : a[k] = t[k][a[k - 1]]
  BY <1>2, <1>5 DEF Passes
<1>7. ASSUME NEW k \in 1..n PROVE a[k] = turn[a[k - 1]]
  <2>1. a[k - 1] \in S /\ a[k] = t[k][a[k - 1]]
    BY <1>6
  <2> QED BY <1>3, <2>1
<1>8. Looped(t, s) \in S
  BY <1>6
<1> QED BY <1>6, <1>7, <1>8 DEF t, Follows

LEMMA AgainShifts ==
  ASSUME NEW S, NEW turn \in [S -> S], NEW s \in S
  PROVE  /\ Looped(Again(turn, 0), s) = s
         /\ \A n \in Nat : Looped(Again(turn, n + 1), s) = Looped(Again(turn, n), turn[s])
<1>1. Looped(Again(turn, 0), s) = s
  <2>1. \E a : Follows(a, S, turn, s, 0)
    BY AgainRuns
  <2> QED BY <2>1 DEF Follows
<1>2. ASSUME NEW n \in Nat
      PROVE  Looped(Again(turn, n + 1), s) = Looped(Again(turn, n), turn[s])
  <2>1. PICK a : Follows(a, S, turn, s, n + 1)
    BY AgainRuns
  <2>2. turn[s] \in S
    OBVIOUS
  <2>3. PICK b : Follows(b, S, turn, turn[s], n)
    BY <2>2, AgainRuns
  <2> DEFINE G == {k \in 0..n : b[k] = a[k + 1]}
  <2>4. 0 \in G
    <3>1. 1 \in 1..(n + 1) /\ 1 - 1 = 0 /\ 0 + 1 = 1
      OBVIOUS
    <3>2. a[1] = turn[s]
      BY <2>1, <3>1 DEF Follows
    <3> QED BY <2>3, <3>1, <3>2 DEF Follows
  <2>5. ASSUME NEW k \in 1..n, k - 1 \in G PROVE k \in G
    <3>1. b[k - 1] = a[k] /\ b[k] = turn[b[k - 1]]
      BY <2>3, <2>5 DEF Follows
    <3>2. k + 1 \in 1..(n + 1) /\ (k + 1) - 1 = k
      OBVIOUS
    <3>3. a[k + 1] = turn[a[k]]
      BY <2>1, <3>2 DEF Follows
    <3> QED BY <3>1, <3>3
  <2> HIDE DEF G
  <2>6. 0..n \subseteq G
    BY <2>4, <2>5, Climb
  <2>7. b[n] = a[n + 1]
    BY <2>6 DEF G
  <2> QED BY <2>1, <2>3, <2>7 DEF Follows
<1> QED BY <1>1, <1>2

LEMMA AgainRests ==
  ASSUME NEW S, NEW turn \in [S -> S], NEW s \in S, turn[s] = s, NEW n \in Nat
  PROVE  Looped(Again(turn, n), s) = s
<1>1. PICK a : Follows(a, S, turn, s, n)
  BY AgainRuns
<1> DEFINE G == {k \in 0..n : a[k] = s}
<1>2. 0 \in G
  BY <1>1 DEF Follows
<1>3. ASSUME NEW k \in 1..n, k - 1 \in G PROVE k \in G
  BY <1>1, <1>3 DEF Follows
<1> HIDE DEF G
<1>4. 0..n \subseteq G
  BY <1>2, <1>3, Climb
<1>5. a[n] = s
  BY <1>4 DEF G
<1> QED BY <1>1, <1>5 DEF Follows

\* The loop of TakeFrames.
DecoderStates == [rest : Seq(Byte), got : Seq(Event)]
Decoder == [state \in DecoderStates |-> TakeFrame(state)]
Left(x, g) == [rest |-> x, got |-> g]
Decoded(x, g, n) == Looped(Again(Decoder, n), Left(x, g))

LEMMA AtParts ==
  ASSUME NEW a, NEW h, NEW s, s = Left(a, h)
  PROVE  s.rest = a /\ s.got = h
BY DEF Left

LEMMA DecoderTurns ==
  ASSUME NEW x \in Seq(Byte), NEW g \in Seq(Event)
  PROVE  /\ Decoder \in [DecoderStates -> DecoderStates] /\ Left(x, g) \in DecoderStates
         /\ Boundaries(x) = {} => Decoder[Left(x, g)] = Left(x, g)
         /\ Boundaries(x) # {} =>
              /\ Decoder[Left(x, g)] = Left(RestOf(x), g \o ParseFrame(FrameOf(x)))
              /\ g \o ParseFrame(FrameOf(x)) \in Seq(Event)
<1>1. ASSUME NEW y \in Seq(Byte), NEW h \in Seq(Event)
      PROVE  /\ Left(y, h) \in DecoderStates
             /\ Boundaries(y) = {} => TakeFrame(Left(y, h)) = Left(y, h)
             /\ Boundaries(y) # {} =>
                  /\ TakeFrame(Left(y, h)) = Left(RestOf(y), h \o ParseFrame(FrameOf(y)))
                  /\ h \o ParseFrame(FrameOf(y)) \in Seq(Event)
  <2>1. Left(y, h) \in DecoderStates /\ Left(y, h).rest = y /\ Left(y, h).got = h
    BY DEF Left, DecoderStates
  <2>2. Boundaries(y) = {} => TakeFrame(Left(y, h)) = Left(y, h)
    BY <2>1 DEF TakeFrame
  <2>3. ASSUME Boundaries(y) # {}
        PROVE  /\ TakeFrame(Left(y, h)) = Left(RestOf(y), h \o ParseFrame(FrameOf(y)))
               /\ h \o ParseFrame(FrameOf(y)) \in Seq(Event)
    <3>1. ParseFrame(FrameOf(y)) \in Seq(Event)
      BY <2>3, CutOff, FrameTyped
    <3>2. h \o ParseFrame(FrameOf(y)) \in Seq(Event)
      BY <3>1, ConcatProperties
    <3>3. TakeFrame(Left(y, h))
            = [rest |-> SubSeq(y, NextBoundary(y)[1] + NextBoundary(y)[2], Len(y)),
               got |-> h \o ParseFrame(SubSeq(y, 1, NextBoundary(y)[1] - 1))]
      BY <2>1, <2>3 DEF TakeFrame
    <3> QED BY <3>2, <3>3 DEF Left, RestOf, FrameOf
  <2> QED BY <2>1, <2>2, <2>3
<1>2. ASSUME NEW s \in DecoderStates PROVE TakeFrame(s) \in DecoderStates
  <2>1. PICK y \in Seq(Byte), h \in Seq(Event) : s = Left(y, h)
    BY DEF DecoderStates, Left
  <2>2. CASE Boundaries(y) = {}
    BY <1>1, <2>1, <2>2
  <2>3. CASE Boundaries(y) # {}
    <3>1. RestOf(y) \in Seq(Byte)
      BY <2>3, CutOff
    <3> QED BY ZenonT(60), <1>1, <2>1, <2>3, <3>1
  <2> QED BY <2>2, <2>3
<1>3. Decoder \in [DecoderStates -> DecoderStates]
  BY <1>2 DEF Decoder
<1>4. Decoder[Left(x, g)] = TakeFrame(Left(x, g))
  BY <1>1 DEF Decoder
<1> QED BY <1>1, <1>3, <1>4

LEMMA TakeFramesIs ==
  ASSUME NEW x \in Seq(Byte)
  PROVE  TakeFrames(x) = Decoded(x, <<>>, Len(x))
<1>1. DOMAIN x = 1..Len(x)
  BY LenProperties
<1>2. [turn \in DOMAIN x |-> [state \in [rest : Seq(Byte), got : Seq(Event)] |-> TakeFrame(state)]]
        = Again(Decoder, Len(x))
  BY <1>1 DEF Again, Decoder, DecoderStates
<1> QED BY <1>2 DEF TakeFrames, Decoded, Left

LEMMA FramesTyped ==
  ASSUME NEW x \in Seq(Byte)
  PROVE  /\ TakeFrames(x) \in DecoderStates /\ TakeFrames(x).rest \in Seq(Byte)
         /\ TakeFrames(x).got \in Seq(Event) /\ Len(x) \in Nat
         /\ TakeFrames(x) = Left(TakeFrames(x).rest, TakeFrames(x).got)
<1>1. Len(x) \in Nat /\ <<>> \in Seq(Event)
  BY LenProperties
<1>2. Decoder \in [DecoderStates -> DecoderStates] /\ Left(x, <<>>) \in DecoderStates
  BY <1>1, DecoderTurns
<1>3. TakeFrames(x) \in DecoderStates
  BY <1>1, <1>2, AgainRuns, TakeFramesIs DEF Decoded
<1> QED BY <1>1, <1>3 DEF DecoderStates, Left

\* One turn of the loop, and none.
LEMMA DecodedTurns ==
  ASSUME NEW x \in Seq(Byte), NEW g \in Seq(Event), NEW n \in Nat
  PROVE  /\ Boundaries(x) = {} => Decoded(x, g, n) = Left(x, g)
         /\ Boundaries(x) # {} =>
              Decoded(x, g, n + 1) = Decoded(RestOf(x), g \o ParseFrame(FrameOf(x)), n)
<1>1. Decoder \in [DecoderStates -> DecoderStates] /\ Left(x, g) \in DecoderStates
  BY DecoderTurns
<1>2. CASE Boundaries(x) = {}
  <2>1. Decoder[Left(x, g)] = Left(x, g)
    BY <1>2, DecoderTurns
  <2>2. PICK s \in DecoderStates, d \in [DecoderStates -> DecoderStates] :
          s = Left(x, g) /\ d = Decoder /\ d[s] = s
    BY <1>1, <2>1
  <2>3. Looped(Again(d, n), s) = s
    BY <2>2, AgainRests
  <2> QED BY <1>2, <2>2, <2>3 DEF Decoded
<1>3. CASE Boundaries(x) # {}
  <2>1. Decoder[Left(x, g)] = Left(RestOf(x), g \o ParseFrame(FrameOf(x)))
    BY <1>3, DecoderTurns
  <2>2. Decoded(x, g, n + 1) = Looped(Again(Decoder, n), Decoder[Left(x, g)])
    BY <1>1, AgainShifts DEF Decoded
  <2> QED BY <1>3, <2>1, <2>2 DEF Decoded
<1> QED BY <1>2, <1>3

\* As many turns as bytes are enough, and what was there before stays in front.
Suffice(n) ==
  \A x \in Seq(Byte), g \in Seq(Event) :
    Len(x) <= n => Decoded(x, g, n) = Left(TakeFrames(x).rest, g \o TakeFrames(x).got)

LEMMA EventsAssociate ==
  ASSUME NEW a \in Seq(Event), NEW b \in Seq(Event), NEW c \in Seq(Event)
  PROVE  (a \o b) \o c = a \o (b \o c)
BY ConcatAssociative

LEMMA TurnsSuffice == \A n \in Nat : Suffice(n)
<1> DEFINE Bad == {n \in Nat : ~Suffice(n)}
<1>1. SUFFICES ASSUME Bad # {} PROVE FALSE
  OBVIOUS
<1>2. PICK n \in Bad : \A k \in Bad : n <= k
  <2>1. Bad \subseteq Nat
    OBVIOUS
  <2> HIDE DEF Bad
  <2> QED BY <1>1, <2>1, Least
<1>3. n \in Nat /\ \A m \in Nat : m < n => Suffice(m)
  BY <1>2
<1>4. ASSUME NEW x \in Seq(Byte), NEW g \in Seq(Event), Len(x) <= n
      PROVE  Decoded(x, g, n) = Left(TakeFrames(x).rest, g \o TakeFrames(x).got)
  <2> DEFINE f == ParseFrame(FrameOf(x))
             y == RestOf(x)
             a == Len(x)
  <2>1. a \in Nat /\ <<>> \in Seq(Event) /\ TakeFrames(x) = Decoded(x, <<>>, a)
    BY LenProperties, TakeFramesIs
  <2>2. CASE Boundaries(x) = {}
    <3>1. Decoded(x, g, n) = Left(x, g) /\ TakeFrames(x) = Left(x, <<>>)
      BY <1>3, <2>1, <2>2, DecodedTurns
    <3>2. TakeFrames(x).rest = x /\ TakeFrames(x).got = <<>>
      BY <3>1 DEF Left
    <3>3. g \o <<>> = g
      BY ConcatEmptySeq
    <3> QED BY <3>1, <3>2, <3>3
  <2>3. CASE Boundaries(x) # {}
    <3>1. y \in Seq(Byte) /\ Len(y) \in Nat /\ Len(y) < a /\ FrameOf(x) \in Seq(Byte)
      BY <2>3, CutOff
    <3>2. f \in Seq(Event) /\ g \o f \in Seq(Event) /\ <<>> \o f = f
      BY <3>1, FrameTyped, ConcatProperties, ConcatEmptySeq
    <3>3. a - 1 \in Nat /\ n - 1 \in Nat /\ a - 1 < n /\ n - 1 < n /\ Len(y) <= a - 1 /\ Len(y) <= n - 1
          /\ (a - 1) + 1 = a /\ (n - 1) + 1 = n
      BY <1>3, <1>4, <2>1, <3>1
    <3> HIDE DEF f, y, a
    <3>4. \A h \in Seq(Event), m \in Nat :
            Decoded(x, h, m + 1) = Decoded(y, h \o f, m)
      BY <2>3, DecodedTurns DEF f, y
    <3>5. Decoded(x, g, n) = Decoded(y, g \o f, n - 1)
      BY <3>3, <3>4
    <3>6. TakeFrames(x) = Decoded(y, f, a - 1)
      BY <2>1, <3>2, <3>3, <3>4
    <3>7. /\ Decoded(y, g \o f, n - 1) = Left(TakeFrames(y).rest, (g \o f) \o TakeFrames(y).got)
          /\ Decoded(y, f, a - 1) = Left(TakeFrames(y).rest, f \o TakeFrames(y).got)
      <4>1. Suffice(n - 1) /\ Suffice(a - 1)
        BY <1>3, <3>3
      <4> QED BY <3>1, <3>2, <3>3, <4>1 DEF Suffice
    <3>8. TakeFrames(x).rest = TakeFrames(y).rest /\ TakeFrames(x).got = f \o TakeFrames(y).got
      BY <3>6, <3>7 DEF Left
    <3>9. (g \o f) \o TakeFrames(y).got = g \o (f \o TakeFrames(y).got)
      <4>1. TakeFrames(y).got \in Seq(Event)
        BY <3>1, FramesTyped
      <4> QED BY <3>2, <4>1, EventsAssociate
    <3> QED BY <3>5, <3>7, <3>8, <3>9
  <2> QED BY <2>2, <2>3
<1>5. Suffice(n)
  BY <1>4 DEF Suffice
<1> QED BY <1>2, <1>5

\* The frames of a buffer: its first one, and those of the rest.
LEMMA FramesUnfold ==
  ASSUME NEW x \in Seq(Byte)
  PROVE  /\ Boundaries(x) = {} => TakeFrames(x) = Left(x, <<>>)
         /\ Boundaries(x) # {} =>
              TakeFrames(x) = Left(TakeFrames(RestOf(x)).rest,
                                 ParseFrame(FrameOf(x)) \o TakeFrames(RestOf(x)).got)
<1>1. Len(x) \in Nat /\ <<>> \in Seq(Event) /\ TakeFrames(x) = Decoded(x, <<>>, Len(x))
  BY LenProperties, TakeFramesIs
<1>2. CASE Boundaries(x) = {}
  BY <1>1, <1>2, DecodedTurns
<1>3. CASE Boundaries(x) # {}
  <2> DEFINE f == ParseFrame(FrameOf(x))
             y == RestOf(x)
             m == Len(x) - 1
  <2>1. y \in Seq(Byte) /\ Len(y) \in Nat /\ Len(y) < Len(x) /\ FrameOf(x) \in Seq(Byte)
    BY <1>3, CutOff
  <2>2. f \in Seq(Event) /\ <<>> \o f = f
    BY <2>1, FrameTyped, ConcatEmptySeq
  <2>3. m \in Nat /\ m + 1 = Len(x) /\ Len(y) <= m
    BY <1>1, <2>1
  <2> HIDE DEF m
  <2>4. Decoded(x, <<>>, m + 1) = Decoded(y, <<>> \o f, m)
    BY <1>1, <1>3, <2>3, DecodedTurns
  <2> HIDE DEF f, y
  <2>5. Decoded(y, f, m) = Left(TakeFrames(y).rest, f \o TakeFrames(y).got)
    BY <2>1, <2>2, <2>3, TurnsSuffice DEF Suffice
  <2> QED BY <1>1, <1>3, <2>2, <2>3, <2>4, <2>5 DEF f, y
<1> QED BY <1>2, <1>3

\* More bytes find the decoder where the bytes before them have left it.
Continue(x) ==
  \A y \in Seq(Byte) :
    TakeFrames(x \o y) = Left(TakeFrames(TakeFrames(x).rest \o y).rest,
                            TakeFrames(x).got \o TakeFrames(TakeFrames(x).rest \o y).got)

LEMMA FramesContinue == \A x \in Seq(Byte) : Continue(x)
<1> DEFINE Bad == {n \in Nat : \E x \in Seq(Byte) : Len(x) = n /\ ~Continue(x)}
<1>1. SUFFICES ASSUME NEW x \in Seq(Byte), ~Continue(x) PROVE FALSE
  OBVIOUS
<1>2. PICK n \in Bad : \A k \in Bad : n <= k
  <2>1. Bad \subseteq Nat /\ Len(x) \in Bad
    BY <1>1, LenProperties
  <2> HIDE DEF Bad
  <2>2. Bad \subseteq Nat /\ Bad # {}
    BY <2>1
  <2> QED BY <2>2, Least
<1>3. PICK w \in Seq(Byte) : Len(w) = n /\ ~Continue(w)
  BY <1>2
<1>4. ASSUME NEW y \in Seq(Byte)
      PROVE  TakeFrames(w \o y) = Left(TakeFrames(TakeFrames(w).rest \o y).rest,
                                     TakeFrames(w).got \o TakeFrames(TakeFrames(w).rest \o y).got)
  <2>1. w \o y \in Seq(Byte)
    BY ConcatProperties
  <2>2. CASE Boundaries(w) = {}
    <3>1. TakeFrames(w) = Left(w, <<>>)
      BY <2>2, FramesUnfold
    <3>2. TakeFrames(w).rest = w /\ TakeFrames(w).got = <<>>
      BY <3>1 DEF Left
    <3>3. TakeFrames(w \o y).got \in Seq(Event)
          /\ TakeFrames(w \o y) = Left(TakeFrames(w \o y).rest, TakeFrames(w \o y).got)
      BY <2>1, FramesTyped
    <3>4. <<>> \o TakeFrames(w \o y).got = TakeFrames(w \o y).got
      BY <3>3, ConcatEmptySeq
    <3> QED BY <3>2, <3>3, <3>4
  <2>3. CASE Boundaries(w) # {}
    <3> DEFINE r == RestOf(w)
               f == ParseFrame(FrameOf(w))
    <3>1. r \in Seq(Byte) /\ Len(r) \in Nat /\ Len(r) < Len(w) /\ FrameOf(w) \in Seq(Byte)
      BY <2>3, CutOff
    <3>2. FrameOf(w \o y) = FrameOf(w) /\ RestOf(w \o y) = r \o y /\ Boundaries(w \o y) # {}
      BY <2>3, CutOff, FirstStays
    <3>3. TakeFrames(w \o y) = Left(TakeFrames(r \o y).rest, f \o TakeFrames(r \o y).got)
      BY <2>1, <3>2, FramesUnfold
    <3>4. TakeFrames(w) = Left(TakeFrames(r).rest, f \o TakeFrames(r).got)
      BY <2>3, FramesUnfold
    <3>5. Continue(r)
      <4>1. Len(r) \notin Bad
        BY <1>2, <1>3, <3>1
      <4> QED BY <3>1, <4>1
    <3> DEFINE s == TakeFrames(r).rest
    <3>6. TakeFrames(r \o y) = Left(TakeFrames(s \o y).rest, TakeFrames(r).got \o TakeFrames(s \o y).got)
      BY <3>5 DEF Continue
    <3>7. f \in Seq(Event) /\ TakeFrames(r).got \in Seq(Event) /\ s \in Seq(Byte)
      BY <3>1, FrameTyped, FramesTyped
    <3> HIDE DEF r, f, s
    <3>8. s \o y \in Seq(Byte)
      BY <3>7, ConcatProperties
    <3>9. TakeFrames(s \o y).got \in Seq(Event)
      BY <3>8, FramesTyped
    <3>10. f \o (TakeFrames(r).got \o TakeFrames(s \o y).got)
             = (f \o TakeFrames(r).got) \o TakeFrames(s \o y).got
      BY <3>7, <3>9, EventsAssociate
    <3>11. TakeFrames(w).rest = s /\ TakeFrames(w).got = f \o TakeFrames(r).got
      BY <3>4 DEF Left, s
    <3>12. /\ TakeFrames(r \o y).rest = TakeFrames(s \o y).rest
           /\ TakeFrames(r \o y).got = TakeFrames(r).got \o TakeFrames(s \o y).got
      <4>1. PICK u, a, h : u = TakeFrames(r \o y) /\ a = TakeFrames(s \o y).rest
                           /\ h = TakeFrames(r).got \o TakeFrames(s \o y).got
        OBVIOUS
      <4>2. u = Left(a, h)
        BY <3>6, <4>1
      <4>3. u.rest = a /\ u.got = h
        BY <4>2, AtParts
      <4> QED BY <4>1, <4>3
    <3> QED BY <3>3, <3>10, <3>11, <3>12
  <2> QED BY <2>2, <2>3
<1> QED BY <1>3, <1>4 DEF Continue

\* The bytes fed so far, read in one go, leave the decoder where it is.
SseInv ==
  /\ stream \in Seq(Byte) /\ fed \in 0..Len(stream)
  /\ ~finished => TakeFrames(SubSeq(stream, 1, fed)) = Left(sseBuffer, events)
  /\ finished => fed = Len(stream) /\ events = DecodeSse(stream)

LEMMA SseStarts == SseInit => SseInv
<1>1. SUFFICES ASSUME SseInit PROVE SseInv
  OBVIOUS
<1>2. stream \in Seq(Byte) /\ Len(stream) \in Nat
  <2>1. PICK n \in 0..MaxBytes : stream \in [1..n -> Byte]
    BY <1>1 DEF SseInit
  <2>2. n \in Nat
    BY SseAssumption
  <2> QED BY <2>1, <2>2, ListOf
<1>3. SubSeq(stream, 1, 0) = <<>>
  BY SubSeqEmpty
<1>4. PICK e \in Seq(Byte) : e = <<>> /\ Len(e) = 0
  <2>1. <<>> \in Seq(Byte) /\ Len(<<>>) = 0
    BY EmptySeq
  <2> QED BY <2>1, Zenon
<1>5. Boundaries(e) = {}
  BY <1>4 DEF Boundaries
<1>6. TakeFrames(e) = Left(e, <<>>)
  BY <1>5, FramesUnfold
<1>7. SubSeq(stream, 1, fed) = e /\ sseBuffer = e /\ events = <<>> /\ ~finished /\ fed \in 0..Len(stream)
  BY <1>1, <1>2, <1>3, <1>4 DEF SseInit
<1> QED BY <1>2, <1>6, <1>7 DEF SseInv

LEMMA SseKeeps == SseInv /\ SseNext => SseInv'
<1>1. SUFFICES ASSUME SseInv, SseNext PROVE SseInv'
  OBVIOUS
<1>2. stream \in Seq(Byte) /\ Len(stream) \in Nat /\ fed \in 0..Len(stream) /\ fed \in Nat
  BY <1>1 DEF SseInv
<1>3. ASSUME NEW n \in (fed + 1)..Len(stream), Feed(SubSeq(stream, fed + 1, n)) PROVE SseInv'
  <2> DEFINE x == SubSeq(stream, 1, fed)
             c == SubSeq(stream, fed + 1, n)
  <2>1. c \in Seq(Byte) /\ Len(c) = n - fed
    <3>1. \A i \in (fed + 1)..n : stream[i] \in Byte
      <4>1. ASSUME NEW i \in (fed + 1)..n PROVE i \in 1..Len(stream)
        BY <1>2
      <4> QED BY <1>2, <4>1, ElementOfSeq
    <3>2. fed + 1 \in Int /\ n \in Int /\ fed + 1 <= n /\ n - (fed + 1) + 1 = n - fed
      BY <1>2
    <3> QED BY <3>1, <3>2, SubSeqProperties
  <2>2. x \in Seq(Byte)
    BY <1>2, PartOfFront, 0 \in 0..fed
  <2>3. x \o c = SubSeq(stream, 1, n)
    <3>1. 1 \in 1..(Len(stream) + 1) /\ fed \in (1 - 1)..Len(stream) /\ n \in fed..Len(stream)
      BY <1>2
    <3> QED BY <1>2, <3>1, ConcatAdjacentSubSeq
  <2> DEFINE t == TakeFrames(sseBuffer \o c)
  <2>4. /\ events' = events \o t.got /\ sseBuffer' = t.rest
        /\ fed' = fed + Len(c) /\ stream' = stream /\ finished' = finished
    BY <1>3 DEF Feed
  <2>5. fed' = n /\ n \in 0..Len(stream)
    BY <1>2, <2>1, <2>4
  <2> HIDE DEF x, c
  <2>6. ~finished => TakeFrames(x) = Left(sseBuffer, events)
    BY <1>1 DEF SseInv, x
  <2>7. ASSUME ~finished PROVE TakeFrames(x \o c) = Left(sseBuffer', events')
    <3>1. TakeFrames(x).rest = sseBuffer /\ TakeFrames(x).got = events
      BY <2>6, <2>7, AtParts
    <3>2. Continue(x)
      BY <2>2, FramesContinue
    <3>3. TakeFrames(x \o c) = Left(TakeFrames(TakeFrames(x).rest \o c).rest,
                                  TakeFrames(x).got \o TakeFrames(TakeFrames(x).rest \o c).got)
      BY <2>1, <3>2 DEF Continue
    <3>4. TakeFrames(x \o c) = Left(t.rest, events \o t.got)
      BY <3>1, <3>3
    <3> QED BY <2>4, <3>4
  <2>8. ~finished'
    <3>1. ~finished
      BY <1>1, <1>2 DEF SseInv
    <3> QED BY <2>4, <3>1
  <2> QED BY <1>1, <2>3, <2>4, <2>5, <2>7, <2>8 DEF SseInv
<1>4. ASSUME Finish PROVE SseInv'
  <2>1. /\ fed = Len(stream) /\ ~finished /\ finished' /\ stream' = stream /\ fed' = fed
        /\ events' = events \o ParseFrame(sseBuffer)
    BY <1>4 DEF Finish
  <2>2. SubSeq(stream, 1, fed) = stream
    BY <1>2, <2>1, SubSeqFull
  <2>3. TakeFrames(stream).rest = sseBuffer /\ TakeFrames(stream).got = events
    BY <1>1, <2>1, <2>2, AtParts DEF SseInv
  <2>4. events' = DecodeSse(stream)
    BY <2>1, <2>3 DEF DecodeSse
  <2> QED BY <1>2, <2>1, <2>4 DEF SseInv
<1> QED BY <1>1, <1>3, <1>4 DEF SseNext

LEMMA SseRests == SseInv /\ UNCHANGED sseVars => SseInv'
BY DEF SseInv, sseVars

\* The loop of ByLines.
ByStates == [done : Seq(Event), open : Event, line : Line]
ByState(d, o, l) == [done |-> d, open |-> o, line |-> l]
Extended(s, c) == [s EXCEPT !.line = Append(@, c)]
ReadBy(x, j, state) ==
  CASE EndsLine(x, j) /\ state.line = <<>> ->
         [done |-> state.done \o EventOf(state.open), open |-> <<>>, line |-> <<>>]
    [] EndsLine(x, j) /\ state.line # <<>> ->
         [done |-> state.done, open |-> Noted(state.open, state.line), line |-> <<>>]
    [] ~EndsLine(x, j) /\ x[j] = Cr -> state
    [] OTHER -> Extended(state, x[j])
ByTurns(x) == [j \in DOMAIN x |-> [state \in ByStates |-> ReadBy(x, j, state)]]
ByResult(s) == s.done \o EventOf(Noted(s.open, s.line))

\* The states that reading x by lines goes through.
ReadsBy(a, x) ==
  /\ a \in [0..Len(x) -> ByStates] /\ a[0] = ByState(<<>>, <<>>, <<>>)
  /\ \A k \in 1..Len(x) : a[k] = ReadBy(x, k, a[k - 1])
  /\ ByLines(x) = ByResult(a[Len(x)])

LEMMA EmptiesTyped == <<>> \in Seq(Event) /\ <<>> \in Event /\ <<>> \in Line
BY DEF Event, Line

LEMMA ByStateTyped ==
  ASSUME NEW d \in Seq(Event), NEW o \in Event, NEW l \in Line
  PROVE  /\ ByState(d, o, l) \in ByStates
         /\ ByState(d, o, l).done = d /\ ByState(d, o, l).open = o /\ ByState(d, o, l).line = l
BY DEF ByState, ByStates

LEMMA ByStatePicked ==
  ASSUME NEW s \in ByStates
  PROVE  \E d \in Seq(Event), o \in Event, l \in Line : s = ByState(d, o, l)
BY DEF ByState, ByStates

LEMMA ExtendedLine ==
  ASSUME NEW d \in Seq(Event), NEW o \in Event, NEW l \in Line, NEW c \in Byte
  PROVE  /\ Append(l, c) \in Line /\ Append(l, c) # <<>>
         /\ Extended(ByState(d, o, l), c) = ByState(d, o, Append(l, c))
<1>1. Append(l, c) \in Line
  BY AppendProperties DEF Line
<1>2. Append(l, c) # <<>>
  <2>1. l \in Seq(Byte)
    BY DEF Line
  <2> QED BY <2>1, AppendProperties
<1>3. ByState(d, o, l).line = l
  BY DEF ByState
<1>4. \A z : [ByState(d, o, l) EXCEPT !.line = z] = ByState(d, o, z)
  BY DEF ByState
<1> QED BY <1>1, <1>2, <1>3, <1>4 DEF Extended

\* A turn, according to what the byte is.
LEMMA ReadEmptyLine ==
  ASSUME NEW x \in Seq(Byte), NEW j \in DOMAIN x, EndsLine(x, j),
         NEW d \in Seq(Event), NEW o \in Event, NEW l \in Line, l = <<>>
  PROVE  ReadBy(x, j, ByState(d, o, l)) = ByState(d \o EventOf(o), <<>>, <<>>)
BY ByStateTyped DEF ReadBy, ByState

LEMMA ReadFullLine ==
  ASSUME NEW x \in Seq(Byte), NEW j \in DOMAIN x, EndsLine(x, j),
         NEW d \in Seq(Event), NEW o \in Event, NEW l \in Line, l # <<>>
  PROVE  ReadBy(x, j, ByState(d, o, l)) = ByState(d, Noted(o, l), <<>>)
BY ByStateTyped DEF ReadBy, ByState

LEMMA ReadOther ==
  ASSUME NEW x \in Seq(Byte), NEW j \in DOMAIN x, ~EndsLine(x, j), x[j] # Cr,
         NEW d \in Seq(Event), NEW o \in Event, NEW l \in Line
  PROVE  /\ ReadBy(x, j, ByState(d, o, l)) = ByState(d, o, Append(l, x[j]))
         /\ Append(l, x[j]) \in Line /\ Append(l, x[j]) # <<>>
<1>1. x[j] \in Byte
  BY LenProperties, ElementOfSeq
<1>2. /\ Extended(ByState(d, o, l), x[j]) = ByState(d, o, Append(l, x[j]))
      /\ Append(l, x[j]) \in Line /\ Append(l, x[j]) # <<>>
  BY <1>1, ExtendedLine
<1> QED BY <1>2 DEF ReadBy

LEMMA ReadByTyped ==
  ASSUME NEW x \in Seq(Byte), NEW j \in DOMAIN x, NEW s \in ByStates
  PROVE  ReadBy(x, j, s) \in ByStates
<1>1. PICK d \in Seq(Event), o \in Event, l \in Line : s = ByState(d, o, l)
  BY ByStatePicked
<1>2. EventOf(o) \in Seq(Event) /\ Noted(o, l) \in Event
  BY NotedTyped
<1>3. d \o EventOf(o) \in Seq(Event)
  BY <1>2, ConcatProperties
<1>4. CASE EndsLine(x, j) /\ l = <<>>
  <2>1. ReadBy(x, j, s) = ByState(d \o EventOf(o), <<>>, <<>>)
    BY <1>1, <1>4, ReadEmptyLine
  <2>2. \A e \in Seq(Event), p \in Event, k \in Line : ByState(e, p, k) \in ByStates
    BY ByStateTyped
  <2> QED BY <1>3, <2>1, <2>2, EmptiesTyped
<1>5. CASE EndsLine(x, j) /\ l # <<>>
  <2>1. ReadBy(x, j, s) = ByState(d, Noted(o, l), <<>>)
    BY <1>1, <1>5, ReadFullLine
  <2> QED BY <1>2, <2>1, EmptiesTyped, ByStateTyped
<1>6. CASE ~EndsLine(x, j) /\ x[j] = Cr
  BY <1>6 DEF ReadBy
<1>7. CASE ~EndsLine(x, j) /\ x[j] # Cr
  <2>1. ReadBy(x, j, s) = ByState(d, o, Append(l, x[j])) /\ Append(l, x[j]) \in Line
    BY <1>1, <1>7, ReadOther
  <2> QED BY <2>1, ByStateTyped
<1> QED BY <1>4, <1>5, <1>6, <1>7

LEMMA ByLinesRun ==
  ASSUME NEW x \in Seq(Byte)
  PROVE  \E a : ReadsBy(a, x)
<1> DEFINE n == Len(x)
           t == ByTurns(x)
           s0 == ByState(<<>>, <<>>, <<>>)
           G == (0..n) \X ByStates
<1>1. n \in Nat /\ DOMAIN x = 1..n
  BY LenProperties
<1>2. t = [j \in 1..n |-> t[j]]
  BY <1>1 DEF ByTurns
<1>3. Len(t) = n
  <2> HIDE DEF t, n
  <2>1. t \in [1..n -> {t[j] : j \in 1..n}]
    BY <1>2
  <2> QED BY <1>1, <2>1, ListOf
<1>4. \A k \in 1..n : \A s \in ByStates : t[k][s] = ReadBy(x, k, s) /\ t[k][s] \in ByStates
  BY <1>1, ReadByTyped DEF ByTurns
<1>5. s0 \in ByStates
  BY EmptiesTyped, ByStateTyped
<1>6. <<0, s0>> \in G /\ \A k \in 1..n : \A s \in ByStates : <<k, t[k][s]>> \in G
  BY <1>1, <1>4, <1>5
<1> HIDE DEF n, t, s0, G
<1>7. PICK a : Passes(a, t, s0, ByStates)
  BY <1>1, <1>3, <1>4, <1>5, <1>6, LoopedRuns
<1>8. Looped(t, s0) = a[n] /\ a \in [0..n -> ByStates] /\ a[0] = s0
  BY <1>3, <1>7 DEF Passes
<1>9. ByLines(x) = ByResult(a[n])
  <2>3. ByLines(x) = Looped(t, s0).done \o EventOf(Noted(Looped(t, s0).open, Looped(t, s0).line))
    BY DEF ByLines, t, ByTurns, ReadBy, Extended, ByStates, s0, ByState
  <2>4. PICK s : s = Looped(t, s0)
    OBVIOUS
  <2>5. ByLines(x) = s.done \o EventOf(Noted(s.open, s.line)) /\ s = a[n]
    BY <1>8, <2>3, <2>4
  <2> QED BY <2>5 DEF ByResult
<1>10. ASSUME NEW k \in 1..n PROVE a[k] = ReadBy(x, k, a[k - 1])
  <2>1. a \in [0..n -> ByStates] /\ a[k] = t[k][a[k - 1]] /\ k - 1 \in 0..n
    BY <1>1, <1>3, <1>7 DEF Passes
  <2>2. a[k - 1] \in ByStates
    BY <2>1
  <2> QED BY <1>4, <2>1, <2>2
<1> QED BY <1>8, <1>9, <1>10 DEF n, s0, ReadsBy

\* A line ended just before place k, or ends there.
EmptyAt(x, k) ==
  /\ k > 0
  /\ EndsLine(x, k) \/ (k > 1 /\ x[k] = Cr /\ x[k + 1] = Lf /\ EndsLine(x, k - 1))

\* Where an empty line ends, a delimiter does.
LEMMA EmptyLine ==
  ASSUME NEW x \in Seq(Byte), Uniform(x), NEW j \in 1..Len(x), EndsLine(x, j), EmptyAt(x, j - 1)
  PROVE  \E c \in Boundaries(x) : c[1] + c[2] - 1 = j
<1>1. /\ Len(x) \in Nat /\ DOMAIN x = 1..Len(x) /\ j \in Nat /\ j - 1 \in Nat /\ j - 1 > 0 /\ j <= Len(x)
      /\ j - 1 \in 1..Len(x) /\ j - 1 < Len(x) /\ (j - 1) + 1 = j
  BY LenProperties DEF EmptyAt
<1>2. (x[j] = Lf \/ x[j] = Cr) /\ (x[j] = Cr /\ j < Len(x) => x[j + 1] # Lf)
  BY SseAssumption DEF EndsLine
<1>3. \/ x[j - 1] = Lf
      \/ x[j - 1] = Cr /\ x[j] # Lf
      \/ /\ j - 1 > 1 /\ x[j - 1] = Cr /\ x[j] = Lf
         /\ x[j - 2] = Lf \/ x[j - 2] = Cr
         /\ x[j - 2] = Cr => x[j - 1] # Lf
  <2>1. CASE EndsLine(x, j - 1)
    <3>1. x[j - 1] = Lf \/ (x[j - 1] = Cr /\ ~(j - 1 < Len(x) /\ x[(j - 1) + 1] = Lf))
      BY <2>1 DEF EndsLine
    <3> QED BY <1>1, <3>1
  <2>2. CASE ~EndsLine(x, j - 1)
    <3>1. j - 1 > 1 /\ x[j - 1] = Cr /\ x[(j - 1) + 1] = Lf /\ EndsLine(x, (j - 1) - 1)
      BY <2>2 DEF EmptyAt
    <3>2. (j - 1) - 1 = j - 2 /\ ((j - 1) - 1) + 1 = j - 1 /\ (j - 1) - 1 < Len(x)
      BY <1>1
    <3>3. x[j - 2] = Lf \/ (x[j - 2] = Cr /\ ~(x[j - 1] = Lf))
      BY <3>1, <3>2 DEF EndsLine
    <3> QED BY <1>1, <3>1, <3>3, SseAssumption
  <2> QED BY <2>1, <2>2
<1>4. CASE \/ \A i \in DOMAIN x : x[i] # Cr
           \/ \A i \in DOMAIN x : x[i] # Lf
  <2>1. x[j] = x[j - 1] /\ (x[j] = Lf \/ x[j] = Cr)
    BY <1>1, <1>2, <1>3, <1>4
  <2>2. Ends2(x, j - 1)
    BY <1>1, <2>1 DEF Ends2
  <2>3. <<j - 1, 2>> \in Boundaries(x)
    BY <1>1, <2>2, BoundaryBytes
  <2>4. <<j - 1, 2>>[1] + <<j - 1, 2>>[2] - 1 = j
    BY <1>1
  <2> QED BY <2>3, <2>4
<1>5. CASE \A i \in DOMAIN x : /\ x[i] = Cr => i < Len(x) /\ x[i + 1] = Lf
                               /\ x[i] = Lf => i > 1 /\ x[i - 1] = Cr
  <2>1. x[j] = Lf /\ x[j - 1] = Cr
    BY <1>1, <1>2, <1>5
  <2>2. j - 1 > 1 /\ j - 2 \in Nat /\ j - 2 \in 1..Len(x) /\ (j - 2) - 1 = j - 3
    BY <1>1, <1>3, <2>1, SseAssumption
  <2>3. x[j - 2] = Lf
    <3>1. x[j - 2] = Cr => x[(j - 2) + 1] = Lf
      BY <1>1, <1>5, <2>2
    <3>2. (j - 2) + 1 = j - 1
      BY <1>1
    <3> QED BY <1>1, <1>3, <2>1, <3>1, <3>2, SseAssumption
  <2>4. j - 2 > 1 /\ x[j - 3] = Cr
    BY <1>1, <1>5, <2>2, <2>3
  <2>5. Ends4(x, j - 3)
    <3>1. (j - 3) + 1 = j - 2 /\ (j - 3) + 2 = j - 1 /\ (j - 3) + 3 = j
      BY <1>1
    <3> QED BY <1>1, <2>1, <2>3, <2>4, <3>1 DEF Ends4
  <2>6. <<j - 3, 4>> \in Boundaries(x)
    <3>1. j - 3 \in Nat /\ j - 3 > 0
      BY <1>1, <2>2, <2>4
    <3> QED BY <2>5, <3>1, BoundaryBytes
  <2>7. <<j - 3, 4>>[1] + <<j - 3, 4>>[2] - 1 = j
    BY <1>1
  <2> QED BY <2>6, <2>7
<1> QED BY <1>4, <1>5 DEF Uniform

LineState(o, l) == [lines |-> o, line |-> l]

LEMMA ReadLineIs ==
  ASSUME NEW f, NEW k, NEW o, NEW l
  PROVE  /\ EndsLine(f, k) => ReadLine(f, k, LineState(o, l)) = LineState(Noted(o, l), <<>>)
         /\ ~EndsLine(f, k) /\ f[k] = Cr => ReadLine(f, k, LineState(o, l)) = LineState(o, l)
         /\ ~EndsLine(f, k) /\ f[k] # Cr =>
              ReadLine(f, k, LineState(o, l)) = LineState(o, Append(l, f[k]))
<1> DEFINE s == LineState(o, l)
<1>1. s.lines = o /\ s.line = l
  BY DEF LineState
<1>2. \A z : [s EXCEPT !.line = z] = LineState(o, z)
  BY DEF LineState
<1>3. [s EXCEPT !.line = Append(@, f[k])] = LineState(o, Append(l, f[k]))
  BY <1>1, <1>2
<1>4. LineState(Noted(o, l), <<>>) = [lines |-> Noted(s.lines, s.line), line |-> <<>>]
  BY <1>1 DEF LineState
<1> HIDE DEF s
<1> QED BY <1>3, <1>4 DEF ReadLine, s

\* Up to the first delimiter both ways of reading do the same.
LEMMA ReadAlikeUpTo ==
  ASSUME NEW x \in Seq(Byte), Uniform(x), NEW m \in 0..Len(x),
         \A c \in Boundaries(x) : m < c[1] + c[2] - 1,
         NEW f \in Seq(Byte), Len(f) = m,
         \A j \in 1..m : f[j] = x[j] /\ (EndsLine(f, j) <=> EndsLine(x, j)),
         NEW a, ReadsBy(a, x)
  PROVE  \E o \in Event, l \in Line : a[m] = ByState(<<>>, o, l) /\ LinesOf(f) = Noted(o, l)
<1>1. PICK b : /\ Passes(b, LineTurns(f), LineStart, LineStates)
               /\ LinesOf(f) = Noted(b[m].lines, b[m].line)
               /\ \A k \in 1..m : b[k] = ReadLine(f, k, b[k - 1])
  BY LinesRun
<1>2. b \in [0..m -> LineStates] /\ b[0] = LineStart
  BY <1>1, LinesRun DEF Passes
<1>3. /\ a \in [0..Len(x) -> ByStates] /\ a[0] = ByState(<<>>, <<>>, <<>>)
      /\ \A k \in 1..Len(x) : a[k] = ReadBy(x, k, a[k - 1])
  BY DEF ReadsBy
<1>4. Len(x) \in Nat /\ m \in Nat /\ m <= Len(x) /\ DOMAIN x = 1..Len(x) /\ DOMAIN f = 1..m
  BY LenProperties
<1> DEFINE Ok(k, o, l) == /\ a[k] = ByState(<<>>, o, l) /\ b[k] = LineState(o, l)
                          /\ l = <<>> /\ o # <<>> => EmptyAt(x, k)
           G == {k \in 0..m : \E o \in Event, l \in Line : Ok(k, o, l)}
<1>5. 0 \in G
  <2>1. Ok(0, <<>>, <<>>)
    BY <1>2, <1>3 DEF LineStart, LineState
  <2> HIDE DEF Ok
  <2> QED BY <1>4, <2>1, EmptiesTyped
<1>6. ASSUME NEW k \in 1..m, k - 1 \in G PROVE k \in G
  <2>1. PICK o \in Event, l \in Line : Ok(k - 1, o, l)
    BY <1>6
  <2>2. k \in 1..Len(x) /\ k \in DOMAIN x /\ k \in 0..m /\ k \in Nat /\ k > 0
    BY <1>4
  <2>3. a[k] = ReadBy(x, k, a[k - 1]) /\ b[k] = ReadLine(f, k, b[k - 1])
    BY <1>1, <1>3, <2>2
  <2>4. f[k] = x[k] /\ (EndsLine(f, k) <=> EndsLine(x, k))
    OBVIOUS
  <2>5. /\ EndsLine(x, k) => b[k] = LineState(Noted(o, l), <<>>)
        /\ ~EndsLine(x, k) /\ x[k] = Cr => b[k] = LineState(o, l)
        /\ ~EndsLine(x, k) /\ x[k] # Cr => b[k] = LineState(o, Append(l, x[k]))
    <3>1. b[k] = ReadLine(f, k, LineState(o, l))
      BY <2>1, <2>3
    <3> QED BY <2>4, <3>1, ReadLineIs
  <2> DEFINE s == ByState(<<>>, o, l)
  <2>6. a[k] = ReadBy(x, k, s) /\ a[k - 1] = s
    BY <2>1, <2>3
  <2>7. CASE EndsLine(x, k) /\ l = <<>>
    <3>1. o = <<>>
      <4>1. SUFFICES ASSUME o # <<>> PROVE FALSE
        OBVIOUS
      <4>2. PICK c \in Boundaries(x) : c[1] + c[2] - 1 = k
        BY <2>1, <2>2, <2>7, <4>1, EmptyLine
      <4> QED BY <1>4, <4>2
    <3>2. <<>> \o EventOf(o) = <<>> /\ Noted(o, l) = <<>>
      BY <2>7, <3>1 DEF EventOf, Noted
    <3>3. ReadBy(x, k, s) = ByState(<<>> \o EventOf(o), <<>>, <<>>)
      BY <2>2, <2>7, ReadEmptyLine, EmptiesTyped
    <3>4. a[k] = ByState(<<>>, <<>>, <<>>) /\ b[k] = LineState(<<>>, <<>>)
      BY <2>5, <2>6, <2>7, <3>2, <3>3
    <3>5. Ok(k, <<>>, <<>>)
      BY <3>4
    <3> HIDE DEF Ok
    <3> QED BY <2>2, <3>5, EmptiesTyped
  <2>8. CASE EndsLine(x, k) /\ l # <<>>
    <3>1. EmptyAt(x, k)
      BY <2>2, <2>8 DEF EmptyAt
    <3>4. ReadBy(x, k, s) = ByState(<<>>, Noted(o, l), <<>>)
      BY <2>2, <2>8, ReadFullLine, EmptiesTyped
    <3>2. Ok(k, Noted(o, l), <<>>)
      BY <2>5, <2>6, <2>8, <3>1, <3>4
    <3>3. Noted(o, l) \in Event
      BY NotedTyped
    <3> HIDE DEF Ok
    <3> QED BY <2>2, <3>2, <3>3, EmptiesTyped
  <2>9. CASE ~EndsLine(x, k) /\ x[k] = Cr
    <3>1. ASSUME l = <<>>, o # <<>> PROVE EmptyAt(x, k)
      <4>1. EmptyAt(x, k - 1) /\ k < Len(x) /\ x[k + 1] = Lf
        BY <2>1, <2>9, <3>1 DEF EndsLine
      <4>2. x[(k - 1) + 1] = Cr /\ k - 1 > 0
        BY <2>2, <2>9, <4>1 DEF EmptyAt
      <4>3. EndsLine(x, k - 1)
        BY <4>1, <4>2, SseAssumption DEF EmptyAt
      <4> QED BY <2>2, <2>9, <4>1, <4>2, <4>3 DEF EmptyAt
    <3>2. ReadBy(x, k, s) = s
      BY <2>9 DEF ReadBy
    <3>3. Ok(k, o, l)
      BY <2>1, <2>5, <2>6, <2>9, <3>1, <3>2
    <3> HIDE DEF Ok
    <3> QED BY <2>2, <3>3
  <2>10. CASE ~EndsLine(x, k) /\ x[k] # Cr
    <3>2. /\ ReadBy(x, k, s) = ByState(<<>>, o, Append(l, x[k]))
          /\ Append(l, x[k]) \in Line /\ Append(l, x[k]) # <<>>
      BY <2>2, <2>10, ReadOther, EmptiesTyped
    <3>1. Ok(k, o, Append(l, x[k])) /\ Append(l, x[k]) \in Line
      BY <2>5, <2>6, <2>10, <3>2
    <3> HIDE DEF Ok
    <3> QED BY <2>2, <3>1
  <2> QED BY <2>7, <2>8, <2>9, <2>10
<1> HIDE DEF G
<1>7. m \in G
  BY <1>4, <1>5, <1>6, Climb
<1>8. PICK o \in Event, l \in Line : Ok(m, o, l)
  BY <1>7 DEF G
<1>9. b[m].lines = o /\ b[m].line = l
  BY <1>8 DEF LineState
<1> QED BY <1>1, <1>8, <1>9

\* Where the first delimiter begins and ends, and what it ends.
LEMMA AtDelimiter ==
  ASSUME NEW x \in Seq(Byte), Uniform(x), Boundaries(x) # {}
  PROVE  \E p \in 1..Len(x), e \in 1..Len(x) :
           /\ FrameOf(x) = SubSeq(x, 1, p - 1) /\ RestOf(x) = SubSeq(x, e + 1, Len(x))
           /\ p < e /\ \A c \in Boundaries(x) : p - 1 < c[1] + c[2] - 1
           /\ p > 1 => (x[p - 1] = Cr => x[p] # Lf)
           /\ \/ e = p + 1 /\ EndsLine(x, p) /\ EndsLine(x, e)
              \/ /\ e = p + 3 /\ x[p] = Cr /\ x[p + 2] = Cr /\ EndsLine(x, p + 1) /\ EndsLine(x, e)
                 /\ ~EndsLine(x, p) /\ ~EndsLine(x, p + 2)
           /\ \/ \A i \in DOMAIN x : x[i] # Cr
              \/ \A i \in DOMAIN x : x[i] # Lf
              \/ x[e] = Lf
<1>1. Len(x) \in Nat /\ DOMAIN x = 1..Len(x)
  BY LenProperties
<1>2. PICK p \in 1..Len(x), w \in {2, 4} :
        /\ NextBoundary(x) = <<p, w>> /\ p + w - 1 <= Len(x) /\ <<p, w>> \in Boundaries(x)
        /\ \A c \in Boundaries(x) : p <= c[1]
  <2>1. LET b == NextBoundary(x)
        IN  b \in Boundaries(x) /\ (\A c \in Boundaries(x) : b[1] <= c[1])
            /\ b[1] \in 1..Len(x) /\ b[2] \in {2, 4} /\ b[1] + b[2] - 1 <= Len(x) /\ b = <<b[1], b[2]>>
    BY FirstBoundary
  <2> QED BY <2>1
<1> DEFINE e == p + w - 1
<1>3. e \in 1..Len(x) /\ p < e /\ p \in Nat /\ p > 0 /\ p + w = e + 1 /\ p <= Len(x)
  BY <1>1, <1>2
<1>4. FrameOf(x) = SubSeq(x, 1, p - 1) /\ RestOf(x) = SubSeq(x, e + 1, Len(x))
  BY <1>2, <1>3 DEF FrameOf, RestOf
<1>5. \A c \in Boundaries(x) : p - 1 < c[1] + c[2] - 1
  <2>1. ASSUME NEW c \in Boundaries(x) PROVE p - 1 < c[1] + c[2] - 1
    <3>1. c[1] \in 1..Len(x) /\ c[2] \in {2, 4} /\ p <= c[1]
      BY <1>2 DEF Boundaries
    <3> QED BY <1>1, <1>3, <3>1
  <2> QED BY <2>1
<1>6. CASE w = 2
  <2>0. <<p, 2>> \in Boundaries(x)
    BY <1>2, <1>6
  <2>1. Ends2(x, p) /\ e = p + 1
    <3>1. Ends2(x, p)
      BY <1>3, <2>0, BoundaryBytes
    <3>2. e = p + 1
      BY <1>3, <1>6
    <3> QED BY <3>1, <3>2
  <2>2. p + 1 <= Len(x) /\ ((x[p] = Lf /\ x[p + 1] = Lf) \/ (x[p] = Cr /\ x[p + 1] = Cr))
    BY <2>1 DEF Ends2
  <2>3. \/ \A i \in DOMAIN x : x[i] # Cr
        \/ \A i \in DOMAIN x : x[i] # Lf
    <3>1. SUFFICES ASSUME \A i \in DOMAIN x : /\ x[i] = Cr => i < Len(x) /\ x[i + 1] = Lf
                                              /\ x[i] = Lf => i > 1 /\ x[i - 1] = Cr
                   PROVE  FALSE
      BY DEF Uniform
    <3>2. p \in DOMAIN x /\ p + 1 \in DOMAIN x /\ (p + 1) - 1 = p
      BY <1>1, <1>3, <2>2
    <3>3. (x[p] = Cr => x[p + 1] = Lf) /\ (x[p + 1] = Lf => x[p] = Cr)
      BY <3>1, <3>2
    <3> QED BY <2>2, <3>3, SseAssumption
  <2>4. /\ (x[p] = Lf \/ x[p] = Cr) /\ (x[p + 1] = Lf \/ x[p + 1] = Cr)
        /\ x[p] = Cr => x[p + 1] # Lf
        /\ x[p + 1] = Cr /\ p + 1 < Len(x) => x[(p + 1) + 1] # Lf
        /\ p > 1 => (x[p - 1] = Cr => x[p] # Lf)
    <3>1. /\ p \in DOMAIN x /\ p + 1 \in DOMAIN x
          /\ p > 1 => p - 1 \in DOMAIN x
          /\ p + 1 < Len(x) => (p + 1) + 1 \in DOMAIN x
      BY <1>1, <1>3, <2>2
    <3> QED BY <2>2, <2>3, <3>1, SseAssumption
  <2>5. EndsLine(x, p) /\ EndsLine(x, p + 1)
    BY <2>4 DEF EndsLine
  <2> QED BY <1>3, <1>4, <1>5, <2>1, <2>3, <2>4, <2>5
<1>7. CASE w = 4
  <2>0. <<p, 4>> \in Boundaries(x)
    BY <1>2, <1>7
  <2>1. Ends4(x, p) /\ e = p + 3
    <3>1. Ends4(x, p)
      BY <1>3, <2>0, BoundaryBytes
    <3>2. e = p + 3
      BY <1>3, <1>7
    <3> QED BY <3>1, <3>2
  <2>2. p + 3 <= Len(x) /\ x[p] = Cr /\ x[p + 1] = Lf /\ x[p + 2] = Cr /\ x[p + 3] = Lf
    BY <2>1 DEF Ends4
  <2>3. EndsLine(x, p + 1) /\ EndsLine(x, p + 3)
    BY <2>2 DEF EndsLine
  <2>4. ~EndsLine(x, p) /\ ~EndsLine(x, p + 2)
    <3>1. (p + 2) + 1 = p + 3 /\ p < Len(x) /\ p + 2 < Len(x)
      BY <1>1, <1>3, <2>2
    <3> QED BY <2>2, <3>1, SseAssumption DEF EndsLine
  <2>5. x[p] # Lf
    BY <2>2, SseAssumption
  <2> QED BY <1>3, <1>4, <1>5, <2>1, <2>2, <2>3, <2>4, <2>5
<1> QED BY <1>2, <1>6, <1>7

\* Two ends of lines in a row, with nothing or half an end before each.
LEMMA TwoEnds ==
  ASSUME NEW x \in Seq(Byte), NEW i \in DOMAIN x, NEW j \in DOMAIN x, EndsLine(x, i), EndsLine(x, j),
         NEW o \in Event, NEW l \in Line
  PROVE  ReadBy(x, j, ReadBy(x, i, ByState(<<>>, o, l))) = ByState(EventOf(Noted(o, l)), <<>>, <<>>)
<1>1. EventOf(o) \in Seq(Event) /\ Noted(o, l) \in Event /\ EventOf(Noted(o, l)) \in Seq(Event)
  BY NotedTyped
<1>2. \A d \in Seq(Event) : <<>> \o d = d /\ d \o <<>> = d
  BY ConcatEmptySeq
<1>3. EventOf(<<>>) = <<>>
  BY DEF EventOf
<1>4. CASE l = <<>>
  <2>1. ReadBy(x, i, ByState(<<>>, o, l)) = ByState(<<>> \o EventOf(o), <<>>, <<>>)
    BY <1>4, ReadEmptyLine, EmptiesTyped
  <2>2. <<>> \o EventOf(o) = EventOf(o)
    BY <1>1, <1>2
  <2>3. ReadBy(x, j, ByState(EventOf(o), <<>>, <<>>)) = ByState(EventOf(o) \o EventOf(<<>>), <<>>, <<>>)
    BY <1>1, ReadEmptyLine, EmptiesTyped
  <2>4. EventOf(o) \o EventOf(<<>>) = EventOf(o)
    BY <1>1, <1>2, <1>3
  <2>5. Noted(o, l) = o
    BY <1>4 DEF Noted
  <2> QED BY <2>1, <2>2, <2>3, <2>4, <2>5
<1>5. CASE l # <<>>
  <2> DEFINE o2 == Noted(o, l)
  <2>1. ReadBy(x, i, ByState(<<>>, o, l)) = ByState(<<>>, o2, <<>>)
    BY <1>5, ReadFullLine, EmptiesTyped
  <2>2. ReadBy(x, j, ByState(<<>>, o2, <<>>)) = ByState(<<>> \o EventOf(o2), <<>>, <<>>)
    BY <1>1, ReadEmptyLine, EmptiesTyped
  <2>3. <<>> \o EventOf(o2) = EventOf(o2)
    BY <1>1, <1>2
  <2> QED BY <2>1, <2>2, <2>3
<1> QED BY <1>4, <1>5

BackFrom(x, e, y) == e + Len(y) = Len(x) /\ \A k \in 1..Len(y) : y[k] = x[e + k]

\* What follows the first delimiter is read as on its own.
LEMMA ReadOn ==
  ASSUME NEW x \in Seq(Byte), NEW e \in 1..Len(x), NEW y \in Seq(Byte),
         BackFrom(x, e, y), NEW a, ReadsBy(a, x), NEW d \in Seq(Event), a[e] = ByState(d, <<>>, <<>>)
  PROVE  ByLines(x) = d \o ByLines(y)
<1> DEFINE n == Len(y)
<1>1. Len(x) \in Nat /\ n \in Nat /\ e + n = Len(x) /\ e \in Nat /\ \A k \in 1..n : y[k] = x[e + k]
  BY LenProperties DEF BackFrom
<1>2. PICK b : ReadsBy(b, y)
  BY ByLinesRun
<1>3. /\ a \in [0..Len(x) -> ByStates] /\ \A k \in 1..Len(x) : a[k] = ReadBy(x, k, a[k - 1])
      /\ ByLines(x) = ByResult(a[Len(x)])
      /\ b \in [0..n -> ByStates] /\ b[0] = ByState(<<>>, <<>>, <<>>)
      /\ \A k \in 1..n : b[k] = ReadBy(y, k, b[k - 1])
      /\ ByLines(y) = ByResult(b[n])
  BY <1>2 DEF ReadsBy
<1>4. DOMAIN x = 1..Len(x) /\ DOMAIN y = 1..n
  BY LenProperties
<1> HIDE DEF n
<1> DEFINE Ok(k, f, o, l) == a[e + k] = ByState(d \o f, o, l) /\ b[k] = ByState(f, o, l)
           G == {k \in 0..n : \E f \in Seq(Event), o \in Event, l \in Line : Ok(k, f, o, l)}
<1>5. 0 \in G
  <2>1. d \o <<>> = d /\ e + 0 = e
    BY <1>1, ConcatEmptySeq
  <2>2. Ok(0, <<>>, <<>>, <<>>)
    BY <1>3, <2>1
  <2> HIDE DEF Ok
  <2>3. \E f \in Seq(Event), o \in Event, l \in Line : Ok(0, f, o, l)
    BY <2>2, EmptiesTyped
  <2> QED BY <1>1, <2>3
<1>6. ASSUME NEW k \in 1..n, k - 1 \in G PROVE k \in G
  <2>1. PICK f \in Seq(Event), o \in Event, l \in Line : Ok(k - 1, f, o, l)
    BY <1>6
  <2>2. e + k \in DOMAIN x /\ k \in DOMAIN y /\ (e + k) - 1 = e + (k - 1) /\ k \in 0..n /\ x[e + k] = y[k]
    BY <1>1, <1>4
  <2>3. EndsLine(x, e + k) <=> EndsLine(y, k)
    <3>1. e + k < Len(x) <=> k < n
      BY <1>1
    <3>2. k < n => x[(e + k) + 1] = y[k + 1]
      <4>1. ASSUME k < n PROVE k + 1 \in 1..n /\ e + (k + 1) = (e + k) + 1
        BY <1>1, <4>1
      <4> QED BY <1>1, <4>1
    <3> QED BY <2>2, <3>1, <3>2 DEF EndsLine, n
  <2> DEFINE s == ByState(d \o f, o, l)
             t == ByState(f, o, l)
  <2>4. a[e + k] = ReadBy(x, e + k, s) /\ b[k] = ReadBy(y, k, t)
    <3>1. a[e + k] = ReadBy(x, e + k, a[(e + k) - 1])
      BY <1>3, <1>4, <2>2
    <3>2. b[k] = ReadBy(y, k, b[k - 1])
      BY <1>3
    <3> QED BY <2>1, <2>2, <3>1, <3>2
  <2>5. d \o f \in Seq(Event)
    BY ConcatProperties
  <2>6. CASE EndsLine(y, k) /\ l = <<>>
    <3>1. EventOf(o) \in Seq(Event) /\ f \o EventOf(o) \in Seq(Event)
      BY NotedTyped, ConcatProperties
    <3>2. (d \o f) \o EventOf(o) = d \o (f \o EventOf(o))
      BY <3>1, EventsAssociate
    <3>3. ReadBy(x, e + k, s) = ByState((d \o f) \o EventOf(o), <<>>, <<>>)
      BY <2>2, <2>3, <2>5, <2>6, ReadEmptyLine
    <3>4. ReadBy(y, k, t) = ByState(f \o EventOf(o), <<>>, <<>>)
      BY <2>2, <2>6, ReadEmptyLine
    <3>5. Ok(k, f \o EventOf(o), <<>>, <<>>)
      BY <2>4, <3>2, <3>3, <3>4
    <3> HIDE DEF Ok
    <3> QED BY <2>2, <3>1, <3>5, EmptiesTyped
  <2>7. CASE EndsLine(y, k) /\ l # <<>>
    <3>1. Noted(o, l) \in Event
      BY NotedTyped
    <3>2. ReadBy(x, e + k, s) = ByState(d \o f, Noted(o, l), <<>>)
      BY <2>2, <2>3, <2>5, <2>7, ReadFullLine
    <3>3. ReadBy(y, k, t) = ByState(f, Noted(o, l), <<>>)
      BY <2>2, <2>7, ReadFullLine
    <3>4. Ok(k, f, Noted(o, l), <<>>)
      BY <2>4, <3>2, <3>3
    <3> HIDE DEF Ok
    <3> QED BY <2>2, <3>1, <3>4, EmptiesTyped
  <2>8. CASE ~EndsLine(y, k) /\ y[k] = Cr
    <3>1. ReadBy(x, e + k, s) = s /\ ReadBy(y, k, t) = t
      BY <2>2, <2>3, <2>8 DEF ReadBy
    <3>2. Ok(k, f, o, l)
      BY <2>4, <3>1
    <3> HIDE DEF Ok
    <3> QED BY <2>2, <3>2
  <2>9. CASE ~EndsLine(y, k) /\ y[k] # Cr
    <3>1. ReadBy(x, e + k, s) = ByState(d \o f, o, Append(l, x[e + k])) /\ Append(l, x[e + k]) \in Line
      <4>1. PICK j \in DOMAIN x : j = e + k
        BY <2>2
      <4>2. ~EndsLine(x, j) /\ x[j] # Cr
        BY <2>2, <2>3, <2>9, <4>1
      <4>3. ReadBy(x, j, s) = ByState(d \o f, o, Append(l, x[j])) /\ Append(l, x[j]) \in Line
        BY ZenonT(60), <2>5, <4>2, ReadOther
      <4> QED BY <4>1, <4>3
    <3>2. ReadBy(y, k, t) = ByState(f, o, Append(l, y[k]))
      BY <2>2, <2>9, ReadOther
    <3>3. Ok(k, f, o, Append(l, x[e + k]))
      BY <2>2, <2>4, <3>1, <3>2
    <3> HIDE DEF Ok
    <3> QED BY <2>2, <3>1, <3>3
  <2> QED BY <2>6, <2>7, <2>8, <2>9
<1> HIDE DEF G
<1>7. n \in G
  <2>1. n \in Nat /\ n \in 0..n
    BY <1>1
  <2>2. 0..n \subseteq G
    BY <1>5, <1>6, <2>1, Climb
  <2> QED BY <2>1, <2>2
<1>8. PICK f \in Seq(Event), o \in Event, l \in Line : Ok(n, f, o, l)
  BY <1>7 DEF G
<1> DEFINE g == EventOf(Noted(o, l))
<1>9. ByResult(b[n]) = f \o g /\ ByResult(a[Len(x)]) = (d \o f) \o g
  <2>1. d \o f \in Seq(Event)
    BY ConcatProperties
  <2>2. ASSUME NEW h \in Seq(Event) PROVE ByResult(ByState(h, o, l)) = h \o g
    <3>1. PICK s : s = ByState(h, o, l) /\ s.done = h /\ s.open = o /\ s.line = l
      BY ByStateTyped
    <3> QED BY <3>1 DEF ByResult
  <2>3. a[Len(x)] = ByState(d \o f, o, l) /\ b[n] = ByState(f, o, l)
    BY <1>1, <1>8
  <2> HIDE DEF g
  <2> QED BY <2>1, <2>2, <2>3
<1>10. g \in Seq(Event)
  <2>1. Noted(o, l) \in Event
    BY NotedTyped
  <2> QED BY <2>1, NotedTyped, EmptiesTyped
<1>11. (d \o f) \o g = d \o (f \o g)
  BY <1>10, EventsAssociate
<1> QED BY <1>3, <1>9, <1>11

LEMMA BackIs ==
  ASSUME NEW x \in Seq(Byte), NEW e \in 1..Len(x)
  PROVE  SubSeq(x, e + 1, Len(x)) \in Seq(Byte) /\ BackFrom(x, e, SubSeq(x, e + 1, Len(x)))
<1> DEFINE y == SubSeq(x, e + 1, Len(x))
<1>1. Len(x) \in Nat /\ e \in Nat /\ e <= Len(x)
  BY LenProperties
<1>2. \A i \in (e + 1)..Len(x) : x[i] \in Byte
  <2>1. \A i \in 1..Len(x) : x[i] \in Byte
    BY ElementOfSeq
  <2> QED BY <1>1, <2>1
<1>3. /\ y \in Seq(Byte)
      /\ Len(y) = IF e + 1 <= Len(x) THEN Len(x) - (e + 1) + 1 ELSE 0
      /\ \A i \in 1..(Len(x) - (e + 1) + 1) : y[i] = x[(e + 1) + i - 1]
  BY <1>1, <1>2, SubSeqProperties
<1> HIDE DEF y
<1>4. Len(y) = Len(x) - e /\ Len(x) - (e + 1) + 1 = Len(x) - e
  BY <1>1, <1>3
<1>5. ASSUME NEW k \in 1..Len(y) PROVE y[k] = x[e + k]
  <2>1. k \in 1..(Len(x) - (e + 1) + 1) /\ (e + 1) + k - 1 = e + k
    BY <1>1, <1>4
  <2> QED BY <1>3, <2>1
<1>6. e + Len(y) = Len(x)
  BY <1>1, <1>4
<1> QED BY <1>3, <1>5, <1>6 DEF BackFrom, y

\* What follows the first delimiter has its ends of lines as well.
LEMMA UniformRest ==
  ASSUME NEW x \in Seq(Byte), Uniform(x), NEW e \in 1..Len(x), NEW y \in Seq(Byte), BackFrom(x, e, y),
         \/ \A i \in DOMAIN x : x[i] # Cr
         \/ \A i \in DOMAIN x : x[i] # Lf
         \/ x[e] = Lf
  PROVE  Uniform(y)
<1>1. /\ Len(x) \in Nat /\ Len(y) \in Nat /\ e \in Nat /\ e + Len(y) = Len(x)
      /\ \A k \in 1..Len(y) : y[k] = x[e + k]
      /\ DOMAIN x = 1..Len(x) /\ DOMAIN y = 1..Len(y)
  BY LenProperties DEF BackFrom
<1>2. \A k \in 1..Len(y) : e + k \in DOMAIN x
  BY <1>1
<1>3. CASE \A i \in DOMAIN x : x[i] # Cr
  <2>1. \A k \in DOMAIN y : y[k] # Cr
    BY <1>1, <1>2, <1>3
  <2> QED BY <2>1 DEF Uniform
<1>4. CASE \A i \in DOMAIN x : x[i] # Lf
  <2>1. \A k \in DOMAIN y : y[k] # Lf
    BY <1>1, <1>2, <1>4
  <2> QED BY <2>1 DEF Uniform
<1>5. CASE /\ x[e] = Lf
           /\ \A i \in DOMAIN x : /\ x[i] = Cr => i < Len(x) /\ x[i + 1] = Lf
                                  /\ x[i] = Lf => i > 1 /\ x[i - 1] = Cr
  <2>1. ASSUME NEW k \in DOMAIN y
        PROVE  /\ y[k] = Cr => k < Len(y) /\ y[k + 1] = Lf
               /\ y[k] = Lf => k > 1 /\ y[k - 1] = Cr
    <3>1. y[k] = x[e + k] /\ e + k \in DOMAIN x /\ k \in Nat /\ k > 0
      BY <1>1, <1>2
    <3>2. ASSUME y[k] = Cr PROVE k < Len(y) /\ y[k + 1] = Lf
      <4>1. e + k < Len(x) /\ x[(e + k) + 1] = Lf
        BY <1>5, <3>1, <3>2
      <4>2. k < Len(y) /\ k + 1 \in 1..Len(y) /\ e + (k + 1) = (e + k) + 1
        BY <1>1, <3>1, <4>1
      <4> QED BY <1>1, <4>1, <4>2
    <3>3. ASSUME y[k] = Lf PROVE k > 1 /\ y[k - 1] = Cr
      <4>1. x[(e + k) - 1] = Cr
        BY <1>5, <3>1, <3>3
      <4>2. k # 1
        <5>1. SUFFICES ASSUME k = 1 PROVE FALSE
          OBVIOUS
        <5>2. x[e] = Cr
          BY <1>1, <4>1, <5>1
        <5> QED BY <1>5, <5>2, SseAssumption
      <4>3. k - 1 \in 1..Len(y) /\ e + (k - 1) = (e + k) - 1
        BY <1>1, <3>1, <4>2
      <4> QED BY <1>1, <3>1, <4>1, <4>2, <4>3
    <3> QED BY <3>2, <3>3
  <2> QED BY <2>1 DEF Uniform
<1> QED BY <1>3, <1>4, <1>5 DEF Uniform

\* The events of the standard: that of the first frame, and those of the rest.
LEMMA ByLinesUnfold ==
  ASSUME NEW x \in Seq(Byte), Uniform(x)
  PROVE  /\ Boundaries(x) = {} => ByLines(x) = ParseFrame(x)
         /\ Boundaries(x) # {} => /\ Uniform(RestOf(x))
                                  /\ ByLines(x) = ParseFrame(FrameOf(x)) \o ByLines(RestOf(x))
<1>1. PICK a : ReadsBy(a, x)
  BY ByLinesRun
<1>2. Len(x) \in Nat /\ DOMAIN x = 1..Len(x)
  BY LenProperties
<1>3. CASE Boundaries(x) = {}
  <2>1. Len(x) \in 0..Len(x)
    BY <1>2
  <2>2. PICK o \in Event, l \in Line : a[Len(x)] = ByState(<<>>, o, l) /\ LinesOf(x) = Noted(o, l)
    BY <1>1, <1>3, <2>1, ReadAlikeUpTo
  <2>3. ByLines(x) = ByResult(a[Len(x)])
    BY <1>1 DEF ReadsBy
  <2>4. PICK s : s = ByState(<<>>, o, l) /\ s.done = <<>> /\ s.open = o /\ s.line = l
    <3>1. PICK d \in Seq(Event) : d = <<>>
      BY EmptiesTyped
    <3>2. ByState(d, o, l).done = d /\ ByState(d, o, l).open = o /\ ByState(d, o, l).line = l
      BY ByStateTyped
    <3> QED BY <3>1, <3>2
  <2>5. ByLines(x) = <<>> \o EventOf(LinesOf(x))
    BY <2>2, <2>3, <2>4 DEF ByResult
  <2>6. EventOf(LinesOf(x)) \in Seq(Event)
    BY FrameTyped DEF ParseFrame
  <2> QED BY <1>3, <2>5, <2>6, ConcatEmptySeq DEF ParseFrame
<1>4. CASE Boundaries(x) # {}
  <2>1. PICK p \in 1..Len(x), e \in 1..Len(x) :
           /\ FrameOf(x) = SubSeq(x, 1, p - 1) /\ RestOf(x) = SubSeq(x, e + 1, Len(x))
           /\ p < e /\ \A c \in Boundaries(x) : p - 1 < c[1] + c[2] - 1
           /\ p > 1 => (x[p - 1] = Cr => x[p] # Lf)
           /\ \/ e = p + 1 /\ EndsLine(x, p) /\ EndsLine(x, e)
              \/ /\ e = p + 3 /\ x[p] = Cr /\ x[p + 2] = Cr /\ EndsLine(x, p + 1) /\ EndsLine(x, e)
                 /\ ~EndsLine(x, p) /\ ~EndsLine(x, p + 2)
           /\ \/ \A i \in DOMAIN x : x[i] # Cr
              \/ \A i \in DOMAIN x : x[i] # Lf
              \/ x[e] = Lf
    BY <1>4, AtDelimiter
  <2> DEFINE f == FrameOf(x)
             y == RestOf(x)
             m == p - 1
  <2>2. f \in Seq(Byte) /\ y \in Seq(Byte)
    BY <1>4, CutOff
  <2>3. BackFrom(x, e, y)
    BY <2>1, BackIs
  <2>4. Uniform(y)
    BY <2>1, <2>2, <2>3, UniformRest
  <2>5. m \in 0..Len(x) /\ p \in Nat /\ m \in Nat
    BY <1>2
  <2>6. Len(f) = m /\ \A j \in 1..m : f[j] = x[j]
    <3>1. \A i \in 1..m : x[i] \in Byte
      <4>1. \A i \in 1..m : i \in 1..Len(x)
        BY <1>2, <2>5
      <4> QED BY <4>1, ElementOfSeq
    <3>2. f = SubSeq(x, 1, m)
      BY <2>1
    <3>3. 1 \in Int /\ m \in Int /\ m - 1 + 1 = m /\ (IF 1 <= m THEN m - 1 + 1 ELSE 0) = m
      BY <2>5
    <3> HIDE DEF f, m
    <3>4. Len(f) = m /\ \A i \in 1..m : f[i] = x[1 + i - 1]
      BY <3>1, <3>2, <3>3, SubSeqProperties
    <3> QED BY <3>4
  <2>7. ASSUME NEW j \in 1..m PROVE EndsLine(f, j) <=> EndsLine(x, j)
    <3>1. j \in 1..Len(x) /\ j < Len(x) /\ f[j] = x[j] /\ Len(f) = m /\ j \in Nat /\ j <= m
      BY <1>2, <2>5, <2>6
    <3>2. CASE j < m
      <4>1. j + 1 \in 1..m /\ f[j + 1] = x[j + 1]
        BY <2>5, <2>6, <3>1, <3>2
      <4> QED BY <3>1, <3>2, <4>1 DEF EndsLine
    <3>3. CASE j = m
      <4>1. x[j] = Cr => x[j + 1] # Lf
        BY <2>1, <2>5, <3>1, <3>3
      <4>2. ~(j < Len(f))
        BY <2>5, <3>1, <3>3
      <4> QED BY <3>1, <4>1, <4>2 DEF EndsLine
    <3> QED BY <2>5, <3>1, <3>2, <3>3
  <2>8. PICK o \in Event, l \in Line : a[m] = ByState(<<>>, o, l) /\ LinesOf(f) = Noted(o, l)
    <3>1. \A c \in Boundaries(x) : m < c[1] + c[2] - 1
      BY <2>1
    <3> HIDE DEF m, f
    <3> QED BY <1>1, <2>2, <2>5, <2>6, <2>7, <3>1, ReadAlikeUpTo
  <2> DEFINE s == ByState(<<>>, o, l)
             d == EventOf(Noted(o, l))
  <2>9. \A k \in 1..Len(x) : a[k] = ReadBy(x, k, a[k - 1])
    BY <1>1 DEF ReadsBy
  <2>10. a[e] = ByState(d, <<>>, <<>>)
    <3>1. CASE e = p + 1 /\ EndsLine(x, p) /\ EndsLine(x, e)
      <4>1. p \in DOMAIN x /\ e \in DOMAIN x /\ e - 1 = p /\ p - 1 = m
        BY <1>2, <2>5, <3>1
      <4>2. a[p] = ReadBy(x, p, s) /\ a[e] = ReadBy(x, e, a[p])
        BY <1>2, <2>8, <2>9, <4>1
      <4> QED BY <3>1, <4>1, <4>2, TwoEnds
    <3>2. CASE /\ e = p + 3 /\ x[p] = Cr /\ x[p + 2] = Cr /\ EndsLine(x, p + 1) /\ EndsLine(x, e)
               /\ ~EndsLine(x, p) /\ ~EndsLine(x, p + 2)
      <4>1. PICK q \in DOMAIN x, r \in DOMAIN x :
              /\ q = p + 1 /\ r = p + 2 /\ q - 1 = p /\ r - 1 = q /\ e - 1 = r
              /\ p \in DOMAIN x /\ e \in DOMAIN x
        <5>1. p + 1 \in DOMAIN x /\ p + 2 \in DOMAIN x /\ (p + 1) - 1 = p /\ (p + 2) - 1 = p + 1 /\ e - 1 = p + 2
          BY <1>2, <2>5, <3>2
        <5> QED BY <1>2, <5>1
      <4>2. a[p] = ReadBy(x, p, a[m]) /\ a[q] = ReadBy(x, q, a[p])
            /\ a[r] = ReadBy(x, r, a[q]) /\ a[e] = ReadBy(x, e, a[r])
        BY SMTT(30), <1>2, <2>9, <4>1
      <4>3. a[p] = a[m] /\ a[r] = a[q]
        BY <3>2, <4>1, <4>2 DEF ReadBy
      <4>4. a[e] = ReadBy(x, e, ReadBy(x, q, s))
        BY <2>8, <4>2, <4>3
      <4>5. EndsLine(x, q) /\ EndsLine(x, e)
        BY <3>2, <4>1
      <4> QED BY <4>1, <4>4, <4>5, TwoEnds
    <3> QED BY <2>1, <3>1, <3>2
  <2>11. d = ParseFrame(f) /\ d \in Seq(Event)
    BY <2>2, <2>8, FrameTyped DEF ParseFrame
  <2>12. ByLines(x) = d \o ByLines(y)
    <3>1. PICK g \in Seq(Event), z \in Seq(Byte) :
            g = d /\ z = y /\ BackFrom(x, e, z) /\ a[e] = ByState(g, <<>>, <<>>)
      <4> HIDE DEF d, y
      <4> QED BY <2>2, <2>3, <2>10, <2>11
    <3>2. ByLines(x) = g \o ByLines(z)
      <4>1. e \in 1..Len(x)
        BY <2>1
      <4>2. BackFrom(x, e, z) /\ a[e] = ByState(g, <<>>, <<>>)
        BY <3>1
      <4> HIDE DEF f, y, m
      <4> QED BY <1>1, <4>1, <4>2, ReadOn
    <3> QED BY <3>1, <3>2
  <2> QED BY <1>4, <2>4, <2>11, <2>12
<1> QED BY <1>3, <1>4

LEMMA DecodeUnfold ==
  ASSUME NEW x \in Seq(Byte)
  PROVE  /\ Boundaries(x) = {} => DecodeSse(x) = ParseFrame(x)
         /\ Boundaries(x) # {} => DecodeSse(x) = ParseFrame(FrameOf(x)) \o DecodeSse(RestOf(x))
<1>1. CASE Boundaries(x) = {}
  <2>1. TakeFrames(x) = Left(x, <<>>)
    BY <1>1, FramesUnfold
  <2>2. TakeFrames(x).rest = x /\ TakeFrames(x).got = <<>>
    BY <2>1, AtParts
  <2>3. <<>> \o ParseFrame(x) = ParseFrame(x)
    BY FrameTyped, ConcatEmptySeq
  <2> QED BY <1>1, <2>2, <2>3 DEF DecodeSse
<1>2. CASE Boundaries(x) # {}
  <2> DEFINE y == RestOf(x)
             d == ParseFrame(FrameOf(x))
  <2>1. y \in Seq(Byte) /\ FrameOf(x) \in Seq(Byte)
    BY <1>2, CutOff
  <2>2. TakeFrames(x) = Left(TakeFrames(y).rest, d \o TakeFrames(y).got)
    BY <1>2, FramesUnfold
  <2>3. TakeFrames(x).rest = TakeFrames(y).rest /\ TakeFrames(x).got = d \o TakeFrames(y).got
    <3>1. PICK u, r, g : u = TakeFrames(x) /\ r = TakeFrames(y).rest /\ g = d \o TakeFrames(y).got
      OBVIOUS
    <3>2. u = Left(r, g)
      BY <2>2, <3>1
    <3>3. u.rest = r /\ u.got = g
      BY <3>2, AtParts
    <3> QED BY <3>1, <3>3
  <2>4. d \in Seq(Event) /\ TakeFrames(y).got \in Seq(Event) /\ ParseFrame(TakeFrames(y).rest) \in Seq(Event)
    <3>1. d \in Seq(Event)
      BY <2>1, FrameTyped
    <3>2. TakeFrames(y).got \in Seq(Event) /\ TakeFrames(y).rest \in Seq(Byte)
      BY <2>1, FramesTyped
    <3>3. PICK r \in Seq(Byte) : r = TakeFrames(y).rest
      BY <3>2
    <3>4. ParseFrame(r) \in Seq(Event)
      BY FrameTyped
    <3> QED BY <3>1, <3>2, <3>3, <3>4
  <2>5. (d \o TakeFrames(y).got) \o ParseFrame(TakeFrames(y).rest)
          = d \o (TakeFrames(y).got \o ParseFrame(TakeFrames(y).rest))
    BY <2>4, EventsAssociate
  <2> HIDE DEF d, y
  <2>6. DecodeSse(x) = d \o DecodeSse(y)
    BY <2>3, <2>5 DEF DecodeSse
  <2> QED BY <1>2, <2>6 DEF d, y
<1> QED BY <1>1, <1>2

\* Where the ends of lines are not mixed the decoder follows the standard.
LEMMA StandardRead == \A x \in Seq(Byte) : Uniform(x) => DecodeSse(x) = ByLines(x)
<1> DEFINE Bad == {n \in Nat : \E x \in Seq(Byte) : Len(x) = n /\ Uniform(x) /\ DecodeSse(x) # ByLines(x)}
<1>1. SUFFICES ASSUME NEW x \in Seq(Byte), Uniform(x), DecodeSse(x) # ByLines(x) PROVE FALSE
  OBVIOUS
<1>2. PICK n \in Bad : \A k \in Bad : n <= k
  <2>1. Bad \subseteq Nat /\ Len(x) \in Bad
    BY <1>1, LenProperties
  <2> HIDE DEF Bad
  <2>2. Bad \subseteq Nat /\ Bad # {}
    BY <2>1
  <2> QED BY <2>2, Least
<1>3. PICK w \in Seq(Byte) : Len(w) = n /\ Uniform(w) /\ DecodeSse(w) # ByLines(w)
  BY <1>2
<1>4. CASE Boundaries(w) = {}
  BY <1>3, <1>4, DecodeUnfold, ByLinesUnfold
<1>5. CASE Boundaries(w) # {}
  <2>1. RestOf(w) \in Seq(Byte) /\ Len(RestOf(w)) \in Nat /\ Len(RestOf(w)) < n /\ Uniform(RestOf(w))
    BY <1>3, <1>5, CutOff, ByLinesUnfold
  <2>2. Len(RestOf(w)) \notin Bad
    BY <1>2, <2>1
  <2>3. DecodeSse(RestOf(w)) = ByLines(RestOf(w))
    BY <2>1, <2>2
  <2> QED BY <1>3, <1>5, <2>3, DecodeUnfold, ByLinesUnfold
<1> QED BY <1>4, <1>5

LEMMA SseKept == SseInv => ChunksInvisible
BY StandardRead DEF SseInv, ChunksInvisible

-----------------------------------------------------------------------------
(* Cbor *)

\* What the bytes of a head say.
HeadSays(h, major, n) ==
  /\ h \in Seq(Octet) /\ h[1] \in Octet /\ h[1] \div 32 = major
  /\ \/ Len(h) = 1 /\ h[1] % 32 = n /\ n <= 23
     \/ Len(h) = 2 /\ h[1] % 32 = 24 /\ h[2] = n /\ n \in Octet
     \/ Len(h) = 3 /\ h[1] % 32 = 25 /\ h[2] \in Octet /\ h[3] \in Octet /\ n = h[2] * 256 + h[3]
     \/ /\ Len(h) = 5 /\ h[1] % 32 = 26
        /\ h[2] \in Octet /\ h[3] \in Octet /\ h[4] \in Octet /\ h[5] \in Octet
        /\ n = ((h[2] * 256 + h[3]) * 256 + h[4]) * 256 + h[5]

LEMMA FirstByte ==
  ASSUME NEW major \in 0..7, NEW info \in 0..31
  PROVE  /\ major * 32 + info \in Octet
         /\ (major * 32 + info) \div 32 = major /\ (major * 32 + info) % 32 = info
BY SMT DEF Octet

LEMMA TwoBytes ==
  ASSUME NEW n \in Nat, n <= 65535
  PROVE  n \div 256 \in Octet /\ n % 256 \in Octet /\ n = ((n \div 256) * 256) + (n % 256)
<1>1. n \div 256 \in Nat /\ n \div 256 <= 255 /\ n % 256 \in 0..255
  BY SMT
<1>2. n = ((n \div 256) * 256) + (n % 256)
  BY SMT
<1> QED BY SMT, <1>1, <1>2 DEF Octet

LEMMA FourBytes ==
  ASSUME NEW n \in Nat, n <= 2147483647
  PROVE  LET a == n \div 16777216
             b == (n \div 65536) % 256
             c == (n \div 256) % 256
             d == n % 256
         IN  /\ a \in Octet /\ b \in Octet /\ c \in Octet /\ d \in Octet
             /\ n = ((((((a * 256) + b) * 256) + c) * 256) + d)
<1> DEFINE e == n \div 256
           f == e \div 256
<1>1. e \in Nat /\ n % 256 \in 0..255 /\ n = (e * 256) + (n % 256)
  BY SMT
<1>2. f \in Nat /\ e % 256 \in 0..255 /\ e = (f * 256) + (e % 256)
  BY SMT
<1>3. f \div 256 \in Nat /\ f % 256 \in 0..255 /\ f = ((f \div 256) * 256) + (f % 256)
  BY SMT, <1>2
<1>4. n \div 65536 = f /\ n \div 16777216 = f \div 256
  BY SMT
<1>5. n \div 16777216 \in Nat /\ n \div 16777216 <= 255
  BY SMT
<1> HIDE DEF e, f
<1>6. n \div 16777216 \in 0..255
  BY SMT, <1>5
<1> QED BY SMT, <1>1, <1>2, <1>3, <1>4, <1>6 DEF Octet, e

LEMMA GreatestIs == Greatest31 = 2147483647 /\ Greatest31 \in Nat
BY SMT DEF Greatest31

LEMMA HeadBytes ==
  ASSUME NEW major \in 0..7, NEW n \in Nat, n <= Greatest31
  PROVE  HeadSays(CborHead(major, n), major, n)
<1> DEFINE h == CborHead(major, n)
<1>1. n \in Nat /\ n <= 2147483647
  BY SMT, GreatestIs
<1>2. CASE n <= 23
  <2>1. n \in 0..31 /\ h = <<major * 32 + n>>
    BY SMT, <1>1, <1>2 DEF CborHead
  <2>2. major * 32 + n \in Octet /\ (major * 32 + n) \div 32 = major /\ (major * 32 + n) % 32 = n
    BY SMT, <2>1, FirstByte
  <2> HIDE DEF h
  <2>3. h \in Seq(Octet) /\ Len(h) = 1 /\ h[1] = major * 32 + n
    BY SMT, <2>1, <2>2
  <2> QED BY SMT, <1>2, <2>2, <2>3 DEF HeadSays, h
<1>3. CASE ~(n <= 23) /\ n <= 255
  <2>1. 24 \in 0..31 /\ n \in Octet /\ h = <<major * 32 + 24, n>>
    BY SMT, <1>1, <1>3 DEF CborHead, Octet
  <2>2. major * 32 + 24 \in Octet /\ (major * 32 + 24) \div 32 = major /\ (major * 32 + 24) % 32 = 24
    BY SMT, <2>1, FirstByte
  <2> HIDE DEF h
  <2>3. h \in Seq(Octet) /\ Len(h) = 2 /\ h[1] = major * 32 + 24 /\ h[2] = n
    BY SMT, <2>1, <2>2
  <2> QED BY SMT, <2>1, <2>2, <2>3 DEF HeadSays, h
<1>4. CASE ~(n <= 255) /\ n <= 65535
  <2>1. 25 \in 0..31 /\ n <= 65535 /\ h = <<major * 32 + 25, n \div 256, n % 256>>
    BY SMT, <1>1, <1>4 DEF CborHead
  <2>2. major * 32 + 25 \in Octet /\ (major * 32 + 25) \div 32 = major /\ (major * 32 + 25) % 32 = 25
    BY SMT, <2>1, FirstByte
  <2>3. n \div 256 \in Octet /\ n % 256 \in Octet /\ n = ((n \div 256) * 256) + (n % 256)
    BY SMT, <1>1, <2>1, TwoBytes
  <2> HIDE DEF h
  <2>4. h \in Seq(Octet) /\ Len(h) = 3 /\ h[1] = major * 32 + 25 /\ h[2] = n \div 256 /\ h[3] = n % 256
    BY SMT, <2>1, <2>2, <2>3
  <2> QED BY SMT, <2>2, <2>3, <2>4 DEF HeadSays, h
<1>5. CASE ~(n <= 65535)
  <2> DEFINE a == n \div 16777216
             b == (n \div 65536) % 256
             c == (n \div 256) % 256
             d == n % 256
  <2>1. 26 \in 0..31 /\ h = <<major * 32 + 26, a, b, c, d>>
    BY SMT, <1>1, <1>5 DEF CborHead
  <2>2. major * 32 + 26 \in Octet /\ (major * 32 + 26) \div 32 = major /\ (major * 32 + 26) % 32 = 26
    BY SMT, <2>1, FirstByte
  <2>3. a \in Octet /\ b \in Octet /\ c \in Octet /\ d \in Octet
        /\ n = ((a * 256 + b) * 256 + c) * 256 + d
    BY SMT, <1>1, FourBytes
  <2> HIDE DEF h, a, b, c, d
  <2>4. h \in Seq(Octet) /\ Len(h) = 5 /\ h[1] = major * 32 + 26 /\ h[2] = a /\ h[3] = b /\ h[4] = c /\ h[5] = d
    BY SMT, <2>1, <2>2, <2>3
  <2> QED BY SMT, <2>2, <2>3, <2>4 DEF HeadSays, h
<1> QED BY SMT, <1>1, <1>2, <1>3, <1>4, <1>5

\* Data has the bytes e from pos on; it has some of them and then ends.
Holds(data, pos, e) ==
  /\ pos + Len(e) - 1 <= Len(data)
  /\ \A i \in 1..Len(e) : data[pos + i - 1] = e[i]
Stops(data, pos, e) ==
  /\ Len(data) < pos + Len(e) - 1
  /\ \A i \in 1..Len(e) : pos + i - 1 <= Len(data) => data[pos + i - 1] = e[i]

LEMMA Joined ==
  ASSUME NEW h \in Seq(Octet), NEW t \in Seq(Octet)
  PROVE  /\ h \o t \in Seq(Octet) /\ Len(h \o t) = Len(h) + Len(t)
         /\ Len(h) \in Nat /\ Len(t) \in Nat
         /\ \A i \in 1..Len(h) : i \in 1..(Len(h) + Len(t)) /\ (h \o t)[i] = h[i]
         /\ \A i \in 1..Len(t) : /\ Len(h) + i \in 1..(Len(h) + Len(t))
                                 /\ (h \o t)[Len(h) + i] = t[i]
<1> DEFINE w == h \o t
           a == Len(h)
           b == Len(t)
<1>1. a \in Nat /\ b \in Nat
  OBVIOUS
<1>2. /\ w \in Seq(Octet) /\ Len(w) = a + b
      /\ \A i \in 1..(a + b) : w[i] = IF i <= a THEN h[i] ELSE t[i - a]
  BY ConcatProperties
<1> HIDE DEF w, a, b
<1>3. \A i \in 1..a : i \in 1..(a + b) /\ w[i] = h[i]
  BY <1>1, <1>2
<1>4. ASSUME NEW i \in 1..b PROVE a + i \in 1..(a + b) /\ w[a + i] = t[i]
  <2>1. PICK j \in 1..(a + b) : j = a + i /\ ~(j <= a) /\ j - a = i
    BY <1>1
  <2>2. w[j] = t[j - a]
    BY <1>2, <2>1
  <2> QED BY <2>1, <2>2
<1> QED BY <1>1, <1>2, <1>3, <1>4 DEF w, a, b

LEMMA HoldsBoth ==
  ASSUME NEW data \in Seq(Octet), NEW pos \in Positions,
         NEW h \in Seq(Octet), NEW t \in Seq(Octet), Holds(data, pos, h \o t)
  PROVE  Holds(data, pos, h) /\ Holds(data, pos + Len(h), t)
<1> DEFINE w == h \o t
           a == Len(h)
           b == Len(t)
<1>1. /\ w \in Seq(Octet) /\ Len(w) = a + b /\ a \in Nat /\ b \in Nat
      /\ \A i \in 1..a : i \in 1..(a + b) /\ w[i] = h[i]
      /\ \A i \in 1..b : a + i \in 1..(a + b) /\ w[a + i] = t[i]
  BY Joined
<1>2. pos \in Nat /\ Len(data) \in Nat
  BY DEF Positions
<1>3. pos + (a + b) - 1 <= Len(data) /\ \A i \in 1..(a + b) : data[pos + i - 1] = w[i]
  BY <1>1 DEF Holds
<1> HIDE DEF w, a, b
<1>4. ASSUME NEW i \in 1..b PROVE data[pos + a + i - 1] = t[i]
  <2>1. PICK j \in 1..(a + b) : j = a + i /\ w[j] = t[i] /\ pos + j - 1 = pos + a + i - 1
    BY <1>1, <1>2
  <2> QED BY <1>3, <2>1
<1>5. pos + a - 1 <= Len(data) /\ pos + a + b - 1 <= Len(data)
  BY <1>1, <1>2, <1>3
<1>6. \A i \in 1..a : data[pos + i - 1] = h[i]
  BY <1>1, <1>3
<1> QED BY <1>4, <1>5, <1>6 DEF Holds, a, b

LEMMA StopsOne ==
  ASSUME NEW data \in Seq(Octet), NEW pos \in Positions,
         NEW h \in Seq(Octet), NEW t \in Seq(Octet), Stops(data, pos, h \o t)
  PROVE  Stops(data, pos, h) \/ (Holds(data, pos, h) /\ Stops(data, pos + Len(h), t))
<1> DEFINE w == h \o t
           a == Len(h)
           b == Len(t)
<1>1. /\ w \in Seq(Octet) /\ Len(w) = a + b /\ a \in Nat /\ b \in Nat
      /\ \A i \in 1..a : i \in 1..(a + b) /\ w[i] = h[i]
      /\ \A i \in 1..b : a + i \in 1..(a + b) /\ w[a + i] = t[i]
  BY Joined
<1>2. pos \in Nat /\ Len(data) \in Nat
  BY DEF Positions
<1>3. /\ Len(data) < pos + (a + b) - 1
      /\ \A i \in 1..(a + b) : pos + i - 1 <= Len(data) => data[pos + i - 1] = w[i]
  BY <1>1 DEF Stops
<1> HIDE DEF w, a, b
<1>4. \A i \in 1..a : pos + i - 1 <= Len(data) => data[pos + i - 1] = h[i]
  BY <1>1, <1>3
<1>5. CASE Len(data) < pos + a - 1
  BY <1>4, <1>5 DEF Stops, a
<1>6. CASE ~(Len(data) < pos + a - 1)
  <2>1. pos + a - 1 <= Len(data) /\ \A i \in 1..a : pos + i - 1 <= Len(data)
    BY <1>1, <1>2, <1>6
  <2>2. ASSUME NEW i \in 1..b, pos + a + i - 1 <= Len(data) PROVE data[pos + a + i - 1] = t[i]
    <3>1. PICK j \in 1..(a + b) : j = a + i /\ w[j] = t[i] /\ pos + j - 1 = pos + a + i - 1
      BY <1>1, <1>2
    <3> QED BY <1>3, <2>2, <3>1
  <2>3. Len(data) < pos + a + b - 1
    BY <1>1, <1>2, <1>3
  <2>4. Holds(data, pos, h)
    BY <1>4, <2>1 DEF Holds, a
  <2>5. Stops(data, pos + a, t)
    BY <2>2, <2>3 DEF Stops, b
  <2> QED BY <2>4, <2>5 DEF a
<1> QED BY <1>5, <1>6

\* The bytes that are there are those of e.
LEMMA HeldBytes ==
  ASSUME NEW data \in Seq(Octet), NEW pos \in Positions, NEW e \in Seq(Octet), Holds(data, pos, e)
  PROVE  BytesAt(data, pos, Len(e)) = e
<1> DEFINE n == Len(e)
           s == SubSeq(data, pos, pos + n - 1)
<1>1. pos \in Nat /\ pos >= 1 /\ n \in Nat /\ Len(data) \in Nat
      /\ pos + n - 1 <= Len(data) /\ \A i \in 1..n : data[pos + i - 1] = e[i] /\ e[i] \in Octet
  BY DEF Positions, Holds
<1>2. \A i \in pos..(pos + n - 1) : data[i] \in Octet
  <2>1. \A i \in pos..(pos + n - 1) : i \in 1..Len(data)
    BY <1>1
  <2> QED BY <2>1
<1>3. /\ s \in Seq(Octet) /\ Len(s) = IF pos <= pos + n - 1 THEN pos + n - 1 - pos + 1 ELSE 0
      /\ \A i \in 1..(pos + n - 1 - pos + 1) : s[i] = data[pos + i - 1]
  <2>1. pos \in Int /\ pos + n - 1 \in Int
    BY <1>1
  <2> QED BY <1>2, <2>1, SubSeqProperties
<1> HIDE DEF s, n
<1>4. pos + n - 1 - pos + 1 = n
  BY <1>1
<1>5. Len(s) = n
  BY <1>1, <1>3
<1>6. \A i \in 1..n : s[i] = e[i]
  BY <1>1, <1>3, <1>4
<1>7. s = e
  BY <1>3, <1>5, <1>6, SeqEqual DEF n
<1> QED BY <1>7 DEF BytesAt, s, n

-----------------------------------------------------------------------------
LEMMA Bytes ==
  ASSUME NEW bytes \in Seq(Octet)
  PROVE  /\ Len(bytes) \in Nat /\ DOMAIN bytes = 1..Len(bytes)
         /\ \A k \in 1..Len(bytes) : bytes[k] \in Octet /\ bytes[k] \in Nat
<1>1. \A x \in Octet : x \in Nat
  BY DEF Octet
<1>2. \A k \in 1..Len(bytes) : bytes[k] \in Octet
  OBVIOUS
<1> QED BY <1>1, <1>2

\* The number that bytes say is made from the first to the last.
LEMMA BigEndianRuns ==
  ASSUME NEW bytes \in Seq(Octet)
  PROVE  \E sum \in [0..Len(bytes) -> Nat] :
            /\ sum[0] = 0 /\ BigEndian(bytes) = sum[Len(bytes)]
            /\ \A k \in 1..Len(bytes) : sum[k] = (sum[k - 1] * 256) + bytes[k]
<1> DEFINE n == Len(bytes)
           turns == [i \in DOMAIN bytes |-> [sum \in Nat |-> sum * 256 + bytes[i]]]
           G == (0..n) \X Nat
<1>1. n \in Nat /\ DOMAIN bytes = 1..n /\ \A i \in 1..n : bytes[i] \in Nat
  BY Bytes
<1>2. \A i \in 1..n : \A s \in Nat : turns[i][s] = (s * 256) + bytes[i]
  BY <1>1
<1>10. \A i \in 1..n : \A s \in Nat : turns[i][s] \in Nat
  <2> HIDE DEF turns, n
  <2>1. ASSUME NEW i \in 1..n, NEW s \in Nat PROVE (s * 256) + bytes[i] \in Nat
    BY <1>1
  <2>2. ASSUME NEW i \in 1..n, NEW s \in Nat PROVE turns[i][s] \in Nat
    <3>1. PICK w \in Nat : w = (s * 256) + bytes[i]
      BY <2>1
    <3>2. turns[i][s] = w
      BY <1>2, <3>1
    <3> QED BY <3>2
  <2> QED BY <2>2
<1>3. Len(turns) = n
  <2>1. turns \in [1..n -> [Nat -> Nat]]
    BY <1>1
  <2> HIDE DEF turns, n
  <2> QED BY <1>1, <2>1, ListOf
<1>4. BigEndian(bytes) = Looped(turns, 0)
  BY DEF BigEndian
<1> HIDE DEF turns, n
<1>5. <<0, 0>> \in G /\ \A k \in 1..n : \A s \in Nat :
        <<k - 1, s>> \in G => turns[k][s] \in Nat /\ <<k, turns[k][s]>> \in G
  <2>1. <<0, 0>> \in G
    BY <1>1
  <2>2. ASSUME NEW k \in 1..n, NEW s \in Nat PROVE turns[k][s] \in Nat /\ <<k, turns[k][s]>> \in G
    <3>1. turns[k][s] \in Nat /\ k \in 0..n
      BY <1>1, <1>10
    <3> QED BY <3>1
  <2> QED BY <2>1, <2>2
<1> HIDE DEF G
<1>6. Len(turns) \in Nat /\ 0 \in Nat /\ \A k \in 1..Len(turns) : \A s \in Nat :
        <<k - 1, s>> \in G => turns[k][s] \in Nat /\ <<k, turns[k][s]>> \in G
  BY <1>1, <1>3, <1>5
<1>7. PICK sum : Passes(sum, turns, 0, Nat)
  BY <1>5, <1>6, LoopedRuns
<1>8. sum \in [0..n -> Nat] /\ sum[0] = 0 /\ Looped(turns, 0) = sum[n]
      /\ \A k \in 1..n : sum[k] = turns[k][sum[k - 1]]
  BY <1>3, <1>7 DEF Passes
<1>9. ASSUME NEW k \in 1..n PROVE sum[k] = (sum[k - 1] * 256) + bytes[k]
  <2>1. k - 1 \in 0..n
    BY <1>1
  <2>2. sum[k - 1] \in Nat
    BY <1>8, <2>1
  <2> QED BY <1>2, <1>8, <2>2
<1> QED BY <1>4, <1>8, <1>9 DEF n

LEMMA BigEndianOne ==
  ASSUME NEW bytes \in Seq(Octet)
  PROVE  /\ BigEndian(bytes) \in Nat
         /\ Len(bytes) = 1 => BigEndian(bytes) = bytes[1]
         /\ Len(bytes) = 2 => BigEndian(bytes) = bytes[1] * 256 + bytes[2]
         /\ Len(bytes) = 4 => BigEndian(bytes) = ((bytes[1] * 256 + bytes[2]) * 256 + bytes[3]) * 256 + bytes[4]
<1> DEFINE n == Len(bytes)
<1>1. PICK sum \in [0..n -> Nat] :
            /\ sum[0] = 0 /\ BigEndian(bytes) = sum[n]
            /\ \A k \in 1..n : sum[k] = (sum[k - 1] * 256) + bytes[k]
  BY BigEndianRuns
<1>2. n \in Nat /\ \A k \in 1..n : bytes[k] \in Nat
  BY Bytes
<1> HIDE DEF n
<1>3. BigEndian(bytes) \in Nat
  BY <1>1, <1>2
<1>4. ASSUME n \in {1, 2, 4} PROVE sum[1] = bytes[1]
  <2>1. 1 \in 1..n /\ 1 - 1 = 0
    BY <1>2, <1>4
  <2> QED BY <1>1, <1>2, <2>1
<1>5. ASSUME n \in {2, 4} PROVE sum[2] = bytes[1] * 256 + bytes[2]
  <2>1. 2 \in 1..n /\ 2 - 1 = 1
    BY <1>2, <1>5
  <2> QED BY <1>1, <1>2, <1>4, <1>5, <2>1
<1>6. ASSUME n = 4 PROVE sum[4] = ((bytes[1] * 256 + bytes[2]) * 256 + bytes[3]) * 256 + bytes[4]
  <2>1. 3 \in 1..n /\ 3 - 1 = 2 /\ 4 \in 1..n /\ 4 - 1 = 3
    BY <1>2, <1>6
  <2>2. sum[3] = (sum[2] * 256) + bytes[3] /\ sum[4] = (sum[3] * 256) + bytes[4]
    BY <1>1, <2>1
  <2> QED BY <1>5, <1>6, <2>2
<1> QED BY ZenonT(60), <1>1, <1>3, <1>4, <1>5, <1>6 DEF n

\* How many bytes a head's number takes after its first.
NumberSize(info) ==
  CASE info <= 23 -> 0 [] info = 24 -> 1 [] info = 25 -> 2 [] info = 26 -> 4 [] OTHER -> 8

LEMMA ReadIntIs ==
  ASSUME NEW data \in Seq(Octet), NEW pos \in Positions, NEW info \in 0..31
  PROVE  /\ NumberSize(info) \in {0, 1, 2, 4, 8}
         /\ ReadIntAt(data, pos, info) =
              IF info > 27 \/ pos + NumberSize(info) - 1 > Len(data) THEN Fails
              ELSE IF NumberSize(info) = 0 THEN Reads(info, pos)
              ELSE Reads(BigEndian(BytesAt(data, pos, NumberSize(info))), pos + NumberSize(info))
<1>1. NumberSize(info) \in {0, 1, 2, 4, 8}
  BY DEF NumberSize
<1> QED BY <1>1 DEF ReadIntAt, NumberSize

LEMMA Low ==
  ASSUME NEW b \in Octet
  PROVE  b % 32 \in 0..31 /\ b \div 32 \in 0..7 /\ b \in Nat
BY SMT DEF Octet

\* Some bytes of data that are all there.
LEMMA Piece ==
  ASSUME NEW data \in Seq(Octet), NEW pos \in Positions, NEW n \in Nat, pos + n - 1 <= Len(data)
  PROVE  /\ BytesAt(data, pos, n) \in Seq(Octet) /\ Len(BytesAt(data, pos, n)) = n
         /\ \A i \in 1..n : BytesAt(data, pos, n)[i] = data[pos + i - 1]
<1> DEFINE m == pos + n - 1
           r == SubSeq(data, pos, m)
<1>1. pos \in Int /\ pos >= 1 /\ Len(data) \in Nat /\ m \in Int /\ m <= Len(data) /\ m - pos + 1 = n
      /\ (pos <= m <=> n # 0)
  BY DEF Positions
<1>2. BytesAt(data, pos, n) = r
  BY DEF BytesAt
<1> HIDE DEF m
<1>3. \A i \in pos..m : data[i] \in Octet
  <2>1. \A i \in pos..m : i \in 1..Len(data)
    BY <1>1
  <2> QED BY <2>1
<1>4. /\ r \in Seq(Octet) /\ Len(r) = IF pos <= m THEN m - pos + 1 ELSE 0
      /\ \A i \in 1..(m - pos + 1) : r[i] = data[pos + i - 1]
  BY <1>1, <1>3, SubSeqProperties
<1> HIDE DEF r
<1> QED BY <1>1, <1>2, <1>4

\* What is left of a head of n bytes after its first.
LEMMA HeadRest ==
  ASSUME NEW data \in Seq(Octet), NEW pos \in Positions, NEW h \in Seq(Octet),
         NEW n \in Nat, Len(h) = n + 1, Holds(data, pos, h)
  PROVE  LET r == BytesAt(data, pos + 1, n) IN
         /\ r \in Seq(Octet) /\ Len(r) = n /\ \A i \in 1..n : r[i] = h[i + 1]
<1> DEFINE r == BytesAt(data, pos + 1, n)
<1>1. pos \in Nat /\ pos >= 1 /\ Len(data) \in Nat /\ pos + n <= Len(data)
      /\ \A i \in 1..(n + 1) : data[pos + i - 1] = h[i]
  BY DEF Positions, Holds
<1>2. PICK p \in Positions : p = pos + 1 /\ p + n - 1 <= Len(data)
  BY <1>1 DEF Positions
<1>3. r \in Seq(Octet) /\ Len(r) = n /\ \A i \in 1..n : r[i] = data[p + i - 1]
  BY <1>2, Piece
<1> HIDE DEF r
<1>7. ASSUME NEW i \in 1..n PROVE r[i] = h[i + 1]
  <2>1. i + 1 \in 1..(n + 1) /\ pos + (i + 1) - 1 = p + i - 1
    BY <1>1, <1>2
  <2> QED BY <1>1, <1>3, <2>1
<1> QED BY <1>3, <1>7 DEF r

LEMMA SizedRead ==
  ASSUME NEW data \in Seq(Octet), NEW pos \in Positions, NEW h \in Seq(Octet),
         NEW n \in Nat, n # 0, Len(h) = n + 1, Holds(data, pos, h),
         NEW info \in 0..31, info <= 27, NumberSize(info) = n
  PROVE  ReadIntAt(data, pos + 1, info) = Reads(BigEndian(BytesAt(data, pos + 1, n)), pos + Len(h))
<1>1. n \in Nat /\ pos + 1 \in Positions /\ pos + Len(h) - 1 <= Len(data) /\ pos \in Nat /\ Len(data) \in Nat
  BY DEF Positions, Holds
<1>2. info \in 0..31 /\ ~(info > 27) /\ ~(pos + 1 + n - 1 > Len(data)) /\ n # 0
      /\ pos + 1 + n = pos + Len(h)
  BY <1>1
<1>3. ReadIntAt(data, pos + 1, info) = Reads(BigEndian(BytesAt(data, pos + 1, n)), pos + Len(h))
  BY <1>1, <1>2, ReadIntIs
<1> QED BY <1>3

\* A head says its number, with the type, and where it ends.
LEMMA HeadRead ==
  ASSUME NEW data \in Seq(Octet), NEW pos \in Positions, NEW major \in 0..7, NEW n \in Nat,
         NEW h, HeadSays(h, major, n), Holds(data, pos, h)
  PROVE  /\ pos <= Len(data) /\ data[pos] \in Octet /\ data[pos] \div 32 = major
         /\ ReadIntAt(data, pos + 1, data[pos] % 32) = Reads(n, pos + Len(h))
<1> DEFINE first == data[pos]
           info == first % 32
<1>1. h \in Seq(Octet) /\ h[1] \in Octet /\ h[1] \div 32 = major /\ Len(h) \in {1, 2, 3, 5}
  BY DEF HeadSays
<1>2. pos \in Nat /\ pos >= 1 /\ Len(data) \in Nat /\ pos + Len(h) - 1 <= Len(data)
      /\ \A i \in 1..Len(h) : data[pos + i - 1] = h[i]
  BY DEF Positions, Holds
<1>3. first = h[1] /\ pos <= Len(data)
  <2>1. 1 \in 1..Len(h) /\ pos + 1 - 1 = pos
    BY <1>1, <1>2
  <2>2. data[pos + 1 - 1] = h[1]
    BY <1>2, <2>1
  <2>3. pos <= Len(data)
    BY <1>1, <1>2
  <2> QED BY <2>1, <2>2, <2>3
<1> HIDE DEF first
<1>4. info \in 0..31
  BY <1>1, <1>3, Low
<1> HIDE DEF info
<1>5. ReadIntAt(data, pos + 1, info) = Reads(n, pos + Len(h))
  <2>0. pos + 1 \in Positions
    BY <1>2 DEF Positions
  <2>1. CASE Len(h) = 1 /\ info = n /\ n <= 23
    <3>1. NumberSize(info) = 0
      BY <1>4, <2>1 DEF NumberSize
    <3>2. ~(info > 27) /\ ~(pos + 1 + 0 - 1 > Len(data))
      BY <1>2, <1>4, <1>3, <2>1
    <3>3. ReadIntAt(data, pos + 1, info) = Reads(info, pos + 1)
      BY <1>4, <2>0, <3>1, <3>2, ReadIntIs
    <3> QED BY <2>1, <3>3
  <2>3. CASE Len(h) = 2 /\ info = 24 /\ h[2] = n /\ n \in Octet
    <3>1. PICK k \in Nat : k = 1
      OBVIOUS
    <3>5. k # 0 /\ Len(h) = k + 1 /\ info <= 27 /\ NumberSize(info) = k
      BY <2>3, <3>1 DEF NumberSize
    <3>6. h \in Seq(Octet)
      BY <1>1
    <3> DEFINE r == BytesAt(data, pos + 1, k)
    <3>7. ReadIntAt(data, pos + 1, info) = Reads(BigEndian(r), pos + Len(h))
      BY ZenonT(60), <1>4, <3>5, <3>6, SizedRead
    <3>2. r \in Seq(Octet) /\ Len(r) = k /\ \A i \in 1..k : r[i] = h[i + 1]
      <4>1. k \in Nat
        OBVIOUS
      <4> QED BY <3>5, <3>6, <4>1, HeadRest
    <3> HIDE DEF r
    <3>3. Len(r) \in {1, 2, 4} /\ r[1] = h[2]
      BY <3>1, <3>2
    <3>4. BigEndian(r) = r[1]
      BY <3>1, <3>2, BigEndianOne
    <3> QED BY <2>3, <3>7, <3>3, <3>4
  <2>4. CASE /\ Len(h) = 3 /\ info = 25 /\ h[2] \in Octet /\ h[3] \in Octet
             /\ n = h[2] * 256 + h[3]
    <3>1. PICK k \in Nat : k = 2
      OBVIOUS
    <3>5. k # 0 /\ Len(h) = k + 1 /\ info <= 27 /\ NumberSize(info) = k
      BY <2>4, <3>1 DEF NumberSize
    <3>6. h \in Seq(Octet)
      BY <1>1
    <3> DEFINE r == BytesAt(data, pos + 1, k)
    <3>7. ReadIntAt(data, pos + 1, info) = Reads(BigEndian(r), pos + Len(h))
      BY ZenonT(60), <1>4, <3>5, <3>6, SizedRead
    <3>2. r \in Seq(Octet) /\ Len(r) = k /\ \A i \in 1..k : r[i] = h[i + 1]
      <4>1. k \in Nat
        OBVIOUS
      <4> QED BY <3>5, <3>6, <4>1, HeadRest
    <3> HIDE DEF r
    <3>3. Len(r) \in {1, 2, 4} /\ r[1] = h[2] /\ r[2] = h[3]
      BY <3>1, <3>2
    <3>4. BigEndian(r) = r[1] * 256 + r[2]
      BY <3>1, <3>2, BigEndianOne
    <3> QED BY <2>4, <3>7, <3>3, <3>4
  <2>5. CASE /\ Len(h) = 5 /\ info = 26
             /\ h[2] \in Octet /\ h[3] \in Octet /\ h[4] \in Octet /\ h[5] \in Octet
             /\ n = ((h[2] * 256 + h[3]) * 256 + h[4]) * 256 + h[5]
    <3>1. PICK k \in Nat : k = 4
      OBVIOUS
    <3>5. k # 0 /\ Len(h) = k + 1 /\ info <= 27 /\ NumberSize(info) = k
      BY <2>5, <3>1 DEF NumberSize
    <3>6. h \in Seq(Octet)
      BY <1>1
    <3> DEFINE r == BytesAt(data, pos + 1, k)
    <3>7. ReadIntAt(data, pos + 1, info) = Reads(BigEndian(r), pos + Len(h))
      BY <1>4, <3>5, <3>6, SizedRead
    <3>2. r \in Seq(Octet) /\ Len(r) = k /\ \A i \in 1..k : r[i] = h[i + 1]
      <4>1. k \in Nat
        OBVIOUS
      <4> QED BY <3>5, <3>6, <4>1, HeadRest
    <3> HIDE DEF r
    <3>3. Len(r) \in {1, 2, 4} /\ r[1] = h[2] /\ r[2] = h[3] /\ r[3] = h[4] /\ r[4] = h[5]
      BY <3>1, <3>2
    <3>4. BigEndian(r) = ((r[1] * 256 + r[2]) * 256 + r[3]) * 256 + r[4]
      BY <3>1, <3>2, BigEndianOne
    <3> QED BY <2>5, <3>7, <3>3, <3>4
  <2> QED BY <1>3, <2>1, <2>3, <2>4, <2>5 DEF HeadSays, info
<1> QED BY <1>1, <1>3, <1>5 DEF info, first

\* Of a head that is not all there the number cannot be read.
LEMMA HeadCut ==
  ASSUME NEW data \in Seq(Octet), NEW pos \in Positions, NEW major \in 0..7, NEW n \in Nat,
         NEW h, HeadSays(h, major, n), Stops(data, pos, h)
  PROVE  \/ pos > Len(data)
         \/ /\ pos <= Len(data) /\ data[pos] \in Octet /\ data[pos] \div 32 = major
            /\ ReadIntAt(data, pos + 1, data[pos] % 32) = Fails
<1> DEFINE first == data[pos]
           info == first % 32
<1>1. h \in Seq(Octet) /\ h[1] \in Octet /\ h[1] \div 32 = major /\ Len(h) \in {1, 2, 3, 5}
  BY DEF HeadSays
<1>2. pos \in Nat /\ pos >= 1 /\ Len(data) \in Nat /\ Len(data) < pos + Len(h) - 1
      /\ \A i \in 1..Len(h) : pos + i - 1 <= Len(data) => data[pos + i - 1] = h[i]
  <2>1. pos \in Nat /\ pos >= 1
    BY DEF Positions
  <2>2. Len(data) \in Nat
    OBVIOUS
  <2>3. Len(data) < pos + Len(h) - 1
        /\ \A i \in 1..Len(h) : pos + i - 1 <= Len(data) => data[pos + i - 1] = h[i]
    BY DEF Stops
  <2> QED BY <2>1, <2>2, <2>3
<1>3. SUFFICES ASSUME pos <= Len(data) PROVE first = h[1] /\ ReadIntAt(data, pos + 1, info) = Fails
  BY <1>1, <1>2
<1>4. first = h[1]
  <2>1. 1 \in 1..Len(h) /\ pos + 1 - 1 = pos
    BY <1>1, <1>2
  <2> QED BY <1>2, <1>3, <2>1
<1> HIDE DEF first
<1>5. info \in 0..31
  BY <1>1, <1>4, Low
<1>6. \/ Len(h) = 2 /\ info = 24
      \/ Len(h) = 3 /\ info = 25
      \/ Len(h) = 5 /\ info = 26
  <2>1. SUFFICES ASSUME Len(h) = 1 PROVE FALSE
    BY <1>4 DEF HeadSays
  <2>2. Len(data) < pos + 1 - 1
    BY <1>2, <2>1
  <2>3. pos \in Nat /\ Len(data) \in Nat /\ pos <= Len(data)
    BY <1>2, <1>3
  <2> QED BY <2>2, <2>3
<1> HIDE DEF info
<1>7. NumberSize(info) + 1 = Len(h)
  BY <1>6 DEF NumberSize
<1>8. pos + 1 + NumberSize(info) - 1 > Len(data) /\ pos + 1 \in Positions
  <2>1. NumberSize(info) \in Nat
    BY <1>6 DEF NumberSize
  <2> QED BY <1>2, <1>7, <2>1 DEF Positions
<1> QED BY <1>4, <1>5, <1>8, ReadIntIs

\* What E writes of the values in P, R reads as a value of V.
Fits(E, R, V, P) ==
  /\ P \subseteq DOMAIN E /\ P \subseteq V
  /\ R \in [Seq(Octet) \X Positions -> Outcomes(V)]
  /\ \A v \in P : E[v] \in Seq(Octet)
  /\ \A v \in P, data \in Seq(Octet), pos \in Positions :
       /\ Holds(data, pos, E[v]) => R[<<data, pos>>] = Reads(v, pos + Len(E[v]))
       /\ Stops(data, pos, E[v]) => R[<<data, pos>>] = Fails

\* What is written of a list's items is written of the first of them, and more.
Writes(J, items, E) ==
  /\ J \in [0..Len(items) -> Seq(Octet)]
  /\ J[0] = <<>>
  /\ \A k \in 1..Len(items) : J[k] = J[k - 1] \o E[items[k]]

LEMMA NoOctets == <<>> \in Seq(Octet) /\ Len(<<>>) = 0
  OBVIOUS

LEMMA WrittenRuns ==
  ASSUME NEW P, NEW E, \A v \in P : E[v] \in Seq(Octet), NEW items \in Seq(P)
  PROVE  \E J : Writes(J, items, E) /\ Written(items, E) = J[Len(items)]
<1> DEFINE n == Len(items)
           turns == [i \in DOMAIN items |-> [bytes \in Seq(Octet) |-> bytes \o E[items[i]]]]
           S == Seq(Octet)
           G == (0..n) \X S
<1>1. n \in Nat /\ DOMAIN items = 1..n /\ \A i \in 1..n : E[items[i]] \in S
  OBVIOUS
<1>2. \A i \in 1..n : \A s \in S : turns[i][s] = s \o E[items[i]]
  BY <1>1
<1>3. Len(turns) = n
  <2>1. turns \in [1..n -> [S -> S]]
    <3>1. ASSUME NEW i \in 1..n PROVE [bytes \in S |-> bytes \o E[items[i]]] \in [S -> S]
      <4>1. E[items[i]] \in S
        BY <1>1
      <4>2. \A bytes \in S : bytes \o E[items[i]] \in S
        BY <4>1, ConcatProperties
      <4> QED BY <4>2
    <3>2. turns = [i \in 1..n |-> [bytes \in S |-> bytes \o E[items[i]]]]
      BY <1>1
    <3> QED BY <3>1, <3>2
  <2> HIDE DEF turns, n
  <2> QED BY <1>1, <2>1, ListOf
<1>4. Written(items, E) = Looped(turns, <<>>)
  BY DEF Written
<1> HIDE DEF turns, n
<1>5. ASSUME NEW k \in 1..n, NEW s \in S PROVE turns[k][s] \in S /\ <<k, turns[k][s]>> \in G
  <2>1. turns[k][s] = s \o E[items[k]] /\ E[items[k]] \in S
    BY <1>1, <1>2
  <2>2. turns[k][s] \in S
    BY <2>1, ConcatProperties
  <2>3. k \in 0..n
    BY <1>1
  <2> QED BY <2>2, <2>3
<1>6. PICK none \in S : none = <<>>
  BY NoOctets
<1>7. <<0, none>> \in G
  BY <1>1
<1> HIDE DEF G, S
<1>8. Len(turns) \in Nat /\ \A k \in 1..Len(turns) : \A s \in S :
        <<k - 1, s>> \in G => turns[k][s] \in S /\ <<k, turns[k][s]>> \in G
  BY <1>1, <1>3, <1>5
<1>9. PICK J : Passes(J, turns, none, S)
  BY <1>7, <1>8, LoopedRuns
<1>10. J \in [0..n -> S] /\ J[0] = none /\ Looped(turns, none) = J[n]
       /\ \A k \in 1..n : J[k] = turns[k][J[k - 1]]
  BY <1>3, <1>9 DEF Passes
<1>11. ASSUME NEW k \in 1..n PROVE J[k] = J[k - 1] \o E[items[k]]
  <2>1. k - 1 \in 0..n
    BY <1>1
  <2>2. J[k - 1] \in S
    BY <1>10, <2>1
  <2> QED BY <1>2, <1>10, <2>2
<1> QED BY <1>4, <1>6, <1>10, <1>11 DEF Writes, n, S

-----------------------------------------------------------------------------
\* One turn of reading items.
ItemStates(V) == [ok : BOOLEAN, value : Seq(V), pos : Positions]
NextItem(data, R, got) ==
  LET item == R[<<data, got.pos>>]
  IN  IF got.ok /\ item.ok THEN Reads(Append(got.value, item.value), item.pos)
      ELSE [got EXCEPT !.ok = FALSE]

LEMMA Outcome ==
  ASSUME NEW V, NEW o \in Outcomes(V)
  PROVE  \/ o = Fails /\ ~o.ok
         \/ o.ok /\ o.value \in V /\ o.pos \in Positions /\ o = Reads(o.value, o.pos)
  BY DEF Outcomes, Fails, Reads

LEMMA NextItemTyped ==
  ASSUME NEW V, NEW R \in [Seq(Octet) \X Positions -> Outcomes(V)],
         NEW data \in Seq(Octet), NEW got \in ItemStates(V)
  PROVE  NextItem(data, R, got) \in ItemStates(V)
<1> DEFINE item == R[<<data, got.pos>>]
           x == Append(got.value, item.value)
<1>1. got.ok \in BOOLEAN /\ got.value \in Seq(V) /\ got.pos \in Positions
      /\ got = [ok |-> got.ok, value |-> got.value, pos |-> got.pos]
  BY DEF ItemStates
<1>2. item \in Outcomes(V)
  BY <1>1
<1> HIDE DEF item
<1>3. CASE got.ok /\ item.ok
  <2>1. NextItem(data, R, got) = Reads(x, item.pos)
    BY <1>3 DEF NextItem, item
  <2>2. item.value \in V /\ item.pos \in Positions
    BY <1>2, <1>3, Outcome
  <2>3. x \in Seq(V)
    BY <1>1, <2>2
  <2> HIDE DEF x
  <2> QED BY <2>1, <2>2, <2>3 DEF Reads, ItemStates
<1>4. CASE ~(got.ok /\ item.ok)
  <2>1. NextItem(data, R, got) = [got EXCEPT !.ok = FALSE]
    BY <1>4 DEF NextItem, item
  <2> QED BY <1>1, <2>1 DEF ItemStates
<1> QED BY <1>3, <1>4

LEMMA NextItemOk ==
  ASSUME NEW V, NEW R \in [Seq(Octet) \X Positions -> Outcomes(V)],
         NEW data \in Seq(Octet), NEW got \in ItemStates(V), NextItem(data, R, got).ok
  PROVE  /\ got.ok /\ R[<<data, got.pos>>].ok
         /\ Len(NextItem(data, R, got).value) = Len(got.value) + 1
<1> DEFINE item == R[<<data, got.pos>>]
           x == Append(got.value, item.value)
<1>1. got.value \in Seq(V) /\ got.pos \in Positions /\ "ok" \in DOMAIN got
  BY DEF ItemStates
<1>2. item \in Outcomes(V)
  BY <1>1
<1> HIDE DEF item
<1>3. got.ok /\ item.ok
  <2>1. SUFFICES ASSUME ~(got.ok /\ item.ok) PROVE FALSE
    OBVIOUS
  <2>2. NextItem(data, R, got) = [got EXCEPT !.ok = FALSE]
    BY <2>1 DEF NextItem, item
  <2> QED BY <1>1, <2>2
<1>4. NextItem(data, R, got) = Reads(x, item.pos)
  BY <1>3 DEF NextItem, item
<1>5. Len(x) = Len(got.value) + 1
  <2>1. item.value \in V
    BY <1>2, <1>3, Outcome
  <2> QED BY <1>1, <2>1
<1>6. NextItem(data, R, got).value = x
  BY <1>4 DEF Reads
<1> QED BY <1>3, <1>5, <1>6 DEF item

LEMMA NextItemReads ==
  ASSUME NEW data, NEW R, NEW got, got.ok, NEW v, NEW p, R[<<data, got.pos>>] = Reads(v, p)
  PROVE  NextItem(data, R, got) = Reads(Append(got.value, v), p)
<1> DEFINE item == R[<<data, got.pos>>]
<1>1. item = Reads(v, p)
  OBVIOUS
<1> HIDE DEF item
<1>2. item.ok /\ item.value = v /\ item.pos = p
  BY <1>1 DEF Reads
<1> QED BY <1>2 DEF NextItem, item

\* The states that reading items goes through.
ReadsItems(A, data, pos, n, R, V) ==
  /\ A \in [0..n -> ItemStates(V)]
  /\ A[0] = Reads(<<>>, pos)
  /\ \A k \in 1..n : A[k] = NextItem(data, R, A[k - 1])

LEMMA ItemsRun ==
  ASSUME NEW V, NEW R \in [Seq(Octet) \X Positions -> Outcomes(V)],
         NEW data \in Seq(Octet), NEW pos \in Positions, NEW n \in Nat
  PROVE  \E A : ReadsItems(A, data, pos, n, R, V) /\ ReadItems(data, pos, n, R, V) = A[n]
<1> DEFINE S == ItemStates(V)
           turns == [i \in 1..n |-> [got \in S |-> NextItem(data, R, got)]]
           G == (0..n) \X S
<1>1. Reads(<<>>, pos) \in S
  <2>1. <<>> \in Seq(V)
    OBVIOUS
  <2> QED BY <2>1 DEF ItemStates, Reads
<1>2. \A s \in S : NextItem(data, R, s) \in S
  BY NextItemTyped
<1>3. ReadItems(data, pos, n, R, V) = Looped(turns, Reads(<<>>, pos))
  BY DEF ReadItems, ItemStates, NextItem
<1> HIDE DEF S
<1>4. \A i \in 1..n : \A s \in S : turns[i][s] = NextItem(data, R, s)
  OBVIOUS
<1>5. Len(turns) = n
  <2>1. turns \in [1..n -> [S -> S]]
    BY <1>2
  <2> HIDE DEF turns
  <2> QED BY <2>1, ListOf
<1> HIDE DEF turns
<1>6. ASSUME NEW k \in 1..n, NEW s \in S PROVE turns[k][s] \in S /\ <<k, turns[k][s]>> \in G
  <2>1. turns[k][s] \in S /\ k \in 0..n
    BY <1>2, <1>4
  <2> QED BY <2>1
<1>7. PICK start \in S : start = Reads(<<>>, pos)
  BY <1>1
<1>8. <<0, start>> \in G
  OBVIOUS
<1> HIDE DEF G
<1>9. Len(turns) \in Nat /\ \A k \in 1..Len(turns) : \A s \in S :
        <<k - 1, s>> \in G => turns[k][s] \in S /\ <<k, turns[k][s]>> \in G
  BY <1>5, <1>6
<1>10. PICK A : Passes(A, turns, start, S)
  BY <1>8, <1>9, LoopedRuns
<1>11. A \in [0..n -> S] /\ A[0] = start /\ Looped(turns, start) = A[n]
       /\ \A k \in 1..n : A[k] = turns[k][A[k - 1]]
  BY <1>5, <1>10 DEF Passes
<1>12. ASSUME NEW k \in 1..n PROVE A[k] = NextItem(data, R, A[k - 1])
  <2>1. k - 1 \in 0..n
    OBVIOUS
  <2>2. A[k - 1] \in S
    BY <1>11, <2>1
  <2> QED BY <1>4, <1>11, <2>2
<1> QED BY <1>3, <1>7, <1>11, <1>12 DEF ReadsItems, S

LEMMA FitsSays ==
  ASSUME NEW E, NEW R, NEW V, NEW P, Fits(E, R, V, P),
         NEW v \in P, NEW data \in Seq(Octet), NEW pos \in Positions
  PROVE  /\ E[v] \in Seq(Octet) /\ v \in V /\ v \in DOMAIN E
         /\ Holds(data, pos, E[v]) => R[<<data, pos>>] = Reads(v, pos + Len(E[v]))
         /\ Stops(data, pos, E[v]) => R[<<data, pos>>] = Fails
  BY DEF Fits

\* As far as the items' bytes are there, the items are read; of the first that
\* is not all there, none any more.
ReadUpTo(state, items, k, pos) ==
  /\ state.ok /\ state.pos = pos /\ Len(state.value) = k
  /\ \A j \in 1..k : state.value[j] = items[j]
AsFar(J, A, data, items, pos, k) ==
  /\ Holds(data, pos, J[k]) => ReadUpTo(A[k], items, k, pos + Len(J[k]))
  /\ Stops(data, pos, J[k]) => ~A[k].ok

LEMMA OneFarther ==
  ASSUME NEW E, NEW R, NEW V, NEW P, Fits(E, R, V, P), NEW items \in Seq(P),
         NEW data \in Seq(Octet), NEW pos \in Positions, NEW J, Writes(J, items, E),
         NEW A, ReadsItems(A, data, pos, Len(items), R, V),
         NEW k \in 1..Len(items), AsFar(J, A, data, items, pos, k - 1)
  PROVE  AsFar(J, A, data, items, pos, k)
<1> DEFINE n == Len(items)
<1>1. n \in Nat /\ items[k] \in P /\ k - 1 \in 0..n /\ k \in 0..n /\ k \in Nat /\ k - 1 \in Nat
  OBVIOUS
<1>2. PICK v \in P : v = items[k]
  BY <1>1
<1>3. /\ E[v] \in Seq(Octet) /\ v \in V
      /\ R \in [Seq(Octet) \X Positions -> Outcomes(V)]
  BY <1>2, FitsSays DEF Fits
<1>4. PICK a \in Seq(Octet), w \in Seq(Octet) : a = J[k - 1] /\ w = E[v] /\ J[k] = a \o w
  BY <1>1, <1>2, <1>3 DEF Writes
<1>5. PICK s \in ItemStates(V) : s = A[k - 1] /\ A[k] = NextItem(data, R, s)
  BY <1>1 DEF ReadsItems
<1>6. PICK next \in Positions : next = pos + Len(a)
  BY <1>4 DEF Positions
<1>7. /\ Holds(data, pos, a) => ReadUpTo(s, items, k - 1, next)
      /\ Stops(data, pos, a) => ~s.ok
  BY <1>4, <1>5, <1>6 DEF AsFar
<1>8. /\ Holds(data, next, w) => R[<<data, next>>] = Reads(v, next + Len(w))
      /\ Stops(data, next, w) => R[<<data, next>>] = Fails
  BY <1>4, FitsSays
<1>9. pos + Len(a \o w) = next + Len(w) /\ next + Len(w) \in Positions
  <2>1. Len(a \o w) = Len(a) + Len(w) /\ Len(a) \in Nat /\ Len(w) \in Nat
    BY Joined
  <2> QED BY <1>6, <2>1 DEF Positions
<1>10. ASSUME Holds(data, pos, a \o w) PROVE ReadUpTo(A[k], items, k, next + Len(w))
  <2>1. Holds(data, pos, a) /\ Holds(data, next, w)
    BY <1>6, <1>10, HoldsBoth
  <2>2. s.ok /\ s.pos = next /\ Len(s.value) = k - 1 /\ \A j \in 1..(k - 1) : s.value[j] = items[j]
    BY <1>7, <2>1 DEF ReadUpTo
  <2>3. A[k] = Reads(Append(s.value, v), next + Len(w))
    <3>1. R[<<data, s.pos>>] = Reads(v, next + Len(w))
      BY <1>8, <2>1, <2>2
    <3> QED BY <1>5, <2>2, <3>1, NextItemReads
  <2>4. s.value \in Seq(V)
    BY DEF ItemStates
  <2> DEFINE x == Append(s.value, v)
  <2>5. Len(x) = k /\ \A j \in 1..k : x[j] = items[j]
    <3>1. Len(x) = Len(s.value) + 1 /\ \A j \in 1..Len(s.value) : x[j] = s.value[j]
      BY <1>3, <2>4
    <3>2. x[Len(s.value) + 1] = v
      BY <1>3, <2>4
    <3> HIDE DEF x
    <3>3. \A j \in 1..k : j \in 1..(k - 1) \/ j = k
      BY <1>1
    <3>4. x[k] = v
      BY <1>1, <2>2, <3>2
    <3> QED BY <1>1, <1>2, <2>2, <3>1, <3>3, <3>4
  <2> HIDE DEF x
  <2> QED BY <2>3, <2>5 DEF ReadUpTo, Reads, x
<1>11. ASSUME Stops(data, pos, a \o w) PROVE ~A[k].ok
  <2>1. CASE Stops(data, pos, a)
    <3>1. SUFFICES ASSUME NextItem(data, R, s).ok PROVE FALSE
      BY <1>5
    <3>2. s.ok
      BY <1>3, <3>1, NextItemOk
    <3> QED BY <1>7, <2>1, <3>2
  <2>2. CASE Holds(data, pos, a) /\ Stops(data, next, w)
    <3>1. s.pos = next
      BY <1>7, <2>2 DEF ReadUpTo
    <3>2. ~R[<<data, s.pos>>].ok
      BY <1>8, <2>2, <3>1 DEF Fails
    <3>3. SUFFICES ASSUME NextItem(data, R, s).ok PROVE FALSE
      BY <1>5
    <3> QED BY <1>3, <3>2, <3>3, NextItemOk
  <2> QED BY <1>6, <1>11, <2>1, <2>2, StopsOne
<1> QED BY <1>4, <1>9, <1>10, <1>11 DEF AsFar

\* A list of items that is all there is read, and one that is not is not.
LEMMA ItemsRead ==
  ASSUME NEW E, NEW R, NEW V, NEW P, Fits(E, R, V, P), NEW items \in Seq(P),
         NEW data \in Seq(Octet), NEW pos \in Positions, pos - 1 <= Len(data)
  PROVE  LET w == Written(items, E) IN
         /\ w \in Seq(Octet)
         /\ Holds(data, pos, w) => ReadItems(data, pos, Len(items), R, V) = Reads(items, pos + Len(w))
         /\ Stops(data, pos, w) => ~ReadItems(data, pos, Len(items), R, V).ok
<1> DEFINE n == Len(items)
           w == Written(items, E)
<1>1. n \in Nat /\ pos \in Nat /\ Len(data) \in Nat
  BY DEF Positions
<1>2. /\ R \in [Seq(Octet) \X Positions -> Outcomes(V)]
      /\ \A v \in P : E[v] \in Seq(Octet) /\ P \subseteq V
  BY DEF Fits
<1>3. PICK J : Writes(J, items, E) /\ w = J[n]
  BY <1>2, WrittenRuns
<1>4. PICK A : ReadsItems(A, data, pos, n, R, V) /\ ReadItems(data, pos, n, R, V) = A[n]
  BY <1>1, <1>2, ItemsRun
<1> HIDE DEF w
<1> DEFINE G == {k \in 0..n : AsFar(J, A, data, items, pos, k)}
<1>5. 0 \in G
  <2>1. J[0] = <<>> /\ A[0] = Reads(<<>>, pos) /\ 0 \in 0..n
    BY <1>1, <1>3, <1>4 DEF Writes, ReadsItems
  <2>2. ~Stops(data, pos, <<>>)
    BY <1>1, NoOctets DEF Stops
  <2>3. ReadUpTo(Reads(<<>>, pos), items, 0, pos + Len(<<>>))
    <3>1. pos + Len(<<>>) = pos /\ Len(<<>>) = 0 /\ 1..0 = {}
      BY <1>1, NoOctets
    <3> QED BY <3>1 DEF ReadUpTo, Reads
  <2> QED BY <2>1, <2>2, <2>3 DEF AsFar
<1>6. ASSUME NEW k \in 1..n, k - 1 \in G PROVE k \in G
  <2>1. AsFar(J, A, data, items, pos, k)
    BY <1>3, <1>4, <1>6, OneFarther
  <2> QED BY <1>1, <2>1
<1> HIDE DEF G
<1>7. 0..n \subseteq G
  BY <1>1, <1>5, <1>6, Climb
<1>8. AsFar(J, A, data, items, pos, n)
  BY <1>1, <1>7 DEF G
<1>9. w \in Seq(Octet)
  BY <1>1, <1>3 DEF Writes
<1>10. ASSUME Holds(data, pos, w) PROVE ReadItems(data, pos, n, R, V) = Reads(items, pos + Len(w))
  <2>1. PICK s \in ItemStates(V) : s = A[n]
    BY <1>1, <1>4 DEF ReadsItems
  <2>2. ReadUpTo(s, items, n, pos + Len(w))
    BY <1>3, <1>8, <1>10, <2>1 DEF AsFar
  <2>3. s.value \in Seq(V) /\ s = [ok |-> s.ok, value |-> s.value, pos |-> s.pos]
    BY DEF ItemStates
  <2>4. items \in Seq(V)
    BY <1>2, SeqMonotonic
  <2>5. s.value = items
    <3>1. Len(s.value) = Len(items) /\ \A j \in 1..Len(s.value) : s.value[j] = items[j]
      BY <2>2 DEF ReadUpTo
    <3> QED BY <2>3, <2>4, <3>1, SeqEqual
  <2>6. s.ok = TRUE
    BY <2>2 DEF ReadUpTo, ItemStates
  <2> QED BY <1>4, <2>1, <2>2, <2>3, <2>5, <2>6 DEF ReadUpTo, Reads
<1>11. ASSUME Stops(data, pos, w) PROVE ~ReadItems(data, pos, n, R, V).ok
  BY <1>3, <1>4, <1>8, <1>11 DEF AsFar
<1> QED BY <1>9, <1>10, <1>11 DEF n, w

\* What is read, of the number after the first byte and the items after it.
CountOf(major, n) == IF major = 5 THEN 2 * n ELSE n
ReadOf(data, pos, major, info, number, items) ==
  CASE major \in {0, 1} /\ number.ok ->
         Reads([form |-> "int", holds |-> IF major = 0 THEN number.value ELSE -1 - number.value], number.pos)
    [] major \in {2, 3} /\ number.ok /\ number.pos + number.value - 1 <= Len(data) ->
         Reads([form |-> IF major = 2 THEN "bytes" ELSE "text",
                holds |-> BytesAt(data, number.pos, number.value)], number.pos + number.value)
    [] major = 4 /\ number.ok /\ items.ok -> Reads([form |-> "list", holds |-> items.value], items.pos)
    [] major = 5 /\ number.ok /\ items.ok ->
         Reads([form |-> "map", holds |-> AsMap(items.value, number.value)], items.pos)
    [] major = 7 /\ info \in {20, 21, 22} -> Reads([form |-> "simple", holds |-> info], pos + 1)
    [] OTHER -> Fails

LEMMA ReadValueIs ==
  ASSUME NEW data, NEW pos, NEW R, NEW V, ~(pos > Len(data)),
         NEW major, major = data[pos] \div 32, NEW info, info = data[pos] % 32,
         NEW number, number = ReadIntAt(data, pos + 1, info),
         NEW items, items = ReadItems(data, number.pos, CountOf(major, number.value), R, V)
  PROVE  ReadValue(data, pos, R, V) = ReadOf(data, pos, major, info, number, items)
  BY DEF ReadValue, ReadOf, CountOf

LEMMA ReadIntTyped ==
  ASSUME NEW data \in Seq(Octet), NEW pos \in Positions, NEW info \in 0..31
  PROVE  ReadIntAt(data, pos, info) \in Outcomes(Nat)
<1> DEFINE k == NumberSize(info)
           number == ReadIntAt(data, pos, info)
<1>1. /\ k \in {0, 1, 2, 4, 8}
      /\ number = IF info > 27 \/ pos + k - 1 > Len(data) THEN Fails
                  ELSE IF k = 0 THEN Reads(info, pos)
                  ELSE Reads(BigEndian(BytesAt(data, pos, k)), pos + k)
  BY ReadIntIs
<1> HIDE DEF k, number
<1>2. CASE number = Fails
  BY <1>2 DEF Outcomes, number
<1>3. CASE number # Fails
  <2>1. k \in Nat /\ ~(pos + k - 1 > Len(data))
    BY <1>1, <1>3
  <2>2. pos \in Nat /\ Len(data) \in Nat /\ pos + k \in Positions /\ pos + k - 1 <= Len(data)
    BY <2>1 DEF Positions
  <2>3. BytesAt(data, pos, k) \in Seq(Octet)
    BY <2>1, <2>2, Piece
  <2>4. BigEndian(BytesAt(data, pos, k)) \in Nat /\ info \in Nat
    BY <2>3, BigEndianOne
  <2>5. \A n \in Nat, p \in Positions : Reads(n, p) \in Outcomes(Nat)
    BY DEF Outcomes
  <2>6. number = Reads(info, pos) \/ number = Reads(BigEndian(BytesAt(data, pos, k)), pos + k)
    BY <1>1, <1>3
  <2> QED BY <2>2, <2>4, <2>5, <2>6 DEF number
<1> QED BY <1>2, <1>3

LEMMA ItemsTyped ==
  ASSUME NEW V, NEW R \in [Seq(Octet) \X Positions -> Outcomes(V)],
         NEW data \in Seq(Octet), NEW pos \in Positions, NEW n \in Nat
  PROVE  /\ ReadItems(data, pos, n, R, V) \in ItemStates(V)
         /\ ReadItems(data, pos, n, R, V).ok => Len(ReadItems(data, pos, n, R, V).value) = n
<1>1. PICK A : ReadsItems(A, data, pos, n, R, V) /\ ReadItems(data, pos, n, R, V) = A[n]
  BY ItemsRun
<1>2. /\ A \in [0..n -> ItemStates(V)] /\ A[0] = Reads(<<>>, pos)
      /\ \A k \in 1..n : A[k] = NextItem(data, R, A[k - 1])
  BY <1>1 DEF ReadsItems
<1> DEFINE G == {k \in 0..n : A[k].ok => Len(A[k].value) = k}
<1>3. 0 \in G
  BY <1>2 DEF Reads
<1>4. ASSUME NEW k \in 1..n, k - 1 \in G PROVE k \in G
  <2>1. k \in 0..n /\ k - 1 \in 0..n /\ k - 1 + 1 = k
    OBVIOUS
  <2>2. PICK s \in ItemStates(V) : s = A[k - 1] /\ A[k] = NextItem(data, R, s)
    BY <1>2, <2>1
  <2>3. SUFFICES ASSUME NextItem(data, R, s).ok PROVE Len(NextItem(data, R, s).value) = k
    BY <2>1, <2>2
  <2>4. s.ok /\ Len(NextItem(data, R, s).value) = Len(s.value) + 1
    BY <2>3, NextItemOk
  <2> QED BY <1>4, <2>1, <2>2, <2>4
<1> HIDE DEF G
<1>5. n \in G
  <2>1. 0..n \subseteq G
    BY <1>3, <1>4, Climb
  <2> QED BY <2>1
<1> QED BY <1>1, <1>2, <1>5 DEF G

LEMMA ScalarsNested ==
  ASSUME NEW V
  PROVE  /\ \A i \in Int : [form |-> "int", holds |-> i] \in Nested(V)
         /\ \A s \in Seq(Octet) : /\ [form |-> "bytes", holds |-> s] \in Nested(V)
                                  /\ [form |-> "text", holds |-> s] \in Nested(V)
         /\ \A i \in {20, 21, 22} : [form |-> "simple", holds |-> i] \in Nested(V)
         /\ \A s \in Seq(V) : [form |-> "list", holds |-> s] \in Nested(V)
         /\ \A S \in SUBSET (V \X V) : [form |-> "map", holds |-> S] \in Nested(V)
  BY DEF Nested, Scalars

LEMMA ReadsOutcome ==
  ASSUME NEW V, NEW v \in V, NEW p \in Positions
  PROVE  Reads(v, p) \in Outcomes(V)
  BY DEF Outcomes

LEMMA ReadValueTyped ==
  ASSUME NEW V, NEW R \in [Seq(Octet) \X Positions -> Outcomes(V)],
         NEW data \in Seq(Octet), NEW pos \in Positions
  PROVE  ReadValue(data, pos, R, V) \in Outcomes(Nested(V))
<1> DEFINE W == Nested(V)
           result == ReadValue(data, pos, R, V)
<1>0. Fails \in Outcomes(W)
  BY DEF Outcomes
<1>1. CASE pos > Len(data)
  BY <1>0, <1>1 DEF ReadValue
<1>2. CASE ~(pos > Len(data))
  <2>1. pos \in Nat /\ pos + 1 \in Positions /\ pos \in 1..Len(data)
    BY <1>2 DEF Positions
  <2>2. PICK major \in 0..7, info \in 0..31 : major = data[pos] \div 32 /\ info = data[pos] % 32
    <3>1. PICK b \in Octet : b = data[pos]
      BY <2>1
    <3> QED BY <3>1, Low
  <2>3. PICK number \in Outcomes(Nat) : number = ReadIntAt(data, pos + 1, info)
    BY <2>1, ReadIntTyped
  <2>4. PICK items : items = ReadItems(data, number.pos, CountOf(major, number.value), R, V)
    OBVIOUS
  <2>5. result = ReadOf(data, pos, major, info, number, items)
    BY <1>2, <2>2, <2>3, <2>4, ReadValueIs
  <2>6. number.ok => number.value \in Nat /\ number.pos \in Positions
    BY Outcome DEF Fails
  <2>7. number.ok => /\ items \in ItemStates(V)
                     /\ items.ok => Len(items.value) = CountOf(major, number.value)
    <3>1. SUFFICES ASSUME number.ok
                   PROVE  /\ items \in ItemStates(V)
                          /\ items.ok => Len(items.value) = CountOf(major, number.value)
      OBVIOUS
    <3>2. PICK n \in Nat, p \in Positions : n = CountOf(major, number.value) /\ p = number.pos
      BY <2>6, <3>1 DEF CountOf
    <3>3. items = ReadItems(data, p, n, R, V)
      BY <2>4, <3>2
    <3> QED BY <3>2, <3>3, ItemsTyped
  <2> HIDE DEF W, result
  <2>8. CASE major \in {0, 1} /\ number.ok
    <3>1. PICK i \in Int : i = IF major = 0 THEN number.value ELSE -1 - number.value
      BY <2>6, <2>8
    <3>2. result = Reads([form |-> "int", holds |-> i], number.pos)
      BY <2>5, <2>8, <3>1 DEF ReadOf
    <3>3. [form |-> "int", holds |-> i] \in W
      BY ScalarsNested DEF W
    <3> QED BY <2>6, <2>8, <3>2, <3>3, ReadsOutcome DEF W, result
  <2>9. CASE major \in {2, 3} /\ number.ok /\ number.pos + number.value - 1 <= Len(data)
    <3>1. PICK n \in Nat, p \in Positions : n = number.value /\ p = number.pos
      BY <2>6, <2>9
    <3>2. PICK s \in Seq(Octet) : s = BytesAt(data, p, n)
      BY <2>9, <3>1, Piece
    <3>3. result = Reads([form |-> IF major = 2 THEN "bytes" ELSE "text", holds |-> s], p + n)
      BY <2>5, <2>9, <3>1, <3>2 DEF ReadOf
    <3>4. PICK v \in W : v = [form |-> IF major = 2 THEN "bytes" ELSE "text", holds |-> s]
      BY ScalarsNested DEF W
    <3>5. PICK q \in Positions : q = p + n
      BY DEF Positions
    <3> QED BY <3>3, <3>4, <3>5, ReadsOutcome DEF W, result
  <2>10. CASE major = 4 /\ number.ok /\ items.ok
    <3>1. result = Reads([form |-> "list", holds |-> items.value], items.pos)
      BY <2>5, <2>10 DEF ReadOf
    <3>2. items.value \in Seq(V) /\ items.pos \in Positions
      BY <2>7, <2>10 DEF ItemStates
    <3>3. [form |-> "list", holds |-> items.value] \in W
      BY <3>2, ScalarsNested DEF W
    <3> QED BY <3>1, <3>2, <3>3, ReadsOutcome DEF W, result
  <2>11. CASE major = 5 /\ number.ok /\ items.ok
    <3>1. result = Reads([form |-> "map", holds |-> AsMap(items.value, number.value)], items.pos)
      BY <2>5, <2>11 DEF ReadOf
    <3>2. PICK s \in Seq(V), n \in Nat : s = items.value /\ n = number.value /\ Len(s) = 2 * n
                                         /\ items.pos \in Positions
      BY <2>6, <2>7, <2>11 DEF ItemStates, CountOf
    <3>3. AsMap(s, n) \in SUBSET (V \X V)
      <4>1. ASSUME NEW i \in 1..n PROVE <<s[2 * i - 1], s[2 * i]>> \in V \X V
        <5>1. 2 * i \in 1..Len(s) /\ 2 * i - 1 \in 1..Len(s)
          BY <3>2
        <5>2. s[2 * i - 1] \in V /\ s[2 * i] \in V
          BY <5>1
        <5> QED BY <5>2
      <4> QED BY <4>1 DEF AsMap
    <3>4. [form |-> "map", holds |-> AsMap(s, n)] \in W
      BY <3>3, ScalarsNested DEF W
    <3> QED BY <3>1, <3>2, <3>4, ReadsOutcome DEF W, result
  <2>12. CASE major = 7 /\ info \in {20, 21, 22}
    <3>1. result = Reads([form |-> "simple", holds |-> info], pos + 1)
      BY <2>5, <2>12 DEF ReadOf
    <3>2. [form |-> "simple", holds |-> info] \in W
      BY <2>12, ScalarsNested DEF W
    <3> QED BY <2>1, <3>1, <3>2, ReadsOutcome DEF W, result
  <2>13. \/ major \in {0, 1} /\ number.ok
         \/ major \in {2, 3} /\ number.ok /\ number.pos + number.value - 1 <= Len(data)
         \/ major = 4 /\ number.ok /\ items.ok
         \/ major = 5 /\ number.ok /\ items.ok
         \/ major = 7 /\ info \in {20, 21, 22}
         \/ result = Fails
    BY <2>5 DEF ReadOf
  <2> QED BY <1>0, <2>8, <2>9, <2>10, <2>11, <2>12, <2>13 DEF W, result
<1> QED BY <1>1, <1>2

LEMMA ReaderTyped ==
  ASSUME NEW V, NEW R \in [Seq(Octet) \X Positions -> Outcomes(V)]
  PROVE  /\ Reader(R, V) \in [Seq(Octet) \X Positions -> Outcomes(Nested(V))]
         /\ \A data \in Seq(Octet), pos \in Positions : Reader(R, V)[<<data, pos>>] = ReadValue(data, pos, R, V)
<1>1. \A at \in Seq(Octet) \X Positions : ReadValue(at[1], at[2], R, V) \in Outcomes(Nested(V))
  BY ReadValueTyped
<1> QED BY <1>1 DEF Reader

-----------------------------------------------------------------------------
(* The order of a map's pairs *)

LEMMA PrecedesNever ==
  ASSUME NEW a \in Seq(Octet)
  PROVE  ~Precedes(a, a)
<1>1. \A i \in DOMAIN a : a[i] \in Nat
  BY Bytes
<1> QED BY <1>1 DEF Precedes

LEMMA SameInterval ==
  ASSUME NEW m \in Nat, NEW n \in Nat, 1..m = 1..n
  PROVE  m = n
<1>1. ~(m < n)
  <2>1. SUFFICES ASSUME m < n PROVE FALSE
    OBVIOUS
  <2>2. n \in 1..n /\ n \notin 1..m
    BY <2>1
  <2> QED BY <2>2
<1>2. ~(n < m)
  <2>1. SUFFICES ASSUME n < m PROVE FALSE
    OBVIOUS
  <2>2. m \in 1..m /\ m \notin 1..n
    BY <2>1
  <2> QED BY <2>2
<1> QED BY <1>1, <1>2

LEMMA PrecedesOrders ==
  ASSUME NEW a \in Seq(Octet), NEW b \in Seq(Octet), a # b
  PROVE  Precedes(a, b) \/ Precedes(b, a)
<1> DEFINE Same(i) == i \in DOMAIN a /\ i \in DOMAIN b /\ a[i] = b[i]
           D == {i \in DOMAIN a \cup DOMAIN b : ~Same(i)}
<1>1. /\ Len(a) \in Nat /\ DOMAIN a = 1..Len(a) /\ Len(b) \in Nat /\ DOMAIN b = 1..Len(b)
      /\ (\A i \in DOMAIN a : a[i] \in Nat) /\ \A i \in DOMAIN b : b[i] \in Nat
  BY Bytes
<1>2. D # {}
  <2>1. SUFFICES ASSUME \A i \in DOMAIN a \cup DOMAIN b : Same(i) PROVE FALSE
    OBVIOUS
  <2>2. 1..Len(a) = 1..Len(b) /\ \A i \in 1..Len(a) : a[i] = b[i]
    BY ZenonT(60), <1>1, <2>1
  <2>3. Len(a) = Len(b)
    BY <1>1, <2>2, SameInterval
  <2> QED BY <2>2, <2>3, SeqEqual
<1>3. D \subseteq Nat
  BY <1>1
<1>4. PICK i \in D : \A j \in D : i <= j
  <2> HIDE DEF D
  <2> QED BY <1>2, <1>3, Least
<1>5. i \in Nat /\ i >= 1
  BY <1>1, <1>4
<1>6. ASSUME NEW j \in 1..(i - 1) PROVE Same(j)
  <2>1. j \notin D /\ j \in DOMAIN a \cup DOMAIN b
    BY <1>1, <1>4, <1>5
  <2> QED BY <2>1
<1>7. i \in DOMAIN a \cup DOMAIN b /\ ~Same(i)
  BY <1>4
<1>8. CASE i \notin DOMAIN a
  BY <1>6, <1>7, <1>8 DEF Precedes
<1>9. CASE i \notin DOMAIN b
  BY <1>6, <1>7, <1>9 DEF Precedes
<1>10. CASE i \in DOMAIN a /\ i \in DOMAIN b /\ a[i] # b[i]
  <2>1. a[i] < b[i] \/ b[i] < a[i]
    BY <1>1, <1>10
  <2>2. CASE a[i] < b[i]
    BY <1>6, <1>10, <2>2 DEF Precedes
  <2>3. CASE b[i] < a[i]
    BY <1>6, <1>10, <2>3 DEF Precedes
  <2> QED BY <2>1, <2>2, <2>3
<1> QED BY <1>7, <1>8, <1>9, <1>10

LEMMA PrecedesOn ==
  ASSUME NEW a \in Seq(Octet), NEW b \in Seq(Octet), NEW c \in Seq(Octet),
         Precedes(a, b), Precedes(b, c)
  PROVE  Precedes(a, c)
<1>1. /\ Len(a) \in Nat /\ DOMAIN a = 1..Len(a) /\ Len(b) \in Nat /\ DOMAIN b = 1..Len(b)
      /\ Len(c) \in Nat /\ DOMAIN c = 1..Len(c)
      /\ (\A i \in DOMAIN a : a[i] \in Nat) /\ (\A i \in DOMAIN b : b[i] \in Nat)
      /\ \A i \in DOMAIN c : c[i] \in Nat
  BY Bytes
<1>2. PICK i \in DOMAIN b :
         /\ \A j \in 1..(i - 1) : j \in DOMAIN a /\ a[j] = b[j]
         /\ i \in DOMAIN a => a[i] < b[i]
  BY DEF Precedes
<1>3. PICK k \in DOMAIN c :
         /\ \A j \in 1..(k - 1) : j \in DOMAIN b /\ b[j] = c[j]
         /\ k \in DOMAIN b => b[k] < c[k]
  BY DEF Precedes
<1>4. i \in Nat /\ k \in Nat /\ i >= 1 /\ k >= 1 /\ (i < k \/ i = k \/ k < i)
  BY <1>1
<1>5. CASE i < k
  <2>1. i \in DOMAIN c /\ b[i] = c[i] /\ i \in 1..(k - 1)
    BY <1>1, <1>3, <1>4, <1>5
  <2>2. ASSUME NEW j \in 1..(i - 1) PROVE j \in DOMAIN a /\ a[j] = c[j]
    <3>1. j \in 1..(k - 1)
      BY <1>4, <1>5
    <3> QED BY <1>2, <1>3, <3>1
  <2>3. i \in DOMAIN a => a[i] < c[i]
    BY <1>2, <2>1
  <2> QED BY <2>1, <2>2, <2>3 DEF Precedes
<1>6. CASE i = k
  <2>1. \A j \in 1..(k - 1) : j \in DOMAIN a /\ a[j] = c[j]
    BY <1>2, <1>3, <1>6
  <2>2. k \in DOMAIN a => a[k] < c[k]
    BY <1>1, <1>2, <1>3, <1>6
  <2> QED BY <2>1, <2>2 DEF Precedes
<1>7. CASE k < i
  <2>1. k \in DOMAIN a /\ a[k] = b[k] /\ k \in DOMAIN b
    BY <1>1, <1>2, <1>4, <1>7
  <2>2. a[k] < c[k]
    BY <1>3, <2>1
  <2>3. ASSUME NEW j \in 1..(k - 1) PROVE j \in DOMAIN a /\ a[j] = c[j]
    <3>1. j \in 1..(i - 1)
      BY <1>4, <1>7
    <3> QED BY <1>2, <1>3, <3>1
  <2> QED BY <2>2, <2>3 DEF Precedes
<1> QED BY <1>4, <1>5, <1>6, <1>7

\* Two values have different encodings: each is read as itself.
LEMMA FitsApart ==
  ASSUME NEW E, NEW R, NEW V, NEW P, Fits(E, R, V, P), NEW v \in P, NEW w \in P, E[v] = E[w]
  PROVE  v = w
<1>1. PICK e \in Seq(Octet) : e = E[v] /\ e = E[w]
  BY FitsSays, NoOctets DEF Fits
<1>2. PICK one \in Positions : one = 1
  BY DEF Positions
<1>3. Holds(e, one, e)
  <2>1. Len(e) \in Nat /\ one + Len(e) - 1 = Len(e) /\ \A i \in 1..Len(e) : one + i - 1 = i
    BY <1>2
  <2> QED BY <2>1 DEF Holds
<1>4. R[<<e, one>>] = Reads(v, one + Len(e)) /\ R[<<e, one>>] = Reads(w, one + Len(e))
  <2>1. R[<<e, one>>] = Reads(v, one + Len(e))
    BY <1>1, <1>3, FitsSays
  <2>2. R[<<e, one>>] = Reads(w, one + Len(e))
    BY <1>1, <1>3, FitsSays
  <2> QED BY <2>1, <2>2
<1> QED BY <1>4 DEF Reads

-----------------------------------------------------------------------------
(* The pairs of a map *)

OneToOne(of) == \A p, q \in of : p[1] = q[1] => p = q
ByKey(of, E) == {pair \in of \X of : Precedes(E[pair[1][1]], E[pair[2][1]])}

\* A list of n pairs, each pair of a map once.
Listed(s, of, n) ==
  /\ s \in Seq(of) /\ Len(s) = n /\ DOMAIN s = 1..n
  /\ \A i, j \in DOMAIN s : i < j => s[i][1] # s[j][1]
  /\ \A x \in of : \E k \in DOMAIN s : s[k] = x

LEMMA PairsSorted ==
  ASSUME NEW E, NEW R, NEW V, NEW P, Fits(E, R, V, P),
         NEW of, of \subseteq P \X P, IsFiniteSet(of), OneToOne(of)
  PROVE  Listed(Sorted(of, ByKey(of, E)), of, Cardinality(of))
<1> DEFINE B == ByKey(of, E)
           s == Sorted(of, B)
<1>1. \A x \in of : E[x[1]] \in Seq(Octet) /\ x[1] \in P
  BY DEF Fits
<1>2. \A x, y \in of : <<x, y>> \in B <=> Precedes(E[x[1]], E[y[1]])
  BY DEF ByKey
<1> HIDE DEF B
<1>3. \A x \in of : <<x, x>> \notin B
  BY <1>1, <1>2, PrecedesNever
<1>4. ASSUME NEW x \in of, NEW y \in of, x # y PROVE <<x, y>> \in B \/ <<y, x>> \in B
  <2>1. E[x[1]] # E[y[1]]
    BY <1>1, <1>4, FitsApart DEF OneToOne
  <2>2. Precedes(E[x[1]], E[y[1]]) \/ Precedes(E[y[1]], E[x[1]])
    BY <1>1, <2>1, PrecedesOrders
  <2> QED BY <1>2, <2>2
<1>5. ASSUME NEW x \in of, NEW y \in of, NEW z \in of, <<x, y>> \in B, <<y, z>> \in B
      PROVE  <<x, z>> \in B
  <2>1. PICK a \in Seq(Octet), b \in Seq(Octet), c \in Seq(Octet) :
          a = E[x[1]] /\ b = E[y[1]] /\ c = E[z[1]]
    BY <1>1
  <2>2. Precedes(a, c)
    BY <1>2, <1>5, <2>1, PrecedesOn
  <2> QED BY <1>2, <2>1, <2>2
<1>6. /\ s \in Seq(of) /\ Len(s) = Cardinality(of) /\ DOMAIN s = 1..Len(s)
      /\ \A i, j \in DOMAIN s : i < j => <<s[i], s[j]>> \in B
      /\ \A x \in of : \E k \in DOMAIN s : s[k] = x
  BY <1>3, <1>4, <1>5, SortedProperly
<1> HIDE DEF s
<1>7. ASSUME NEW i \in DOMAIN s, NEW j \in DOMAIN s, i < j PROVE s[i][1] # s[j][1]
  <2>1. PICK x \in of, y \in of : x = s[i] /\ y = s[j]
    BY <1>6
  <2>2. <<x, y>> \in B
    BY <1>6, <1>7, <2>1
  <2>3. x[1] # y[1]
    BY <1>1, <1>2, <2>2, PrecedesNever
  <2> QED BY <2>1, <2>3
<1> QED BY <1>6, <1>7 DEF Listed, s, B

\* Keys and values in turn, and back.
LEMMA TurnAt ==
  ASSUME NEW P, NEW s \in Seq(P \X P), NEW i \in 1..Len(s)
  PROVE  InTurn(s)[2 * i - 1] = s[i][1] /\ InTurn(s)[2 * i] = s[i][2]
<1> DEFINE t == InTurn(s)
           At(j) == s[(j + 1) \div 2][IF j % 2 = 1 THEN 1 ELSE 2]
<1>1. PICK n \in Nat : n = Len(s)
  OBVIOUS
<1>2. t = [j \in 1..2 * n |-> At(j)]
  BY <1>1 DEF InTurn
<1>3. /\ 2 * i - 1 \in 1..2 * n /\ 2 * i \in 1..2 * n
      /\ (2 * i - 1 + 1) \div 2 = i /\ (2 * i - 1) % 2 = 1 /\ (2 * i + 1) \div 2 = i /\ (2 * i) % 2 = 0
  BY <1>1
<1>4. At(2 * i - 1) = s[i][1] /\ At(2 * i) = s[i][2]
  BY <1>3
<1> HIDE DEF At, t
<1>5. t[2 * i - 1] = At(2 * i - 1) /\ t[2 * i] = At(2 * i)
  BY <1>2, <1>3
<1> QED BY <1>4, <1>5 DEF t

LEMMA TurnsTyped ==
  ASSUME NEW P, NEW n \in Nat, NEW s \in Seq(P \X P), Len(s) = n
  PROVE  InTurn(s) \in Seq(P) /\ Len(InTurn(s)) = 2 * n
<1> DEFINE t == InTurn(s)
           At(i) == s[(i + 1) \div 2][IF i % 2 = 1 THEN 1 ELSE 2]
           m == 2 * n
<1>1. t = [i \in 1..m |-> At(i)] /\ m \in Nat
  BY DEF InTurn
<1>2. ASSUME NEW i \in 1..m PROVE At(i) \in P
  <2>1. (i + 1) \div 2 \in 1..n
    OBVIOUS
  <2>2. s[(i + 1) \div 2] \in P \X P
    BY <2>1
  <2> QED BY <2>2
<1> HIDE DEF At, t, m
<1>3. t \in [1..m -> P]
  BY <1>1, <1>2
<1>4. t \in Seq(P) /\ Len(t) = m
  BY <1>1, <1>3, ListOf
<1> QED BY <1>4 DEF t, m

LEMMA AsMapIs ==
  ASSUME NEW P, NEW of, of \subseteq P \X P, NEW n \in Nat, NEW s, Listed(s, of, n)
  PROVE  AsMap(InTurn(s), n) = of
<1> DEFINE t == InTurn(s)
<1>0. /\ s \in Seq(of) /\ Len(s) = n /\ DOMAIN s = 1..n
      /\ \A i, j \in DOMAIN s : i < j => s[i][1] # s[j][1]
      /\ \A x \in of : \E k \in DOMAIN s : s[k] = x
  BY DEF Listed
<1>1. s \in Seq(P \X P)
  BY <1>0, SeqMonotonic
<1>2. \A i \in 1..n : t[2 * i - 1] = s[i][1] /\ t[2 * i] = s[i][2]
  <2> SUFFICES ASSUME NEW i \in 1..n PROVE t[2 * i - 1] = s[i][1] /\ t[2 * i] = s[i][2]
    OBVIOUS
  <2> QED BY <1>0, <1>1, TurnAt
<1> HIDE DEF t
<1>3. \A i \in 1..n : <<t[2 * i - 1], t[2 * i]>> = s[i] /\ s[i] \in of
  BY <1>0, <1>2
<1>4. ASSUME NEW k \in 1..n PROVE \A l \in (k + 1)..n : t[2 * l - 1] # t[2 * k - 1]
  <2>1. ASSUME NEW l \in (k + 1)..n PROVE t[2 * l - 1] # t[2 * k - 1]
    <3>1. l \in 1..n /\ k < l
      OBVIOUS
    <3>2. s[k][1] # s[l][1]
      BY <1>0, <3>1
    <3>3. t[2 * l - 1] = s[l][1] /\ t[2 * k - 1] = s[k][1]
      BY <1>2, <3>1
    <3> QED BY <3>2, <3>3
  <2> QED BY <2>1
<1>5. AsMap(t, n) = {s[i] : i \in 1..n}
  <2>1. {k \in 1..n : \A l \in (k + 1)..n : t[2 * l - 1] # t[2 * k - 1]} = 1..n
    BY <1>4
  <2> DEFINE At(i) == <<t[2 * i - 1], t[2 * i]>>
  <2>2. AsMap(t, n) = {At(i) : i \in 1..n}
    BY <2>1 DEF AsMap
  <2>3. \A i \in 1..n : At(i) = s[i]
    BY <1>3
  <2> HIDE DEF At
  <2> QED BY <2>2, <2>3
<1>6. {s[i] : i \in 1..n} = of
  BY <1>0, <1>3
<1> QED BY <1>5, <1>6 DEF t

\* What a head in front of t makes ReadValue look at next.
Behind(data, pos, major, n, p, R, V) ==
  ReadValue(data, pos, R, V) =
    ReadOf(data, pos, major, data[pos] % 32, Reads(n, p), ReadItems(data, p, CountOf(major, n), R, V))

LEMMA HeadTyped ==
  ASSUME NEW major \in 0..7, NEW n \in Nat, n <= Greatest31
  PROVE  CborHead(major, n) \in Seq(Octet) /\ HeadSays(CborHead(major, n), major, n)
<1>1. PICK h : h = CborHead(major, n)
  OBVIOUS
<1>2. HeadSays(h, major, n)
  BY <1>1, HeadBytes
<1>3. h \in Seq(Octet)
  BY <1>2 DEF HeadSays
<1> QED BY <1>1, <1>2, <1>3

LEMMA ReadsSay ==
  ASSUME NEW v, NEW p
  PROVE  \E o : o = Reads(v, p) /\ o.ok /\ o.value = v /\ o.pos = p
<1>1. Reads(v, p).ok /\ Reads(v, p).value = v /\ Reads(v, p).pos = p
  BY DEF Reads
<1> QED BY <1>1

LEMMA WrittenTyped ==
  ASSUME NEW E, NEW R, NEW V, NEW P, Fits(E, R, V, P), NEW items \in Seq(P)
  PROVE  Written(items, E) \in Seq(Octet)
<1>1. PICK J : Writes(J, items, E) /\ Written(items, E) = J[Len(items)]
  <2>1. \A v \in P : E[v] \in Seq(Octet)
    BY DEF Fits
  <2> QED BY <2>1, WrittenRuns
<1>2. Len(items) \in 0..Len(items)
  OBVIOUS
<1> QED BY <1>1, <1>2 DEF Writes

LEMMA ItemsHeld ==
  ASSUME NEW E, NEW R, NEW V, NEW P, Fits(E, R, V, P), NEW items \in Seq(P), NEW n, n = Len(items),
         NEW data \in Seq(Octet), NEW pos \in Positions, pos - 1 <= Len(data),
         NEW w, w = Written(items, E), NEW o, o = ReadItems(data, pos, n, R, V)
  PROVE  /\ Holds(data, pos, w) => o = Reads(items, pos + Len(w))
         /\ Stops(data, pos, w) => ~o.ok
  BY ItemsRead

LEMMA BehindHead ==
  ASSUME NEW data \in Seq(Octet), NEW pos \in Positions, NEW R, NEW V,
         NEW major \in 0..7, NEW n \in Nat, n <= Greatest31, Holds(data, pos, CborHead(major, n))
  PROVE  \E p \in Positions : /\ p = pos + Len(CborHead(major, n)) /\ p - 1 <= Len(data)
                              /\ Behind(data, pos, major, n, p, R, V)
<1>1. PICK h \in Seq(Octet) : h = CborHead(major, n) /\ HeadSays(h, major, n)
  BY HeadTyped
<1>2. PICK p \in Positions : p = pos + Len(h)
  BY DEF Positions
<1>3. Holds(data, pos, h)
  BY <1>1
<1>4. p - 1 <= Len(data)
  <2>1. pos + Len(h) - 1 <= Len(data)
    BY <1>3 DEF Holds
  <2> QED BY <1>2, <2>1
<1>5. /\ pos <= Len(data) /\ data[pos] \in Octet /\ data[pos] \div 32 = major
      /\ ReadIntAt(data, pos + 1, data[pos] % 32) = Reads(n, p)
  BY <1>1, <1>2, <1>3, HeadRead
<1>6. ~(pos > Len(data))
  BY <1>5 DEF Positions
<1>7. PICK number : number = Reads(n, p) /\ number.pos = p /\ number.value = n
  BY ReadsSay
<1>8. PICK info : info = data[pos] % 32
  OBVIOUS
<1>9. PICK items : items = ReadItems(data, number.pos, CountOf(major, number.value), R, V)
  OBVIOUS
<1>10. ReadValue(data, pos, R, V) = ReadOf(data, pos, major, info, number, items)
  <2>1. major = data[pos] \div 32 /\ number = ReadIntAt(data, pos + 1, info)
    BY <1>5, <1>7, <1>8
  <2> QED BY <1>6, <1>8, <1>9, <2>1, ReadValueIs
<1>11. Behind(data, pos, major, n, p, R, V)
  <2>1. items = ReadItems(data, p, CountOf(major, n), R, V)
    BY <1>7, <1>9
  <2> QED BY <1>7, <1>8, <1>10, <2>1 DEF Behind
<1> QED BY <1>1, <1>2, <1>4, <1>11

LEMMA CutInHead ==
  ASSUME NEW data \in Seq(Octet), NEW pos \in Positions, NEW R, NEW V,
         NEW major \in 0..5, NEW n \in Nat, n <= Greatest31, Stops(data, pos, CborHead(major, n))
  PROVE  ReadValue(data, pos, R, V) = Fails
<1>1. PICK h \in Seq(Octet) : h = CborHead(major, n) /\ HeadSays(h, major, n) /\ major \in 0..7
  BY HeadTyped
<1>2. CASE pos > Len(data)
  BY <1>2 DEF ReadValue
<1>3. CASE ~(pos > Len(data))
  <2>1. PICK info : info = data[pos] % 32
    OBVIOUS
  <2>2. PICK number : number = ReadIntAt(data, pos + 1, info)
    OBVIOUS
  <2>3. PICK items : items = ReadItems(data, number.pos, CountOf(major, number.value), R, V)
    OBVIOUS
  <2>4. data[pos] \div 32 = major /\ number = Fails
    BY <1>1, <1>3, <2>1, <2>2, HeadCut
  <2>5. ReadValue(data, pos, R, V) = ReadOf(data, pos, major, info, number, items)
    BY <1>3, <2>1, <2>2, <2>3, <2>4, ReadValueIs
  <2>6. ~number.ok /\ major # 7
    BY <2>4 DEF Fails
  <2> QED BY <2>5, <2>6 DEF ReadOf
<1> QED BY <1>2, <1>3

\* The outcome o of reading says of the bytes e that they are the value v.
Said(e, v, data, pos, o) ==
  /\ e \in Seq(Octet)
  /\ Holds(data, pos, e) => o = Reads(v, pos + Len(e))
  /\ Stops(data, pos, e) => o = Fails

\* A head with more behind it says what the outcome for the more behind it says.
LEMMA HeadedSaid ==
  ASSUME NEW data \in Seq(Octet), NEW pos \in Positions, NEW R, NEW V, NEW v,
         NEW major \in 0..5, NEW n \in Nat, n <= Greatest31, NEW t \in Seq(Octet),
         \A p \in Positions : p - 1 <= Len(data) /\ Behind(data, pos, major, n, p, R, V) =>
            /\ Holds(data, p, t) => ReadValue(data, pos, R, V) = Reads(v, p + Len(t))
            /\ Stops(data, p, t) => ReadValue(data, pos, R, V) = Fails
  PROVE  Said(CborHead(major, n) \o t, v, data, pos, ReadValue(data, pos, R, V))
<1> DEFINE o == ReadValue(data, pos, R, V)
<1>1. PICK h \in Seq(Octet) : h = CborHead(major, n) /\ major \in 0..7
  BY HeadTyped
<1>2. h \o t \in Seq(Octet) /\ Len(h \o t) = Len(h) + Len(t) /\ Len(h) \in Nat /\ Len(t) \in Nat
  BY Joined
<1> HIDE DEF o
<1>3. ASSUME Holds(data, pos, h)
      PROVE  /\ Holds(data, pos + Len(h), t) => o = Reads(v, pos + Len(h \o t))
             /\ Stops(data, pos + Len(h), t) => o = Fails
  <2>1. PICK p \in Positions : p = pos + Len(h) /\ p - 1 <= Len(data) /\ Behind(data, pos, major, n, p, R, V)
    BY <1>1, <1>3, BehindHead
  <2>2. p + Len(t) = pos + Len(h \o t)
    BY <1>2, <2>1 DEF Positions
  <2> QED BY <2>1, <2>2 DEF o
<1>4. ASSUME Holds(data, pos, h \o t) PROVE o = Reads(v, pos + Len(h \o t))
  BY <1>3, <1>4, HoldsBoth
<1>5. ASSUME Stops(data, pos, h \o t) PROVE o = Fails
  <2>1. CASE Stops(data, pos, h)
    BY <1>1, <2>1, CutInHead DEF o
  <2>2. CASE Holds(data, pos, h) /\ Stops(data, pos + Len(h), t)
    BY <1>3, <2>2
  <2> QED BY <1>5, <2>1, <2>2, StopsOne
<1> QED BY <1>1, <1>2, <1>4, <1>5 DEF Said, o

LEMMA IntSaid ==
  ASSUME NEW data \in Seq(Octet), NEW pos \in Positions, NEW R, NEW V,
         NEW major \in {0, 1}, NEW n \in Nat, n <= Greatest31
  PROVE  Said(CborHead(major, n), [form |-> "int", holds |-> IF major = 0 THEN n ELSE -1 - n],
              data, pos, ReadValue(data, pos, R, V))
<1> DEFINE o == ReadValue(data, pos, R, V)
<1>1. PICK v : v = [form |-> "int", holds |-> IF major = 0 THEN n ELSE -1 - n]
  OBVIOUS
<1>2. PICK t \in Seq(Octet) : t = <<>>
  BY NoOctets
<1> HIDE DEF o
<1>3. ASSUME NEW p \in Positions, p - 1 <= Len(data), Behind(data, pos, major, n, p, R, V)
      PROVE  /\ Holds(data, p, t) => o = Reads(v, p + Len(t))
             /\ Stops(data, p, t) => o = Fails
  <2>1. ~Stops(data, p, t) /\ p + Len(t) = p
    BY <1>2, <1>3, NoOctets DEF Stops, Positions
  <2>2. PICK number : number = Reads(n, p) /\ number.ok /\ number.value = n /\ number.pos = p
    BY ReadsSay
  <2>3. PICK items : items = ReadItems(data, p, CountOf(major, n), R, V)
    OBVIOUS
  <2>4. o = ReadOf(data, pos, major, data[pos] % 32, number, items)
    BY <1>3, <2>2, <2>3 DEF Behind, o
  <2>5. o = Reads(v, p)
    BY <1>1, <2>2, <2>4 DEF ReadOf
  <2> QED BY <2>1, <2>5
<1>4. major \in 0..5
  OBVIOUS
<1>5. Said(CborHead(major, n) \o t, v, data, pos, o)
  BY <1>3, <1>4, HeadedSaid DEF o
<1>6. CborHead(major, n) \o t = CborHead(major, n)
  BY <1>2, <1>4, HeadTyped, ConcatEmptySeq
<1> QED BY <1>1, <1>5, <1>6 DEF o

LEMMA StringSaid ==
  ASSUME NEW data \in Seq(Octet), NEW pos \in Positions, NEW R, NEW V,
         NEW major \in {2, 3}, NEW s \in Seq(Octet), Len(s) <= Greatest31
  PROVE  Said(CborHead(major, Len(s)) \o s, [form |-> IF major = 2 THEN "bytes" ELSE "text", holds |-> s],
              data, pos, ReadValue(data, pos, R, V))
<1> DEFINE o == ReadValue(data, pos, R, V)
<1>1. PICK v : v = [form |-> IF major = 2 THEN "bytes" ELSE "text", holds |-> s]
  OBVIOUS
<1>2. PICK n \in Nat : n = Len(s)
  OBVIOUS
<1> HIDE DEF o
<1>3. ASSUME NEW p \in Positions, p - 1 <= Len(data), Behind(data, pos, major, n, p, R, V)
      PROVE  /\ Holds(data, p, s) => o = Reads(v, p + Len(s))
             /\ Stops(data, p, s) => o = Fails
  <2>2. PICK number : number = Reads(n, p) /\ number.ok /\ number.value = n /\ number.pos = p
    BY ReadsSay
  <2>3. PICK items : items = ReadItems(data, p, CountOf(major, n), R, V)
    OBVIOUS
  <2>4. o = ReadOf(data, pos, major, data[pos] % 32, number, items)
    BY <1>3, <2>2, <2>3 DEF Behind, o
  <2>5. ASSUME Holds(data, p, s) PROVE o = Reads(v, p + Len(s))
    <3>1. p + n - 1 <= Len(data) /\ BytesAt(data, p, n) = s
      BY <1>2, <2>5, HeldBytes DEF Holds
    <3> QED BY <1>1, <1>2, <2>2, <2>4, <3>1 DEF ReadOf
  <2>6. ASSUME Stops(data, p, s) PROVE o = Fails
    <3>1. ~(p + n - 1 <= Len(data))
      BY <1>2, <2>6 DEF Stops, Positions
    <3> QED BY <2>2, <2>4, <3>1 DEF ReadOf
  <2> QED BY <2>5, <2>6
<1>4. major \in 0..5 /\ n <= Greatest31
  BY <1>2
<1>5. Said(CborHead(major, n) \o s, v, data, pos, o)
  BY <1>3, <1>4, HeadedSaid DEF o
<1> QED BY <1>1, <1>2, <1>5 DEF o

LEMMA ListSaid ==
  ASSUME NEW E, NEW R, NEW V, NEW P, Fits(E, R, V, P), NEW data \in Seq(Octet), NEW pos \in Positions,
         NEW s \in Seq(P), Len(s) <= Greatest31
  PROVE  Said(CborHead(4, Len(s)) \o Written(s, E), [form |-> "list", holds |-> s],
              data, pos, ReadValue(data, pos, R, V))
<1> DEFINE o == ReadValue(data, pos, R, V)
           w == Written(s, E)
<1>1. PICK v : v = [form |-> "list", holds |-> s]
  OBVIOUS
<1>2. PICK n \in Nat, major \in 0..5 : n = Len(s) /\ major = 4
  OBVIOUS
<1>6. w \in Seq(Octet)
  BY WrittenTyped
<1> HIDE DEF o, w
<1>3. ASSUME NEW p \in Positions, p - 1 <= Len(data), Behind(data, pos, major, n, p, R, V)
      PROVE  /\ Holds(data, p, w) => o = Reads(v, p + Len(w))
             /\ Stops(data, p, w) => o = Fails
  <2>2. PICK number : number = Reads(n, p) /\ number.ok /\ number.value = n /\ number.pos = p
    BY ReadsSay
  <2>3. PICK items : items = ReadItems(data, p, n, R, V)
    OBVIOUS
  <2>4. o = ReadOf(data, pos, major, data[pos] % 32, number, items)
    <3>1. CountOf(major, n) = n
      BY <1>2 DEF CountOf
    <3> QED BY <1>3, <2>2, <2>3, <3>1 DEF Behind, o
  <2>5. /\ Holds(data, p, w) => items = Reads(s, p + Len(w))
        /\ Stops(data, p, w) => ~items.ok
    BY <1>2, <1>3, <2>3, ItemsHeld DEF w
  <2>6. ASSUME items = Reads(s, p + Len(w)) PROVE o = Reads(v, p + Len(w))
    <3>1. items.ok /\ items.value = s /\ items.pos = p + Len(w)
      BY <2>6 DEF Reads
    <3> QED BY <1>1, <1>2, <2>2, <2>4, <3>1 DEF ReadOf
  <2>7. ASSUME ~items.ok PROVE o = Fails
    BY <1>2, <2>4, <2>7 DEF ReadOf
  <2> QED BY <2>5, <2>6, <2>7
<1>4. n <= Greatest31
  BY <1>2
<1>5. Said(CborHead(major, n) \o w, v, data, pos, o)
  BY <1>3, <1>4, <1>6, HeadedSaid DEF o
<1> QED BY <1>1, <1>2, <1>5 DEF o, w

LEMMA MapSaid ==
  ASSUME NEW E, NEW R, NEW V, NEW P, Fits(E, R, V, P), NEW data \in Seq(Octet), NEW pos \in Positions,
         NEW of, of \subseteq P \X P, IsFiniteSet(of), OneToOne(of), Cardinality(of) <= Greatest31
  PROVE  Said(CborHead(5, Cardinality(of)) \o Written(InTurn(Sorted(of, ByKey(of, E))), E),
              [form |-> "map", holds |-> of], data, pos, ReadValue(data, pos, R, V))
<1> DEFINE o == ReadValue(data, pos, R, V)
           pairs == Sorted(of, ByKey(of, E))
           s == InTurn(pairs)
           w == Written(s, E)
<1>1. PICK v : v = [form |-> "map", holds |-> of]
  OBVIOUS
<1>2. PICK n \in Nat, major \in 0..5 : n = Cardinality(of) /\ major = 5
  BY FS_CardinalityType
<1>7. Listed(pairs, of, n)
  BY <1>2, PairsSorted
<1> HIDE DEF pairs
<1>8. AsMap(s, n) = of
  BY <1>7, AsMapIs
<1>10. PICK q \in Seq(of) : q = pairs /\ Len(q) = n
  BY <1>7 DEF Listed
<1>9. s \in Seq(P) /\ Len(s) = 2 * n
  <2>1. PICK r \in Seq(P \X P) : r = q
    BY SeqMonotonic
  <2>2. Len(r) = n
    BY <1>10, <2>1
  <2>3. InTurn(r) \in Seq(P) /\ Len(InTurn(r)) = 2 * n
    BY <2>2, TurnsTyped
  <2> QED BY <1>10, <2>1, <2>3
<1> HIDE DEF o, w, s
<1>6. w \in Seq(Octet)
  BY <1>9, WrittenTyped DEF w
<1>3. ASSUME NEW p \in Positions, p - 1 <= Len(data), Behind(data, pos, major, n, p, R, V)
      PROVE  /\ Holds(data, p, w) => o = Reads(v, p + Len(w))
             /\ Stops(data, p, w) => o = Fails
  <2>2. PICK number : number = Reads(n, p) /\ number.ok /\ number.value = n /\ number.pos = p
    BY ReadsSay
  <2>3. PICK items : items = ReadItems(data, p, 2 * n, R, V)
    OBVIOUS
  <2>4. o = ReadOf(data, pos, major, data[pos] % 32, number, items)
    <3>1. CountOf(major, n) = 2 * n
      BY <1>2 DEF CountOf
    <3> QED BY <1>3, <2>2, <2>3, <3>1 DEF Behind, o
  <2>5. /\ Holds(data, p, w) => items = Reads(s, p + Len(w))
        /\ Stops(data, p, w) => ~items.ok
    <3>1. PICK m \in Nat : m = 2 * n
      OBVIOUS
    <3>2. m = Len(s) /\ items = ReadItems(data, p, m, R, V)
      BY <1>9, <2>3, <3>1
    <3> QED BY <1>3, <1>9, <3>2, ItemsHeld DEF w
  <2>6. ASSUME items = Reads(s, p + Len(w)) PROVE o = Reads(v, p + Len(w))
    <3>1. items.ok /\ items.value = s /\ items.pos = p + Len(w)
      BY <2>6 DEF Reads
    <3> QED BY <1>1, <1>2, <1>8, <2>2, <2>4, <3>1 DEF ReadOf
  <2>7. ASSUME ~items.ok PROVE o = Fails
    BY <1>2, <2>4, <2>7 DEF ReadOf
  <2> QED BY <2>5, <2>6, <2>7
<1>4. n <= Greatest31
  BY <1>2
<1>5. Said(CborHead(major, n) \o w, v, data, pos, o)
  BY <1>3, <1>4, <1>6, HeadedSaid DEF o
<1> QED BY <1>1, <1>2, <1>5 DEF o, w, s, pairs

LEMMA SimpleSaid ==
  ASSUME NEW data \in Seq(Octet), NEW pos \in Positions, NEW R, NEW V, NEW i \in {20, 21, 22}
  PROVE  Said(<<7 * 32 + i>>, [form |-> "simple", holds |-> i], data, pos, ReadValue(data, pos, R, V))
<1> DEFINE o == ReadValue(data, pos, R, V)
           e == <<7 * 32 + i>>
<1>1. PICK v : v = [form |-> "simple", holds |-> i]
  OBVIOUS
<1>2. PICK b \in Octet : b = 7 * 32 + i /\ b \div 32 = 7 /\ b % 32 = i
  <2>1. 7 \in 0..7 /\ i \in 0..31
    OBVIOUS
  <2> QED BY <2>1, FirstByte
<1>3. e \in Seq(Octet) /\ Len(e) = 1 /\ e[1] = b
  BY <1>2
<1>4. pos \in Nat /\ Len(data) \in Nat /\ pos + 1 - 1 = pos
  BY DEF Positions
<1> HIDE DEF e, o
<1>5. ASSUME Stops(data, pos, e) PROVE o = Fails
  <2>1. pos > Len(data)
    BY <1>3, <1>4, <1>5 DEF Stops
  <2> QED BY <2>1 DEF ReadValue, o
<1>6. ASSUME Holds(data, pos, e) PROVE o = Reads(v, pos + Len(e))
  <2>1. ~(pos > Len(data)) /\ data[pos] = b
    <3>1. pos + 1 - 1 <= Len(data) /\ \A k \in 1..1 : data[pos + k - 1] = e[k]
      BY <1>3, <1>6 DEF Holds
    <3>2. data[pos + 1 - 1] = e[1]
      BY <3>1
    <3> QED BY <1>3, <1>4, <3>1, <3>2
  <2>2. PICK major, info : major = data[pos] \div 32 /\ info = data[pos] % 32 /\ major = 7 /\ info = i
    BY <1>2, <2>1
  <2>3. PICK number : number = ReadIntAt(data, pos + 1, info)
    OBVIOUS
  <2>4. PICK items : items = ReadItems(data, number.pos, CountOf(major, number.value), R, V)
    OBVIOUS
  <2>5. o = ReadOf(data, pos, major, info, number, items)
    BY <2>1, <2>2, <2>3, <2>4, ReadValueIs DEF o
  <2>6. o = Reads(v, pos + 1)
    BY <1>1, <2>2, <2>5 DEF ReadOf
  <2> QED BY <1>3, <2>6
<1> QED BY <1>1, <1>3, <1>5, <1>6 DEF Said, e, o

LEMMA GreatestNat == Greatest31 \in Nat
BY SMT, GreatestIs

LEMMA GreatestAbove == 24 <= Greatest31
BY SMT, GreatestIs

LEMMA SampledInteger ==
  ASSUME NEW i \in Integer
  PROVE  i \in Int /\ -1 - Greatest31 <= i /\ i <= Greatest31
<1>1. Greatest31 \in Nat /\ i \in (-1 - Greatest31)..Greatest31
  BY GreatestNat, CborAssumption
<1> QED BY SMT, <1>1

LEMMA SampledLength ==
  ASSUME NEW n \in Lengths
  PROVE  n \in Nat /\ n <= Greatest31
<1>1. Greatest31 \in Nat /\ n \in 0..Greatest31
  BY GreatestNat, CborAssumption
<1> QED BY SMT, <1>1

\* Values whose numbers are in bounds, of values in P, with a key once in a map.
Proper(P) ==
  [form : {"int"}, holds : {i \in Int : -1 - Greatest31 <= i /\ i <= Greatest31}]
    \cup [form : {"bytes", "text"}, holds : {s \in Seq(Octet) : Len(s) <= Greatest31}]
    \cup [form : {"simple"}, holds : {20, 21, 22}]
    \cup [form : {"list"}, holds : {s \in Seq(P) : Len(s) <= Greatest31}]
    \cup [form : {"map"}, holds : {of \in SUBSET (P \X P) :
                                     IsFiniteSet(of) /\ Cardinality(of) <= Greatest31 /\ OneToOne(of)}]

LEMMA ProperForms ==
  ASSUME NEW P, NEW v \in Proper(P)
  PROVE  \/ \E i \in Int : -1 - Greatest31 <= i /\ i <= Greatest31 /\ v = [form |-> "int", holds |-> i]
         \/ \E s \in Seq(Octet) : Len(s) <= Greatest31 /\ v = [form |-> "bytes", holds |-> s]
         \/ \E s \in Seq(Octet) : Len(s) <= Greatest31 /\ v = [form |-> "text", holds |-> s]
         \/ \E i \in {20, 21, 22} : v = [form |-> "simple", holds |-> i]
         \/ \E s \in Seq(P) : Len(s) <= Greatest31 /\ v = [form |-> "list", holds |-> s]
         \/ \E of \in SUBSET (P \X P) : /\ IsFiniteSet(of) /\ Cardinality(of) <= Greatest31 /\ OneToOne(of)
                                        /\ v = [form |-> "map", holds |-> of]
  BY DEF Proper

LEMMA ProperNested ==
  ASSUME NEW P, NEW Q, P \subseteq Q
  PROVE  Proper(P) \subseteq Nested(Q)
<1>1. Seq(P) \subseteq Seq(Q)
  BY SeqMonotonic
<1>2. ASSUME NEW v \in Proper(P) PROVE v \in Nested(Q)
  <2>1. CASE \E i \in Int : v = [form |-> "int", holds |-> i]
    BY <2>1, ScalarsNested
  <2>2. CASE \E s \in Seq(Octet) : v = [form |-> "bytes", holds |-> s] \/ v = [form |-> "text", holds |-> s]
    BY <2>2, ScalarsNested
  <2>3. CASE \E i \in {20, 21, 22} : v = [form |-> "simple", holds |-> i]
    BY <2>3, ScalarsNested
  <2>4. CASE \E s \in Seq(P) : v = [form |-> "list", holds |-> s]
    BY <1>1, <2>4, ScalarsNested
  <2>5. CASE \E of \in SUBSET (P \X P) : v = [form |-> "map", holds |-> of]
    <3>1. PICK of \in SUBSET (P \X P) : v = [form |-> "map", holds |-> of]
      BY <2>5
    <3>2. of \in SUBSET (Q \X Q)
      OBVIOUS
    <3> QED BY <3>1, <3>2 DEF Nested
  <2> QED BY <2>1, <2>2, <2>3, <2>4, <2>5, ProperForms
<1> QED BY <1>2

\* What the writer makes of each form.
WriterOf(form, of, E) ==
  CASE form = "int" /\ of >= 0 -> CborHead(0, of)
    [] form = "int" /\ of < 0  -> CborHead(1, -1 - of)
    [] form = "bytes"  -> CborHead(2, Len(of)) \o of
    [] form = "text"   -> CborHead(3, Len(of)) \o of
    [] form = "list"   -> CborHead(4, Len(of)) \o Written(of, E)
    [] form = "map"    -> CborHead(5, Cardinality(of)) \o Written(InTurn(Sorted(of, ByKey(of, E))), E)
    [] form = "simple" -> <<7 * 32 + of>>

LEMMA WriterIs ==
  ASSUME NEW E, NEW v \in Nested(DOMAIN E), NEW form, NEW of, v = [form |-> form, holds |-> of]
  PROVE  Writer(E)[v] = WriterOf(form, of, E)
<1>1. v.form = form /\ v.holds = of
  OBVIOUS
<1>2. Writer(E)[v] = WriterOf(v.form, v.holds, E)
  BY DEF Writer, WriterOf, ByKey
<1> QED BY <1>1, <1>2

\* A value of a level is read as it was written, if those of the level below are.
LEMMA ProperSaid ==
  ASSUME NEW E, NEW R, NEW V, NEW P, Fits(E, R, V, P), NEW v \in Proper(P),
         NEW data \in Seq(Octet), NEW pos \in Positions
  PROVE  Said(Writer(E)[v], v, data, pos, ReadValue(data, pos, R, V))
<1> DEFINE o == ReadValue(data, pos, R, V)
           w == Writer(E)[v]
<1>0. v \in Nested(DOMAIN E)
  BY ProperNested DEF Fits
<1> HIDE DEF o
<1>1. ASSUME NEW i \in Int, -1 - Greatest31 <= i, i <= Greatest31, v = [form |-> "int", holds |-> i]
      PROVE  Said(w, v, data, pos, o)
  <2>0. Greatest31 \in Nat
    BY GreatestNat
  <2>1. CASE i >= 0
    <3>1. w = CborHead(0, i)
      <4>1. w = WriterOf("int", i, E)
        BY <1>0, <1>1, WriterIs
      <4> QED BY <2>1, <4>1 DEF WriterOf
    <3>2. PICK n \in Nat, major \in {0, 1} : n = i /\ major = 0
      BY <2>1
    <3>3. Said(CborHead(major, n), [form |-> "int", holds |-> IF major = 0 THEN n ELSE -1 - n], data, pos, o)
      BY <1>1, <3>2, IntSaid DEF o
    <3> QED BY <1>1, <3>1, <3>2, <3>3
  <2>2. CASE i < 0
    <3>1. w = CborHead(1, -1 - i)
      <4>1. w = WriterOf("int", i, E)
        BY <1>0, <1>1, WriterIs
      <4> QED BY <2>2, <4>1 DEF WriterOf
    <3>2. PICK n \in Nat, major \in {0, 1} : n = -1 - i /\ major = 1 /\ n <= Greatest31 /\ -1 - n = i
      BY <1>1, <2>0, <2>2
    <3>3. Said(CborHead(major, n), [form |-> "int", holds |-> IF major = 0 THEN n ELSE -1 - n], data, pos, o)
      BY <3>2, IntSaid DEF o
    <3> QED BY <1>1, <3>1, <3>2, <3>3
  <2> QED BY <2>1, <2>2
<1>2. ASSUME NEW s \in Seq(Octet), Len(s) <= Greatest31, v = [form |-> "bytes", holds |-> s]
      PROVE  Said(w, v, data, pos, o)
  <2>1. w = CborHead(2, Len(s)) \o s
    <3>1. w = WriterOf("bytes", s, E)
      BY <1>0, <1>2, WriterIs
    <3> QED BY <3>1 DEF WriterOf
  <2>2. PICK major \in {2, 3} : major = 2
    OBVIOUS
  <2>3. Said(CborHead(major, Len(s)) \o s, [form |-> IF major = 2 THEN "bytes" ELSE "text", holds |-> s],
             data, pos, o)
    BY <1>2, StringSaid DEF o
  <2> QED BY <1>2, <2>1, <2>2, <2>3
<1>3. ASSUME NEW s \in Seq(Octet), Len(s) <= Greatest31, v = [form |-> "text", holds |-> s]
      PROVE  Said(w, v, data, pos, o)
  <2>1. w = CborHead(3, Len(s)) \o s
    <3>1. w = WriterOf("text", s, E)
      BY <1>0, <1>3, WriterIs
    <3> QED BY <3>1 DEF WriterOf
  <2>2. PICK major \in {2, 3} : major = 3
    OBVIOUS
  <2>3. Said(CborHead(major, Len(s)) \o s, [form |-> IF major = 2 THEN "bytes" ELSE "text", holds |-> s],
             data, pos, o)
    BY <1>3, StringSaid DEF o
  <2> QED BY <1>3, <2>1, <2>2, <2>3
<1>4. ASSUME NEW i \in {20, 21, 22}, v = [form |-> "simple", holds |-> i]
      PROVE  Said(w, v, data, pos, o)
  <2>1. w = <<7 * 32 + i>>
    <3>1. w = WriterOf("simple", i, E)
      BY <1>0, <1>4, WriterIs
    <3> QED BY <3>1 DEF WriterOf
  <2> QED BY <1>4, <2>1, SimpleSaid DEF o
<1>5. ASSUME NEW s \in Seq(P), Len(s) <= Greatest31, v = [form |-> "list", holds |-> s]
      PROVE  Said(w, v, data, pos, o)
  <2>1. w = CborHead(4, Len(s)) \o Written(s, E)
    <3>1. w = WriterOf("list", s, E)
      BY <1>0, <1>5, WriterIs
    <3> QED BY <3>1 DEF WriterOf
  <2> QED BY <1>5, <2>1, ListSaid DEF o
<1>6. ASSUME NEW of \in SUBSET (P \X P), IsFiniteSet(of), Cardinality(of) <= Greatest31, OneToOne(of),
             v = [form |-> "map", holds |-> of]
      PROVE  Said(w, v, data, pos, o)
  <2>1. w = CborHead(5, Cardinality(of)) \o Written(InTurn(Sorted(of, ByKey(of, E))), E)
    <3>1. w = WriterOf("map", of, E)
      BY <1>0, <1>6, WriterIs
    <3> QED BY <3>1 DEF WriterOf
  <2> QED BY <1>6, <2>1, MapSaid DEF o
<1> HIDE DEF w
<1> QED BY <1>1, <1>2, <1>3, <1>4, <1>5, <1>6, ProperForms DEF w, o

LEMMA FitsDeeper ==
  ASSUME NEW E, NEW R, NEW V, NEW P, Fits(E, R, V, P)
  PROVE  Fits(Writer(E), Reader(R, V), Nested(V), Proper(P))
<1>1. /\ R \in [Seq(Octet) \X Positions -> Outcomes(V)]
      /\ P \subseteq DOMAIN E /\ P \subseteq V
  BY DEF Fits
<1>2. /\ Reader(R, V) \in [Seq(Octet) \X Positions -> Outcomes(Nested(V))]
      /\ \A data \in Seq(Octet), pos \in Positions : Reader(R, V)[<<data, pos>>] = ReadValue(data, pos, R, V)
  BY <1>1, ReaderTyped
<1>3. Proper(P) \subseteq Nested(V) /\ Proper(P) \subseteq DOMAIN Writer(E)
  <2>1. DOMAIN Writer(E) = Nested(DOMAIN E)
    BY DEF Writer
  <2> QED BY <1>1, <2>1, ProperNested
<1>4. ASSUME NEW v \in Proper(P), NEW data \in Seq(Octet), NEW pos \in Positions
      PROVE  /\ Writer(E)[v] \in Seq(Octet)
             /\ Holds(data, pos, Writer(E)[v]) => Reader(R, V)[<<data, pos>>] = Reads(v, pos + Len(Writer(E)[v]))
             /\ Stops(data, pos, Writer(E)[v]) => Reader(R, V)[<<data, pos>>] = Fails
  BY <1>2, ProperSaid DEF Said
<1>5. <<>> \in Seq(Octet) /\ 1 \in Positions
  BY NoOctets DEF Positions
<1>6. \A v \in Proper(P) : Writer(E)[v] \in Seq(Octet)
  BY <1>4, <1>5
<1> QED BY <1>2, <1>3, <1>4, <1>6 DEF Fits

-----------------------------------------------------------------------------
\* Proper values nested so deep.
Propers[k \in 0..MaxLevels] == IF k = 0 THEN {} ELSE Proper(Propers[k - 1])
Encodable == Propers[MaxLevels]

LEMMA ProperLevels ==
  Propers[0] = {} /\ \A k \in 1..MaxLevels : Propers[k] = Proper(Propers[k - 1])
<1> DEFINE Rises(f, m) == f = [k \in 0..m |-> IF k = 0 THEN {} ELSE Proper(f[k - 1])]
           H == {m \in 0..MaxLevels : \E f : Rises(f, m)}
<1>0. MaxLevels \in Nat
  BY CborAssumption
<1>1. 0 \in H
  <2> DEFINE f == [k \in 0..0 |-> {}]
  <2>1. Rises(f, 0)
    OBVIOUS
  <2>2. \E h : Rises(h, 0)
    <3> HIDE DEF f, Rises
    <3> QED BY <2>1
  <2> HIDE DEF f, Rises
  <2> QED BY <1>0, <2>2
<1>2. ASSUME NEW m \in 1..MaxLevels, m - 1 \in H PROVE m \in H
  <2>1. PICK f : Rises(f, m - 1)
    BY <1>2
  <2> DEFINE g == [k \in 0..m |-> IF k = m THEN Proper(f[m - 1]) ELSE f[k]]
  <2>2. m \in 0..MaxLevels /\ m # 0 /\ \A k \in 0..m : k = m \/ k \in 0..(m - 1)
    BY <1>0
  <2>3. \A k \in 0..(m - 1) : k \in 0..m /\ k # m /\ (k # 0 => k - 1 \in 0..(m - 1) /\ k - 1 \in 0..m /\ k - 1 # m)
    BY <1>0
  <2>4. m - 1 \in 0..m /\ m - 1 # m
    BY <1>0
  <2>5. \A k \in 0..m : g[k] = IF k = 0 THEN {} ELSE Proper(g[k - 1])
    <3>1. ASSUME NEW k \in 0..(m - 1) PROVE g[k] = IF k = 0 THEN {} ELSE Proper(g[k - 1])
      <4>1. g[k] = f[k] /\ f[k] = IF k = 0 THEN {} ELSE Proper(f[k - 1])
        BY <2>1, <2>3
      <4>2. k # 0 => g[k - 1] = f[k - 1]
        BY <2>3
      <4> QED BY <4>1, <4>2
    <3>2. g[m] = Proper(g[m - 1])
      BY <2>2, <2>4
    <3> HIDE DEF g
    <3> QED BY <2>2, <3>1, <3>2
  <2>6. Rises(g, m)
    <3>1. g = [k \in 0..m |-> g[k]]
      OBVIOUS
    <3> HIDE DEF g
    <3> QED BY <2>5, <3>1
  <2> HIDE DEF Rises, g
  <2> QED BY <2>2, <2>6
<1>3. MaxLevels \in H
  <2> HIDE DEF H
  <2>1. 0..MaxLevels \subseteq H
    BY <1>0, <1>1, <1>2, Climb
  <2> QED BY <1>0, <2>1
<1>4. PICK f : Rises(f, MaxLevels)
  BY <1>3
<1>5. Rises(Propers, MaxLevels)
  BY <1>4 DEF Propers
<1> QED BY <1>0, <1>5

LEMMA LevelsRise ==
  /\ Level[0] = [writes |-> <<>>, reads |-> [at \in Seq(Octet) \X Positions |-> Fails], values |-> {}]
  /\ \A k \in 1..MaxLevels : Level[k] = Around(Level[k - 1])
<1> DEFINE bottom == [writes |-> <<>>, reads |-> [at \in Seq(Octet) \X Positions |-> Fails], values |-> {}]
           Rises(f, m) == f = [k \in 0..m |-> IF k = 0 THEN bottom ELSE Around(f[k - 1])]
           H == {m \in 0..MaxLevels : \E f : Rises(f, m)}
<1>0. MaxLevels \in Nat
  BY CborAssumption
<1>4. ASSUME NEW f, Rises(f, MaxLevels) PROVE Rises(Level, MaxLevels)
  BY <1>4 DEF Level
<1> HIDE DEF bottom
<1>1. 0 \in H
  <2> DEFINE f == [k \in 0..0 |-> bottom]
  <2>1. Rises(f, 0)
    OBVIOUS
  <2>2. \E h : Rises(h, 0)
    <3> HIDE DEF f, Rises
    <3> QED BY <2>1
  <2> HIDE DEF f, Rises
  <2> QED BY <1>0, <2>2
<1>2. ASSUME NEW m \in 1..MaxLevels, m - 1 \in H PROVE m \in H
  <2>1. PICK f : Rises(f, m - 1)
    BY <1>2
  <2> DEFINE g == [k \in 0..m |-> IF k = m THEN Around(f[m - 1]) ELSE f[k]]
  <2>2. m \in 0..MaxLevels /\ m # 0 /\ \A k \in 0..m : k = m \/ k \in 0..(m - 1)
    BY <1>0
  <2>3. \A k \in 0..(m - 1) : k \in 0..m /\ k # m /\ (k # 0 => k - 1 \in 0..(m - 1) /\ k - 1 \in 0..m /\ k - 1 # m)
    BY <1>0
  <2>4. m - 1 \in 0..m /\ m - 1 # m
    BY <1>0
  <2>5. \A k \in 0..m : g[k] = IF k = 0 THEN bottom ELSE Around(g[k - 1])
    <3>1. ASSUME NEW k \in 0..(m - 1) PROVE g[k] = IF k = 0 THEN bottom ELSE Around(g[k - 1])
      <4>1. g[k] = f[k] /\ f[k] = IF k = 0 THEN bottom ELSE Around(f[k - 1])
        BY <2>1, <2>3
      <4>2. k # 0 => g[k - 1] = f[k - 1]
        BY <2>3
      <4> QED BY <4>1, <4>2
    <3>2. g[m] = Around(g[m - 1])
      BY <2>2, <2>4
    <3> HIDE DEF g
    <3> QED BY <2>2, <3>1, <3>2
  <2>6. Rises(g, m)
    <3>1. g = [k \in 0..m |-> g[k]]
      OBVIOUS
    <3> HIDE DEF g
    <3> QED BY <2>5, <3>1
  <2> HIDE DEF Rises, g
  <2> QED BY <2>2, <2>6
<1>3. PICK f : Rises(f, MaxLevels)
  <2> HIDE DEF H
  <2>1. 0..MaxLevels \subseteq H
    BY <1>0, <1>1, <1>2, Climb
  <2>2. MaxLevels \in H
    BY <1>0, <2>1
  <2> QED BY <2>2 DEF H
<1>5. Rises(Level, MaxLevels)
  BY <1>3, <1>4
<1>6. Level[0] = bottom /\ \A k \in 1..MaxLevels : Level[k] = Around(Level[k - 1])
  BY <1>0, <1>5
<1> QED BY <1>6 DEF bottom

\* Of every value, nested as deep as it may be, what cbor_encode writes is what
\* _cbor_read_any reads back, whatever stands before and behind it, and what
\* ends inside it is read as no value.
THEOREM EncodingFits == Fits(CborEncode, ReadAny, Level[MaxLevels].values, Encodable)
<1> DEFINE H == {k \in 0..MaxLevels : Fits(Level[k].writes, Level[k].reads, Level[k].values, Propers[k])}
<1>0. MaxLevels \in Nat
  BY CborAssumption
<1>1. 0 \in H
  <2>1. PICK E, R : E = <<>> /\ R = [at \in Seq(Octet) \X Positions |-> Fails]
    OBVIOUS
  <2>2. Level[0].writes = E /\ Level[0].reads = R /\ Level[0].values = {} /\ Propers[0] = {}
    BY <2>1, LevelsRise, ProperLevels
  <2>3. R \in [Seq(Octet) \X Positions -> Outcomes({})]
    BY <2>1 DEF Outcomes
  <2>4. Fits(E, R, {}, {})
    BY <2>3 DEF Fits
  <2> QED BY <1>0, <2>2, <2>4
<1>2. ASSUME NEW k \in 1..MaxLevels, k - 1 \in H PROVE k \in H
  <2>1. PICK E, R, V, P : /\ E = Level[k - 1].writes /\ R = Level[k - 1].reads
                          /\ V = Level[k - 1].values /\ P = Propers[k - 1]
    OBVIOUS
  <2>2. Fits(E, R, V, P)
    BY <1>2, <2>1
  <2>3. Fits(Writer(E), Reader(R, V), Nested(V), Proper(P))
    BY <2>2, FitsDeeper
  <2>4. Level[k] = [writes |-> Writer(E), reads |-> Reader(R, V), values |-> Nested(V)]
    BY <2>1, LevelsRise DEF Around
  <2>5. Propers[k] = Proper(P)
    BY <2>1, ProperLevels
  <2>6. k \in 0..MaxLevels
    BY <1>0
  <2> QED BY <2>3, <2>4, <2>5, <2>6
<1>3. MaxLevels \in H
  <2> HIDE DEF H
  <2>1. 0..MaxLevels \subseteq H
    BY <1>0, <1>1, <1>2, Climb
  <2> QED BY <1>0, <2>1
<1> QED BY <1>3 DEF CborEncode, ReadAny, Encodable

LEMMA ProperHas ==
  ASSUME NEW P
  PROVE  /\ \A i \in Int : -1 - Greatest31 <= i /\ i <= Greatest31 => [form |-> "int", holds |-> i] \in Proper(P)
         /\ \A s \in Seq(Octet) : Len(s) <= Greatest31 =>
              [form |-> "bytes", holds |-> s] \in Proper(P) /\ [form |-> "text", holds |-> s] \in Proper(P)
         /\ \A i \in {20, 21, 22} : [form |-> "simple", holds |-> i] \in Proper(P)
         /\ \A s \in Seq(P) : Len(s) <= Greatest31 => [form |-> "list", holds |-> s] \in Proper(P)
         /\ \A of \in SUBSET (P \X P) :
              IsFiniteSet(of) /\ Cardinality(of) <= Greatest31 /\ OneToOne(of)
                => [form |-> "map", holds |-> of] \in Proper(P)
  BY DEF Proper

LEMMA PlainProper ==
  ASSUME NEW P, NEW v \in Plain
  PROVE  v \in Proper(P)
<1>0. \A i \in Integer : i \in Int /\ -1 - Greatest31 <= i /\ i <= Greatest31
  BY SampledInteger
<1>1. CASE v \in [form : {"int"}, holds : Integer]
  BY <1>0, <1>1, ProperHas
<1>2. CASE v \in [form : {"bytes", "text"}, holds : {[i \in 1..n |-> 7] : n \in Lengths}]
  <2>1. PICK n \in Lengths : v.holds = [i \in 1..n |-> 7]
    BY <1>2
  <2>2. n \in Nat /\ n <= Greatest31
    BY SampledLength
  <2>3. v.holds \in Seq(Octet) /\ Len(v.holds) = n
    <3>1. 7 \in Octet
      BY DEF Octet
    <3>2. [i \in 1..n |-> 7] \in [1..n -> Octet]
      BY <3>1
    <3> QED BY <2>1, <2>2, <3>2, ListOf
  <2>4. v = [form |-> "bytes", holds |-> v.holds] \/ v = [form |-> "text", holds |-> v.holds]
    BY <1>2
  <2> QED BY <2>2, <2>3, <2>4, ProperHas
<1>3. CASE v \in [form : {"simple"}, holds : {20, 21, 22}]
  BY <1>3, ProperHas
<1> QED BY <1>1, <1>2, <1>3 DEF Plain

LEMMA SamplesProper == Samples \subseteq Encodable
<1>p. PICK P : Encodable = Proper(Proper(Proper(P)))
  <2>1. PICK k \in 1..MaxLevels, m \in 1..MaxLevels :
          k = MaxLevels - 1 /\ m = MaxLevels - 2 /\ MaxLevels \in 1..MaxLevels /\ m = k - 1
    BY CborAssumption
  <2>2. Propers[MaxLevels] = Proper(Propers[k]) /\ Propers[k] = Proper(Propers[m])
        /\ Propers[m] = Proper(Propers[m - 1])
    BY <2>1, ProperLevels
  <2> QED BY <2>2 DEF Encodable
<1> DEFINE P2 == Proper(Proper(P))
<1>0. Greatest31 \in Nat /\ 24 <= Greatest31
  BY GreatestNat, GreatestAbove
<1>1. ASSUME NEW v \in Plain PROVE v \in Encodable
  BY <1>p, PlainProper
<1> HIDE DEF P2
<1>2. ASSUME NEW a \in Plain, NEW b \in Plain PROVE [form |-> "list", holds |-> <<a, b>>] \in Encodable
  <2>1. a \in P2 /\ b \in P2
    BY PlainProper DEF P2
  <2>2. <<a, b>> \in Seq(P2) /\ Len(<<a, b>>) = 2
    BY <2>1
  <2>3. 2 <= Greatest31
    BY <1>0
  <2> QED BY <2>2, <2>3, <1>p, ProperHas DEF P2
<1>3. ASSUME NEW n \in Lengths \cap 0..24
      PROVE  [form |-> "list", holds |-> [i \in 1..n |-> [form |-> "int", holds |-> 1]]] \in Encodable
  <2>1. [form |-> "int", holds |-> 1] \in P2
    <3>1. 1 \in Int /\ -1 - Greatest31 <= 1 /\ 1 <= Greatest31
      BY <1>0
    <3> QED BY <3>1, <1>p, ProperHas DEF P2
  <2>2. n \in Nat /\ n <= Greatest31
    BY <1>0
  <2>3. [i \in 1..n |-> [form |-> "int", holds |-> 1]] \in [1..n -> P2]
    BY <2>1
  <2>4. PICK s \in Seq(P2) : s = [i \in 1..n |-> [form |-> "int", holds |-> 1]] /\ Len(s) = n
    BY <2>2, <2>3, ListOf
  <2> QED BY <2>2, <2>4, <1>p, ProperHas DEF P2
<1>4. ASSUME NEW keys \in Headers
      PROVE  [form |-> "map", holds |-> {<<k, [form |-> "list", holds |-> <<k>>]>> : k \in keys}] \in Encodable
  <2> DEFINE Of(k) == <<k, [form |-> "list", holds |-> <<k>>]>>
             of == {Of(k) : k \in keys}
  <2>1. /\ keys \subseteq [form : {"int"}, holds : Integer] /\ Cardinality(keys) <= 2
    BY DEF Headers
  <2>2. ASSUME NEW k \in keys PROVE Of(k) \in P2 \X P2
    <3>1. k \in Plain
      BY <2>1 DEF Plain
    <3>2. k \in Proper(P) /\ k \in P2
      BY <3>1, PlainProper DEF P2
    <3>3. <<k>> \in Seq(Proper(P)) /\ Len(<<k>>) = 1
      BY <3>2
    <3>4. 1 <= Greatest31
      BY <1>0
    <3>5. [form |-> "list", holds |-> <<k>>] \in P2
      BY <3>3, <3>4, <1>p, ProperHas DEF P2
    <3> QED BY <3>2, <3>5
  <2>3. IsFiniteSet(keys)
    <3>1. IsFiniteSet(Integer)
      BY CborAssumption
    <3> DEFINE AsInt(i) == [form |-> "int", holds |-> i]
               all == {AsInt(i) : i \in Integer}
               f == [i \in Integer |-> AsInt(i)]
    <3>2. f \in Surjection(Integer, all)
      BY DEF Surjection
    <3>3. IsFiniteSet(all)
      <4> HIDE DEF all, f
      <4> QED BY <3>1, <3>2, FS_Surjection
    <3>4. keys \subseteq all
      BY <2>1
    <3> HIDE DEF all
    <3> QED BY <3>3, <3>4, FS_Subset
  <2>4. OneToOne(of)
    BY DEF OneToOne
  <2>5. IsFiniteSet(of) /\ Cardinality(of) <= Cardinality(keys)
    <3> DEFINE g == [k \in keys |-> Of(k)]
    <3>1. g \in Surjection(keys, of)
      BY DEF Surjection
    <3> HIDE DEF g, of
    <3> QED BY <2>3, <3>1, FS_Surjection
  <2>6. of \in SUBSET (P2 \X P2)
    BY <2>2
  <2>7. Cardinality(of) <= Greatest31
    <3> HIDE DEF of
    <3>1. Cardinality(of) \in Nat /\ Cardinality(keys) \in Nat
      BY <2>3, <2>5, FS_CardinalityType
    <3> QED BY <1>0, <2>1, <2>5, <3>1
  <2>8. [form |-> "map", holds |-> of] \in Encodable
    <3> HIDE DEF of
    <3> QED BY <2>4, <2>5, <2>6, <2>7, <1>p, ProperHas DEF P2
  <2> QED BY <2>8
<1> QED BY <1>1, <1>2, <1>3, <1>4 DEF Samples

CborInv ==
  /\ sample \in Samples
  /\ decoded # <<>> => decoded = <<ReadAny[<<CborEncode[sample] \o <<0>>, 1>>]>>

LEMMA CborStarts == ASSUME CborInit PROVE CborInv
  BY DEF CborInit, CborInv

LEMMA CborKeeps == ASSUME CborInv, CborNext PROVE CborInv'
<1>1. sample' = sample /\ decoded' = <<ReadAny[<<CborEncode[sample] \o <<0>>, 1>>]>>
  BY DEF CborNext
<1> QED BY <1>1 DEF CborInv

LEMMA CborRests == ASSUME CborInv, UNCHANGED cborVars PROVE CborInv'
  BY DEF CborInv, cborVars

\* Nothing is read of no bytes.
LEMMA NothingRead ==
  ASSUME NEW none \in Seq(Octet), Len(none) = 0, NEW one \in Positions, one = 1
  PROVE  ReadAny[<<none, one>>] = Fails
<1>1. PICK inner, values : ReadAny = Reader(inner, values)
  <2>1. PICK k : k = MaxLevels /\ k \in 1..MaxLevels
    BY CborAssumption
  <2>2. Level[k] = Around(Level[k - 1])
    BY <2>1, LevelsRise
  <2>3. Level[k].reads = Reader(Level[k - 1].reads, Level[k - 1].values)
    BY <2>2 DEF Around
  <2> QED BY <2>1, <2>3 DEF ReadAny
<1>2. Reader(inner, values)[<<none, one>>] = ReadValue(none, one, inner, values)
  BY DEF Reader
<1>3. one > Len(none)
  OBVIOUS
<1>4. ReadValue(none, one, inner, values) = Fails
  BY <1>3 DEF ReadValue
<1> QED BY <1>1, <1>2, <1>4

\* Whatever follows it, an encoding is at the front; a front of it stops short.
LEMMA InFront ==
  ASSUME NEW e \in Seq(Octet), NEW t \in Seq(Octet), NEW one \in Positions, one = 1
  PROVE  Holds(e \o t, one, e)
<1>1. PICK w \in Seq(Octet) :
        /\ w = e \o t /\ Len(w) = Len(e) + Len(t) /\ Len(e) \in Nat /\ Len(t) \in Nat
        /\ \A i \in 1..Len(e) : w[i] = e[i]
  <2>1. PICK w \in Seq(Octet) : w = e \o t
    BY Joined
  <2>2. /\ Len(w) = Len(e) + Len(t) /\ Len(e) \in Nat /\ Len(t) \in Nat
        /\ \A i \in 1..Len(e) : w[i] = e[i]
    BY <2>1, Joined
  <2> QED BY <2>1, <2>2
<1>2. one + Len(e) - 1 <= Len(w)
  BY <1>1
<1>3. ASSUME NEW i \in 1..Len(e) PROVE w[one + i - 1] = e[i]
  <2>1. one + i - 1 = i
    BY <1>1
  <2> QED BY <1>1, <2>1
<1> QED BY <1>1, <1>2, <1>3 DEF Holds

LEMMA FrontStops ==
  ASSUME NEW e \in Seq(Octet), NEW n \in Nat, n < Len(e), NEW one \in Positions, one = 1
  PROVE  SubSeq(e, 1, n) \in Seq(Octet) /\ Stops(SubSeq(e, 1, n), one, e)
<1>1. PICK f : f = SubSeq(e, 1, n)
  OBVIOUS
<1>2. f \in Seq(Octet) /\ Len(f) = n /\ \A i \in 1..n : f[i] = e[i]
  <2>1. 1 \in 1..(Len(e) + 1) /\ n \in (1 - 1)..Len(e) /\ n - 1 + 1 = n
    OBVIOUS
  <2>2. Len(SubSeq(e, 1, n)) = n /\ SubSeq(e, 1, n) \in Seq(Octet)
    BY <2>1, SubSeqProperties
  <2>3. \A i \in 1..n : SubSeq(e, 1, n)[i] = e[i]
    OBVIOUS
  <2> QED BY <1>1, <2>2, <2>3
<1>3. Len(f) < one + Len(e) - 1
  BY <1>2
<1>4. ASSUME NEW i \in 1..Len(e), one + i - 1 <= Len(f) PROVE f[one + i - 1] = e[i]
  <2>1. one + i - 1 = i /\ i \in 1..n
    BY <1>2, <1>4
  <2> QED BY <1>2, <2>1
<1> QED BY <1>1, <1>2, <1>3, <1>4 DEF Stops

LEMMA HeldReads ==
  ASSUME NEW E, NEW R, NEW V, NEW P, Fits(E, R, V, P), NEW v \in P, NEW e, e = E[v],
         NEW data \in Seq(Octet), NEW pos \in Positions, Holds(data, pos, e)
  PROVE  R[<<data, pos>>] = Reads(v, pos + Len(e))
  BY FitsSays

LEMMA StoppedFails ==
  ASSUME NEW E, NEW R, NEW V, NEW P, Fits(E, R, V, P), NEW v \in P, NEW e, e = E[v],
         NEW data \in Seq(Octet), NEW pos \in Positions, Stops(data, pos, e)
  PROVE  R[<<data, pos>>] = Fails
  BY FitsSays

LEMMA CborKept == ASSUME CborInv PROVE EncodingExact
<1> SUFFICES ASSUME decoded # <<>> PROVE EncodingExact
  BY DEF EncodingExact
<1>1. PICK V : Fits(CborEncode, ReadAny, V, Encodable)
  BY EncodingFits
<1>2. PICK v \in Encodable : v = sample
  BY SamplesProper DEF CborInv
<1>3. PICK one \in Positions : one = 1
  BY DEF Positions
<1>4. PICK e \in Seq(Octet) : e = CborEncode[v]
  <2>1. CborEncode[v] \in Seq(Octet)
    BY <1>1, <1>2 DEF Fits
  <2> QED BY <2>1
<1>5. PICK t \in Seq(Octet) : t = <<0>>
  <2>1. 0 \in Octet
    BY DEF Octet
  <2>2. <<0>> \in Seq(Octet)
    BY <2>1
  <2> QED BY <2>2
<1>6. PICK data \in Seq(Octet) : data = e \o t
  BY Joined
<1>7. Len(e) \in Nat
  OBVIOUS
<1>8. ReadAny[<<data, one>>] = Reads(v, Len(e) + 1)
  <2>1. Holds(data, one, e)
    <3>1. Holds(e \o t, one, e)
      BY <1>3, InFront
    <3> QED BY <1>6, <3>1
  <2>2. ReadAny[<<data, one>>] = Reads(v, one + Len(e))
    BY <1>1, <1>4, <2>1, HeldReads
  <2>3. one + Len(e) = Len(e) + 1
    BY <1>3, <1>7
  <2> QED BY <2>2, <2>3
<1>9. Len(e) # 0
  <2>1. SUFFICES ASSUME Len(e) = 0 PROVE FALSE
    OBVIOUS
  <2>2. PICK none \in Seq(Octet) : none = e /\ Len(none) = 0 /\ Holds(none, one, e)
    <3>1. one + Len(e) - 1 <= Len(e) /\ \A i \in 1..Len(e) : e[one + i - 1] = e[i]
      BY <1>3, <2>1
    <3> QED BY <2>1, <3>1 DEF Holds
  <2>3. ReadAny[<<none, one>>] = Reads(v, one + Len(e))
    BY <1>1, <1>4, <2>2, HeldReads
  <2>4. ReadAny[<<none, one>>] = Fails
    BY <1>3, <2>2, NothingRead
  <2> QED BY <2>3, <2>4 DEF Reads, Fails
<1>10. ASSUME NEW n \in {0, 1, 2, 3, Len(e) - 1}, n < Len(e)
       PROVE  ~ReadAny[<<SubSeq(e, 1, n), 1>>].ok
  <2>1. n \in Nat
    BY <1>7, <1>9, <1>10
  <2>2. PICK f \in Seq(Octet) : f = SubSeq(e, 1, n) /\ Stops(f, one, e)
    BY <1>3, <1>10, <2>1, FrontStops
  <2>3. ReadAny[<<f, one>>] = Fails
    BY <1>1, <1>4, <2>2, StoppedFails
  <2> QED BY <1>3, <2>2, <2>3 DEF Fails
<1>11. decoded[1] = Reads(sample, Len(e) + 1)
  <2>1. decoded = <<ReadAny[<<CborEncode[sample] \o <<0>>, 1>>]>>
    BY DEF CborInv
  <2>2. decoded = <<ReadAny[<<data, one>>]>>
    BY <1>2, <1>3, <1>4, <1>5, <1>6, <2>1
  <2> QED BY <1>2, <1>8, <2>2
<1> QED BY <1>2, <1>4, <1>10, <1>11 DEF EncodingExact
=============================================================================

---------------------------- MODULE SequenceFacts ----------------------------
(***************************************************************************)
(* What moving one element between two sequences does to their             *)
(* concatenation: the step every "nothing lost, nothing reordered"         *)
(* invariant of this project comes down to; and how the elements of a      *)
(* kind are counted and ranked (Selections).                               *)
(***************************************************************************)
EXTENDS Selections, Integers, SequenceTheorems, FiniteSetTheorems, TLAPS

(* Popping the head of q onto the end of t leaves t \o q as it was.        *)
LEMMA PopFacts ==
  ASSUME NEW S, NEW q \in Seq(S), NEW t \in Seq(S), q # <<>>
  PROVE  /\ Head(q) \in S
         /\ Tail(q) \in Seq(S)
         /\ Append(t, Head(q)) \in Seq(S)
         /\ Append(t, Head(q)) \o Tail(q) = t \o q
<1>1. Head(q) \in S /\ Tail(q) \in Seq(S)
  BY HeadTailProperties
<1>2. Append(t, Head(q)) \in Seq(S)
  BY <1>1, AppendProperties
<1>3. Append(t, Head(q)) \o Tail(q) = t \o q
  <2>1. /\ Len(Append(t, Head(q)) \o Tail(q)) = Len(t) + 1 + (Len(q) - 1)
        /\ Len(t \o q) = Len(t) + Len(q)
        /\ Len(q) \in Nat \ {0}
        /\ Len(t) \in Nat
    BY <1>1, <1>2, ConcatProperties, AppendProperties, HeadTailProperties,
       EmptySeq, LenProperties
  <2>2. Append(t, Head(q)) \o Tail(q) \in Seq(S) /\ t \o q \in Seq(S)
    BY <1>1, <1>2, ConcatProperties
  <2>3. ASSUME NEW i \in 1 .. (Len(t) + Len(q))
        PROVE  (Append(t, Head(q)) \o Tail(q))[i] = (t \o q)[i]
    BY <1>1, <1>2, <2>1
  <2>4. QED
    BY <2>1, <2>2, <2>3, SeqEqual
<1>4. QED
  BY <1>1, <1>2, <1>3

(* Appending to q is appending to t \o q.                                  *)
LEMMA AppendConcat ==
  ASSUME NEW S, NEW q \in Seq(S), NEW t \in Seq(S), NEW v \in S
  PROVE  Append(t \o q, v) = t \o Append(q, v)
<1>1. t \o q \in Seq(S) /\ Len(t) \in Nat /\ Len(q) \in Nat
  BY ConcatProperties, LenProperties
<1>2. /\ Append(q, v) \in Seq(S)
      /\ Append(t \o q, v) \in Seq(S)
      /\ t \o Append(q, v) \in Seq(S)
      /\ Len(Append(t \o q, v)) = Len(t) + Len(q) + 1
      /\ Len(t \o Append(q, v)) = Len(t) + Len(q) + 1
  BY <1>1, AppendProperties, ConcatProperties
<1>3. ASSUME NEW i \in 1 .. (Len(t) + Len(q) + 1)
      PROVE  Append(t \o q, v)[i] = (t \o Append(q, v))[i]
  BY <1>1, <1>2
<1>4. QED
  BY <1>2, <1>3, SeqEqual

LEMMA PlacesFinite ==
  ASSUME NEW S, NEW s \in Seq(S), NEW T
  PROVE  IsFiniteSet(Places(s, T)) /\ Cardinality(Places(s, T)) \in Nat
<1>1. IsFiniteSet(1 .. Len(s))
  BY LenProperties, FS_Interval
<1>2. Places(s, T) \in SUBSET (1 .. Len(s))
  BY LenProperties DEF Places
<1>3. QED
  BY <1>1, <1>2, FS_Subset, FS_CardinalityType

(* An appended element is at a place of its own, and counts if it is of    *)
(* the kind.                                                               *)
LEMMA PlacesGrow ==
  ASSUME NEW S, NEW s \in Seq(S), NEW e \in S, NEW T
  PROVE  /\ Places(Append(s, e), T)
              = Places(s, T) \cup (IF e \in T THEN {Len(s) + 1} ELSE {})
         /\ \A i \in Places(s, T) : i \in 1 .. Len(s) /\ Append(s, e)[i] = s[i]
<1>1. /\ Len(s) + 1 \in Nat /\ Len(s) + 1 \notin DOMAIN s /\ DOMAIN s = 1 .. Len(s)
      /\ DOMAIN Append(s, e) = DOMAIN s \cup {Len(s) + 1}
      /\ Append(s, e)[Len(s) + 1] = e
      /\ \A i \in DOMAIN s : Append(s, e)[i] = s[i]
  BY LenProperties, AppendProperties
<1>2. QED
  BY <1>1 DEF Places

LEMMA PlacesAppend ==
  ASSUME NEW S, NEW s \in Seq(S), NEW e \in S, NEW T
  PROVE  Cardinality(Places(Append(s, e), T))
           = Cardinality(Places(s, T)) + IF e \in T THEN 1 ELSE 0
<1>1. /\ Places(Append(s, e), T)
             = Places(s, T) \cup (IF e \in T THEN {Len(s) + 1} ELSE {})
      /\ \A i \in Places(s, T) : i \in 1 .. Len(s)
  BY PlacesGrow
<1>2. IsFiniteSet(Places(s, T)) /\ Cardinality(Places(s, T)) \in Nat
  BY PlacesFinite
<1>3. Len(s) + 1 \notin Places(s, T)
  BY <1>1, LenProperties
<1>4. CASE e \in T
  BY <1>1, <1>2, <1>3, <1>4, FS_AddElement
<1>5. CASE e \notin T
  <2>1. Places(Append(s, e), T) = Places(s, T)
    BY <1>1, <1>5
  <2>2. QED
    BY <1>2, <1>5, <2>1
<1>6. QED
  BY <1>4, <1>5

(* A prefix has no more of a kind than the whole.                          *)
LEMMA PlacesPrefix ==
  ASSUME NEW S, NEW s \in Seq(S), NEW t \in Seq(S), NEW T
  PROVE  Cardinality(Places(s, T)) <= Cardinality(Places(s \o t, T))
<1>1. Places(s, T) \in SUBSET Places(s \o t, T)
  <2>1. /\ DOMAIN s = 1 .. Len(s) /\ DOMAIN (s \o t) = 1 .. Len(s) + Len(t)
        /\ Len(s) \in Nat /\ Len(t) \in Nat
        /\ \A i \in 1 .. Len(s) : (s \o t)[i] = s[i]
    BY ConcatProperties, LenProperties
  <2>2. QED
    BY <2>1 DEF Places
<1>2. s \o t \in Seq(S)
  BY ConcatProperties
<1>3. QED
  BY <1>1, <1>2, PlacesFinite, FS_Subset

-----------------------------------------------------------------------------
(* A rank counts members, from 1 on for a member.                          *)
LEMMA RankType ==
  ASSUME NEW S \in SUBSET Nat, IsFiniteSet(S), NEW i \in Nat
  PROVE  /\ Rank(S, i) \in 0 .. Cardinality(S)
         /\ i \in S => Rank(S, i) > 0
<1> DEFINE below == {j \in S : j <= i}
<1>1. below \in SUBSET S
  OBVIOUS
<1>2. /\ IsFiniteSet(below) /\ Cardinality(below) <= Cardinality(S)
      /\ Cardinality(below) \in Nat /\ Cardinality(S) \in Nat
  BY <1>1, FS_Subset, FS_CardinalityType
<1>3. i \in S => Cardinality(below) # 0
  BY <1>2, FS_EmptySet
<1>4. QED
  BY <1>2, <1>3 DEF Rank

(* A later member has a greater rank, so that no two have the same.        *)
LEMMA RankGrows ==
  ASSUME NEW S \in SUBSET Nat, IsFiniteSet(S), NEW x \in S, NEW y \in S, x < y
  PROVE  Rank(S, x) < Rank(S, y)
<1> DEFINE upTo(i) == {j \in S : j <= i}
<1>1. upTo(x) \cup {y} \in SUBSET upTo(y) /\ y \notin upTo(x)
  <2>1. x \in Nat /\ y \in Nat /\ \A j \in S : j \in Nat
    OBVIOUS
  <2>2. \A j \in S : j <= x => j <= y
    BY <2>1
  <2>3. y <= y /\ ~(y <= x)
    BY <2>1
  <2>4. QED
    BY <2>2, <2>3
<1>2. /\ IsFiniteSet(upTo(x)) /\ IsFiniteSet(upTo(y))
      /\ Cardinality(upTo(x)) \in Nat /\ Cardinality(upTo(y)) \in Nat
  <2>1. upTo(x) \in SUBSET S /\ upTo(y) \in SUBSET S
    OBVIOUS
  <2>2. QED
    BY <2>1, FS_Subset, FS_CardinalityType
<1> HIDE DEF upTo
<1>3. Cardinality(upTo(x) \cup {y}) = Cardinality(upTo(x)) + 1
  BY <1>1, <1>2, FS_AddElement
<1>4. Cardinality(upTo(x) \cup {y}) <= Cardinality(upTo(y))
  BY <1>1, <1>2, FS_Subset
<1>5. Rank(S, x) = Cardinality(upTo(x)) /\ Rank(S, y) = Cardinality(upTo(y))
  BY DEF Rank, upTo
<1>6. QED
  BY <1>2, <1>3, <1>4, <1>5

LEMMA RankDistinct ==
  ASSUME NEW S \in SUBSET Nat, IsFiniteSet(S), NEW x \in S, NEW y \in S,
         Rank(S, x) = Rank(S, y)
  PROVE  x = y
<1>1. x < y \/ x = y \/ y < x
  OBVIOUS
<1>2. Rank(S, x) \in Nat /\ Rank(S, y) \in Nat
  BY RankType
<1>3. QED
  BY <1>1, <1>2, RankGrows

(* Every number up to the size of the set is the rank of a member.         *)
LEMMA RankOnto ==
  ASSUME NEW S \in SUBSET Nat, IsFiniteSet(S), NEW k \in 1 .. Cardinality(S)
  PROVE  \E i \in S : Rank(S, i) = k
<1> DEFINE N == Cardinality(S)
           f == [i \in S |-> Rank(S, i)]
<1>1. N \in Nat
  BY FS_CardinalityType
<1>2. IsFiniteSet(1 .. N) /\ Cardinality(1 .. N) = N
  BY <1>1, FS_Interval
<1>3. \A i \in S : Rank(S, i) \in 1 .. N
  BY <1>1, RankType
<1>4. f \in Injection(S, 1 .. N)
  <2>1. f \in [S -> 1 .. N]
    BY <1>3
  <2>2. \A a, b \in S : f[a] = f[b] => a = b
    BY RankDistinct
  <2>3. QED
    BY <2>1, <2>2 DEF Injection, IsInjective
<1>5. f \in Surjection(S, 1 .. N)
  BY <1>2, <1>4, FS_Injection
<1>6. \E i \in S : f[i] = k
  BY <1>5 DEF Surjection
<1>7. QED
  BY <1>6

(* The last member has the greatest rank.                                  *)
LEMMA RankLast ==
  ASSUME NEW S \in SUBSET Nat, NEW x \in Nat, \A i \in S : i <= x
  PROVE  Rank(S, x) = Cardinality(S)
<1>1. {j \in S : j <= x} = S
  OBVIOUS
<1>2. QED
  BY <1>1 DEF Rank

(* A member above all others comes last and changes no other rank.         *)
LEMMA RankAdd ==
  ASSUME NEW S \in SUBSET Nat, IsFiniteSet(S), NEW x \in Nat, \A i \in S : i < x
  PROVE  /\ IsFiniteSet(S \cup {x})
         /\ Cardinality(S \cup {x}) = Cardinality(S) + 1
         /\ Rank(S \cup {x}, x) = Cardinality(S) + 1
         /\ \A i \in Nat : i < x => Rank(S \cup {x}, i) = Rank(S, i)
<1>1. x \notin S
  OBVIOUS
<1>2. IsFiniteSet(S \cup {x}) /\ Cardinality(S \cup {x}) = Cardinality(S) + 1
  BY <1>1, FS_AddElement
<1>3. Rank(S \cup {x}, x) = Cardinality(S \cup {x})
  <2>1. \A j \in S \cup {x} : j <= x
    OBVIOUS
  <2>2. QED
    BY <2>1, RankLast
<1>4. ASSUME NEW i \in Nat, i < x
      PROVE  {j \in S \cup {x} : j <= i} = {j \in S : j <= i}
  <2>1. ~(x <= i)
    BY <1>4
  <2>2. QED
    BY <2>1
<1>5. QED
  BY <1>2, <1>3, <1>4 DEF Rank
=============================================================================

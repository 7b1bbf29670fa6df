----------------------------- MODULE Tab_proofs -----------------------------
(***************************************************************************)
(* That every method of Tab keeps the tab's parts in step: for any number  *)
(* of panes, groups and stacks.                                            *)
(*                                                                         *)
(* The first part is about split trees (module PaneTree) and the loop of   *)
(* remove_pane_if, for any tree and any choice of victims (PaneRemoval).   *)
(* The lemmas then go over trees that grow and the operations on groups    *)
(* and stacks to one lemma for each method.  The last part follows the     *)
(* groups through the subtrees, once more method by method.                *)
(***************************************************************************)
EXTENDS Tab, PaneRemoval, SequenceTheorems, FiniteSetTheorems, WellFoundedInduction, TLAPS

(* What a tree is made of, proper or not. *)
PaneTrees == [sets : SUBSET SUBSET Pane, order : Seq(Pane)]

-----------------------------------------------------------------------------
(* Lists without repetitions. *)

LEMMA SetOfSeq ==
  ASSUME NEW S, NEW s \in Seq(S)
  PROVE  /\ ToSet(s) = {s[i] : i \in 1 .. Len(s)}
         /\ ToSet(s) \subseteq S
         /\ ToSet(s) = {} <=> s = <<>>
<1>1. /\ Len(s) \in Nat /\ DOMAIN s = 1 .. Len(s)
      /\ \A i \in 1 .. Len(s) : s[i] \in S
  BY LenProperties, ElementOfSeq
<1>2. s = <<>> <=> Len(s) = 0
  BY EmptySeq
<1>3. ToSet(s) = {s[i] : i \in 1 .. Len(s)}
  BY <1>1 DEF ToSet
<1>4. ToSet(s) \subseteq S
  BY <1>1, <1>3
<1>5. s # <<>> => s[1] \in ToSet(s)
  BY <1>1, <1>2, <1>3
<1>6. s = <<>> => ToSet(s) = {}
  BY <1>1, <1>2, <1>3
<1> QED BY <1>3, <1>4, <1>5, <1>6

IsConcat(S, a, b, r) ==
  /\ r \in Seq(S) /\ Len(r) = Len(a) + Len(b)
  /\ \A j \in 1 .. Len(a) + Len(b) : r[j] = IF j <= Len(a) THEN a[j] ELSE b[j - Len(a)]

LEMMA Concat ==
  ASSUME NEW S, NEW a \in Seq(S), NEW b \in Seq(S), NEW r, r = a \o b
  PROVE  IsConcat(S, a, b, r)
BY ConcatProperties DEF IsConcat

(* A place is taken out of a list. *)
IsTakenOut(S, s, k, r) ==
  /\ r \in Seq(S) /\ Len(r) = Len(s) - 1
  /\ \A j \in 1 .. Len(s) - 1 : r[j] = IF j < k THEN s[j] ELSE s[j + 1]
  /\ IsInjective(s) => IsInjective(r) /\ ToSet(r) = ToSet(s) \ {s[k]}

LEMMA TakenOut ==
  ASSUME NEW S, NEW s \in Seq(S), NEW k \in 1 .. Len(s)
  PROVE  IsTakenOut(S, s, k, RemoveAt(s, k))
<1> DEFINE r == RemoveAt(s, k)
           a == SubSeq(s, 1, k - 1)
           b == SubSeq(s, k + 1, Len(s))
<1>1. /\ Len(s) \in Nat /\ DOMAIN s = 1 .. Len(s)
      /\ \A i \in 1 .. Len(s) : s[i] \in S
  BY LenProperties, ElementOfSeq
<1>2. /\ a \in Seq(S) /\ Len(a) = k - 1
      /\ \A j \in 1 .. k - 1 : a[j] = s[j]
  <2>1. \A i \in 1 .. k - 1 : s[i] \in S
    BY <1>1
  <2> QED BY <1>1, <2>1, SubSeqProperties
<1>3. /\ b \in Seq(S) /\ Len(b) = Len(s) - k
      /\ \A j \in 1 .. Len(s) - k : b[j] = s[k + j]
  <2>1. /\ \A i \in k + 1 .. Len(s) : s[i] \in S
        /\ k + 1 \in Int /\ Len(s) \in Int
    BY <1>1
  <2>2. /\ b \in Seq(S)
        /\ Len(b) = IF k + 1 <= Len(s) THEN Len(s) - (k + 1) + 1 ELSE 0
        /\ \A j \in 1 .. Len(s) - (k + 1) + 1 : b[j] = s[(k + 1) + j - 1]
    BY <2>1, SubSeqProperties
  <2> HIDE DEF b
  <2>3. Len(b) = Len(s) - k
    <3>1. Len(s) \in Nat /\ k <= Len(s) /\ k \in Nat
      BY <1>1
    <3>2. Len(b) = IF k + 1 <= Len(s) THEN Len(s) - (k + 1) + 1 ELSE 0
      BY <2>2
    <3> QED BY <3>1, <3>2
  <2>4. ASSUME NEW j \in 1 .. Len(s) - k
        PROVE  b[j] = s[k + j]
    <3>1. j \in 1 .. Len(s) - (k + 1) + 1 /\ (k + 1) + j - 1 = k + j
      BY <1>1
    <3> QED BY <2>2, <3>1
  <2> QED BY <2>2, <2>3, <2>4
<1>4. r = a \o b
  BY DEF RemoveAt
<1> HIDE DEF a, b, r
<1>5. /\ r \in Seq(S) /\ Len(r) = Len(s) - 1
      /\ \A j \in 1 .. Len(s) - 1 : r[j] = IF j < k THEN s[j] ELSE s[j + 1]
  <2>1. /\ r \in Seq(S) /\ Len(r) = Len(a) + Len(b)
        /\ \A j \in 1 .. Len(a) + Len(b) :
             r[j] = IF j <= Len(a) THEN a[j] ELSE b[j - Len(a)]
    <3>1. IsConcat(S, a, b, r)
      BY <1>2, <1>3, <1>4, Concat
    <3> QED BY <3>1 DEF IsConcat
  <2>2. Len(r) = Len(s) - 1
    BY <1>1, <1>2, <1>3, <2>1
  <2>3. ASSUME NEW j \in 1 .. Len(s) - 1
        PROVE  r[j] = IF j < k THEN s[j] ELSE s[j + 1]
    <3>1. j \in 1 .. Len(a) + Len(b) /\ (j < k <=> j <= Len(a))
      BY <1>1, <1>2, <1>3
    <3>2. r[j] = IF j < k THEN a[j] ELSE b[j - (k - 1)]
      BY <1>2, <2>1, <3>1
    <3>3. CASE j < k
      BY <1>1, <1>2, <3>3, <3>2
    <3>4. CASE ~ (j < k)
      <4>1. j - (k - 1) \in 1 .. Len(s) - k /\ k + (j - (k - 1)) = j + 1
        BY <1>1, <3>4
      <4>2. r[j] = b[j - (k - 1)]
        BY <3>4, <3>2
      <4> QED BY <1>3, <3>4, <4>1, <4>2
    <3> QED BY <3>3, <3>4
  <2> QED BY <2>1, <2>2, <2>3
<1>6. DOMAIN r = 1 .. Len(s) - 1
  BY <1>5, LenProperties
<1>7. ASSUME IsInjective(s)
      PROVE  IsInjective(r) /\ ToSet(r) = ToSet(s) \ {s[k]}
  <2>1. \A i, j \in 1 .. Len(s) : s[i] = s[j] => i = j
    BY <1>1, <1>7 DEF IsInjective
  <2>2. IsInjective(r)
    <3>1. SUFFICES ASSUME NEW i \in 1 .. Len(s) - 1,
                          NEW j \in 1 .. Len(s) - 1, r[i] = r[j]
                   PROVE  i = j
      BY <1>6 DEF IsInjective
    <3> QED BY <1>1, <1>5, <2>1, <3>1
  <2>3. ASSUME NEW j \in 1 .. Len(s) - 1
        PROVE  r[j] \in ToSet(s) \ {s[k]}
    <3>1. PICK i \in 1 .. Len(s) : i # k /\ r[j] = s[i]
      BY <1>1, <1>5
    <3> QED BY <1>1, <2>1, <3>1 DEF ToSet
  <2>4. ASSUME NEW i \in 1 .. Len(s), i # k
        PROVE  s[i] \in ToSet(r)
    <3>1. CASE i < k
      BY <1>1, <1>5, <1>6, <3>1 DEF ToSet
    <3>2. CASE i > k
      <4>1. i - 1 \in 1 .. Len(s) - 1 /\ ~ (i - 1 < k) /\ (i - 1) + 1 = i
        BY <1>1, <3>2
      <4>2. r[i - 1] = s[i]
        BY <1>5, <4>1
      <4> QED BY <1>6, <4>1, <4>2 DEF ToSet
    <3> QED BY <1>1, <2>4, <3>1, <3>2
  <2>5. ToSet(r) \subseteq ToSet(s) \ {s[k]}
    BY <1>6, <2>3 DEF ToSet
  <2>6. ToSet(s) \ {s[k]} \subseteq ToSet(r)
    <3>1. SUFFICES ASSUME NEW x \in ToSet(s) \ {s[k]} PROVE x \in ToSet(r)
      OBVIOUS
    <3>2. PICK i \in 1 .. Len(s) : x = s[i]
      BY <1>1 DEF ToSet
    <3> QED BY <2>4, <3>1, <3>2
  <2> QED BY <2>2, <2>5, <2>6
<1> QED BY <1>5, <1>7 DEF r, IsTakenOut

(* The place of an element of a list.                                      *)
LEMMA Placed ==
  ASSUME NEW S, NEW s \in Seq(S), NEW x \in ToSet(s)
  PROVE  /\ PositionOf(s, x) \in 1 .. Len(s)
         /\ s[PositionOf(s, x)] = x
         /\ IsInjective(s) =>
              \A i \in 1 .. Len(s) : s[i] = x => PositionOf(s, x) = i
<1>1. DOMAIN s = 1 .. Len(s)
  BY LenProperties
<1>2. \E i \in DOMAIN s : s[i] = x
  BY DEF ToSet
<1>3. PositionOf(s, x) \in DOMAIN s /\ s[PositionOf(s, x)] = x
  BY <1>2 DEF PositionOf
<1> QED BY <1>1, <1>3 DEF IsInjective

(* A list without repetitions is as long as the set of its elements.       *)
LEMMA Counted ==
  ASSUME NEW S, NEW s \in Seq(S), IsInjective(s)
  PROVE  IsFiniteSet(ToSet(s)) /\ Cardinality(ToSet(s)) = Len(s)
<1>1. Len(s) \in Nat /\ DOMAIN s = 1 .. Len(s) /\ s \in [1 .. Len(s) -> S]
  BY LenProperties
<1>2. s \in [1 .. Len(s) -> ToSet(s)]
  BY <1>1 DEF ToSet
<1>3. s \in Bijection(1 .. Len(s), ToSet(s))
  BY <1>1, <1>2 DEF IsInjective, ToSet, Bijection, Injection, Surjection
<1>4. ExistsBijection(1 .. Len(s), ToSet(s))
  BY <1>3 DEF ExistsBijection
<1>5. IsFiniteSet(ToSet(s))
  BY <1>1, <1>4, FS_NatBijection
<1> QED BY <1>1, <1>4, <1>5, FS_CountingElements

(* An element is added at the end of a list.                               *)
IsLonger(S, s, x, r) ==
  /\ r \in Seq(S) /\ Len(r) = Len(s) + 1 /\ r # <<>>
  /\ ToSet(r) = ToSet(s) \cup {x}
  /\ IsInjective(s) /\ x \notin ToSet(s) => IsInjective(r)

LEMMA Appended ==
  ASSUME NEW S, NEW s \in Seq(S), NEW x \in S, NEW r, r = Append(s, x)
  PROVE  IsLonger(S, s, x, r)
<1>1. /\ r \in Seq(S) /\ Len(r) = Len(s) + 1
      /\ \A i \in 1 .. Len(s) : r[i] = s[i]
      /\ r[Len(s) + 1] = x
  BY AppendProperties
<1>2. /\ Len(s) \in Nat /\ DOMAIN s = 1 .. Len(s)
      /\ DOMAIN r = 1 .. Len(s) + 1
  BY <1>1, LenProperties
<1>3. r # <<>>
  BY <1>1, <1>2, EmptySeq
<1>4. \A y : y \in ToSet(r) <=> y \in ToSet(s) \cup {x}
  <2>1. \A i \in 1 .. Len(s) + 1 : i \in 1 .. Len(s) \/ i = Len(s) + 1
    BY <1>2
  <2> QED BY <1>1, <1>2, <2>1 DEF ToSet
<1>5. ASSUME IsInjective(s), x \notin ToSet(s) PROVE IsInjective(r)
  <2>1. SUFFICES ASSUME NEW i \in 1 .. Len(s) + 1, NEW j \in 1 .. Len(s) + 1,
                        r[i] = r[j]
                 PROVE  i = j
    BY <1>2 DEF IsInjective
  <2>2. \A h \in 1 .. Len(s) : s[h] # x
    BY <1>2, <1>5 DEF ToSet
  <2>3. \A g, h \in 1 .. Len(s) : s[g] = s[h] => g = h
    BY <1>2, <1>5 DEF IsInjective
  <2> QED BY <1>1, <1>2, <2>1, <2>2, <2>3
<1> QED BY <1>1, <1>3, <1>4, <1>5 DEF IsLonger

(* The least of some numbers.                                              *)
LEMMA Least ==
  ASSUME NEW N \in SUBSET Nat, N # {}
  PROVE  Min(N) \in N /\ \A n \in N : Min(N) <= n
<1>1. PICK n \in N : \A k \in N : ~ (<<k, n>> \in OpToRel(<, Nat))
  BY NatLessThanWellFounded, WFMin
<1>2. \A k \in N : ~ (k < n)
  BY <1>1 DEF OpToRel
<1> HIDE <1>1
<1>3. \A k \in N : n <= k
  BY <1>2
<1> QED BY <1>3 DEF Min

LEMMA TwoOrMore ==
  ASSUME NEW S, IsFiniteSet(S)
  PROVE  /\ Cardinality(S) \in Nat
         /\ Cardinality(S) > 1 <=> \E x, y \in S : x # y
<1>1. Cardinality(S) \in Nat
  BY FS_CardinalityType
<1>2. Cardinality(S) = 0 <=> S = {}
  BY FS_EmptySet
<1>3. Cardinality(S) = 1 <=> \E x : S = {x}
  BY FS_Singleton
<1>4. ASSUME Cardinality(S) > 1 PROVE \E x, y \in S : x # y
  <2>1. Cardinality(S) # 0 /\ Cardinality(S) # 1
    BY <1>1, <1>4
  <2>2. S # {} /\ \A x : S # {x}
    BY <1>2, <1>3, <2>1
  <2> QED BY <2>2
<1>5. ASSUME NEW x \in S, NEW y \in S, x # y PROVE Cardinality(S) > 1
  <2>1. S # {} /\ \A z : S # {z}
    BY <1>5
  <2>2. Cardinality(S) # 0 /\ Cardinality(S) # 1
    BY <1>2, <1>3, <2>1
  <2> QED BY <1>1, <2>2
<1> QED BY <1>1, <1>4, <1>5

-----------------------------------------------------------------------------
(* Split trees. *)

(* What IsTree says, with subtrees counted without Cardinality.            *)
LEMMA TreeFacts ==
  ASSUME NEW t \in PaneTrees
  PROVE  /\ Leaves(t) \subseteq Pane
         /\ \A S \in t.sets : /\ S \subseteq Leaves(t) /\ IsFiniteSet(S)
                              /\ Cardinality(S) > 1 <=> \E x, y \in S : x # y
         /\ Len(t.order) \in Nat /\ DOMAIN t.order = 1 .. Len(t.order)
<1>1. t.sets \subseteq SUBSET Pane /\ t.order \in Seq(Pane)
  BY DEF PaneTrees
<1>2. \A S \in t.sets : IsFiniteSet(S)
  BY <1>1, PaneAssumption, FS_Subset
<1>3. \A S \in t.sets : Cardinality(S) > 1 <=> \E x, y \in S : x # y
  BY <1>2, TwoOrMore
<1>4. Leaves(t) \subseteq Pane /\ \A S \in t.sets : S \subseteq Leaves(t)
  BY <1>1 DEF Leaves
<1>5. Len(t.order) \in Nat /\ DOMAIN t.order = 1 .. Len(t.order)
  BY <1>1, LenProperties
<1> QED BY <1>2, <1>3, <1>4, <1>5

(* A tree of two leaves or more has them as different panes.               *)
LEMMA LeavesCounted ==
  ASSUME NEW t \in PaneTrees, IsTree(t)
  PROVE  /\ Cardinality(Leaves(t)) = Len(t.order)
         /\ Leaves(t) = {} <=> Len(t.order) = 0
         /\ Len(t.order) > 1 <=> \E x, y \in Leaves(t) : x # y
<1>1. t.order \in Seq(Pane) /\ IsInjective(t.order) /\ ToSet(t.order) = Leaves(t)
  BY DEF PaneTrees, IsTree
<1>2. IsFiniteSet(Leaves(t)) /\ Cardinality(Leaves(t)) = Len(t.order)
  BY <1>1, Counted
<1>3. Cardinality(Leaves(t)) > 1 <=> \E x, y \in Leaves(t) : x # y
  BY <1>2, TwoOrMore
<1>4. Cardinality(Leaves(t)) = 0 <=> Leaves(t) = {}
  BY <1>2, FS_EmptySet
<1> QED BY <1>2, <1>3, <1>4

(* unsplit_leaf leaves a proper tree, of the other panes in their order.   *)
LEMMA LeafRemoved ==
  ASSUME NEW t \in PaneTrees, IsTree(t), NEW p \in Leaves(t)
  PROVE  LET r == RemoveLeaf(t, p)
             k == PositionOf(t.order, p)
         IN  /\ r \in PaneTrees /\ IsTree(r)
             /\ Leaves(r) = Leaves(t) \ {p}
             /\ k \in 1 .. Len(t.order) /\ t.order[k] = p
             /\ Len(r.order) = Len(t.order) - 1
             /\ \A j \in 1 .. Len(t.order) - 1 :
                  r.order[j] = IF j < k THEN t.order[j] ELSE t.order[j + 1]
<1> DEFINE r == RemoveLeaf(t, p)
           k == PositionOf(t.order, p)
           n == Len(t.order)
<1>1. /\ t.order \in Seq(Pane) /\ ToSet(t.order) = Leaves(t)
      /\ IsInjective(t.order) /\ n \in Nat /\ DOMAIN t.order = 1 .. n
  BY TreeFacts DEF PaneTrees, IsTree
<1>2. k \in 1 .. n /\ t.order[k] = p
  BY <1>1, Placed
<1>3. r.sets = {S \ {p} : S \in t.sets} \ {{}} /\ r.order = RemoveAt(t.order, k)
  BY DEF RemoveLeaf, Omit
<1>4. /\ r.order \in Seq(Pane) /\ Len(r.order) = n - 1
      /\ \A j \in 1 .. n - 1 :
           r.order[j] = IF j < k THEN t.order[j] ELSE t.order[j + 1]
      /\ IsInjective(r.order) /\ ToSet(r.order) = Leaves(t) \ {p}
  <2> DEFINE o == RemoveAt(t.order, k)
  <2>1. IsTakenOut(Pane, t.order, k, o)
    BY <1>1, <1>2, TakenOut
  <2> HIDE DEF o
  <2> QED BY <1>1, <1>2, <1>3, <2>1 DEF o, IsTakenOut
<1>5. DOMAIN r.order = 1 .. n - 1
  BY <1>4, LenProperties
<1>6. Leaves(r) = Leaves(t) \ {p}
  <2> HIDE DEF r
  <2>1. \A x : x \in Leaves(r) <=> \E S \in t.sets : x \in S \ {p}
    BY <1>3 DEF Leaves
  <2> QED BY <2>1 DEF Leaves
<1>7. r \in PaneTrees
  <2>1. r.sets \subseteq SUBSET Pane
    BY <1>3 DEF PaneTrees
  <2>2. r = [sets |-> r.sets, order |-> r.order]
    BY DEF RemoveLeaf
  <2> QED BY <1>4, <2>1, <2>2 DEF PaneTrees
<1>8. IsTree(r)
  <2> HIDE DEF r, k, n
  <2>1. ToSet(r.order) = Leaves(r) /\ IsInjective(r.order) /\ {} \notin r.sets
    BY <1>3, <1>4, <1>6
  <2>2. r.sets # {} => Leaves(r) \in r.sets
    <3>1. SUFFICES ASSUME NEW S \in r.sets PROVE Leaves(r) \in r.sets
      OBVIOUS
    <3>2. S # {} /\ S \subseteq Leaves(r) /\ t.sets # {}
      BY <1>3, <3>1 DEF Leaves
    <3>3. Leaves(t) \in t.sets
      BY <3>2 DEF IsTree
    <3> QED BY <1>3, <1>6, <3>2, <3>3
  <2>3. \A q \in Leaves(r) : {q} \in r.sets
    <3>1. SUFFICES ASSUME NEW q \in Leaves(r) PROVE {q} \in r.sets
      OBVIOUS
    <3>2. {q} \in t.sets /\ {q} = {q} \ {p}
      BY <1>6, <3>1 DEF IsTree
    <3> QED BY <1>3, <3>2
  <2>4. \A R, S \in r.sets : R \subseteq S \/ S \subseteq R \/ R \cap S = {}
    <3>1. SUFFICES ASSUME NEW R \in t.sets, NEW S \in t.sets
                   PROVE  \/ R \ {p} \subseteq S \ {p} \/ S \ {p} \subseteq R \ {p}
                          \/ (R \ {p}) \cap (S \ {p}) = {}
      BY <1>3
    <3>2. R \subseteq S \/ S \subseteq R \/ R \cap S = {}
      BY DEF IsTree
    <3> QED BY <3>2
  <2>5. ASSUME NEW S \in t.sets, Cardinality(S) > 1, S \ {p} # {},
               NEW x \in S \ {p}, NEW y \in S \ {p}, x # y
        PROVE  \E R \in r.sets : /\ R # S \ {p} /\ R \subseteq S \ {p}
                                 /\ (S \ {p}) \ R \in r.sets
    <3>1. PICK R \in t.sets : R # S /\ R \subseteq S /\ S \ R \in t.sets
      BY <2>5 DEF IsTree
    <3>2. R # {} /\ S \ R # {}
      BY <3>1 DEF IsTree
    <3>3. CASE R # {p} /\ S \ R # {p}
      <4>1. R \ {p} \in r.sets /\ (S \ R) \ {p} \in r.sets
        BY <1>3, <3>1, <3>2, <3>3
      <4>2. (S \ {p}) \ (R \ {p}) = (S \ R) \ {p} /\ (S \ R) \ {p} # {}
        BY <3>2, <3>3
      <4> QED BY <3>1, <4>1, <4>2
    <3>4. ASSUME NEW Q \in t.sets, Q = S \ {p}
          PROVE  \E T \in r.sets : /\ T # S \ {p} /\ T \subseteq S \ {p}
                                   /\ (S \ {p}) \ T \in r.sets
      <4>1. Cardinality(Q) > 1
        BY <2>5, <3>4, TreeFacts
      <4>2. PICK T \in t.sets : T # Q /\ T \subseteq Q /\ Q \ T \in t.sets
        BY <4>1 DEF IsTree
      <4>3. T \ {p} = T /\ (Q \ T) \ {p} = Q \ T /\ T # {} /\ Q \ T # {}
        BY <3>4, <4>2 DEF IsTree
      <4>4. T \in r.sets /\ Q \ T \in r.sets
        BY <1>3, <4>2, <4>3
      <4> QED BY <3>4, <4>2, <4>4
    <3>5. CASE R = {p}
      BY <3>1, <3>4, <3>5
    <3>6. CASE S \ R = {p}
      <4>1. R = S \ {p}
        BY <3>1, <3>6
      <4> QED BY <3>4, <4>1
    <3> QED BY <3>3, <3>5, <3>6
  <2>6. ASSUME NEW Q \in r.sets, Cardinality(Q) > 1
        PROVE  \E R \in r.sets : R # Q /\ R \subseteq Q /\ Q \ R \in r.sets
    <3>1. PICK S \in t.sets : Q = S \ {p}
      BY <1>3
    <3>2. PICK x \in Q, y \in Q : x # y
      BY <1>7, <2>6, TreeFacts
    <3>3. x \in S /\ y \in S
      BY <3>1
    <3>4. Cardinality(S) > 1
      BY <3>2, <3>3, TreeFacts
    <3> QED BY <2>5, <3>1, <3>2, <3>4
  <2>7. ASSUME NEW S \in r.sets, NEW h \in DOMAIN r.order,
               NEW i \in DOMAIN r.order, NEW j \in DOMAIN r.order,
               h < i, i < j, r.order[h] \in S, r.order[j] \in S
        PROVE  r.order[i] \in S
    <3>1. PICK T \in t.sets : S = T \ {p}
      BY <1>3
    <3> DEFINE at(m) == IF m < k THEN m ELSE m + 1
    <3>2. /\ h \in 1 .. n - 1 /\ i \in 1 .. n - 1 /\ j \in 1 .. n - 1
          /\ n \in Nat /\ k \in Nat
      BY <1>1, <1>2, <1>5
    <3>3. /\ at(h) \in 1 .. n /\ at(i) \in 1 .. n /\ at(j) \in 1 .. n
          /\ at(h) < at(i) /\ at(i) < at(j)
      BY <2>7, <3>2
    <3>4. /\ r.order[h] = t.order[at(h)] /\ r.order[i] = t.order[at(i)]
          /\ r.order[j] = t.order[at(j)]
      BY <1>4, <3>2
    <3> HIDE DEF at
    <3>5. t.order[at(i)] \in T
      BY <1>1, <2>7, <3>1, <3>3, <3>4 DEF IsTree
    <3>6. r.order[i] # p
      BY <1>4, <2>7 DEF ToSet
    <3> QED BY <3>1, <3>4, <3>5, <3>6
  <2> QED BY <2>1, <2>2, <2>3, <2>4, <2>6, <2>7 DEF IsTree
<1> QED BY <1>2, <1>4, <1>6, <1>7, <1>8 DEF r, k

(* The parent of a leaf has leaves on its other side.                      *)
LEMMA HasSibling ==
  ASSUME NEW t \in PaneTrees, IsTree(t), NEW p \in Leaves(t), Len(t.order) > 1
  PROVE  /\ SiblingLeaves(t, p) # {}
         /\ SiblingLeaves(t, p) \subseteq Leaves(t) \ {p}
<1> DEFINE above == {S \in t.sets : p \in S /\ S # {p}}
           parent == CHOOSE S \in above : \A R \in above : S \subseteq R
           sizes == {Cardinality(S) : S \in above}
<1>1. \E S \in above : TRUE
  <2>1. PICK x \in Leaves(t), y \in Leaves(t) : x # y
    BY LeavesCounted
  <2>2. Leaves(t) # {p} /\ t.sets # {}
    BY <2>1 DEF Leaves
  <2>3. Leaves(t) \in above
    BY <2>2 DEF IsTree
  <2> QED BY <2>3
<1>2. \A S \in above : IsFiniteSet(S) /\ Cardinality(S) \in Nat
  BY TreeFacts, FS_CardinalityType
<1>3. sizes \subseteq Nat /\ sizes # {}
  BY <1>1, <1>2
<1>4. PICK S \in above : \A R \in above : Cardinality(S) <= Cardinality(R)
  <2> HIDE DEF sizes
  <2>1. Min(sizes) \in sizes /\ \A n \in sizes : Min(sizes) <= n
    BY <1>3, Least
  <2> QED BY <2>1 DEF sizes
<1>5. ASSUME NEW R \in above PROVE S \subseteq R
  <2>1. CASE R \subseteq S
    <3>1. Cardinality(R) <= Cardinality(S) /\ (Cardinality(R) = Cardinality(S) => R = S)
      BY <1>2, <2>1, FS_Subset
    <3>2. Cardinality(S) = Cardinality(R)
      BY <1>2, <1>4, <1>5, <3>1
    <3> QED BY <3>1, <3>2
  <2>2. R \subseteq S \/ S \subseteq R \/ R \cap S = {}
    BY DEF IsTree
  <2> QED BY <2>1, <2>2
<1>6. parent \in above
  BY <1>5
<1>7. SiblingLeaves(t, p) = parent \ {p}
  BY DEF SiblingLeaves
<1> HIDE DEF parent
<1>8. parent \subseteq Leaves(t) /\ p \in parent /\ parent # {p}
  BY <1>6, TreeFacts
<1> QED BY <1>7, <1>8

(* The first place of an order that holds a pane of T.                     *)
LEMMA FirstPlace ==
  ASSUME NEW S, NEW s \in Seq(S), NEW T, T \cap ToSet(s) # {}
  PROVE  /\ FirstOf(s, T) \in 1 .. Len(s) /\ s[FirstOf(s, T)] \in T
         /\ \A i \in 1 .. Len(s) : s[i] \in T => FirstOf(s, T) <= i
<1> DEFINE N == {i \in DOMAIN s : s[i] \in T}
<1>1. DOMAIN s = 1 .. Len(s) /\ Len(s) \in Nat
  BY LenProperties
<1>2. N \subseteq Nat /\ N # {}
  BY <1>1 DEF ToSet
<1>3. Min(N) \in N /\ \A n \in N : Min(N) <= n
  BY <1>2, Least
<1>4. FirstOf(s, T) = Min(N)
  BY DEF FirstOf
<1> QED BY <1>1, <1>3, <1>4

-----------------------------------------------------------------------------
(* The loop.                                                               *)

Walks == [tree : PaneTrees, next : Nat \ {0}, pane_index : Nat,
          removed_indices : Seq(Nat), dead_panes : Seq(Pane)]

(* Where the loop may be when it began with tree t and victims V: the      *)
(* panes that are not in the tree any more were victims and are named dead *)
(* once each.                                                              *)
(* The subtrees, when the panes D are taken out of them.                   *)
Shrunk(sets, D) == {S \ D : S \in sets} \ {{}}

Sane(t, V, w) ==
  /\ w \in Walks
  /\ IsTree(w.tree) /\ Leaves(w.tree) \subseteq Leaves(t)
  /\ ToSet(w.dead_panes) = Leaves(t) \ Leaves(w.tree)
  /\ ToSet(w.dead_panes) \subseteq V
  /\ IsInjective(w.dead_panes)
  /\ w.tree.sets = Shrunk(t.sets, ToSet(w.dead_panes))

(* Before the first removal no leaf the cursor left behind is a victim,    *)
(* and the index of the next leaf is its place in the tree.                *)
Untouched(t, V, w) ==
  w.dead_panes = <<>> =>
    /\ w.tree = t /\ w.removed_indices = <<>>
    /\ w.pane_index = w.next - 1
    /\ \A i \in 1 .. Len(t.order) : i < w.next => t.order[i] \notin V

(* The loop has taken out pane v and no other.                             *)
TookOnly(t, v, w) ==
  w.dead_panes # <<>> =>
    /\ w.removed_indices = <<PositionOf(t.order, v) - 1>>
    /\ w.tree = IF Len(t.order) = 1 THEN NoTree ELSE RemoveLeaf(t, v)

Exact(t, V, w) ==
  Untouched(t, V, w) /\ \A v \in V : V = {v} => TookOnly(t, v, w)

LEMMA ShrunkAgain ==
  ASSUME NEW sets, NEW D, NEW p
  PROVE  Shrunk(Shrunk(sets, D), {p}) = Shrunk(sets, D \cup {p})
<1>1. ASSUME NEW S \in sets PROVE S \ (D \cup {p}) = (S \ D) \ {p}
  OBVIOUS
<1>2. ASSUME NEW R \in Shrunk(Shrunk(sets, D), {p}) PROVE R \in Shrunk(sets, D \cup {p})
  <2>1. PICK S \in sets : R = (S \ D) \ {p} /\ R # {}
    BY DEF Shrunk
  <2> QED BY <1>1, <2>1 DEF Shrunk
<1>3. ASSUME NEW R \in Shrunk(sets, D \cup {p}) PROVE R \in Shrunk(Shrunk(sets, D), {p})
  <2>1. PICK S \in sets : R = S \ (D \cup {p}) /\ R # {}
    BY DEF Shrunk
  <2>2. R = (S \ D) \ {p} /\ S \ D # {}
    BY <1>1, <2>1
  <2>3. S \ D \in Shrunk(sets, D)
    BY <2>2 DEF Shrunk
  <2> QED BY <2>1, <2>2, <2>3 DEF Shrunk
<1> QED BY <1>2, <1>3

LEMMA NoTreeLeft == NoTree \in PaneTrees /\ IsTree(NoTree) /\ Leaves(NoTree) = {}
<1>1. NoTree \in PaneTrees
  BY EmptySeq DEF NoTree, PaneTrees
<1>2. Leaves(NoTree) = {}
  BY DEF NoTree, Leaves
<1>3. DOMAIN NoTree.order = {} /\ NoTree.sets = {} /\ NoTree.order = <<>>
  BY DEF NoTree
<1>4. ToSet(NoTree.order) = {} /\ IsInjective(NoTree.order)
  BY <1>3 DEF ToSet, IsInjective
<1>5. IsTree(NoTree)
  BY <1>2, <1>3, <1>4 DEF IsTree
<1> QED BY <1>1, <1>2, <1>5

LEMMA WalkStarts ==
  ASSUME NEW t \in PaneTrees, IsTree(t), NEW V
  PROVE  Sane(t, V, StartWalk(t)) /\ Exact(t, V, StartWalk(t))
<1> DEFINE w == StartWalk(t)
<1>1. /\ w.tree = t /\ w.next = 1 /\ w.pane_index = 0
      /\ w.removed_indices = <<>> /\ w.dead_panes = <<>>
      /\ w = [tree |-> t, next |-> 1, pane_index |-> 0,
               removed_indices |-> <<>>, dead_panes |-> <<>>]
  BY DEF StartWalk
<1> HIDE DEF w
<1>2. w \in Walks
  <2>1. <<>> \in Seq(Nat) /\ <<>> \in Seq(Pane)
    BY EmptySeq
  <2> QED BY <1>1, <2>1 DEF Walks
<1>3. ToSet(w.dead_panes) = {} /\ IsInjective(w.dead_panes)
  <2>1. DOMAIN w.dead_panes = {}
    BY <1>1
  <2> QED BY <2>1 DEF ToSet, IsInjective
<1>4. w.tree.sets = Shrunk(t.sets, {})
  <2>1. \A S \in t.sets : S \ {} = S /\ S # {}
    BY DEF IsTree
  <2> QED BY <1>1, <2>1 DEF Shrunk
<1>5. Sane(t, V, w)
  BY <1>1, <1>2, <1>3, <1>4 DEF Sane
<1>6. Exact(t, V, w)
  BY <1>1 DEF Exact, Untouched, TookOnly
<1> QED BY <1>5, <1>6 DEF w

(* The leaf p the cursor is at, and the state n after its turn.            *)
IsTurn(w, V, p, n) ==
  /\ w.next \in 1 .. Len(w.tree.order) /\ p \in Leaves(w.tree)
  /\ p \in Pane /\ n \in Walks /\ IsTree(n.tree)
  /\ p \notin V =>
       /\ n.tree = w.tree /\ n.next = w.next + 1
       /\ n.pane_index = w.pane_index + 1
       /\ n.removed_indices = w.removed_indices
       /\ n.dead_panes = w.dead_panes
  /\ p \in V =>
       /\ n.tree = IF Len(w.tree.order) = 1 THEN NoTree
                   ELSE RemoveLeaf(w.tree, p)
       /\ Leaves(n.tree) = Leaves(w.tree) \ {p}
       /\ n.removed_indices = Append(w.removed_indices, w.pane_index)
       /\ n.dead_panes = Append(w.dead_panes, p)

LEMMA Turn ==
  ASSUME NEW w \in Walks, IsTree(w.tree), ~ WalkDone(w), NEW V,
         NEW p, p = w.tree.order[w.next], NEW n, n = Visit(w, V)
  PROVE  IsTurn(w, V, p, n)
<1> DEFINE rest == RemoveLeaf(w.tree, p)
           sibling == SiblingLeaves(w.tree, p)
<1>1. /\ w.tree \in PaneTrees /\ w.next \in Nat \ {0} /\ w.pane_index \in Nat
      /\ w.removed_indices \in Seq(Nat) /\ w.dead_panes \in Seq(Pane)
      /\ w = [tree |-> w.tree, next |-> w.next, pane_index |-> w.pane_index,
               removed_indices |-> w.removed_indices, dead_panes |-> w.dead_panes]
  BY DEF Walks
<1>2. /\ Len(w.tree.order) \in Nat /\ DOMAIN w.tree.order = 1 .. Len(w.tree.order)
      /\ Leaves(w.tree) \subseteq Pane /\ ToSet(w.tree.order) = Leaves(w.tree)
  BY <1>1, TreeFacts DEF IsTree
<1>3. w.next \in 1 .. Len(w.tree.order) /\ Len(w.tree.order) >= 1
  BY <1>1, <1>2 DEF WalkDone
<1>4. p \in Leaves(w.tree) /\ p \in Pane
  BY <1>2, <1>3 DEF ToSet
<1>5. CASE p \notin V
  <2>1. n = [tree |-> w.tree, next |-> w.next + 1, pane_index |-> w.pane_index + 1,
             removed_indices |-> w.removed_indices, dead_panes |-> w.dead_panes]
    BY <1>1, <1>5 DEF Visit, Spare
  <2>2. n \in Walks
    BY <1>1, <2>1 DEF Walks
  <2> QED BY <1>3, <1>4, <1>5, <2>1, <2>2 DEF IsTurn
<1>6. ASSUME p \in V, NEW tree, NEW next \in Nat \ {0},
             tree \in PaneTrees, IsTree(tree), Leaves(tree) = Leaves(w.tree) \ {p},
             tree = IF Len(w.tree.order) = 1 THEN NoTree ELSE RemoveLeaf(w.tree, p),
             n = [Take(w, p) EXCEPT !.tree = tree, !.next = next]
      PROVE  /\ n \in Walks /\ IsTree(n.tree) /\ n.tree = tree
             /\ n.removed_indices = Append(w.removed_indices, w.pane_index)
             /\ n.dead_panes = Append(w.dead_panes, p)
  <2>1. n = [tree |-> tree, next |-> next, pane_index |-> w.pane_index + 1,
             removed_indices |-> Append(w.removed_indices, w.pane_index),
             dead_panes |-> Append(w.dead_panes, p)]
    BY <1>1, <1>6 DEF Take
  <2>2. /\ Append(w.removed_indices, w.pane_index) \in Seq(Nat)
        /\ Append(w.dead_panes, p) \in Seq(Pane)
    BY <1>1, <1>4, AppendProperties
  <2>3. tree \in PaneTrees /\ next \in Nat \ {0} /\ w.pane_index + 1 \in Nat
    BY <1>1, <1>6
  <2>4. n \in Walks
    BY <2>1, <2>2, <2>3 DEF Walks
  <2>5. /\ n.tree = tree
        /\ n.removed_indices = Append(w.removed_indices, w.pane_index)
        /\ n.dead_panes = Append(w.dead_panes, p)
    BY <2>1
  <2>6. IsTree(tree)
    BY <1>6
  <2> QED BY <2>4, <2>5, <2>6
<1>7. CASE p \in V /\ Len(w.tree.order) = 1
  <2>1. Leaves(w.tree) = {p}
    <3>1. Len(w.tree.order) > 1 <=> \E x, y \in Leaves(w.tree) : x # y
      BY <1>1, LeavesCounted
    <3>2. ~ (Len(w.tree.order) > 1)
      BY <1>7
    <3> QED BY <1>4, <3>1, <3>2
  <2>2. n = [Take(w, p) EXCEPT !.tree = NoTree]
    BY <1>7 DEF Visit
  <2>3. n = [Take(w, p) EXCEPT !.tree = NoTree, !.next = w.next]
    BY <1>1, <2>2 DEF Take
  <2> QED BY <1>1, <1>3, <1>4, <1>6, <1>7, <2>1, <2>3, NoTreeLeft DEF IsTurn
<1>8. CASE p \in V /\ Len(w.tree.order) # 1
  <2>1. rest \in PaneTrees /\ IsTree(rest) /\ Leaves(rest) = Leaves(w.tree) \ {p}
    BY <1>1, <1>4, LeafRemoved
  <2>2. sibling # {} /\ sibling \subseteq Leaves(w.tree) \ {p}
    <3>1. Len(w.tree.order) \in Nat /\ Len(w.tree.order) >= 1 /\ Len(w.tree.order) # 1
      BY <1>2, <1>3, <1>8
    <3>2. \A m \in Nat : m >= 1 /\ m # 1 => m > 1
      OBVIOUS
    <3>3. Len(w.tree.order) > 1
      BY <3>1, <3>2, Zenon
    <3> QED BY <1>1, <1>4, <3>3, HasSibling
  <2> DEFINE next == NextAfterUnsplit(rest, sibling)
  <2>3. next \in Nat \ {0}
    <3>1. rest.order \in Seq(Pane) /\ ToSet(rest.order) = Leaves(rest)
      BY <2>1 DEF PaneTrees, IsTree
    <3> HIDE DEF rest, sibling
    <3>2. FirstOf(rest.order, sibling) \in 1 .. Len(rest.order)
      BY <2>1, <2>2, <3>1, FirstPlace
    <3> QED BY <3>2 DEF NextAfterUnsplit
  <2>4. n = [Take(w, p) EXCEPT !.tree = rest, !.next = next]
    BY <1>8 DEF Visit
  <2> HIDE DEF next, rest
  <2>5. rest = IF Len(w.tree.order) = 1 THEN NoTree ELSE RemoveLeaf(w.tree, p)
    BY <1>8 DEF rest
  <2> QED BY <1>3, <1>4, <1>6, <1>8, <2>1, <2>3, <2>4, <2>5 DEF IsTurn
<1> QED BY <1>5, <1>7, <1>8

(* A turn keeps what is known of the loop.                                 *)
LEMMA TurnKeeps ==
  ASSUME NEW t \in PaneTrees, IsTree(t), NEW V, NEW w,
         Sane(t, V, w), Exact(t, V, w), ~ WalkDone(w), NEW n, n = Visit(w, V)
  PROVE  /\ Sane(t, V, n) /\ Exact(t, V, n)
         /\ n.dead_panes = <<>> =>
              w.dead_panes = <<>> /\ n.next = w.next + 1
<1>0. PICK p : p = w.tree.order[w.next]
  OBVIOUS
<1>1. /\ w \in Walks /\ IsTree(w.tree) /\ Leaves(w.tree) \subseteq Leaves(t)
      /\ ToSet(w.dead_panes) = Leaves(t) \ Leaves(w.tree)
      /\ ToSet(w.dead_panes) \subseteq V /\ IsInjective(w.dead_panes)
      /\ w.dead_panes \in Seq(Pane) /\ w.removed_indices \in Seq(Nat)
      /\ w.pane_index \in Nat /\ w.next \in Nat
      /\ w.tree.sets = Shrunk(t.sets, ToSet(w.dead_panes))
  BY DEF Sane, Walks
<1>2. /\ w.next \in 1 .. Len(w.tree.order) /\ p \in Leaves(w.tree)
      /\ p \in Pane /\ n \in Walks /\ IsTree(n.tree)
      /\ p \notin V =>
           /\ n.tree = w.tree /\ n.next = w.next + 1
           /\ n.pane_index = w.pane_index + 1
           /\ n.removed_indices = w.removed_indices
           /\ n.dead_panes = w.dead_panes
      /\ p \in V =>
           /\ n.tree = IF Len(w.tree.order) = 1 THEN NoTree
                       ELSE RemoveLeaf(w.tree, p)
           /\ Leaves(n.tree) = Leaves(w.tree) \ {p}
           /\ n.removed_indices = Append(w.removed_indices, w.pane_index)
           /\ n.dead_panes = Append(w.dead_panes, p)
  <2>1. IsTurn(w, V, p, n)
    BY <1>0, <1>1, Turn
  <2> QED BY <2>1 DEF IsTurn
<1>3. CASE p \notin V
  <2>1. Sane(t, V, n)
    BY <1>1, <1>2, <1>3 DEF Sane
  <2>2. Untouched(t, V, n)
    <3>1. SUFFICES ASSUME w.dead_panes = <<>>
                   PROVE  /\ w.tree = t /\ w.removed_indices = <<>>
                          /\ w.pane_index + 1 = (w.next + 1) - 1
                          /\ \A i \in 1 .. Len(t.order) :
                               i < w.next + 1 => t.order[i] \notin V
      BY <1>2, <1>3 DEF Untouched
    <3>2. /\ w.tree = t /\ w.removed_indices = <<>> /\ w.pane_index = w.next - 1
          /\ \A i \in 1 .. Len(t.order) : i < w.next => t.order[i] \notin V
      BY <3>1 DEF Exact, Untouched
    <3>3. \A i \in 1 .. Len(t.order) : i < w.next + 1 => i < w.next \/ i = w.next
      BY <1>1
    <3> QED BY <1>0, <1>1, <1>3, <3>2, <3>3
  <2>3. \A v \in V : V = {v} => TookOnly(t, v, n)
    BY <1>2, <1>3 DEF Exact, TookOnly
  <2> QED BY <1>2, <1>3, <2>1, <2>2, <2>3 DEF Exact
<1>4. CASE p \in V
  <2>1. /\ n.dead_panes \in Seq(Pane)
        /\ n.dead_panes # <<>> /\ IsInjective(n.dead_panes)
        /\ ToSet(n.dead_panes) = ToSet(w.dead_panes) \cup {p}
    <3>1. /\ p \notin ToSet(w.dead_panes)
          /\ n.dead_panes = Append(w.dead_panes, p)
      BY <1>1, <1>2, <1>4
    <3>2. w.dead_panes \in Seq(Pane) /\ p \in Pane /\ IsInjective(w.dead_panes)
      BY <1>1, <1>2
    <3>3. PICK s \in Seq(Pane) : s = w.dead_panes
      BY <3>2
    <3>4. PICK r : r = n.dead_panes
      OBVIOUS
    <3>5. r = Append(s, p) /\ IsInjective(s) /\ p \notin ToSet(s)
      BY <3>1, <3>2, <3>3, <3>4
    <3>6. IsLonger(Pane, s, p, r)
      BY <3>2, <3>5, Appended
    <3> QED BY <3>3, <3>4, <3>5, <3>6 DEF IsLonger
  <2>2. Sane(t, V, n)
    <3>1. n.tree.sets = Shrunk(w.tree.sets, {p})
      <4>1. CASE Len(w.tree.order) = 1
        <5>1. n.tree = NoTree /\ Leaves(w.tree) \ {p} = {}
          BY <1>2, <1>4, <4>1, NoTreeLeft
        <5>2. \A S \in w.tree.sets : S \ {p} = {}
          BY <5>1 DEF Leaves
        <5> QED BY <5>1, <5>2 DEF NoTree, Shrunk
      <4>2. CASE Len(w.tree.order) # 1
        BY <1>2, <1>4, <4>2 DEF RemoveLeaf, Shrunk
      <4> QED BY <4>1, <4>2
    <3>2. n.tree.sets = Shrunk(t.sets, ToSet(n.dead_panes))
      <4>1. PICK D : D = ToSet(w.dead_panes)
        OBVIOUS
      <4>2. n.tree.sets = Shrunk(Shrunk(t.sets, D), {p})
        BY <1>1, <3>1, <4>1
      <4>3. Shrunk(Shrunk(t.sets, D), {p}) = Shrunk(t.sets, D \cup {p})
        BY ShrunkAgain
      <4> QED BY <2>1, <4>1, <4>2, <4>3
    <3> QED BY <1>1, <1>2, <1>4, <2>1, <3>2 DEF Sane
  <2>3. Untouched(t, V, n)
    BY <2>1 DEF Untouched
  <2>4. ASSUME V = {p} PROVE TookOnly(t, p, n)
    <3>1. w.dead_panes = <<>>
      <4>1. p \notin ToSet(w.dead_panes) /\ ToSet(w.dead_panes) \subseteq {p}
        BY <1>1, <1>2, <2>4
      <4> QED BY <1>1, <4>1, SetOfSeq
    <3>2. w.tree = t /\ w.removed_indices = <<>> /\ w.pane_index = w.next - 1
      BY <3>1 DEF Exact, Untouched
    <3>3. PositionOf(t.order, p) = w.next
      <4>1. /\ t.order \in Seq(Pane) /\ ToSet(t.order) = Leaves(t)
            /\ IsInjective(t.order)
        BY DEF PaneTrees, IsTree
      <4>2. p \in ToSet(t.order) /\ t.order[w.next] = p /\ w.next \in 1 .. Len(t.order)
        BY <1>0, <1>2, <3>2, <4>1
      <4> QED BY <4>1, <4>2, Placed
    <3>4. n.removed_indices = <<w.pane_index>>
      BY <1>1, <1>2, <1>4, <3>2
    <3> QED BY <1>2, <1>4, <3>2, <3>3, <3>4 DEF TookOnly
  <2>5. \A v \in V : V = {v} => TookOnly(t, v, n)
    BY <1>4, <2>4
  <2> QED BY <2>1, <2>2, <2>3, <2>5 DEF Exact
<1> QED BY <1>3, <1>4

-----------------------------------------------------------------------------
(* The index of the active pane. *)

LEMMA Saturated ==
  ASSUME NEW a \in Int
  PROVE  Max({0, a}) = IF a >= 0 THEN a ELSE 0
<1>1. CASE a >= 0
  BY <1>1 DEF Max
<1>2. CASE ~ (a >= 0)
  BY <1>2 DEF Max
<1> QED BY <1>1, <1>2

(* One pane was taken out, the one with index i.                           *)
LEMMA ActiveShifted ==
  ASSUME NEW w, NEW i \in Nat, w.removed_indices = <<i>>, NEW a \in Nat
  PROVE  ActiveAfter(w, a) = IF i <= a /\ a > 0 THEN a - 1 ELSE a
<1> DEFINE C == {j \in DOMAIN w.removed_indices : w.removed_indices[j] <= a}
<1>1. ActiveAfter(w, a) = Max({0, a - Cardinality(C)})
  BY DEF ActiveAfter
<1>2. DOMAIN w.removed_indices = {1} /\ w.removed_indices[1] = i
  OBVIOUS
<1>3. CASE i <= a
  <2>1. C = {1}
    BY <1>2, <1>3
  <2>2. Cardinality(C) = 1
    BY <2>1, FS_Singleton
  <2>3. Max({0, a - 1}) = IF a - 1 >= 0 THEN a - 1 ELSE 0
    BY Saturated
  <2> HIDE DEF C
  <2> QED BY <1>1, <1>3, <2>2, <2>3
<1>4. CASE ~ (i <= a)
  <2>1. C = {}
    BY <1>2, <1>4
  <2>2. Cardinality(C) = 0
    BY <2>1, FS_EmptySet
  <2>3. Max({0, a}) = IF a >= 0 THEN a ELSE 0
    BY Saturated
  <2> HIDE DEF C
  <2> QED BY <1>1, <1>4, <2>2, <2>3
<1> QED BY <1>3, <1>4

LEMMA ThePanesAt ==
  ASSUME NEW t \in PaneTrees, NEW i \in Nat
  PROVE  PanesAt(t, i) = IF i < Len(t.order) THEN {t.order[i + 1]} ELSE {}
<1> DEFINE J == {j \in DOMAIN t.order : j = i + 1}
<1>1. Len(t.order) \in Nat /\ DOMAIN t.order = 1 .. Len(t.order)
  BY TreeFacts
<1>2. PanesAt(t, i) = {t.order[j] : j \in J}
  BY DEF PanesAt
<1>3. i < Len(t.order) => J = {i + 1}
  BY <1>1
<1>4. ~ (i < Len(t.order)) => J = {}
  BY <1>1
<1> HIDE DEF J
<1> QED BY <1>2, <1>3, <1>4

(* kill_pane and remove_pane: the pane goes, and the active index follows  *)
(* the pane it names.                                                      *)
ActiveFollows(t, v, a, w) ==
  /\ Leaves(w.tree) = Leaves(t) \ {v}
  /\ PanesAt(t, a) \cap {v} = {} =>
       PanesAt(w.tree, ActiveAfter(w, a)) = PanesAt(t, a)
  /\ w.tree # NoTree => PanesAt(w.tree, ActiveAfter(w, a)) # {}

LEMMA OneTaken ==
  ASSUME NEW t \in PaneTrees, IsTree(t), NEW v \in Leaves(t),
         NEW a \in Nat, a < Len(t.order),
         NEW w, Sane(t, {v}, w), TookOnly(t, v, w), w.dead_panes # <<>>
  PROVE  ActiveFollows(t, v, a, w)
<1> DEFINE k == PositionOf(t.order, v)
           b == ActiveAfter(w, a)
<1>1. PICK n \in Nat : n = Len(t.order)
  BY TreeFacts
<1>2. /\ RemoveLeaf(t, v) \in PaneTrees /\ IsTree(RemoveLeaf(t, v))
      /\ Leaves(RemoveLeaf(t, v)) = Leaves(t) \ {v}
      /\ k \in 1 .. n /\ t.order[k] = v
      /\ Len(RemoveLeaf(t, v).order) = n - 1
      /\ \A j \in 1 .. n - 1 :
           RemoveLeaf(t, v).order[j] = IF j < k THEN t.order[j] ELSE t.order[j + 1]
  BY <1>1, LeafRemoved
<1>3. /\ w.removed_indices = <<k - 1>>
      /\ w.tree = IF n = 1 THEN NoTree ELSE RemoveLeaf(t, v)
  BY <1>1 DEF TookOnly
<1> HIDE DEF k
<1>4. b = IF k - 1 <= a /\ a > 0 THEN a - 1 ELSE a
  BY <1>2, <1>3, ActiveShifted
<1> HIDE DEF b
<1>5. b \in Nat
  BY <1>4
<1>6. CASE n = 1
  <2>1. Leaves(t) = {v}
    <3>1. Len(t.order) > 1 <=> \E x, y \in Leaves(t) : x # y
      BY LeavesCounted
    <3>2. ~ (Len(t.order) > 1)
      BY <1>1, <1>6
    <3> QED BY <3>1, <3>2
  <2>2. PanesAt(t, a) = {v}
    <3>1. a = 0 /\ k = 1
      BY <1>1, <1>2, <1>6
    <3>2. PanesAt(t, a) = {t.order[a + 1]}
      BY ThePanesAt
    <3>3. a + 1 = k
      BY <3>1
    <3> QED BY <1>2, <3>2, <3>3
  <2> QED BY <1>3, <1>6, <2>1, <2>2, NoTreeLeft DEF ActiveFollows
<1>7. CASE n # 1
  <2>1. PICK r \in PaneTrees : r = w.tree
    BY <1>2, <1>3, <1>7
  <2>2. /\ Leaves(r) = Leaves(t) \ {v} /\ Len(r.order) = n - 1
        /\ \A j \in 1 .. n - 1 :
             r.order[j] = IF j < k THEN t.order[j] ELSE t.order[j + 1]
    BY <1>2, <1>3, <1>7, <2>1
  <2>3. b < n - 1 /\ b + 1 \in 1 .. n - 1
    <3>1. PICK j \in 1 .. n : j = k
      BY <1>2
    <3>2. \A m \in Nat : m # 1 /\ j \in 1 .. m => m > 1
      OBVIOUS
    <3>3. a < n /\ n > 1
      BY <1>1, <1>7, <3>2
    <3>4. b = IF j - 1 <= a /\ a > 0 THEN a - 1 ELSE a
      BY <1>4, <3>1
    <3> HIDE <1>7
    <3> QED BY <3>3, <3>4
  <2>4. PanesAt(r, b) = {r.order[b + 1]}
    BY <1>5, <2>2, <2>3, ThePanesAt
  <2>5. PanesAt(t, a) = {t.order[a + 1]}
    BY ThePanesAt
  <2>6. ASSUME t.order[a + 1] # v PROVE r.order[b + 1] = t.order[a + 1]
    <3>1. a + 1 # k
      BY <1>2, <2>6
    <3>2. CASE k - 1 <= a
      <4>1. b + 1 = a /\ ~ (b + 1 < k) /\ (b + 1) + 1 = a + 1
        BY <1>2, <1>4, <3>1, <3>2
      <4>2. r.order[b + 1] = t.order[(b + 1) + 1]
        BY <2>2, <2>3, <4>1
      <4> QED BY <4>1, <4>2
    <3>3. CASE ~ (k - 1 <= a)
      <4>1. b + 1 = a + 1 /\ b + 1 < k
        BY <1>2, <1>4, <3>1, <3>3
      <4> QED BY <2>2, <2>3, <4>1
    <3> QED BY <3>2, <3>3
  <2>7. PanesAt(t, a) \cap {v} = {} => t.order[a + 1] # v
    BY <2>5
  <2> QED BY <2>1, <2>2, <2>4, <2>5, <2>6, <2>7 DEF b, ActiveFollows
<1> QED BY <1>6, <1>7

(* When the loop is over, a call that names a pane of the tree has taken   *)
(* one out.                                                                *)
LEMMA SomethingTaken ==
  ASSUME NEW t \in PaneTrees, IsTree(t), NEW V, V # {}, V \subseteq Leaves(t),
         NEW w, Sane(t, V, w), Exact(t, V, w), WalkDone(w)
  PROVE  w.dead_panes # <<>>
<1>1. SUFFICES ASSUME w.dead_panes = <<>> PROVE FALSE
  OBVIOUS
<1>2. /\ w.tree = t
      /\ \A i \in 1 .. Len(t.order) : i < w.next => t.order[i] \notin V
  BY <1>1 DEF Exact, Untouched
<1>3. w.next \in Nat
  BY DEF Sane, Walks
<1>4. /\ Len(t.order) \in Nat /\ DOMAIN t.order = 1 .. Len(t.order)
      /\ ToSet(t.order) = Leaves(t)
  BY TreeFacts DEF IsTree
<1>5. PICK v \in V : v \in ToSet(t.order)
  BY <1>4
<1>6. PICK i \in 1 .. Len(t.order) : t.order[i] = v
  BY <1>4, <1>5 DEF ToSet
<1>7. i < w.next
  BY <1>2, <1>3, <1>4 DEF WalkDone
<1> QED BY <1>2, <1>5, <1>6, <1>7

-----------------------------------------------------------------------------
(* The trees the loop is run on are trees.                                 *)

LEMMA Enumerated == Enumeration \in [1 .. Cardinality(Pane) -> Pane]
<1> DEFINE F == [1 .. Cardinality(Pane) -> Pane]
<1>1. ExistsBijection(1 .. Cardinality(Pane), Pane)
  BY PaneAssumption, FS_CardinalityType
<1>2. PICK f \in Bijection(1 .. Cardinality(Pane), Pane) : TRUE
  BY <1>1 DEF ExistsBijection
<1>3. f \in F /\ IsInjective(f)
  BY <1>2 DEF Bijection, Injection, IsInjective
<1>4. Enumeration = CHOOSE g \in F : IsInjective(g)
  BY DEF Enumeration, SetToSeq
<1> HIDE DEF F
<1>5. Enumeration \in F
  BY <1>3, <1>4
<1> QED BY <1>5 DEF F

LEMMA TreesAreProper == \A t \in Trees : t \in PaneTrees /\ IsTree(t)
<1> DEFINE c           == Cardinality(Pane)
           cut(n)      == SubSeq(Enumeration, 1, n)
           interval(n) == {{cut(n)[i] : i \in lo .. hi} : lo, hi \in 1 .. n} \ {{}}
           lone(n)     == {{cut(n)[i]} : i \in 1 .. n} \cup {ToSet(cut(n))}
           grown(n)    == {[sets |-> lone(n) \cup S, order |-> cut(n)] :
                             S \in SUBSET (interval(n) \ lone(n))}
<1>1. SUFFICES ASSUME NEW t \in Trees PROVE t \in PaneTrees /\ IsTree(t)
  OBVIOUS
<1>2. PICK n \in 1 .. c : t \in {u \in grown(n) : IsTree(u)}
  <2>1. Trees = UNION {{u \in grown(n) : IsTree(u)} : n \in 1 .. c}
    BY DEF Trees
  <2> HIDE DEF grown, c
  <2> QED BY <2>1
<1>3. PICK order : order = cut(n)
  OBVIOUS
<1>4. /\ order \in Seq(Pane) /\ ToSet(order) \subseteq Pane
      /\ \A i \in 1 .. n : order[i] \in Pane
  <2>1. c \in Nat
    BY PaneAssumption, FS_CardinalityType
  <2>2. \A i \in 1 .. n : Enumeration[i] \in Pane
    BY <2>1, Enumerated
  <2>3. 1 \in Int /\ n \in Int
    OBVIOUS
  <2>4. cut(n) \in Seq(Pane) /\ Len(cut(n)) = IF 1 <= n THEN n - 1 + 1 ELSE 0
    BY <2>2, <2>3, SubSeqProperties
  <2>5. order \in Seq(Pane) /\ Len(order) = n
    <3> HIDE DEF cut
    <3> QED BY <1>3, <2>4
  <2> QED BY <2>5, SetOfSeq, ElementOfSeq
<1>5. interval(n) \subseteq SUBSET Pane /\ lone(n) \subseteq SUBSET Pane
  <2> HIDE DEF cut
  <2> QED BY <1>3, <1>4
<1> HIDE DEF interval, lone, cut
<1>6. PICK S \in SUBSET (interval(n) \ lone(n)) :
        t = [sets |-> lone(n) \cup S, order |-> cut(n)]
  <2>1. t \in grown(n) /\ IsTree(t)
    <3> HIDE DEF grown
    <3> QED BY <1>2
  <2> QED BY <2>1
<1>7. t = [sets |-> lone(n) \cup S, order |-> order]
  BY <1>3, <1>6
<1>8. t \in PaneTrees
  BY <1>4, <1>5, <1>7 DEF PaneTrees
<1>9. IsTree(t)
  <2> HIDE DEF grown
  <2> QED BY <1>2
<1> QED BY <1>8, <1>9

-----------------------------------------------------------------------------
(* The loop as a specification: what holds at each of its turns.           *)

WalkInv ==
  /\ start \in PaneTrees /\ IsTree(start)
  /\ active \in Index /\ active < Len(start.order)
  /\ victims \subseteq Leaves(start)
  /\ Sane(start, victims, walk)
  /\ Exact(start, victims, walk)

LEMMA WalkInvStarts == WalkInit => WalkInv
<1> SUFFICES ASSUME WalkInit PROVE WalkInv
  OBVIOUS
<1>1. start \in PaneTrees /\ IsTree(start)
  BY TreesAreProper DEF WalkInit
<1>2. active \in Index /\ active < Len(start.order) /\ victims \subseteq Leaves(start)
  BY DEF WalkInit
<1>3. walk = StartWalk(start)
  BY DEF WalkInit
<1> QED BY <1>1, <1>2, <1>3, WalkStarts DEF WalkInv

LEMMA WalkInvKept == WalkInv /\ [WalkNext]_walkVars => WalkInv'
<1> SUFFICES ASSUME WalkInv, [WalkNext]_walkVars PROVE WalkInv'
  OBVIOUS
<1>1. CASE WalkStep
  <2>1. /\ ~ WalkDone(walk) /\ walk' = Visit(walk, victims)
        /\ start' = start /\ active' = active /\ victims' = victims
    BY <1>1 DEF WalkStep
  <2>2. Sane(start, victims, walk') /\ Exact(start, victims, walk')
    BY <2>1, TurnKeeps DEF WalkInv
  <2>3. WalkInv' <=>
          /\ start \in PaneTrees /\ IsTree(start)
          /\ active \in Index /\ active < Len(start.order)
          /\ victims \subseteq Leaves(start)
          /\ Sane(start, victims, walk') /\ Exact(start, victims, walk')
    BY <2>1 DEF WalkInv
  <2> QED BY <2>2, <2>3 DEF WalkInv
<1>2. CASE UNCHANGED walkVars
  BY <1>2 DEF WalkInv, walkVars
<1> QED BY <1>1, <1>2 DEF WalkNext

(***************************************************************************)
(* What the loop has found so far agrees with what is left of the tree, at *)
(* every turn: the theorems below follow from it.                          *)
(***************************************************************************)
THEOREM WalkInvariant == WalkSpec => []WalkInv
<1> QED BY WalkInvStarts, WalkInvKept, PTL DEF WalkSpec

(***************************************************************************)
(* The loop's counters and lists hold what their names say, whatever tree  *)
(* remove_pane_if is run on and whatever panes it is to take out: no       *)
(* removed index is below 0 and no pane id is made up.                     *)
(***************************************************************************)
THEOREM WalkTypes == WalkSpec => []WalkTypeOK
<1>1. WalkInv => WalkTypeOK
  <2> SUFFICES ASSUME WalkInv PROVE WalkTypeOK
    OBVIOUS
  <2>1. start.sets \subseteq SUBSET Pane /\ start.order \in Seq(Pane)
    BY DEF WalkInv, PaneTrees
  <2>2. /\ walk.tree \in PaneTrees /\ walk.next \in Nat \ {0} /\ walk.pane_index \in Nat
        /\ walk.removed_indices \in Seq(Nat) /\ walk.dead_panes \in Seq(Pane)
    BY DEF WalkInv, Sane, Walks
  <2>3. walk.tree.sets \subseteq SUBSET Pane /\ walk.tree.order \in Seq(Pane)
    BY <2>2 DEF PaneTrees
  <2>4. active \in Index /\ victims \subseteq Pane
    BY TreeFacts DEF WalkInv
  <2> QED BY <2>1, <2>2, <2>3, <2>4 DEF WalkTypeOK
<1> QED BY <1>1, WalkInvariant, PTL

(***************************************************************************)
(* Unsplitting leaves under the cursor keeps the tree a proper binary tree *)
(* and loses no pane: every pane that is gone was named by the predicate   *)
(* and is reported dead once, and the others are all still there.          *)
(***************************************************************************)
THEOREM WalkLosesNothing == WalkSpec => []NothingLost
<1>1. WalkInv => NothingLost
  <2> SUFFICES ASSUME WalkInv PROVE NothingLost
    OBVIOUS
  <2>1. /\ IsTree(walk.tree) /\ walk.dead_panes \in Seq(Pane)
        /\ ToSet(walk.dead_panes) = Leaves(start) \ Leaves(walk.tree)
        /\ ToSet(walk.dead_panes) \subseteq victims /\ IsInjective(walk.dead_panes)
    BY DEF WalkInv, Sane, Walks
  <2>2. Cardinality(ToSet(walk.dead_panes)) = Len(walk.dead_panes)
    BY <2>1, Counted
  <2> QED BY <2>1, <2>2 DEF NothingLost
<1> QED BY <1>1, WalkInvariant, PTL

(***************************************************************************)
(* kill_pane and remove_pane take out the pane they name and no other, and *)
(* the active index then names the pane it named before, unless that pane  *)
(* is the one that went: however many panes lie to its left and wherever   *)
(* the cursor went after the unsplit.                                      *)
(***************************************************************************)
THEOREM OneVictimGoes == WalkSpec => []OneVictimIsExact
<1>1. WalkInv => OneVictimIsExact
  <2> SUFFICES ASSUME WalkInv, WalkDone(walk), Cardinality(victims) = 1
               PROVE  /\ Leaves(walk.tree) = Leaves(start) \ victims
                      /\ ActivePaneBefore \cap victims = {} =>
                           ActivePaneAfter = ActivePaneBefore
                      /\ walk.tree # NoTree => ActivePaneAfter # {}
    BY DEF OneVictimIsExact
  <2>1. /\ start \in PaneTrees /\ IsTree(start) /\ victims \subseteq Leaves(start)
        /\ active \in Index /\ active < Len(start.order)
        /\ Sane(start, victims, walk) /\ Exact(start, victims, walk)
    BY DEF WalkInv
  <2>2. active \in Nat
    BY <2>1 DEF Index
  <2>3. IsFiniteSet(victims)
    BY <2>1, TreeFacts, PaneAssumption, FS_Subset
  <2>4. PICK v : victims = {v}
    BY <2>3, FS_Singleton
  <2>5. walk.dead_panes # <<>>
    BY <2>1, <2>4, SomethingTaken
  <2>6. v \in Leaves(start) /\ Sane(start, {v}, walk) /\ TookOnly(start, v, walk)
    BY <2>1, <2>4 DEF Exact
  <2>7. ActiveFollows(start, v, active, walk)
    BY <2>1, <2>2, <2>5, <2>6, OneTaken
  <2> QED BY <2>4, <2>7 DEF ActiveFollows, ActivePaneBefore, ActivePaneAfter
<1> QED BY <1>1, WalkInvariant, PTL

(***************************************************************************)
(* A call of remove_pane_if that names panes of the tree takes one out at  *)
(* least, whichever it steps over: prune_dead_panes repeated empties a tab *)
(* of dead panes.                                                          *)
(***************************************************************************)
THEOREM EachCallTakesSome == WalkSpec => []EachCallRemovesSome
<1>1. WalkInv => EachCallRemovesSome
  BY SomethingTaken DEF WalkInv, EachCallRemovesSome
<1> QED BY <1>1, WalkInvariant, PTL

-----------------------------------------------------------------------------
(* Trees that grow.                                                        *)

(* The panes of a subtree stand side by side in the order.                 *)
LEMMA SubtreePlaces ==
  ASSUME NEW t \in PaneTrees, IsTree(t), NEW T \in t.sets
  PROVE  /\ FirstOf(t.order, T) \in 1 .. Len(t.order)
         /\ FirstOf(t.order, T) + Cardinality(T) - 1 \in 1 .. Len(t.order)
         /\ \A i \in 1 .. Len(t.order) :
              t.order[i] \in T <=> /\ FirstOf(t.order, T) <= i
                                   /\ i <= FirstOf(t.order, T) + Cardinality(T) - 1
<1> DEFINE n  == Len(t.order)
           lo == FirstOf(t.order, T)
           I  == {i \in 1 .. n : t.order[i] \in T}
           N  == {n - i : i \in I}
           hi == n - Min(N)
<1>1. /\ t.order \in Seq(Pane) /\ ToSet(t.order) = Leaves(t)
      /\ IsInjective(t.order) /\ n \in Nat /\ DOMAIN t.order = 1 .. n
      /\ T # {} /\ T \subseteq Leaves(t)
  BY TreeFacts DEF PaneTrees, IsTree
<1>2. lo \in I /\ \A i \in I : lo <= i
  BY <1>1, FirstPlace
<1>3. hi \in I /\ \A i \in I : i <= hi
  <2>1. N \in SUBSET Nat /\ N # {}
    <3>1. \A i \in I : n - i \in Nat
      BY <1>1
    <3>2. n - lo \in N
      BY <1>2
    <3> QED BY <3>1, <3>2
  <2> HIDE DEF N
  <2>2. Min(N) \in N /\ \A m \in N : Min(N) <= m
    BY <2>1, Least
  <2>3. PICK i \in I : Min(N) = n - i
    BY <2>2 DEF N
  <2>4. hi = i
    BY <1>1, <2>3
  <2>5. \A j \in I : n - i <= n - j
    BY <2>2, <2>3 DEF N
  <2> QED BY <1>1, <2>4, <2>5
<1> HIDE DEF lo, hi
<1>4. I = lo .. hi
  <2>1. \A i \in I : i \in lo .. hi
    BY <1>1, <1>2, <1>3
  <2>2. ASSUME NEW i \in lo .. hi PROVE i \in I
    <3>1. i \in 1 .. n /\ (i = lo \/ i = hi \/ (lo < i /\ i < hi))
      BY <1>1, <1>2, <1>3
    <3>2. lo < i /\ i < hi => t.order[i] \in T
      BY <1>1, <1>2, <1>3, <3>1 DEF IsTree
    <3> QED BY <1>2, <1>3, <3>1, <3>2
  <2> QED BY <2>1, <2>2
<1>5. lo \in Nat /\ hi \in Nat /\ lo <= hi
  BY <1>1, <1>2, <1>3
<1>6. Cardinality(T) = hi - lo + 1
  <2> DEFINE f == [i \in lo .. hi |-> t.order[i]]
  <2>1. \A i \in lo .. hi : t.order[i] \in T
    BY <1>4
  <2>2. f \in [lo .. hi -> T]
    BY <2>1
  <2>3. ASSUME NEW i \in lo .. hi, NEW j \in lo .. hi, f[i] = f[j] PROVE i = j
    BY <1>1, <1>4, <2>3 DEF IsInjective
  <2>4. ASSUME NEW x \in T PROVE \E i \in lo .. hi : f[i] = x
    <3>1. PICK i \in 1 .. n : t.order[i] = x
      BY <1>1 DEF ToSet
    <3> QED BY <1>4, <3>1
  <2> HIDE DEF f
  <2>5. f \in Bijection(lo .. hi, T)
    <3>1. DOMAIN f = lo .. hi
      BY <2>2
    <3>2. IsInjective(f)
      BY <2>3, <3>1 DEF IsInjective
    <3> QED BY <2>2, <2>4, <3>2 DEF Bijection, Injection, Surjection
  <2>6. ExistsBijection(lo .. hi, T)
    BY <2>5 DEF ExistsBijection
  <2>7. IsFiniteSet(lo .. hi) /\ Cardinality(lo .. hi) = hi - lo + 1
    BY <1>5, FS_Interval
  <2> QED BY <2>6, <2>7, FS_Bijection
<1>7. lo + Cardinality(T) - 1 = hi
  BY <1>5, <1>6
<1>8. \A i \in 1 .. n : t.order[i] \in T <=> lo <= i /\ i <= hi
  BY <1>1, <1>2, <1>3, <1>4
<1> HIDE DEF I
<1>9. lo \in 1 .. n /\ hi \in 1 .. n
  BY <1>2, <1>3 DEF I
<1> QED BY <1>7, <1>8, <1>9 DEF lo

(* The list `new` is put into s before place e, which gives r.             *)
IsInserted(s, e, new, r) ==
  /\ r \in Seq(Pane) /\ Len(r) = Len(s) + Len(new)
  /\ DOMAIN r = 1 .. Len(s) + Len(new)
  /\ \A j \in 1 .. Len(s) + Len(new) :
       r[j] = IF j < e THEN s[j]
              ELSE IF j < e + Len(new) THEN new[j - e + 1] ELSE s[j - Len(new)]

LEMMA Inserted ==
  ASSUME NEW s \in Seq(Pane), NEW new \in Seq(Pane), NEW e \in 1 .. Len(s) + 1,
         NEW r, r = SubSeq(s, 1, e - 1) \o new \o SubSeq(s, e, Len(s))
  PROVE  IsInserted(s, e, new, r)
<1> DEFINE a == SubSeq(s, 1, e - 1)
           b == SubSeq(s, e, Len(s))
           n == Len(s)
           m == Len(new)
<1>1. /\ n \in Nat /\ m \in Nat /\ DOMAIN s = 1 .. n
      /\ \A i \in 1 .. n : s[i] \in Pane
  BY LenProperties, ElementOfSeq
<1>2. a \in Seq(Pane) /\ Len(a) = e - 1 /\ \A j \in 1 .. e - 1 : a[j] = s[j]
  <2>1. /\ \A i \in 1 .. e - 1 : s[i] \in Pane
        /\ 1 \in Int /\ e - 1 \in Int
    BY <1>1
  <2>2. /\ a \in Seq(Pane) /\ Len(a) = IF 1 <= e - 1 THEN (e - 1) - 1 + 1 ELSE 0
        /\ \A j \in 1 .. (e - 1) - 1 + 1 : a[j] = s[1 + j - 1]
    BY <2>1, SubSeqProperties
  <2> HIDE DEF a
  <2>3. \A j \in 1 .. e - 1 : j \in 1 .. (e - 1) - 1 + 1 /\ 1 + j - 1 = j
    BY <1>1
  <2>4. Len(a) = e - 1
    <3>1. PICK k \in Nat : k = e - 1
      BY <1>1
    <3>2. Len(a) = IF 1 <= k THEN k - 1 + 1 ELSE 0
      BY <2>2, <3>1
    <3> QED BY <3>1, <3>2
  <2>5. ASSUME NEW j \in 1 .. e - 1 PROVE a[j] = s[j]
    BY <2>2, <2>3
  <2> QED BY <2>2, <2>4, <2>5
<1>3. /\ b \in Seq(Pane) /\ Len(b) = n + 1 - e
      /\ \A j \in 1 .. n + 1 - e : b[j] = s[e + j - 1]
  <2>1. /\ \A i \in e .. n : s[i] \in Pane
        /\ e \in Int /\ n \in Int
    BY <1>1
  <2>2. /\ b \in Seq(Pane) /\ Len(b) = IF e <= n THEN n - e + 1 ELSE 0
        /\ \A j \in 1 .. n - e + 1 : b[j] = s[e + j - 1]
    BY <2>1, SubSeqProperties
  <2> HIDE DEF b
  <2>3. Len(b) = n + 1 - e
    <3>1. PICK k \in Nat : k = n
      BY <1>1
    <3>2. e \in 1 .. k + 1 /\ Len(b) = IF e <= k THEN k - e + 1 ELSE 0
      BY <2>2, <3>1
    <3>3. n + 1 - e = k + 1 - e
      BY <3>1
    <3> HIDE DEF n
    <3> QED BY <3>2, <3>3
  <2>4. n - e + 1 = n + 1 - e
    BY <1>1
  <2> QED BY <2>2, <2>3, <2>4
<1> HIDE DEF a, b
<1>4. /\ a \o new \in Seq(Pane) /\ Len(a \o new) = e - 1 + m
      /\ \A j \in 1 .. e - 1 + m :
           (a \o new)[j] = IF j < e THEN s[j] ELSE new[j - e + 1]
  <2>1. /\ a \o new \in Seq(Pane) /\ Len(a \o new) = Len(a) + m
        /\ \A j \in 1 .. Len(a) + m :
             (a \o new)[j] = IF j <= Len(a) THEN a[j] ELSE new[j - Len(a)]
    BY <1>2, ConcatProperties
  <2>2. ASSUME NEW j \in 1 .. e - 1 + m
        PROVE  (a \o new)[j] = IF j < e THEN s[j] ELSE new[j - e + 1]
    <3>1. j <= e - 1 <=> j < e
      BY <1>1
    <3>2. j - (e - 1) = j - e + 1
      BY <1>1
    <3>3. j < e => j \in 1 .. e - 1
      BY <1>1
    <3> QED BY <1>2, <2>1, <3>1, <3>2, <3>3
  <2> QED BY <1>2, <2>1, <2>2
<1> DEFINE c == a \o new
<1>5. r = c \o b
  BY DEF a, b
<1> HIDE DEF c
<1>6. /\ r \in Seq(Pane) /\ Len(r) = (e - 1 + m) + (n + 1 - e)
      /\ \A j \in 1 .. (e - 1 + m) + (n + 1 - e) :
           r[j] = IF j <= e - 1 + m THEN c[j] ELSE b[j - (e - 1 + m)]
  <2>0. c \in Seq(Pane) /\ b \in Seq(Pane)
    BY <1>3, <1>4 DEF c
  <2> HIDE DEF b
  <2>1. /\ r \in Seq(Pane) /\ Len(r) = Len(c) + Len(b)
        /\ \A j \in 1 .. Len(c) + Len(b) :
             r[j] = IF j <= Len(c) THEN c[j] ELSE b[j - Len(c)]
    <3>1. IsConcat(Pane, c, b, r)
      BY <1>5, <2>0, Concat
    <3> QED BY <3>1 DEF IsConcat
  <2>2. Len(c) = e - 1 + m /\ Len(b) = n + 1 - e
    BY <1>3, <1>4 DEF c
  <2> QED BY <2>1, <2>2
<1>7. (e - 1 + m) + (n + 1 - e) = n + m
  BY <1>1
<1>8. ASSUME NEW j \in 1 .. n + m
      PROVE  r[j] = IF j < e THEN s[j]
                    ELSE IF j < e + m THEN new[j - e + 1] ELSE s[j - m]
  <2>1. r[j] = IF j <= e - 1 + m THEN c[j] ELSE b[j - (e - 1 + m)]
    BY <1>6, <1>7
  <2>2. CASE j < e + m
    <3>1. j \in 1 .. e - 1 + m /\ j <= e - 1 + m
      BY <1>1, <2>2
    <3> QED BY <1>4, <2>1, <2>2, <3>1 DEF c
  <2>3. CASE ~ (j < e + m)
    <3>1. /\ ~ (j < e) /\ ~ (j <= e - 1 + m)
          /\ j - (e - 1 + m) \in 1 .. n + 1 - e
          /\ e + (j - (e - 1 + m)) - 1 = j - m
      BY <1>1, <2>3
    <3> QED BY <1>3, <2>1, <2>3, <3>1
  <2> QED BY <2>2, <2>3
<1>9. Len(r) = n + m /\ DOMAIN r = 1 .. n + m
  BY <1>6, <1>7, LenProperties
<1> QED BY <1>6, <1>8, <1>9 DEF IsInserted

(* Where the elements of r come from.                                      *)
LEMMA Sources ==
  ASSUME NEW s \in Seq(Pane), NEW new \in Seq(Pane), NEW e \in 1 .. Len(s) + 1,
         NEW r, IsInserted(s, e, new, r),
         NEW j \in 1 .. Len(s) + Len(new)
  PROVE  \/ /\ e <= j /\ j < e + Len(new)
            /\ j - e + 1 \in 1 .. Len(new) /\ r[j] = new[j - e + 1]
            /\ r[j] \in ToSet(new)
         \/ /\ j < e /\ j \in 1 .. Len(s) /\ r[j] = s[j] /\ r[j] \in ToSet(s)
         \/ /\ e + Len(new) <= j /\ j - Len(new) \in 1 .. Len(s)
            /\ r[j] = s[j - Len(new)] /\ r[j] \in ToSet(s)
<1>1. /\ Len(s) \in Nat /\ Len(new) \in Nat
      /\ DOMAIN s = 1 .. Len(s) /\ DOMAIN new = 1 .. Len(new)
  BY LenProperties
<1>2. r[j] = IF j < e THEN s[j]
             ELSE IF j < e + Len(new) THEN new[j - e + 1] ELSE s[j - Len(new)]
  BY DEF IsInserted
<1>3. CASE j < e
  BY <1>1, <1>2, <1>3 DEF ToSet
<1>4. CASE ~ (j < e) /\ j < e + Len(new)
  <2>1. e <= j /\ j - e + 1 \in 1 .. Len(new) /\ r[j] = new[j - e + 1]
    BY <1>1, <1>2, <1>4
  <2> QED BY <1>1, <1>4, <2>1 DEF ToSet
<1>5. CASE ~ (j < e) /\ ~ (j < e + Len(new))
  <2>1. /\ e + Len(new) <= j /\ j - Len(new) \in 1 .. Len(s)
        /\ r[j] = s[j - Len(new)]
    BY <1>1, <1>2, <1>5
  <2> QED BY <1>1, <2>1 DEF ToSet
<1> QED BY <1>3, <1>4, <1>5

LEMMA InsertedOnce ==
  ASSUME NEW s \in Seq(Pane), NEW new \in Seq(Pane), NEW e \in 1 .. Len(s) + 1,
         NEW r, IsInserted(s, e, new, r),
         IsInjective(s), IsInjective(new), ToSet(s) \cap ToSet(new) = {}
  PROVE  IsInjective(r) /\ ToSet(r) = ToSet(s) \cup ToSet(new)
<1> DEFINE n == Len(s)
           m == Len(new)
<1>1. /\ n \in Nat /\ m \in Nat /\ DOMAIN s = 1 .. n /\ DOMAIN new = 1 .. m
      /\ DOMAIN r = 1 .. n + m
  BY LenProperties DEF IsInserted
<1>2. \A i, j \in 1 .. n : s[i] = s[j] => i = j
  BY <1>1 DEF IsInjective
<1>3. \A i, j \in 1 .. m : new[i] = new[j] => i = j
  BY <1>1 DEF IsInjective
<1>4. IsInjective(r)
  <2>1. SUFFICES ASSUME NEW i \in 1 .. n + m, NEW j \in 1 .. n + m, r[i] = r[j]
                 PROVE  i = j
    BY <1>1 DEF IsInjective
  <2>2. \/ /\ e <= i /\ i < e + m
           /\ i - e + 1 \in 1 .. m /\ r[i] = new[i - e + 1]
           /\ r[i] \in ToSet(new)
        \/ /\ i < e /\ i \in 1 .. n /\ r[i] = s[i] /\ r[i] \in ToSet(s)
        \/ /\ e + m <= i /\ i - m \in 1 .. n
           /\ r[i] = s[i - m] /\ r[i] \in ToSet(s)
    BY Sources
  <2>3. \/ /\ e <= j /\ j < e + m
           /\ j - e + 1 \in 1 .. m /\ r[j] = new[j - e + 1]
           /\ r[j] \in ToSet(new)
        \/ /\ j < e /\ j \in 1 .. n /\ r[j] = s[j] /\ r[j] \in ToSet(s)
        \/ /\ e + m <= j /\ j - m \in 1 .. n
           /\ r[j] = s[j - m] /\ r[j] \in ToSet(s)
    BY Sources
  <2> HIDE DEF n, m
  <2> QED BY <1>1, <1>2, <1>3, <2>1, <2>2, <2>3
<1>5. ToSet(r) \subseteq ToSet(s) \cup ToSet(new)
  <2>1. \A j \in 1 .. n + m : r[j] \in ToSet(s) \cup ToSet(new)
    BY Sources
  <2> QED BY <1>1, <2>1 DEF ToSet
<1>6. ASSUME NEW i \in 1 .. n PROVE s[i] \in ToSet(r)
  <2>1. CASE i < e
    <3>1. i \in 1 .. n + m
      BY <1>1
    <3>2. r[i] = s[i]
      BY <2>1, <3>1 DEF IsInserted
    <3> QED BY <1>1, <3>1, <3>2 DEF ToSet
  <2>2. CASE ~ (i < e)
    <3>1. /\ i + m \in 1 .. n + m /\ ~ (i + m < e) /\ ~ (i + m < e + m)
          /\ (i + m) - m = i
      BY <1>1, <2>2
    <3>2. r[i + m] = s[i]
      BY <3>1 DEF IsInserted
    <3> QED BY <1>1, <3>1, <3>2 DEF ToSet
  <2> QED BY <2>1, <2>2
<1>7. ASSUME NEW i \in 1 .. m PROVE new[i] \in ToSet(r)
  <2>1. /\ i + e - 1 \in 1 .. n + m /\ ~ (i + e - 1 < e) /\ i + e - 1 < e + m
        /\ (i + e - 1) - e + 1 = i
    BY <1>1
  <2>2. r[i + e - 1] = new[i]
    BY <2>1 DEF IsInserted
  <2> QED BY <1>1, <2>1, <2>2 DEF ToSet
<1>8. ToSet(s) \cup ToSet(new) \subseteq ToSet(r)
  <2>1. ToSet(s) = {s[i] : i \in 1 .. n} /\ ToSet(new) = {new[i] : i \in 1 .. m}
    BY SetOfSeq
  <2> QED BY <1>6, <1>7, <2>1
<1> QED BY <1>4, <1>5, <1>8

(* The elements of Q stand side by side.                                   *)
Contiguous(s, Q) ==
  \A i, j, k \in DOMAIN s : i < j /\ j < k /\ s[i] \in Q /\ s[k] \in Q => s[j] \in Q

(* Place e is right before the first element of T, or right after the last.*)
IsEdge(s, T, e) ==
  \/ /\ e \in 1 .. Len(s) /\ s[e] \in T
     /\ \A i \in 1 .. Len(s) : s[i] \in T => e <= i
  \/ /\ e - 1 \in 1 .. Len(s) /\ s[e - 1] \in T
     /\ \A i \in 1 .. Len(s) : s[i] \in T => i < e

(* A part of T, or one beside T, is not torn at the edge of T.             *)
LEMMA InsertedApart ==
  ASSUME NEW s \in Seq(Pane), NEW new \in Seq(Pane), NEW e \in 1 .. Len(s) + 1,
         NEW r, IsInserted(s, e, new, r),
         NEW T, IsEdge(s, T, e),
         NEW Q, Contiguous(s, Q), Q \cap ToSet(new) = {},
         Q \subseteq T \/ Q \cap T = {}
  PROVE  Contiguous(r, Q)
<1> DEFINE n == Len(s)
           m == Len(new)
<1>1. /\ n \in Nat /\ m \in Nat /\ DOMAIN s = 1 .. n /\ DOMAIN r = 1 .. n + m
  BY LenProperties DEF IsInserted
<1>2. SUFFICES ASSUME NEW i \in 1 .. n + m, NEW j \in 1 .. n + m, NEW k \in 1 .. n + m,
                      i < j, j < k, r[i] \in Q, r[k] \in Q
               PROVE  r[j] \in Q
  BY <1>1 DEF Contiguous
<1>3. \/ i < e /\ i \in 1 .. n /\ r[i] = s[i]
      \/ e + m <= i /\ i - m \in 1 .. n /\ r[i] = s[i - m]
  BY <1>2, Sources
<1>4. \/ k < e /\ k \in 1 .. n /\ r[k] = s[k]
      \/ e + m <= k /\ k - m \in 1 .. n /\ r[k] = s[k - m]
  BY <1>2, Sources
<1>5. \/ e <= j /\ j < e + m
      \/ j < e /\ j \in 1 .. n /\ r[j] = s[j]
      \/ e + m <= j /\ j - m \in 1 .. n /\ r[j] = s[j - m]
  BY Sources
<1>6. \A a, b, c \in 1 .. n : a < b /\ b < c /\ s[a] \in Q /\ s[c] \in Q => s[b] \in Q
  BY <1>1 DEF Contiguous
<1> HIDE DEF n, m
<1>7. ASSUME NEW a \in 1 .. n, NEW c \in 1 .. n, a < e, e <= c,
             s[a] \in Q, s[c] \in Q
      PROVE  FALSE
  <2>1. CASE /\ e \in 1 .. n /\ s[e] \in T
             /\ \A h \in 1 .. n : s[h] \in T => e <= h
    <3>1. s[a] \notin T
      BY <1>1, <1>7, <2>1
    <3>2. Q \cap T = {}
      BY <1>7, <3>1
    <3>3. e < c
      BY <1>1, <1>7, <2>1, <3>2
    <3> QED BY <1>6, <1>7, <2>1, <3>2, <3>3
  <2>2. CASE /\ e - 1 \in 1 .. n /\ s[e - 1] \in T
             /\ \A h \in 1 .. n : s[h] \in T => h < e
    <3>1. s[c] \notin T
      BY <1>1, <1>7, <2>2
    <3>2. Q \cap T = {}
      BY <1>7, <3>1
    <3>3. a # e - 1
      BY <1>7, <2>2, <3>2
    <3>4. a < e - 1 /\ e - 1 < c
      BY <1>1, <1>7, <3>3
    <3> QED BY <1>6, <1>7, <2>2, <3>2, <3>4
  <2> QED BY <2>1, <2>2 DEF IsEdge, n
<1>8. i < e /\ e + m <= k => FALSE
  <2>1. i < e /\ e + m <= k => e <= k - m
    BY <1>1, <1>4
  <2> QED BY <1>1, <1>2, <1>3, <1>4, <1>7, <2>1
<1>9. CASE k < e
  BY <1>1, <1>2, <1>3, <1>4, <1>5, <1>6, <1>9
<1>10. CASE e + m <= i
  BY <1>1, <1>2, <1>3, <1>4, <1>5, <1>6, <1>10
<1> QED BY <1>3, <1>4, <1>8, <1>9, <1>10

(* What holds T and takes the new elements in is not torn either.          *)
LEMMA InsertedWithin ==
  ASSUME NEW s \in Seq(Pane), NEW new \in Seq(Pane), NEW e \in 1 .. Len(s) + 1,
         NEW r, IsInserted(s, e, new, r),
         NEW T, IsEdge(s, T, e),
         NEW Q, T \subseteq Q, Contiguous(s, Q), ToSet(s) \cap ToSet(new) = {}
  PROVE  Contiguous(r, Q \cup ToSet(new))
<1> DEFINE n == Len(s)
           m == Len(new)
           P == Q \cup ToSet(new)
<1>1. /\ n \in Nat /\ m \in Nat /\ DOMAIN s = 1 .. n /\ DOMAIN r = 1 .. n + m
  BY LenProperties DEF IsInserted
<1>2. SUFFICES ASSUME NEW i \in 1 .. n + m, NEW j \in 1 .. n + m, NEW k \in 1 .. n + m,
                      i < j, j < k, r[i] \in P, r[k] \in P
               PROVE  r[j] \in P
  BY <1>1 DEF Contiguous
<1>3. \/ e <= i /\ i < e + m
      \/ i < e /\ i \in 1 .. n /\ s[i] \in Q
      \/ e + m <= i /\ i - m \in 1 .. n /\ s[i - m] \in Q
  BY <1>2, Sources
<1>4. \/ e <= k /\ k < e + m
      \/ k < e /\ k \in 1 .. n /\ s[k] \in Q
      \/ e + m <= k /\ k - m \in 1 .. n /\ s[k - m] \in Q
  BY <1>2, Sources
<1>5. \/ e <= j /\ j < e + m /\ r[j] \in P
      \/ j < e /\ j \in 1 .. n /\ r[j] = s[j]
      \/ e + m <= j /\ j - m \in 1 .. n /\ r[j] = s[j - m]
  <2>1. j \in 1 .. Len(s) + Len(new)
    OBVIOUS
  <2>2. \/ e <= j /\ j < e + Len(new) /\ r[j] \in ToSet(new)
        \/ j < e /\ j \in 1 .. Len(s) /\ r[j] = s[j]
        \/ e + Len(new) <= j /\ j - Len(new) \in 1 .. Len(s) /\ r[j] = s[j - Len(new)]
    BY <2>1, Sources
  <2> QED BY <2>2
<1>6. \A a, b, c \in 1 .. n : a < b /\ b < c /\ s[a] \in Q /\ s[c] \in Q => s[b] \in Q
  BY <1>1 DEF Contiguous
<1> HIDE DEF n, m
<1>7. ASSUME NEW a \in 1 .. n, NEW b \in 1 .. n, s[a] \in Q, a < b, b < e
      PROVE  s[b] \in Q
  <2>1. CASE e \in 1 .. n /\ s[e] \in T
    BY <1>1, <1>6, <1>7, <2>1
  <2>2. CASE e - 1 \in 1 .. n /\ s[e - 1] \in T
    <3>1. b = e - 1 \/ b < e - 1
      BY <1>1, <1>7
    <3> QED BY <1>1, <1>6, <1>7, <2>2, <3>1
  <2> QED BY <2>1, <2>2 DEF IsEdge, n
<1>8. ASSUME NEW c \in 1 .. n, NEW b \in 1 .. n, s[c] \in Q, b < c, e <= b
      PROVE  s[b] \in Q
  <2>1. CASE e \in 1 .. n /\ s[e] \in T
    <3>1. e = b \/ e < b
      BY <1>1, <1>8
    <3> QED BY <1>1, <1>6, <1>8, <2>1, <3>1
  <2>2. CASE e - 1 \in 1 .. n /\ s[e - 1] \in T
    BY <1>1, <1>6, <1>8, <2>2
  <2> QED BY <2>1, <2>2 DEF IsEdge, n
<1>9. CASE j < e
  <2>1. i < e /\ i \in 1 .. n /\ s[i] \in Q
    BY <1>1, <1>2, <1>3, <1>9
  <2>2. j \in 1 .. n /\ r[j] = s[j]
    BY <1>1, <1>5, <1>9
  <2> QED BY <1>2, <1>7, <1>9, <2>1, <2>2
<1>10. CASE e + m <= j
  <2>1. e + m <= k /\ k - m \in 1 .. n /\ s[k - m] \in Q
    BY <1>1, <1>2, <1>4, <1>10
  <2>2. j - m \in 1 .. n /\ r[j] = s[j - m]
    BY <1>1, <1>5, <1>10
  <2>3. j - m < k - m /\ e <= j - m
    BY <1>1, <1>2, <1>10
  <2>4. s[j - m] \in Q
    BY <1>8, <2>1, <2>2, <2>3
  <2> QED BY <2>2, <2>4
<1> QED BY <1>5, <1>9, <1>10

(* A run of new elements stays one.                                        *)
LEMMA InsertedRun ==
  ASSUME NEW s \in Seq(Pane), NEW new \in Seq(Pane), NEW e \in 1 .. Len(s) + 1,
         NEW r, IsInserted(s, e, new, r), IsInjective(new),
         ToSet(s) \cap ToSet(new) = {},
         NEW g \in 1 .. Len(new), NEW h \in 1 .. Len(new)
  PROVE  Contiguous(r, {new[j] : j \in g .. h})
<1> DEFINE n == Len(s)
           m == Len(new)
           Q == {new[j] : j \in g .. h}
<1>1. /\ n \in Nat /\ m \in Nat /\ DOMAIN s = 1 .. n /\ DOMAIN r = 1 .. n + m
      /\ DOMAIN new = 1 .. m
  BY LenProperties DEF IsInserted
<1>2. Q \subseteq ToSet(new)
  BY <1>1 DEF ToSet
<1>3. ASSUME NEW i \in 1 .. n + m
      PROVE  r[i] \in Q <=> e <= i /\ i < e + m /\ g <= i - e + 1 /\ i - e + 1 <= h
  <2>1. CASE e <= i /\ i < e + m
    <3>1. i - e + 1 \in 1 .. m /\ r[i] = new[i - e + 1]
      BY <1>1, <2>1 DEF IsInserted
    <3>2. \A j \in 1 .. m : new[i - e + 1] = new[j] => i - e + 1 = j
      BY <1>1, <3>1 DEF IsInjective
    <3>3. g .. h \subseteq 1 .. m
      BY <1>1
    <3>4. r[i] \in Q <=> i - e + 1 \in g .. h
      BY <3>1, <3>2, <3>3
    <3> QED BY <1>1, <2>1, <3>1, <3>4
  <2>2. CASE ~ (e <= i /\ i < e + m)
    <3>1. r[i] \in ToSet(s)
      BY <2>2, Sources
    <3> QED BY <1>2, <2>2, <3>1
  <2> QED BY <2>1, <2>2
<1> HIDE DEF Q
<1>4. SUFFICES ASSUME NEW i \in 1 .. n + m, NEW j \in 1 .. n + m, NEW k \in 1 .. n + m,
                      i < j, j < k, r[i] \in Q, r[k] \in Q
               PROVE  r[j] \in Q
  BY <1>1 DEF Contiguous, Q
<1>5. /\ e <= i /\ i < e + m /\ g <= i - e + 1 /\ i - e + 1 <= h
      /\ e <= k /\ k < e + m /\ g <= k - e + 1 /\ k - e + 1 <= h
  BY <1>3, <1>4
<1>6. e <= j /\ j < e + m /\ g <= j - e + 1 /\ j - e + 1 <= h
  BY <1>1, <1>4, <1>5
<1> QED BY <1>3, <1>6

(* The subtrees of a chain of panes.                                       *)
LEMMA Chained ==
  ASSUME NEW panes \in Seq(Pane), panes # <<>>, IsInjective(panes)
  PROVE  LET C == ChainSets(panes)
             N == ToSet(panes)
         IN  /\ \A Q \in C : Q \subseteq N /\ Q # {}
             /\ N \in C /\ \A p \in N : {p} \in C
             /\ \A Q \in C : \E g, h \in 1 .. Len(panes) : Q = {panes[j] : j \in g .. h}
             /\ \A R, S \in C : R \subseteq S \/ S \subseteq R \/ R \cap S = {}
             /\ \A Q \in C : \A x, y \in Q : x # y =>
                  \E R \in C : R # Q /\ R \subseteq Q /\ Q \ R \in C
<1> DEFINE m     == Len(panes)
           C     == ChainSets(panes)
           N     == ToSet(panes)
           At(i) == {panes[j] : j \in i .. m}
<1>1. m \in Nat /\ DOMAIN panes = 1 .. m /\ m >= 1
  BY LenProperties, EmptySeq
<1>2. \A i, j \in 1 .. m : panes[i] = panes[j] => i = j
  BY <1>1 DEF IsInjective
<1>3. N = {panes[i] : i \in 1 .. m}
  BY <1>1 DEF ToSet
<1>4. C = {{p} : p \in N} \cup {At(i) : i \in 1 .. m}
  BY <1>1 DEF ChainSets
<1> HIDE DEF C, N
<1>5. ASSUME NEW i \in 1 .. m
      PROVE  /\ panes[i] \in At(i) /\ At(i) \subseteq N
             /\ At(i) \in C /\ {panes[i]} \in C
  <2>1. i \in i .. m /\ i .. m \subseteq 1 .. m
    BY <1>1
  <2>2. panes[i] \in At(i) /\ At(i) \subseteq N
    BY <1>3, <2>1
  <2>3. At(i) \in C /\ {panes[i]} \in C
    <3> HIDE DEF At
    <3> QED BY <1>3, <1>4
  <2> QED BY <2>2, <2>3
<1>6. \A Q \in C : \/ \E i \in 1 .. m : Q = {panes[i]}
                   \/ \E i \in 1 .. m : Q = At(i)
  BY <1>3, <1>4
<1>7. \A Q \in C : Q \subseteq N /\ Q # {}
  <2> HIDE DEF At
  <2> QED BY <1>3, <1>5, <1>6
<1>8. N \in C /\ \A p \in N : {p} \in C
  <2>1. N = At(1) /\ 1 \in 1 .. m
    BY <1>1, <1>3
  <2> HIDE DEF At
  <2>2. N \in C
    BY <1>4, <2>1
  <2>3. \A p \in N : {p} \in C
    BY <1>4
  <2> QED BY <2>2, <2>3
<1>9. \A Q \in C : \E g, h \in 1 .. m : Q = {panes[j] : j \in g .. h}
  <2>1. ASSUME NEW i \in 1 .. m PROVE {panes[i]} = {panes[j] : j \in i .. i}
    <3>1. i .. i = {i}
      OBVIOUS
    <3> QED BY <3>1
  <2>2. m \in 1 .. m
    BY <1>1
  <2>3. SUFFICES ASSUME NEW Q \in C
                 PROVE  \E g, h \in 1 .. m : Q = {panes[j] : j \in g .. h}
    OBVIOUS
  <2>4. CASE \E i \in 1 .. m : Q = {panes[i]}
    BY <2>1, <2>4
  <2>5. CASE \E i \in 1 .. m : Q = At(i)
    BY <2>2, <2>5
  <2> QED BY <1>6, <2>4, <2>5
<1>10. \A i, k \in 1 .. m : k \in i .. m <=> panes[k] \in At(i)
  BY <1>1, <1>2
<1>11. \A i, k \in 1 .. m : i <= k => At(k) \subseteq At(i)
  BY <1>1
<1>12. \A R, S \in C : R \subseteq S \/ S \subseteq R \/ R \cap S = {}
  <2>1. SUFFICES ASSUME NEW R \in C, NEW S \in C
                 PROVE  R \subseteq S \/ S \subseteq R \/ R \cap S = {}
    OBVIOUS
  <2>2. CASE (\E i \in 1 .. m : R = {panes[i]}) \/ (\E i \in 1 .. m : S = {panes[i]})
    BY <2>2
  <2>3. CASE \E i, k \in 1 .. m : R = At(i) /\ S = At(k)
    <3>1. PICK i \in 1 .. m, k \in 1 .. m : R = At(i) /\ S = At(k)
      BY <2>3
    <3> HIDE DEF At
    <3>2. i <= k \/ k <= i
      BY <1>1
    <3> QED BY <1>11, <3>1, <3>2
  <2> QED BY <1>6, <2>2, <2>3
<1>13. ASSUME NEW Q \in C, NEW x \in Q, NEW y \in Q, x # y
       PROVE  \E R \in C : R # Q /\ R \subseteq Q /\ Q \ R \in C
  <2>1. PICK i \in 1 .. m : Q = At(i)
    BY <1>6, <1>13
  <2>2. i < m
    <3>1. SUFFICES ASSUME i = m PROVE FALSE
      <4> HIDE DEF m
      <4> QED BY <1>1
    <3>2. i .. m = {m}
      BY <1>1, <3>1
    <3>3. At(i) = {panes[m]}
      BY <3>2
    <3> HIDE DEF At
    <3> QED BY <1>13, <2>1, <3>3
  <2>3. i + 1 \in 1 .. m /\ i .. m = {i} \cup (i + 1 .. m)
    BY <1>1, <2>2
  <2>4. At(i) = {panes[i]} \cup At(i + 1)
    BY <2>3
  <2>5. panes[i] \notin At(i + 1)
    <3>1. ~ (i \in i + 1 .. m)
      BY <1>1
    <3> QED BY <1>10, <2>3, <3>1
  <2> HIDE DEF At
  <2>6. At(i) \ {panes[i]} = At(i + 1) /\ At(i + 1) # {}
    BY <1>5, <2>3, <2>4, <2>5
  <2>7. {panes[i]} \in C /\ At(i + 1) \in C
    BY <1>5, <2>3
  <2> QED BY <2>1, <2>4, <2>6, <2>7
<1> QED BY <1>7, <1>8, <1>9, <1>12, <1>13 DEF C, N

(* replace_subtree_with_pair makes a proper tree of a proper tree.         *)
Grows(t, panes, r) ==
  /\ r \in PaneTrees /\ IsTree(r)
  /\ Leaves(r) = Leaves(t) \cup ToSet(panes)
  /\ Len(r.order) = Len(t.order) + Len(panes)

LEMMA PairGrows ==
  ASSUME NEW t \in PaneTrees, IsTree(t), NEW T \in t.sets,
         NEW panes \in Seq(Pane), panes # <<>>, IsInjective(panes),
         ToSet(panes) \cap Leaves(t) = {}, NEW second \in BOOLEAN
  PROVE  Grows(t, panes, PairWith(t, T, panes, second))
<1> DEFINE r == PairWith(t, T, panes, second)
           s == t.order
           N == ToSet(panes)
           C == ChainSets(panes)
           A == {S \cup N : S \in {Q \in t.sets : T \subseteq Q}}
           B == {Q \in t.sets : ~ (T \subseteq Q)}
           e == FirstOf(s, T) + IF second THEN Cardinality(T) ELSE 0
<1>1. /\ s \in Seq(Pane) /\ ToSet(s) = Leaves(t) /\ IsInjective(s)
      /\ Len(s) \in Nat /\ DOMAIN s = 1 .. Len(s)
      /\ T # {} /\ T \subseteq Leaves(t) /\ Leaves(t) \subseteq Pane
  BY TreeFacts DEF PaneTrees, IsTree
<1>2. /\ \A Q \in C : Q \subseteq N /\ Q # {}
      /\ N \in C /\ \A p \in N : {p} \in C
      /\ \A Q \in C : \E g, h \in 1 .. Len(panes) : Q = {panes[j] : j \in g .. h}
      /\ \A R, S \in C : R \subseteq S \/ S \subseteq R \/ R \cap S = {}
      /\ \A Q \in C : \A x, y \in Q : x # y =>
           \E R \in C : R # Q /\ R \subseteq Q /\ Q \ R \in C
  BY Chained
<1>3. e \in 1 .. Len(s) + 1 /\ IsEdge(s, T, e)
  <2> DEFINE f == FirstOf(s, T)
             c == Cardinality(T)
  <2>1. /\ f \in 1 .. Len(s) /\ f + c - 1 \in 1 .. Len(s) /\ c \in Nat
        /\ \A i \in 1 .. Len(s) : s[i] \in T <=> f <= i /\ i <= f + c - 1
    BY SubtreePlaces, TreeFacts, FS_CardinalityType
  <2> HIDE DEF f, c
  <2>2. f <= f + c - 1
    <3>1. c # 0
      BY <1>1, TreeFacts, FS_EmptySet DEF c
    <3> QED BY <1>1, <2>1, <3>1
  <2>3. CASE second
    <3>1. e = f + c /\ e - 1 = f + c - 1
      BY <1>1, <2>1, <2>3 DEF f, c
    <3>2. s[e - 1] \in T
      BY <1>1, <2>1, <2>2, <3>1
    <3>3. \A i \in 1 .. Len(s) : s[i] \in T => i < e
      BY <1>1, <2>1, <3>1
    <3> QED BY <1>1, <2>1, <3>1, <3>2, <3>3 DEF IsEdge
  <2>4. CASE ~ second
    <3>1. e = f
      BY <1>1, <2>1, <2>4 DEF f
    <3> QED BY <1>1, <2>1, <2>2, <3>1 DEF IsEdge
  <2> QED BY <2>3, <2>4
<1>4. r.order = SubSeq(s, 1, e - 1) \o panes \o SubSeq(s, e, Len(s))
  BY DEF PairWith, PlaceInOrder
<1> HIDE DEF e
<1>5. IsInserted(s, e, panes, r.order)
  BY <1>1, <1>3, <1>4, Inserted
<1>6. r.sets = A \cup B \cup {T} \cup C
  <2>1. {IF T \subseteq S THEN S \cup N ELSE S : S \in t.sets} = A \cup B
    OBVIOUS
  <2> HIDE DEF A, B
  <2> QED BY <2>1 DEF PairWith, Widen
<1>7. r \in PaneTrees
  <2>1. r = [sets |-> r.sets, order |-> r.order]
    BY DEF PairWith
  <2>2. r.order \in Seq(Pane)
    BY <1>5 DEF IsInserted
  <2>3. N \subseteq Pane /\ t.sets \subseteq SUBSET Pane
    BY SetOfSeq DEF PaneTrees
  <2>4. \A Q \in A \cup B \cup {T} \cup C : Q \subseteq Pane
    BY <1>1, <1>2, <2>3
  <2> HIDE DEF r, A, B, C, N
  <2> QED BY <1>6, <2>1, <2>2, <2>4 DEF PaneTrees
<1> HIDE DEF r
<1>8. /\ \A Q \in t.sets : Q \subseteq Leaves(t) /\ Q # {} /\ Q \cap N = {}
      /\ N \cap Leaves(t) = {} /\ N # {}
  <2>1. N # {}
    BY SetOfSeq
  <2> QED BY <2>1, TreeFacts DEF IsTree
<1> HIDE DEF N, C
<1>9. Leaves(r) = Leaves(t) \cup N
  <2>1. \A Q \in r.sets : Q \subseteq Leaves(t) \cup N
    BY <1>1, <1>2, <1>6, <1>8
  <2>2. Leaves(t) \in t.sets
    <3>1. t.sets # {}
      OBVIOUS
    <3> QED BY <3>1 DEF IsTree
  <2>3. Leaves(t) \cup N \in r.sets
    BY <1>1, <1>6, <2>2
  <2> QED BY <2>1, <2>3 DEF Leaves
<1>10. /\ ToSet(r.order) = Leaves(r) /\ IsInjective(r.order)
       /\ Len(r.order) = Len(s) + Len(panes)
  <2>1. ToSet(s) \cap ToSet(panes) = {}
    BY <1>1
  <2>2. IsInjective(r.order) /\ ToSet(r.order) = ToSet(s) \cup ToSet(panes)
    BY <1>1, <1>3, <1>5, <2>1, InsertedOnce
  <2> QED BY <1>1, <1>5, <1>9, <2>2 DEF N, IsInserted
<1>11. \A p \in Leaves(r) : {p} \in r.sets
  <2>1. ASSUME NEW p \in Leaves(t) PROVE {p} \in r.sets
    <3>1. {p} \in t.sets
      BY DEF IsTree
    <3>2. T \subseteq {p} => T = {p}
      BY <1>1
    <3> QED BY <1>6, <3>1, <3>2
  <2>2. ASSUME NEW p \in N PROVE {p} \in r.sets
    BY <1>2, <1>6
  <2> QED BY <1>9, <2>1, <2>2
<1>12. \A R, S \in t.sets : R \subseteq S \/ S \subseteq R \/ R \cap S = {}
  BY DEF IsTree
<1>13. \A R, S \in r.sets : R \subseteq S \/ S \subseteq R \/ R \cap S = {}
  <2> DEFINE Nested(R, S) == R \subseteq S \/ S \subseteq R \/ R \cap S = {}
  <2>1. \A R, S \in A : Nested(R, S)
    BY <1>1, <1>12
  <2>2. \A R \in A, S \in B \cup {T} : Nested(R, S)
    BY <1>1, <1>8, <1>12
  <2>3. \A R \in A, S \in C : Nested(R, S)
    BY <1>2
  <2>4. \A R, S \in B \cup {T} : Nested(R, S)
    BY <1>12
  <2>5. \A R \in B \cup {T}, S \in C : Nested(R, S)
    BY <1>1, <1>2, <1>8
  <2>6. \A R, S \in C : Nested(R, S)
    BY <1>2
  <2>7. \A R, S : Nested(R, S) <=> Nested(S, R)
    OBVIOUS
  <2>8. SUFFICES ASSUME NEW R \in r.sets, NEW S \in r.sets PROVE Nested(R, S)
    OBVIOUS
  <2> HIDE DEF Nested, A, B
  <2>9. (R \in A \/ R \in B \cup {T} \/ R \in C) /\ (S \in A \/ S \in B \cup {T} \/ S \in C)
    BY <1>6
  <2> QED BY <2>1, <2>2, <2>3, <2>4, <2>5, <2>6, <2>7, <2>9
<1>14. ASSUME NEW Q \in r.sets, NEW x \in Q, NEW y \in Q, x # y
       PROVE  \E R \in r.sets : R # Q /\ R \subseteq Q /\ Q \ R \in r.sets
  <2>1. ASSUME NEW S \in t.sets, NEW a \in S, NEW b \in S, a # b
        PROVE  \E R \in t.sets : R # S /\ R \subseteq S /\ S \ R \in t.sets
    <3>1. Cardinality(S) > 1
      BY <2>1, TreeFacts
    <3> QED BY <3>1 DEF IsTree
  <2>2. CASE Q \in B \cup {T}
    <3>1. PICK R \in t.sets : R # Q /\ R \subseteq Q /\ Q \ R \in t.sets
      BY <1>14, <2>1, <2>2
    <3>2. R \in B /\ Q \ R \in B
      BY <1>8, <2>2, <3>1
    <3> QED BY <1>6, <3>1, <3>2
  <2>3. CASE Q \in C
    <3>1. PICK R \in C : R # Q /\ R \subseteq Q /\ Q \ R \in C
      BY <1>2, <1>14, <2>3
    <3> QED BY <1>6, <3>1
  <2>4. CASE Q = T \cup N
    <3>1. T \in r.sets /\ N \in r.sets
      BY <1>2, <1>6
    <3>2. T # Q /\ T \subseteq Q /\ Q \ T = N
      BY <1>1, <1>8, <2>4
    <3> QED BY <3>1, <3>2
  <2>5. ASSUME NEW S \in t.sets, T \subseteq S, S # T, Q = S \cup N
        PROVE  \E R \in r.sets : R # Q /\ R \subseteq Q /\ Q \ R \in r.sets
    <3>1. PICK a \in S, b \in S : a # b
      BY <1>1, <2>5
    <3>2. PICK R \in t.sets : R # S /\ R \subseteq S /\ S \ R \in t.sets
      BY <2>1, <3>1
    <3>3. R # {} /\ S \ R # {}
      BY <1>8, <3>2
    <3>4. T \subseteq R \/ T \subseteq S \ R
      <4>1. T \subseteq R \/ R \subseteq T \/ R \cap T = {}
        BY <1>12
      <4>2. T \subseteq S \ R \/ S \ R \subseteq T \/ (S \ R) \cap T = {}
        BY <1>12, <3>2
      <4> QED BY <2>5, <3>2, <3>3, <4>1, <4>2
    <3>5. CASE T \subseteq R
      <4>1. R \cup N \in A /\ S \ R \in B
        BY <1>1, <3>2, <3>5
      <4>2. R \cup N # Q /\ R \cup N \subseteq Q /\ Q \ (R \cup N) = S \ R
        BY <1>8, <2>5, <3>2, <3>3
      <4> QED BY <1>6, <4>1, <4>2
    <3>6. CASE T \subseteq S \ R
      <4>1. R \in B /\ (S \ R) \cup N \in A
        BY <1>1, <3>2, <3>6
      <4>2. R # Q /\ R \subseteq Q /\ Q \ R = (S \ R) \cup N
        BY <1>8, <2>5, <3>2, <3>3
      <4> QED BY <1>6, <4>1, <4>2
    <3> QED BY <3>4, <3>5, <3>6
  <2>6. CASE Q \in A
    BY <2>4, <2>5, <2>6
  <2> QED BY <1>6, <2>2, <2>3, <2>6
<1>15. \A Q \in r.sets : Contiguous(r.order, Q)
  <2>1. ToSet(s) \cap ToSet(panes) = {}
    BY <1>1
  <2>2. \A Q \in t.sets : Contiguous(s, Q)
    BY DEF IsTree, Contiguous
  <2>3. ASSUME NEW Q \in B \cup {T} PROVE Contiguous(r.order, Q)
    <3>1. Q \in t.sets /\ (Q \subseteq T \/ Q \cap T = {})
      BY <1>12
    <3>2. Q \cap ToSet(panes) = {}
      BY <1>8, <3>1 DEF N
    <3> HIDE DEF s, A, B
    <3> QED BY <1>1, <1>3, <1>5, <2>2, <3>1, <3>2, InsertedApart
  <2>4. ASSUME NEW Q \in t.sets, T \subseteq Q PROVE Contiguous(r.order, Q \cup N)
    <3> HIDE DEF s
    <3> QED BY <1>1, <1>3, <1>5, <2>1, <2>2, <2>4, InsertedWithin DEF N
  <2>5. ASSUME NEW Q \in C PROVE Contiguous(r.order, Q)
    <3>1. PICK g \in 1 .. Len(panes), h \in 1 .. Len(panes) :
             Q = {panes[j] : j \in g .. h}
      BY <1>2
    <3> HIDE DEF s
    <3> QED BY <1>1, <1>3, <1>5, <2>1, <3>1, InsertedRun
  <2> QED BY <1>6, <2>3, <2>4, <2>5
<1>16. IsTree(r)
  <2>1. {} \notin r.sets
    BY <1>1, <1>2, <1>6, <1>8
  <2>2. Leaves(r) \in r.sets
    <3>1. Leaves(t) \in t.sets
      <4>1. t.sets # {}
        OBVIOUS
      <4> QED BY <4>1 DEF IsTree
    <3> QED BY <1>1, <1>6, <1>9, <3>1
  <2>3. \A Q \in r.sets : Cardinality(Q) > 1 =>
          \E R \in r.sets : R # Q /\ R \subseteq Q /\ Q \ R \in r.sets
    <3>1. SUFFICES ASSUME NEW Q \in r.sets, Cardinality(Q) > 1
                   PROVE  \E R \in r.sets : R # Q /\ R \subseteq Q /\ Q \ R \in r.sets
      OBVIOUS
    <3>2. PICK x \in Q, y \in Q : x # y
      BY <1>7, <3>1, TreeFacts
    <3> QED BY <1>14, <3>2
  <2> HIDE DEF A, B, s
  <2> QED BY <1>10, <1>11, <1>13, <1>15, <2>1, <2>2, <2>3 DEF IsTree, Contiguous
<1> QED BY <1>7, <1>9, <1>10, <1>16 DEF Grows, r, N

LEMMA LeafAlone ==
  ASSUME NEW p \in Pane
  PROVE  /\ LeafTree(p) \in PaneTrees /\ IsTree(LeafTree(p))
         /\ Leaves(LeafTree(p)) = {p} /\ Len(LeafTree(p).order) = 1
<1> DEFINE t == LeafTree(p)
<1>1. t.sets = {{p}} /\ t.order = <<p>>
  BY DEF LeafTree
<1>2. <<p>> \in Seq(Pane) /\ Len(<<p>>) = 1 /\ DOMAIN <<p>> = 1 .. 1 /\ <<p>>[1] = p
  OBVIOUS
<1>3. t \in PaneTrees
  BY <1>2 DEF LeafTree, PaneTrees
<1> HIDE DEF t
<1>4. Leaves(t) = {p}
  BY <1>1 DEF Leaves
<1>5. ToSet(t.order) = {p} /\ IsInjective(t.order)
  BY <1>1, <1>2 DEF ToSet, IsInjective
<1>6. \A S \in t.sets : ~ (Cardinality(S) > 1)
  BY <1>1, <1>3, TreeFacts
<1>7. IsTree(t)
  BY <1>1, <1>2, <1>4, <1>5, <1>6 DEF IsTree
<1> QED BY <1>1, <1>2, <1>3, <1>4, <1>7 DEF t

LEMMA SplitGrows ==
  ASSUME NEW t \in PaneTrees, IsTree(t), NEW p \in Leaves(t),
         NEW new \in Pane \ Leaves(t), NEW second \in BOOLEAN
  PROVE  /\ Grows(t, <<new>>, SplitLeaf(t, p, new, second))
         /\ Grows(t, <<new>>, SplitRoot(t, new, second))
         /\ ToSet(<<new>>) = {new} /\ Len(<<new>>) = 1
<1>1. /\ <<new>> \in Seq(Pane) /\ Len(<<new>>) = 1 /\ DOMAIN <<new>> = 1 .. 1
      /\ <<new>>[1] = new /\ <<new>> # <<>>
  OBVIOUS
<1>2. ToSet(<<new>>) = {new} /\ IsInjective(<<new>>)
  BY <1>1 DEF ToSet, IsInjective
<1>3. {p} \in t.sets /\ Leaves(t) \in t.sets
  BY DEF IsTree, Leaves
<1>4. Grows(t, <<new>>, PairWith(t, {p}, <<new>>, second))
  BY <1>1, <1>2, <1>3, PairGrows
<1>5. Grows(t, <<new>>, PairWith(t, Leaves(t), <<new>>, second))
  BY <1>1, <1>2, <1>3, PairGrows
<1> QED BY <1>1, <1>2, <1>4, <1>5 DEF SplitLeaf, SplitRoot

(* The subtrees of a tree that is split.                                   *)
LEMMA SplitsAround ==
  ASSUME NEW t \in PaneTrees, IsTree(t), NEW p \in Leaves(t), NEW new, NEW second
  PROVE  /\ t.sets \subseteq SplitRoot(t, new, second).sets
         /\ {p, new} \in SplitLeaf(t, p, new, second).sets
         /\ \A S \in t.sets : IF p \in S THEN S \cup {new} \in SplitLeaf(t, p, new, second).sets
                              ELSE S \in SplitLeaf(t, p, new, second).sets
<1>1. ToSet(<<new>>) = {new}
  BY DEF ToSet
<1>2. \A T : /\ Widen(t.sets, T, {new}) \subseteq PairWith(t, T, <<new>>, second).sets
             /\ T \in PairWith(t, T, <<new>>, second).sets
  BY <1>1 DEF PairWith
<1>3. \A T : \A S \in t.sets : (IF T \subseteq S THEN S \cup {new} ELSE S) \in Widen(t.sets, T, {new})
  BY DEF Widen
<1>4. t.sets \subseteq SplitRoot(t, new, second).sets
  <2>1. \A S \in t.sets : S = Leaves(t) \/ ~ (Leaves(t) \subseteq S)
    BY DEF Leaves
  <2> QED BY <1>2, <1>3, <2>1 DEF SplitRoot
<1>5. \A S \in t.sets : IF p \in S THEN S \cup {new} \in SplitLeaf(t, p, new, second).sets
                        ELSE S \in SplitLeaf(t, p, new, second).sets
  <2>1. \A S : {p} \subseteq S <=> p \in S
    OBVIOUS
  <2> QED BY <1>2, <1>3, <2>1 DEF SplitLeaf
<1>6. {p, new} \in SplitLeaf(t, p, new, second).sets
  <2>1. {p} \in t.sets /\ {p} \cup {new} = {p, new}
    BY DEF IsTree
  <2> QED BY <1>5, <2>1
<1> QED BY <1>4, <1>5, <1>6

(* Panes that trade places leave the shape of the tree.                    *)
LEMMA Relabeled ==
  ASSUME NEW t \in PaneTrees, IsTree(t),
         NEW f \in Bijection(Leaves(t), Leaves(t))
  PROVE  LET r == Relabel(t, f)
         IN  /\ r \in PaneTrees /\ IsTree(r)
             /\ Leaves(r) = Leaves(t) /\ Len(r.order) = Len(t.order)
<1> DEFINE r     == Relabel(t, f)
           L     == Leaves(t)
           n     == Len(t.order)
           Im(S) == {f[p] : p \in S}
<1>1. /\ t.order \in Seq(Pane) /\ ToSet(t.order) = L /\ IsInjective(t.order)
      /\ n \in Nat /\ DOMAIN t.order = 1 .. n /\ L \subseteq Pane
      /\ \A S \in t.sets : S \subseteq L
      /\ \A i \in 1 .. n : t.order[i] \in L
  BY TreeFacts DEF PaneTrees, IsTree, ToSet
<1>2. /\ \A p \in L : f[p] \in L
      /\ \A p, q \in L : f[p] = f[q] => p = q
      /\ \A q \in L : \E p \in L : f[p] = q
  BY DEF Bijection, Injection, Surjection, IsInjective
<1>3. r.sets = {Im(S) : S \in t.sets} /\ r.order = [i \in 1 .. n |-> f[t.order[i]]]
  BY <1>1 DEF Relabel
<1>4. r \in PaneTrees
  <2>1. r = [sets |-> r.sets, order |-> r.order]
    BY DEF Relabel
  <2>2. r.order \in [1 .. n -> Pane]
    BY <1>1, <1>2, <1>3
  <2>3. r.order \in Seq(Pane)
    BY <1>1, <2>2, IsASeq
  <2>4. \A S \in t.sets : Im(S) \subseteq Pane
    BY <1>1, <1>2
  <2> HIDE DEF r, Im
  <2> QED BY <1>3, <2>1, <2>3, <2>4 DEF PaneTrees
<1>5. Len(r.order) = n /\ DOMAIN r.order = 1 .. n
  <2>1. DOMAIN r.order = 1 .. n
    BY <1>3
  <2>2. Len(r.order) \in Nat /\ DOMAIN r.order = 1 .. Len(r.order)
    BY <1>4, TreeFacts
  <2>3. PICK a \in Nat, b \in Nat : a = n /\ b = Len(r.order)
    BY <1>1, <2>2
  <2>4. 1 .. a = 1 .. b
    BY <2>1, <2>2, <2>3
  <2>5. a = b
    <3>1. a \in 1 .. a \/ a = 0
      OBVIOUS
    <3>2. b \in 1 .. b \/ b = 0
      OBVIOUS
    <3> QED BY <2>4, <3>1, <3>2
  <2> QED BY <2>1, <2>3, <2>5
<1> HIDE DEF r
<1>8. \A S \in SUBSET L : \A p \in L : f[p] \in Im(S) <=> p \in S
  BY <1>2
<1>6. \A S, T \in SUBSET L : /\ Im(S) \ Im(T) = Im(S \ T)
                             /\ Im(S) \subseteq Im(T) <=> S \subseteq T
                             /\ Im(S) \cap Im(T) = {} <=> S \cap T = {}
                             /\ Im(S) = {} <=> S = {}
  <2>1. SUFFICES ASSUME NEW S \in SUBSET L, NEW T \in SUBSET L
                 PROVE  /\ Im(S) \ Im(T) = Im(S \ T)
                        /\ Im(S) \subseteq Im(T) <=> S \subseteq T
                        /\ Im(S) \cap Im(T) = {} <=> S \cap T = {}
                        /\ Im(S) = {} <=> S = {}
    OBVIOUS
  <2>2. \A Q \in SUBSET L : \A y : y \in Im(Q) => \E p \in Q : y = f[p]
    OBVIOUS
  <2> HIDE DEF Im
  <2>3. S \ T \in SUBSET L
    BY <2>1
  <2>4. Im(S) \ Im(T) = Im(S \ T)
    <3>1. \A y : y \in Im(S) \ Im(T) => y \in Im(S \ T)
      BY <1>8, <2>1, <2>2, <2>3
    <3>2. \A y : y \in Im(S \ T) => y \in Im(S) \ Im(T)
      BY <1>8, <2>1, <2>2, <2>3
    <3> QED BY <3>1, <3>2
  <2>5. Im(S) \subseteq Im(T) <=> S \subseteq T
    BY <1>8, <2>1, <2>2
  <2>6. Im(S) \cap Im(T) = {} <=> S \cap T = {}
    BY <1>8, <2>1, <2>2
  <2>7. Im(S) = {} <=> S = {}
    BY <1>8, <2>1, <2>2
  <2> QED BY <2>4, <2>5, <2>6, <2>7
<1>7. Im(L) = L /\ \A q \in L : \E p \in L : Im({p}) = {q}
  <2>1. Im(L) = L
    BY <1>2
  <2>2. \A p : Im({p}) = {f[p]}
    OBVIOUS
  <2> HIDE DEF Im
  <2> QED BY <1>2, <2>1, <2>2
<1>9. \A S \in t.sets : Im(S) \subseteq L
  BY <1>1, <1>2
<1>10. Leaves(r) = L
  <2>1. ASSUME NEW q \in L PROVE \E S \in r.sets : q \in S
    <3>1. PICK p \in L : Im({p}) = {q}
      BY <1>7
    <3>2. {p} \in t.sets
      BY DEF IsTree
    <3> HIDE DEF Im
    <3> QED BY <1>3, <3>1, <3>2
  <2> QED BY <1>3, <1>9, <2>1 DEF Leaves
<1>11. ToSet(r.order) = L /\ IsInjective(r.order)
  <2>1. \A i \in 1 .. n : r.order[i] = f[t.order[i]]
    BY <1>3
  <2>2. IsInjective(r.order)
    BY <1>1, <1>2, <1>5, <2>1 DEF IsInjective
  <2>3. ToSet(r.order) \subseteq L
    <3>1. \A i \in 1 .. n : t.order[i] \in L
      BY <1>1, <1>5
    <3>2. \A i \in 1 .. n : r.order[i] \in L
      BY <1>2, <2>1, <3>1
    <3> QED BY <1>5, <3>2 DEF ToSet
  <2>4. ASSUME NEW q \in L PROVE q \in ToSet(r.order)
    <3>1. PICK p \in L : f[p] = q
      BY <1>2
    <3>2. PICK i \in 1 .. n : t.order[i] = p
      BY <1>1 DEF ToSet
    <3> QED BY <1>5, <2>1, <3>1, <3>2 DEF ToSet
  <2> QED BY <2>2, <2>3, <2>4
<1>12. {} \notin r.sets
  <2>1. \A S \in t.sets : S # {}
    BY DEF IsTree
  <2> HIDE DEF Im
  <2> QED BY <1>1, <1>3, <1>6, <2>1
<1>13. r.sets # {} => L \in r.sets
  <2>1. t.sets # {} => L \in t.sets
    BY DEF IsTree
  <2> HIDE DEF Im
  <2> QED BY <1>3, <1>7, <2>1
<1>14. \A p \in L : {p} \in r.sets
  <2>1. \A p \in L : {p} \in t.sets
    BY DEF IsTree
  <2> HIDE DEF Im
  <2> QED BY <1>3, <1>7, <2>1
<1>15. \A R, S \in r.sets : R \subseteq S \/ S \subseteq R \/ R \cap S = {}
  <2>1. SUFFICES ASSUME NEW R \in t.sets, NEW S \in t.sets
                 PROVE  \/ Im(R) \subseteq Im(S) \/ Im(S) \subseteq Im(R)
                        \/ Im(R) \cap Im(S) = {}
    BY <1>3
  <2>2. R \subseteq S \/ S \subseteq R \/ R \cap S = {}
    BY DEF IsTree
  <2>3. R \in SUBSET L /\ S \in SUBSET L
    BY <1>1
  <2> HIDE DEF Im
  <2> QED BY <1>6, <2>2, <2>3
<1>16. \A Q \in r.sets : Cardinality(Q) > 1 =>
         \E R \in r.sets : R # Q /\ R \subseteq Q /\ Q \ R \in r.sets
  <2>1. SUFFICES ASSUME NEW S \in t.sets, Cardinality(Im(S)) > 1
                 PROVE  \E R \in r.sets : R # Im(S) /\ R \subseteq Im(S)
                                          /\ Im(S) \ R \in r.sets
    BY <1>3
  <2>0. Im(S) \in r.sets
    BY <1>3
  <2>2. PICK p \in S, q \in S : p # q
    <3> DEFINE Q == Im(S)
    <3>1. Q \in r.sets /\ Cardinality(Q) > 1
      BY <2>0, <2>1
    <3> HIDE DEF Q
    <3>2. PICK x \in Q, y \in Q : x # y
      BY <1>4, <3>1, TreeFacts
    <3> QED BY <3>2 DEF Q
  <2>3. p # q
    BY <2>2
  <2>4. PICK R \in t.sets : R # S /\ R \subseteq S /\ S \ R \in t.sets
    BY <2>3, TreeFacts DEF IsTree
  <2> HIDE DEF Im
  <2>5. Im(S) \ Im(R) = Im(S \ R) /\ Im(R) \subseteq Im(S) /\ ~ (Im(S) \subseteq Im(R))
    <3>1. R \in SUBSET L /\ S \in SUBSET L /\ ~ (S \subseteq R)
      BY <1>1, <2>4
    <3> QED BY <1>6, <2>4, <3>1
  <2>6. Im(R) \in r.sets /\ Im(S \ R) \in r.sets
    BY <1>3, <2>4
  <2> QED BY <2>5, <2>6
<1>17. \A S \in r.sets : \A i, j, k \in DOMAIN r.order :
         i < j /\ j < k /\ r.order[i] \in S /\ r.order[k] \in S => r.order[j] \in S
  <2>1. SUFFICES ASSUME NEW S \in t.sets, NEW i \in 1 .. n, NEW j \in 1 .. n,
                        NEW k \in 1 .. n, i < j, j < k,
                        r.order[i] \in Im(S), r.order[k] \in Im(S)
                 PROVE  r.order[j] \in Im(S)
    <3>1. \A Q \in r.sets : \E S \in t.sets : Q = Im(S)
      BY <1>3
    <3> HIDE DEF Im
    <3> QED BY <1>5, <3>1
  <2>2. \A h \in 1 .. n : r.order[h] \in Im(S) <=> t.order[h] \in S
    <3> HIDE DEF Im
    <3> QED BY <1>1, <1>3, <1>8
  <2>3. t.order[j] \in S
    BY <1>1, <2>1, <2>2 DEF IsTree
  <2> QED BY <2>2, <2>3
<1>18. IsTree(r)
  <2> HIDE DEF Im
  <2> QED BY <1>10, <1>11, <1>12, <1>13, <1>14, <1>15, <1>16, <1>17 DEF IsTree
<1> QED BY <1>4, <1>5, <1>10, <1>18 DEF r

LEMMA Exchanged ==
  ASSUME NEW t \in PaneTrees, IsTree(t), NEW a \in Leaves(t), NEW b \in Leaves(t)
  PROVE  LET r == Exchange(t, a, b)
         IN  /\ r \in PaneTrees /\ IsTree(r)
             /\ Leaves(r) = Leaves(t) /\ Len(r.order) = Len(t.order)
<1> DEFINE f == [p \in Leaves(t) |-> IF p = a THEN b ELSE IF p = b THEN a ELSE p]
<1>1. f \in [Leaves(t) -> Leaves(t)]
  OBVIOUS
<1>2. \A p, q \in Leaves(t) : f[p] = f[q] => p = q
  OBVIOUS
<1>3. \A q \in Leaves(t) : \E p \in Leaves(t) : f[p] = q
  OBVIOUS
<1>4. f \in Bijection(Leaves(t), Leaves(t))
  <2> HIDE DEF f
  <2> QED BY <1>1, <1>2, <1>3 DEF Bijection, Injection, Surjection, IsInjective
<1> QED BY <1>4, Relabeled DEF Exchange

-----------------------------------------------------------------------------
(* Loops: a function defined by recursion over 0 .. n.                     *)

LEMMA UpTo ==
  ASSUME NEW n \in Nat, NEW E, 0 \in E, \A i \in 1 .. n : i - 1 \in E => i \in E
  PROVE  0 .. n \subseteq E
<1> DEFINE S == {i \in Nat : i <= n /\ i \notin E}
<1>1. SUFFICES ASSUME S # {} PROVE FALSE
  OBVIOUS
<1>2. S \in SUBSET Nat
  OBVIOUS
<1>3. Min(S) \in S /\ \A i \in S : Min(S) <= i
  BY <1>1, <1>2, Least
<1> DEFINE m == Min(S)
<1>4. m \in Nat /\ m <= n /\ m \notin E /\ \A i \in S : m <= i
  BY <1>3
<1> HIDE DEF m
<1>5. m \in 1 .. n /\ m - 1 \in Nat /\ m - 1 <= n /\ ~ (m <= m - 1)
  BY <1>4
<1>6. m - 1 \in E
  BY <1>4, <1>5
<1> QED BY <1>4, <1>5, <1>6

(* The function f takes step F from each place to the next.                *)
Iterates(f, X, x, F, n) ==
  /\ f \in [0 .. n -> X] /\ f[0] = x
  /\ \A i \in 1 .. n : f[i] = F[<<i, f[i - 1]>>]

LEMMA Iterated ==
  ASSUME NEW X, NEW x \in X, NEW F \in [Nat \X X -> X], NEW n \in Nat
  PROVE  \E f : Iterates(f, X, x, F, n)
<1> DEFINE Fits(f, m) == Iterates(f, X, x, F, m)
           E == {m \in Nat : \E f : Fits(f, m)}
<1>1. 0 \in E
  <2> DEFINE f == [i \in 0 .. 0 |-> x]
  <2>1. Fits(f, 0)
    BY DEF Iterates
  <2> HIDE DEF f, Fits
  <2> QED BY <2>1
<1>2. ASSUME NEW m \in 1 .. n, m - 1 \in E PROVE m \in E
  <2>1. PICK f : Fits(f, m - 1)
    BY <1>2
  <2> DEFINE g == [i \in 0 .. m |-> IF i = m THEN F[<<m, f[m - 1]>>] ELSE f[i]]
  <2>2. /\ f \in [0 .. m - 1 -> X] /\ f[0] = x
        /\ \A i \in 1 .. m - 1 : f[i] = F[<<i, f[i - 1]>>]
        /\ f[m - 1] \in X /\ F[<<m, f[m - 1]>>] \in X
    BY <2>1 DEF Iterates
  <2>3. g \in [0 .. m -> X] /\ g[0] = x
    BY <2>2
  <2>4. ASSUME NEW i \in 1 .. m PROVE g[i] = F[<<i, g[i - 1]>>]
    <3>1. i - 1 \in 0 .. m /\ i - 1 # m /\ i \in 0 .. m
      OBVIOUS
    <3>2. g[i - 1] = f[i - 1]
      BY <3>1
    <3>3. i # m => i \in 1 .. m - 1
      OBVIOUS
    <3> QED BY <2>2, <3>1, <3>2, <3>3
  <2> HIDE DEF g
  <2>5. Fits(g, m)
    BY <2>3, <2>4 DEF Iterates
  <2> HIDE DEF Fits
  <2> QED BY <2>5
<1> HIDE DEF E
<1>3. n \in E
  BY <1>1, <1>2, UpTo
<1> QED BY <1>3 DEF E

(* remove_pane_if's loop, run to its end.                                  *)
LEMMA WalkEnds ==
  ASSUME NEW t \in PaneTrees, IsTree(t), NEW V \in SUBSET Pane
  PROVE  LET w == Walk(t, V)
         IN  /\ Sane(t, V, w) /\ Exact(t, V, w)
             /\ V # {} /\ V \subseteq Leaves(t) => w.dead_panes # <<>>
<1> DEFINE last == Len(t.order) * (Cardinality(V) + 1)
           After(f, i) == IF i = 0 THEN StartWalk(t)
                          ELSE IF WalkDone(f[i - 1]) THEN f[i - 1]
                               ELSE Visit(f[i - 1], V)
           X == {w \in Walks : Sane(t, V, w) /\ Exact(t, V, w)}
           F == [a \in Nat \X X |-> IF WalkDone(a[2]) THEN a[2] ELSE Visit(a[2], V)]
           turn == CHOOSE f : f = [i \in 0 .. last |-> After(f, i)]
<1>1. last \in Nat /\ Len(t.order) \in Nat /\ Len(t.order) <= last
  <2>1. IsFiniteSet(V)
    BY PaneAssumption, FS_Subset
  <2>2. PICK c \in Nat, n \in Nat : c = Cardinality(V) /\ n = Len(t.order)
    BY <2>1, TreeFacts, FS_CardinalityType
  <2>3. n * c \in Nat /\ n * (c + 1) = n * c + n
    OBVIOUS
  <2> QED BY <2>2, <2>3
<1>2. Walk(t, V) = turn[last]
  BY DEF Walk
<1> HIDE DEF last
<1>3. StartWalk(t) \in X
  BY WalkStarts DEF Sane
<1>4. ASSUME NEW w \in X, ~ WalkDone(w)
      PROVE  /\ Visit(w, V) \in X
             /\ Visit(w, V).dead_panes = <<>> =>
                  w.dead_panes = <<>> /\ Visit(w, V).next = w.next + 1
  <2>1. /\ Sane(t, V, Visit(w, V)) /\ Exact(t, V, Visit(w, V))
        /\ Visit(w, V).dead_panes = <<>> =>
             w.dead_panes = <<>> /\ Visit(w, V).next = w.next + 1
    BY <1>4, TurnKeeps
  <2> QED BY <2>1 DEF Sane
<1>5. F \in [Nat \X X -> X]
  <2> HIDE DEF X
  <2> QED BY <1>4
<1>6. turn = [i \in 0 .. last |-> After(turn, i)]
  <2> HIDE DEF F, X
  <2>0. last \in Nat
    BY <1>1
  <2>1. PICK f : Iterates(f, X, StartWalk(t), F, last)
    BY <2>0, <1>3, <1>5, Iterated, Zenon
  <2>2. ASSUME NEW i \in 0 .. last PROVE f[i] = After(f, i)
    <3>1. CASE i = 0
      BY <2>1, <3>1 DEF Iterates
    <3>2. CASE i # 0
      <4>1. i \in 1 .. last /\ i - 1 \in 0 .. last /\ i \in Nat
        BY <1>1, <3>2
      <4>2. f[i] = F[<<i, f[i - 1]>>] /\ f[i - 1] \in X
        BY <2>1, <4>1 DEF Iterates
      <4> QED BY <3>2, <4>1, <4>2 DEF F
    <3> QED BY <3>1, <3>2
  <2>3. f = [i \in 0 .. last |-> After(f, i)]
    <3>1. f \in [0 .. last -> X]
      BY <2>1 DEF Iterates
    <3> HIDE DEF After
    <3> QED BY <2>2, <3>1
  <2> HIDE DEF After
  <2> QED BY <2>3
<1> HIDE DEF turn
<1> DEFINE E == {i \in Nat : /\ turn[i] \in X
                             /\ V # {} /\ V \subseteq Leaves(t)
                                /\ turn[i].dead_panes = <<>> => turn[i].next = i + 1}
<1>7. 0 \in E
  <2>1. turn[0] = StartWalk(t)
    BY <1>1, <1>6
  <2> QED BY <1>3, <2>1 DEF StartWalk
<1>8. ASSUME NEW i \in 1 .. last, i - 1 \in E PROVE i \in E
  <2>1. turn[i] = IF WalkDone(turn[i - 1]) THEN turn[i - 1] ELSE Visit(turn[i - 1], V)
    <3>1. i \in 0 .. last /\ i # 0
      BY <1>1
    <3> QED BY <1>6, <3>1
  <2>2. PICK w \in X : w = turn[i - 1]
    BY <1>8
  <2>3. V # {} /\ V \subseteq Leaves(t) /\ w.dead_panes = <<>> => w.next = i
    BY <1>8, <2>2
  <2>4. CASE WalkDone(w)
    <3>1. V # {} /\ V \subseteq Leaves(t) => w.dead_panes # <<>>
      BY <2>4, SomethingTaken
    <3> QED BY <2>1, <2>2, <2>4, <3>1
  <2>5. CASE ~ WalkDone(w)
    BY <1>4, <2>1, <2>2, <2>3, <2>5
  <2> QED BY <2>4, <2>5
<1> HIDE DEF E
<1>9. last \in E
  <2>1. last \in Nat /\ last \in 0 .. last
    BY <1>1
  <2>2. \A i \in 1 .. last : i - 1 \in E => i \in E
    BY <1>8
  <2>3. 0 .. last \subseteq E
    BY <1>7, <2>1, <2>2, UpTo, Zenon
  <2> QED BY <2>1, <2>3
<1>10. PICK w \in X : w = turn[last]
  BY <1>9 DEF E
<1>11. ASSUME V # {}, V \subseteq Leaves(t), w.dead_panes = <<>> PROVE FALSE
  <2>1. w.next = last + 1
    BY <1>9, <1>10, <1>11 DEF E
  <2>2. w.tree = t
    BY <1>11 DEF Exact, Untouched
  <2>3. WalkDone(w)
    BY <1>1, <2>1, <2>2 DEF WalkDone
  <2> QED BY <1>11, <2>3, SomethingTaken
<1> QED BY <1>2, <1>10, <1>11

-----------------------------------------------------------------------------
(* Groups.                                                                 *)

AnyUnit == [kind : {"pane"}, id : Pane] \cup [kind : {"group"}, id : Nat]

GroupMaps == UNION {[D -> [members : Seq(Pane), last_active : Pane]] : D \in SUBSET Nat}

MembersIn(m, g) == ToSet(m[g].members)

(* The groups m, whose ids are below n, of a tab with panes L.             *)
GroupsFit(m, n, L) ==
  /\ m \in GroupMaps
  /\ \A g \in DOMAIN m :
       /\ g < n /\ IsInjective(m[g].members) /\ Len(m[g].members) >= 2
       /\ MembersIn(m, g) \subseteq L
       /\ m[g].last_active \in MembersIn(m, g)
  /\ \A g, h \in DOMAIN m : g # h => MembersIn(m, g) \cap MembersIn(m, h) = {}

(* The groups m2 are groups of m, without the panes D.                     *)
Dwindles(m, D, m2) ==
  /\ DOMAIN m2 \subseteq DOMAIN m
  /\ \A g \in DOMAIN m2 : MembersIn(m2, g) = MembersIn(m, g) \ D

LEMMA DwindlesOn ==
  ASSUME NEW m, NEW m1, NEW m2, NEW C, NEW D, Dwindles(m, C, m1), Dwindles(m1, D, m2)
  PROVE  Dwindles(m, C \cup D, m2)
BY DEF Dwindles

(* unit_of looks at nothing but the groups.                                *)
UnitBy(m, p) ==
  LET with == {g \in DOMAIN m : p \in MembersIn(m, g)}
  IN  IF with = {} THEN PaneUnit(p) ELSE GroupUnit(Min(with))

LEMMA UnitByGroups ==
  ASSUME NEW s, NEW p
  PROVE  UnitOf(s, p) = UnitBy(s.groups, p)
BY DEF UnitOf, UnitBy, MembersIn

(* Panes and groups are told apart.                                        *)
LEMMA UnitKinds ==
  /\ \A p : PaneUnit(p).kind = "pane" /\ PaneUnit(p).id = p
  /\ \A g : GroupUnit(g).kind = "group" /\ GroupUnit(g).id = g
  /\ \A p, q : PaneUnit(p) = PaneUnit(q) => p = q
  /\ \A g, h : GroupUnit(g) = GroupUnit(h) => g = h
  /\ \A p, g : PaneUnit(p) # GroupUnit(g)
  /\ \A p \in Pane : PaneUnit(p) \in AnyUnit
  /\ \A g \in Nat : GroupUnit(g) \in AnyUnit
  /\ "pane" # "group"
<1>1. /\ \A p : PaneUnit(p).kind = "pane" /\ PaneUnit(p).id = p
      /\ \A g : GroupUnit(g).kind = "group" /\ GroupUnit(g).id = g
  BY DEF PaneUnit, GroupUnit
<1>2. "pane" # "group"
  OBVIOUS
<1>3. \A p, g : PaneUnit(p) # GroupUnit(g)
  BY <1>1, <1>2
<1>4. /\ \A p, q : PaneUnit(p) = PaneUnit(q) => p = q
      /\ \A g, h : GroupUnit(g) = GroupUnit(h) => g = h
  BY <1>1
<1>5. /\ \A p \in Pane : PaneUnit(p) \in AnyUnit
      /\ \A g \in Nat : GroupUnit(g) \in AnyUnit
  BY DEF PaneUnit, GroupUnit, AnyUnit
<1> QED BY <1>1, <1>2, <1>3, <1>4, <1>5

LEMMA GroupTyped ==
  ASSUME NEW m \in GroupMaps
  PROVE  /\ DOMAIN m \subseteq Nat
         /\ \A g \in DOMAIN m : /\ m[g].members \in Seq(Pane) /\ m[g].last_active \in Pane
                                /\ m[g] = [members |-> m[g].members,
                                           last_active |-> m[g].last_active]
                                /\ MembersIn(m, g) \subseteq Pane
                                /\ Len(m[g].members) \in Nat
         /\ m = [g \in DOMAIN m |-> m[g]]
<1>1. PICK D \in SUBSET Nat : m \in [D -> [members : Seq(Pane), last_active : Pane]]
  BY DEF GroupMaps
<1>2. DOMAIN m = D /\ m = [g \in DOMAIN m |-> m[g]]
  BY <1>1
<1>3. ASSUME NEW g \in D
      PROVE  /\ m[g].members \in Seq(Pane) /\ m[g].last_active \in Pane
             /\ m[g] = [members |-> m[g].members, last_active |-> m[g].last_active]
  BY <1>1
<1>4. \A g \in D : MembersIn(m, g) \subseteq Pane /\ Len(m[g].members) \in Nat
  BY <1>3, SetOfSeq, LenProperties DEF MembersIn
<1> QED BY <1>2, <1>3, <1>4

(* The unit a pane is in: its group, or the pane if it is in none.         *)
InGroup(m, p, u) ==
  \E g \in DOMAIN m : p \in MembersIn(m, g) /\ u = GroupUnit(g)

InNoGroup(m, p, u) ==
  u = PaneUnit(p) /\ \A g \in DOMAIN m : p \notin MembersIn(m, g)

LEMMA UnitIs ==
  ASSUME NEW m, DOMAIN m \subseteq Nat, NEW p
  PROVE  InGroup(m, p, UnitBy(m, p)) \/ InNoGroup(m, p, UnitBy(m, p))
<1> DEFINE with == {g \in DOMAIN m : p \in MembersIn(m, g)}
<1>1. UnitBy(m, p) = IF with = {} THEN PaneUnit(p) ELSE GroupUnit(Min(with))
  BY DEF UnitBy
<1>2. CASE with = {}
  BY <1>1, <1>2 DEF InNoGroup
<1>3. CASE with # {}
  <2>1. with \in SUBSET Nat
    OBVIOUS
  <2> HIDE DEF with
  <2>2. Min(with) \in with
    BY <1>3, <2>1, Least
  <2> QED BY <1>1, <1>3, <2>2 DEF InGroup, with
<1> QED BY <1>2, <1>3

(* With groups that share no pane there is no choice.                      *)
LEMMA UnitOnly ==
  ASSUME NEW m, NEW n, NEW L, GroupsFit(m, n, L), NEW p
  PROVE  /\ \A g \in DOMAIN m : p \in MembersIn(m, g) => UnitBy(m, p) = GroupUnit(g)
         /\ (\A g \in DOMAIN m : p \notin MembersIn(m, g)) => UnitBy(m, p) = PaneUnit(p)
         /\ \A g : UnitBy(m, p) = GroupUnit(g) => g \in DOMAIN m /\ p \in MembersIn(m, g)
         /\ \A q : UnitBy(m, p) = PaneUnit(q) =>
              q = p /\ \A g \in DOMAIN m : p \notin MembersIn(m, g)
         /\ p \in Pane => UnitBy(m, p) \in AnyUnit
<1>1. DOMAIN m \subseteq Nat
  BY GroupTyped DEF GroupsFit
<1>2. InGroup(m, p, UnitBy(m, p)) \/ InNoGroup(m, p, UnitBy(m, p))
  BY <1>1, UnitIs
<1>3. \A g, h \in DOMAIN m : p \in MembersIn(m, g) /\ p \in MembersIn(m, h) => g = h
  BY DEF GroupsFit
<1>4. CASE InGroup(m, p, UnitBy(m, p))
  <2>1. PICK g \in DOMAIN m : p \in MembersIn(m, g) /\ UnitBy(m, p) = GroupUnit(g)
    BY <1>4 DEF InGroup
  <2> QED BY <1>1, <1>3, <2>1, UnitKinds
<1>5. CASE InNoGroup(m, p, UnitBy(m, p))
  BY <1>5, UnitKinds DEF InNoGroup
<1> QED BY <1>2, <1>4, <1>5

(* The panes of a unit.                                                    *)
IsUnitOf(s, L, u, ps) ==
  /\ ps \in Seq(Pane) /\ ps # <<>> /\ IsInjective(ps) /\ ToSet(ps) \subseteq L
  /\ \A q : q \in ToSet(ps) <=> (q \in L /\ UnitBy(s.groups, q) = u)
  /\ \/ \E p \in L : /\ u = PaneUnit(p) /\ ps = <<p>> /\ ToSet(ps) = {p} /\ Len(ps) = 1
                     /\ \A g \in DOMAIN s.groups : p \notin MembersIn(s.groups, g)
     \/ \E g \in DOMAIN s.groups : /\ u = GroupUnit(g) /\ ps = s.groups[g].members
                                   /\ Len(ps) >= 2

LEMMA PanesOfUnit ==
  ASSUME NEW s, NEW n, NEW L \in SUBSET Pane, GroupsFit(s.groups, n, L), NEW p \in L
  PROVE  IsUnitOf(s, L, UnitBy(s.groups, p), UnitPanes(s, UnitBy(s.groups, p)))
<1> DEFINE m  == s.groups
           u  == UnitBy(m, p)
           ps == UnitPanes(s, u)
<1> SUFFICES IsUnitOf(s, L, u, ps)
  OBVIOUS
<1>1. DOMAIN m \subseteq Nat
  BY GroupTyped DEF GroupsFit
<1>2. InGroup(m, p, u) \/ InNoGroup(m, p, u)
  BY <1>1, UnitIs
<1>3. CASE InGroup(m, p, u)
  <2>1. PICK g \in DOMAIN m : p \in MembersIn(m, g) /\ u = GroupUnit(g)
    BY <1>3 DEF InGroup
  <2>2. ps = m[g].members
    BY <2>1, UnitKinds DEF UnitPanes
  <2>3. /\ ps \in Seq(Pane) /\ ToSet(ps) = MembersIn(m, g) /\ IsInjective(ps)
        /\ Len(ps) >= 2 /\ MembersIn(m, g) \subseteq L
    BY <2>1, <2>2, GroupTyped DEF GroupsFit, MembersIn
  <2>4. ps # <<>>
    BY <2>1, <2>3, SetOfSeq
  <2> HIDE DEF ps, u, m
  <2>5. \A q : q \in ToSet(ps) <=> (q \in L /\ UnitBy(m, q) = GroupUnit(g))
    BY <2>1, <2>3, UnitOnly DEF m
  <2> QED BY <2>1, <2>2, <2>3, <2>4, <2>5 DEF IsUnitOf, m
<1>4. CASE InNoGroup(m, p, u)
  <2>1. u = PaneUnit(p) /\ \A g \in DOMAIN m : p \notin MembersIn(m, g)
    BY <1>4 DEF InNoGroup
  <2>2. ps = <<p>>
    BY <2>1, UnitKinds DEF UnitPanes
  <2>3. /\ ps \in Seq(Pane) /\ Len(ps) = 1 /\ DOMAIN ps = 1 .. 1 /\ ps[1] = p
        /\ ps # <<>>
    BY <2>2
  <2>4. ToSet(ps) = {p} /\ IsInjective(ps)
    BY <2>3 DEF ToSet, IsInjective
  <2> HIDE DEF ps, u, m
  <2>5. \A q : q \in ToSet(ps) <=> (q \in L /\ UnitBy(m, q) = PaneUnit(p))
    BY <2>1, <2>4, UnitOnly DEF u, m
  <2> QED BY <2>1, <2>2, <2>3, <2>4, <2>5 DEF IsUnitOf, m
<1> QED BY <1>2, <1>3, <1>4

(* Groups that are created, dropped and changed.                           *)
Adds(m, n, ps, last, m2) ==
  m2 = [g \in DOMAIN m \cup {n} |->
          IF g = n THEN [members |-> ps, last_active |-> last] ELSE m[g]]

Changes(m, g, ps, last, m2) ==
  m2 = [m EXCEPT ![g] = [members |-> ps, last_active |-> last]]

(* m2 has one more group, with the members ps.                             *)
IsAdded(m, n, ps, L, m2) ==
  /\ DOMAIN m2 = DOMAIN m \cup {n} /\ n \notin DOMAIN m
  /\ m2[n].members = ps /\ \A g \in DOMAIN m : m2[g] = m[g]
  /\ \A p \in ToSet(ps) : UnitBy(m2, p) = GroupUnit(n)
  /\ \A p \in L \ ToSet(ps) : UnitBy(m2, p) = UnitBy(m, p)

LEMMA GroupAdded ==
  ASSUME NEW m, NEW n \in Nat, NEW L \in SUBSET Pane, GroupsFit(m, n, L),
         NEW ps \in Seq(Pane), IsInjective(ps), Len(ps) >= 2, ToSet(ps) \subseteq L,
         NEW last \in ToSet(ps),
         \A g \in DOMAIN m : MembersIn(m, g) \cap ToSet(ps) = {},
         NEW m2, Adds(m, n, ps, last, m2)
  PROVE  GroupsFit(m2, n + 1, L) /\ IsAdded(m, n, ps, L, m2)
<1> DEFINE new == [members |-> ps, last_active |-> last]
<1>2. /\ DOMAIN m \subseteq Nat
      /\ \A g \in DOMAIN m : /\ m[g].members \in Seq(Pane) /\ m[g].last_active \in Pane
                             /\ m[g] = [members |-> m[g].members,
                                        last_active |-> m[g].last_active]
      /\ \A g \in DOMAIN m :
           /\ g < n /\ IsInjective(m[g].members) /\ Len(m[g].members) >= 2
           /\ MembersIn(m, g) \subseteq L
           /\ m[g].last_active \in MembersIn(m, g)
      /\ \A g, h \in DOMAIN m : g # h => MembersIn(m, g) \cap MembersIn(m, h) = {}
  BY GroupTyped DEF GroupsFit
<1>3. n \notin DOMAIN m
  BY <1>2
<1>4. m2 = [g \in DOMAIN m \cup {n} |-> IF g = n THEN new ELSE m[g]]
  BY DEF Adds
<1>5. /\ DOMAIN m2 = DOMAIN m \cup {n} /\ m2[n] = new
      /\ \A g \in DOMAIN m : m2[g] = m[g]
  BY <1>3, <1>4
<1>6. last \in Pane
  OBVIOUS
<1>7. m2 \in GroupMaps
  <2>1. new \in [members : Seq(Pane), last_active : Pane]
    BY <1>6
  <2>2. \A g \in DOMAIN m : m[g] \in [members : Seq(Pane), last_active : Pane]
    BY <1>2
  <2> HIDE DEF new
  <2>3. m2 \in [DOMAIN m \cup {n} -> [members : Seq(Pane), last_active : Pane]]
    BY <1>3, <1>4, <2>1, <2>2
  <2>4. DOMAIN m \cup {n} \in SUBSET Nat
    BY <1>2
  <2> QED BY <2>3, <2>4 DEF GroupMaps
<1>8. /\ MembersIn(m2, n) = ToSet(ps) /\ m2[n].members = ps /\ m2[n].last_active = last
      /\ \A g \in DOMAIN m : MembersIn(m2, g) = MembersIn(m, g)
  BY <1>5 DEF MembersIn
<1>9. GroupsFit(m2, n + 1, L)
  <2>1. ASSUME NEW g \in DOMAIN m2
        PROVE  /\ g < n + 1 /\ IsInjective(m2[g].members) /\ Len(m2[g].members) >= 2
               /\ MembersIn(m2, g) \subseteq L
               /\ m2[g].last_active \in MembersIn(m2, g)
    <3>1. CASE g = n
      BY <1>8, <3>1
    <3>2. CASE g \in DOMAIN m
      <4>1. g < n + 1
        BY <1>2, <3>2
      <4> QED BY <1>2, <1>5, <1>8, <3>2, <4>1
    <3> QED BY <1>5, <3>1, <3>2
  <2>2. \A g, h \in DOMAIN m2 : g # h => MembersIn(m2, g) \cap MembersIn(m2, h) = {}
    BY <1>2, <1>5, <1>8
  <2> QED BY <1>7, <2>1, <2>2 DEF GroupsFit
<1>10. \A p \in ToSet(ps) : UnitBy(m2, p) = GroupUnit(n)
  BY <1>5, <1>8, <1>9, UnitOnly
<1>11. ASSUME NEW p \in L \ ToSet(ps) PROVE UnitBy(m2, p) = UnitBy(m, p)
  <2>1. CASE \E g \in DOMAIN m : p \in MembersIn(m, g)
    <3>1. PICK g \in DOMAIN m : p \in MembersIn(m, g)
      BY <2>1
    <3>2. g \in DOMAIN m2 /\ p \in MembersIn(m2, g)
      BY <1>5, <1>8, <3>1
    <3>3. UnitBy(m2, p) = GroupUnit(g)
      BY <1>9, <3>2, UnitOnly
    <3> QED BY <3>1, <3>3, UnitOnly
  <2>2. CASE \A g \in DOMAIN m : p \notin MembersIn(m, g)
    <3>1. \A g \in DOMAIN m2 : p \notin MembersIn(m2, g)
      BY <1>5, <1>8, <1>11, <2>2
    <3>2. UnitBy(m2, p) = PaneUnit(p)
      BY <1>9, <3>1, UnitOnly
    <3> QED BY <2>2, <3>2, UnitOnly
  <2> QED BY <2>1, <2>2
<1> HIDE DEF new
<1> QED BY <1>3, <1>5, <1>8, <1>9, <1>10, <1>11 DEF IsAdded

Keeps(m, D, m2) == m2 = Restrict(m, D)

(* m2 has the groups D of m.                                               *)
AreKept(m, D, m2) ==
  /\ DOMAIN m2 = D
  /\ \A g \in D : m2[g] = m[g] /\ MembersIn(m2, g) = MembersIn(m, g)
  /\ \A p : (\E g \in D : p \in MembersIn(m, g)) => UnitBy(m2, p) = UnitBy(m, p)
  /\ \A p : (\A g \in D : p \notin MembersIn(m, g)) => UnitBy(m2, p) = PaneUnit(p)

LEMMA GroupsKept ==
  ASSUME NEW m, NEW n \in Nat, NEW L, NEW M \in SUBSET Pane, GroupsFit(m, n, L),
         NEW D \in SUBSET DOMAIN m, \A g \in D : MembersIn(m, g) \subseteq M,
         NEW m2, Keeps(m, D, m2)
  PROVE  GroupsFit(m2, n, M) /\ AreKept(m, D, m2)
<1>1. m2 = [g \in D |-> m[g]]
  BY DEF Restrict, Keeps
<1>2. DOMAIN m2 = D /\ \A g \in D : m2[g] = m[g] /\ MembersIn(m2, g) = MembersIn(m, g)
  BY <1>1 DEF MembersIn
<1>3. m2 \in GroupMaps
  <2>1. PICK E \in SUBSET Nat : m \in [E -> [members : Seq(Pane), last_active : Pane]]
    BY DEF GroupMaps, GroupsFit
  <2>2. D \in SUBSET Nat /\ D \subseteq E
    BY <2>1
  <2>3. m2 \in [D -> [members : Seq(Pane), last_active : Pane]]
    BY <1>1, <2>1, <2>2
  <2> QED BY <2>2, <2>3 DEF GroupMaps
<1>4. GroupsFit(m2, n, M)
  <2>1. \A g \in D :
           /\ g < n /\ IsInjective(m2[g].members) /\ Len(m2[g].members) >= 2
           /\ MembersIn(m2, g) \subseteq M
           /\ m2[g].last_active \in MembersIn(m2, g)
    BY <1>2 DEF GroupsFit
  <2>2. \A g, h \in D : g # h => MembersIn(m2, g) \cap MembersIn(m2, h) = {}
    BY <1>2 DEF GroupsFit
  <2> QED BY <1>2, <1>3, <2>1, <2>2 DEF GroupsFit
<1>5. \A p : \A g \in D : p \in MembersIn(m, g) =>
        UnitBy(m2, p) = GroupUnit(g) /\ UnitBy(m, p) = GroupUnit(g)
  BY <1>2, <1>4, UnitOnly
<1>6. \A p : (\A g \in D : p \notin MembersIn(m, g)) => UnitBy(m2, p) = PaneUnit(p)
  BY <1>2, <1>4, UnitOnly
<1> QED BY <1>2, <1>4, <1>5, <1>6 DEF AreKept

(* m2 has other members in the group g.                                    *)
IsChanged(m, g, ps, m2) ==
  /\ DOMAIN m2 = DOMAIN m /\ MembersIn(m2, g) = ToSet(ps)
  /\ \A h \in DOMAIN m : h # g => MembersIn(m2, h) = MembersIn(m, h)
  /\ \A p \in ToSet(ps) : UnitBy(m2, p) = GroupUnit(g)
  /\ \A p : p \notin ToSet(ps) /\ p \notin MembersIn(m, g) =>
       UnitBy(m2, p) = UnitBy(m, p)

(* The members ps can be g's: they are panes of M and in no other group.   *)
CanHave(m, g, ps, M) ==
  /\ ps \in Seq(Pane) /\ IsInjective(ps) /\ Len(ps) >= 2 /\ ToSet(ps) \subseteq M
  /\ \A h \in DOMAIN m : h # g => /\ MembersIn(m, h) \subseteq M
                                  /\ MembersIn(m, h) \cap ToSet(ps) = {}

LEMMA GroupChanged ==
  ASSUME NEW m, NEW n \in Nat, NEW L, NEW M \in SUBSET Pane, GroupsFit(m, n, L),
         NEW g \in DOMAIN m, NEW ps, CanHave(m, g, ps, M), NEW last \in ToSet(ps),
         NEW m2, Changes(m, g, ps, last, m2)
  PROVE  GroupsFit(m2, n, M) /\ IsChanged(m, g, ps, m2)
<1> DEFINE new == [members |-> ps, last_active |-> last]
<1> USE DEF CanHave
<1>1. /\ DOMAIN m2 = DOMAIN m /\ m2[g] = new
      /\ \A h \in DOMAIN m : h # g => m2[h] = m[h]
  <2> HIDE DEF new
  <2>1. m2 = [m EXCEPT ![g] = new]
    BY DEF new, Changes
  <2> QED BY <2>1
<1>2. m2 \in GroupMaps
  <2>1. PICK E \in SUBSET Nat : m \in [E -> [members : Seq(Pane), last_active : Pane]]
    BY DEF GroupMaps, GroupsFit
  <2>2. new \in [members : Seq(Pane), last_active : Pane]
    OBVIOUS
  <2> HIDE DEF new
  <2>3. m2 \in [E -> [members : Seq(Pane), last_active : Pane]]
    BY <2>1, <2>2 DEF new, Changes
  <2> QED BY <2>3 DEF GroupMaps
<1>3. /\ MembersIn(m2, g) = ToSet(ps) /\ m2[g].members = ps /\ m2[g].last_active = last
      /\ \A h \in DOMAIN m : h # g => MembersIn(m2, h) = MembersIn(m, h)
  BY <1>1 DEF MembersIn
<1> HIDE DEF new
<1>4. GroupsFit(m2, n, M)
  <2>1. ASSUME NEW h \in DOMAIN m
        PROVE  /\ h < n /\ IsInjective(m2[h].members) /\ Len(m2[h].members) >= 2
               /\ MembersIn(m2, h) \subseteq M
               /\ m2[h].last_active \in MembersIn(m2, h)
    <3>1. CASE h = g
      BY <1>3, <3>1 DEF GroupsFit
    <3>2. CASE h # g
      BY <1>1, <1>3, <3>2 DEF GroupsFit
    <3> QED BY <3>1, <3>2
  <2>2. \A h, k \in DOMAIN m : h # k => MembersIn(m2, h) \cap MembersIn(m2, k) = {}
    BY <1>3 DEF GroupsFit
  <2> QED BY <1>1, <1>2, <2>1, <2>2 DEF GroupsFit
<1>5. \A p \in ToSet(ps) : UnitBy(m2, p) = GroupUnit(g)
  BY <1>1, <1>3, <1>4, UnitOnly
<1>6. ASSUME NEW p, p \notin ToSet(ps), p \notin MembersIn(m, g)
      PROVE  UnitBy(m2, p) = UnitBy(m, p)
  <2>1. \A h \in DOMAIN m : p \in MembersIn(m2, h) <=> p \in MembersIn(m, h)
    BY <1>3, <1>6
  <2>2. CASE \E h \in DOMAIN m : p \in MembersIn(m, h)
    <3>1. PICK h \in DOMAIN m : p \in MembersIn(m, h)
      BY <2>2
    <3>2. UnitBy(m2, p) = GroupUnit(h)
      BY <1>1, <1>4, <2>1, <3>1, UnitOnly
    <3> QED BY <3>1, <3>2, UnitOnly
  <2>3. CASE \A h \in DOMAIN m : p \notin MembersIn(m, h)
    <3>1. UnitBy(m2, p) = PaneUnit(p)
      BY <1>1, <1>4, <2>1, <2>3, UnitOnly
    <3> QED BY <2>3, <3>1, UnitOnly
  <2> QED BY <2>2, <2>3
<1> QED BY <1>1, <1>3, <1>4, <1>5, <1>6 DEF IsChanged

-----------------------------------------------------------------------------
(* Stacks.                                                                 *)

StackTypes == [units : Seq(AnyUnit), active : Nat]

StacksShaped(K) ==
  /\ K \subseteq StackTypes
  /\ \A k \in K : IsInjective(k.units) /\ k.active < Len(k.units)
  /\ \A j, k \in K : j # k => ToSet(j.units) \cap ToSet(k.units) = {}

InStack(K, u) == \E k \in K : u \in ToSet(k.units)

(* A unit of a stack is the unit of some pane of L.                        *)
StacksNamed(K, m, L) == \A u : InStack(K, u) => \E p \in L : UnitBy(m, p) = u

LEMMA AsList ==
  ASSUME NEW S, NEW n \in Nat, NEW f \in [1 .. n -> S]
  PROVE  f \in Seq(S) /\ Len(f) = n
<1>1. f \in Seq(S)
  BY IsASeq
<1>2. Len(f) \in Nat /\ DOMAIN f = 1 .. Len(f)
  BY <1>1, LenProperties
<1>3. PICK a \in Nat : a = Len(f)
  BY <1>2
<1>4. 1 .. a = 1 .. n
  BY <1>2, <1>3
<1>5. a = n
  <2>1. a \in 1 .. a \/ a = 0
    OBVIOUS
  <2>2. n \in 1 .. n \/ n = 0
    OBVIOUS
  <2> QED BY <1>4, <2>1, <2>2
<1> QED BY <1>1, <1>3, <1>5

IsReplaced(S, s, u, v, r) ==
  /\ r \in Seq(S) /\ Len(r) = Len(s) /\ IsInjective(r)
  /\ ToSet(r) = IF u \in ToSet(s) THEN (ToSet(s) \ {u}) \cup {v} ELSE ToSet(s)

LEMMA Replaced ==
  ASSUME NEW S, NEW s \in Seq(S), IsInjective(s), NEW u, NEW v \in S, v \notin ToSet(s)
  PROVE  IsReplaced(S, s, u, v, ReplaceAll(s, u, v))
<1> DEFINE r == ReplaceAll(s, u, v)
<1> SUFFICES IsReplaced(S, s, u, v, r)
  OBVIOUS
<1>1. /\ Len(s) \in Nat /\ DOMAIN s = 1 .. Len(s)
      /\ \A i \in 1 .. Len(s) : s[i] \in S /\ s[i] # v
      /\ \A i, j \in 1 .. Len(s) : s[i] = s[j] => i = j
  BY LenProperties, ElementOfSeq DEF IsInjective, ToSet
<1>2. r = [i \in 1 .. Len(s) |-> IF s[i] = u THEN v ELSE s[i]]
  BY DEF ReplaceAll
<1> HIDE DEF r
<1>3. r \in [1 .. Len(s) -> S]
  BY <1>1, <1>2
<1>4. r \in Seq(S) /\ Len(r) = Len(s)
  BY <1>1, <1>3, AsList
<1>5. /\ DOMAIN r = 1 .. Len(s)
      /\ \A i \in 1 .. Len(s) : r[i] = IF s[i] = u THEN v ELSE s[i]
  BY <1>2
<1>6. IsInjective(r)
  BY <1>1, <1>5 DEF IsInjective
<1>7. ToSet(r) = {r[i] : i \in 1 .. Len(s)} /\ ToSet(s) = {s[i] : i \in 1 .. Len(s)}
  BY <1>1, <1>5 DEF ToSet
<1>8. CASE u \in ToSet(s)
  <2>1. PICK h \in 1 .. Len(s) : s[h] = u
    BY <1>7, <1>8
  <2>2. \A i \in 1 .. Len(s) : r[i] = IF i = h THEN v ELSE s[i]
    BY <1>1, <1>5, <2>1
  <2>3. \A x : x \in ToSet(r) <=> x = v \/ (x \in ToSet(s) /\ x # u)
    BY <1>1, <1>7, <2>1, <2>2
  <2> QED BY <1>4, <1>6, <1>8, <2>3 DEF IsReplaced
<1>9. CASE u \notin ToSet(s)
  <2>1. \A i \in 1 .. Len(s) : r[i] = s[i]
    BY <1>5, <1>7, <1>9
  <2>2. ToSet(r) = ToSet(s)
    BY <1>7, <2>1
  <2> QED BY <1>4, <1>6, <1>9, <2>2 DEF IsReplaced
<1> QED BY <1>8, <1>9

LEMMA Omitted ==
  ASSUME NEW S, NEW s \in Seq(S), IsInjective(s), NEW x \in ToSet(s),
         NEW r, r = Omit(s, x)
  PROVE  /\ r \in Seq(S) /\ IsInjective(r) /\ ToSet(r) = ToSet(s) \ {x}
         /\ Len(r) = Len(s) - 1 /\ Len(s) \in Nat
         /\ r = <<>> <=> Len(s) = 1
<1>1. PositionOf(s, x) \in 1 .. Len(s) /\ s[PositionOf(s, x)] = x
  BY Placed
<1>2. PICK k \in 1 .. Len(s) : k = PositionOf(s, x)
  BY <1>1
<1>3. r = RemoveAt(s, k)
  BY <1>2 DEF Omit
<1>4. /\ r \in Seq(S) /\ Len(r) = Len(s) - 1 /\ IsInjective(r)
      /\ ToSet(r) = ToSet(s) \ {s[k]}
  BY <1>3, TakenOut DEF IsTakenOut
<1>5. r = <<>> <=> Len(r) = 0
  BY <1>4, EmptySeq
<1>6. PICK a \in Nat : a = Len(s)
  BY LenProperties
<1>7. Len(r) = 0 <=> a = 1
  BY <1>4, <1>6
<1> QED BY <1>1, <1>2, <1>4, <1>5, <1>6, <1>7

Renames(K, u, v, K2) == K2 = {[k EXCEPT !.units = ReplaceAll(@, u, v)] : k \in K}

LEMMA StackRenamed ==
  ASSUME NEW K, StacksShaped(K), NEW u, NEW v \in AnyUnit, ~ InStack(K, v),
         NEW K2, Renames(K, u, v, K2)
  PROVE  /\ StacksShaped(K2)
         /\ \A x : InStack(K2, x) <=> \/ x # u /\ InStack(K, x)
                                      \/ x = v /\ InStack(K, u)
<1> DEFINE R(k) == [units |-> ReplaceAll(k.units, u, v), active |-> k.active]
           US(k) == IF u \in ToSet(k.units) THEN (ToSet(k.units) \ {u}) \cup {v}
                                            ELSE ToSet(k.units)
<1>1. \A k \in K : /\ k = [units |-> k.units, active |-> k.active]
                   /\ k.units \in Seq(AnyUnit) /\ k.active \in Nat
                   /\ IsInjective(k.units) /\ k.active < Len(k.units)
                   /\ v \notin ToSet(k.units)
  BY DEF StacksShaped, StackTypes, InStack
<1>2. \A k \in K : [k EXCEPT !.units = ReplaceAll(@, u, v)] = R(k)
  BY <1>1
<1>3. K2 = {R(k) : k \in K}
  BY <1>2 DEF Renames
<1>4. \A k \in K : /\ R(k).units = ReplaceAll(k.units, u, v) /\ R(k).active = k.active
                   /\ R(k).units \in Seq(AnyUnit) /\ Len(R(k).units) = Len(k.units)
                   /\ IsInjective(R(k).units) /\ ToSet(R(k).units) = US(k)
  <2>1. SUFFICES ASSUME NEW k \in K
                 PROVE  /\ R(k).units \in Seq(AnyUnit) /\ Len(R(k).units) = Len(k.units)
                        /\ IsInjective(R(k).units) /\ ToSet(R(k).units) = US(k)
    OBVIOUS
  <2>3. PICK s \in Seq(AnyUnit) : s = k.units /\ IsInjective(s) /\ v \notin ToSet(s)
    BY <1>1
  <2>2. PICK r : r = ReplaceAll(s, u, v) /\ r = ReplaceAll(k.units, u, v)
    BY <2>3
  <2>6. IsReplaced(AnyUnit, s, u, v, r)
    <3>1. IsReplaced(AnyUnit, s, u, v, ReplaceAll(s, u, v))
      BY <2>3, Replaced
    <3> QED BY <2>2, <3>1
  <2>4. /\ r \in Seq(AnyUnit) /\ Len(r) = Len(k.units) /\ IsInjective(r)
        /\ ToSet(r) = US(k)
    BY <2>3, <2>6 DEF IsReplaced
  <2>5. R(k).units = r
    BY <2>2
  <2> HIDE DEF R, US
  <2> QED BY <2>4, <2>5
<1>5. \A k \in K : R(k) \in StackTypes
  BY <1>1, <1>4 DEF StackTypes
<1> HIDE DEF R
<1>6. \A j, k \in K : j # k => ToSet(j.units) \cap ToSet(k.units) = {}
  BY DEF StacksShaped
<1>7. ASSUME NEW j \in K, NEW k \in K, j # k PROVE US(j) \cap US(k) = {}
  <2>1. /\ ToSet(j.units) \cap ToSet(k.units) = {}
        /\ v \notin ToSet(j.units) /\ v \notin ToSet(k.units)
    BY <1>1, <1>6, <1>7
  <2>2. PICK A, B : A = ToSet(j.units) /\ B = ToSet(k.units)
    OBVIOUS
  <2>3. /\ US(j) = IF u \in A THEN (A \ {u}) \cup {v} ELSE A
        /\ US(k) = IF u \in B THEN (B \ {u}) \cup {v} ELSE B
    BY <2>2
  <2> HIDE DEF US
  <2> QED BY <2>1, <2>2, <2>3
<1>8. StacksShaped(K2)
  <2>1. K2 \subseteq StackTypes
    BY <1>3, <1>5
  <2>2. \A k \in K2 : IsInjective(k.units) /\ k.active < Len(k.units)
    BY <1>1, <1>3, <1>4
  <2>3. \A j, k \in K2 : j # k => ToSet(j.units) \cap ToSet(k.units) = {}
    <3> HIDE DEF US
    <3> QED BY <1>3, <1>4, <1>7
  <2> QED BY <2>1, <2>2, <2>3 DEF StacksShaped
<1>9. \A x : InStack(K2, x) <=> \E k \in K : x \in US(k)
  <2> HIDE DEF US
  <2> QED BY <1>3, <1>4 DEF InStack
<1>10. \A x : InStack(K2, x) <=> \/ x # u /\ InStack(K, x)
                                 \/ x = v /\ InStack(K, u)
  <2>1. u # v \/ ~ InStack(K, u)
    OBVIOUS
  <2> QED BY <1>9, <2>1 DEF InStack
<1> QED BY <1>8, <1>10

LEMMA FewerStacks ==
  ASSUME NEW K, StacksShaped(K), NEW K0 \in SUBSET K
  PROVE  StacksShaped(K0) /\ \A x : InStack(K0, x) => InStack(K, x)
BY DEF StacksShaped, InStack

LEMMA StackPut ==
  ASSUME NEW K, StacksShaped(K), NEW j \in StackTypes, IsInjective(j.units),
         j.active < Len(j.units), \A u \in ToSet(j.units) : ~ InStack(K, u)
  PROVE  /\ StacksShaped(K \cup {j})
         /\ \A x : InStack(K \cup {j}, x) <=> InStack(K, x) \/ x \in ToSet(j.units)
<1>1. \A k \in K : ToSet(k.units) \cap ToSet(j.units) = {}
  BY DEF InStack
<1>2. StacksShaped(K \cup {j})
  BY <1>1 DEF StacksShaped
<1> QED BY <1>2 DEF InStack

(* The stack a unit is in.                                                 *)
LEMMA ItsStack ==
  ASSUME NEW s, StacksShaped(s.stacks), NEW u, Stacked(s, u)
  PROVE  LET k == StackOf(s, u)
         IN  /\ k \in s.stacks /\ u \in ToSet(k.units) /\ k \in StackTypes
             /\ k.units \in Seq(AnyUnit) /\ k.active \in Nat
             /\ IsInjective(k.units) /\ k.active < Len(k.units)
             /\ k = [units |-> k.units, active |-> k.active]
             /\ PositionOf(k.units, u) \in 1 .. Len(k.units)
             /\ \A j \in s.stacks \ {k} : ToSet(j.units) \cap ToSet(k.units) = {}
<1>1. \E k \in s.stacks : u \in ToSet(k.units)
  BY DEF Stacked
<1>2. StackOf(s, u) \in s.stacks /\ u \in ToSet(StackOf(s, u).units)
  BY <1>1 DEF StackOf
<1>3. PICK k \in s.stacks : k = StackOf(s, u) /\ u \in ToSet(k.units)
  BY <1>2
<1>4. /\ k \in StackTypes /\ IsInjective(k.units) /\ k.active < Len(k.units)
      /\ \A j \in s.stacks \ {k} : ToSet(j.units) \cap ToSet(k.units) = {}
  BY DEF StacksShaped
<1>5. /\ k.units \in Seq(AnyUnit) /\ k.active \in Nat
      /\ k = [units |-> k.units, active |-> k.active]
  BY <1>4 DEF StackTypes
<1>6. PICK l \in Seq(AnyUnit) : l = k.units
  BY <1>5
<1>7. PositionOf(l, u) \in 1 .. Len(l)
  BY <1>3, <1>6, Placed
<1> QED BY <1>3, <1>4, <1>5, <1>6, <1>7

LEMMA StackedIn ==
  ASSUME NEW s, NEW u
  PROVE  Stacked(s, u) <=> InStack(s.stacks, u)
BY DEF Stacked, InStack

(* What remains on the stacks when a unit has left.                        *)
LEMMA Vanished ==
  ASSUME NEW s, StacksShaped(s.stacks), NEW u, s = [s EXCEPT !.stacks = s.stacks]
  PROVE  \E K : /\ Vanish(s, u).tab = [s EXCEPT !.stacks = K]
                /\ StacksShaped(K)
                /\ \A x : InStack(K, x) => x # u /\ InStack(s.stacks, x)
<1>1. CASE ~ Stacked(s, u)
  <2>1. Vanish(s, u).tab = [s EXCEPT !.stacks = s.stacks]
    BY <1>1 DEF Vanish
  <2>2. \A x : InStack(s.stacks, x) => x # u
    BY <1>1, StackedIn
  <2> QED BY <2>1, <2>2
<1>2. CASE Stacked(s, u)
  <2> DEFINE k0     == StackOf(s, u)
             pos    == PositionOf(k0.units, u) - 1
             left   == Omit(k0.units, u)
             shows  == pos = k0.active /\ left # <<>>
             toshow == IF shows THEN Min({pos, Len(left) - 1})
                       ELSE IF pos < k0.active THEN k0.active - 1 ELSE k0.active
             kept   == IF Len(left) < 2 THEN {} ELSE {[units |-> left, active |-> toshow]}
             K      == (s.stacks \ {k0}) \cup kept
  <2>1. Vanish(s, u).tab = [s EXCEPT !.stacks = K]
    BY <1>2 DEF Vanish
  <2>2. PICK k : /\ k = k0 /\ k \in s.stacks /\ u \in ToSet(k.units)
                 /\ k.units \in Seq(AnyUnit) /\ k.active \in Nat
                 /\ IsInjective(k.units) /\ k.active < Len(k.units)
                 /\ PositionOf(k.units, u) \in 1 .. Len(k.units)
                 /\ \A j \in s.stacks \ {k} : ToSet(j.units) \cap ToSet(k.units) = {}
    BY <1>2, ItsStack
  <2>3. PICK l \in Seq(AnyUnit), n \in Nat :
          /\ l = k.units /\ n = Len(l) /\ IsInjective(l) /\ u \in ToSet(l)
          /\ k.active < n /\ pos \in Nat /\ pos < n /\ left = Omit(l, u)
    BY <2>2, LenProperties
  <2>4. /\ left \in Seq(AnyUnit) /\ IsInjective(left) /\ ToSet(left) = ToSet(l) \ {u}
        /\ Len(left) = n - 1
    BY <2>3, Omitted
  <2> HIDE DEF left, pos
  <2>5. ASSUME ~ (Len(left) < 2) PROVE toshow \in Nat /\ toshow < Len(left)
    <3>1. PICK b \in Nat, a \in Nat, q \in Nat :
            b = Len(left) /\ a = k.active /\ q = pos
      BY <2>2, <2>3, <2>4, <2>5
    <3>2. b >= 2 /\ n = b + 1 /\ a < n /\ q < n
      BY <2>3, <2>4, <2>5, <3>1
    <3>3. CASE shows
      <4>1. {q, b - 1} \in SUBSET Nat /\ {q, b - 1} # {}
        BY <3>2
      <4>2. Min({q, b - 1}) \in {q, b - 1} /\ \A i \in {q, b - 1} : Min({q, b - 1}) <= i
        BY <4>1, Least
      <4>3. toshow = Min({q, b - 1})
        BY <3>1, <3>3
      <4> HIDE DEF toshow
      <4> QED BY <3>1, <3>2, <4>2, <4>3
    <3>4. CASE ~ shows
      <4>1. q # a
        BY <2>2, <2>4, <3>1, <3>2, <3>4, EmptySeq
      <4>2. toshow = IF q < a THEN a - 1 ELSE a
        BY <2>2, <3>1, <3>4
      <4> HIDE DEF toshow
      <4> QED BY <3>1, <3>2, <4>1, <4>2
    <3> QED BY <3>3, <3>4
  <2>6. /\ StacksShaped(s.stacks \ {k})
        /\ \A x : InStack(s.stacks \ {k}, x) => InStack(s.stacks, x) /\ x # u
    <3>1. \A x : InStack(s.stacks \ {k}, x) => x # u
      BY <2>2 DEF InStack
    <3> QED BY <3>1, FewerStacks
  <2>7. CASE Len(left) < 2
    <3>1. K = s.stacks \ {k}
      BY <2>2, <2>7
    <3> HIDE DEF K
    <3> QED BY <2>1, <2>6, <3>1
  <2>8. CASE ~ (Len(left) < 2)
    <3> DEFINE j == [units |-> left, active |-> toshow]
    <3>1. K = (s.stacks \ {k}) \cup {j}
      BY <2>2, <2>8
    <3>2. j.units = left /\ j.active = toshow
      OBVIOUS
    <3>3. j \in StackTypes
      BY <2>4, <2>5, <2>8 DEF StackTypes
    <3> HIDE DEF j, K, toshow
    <3>4. \A x \in ToSet(j.units) : ~ InStack(s.stacks \ {k}, x)
      BY <2>2, <2>3, <2>4, <3>2 DEF InStack
    <3>5. IsInjective(j.units) /\ j.active < Len(j.units)
      BY <2>4, <2>5, <2>8, <3>2
    <3>6. /\ StacksShaped(K)
          /\ \A x : InStack(K, x) <=> InStack(s.stacks \ {k}, x) \/ x \in ToSet(j.units)
      BY <2>6, <3>1, <3>3, <3>4, <3>5, StackPut
    <3>7. \A x \in ToSet(j.units) : InStack(s.stacks, x) /\ x # u
      BY <2>2, <2>3, <2>4, <3>2 DEF InStack
    <3> QED BY <2>1, <2>6, <3>6, <3>7
  <2> QED BY <2>7, <2>8
<1> QED BY <1>1, <1>2

-----------------------------------------------------------------------------
(* Tabs.                                                                   *)

TabStates == [tree : PaneTrees, active : Nat, zoomed : Pane \cup {None},
              hidden : SUBSET Pane, groups : GroupMaps, stacks : SUBSET StackTypes,
              next_id : Nat]

(* The groups, the stacks and the hidden panes of s are made of panes of L.*)
UnitsFit(s, L) ==
  /\ L \in SUBSET Pane /\ s.hidden \subseteq L
  /\ GroupsFit(s.groups, s.next_id, L)
  /\ StacksShaped(s.stacks) /\ StacksNamed(s.stacks, s.groups, L)

(* L are the panes of the tree, except while panes are taken out.          *)
Fits(s, L) ==
  /\ s \in TabStates /\ IsTree(s.tree)
  /\ s.zoomed \in Leaves(s.tree) \cup {None}
  /\ UnitsFit(s, L)

(* The members of a group are the panes of one subtree.                    *)
InPlace(s) == \A g \in DOMAIN s.groups : MembersIn(s.groups, g) \in s.tree.sets

(* Steps that focus and show but leave the units as they are.              *)
SameUnits(s, n) ==
  /\ n.next_id = s.next_id
  /\ DOMAIN n.groups = DOMAIN s.groups
  /\ \A g \in DOMAIN s.groups : n.groups[g].members = s.groups[g].members
  /\ \A x : InStack(n.stacks, x) <=> InStack(s.stacks, x)

LEMMA SameUnitBy ==
  ASSUME NEW s, NEW n, SameUnits(s, n)
  PROVE  /\ \A p : UnitBy(n.groups, p) = UnitBy(s.groups, p)
         /\ \A u : UnitPanes(n, u) = UnitPanes(s, u)
         /\ \A g \in DOMAIN s.groups : MembersIn(n.groups, g) = MembersIn(s.groups, g)
<1>1. \A g \in DOMAIN s.groups : MembersIn(n.groups, g) = MembersIn(s.groups, g)
  BY DEF SameUnits, MembersIn
<1>2. DOMAIN n.groups = DOMAIN s.groups
  BY DEF SameUnits
<1>3. ASSUME NEW p PROVE UnitBy(n.groups, p) = UnitBy(s.groups, p)
  <2>1. {g \in DOMAIN n.groups : p \in MembersIn(n.groups, g)}
          = {g \in DOMAIN s.groups : p \in MembersIn(s.groups, g)}
    BY <1>1, <1>2
  <2> QED BY <2>1 DEF UnitBy
<1>4. \A u : UnitPanes(n, u) = UnitPanes(s, u)
  BY <1>2 DEF UnitPanes, SameUnits
<1> QED BY <1>1, <1>3, <1>4

LEMMA SamePlace ==
  ASSUME NEW s, NEW n, SameUnits(s, n), n.tree = s.tree, InPlace(s)
  PROVE  InPlace(n)
BY SameUnitBy DEF InPlace, SameUnits

LEMMA SameSame ==
  ASSUME NEW s
  PROVE  SameUnits(s, s)
BY DEF SameUnits

LEMMA SameThrough ==
  ASSUME NEW s, NEW r, NEW n, SameUnits(s, r), SameUnits(r, n)
  PROVE  SameUnits(s, n)
BY DEF SameUnits

(* Such a step keeps the units fit when it keeps groups and stacks so.     *)
LEMMA StillFit ==
  ASSUME NEW s, NEW n, NEW L, UnitsFit(s, L), SameUnits(s, n), n.hidden \subseteq L,
         GroupsFit(n.groups, s.next_id, L), StacksShaped(n.stacks)
  PROVE  UnitsFit(n, L)
<1>1. n.next_id = s.next_id /\ \A x : InStack(n.stacks, x) <=> InStack(s.stacks, x)
  BY DEF SameUnits
<1>2. StacksNamed(n.stacks, n.groups, L)
  BY <1>1, SameUnitBy DEF StacksNamed, UnitsFit
<1> QED BY <1>1, <1>2 DEF UnitsFit

(* note_active *)
LEMMA Noted ==
  ASSUME NEW s, NEW L, Fits(s, L), NEW p, NEW n, n = NoteActive(s, p)
  PROVE  /\ Fits(n, L) /\ SameUnits(s, n)
         /\ n.tree = s.tree /\ n.active = s.active /\ n.zoomed = s.zoomed
         /\ n.hidden = s.hidden /\ n.stacks = s.stacks
<1> DEFINE m == s.groups
           u == UnitBy(m, p)
<1>1. /\ s \in TabStates /\ IsTree(s.tree) /\ s.zoomed \in Leaves(s.tree) \cup {None}
      /\ UnitsFit(s, L) /\ GroupsFit(m, s.next_id, L) /\ L \in SUBSET Pane
      /\ s.hidden \subseteq L /\ StacksShaped(s.stacks) /\ s.next_id \in Nat
  BY DEF Fits, UnitsFit, TabStates
<1>2. n = IF u.kind = "group" THEN [s EXCEPT !.groups[u.id].last_active = p] ELSE s
  BY UnitByGroups DEF NoteActive
<1>3. InGroup(m, p, u) \/ InNoGroup(m, p, u)
  BY <1>1, UnitIs, GroupTyped DEF GroupsFit
<1>4. CASE InNoGroup(m, p, u)
  <2>1. n = s
    BY <1>2, <1>4, UnitKinds DEF InNoGroup
  <2> QED BY <2>1, SameSame
<1>5. CASE InGroup(m, p, u)
  <2>1. PICK g \in DOMAIN m : p \in MembersIn(m, g) /\ u = GroupUnit(g)
    BY <1>5 DEF InGroup
  <2> DEFINE ps == m[g].members
             m2 == [m EXCEPT ![g] = [members |-> ps, last_active |-> p]]
  <2>2. /\ m[g] = [members |-> ps, last_active |-> m[g].last_active]
        /\ ps \in Seq(Pane) /\ IsInjective(ps) /\ Len(ps) >= 2
        /\ ToSet(ps) \subseteq L /\ p \in ToSet(ps)
        /\ \A h \in DOMAIN m : h # g => /\ MembersIn(m, h) \subseteq L
                                        /\ MembersIn(m, h) \cap ToSet(ps) = {}
    BY <1>1, <2>1, GroupTyped DEF GroupsFit, MembersIn
  <2>3. n = [s EXCEPT !.groups = m2]
    <3>1. u.kind = "group" /\ u.id = g
      BY <2>1, UnitKinds
    <3>2. n = [s EXCEPT !.groups = [m EXCEPT ![g].last_active = p]]
      BY <1>1, <1>2, <3>1 DEF TabStates
    <3>3. [m EXCEPT ![g].last_active = p] = m2
      BY <2>1, <2>2
    <3> HIDE DEF m2
    <3> QED BY <3>2, <3>3
  <2>4. DOMAIN m2 = DOMAIN m /\ \A h \in DOMAIN m : m2[h].members = m[h].members
    BY <2>1
  <2>5. Changes(m, g, ps, p, m2)
    BY DEF Changes
  <2>6. CanHave(m, g, ps, L) /\ p \in ToSet(ps)
    BY <2>2 DEF CanHave
  <2> HIDE DEF ps, m2
  <2>7. GroupsFit(m2, s.next_id, L)
    BY <1>1, <2>1, <2>5, <2>6, GroupChanged
  <2>8. /\ n \in TabStates /\ n.groups = m2 /\ n.next_id = s.next_id
        /\ n.tree = s.tree /\ n.active = s.active /\ n.zoomed = s.zoomed
        /\ n.hidden = s.hidden /\ n.stacks = s.stacks
    <3>1. m2 \in GroupMaps
      BY <2>7 DEF GroupsFit
    <3> QED BY <1>1, <2>3, <3>1 DEF TabStates
  <2>9. SameUnits(s, n)
    BY <2>4, <2>8 DEF SameUnits
  <2>10. UnitsFit(n, L)
    BY <1>1, <2>7, <2>8, <2>9, StillFit
  <2> QED BY <1>1, <2>8, <2>9, <2>10 DEF Fits
<1> QED BY <1>3, <1>4, <1>5

(* A unit of a stack has panes, which are the tab's.                       *)
LEMMA StackedUnit ==
  ASSUME NEW s, NEW L, UnitsFit(s, L), NEW u, InStack(s.stacks, u)
  PROVE  IsUnitOf(s, L, u, UnitPanes(s, u))
<1>1. PICK p \in L : UnitBy(s.groups, p) = u
  BY DEF UnitsFit, StacksNamed
<1> QED BY <1>1, PanesOfUnit DEF UnitsFit

(* Another unit of a stack is on show: the stacks K become K2.             *)
LEMMA StackTurned ==
  ASSUME NEW K, StacksShaped(K), NEW k \in K, NEW to \in Nat, to < Len(k.units)
  PROVE  LET K2 == (K \ {k}) \cup {[k EXCEPT !.active = to]}
         IN  StacksShaped(K2) /\ \A x : InStack(K2, x) <=> InStack(K, x)
<1> DEFINE j  == [k EXCEPT !.active = to]
           K2 == (K \ {k}) \cup {j}
<1>1. /\ k \in StackTypes /\ IsInjective(k.units)
      /\ \A i \in K \ {k} : ToSet(i.units) \cap ToSet(k.units) = {}
  BY DEF StacksShaped
<1>2. j \in StackTypes /\ j.units = k.units /\ j.active = to
  BY <1>1 DEF StackTypes
<1> HIDE DEF j
<1>3. StacksShaped(K \ {k})
  BY FewerStacks
<1>4. \A u \in ToSet(j.units) : ~ InStack(K \ {k}, u)
  BY <1>1, <1>2 DEF InStack
<1>5. /\ StacksShaped(K2)
      /\ \A x : InStack(K2, x) <=> InStack(K \ {k}, x) \/ x \in ToSet(j.units)
  BY <1>1, <1>2, <1>3, <1>4, StackPut
<1>6. \A x : InStack(K, x) <=> InStack(K \ {k}, x) \/ x \in ToSet(k.units)
  BY DEF InStack
<1> HIDE DEF K2
<1>7. \A x : InStack(K2, x) <=> InStack(K, x)
  BY <1>2, <1>5, <1>6
<1> QED BY <1>5, <1>7 DEF K2, j

(* show_stack_unit *)
Shows(s, L, n) ==
  /\ Fits(n, L) /\ SameUnits(s, n)
  /\ n.tree = s.tree /\ n.active = s.active /\ n.zoomed = s.zoomed
  /\ n.groups = s.groups

LEMMA StackShown ==
  ASSUME NEW s, NEW L, Fits(s, L), NEW u
  PROVE  Shows(s, L, ShowStackUnit(s, u))
<1> DEFINE n == ShowStackUnit(s, u)
           k0 == StackOf(s, u)
           to == PositionOf(k0.units, u) - 1
<1> SUFFICES Shows(s, L, n)
  OBVIOUS
<1>1. /\ s \in TabStates /\ IsTree(s.tree) /\ s.zoomed \in Leaves(s.tree) \cup {None}
      /\ UnitsFit(s, L) /\ GroupsFit(s.groups, s.next_id, L) /\ L \in SUBSET Pane
      /\ s.hidden \subseteq L /\ StacksShaped(s.stacks)
  BY DEF Fits, UnitsFit
<1>2. CASE ~ Stacked(s, u) \/ to = k0.active
  <2>1. n = s
    BY <1>2 DEF ShowStackUnit
  <2> QED BY <2>1, SameSame DEF Shows
<1>3. CASE Stacked(s, u) /\ to # k0.active
  <2> DEFINE H == (s.hidden \ ToSet(UnitPanes(s, u))) \cup ToSet(UnitPanes(s, ShownUnit(k0)))
             K2 == (s.stacks \ {k0}) \cup {[k0 EXCEPT !.active = to]}
  <2>1. n = [s EXCEPT !.hidden = H, !.stacks = K2]
    <3> DEFINE a == SetUnitHidden(s, u, FALSE)
               b == SetUnitHidden(a, ShownUnit(k0), TRUE)
    <3>1. n = [b EXCEPT !.stacks = (@ \ {k0}) \cup {[k0 EXCEPT !.active = to]}]
      BY <1>3 DEF ShowStackUnit
    <3>2. a = [s EXCEPT !.hidden = s.hidden \ ToSet(UnitPanes(s, u))]
      BY <1>1 DEF SetUnitHidden, TabStates
    <3>3. a.groups = s.groups /\ a.hidden = s.hidden \ ToSet(UnitPanes(s, u))
          /\ a.stacks = s.stacks
      BY <1>1, <3>2 DEF TabStates
    <3>4. UnitPanes(a, ShownUnit(k0)) = UnitPanes(s, ShownUnit(k0))
      BY <3>3 DEF UnitPanes
    <3>5. b = [a EXCEPT !.hidden = a.hidden \cup ToSet(UnitPanes(s, ShownUnit(k0)))]
      BY <1>1, <3>2, <3>4 DEF SetUnitHidden, TabStates
    <3>6. b = [s EXCEPT !.hidden = H]
      BY <1>1, <3>2, <3>3, <3>5 DEF TabStates
    <3> HIDE DEF b, H
    <3>7. b.stacks = s.stacks
      BY <1>1, <3>6 DEF TabStates
    <3>8. n = [b EXCEPT !.stacks = K2]
      BY <1>1, <3>1, <3>6, <3>7 DEF TabStates
    <3> HIDE DEF K2
    <3> QED BY <1>1, <3>6, <3>8 DEF TabStates
  <2>2. PICK k : /\ k = k0 /\ k \in s.stacks /\ k.units \in Seq(AnyUnit)
                 /\ k.active \in Nat /\ k.active < Len(k.units)
                 /\ PositionOf(k.units, u) \in 1 .. Len(k.units)
    BY <1>1, <1>3, ItsStack
  <2>3. to \in Nat /\ to < Len(k.units)
    BY <2>2, LenProperties
  <2>4. StacksShaped(K2) /\ \A x : InStack(K2, x) <=> InStack(s.stacks, x)
    <3> HIDE DEF to, k0
    <3> QED BY <1>1, <2>2, <2>3, StackTurned
  <2>5. H \subseteq L
    <3>1. PICK l \in Seq(AnyUnit) : l = k.units
      BY <2>2
    <3>2. ShownUnit(k0) = l[k.active + 1] /\ k.active + 1 \in 1 .. Len(l)
      BY <2>2, <3>1, LenProperties DEF ShownUnit
    <3>3. ShownUnit(k0) \in ToSet(k.units)
      BY <3>1, <3>2, SetOfSeq
    <3>4. InStack(s.stacks, ShownUnit(k0))
      BY <2>2, <3>3 DEF InStack
    <3>5. ToSet(UnitPanes(s, ShownUnit(k0))) \subseteq L
      BY <1>1, <3>4, StackedUnit DEF IsUnitOf
    <3> QED BY <1>1, <3>5
  <2> HIDE DEF H, K2, n
  <2>6. /\ n \in TabStates /\ n.groups = s.groups /\ n.next_id = s.next_id
        /\ n.tree = s.tree /\ n.active = s.active /\ n.zoomed = s.zoomed
        /\ n.hidden = H /\ n.stacks = K2
    <3>1. K2 \subseteq StackTypes /\ H \subseteq Pane
      BY <1>1, <2>4, <2>5 DEF StacksShaped
    <3> QED BY <1>1, <2>1, <3>1 DEF TabStates
  <2>7. SameUnits(s, n)
    BY <2>4, <2>6 DEF SameUnits
  <2>8. UnitsFit(n, L)
    BY <1>1, <2>4, <2>5, <2>6, <2>7, StillFit
  <2> QED BY <1>1, <2>6, <2>7, <2>8 DEF Fits, Shows
<1> QED BY <1>2, <1>3

LEMMA PaneRevealed ==
  ASSUME NEW s, NEW L, Fits(s, L), NEW p
  PROVE  Shows(s, L, RevealStackedPane(s, p))
<1>1. Shows(s, L, s)
  BY SameSame DEF Shows
<1> QED BY <1>1, StackShown DEF RevealStackedPane

-----------------------------------------------------------------------------
(* Focus.                                                                  *)

(* The active index is that of a pane, as long as there is one.            *)
InRange(s) == s.tree.order # <<>> => s.active < Len(s.tree.order)

LEMMA TreePlaces ==
  ASSUME NEW t \in PaneTrees, IsTree(t)
  PROVE  /\ t.order \in Seq(Pane) /\ IsInjective(t.order) /\ ToSet(t.order) = Leaves(t)
         /\ Len(t.order) \in Nat /\ Leaves(t) \in SUBSET Pane
         /\ \A i \in 1 .. Len(t.order) : t.order[i] \in Leaves(t)
         /\ \A p \in Leaves(t) : /\ PositionOf(t.order, p) \in 1 .. Len(t.order)
                                 /\ t.order[PositionOf(t.order, p)] = p
                                 /\ PositionOf(t.order, p) - 1 \in Nat
                                 /\ PositionOf(t.order, p) - 1 < Len(t.order)
         /\ t.order = <<>> <=> Len(t.order) = 0
         /\ t.order = <<>> <=> Leaves(t) = {}
         /\ None \notin Leaves(t)
<1>1. /\ t.order \in Seq(Pane) /\ IsInjective(t.order) /\ ToSet(t.order) = Leaves(t)
      /\ Len(t.order) \in Nat /\ Leaves(t) \in SUBSET Pane
      /\ DOMAIN t.order = 1 .. Len(t.order)
  BY TreeFacts DEF PaneTrees, IsTree
<1>2. \A i \in 1 .. Len(t.order) : t.order[i] \in Leaves(t)
  BY <1>1 DEF ToSet
<1>3. \A p \in Leaves(t) : /\ PositionOf(t.order, p) \in 1 .. Len(t.order)
                           /\ t.order[PositionOf(t.order, p)] = p
  BY <1>1, Placed
<1>4. \A p \in Leaves(t) : /\ PositionOf(t.order, p) - 1 \in Nat
                           /\ PositionOf(t.order, p) - 1 < Len(t.order)
  BY <1>1, <1>3
<1>5. t.order = <<>> <=> Len(t.order) = 0
  BY <1>1, EmptySeq
<1>6. t.order = <<>> <=> Leaves(t) = {}
  BY <1>1, SetOfSeq
<1>7. None \notin Leaves(t)
  BY <1>1, TabAssumption
<1> QED BY <1>1, <1>2, <1>3, <1>4, <1>5, <1>6, <1>7

LEMMA ActiveTyped ==
  ASSUME NEW s, NEW L, Fits(s, L)
  PROVE  /\ ActivePane(s) \in Leaves(s.tree) \cup {None}
         /\ ActivePane(s) # None => ActivePane(s) \in Leaves(s.tree)
         /\ s.zoomed = None /\ ActivePane(s) # None =>
              /\ s.active < Len(s.tree.order)
              /\ s.tree.order[s.active + 1] = ActivePane(s)
         /\ s.zoomed = None /\ s.active < Len(s.tree.order) =>
              ActivePane(s) = s.tree.order[s.active + 1] /\ ActivePane(s) # None
         /\ s.zoomed # None => ActivePane(s) = s.zoomed
<1>1. /\ s.tree \in PaneTrees /\ IsTree(s.tree) /\ s.active \in Nat
      /\ s.zoomed \in Leaves(s.tree) \cup {None}
  BY DEF Fits, TabStates
<1>2. /\ Len(s.tree.order) \in Nat /\ None \notin Leaves(s.tree)
      /\ \A i \in 1 .. Len(s.tree.order) : s.tree.order[i] \in Leaves(s.tree)
  BY <1>1, TreePlaces
<1>3. s.active < Len(s.tree.order) => s.tree.order[s.active + 1] \in Leaves(s.tree)
  BY <1>1, <1>2
<1> QED BY <1>1, <1>2, <1>3 DEF ActivePane

(* s with another pane active, out of zoom or not.                         *)
Activate(s, i, z, n) == n = [s EXCEPT !.active = i, !.zoomed = z]

Activates(s, L, i, z, n) ==
  /\ Fits(n, L) /\ SameUnits(s, n) /\ n.tree = s.tree
  /\ n.active = i /\ n.zoomed = z /\ n.hidden = s.hidden
  /\ n.groups = s.groups /\ n.stacks = s.stacks /\ n.next_id = s.next_id

LEMMA Activated ==
  ASSUME NEW s, NEW L, Fits(s, L), NEW i \in Nat, NEW z \in Leaves(s.tree) \cup {None},
         NEW n, Activate(s, i, z, n)
  PROVE  Activates(s, L, i, z, n)
<1>1. s \in TabStates /\ IsTree(s.tree) /\ UnitsFit(s, L)
  BY DEF Fits
<1>2. z \in Pane \cup {None}
  BY <1>1, TreePlaces DEF TabStates
<1>3. /\ n \in TabStates /\ n.tree = s.tree /\ n.active = i /\ n.zoomed = z
      /\ n.hidden = s.hidden /\ n.groups = s.groups /\ n.stacks = s.stacks
      /\ n.next_id = s.next_id
  BY <1>1, <1>2 DEF TabStates, Activate
<1>4. SameUnits(s, n)
  BY <1>3 DEF SameUnits
<1>5. UnitsFit(n, L)
  BY <1>1, <1>3 DEF UnitsFit
<1> QED BY <1>1, <1>3, <1>4, <1>5 DEF Fits, Activates

LEMMA Unzooms ==
  ASSUME NEW s, NEW L, Fits(s, L)
  PROVE  Activates(s, L, s.active, None, Unzoomed(s))
<1>1. s.active \in Nat /\ s \in TabStates
  BY DEF Fits, TabStates
<1>2. Activate(s, s.active, None, Unzoomed(s))
  BY <1>1 DEF Unzoomed, TabStates, Activate
<1>3. None \in Leaves(s.tree) \cup {None}
  OBVIOUS
<1> QED BY <1>1, <1>2, <1>3, Activated

(* set_active_pane: p is the active pane, or the zoom keeps it from it.    *)
Focuses(s, L, p, n) ==
  /\ Fits(n, L) /\ SameUnits(s, n) /\ n.tree = s.tree
  /\ n.zoomed = s.zoomed \/ n.zoomed = None
  /\ InRange(s) => InRange(n)
  /\ p \in Leaves(s.tree) /\ s.zoomed = None => InRange(n)

LEMMA PaneFocused ==
  ASSUME NEW s, NEW L, Fits(s, L), NEW p
  PROVE  Focuses(s, L, p, FocusPane(s, p))
<1> DEFINE n == FocusPane(s, p)
<1> SUFFICES Focuses(s, L, p, n)
  OBVIOUS
<1>1. s \in TabStates /\ IsTree(s.tree) /\ s.active \in Nat /\ s.tree \in PaneTrees
  BY DEF Fits, TabStates
<1>2. CASE n = s
  <2>1. ASSUME p \in Leaves(s.tree), s.zoomed = None PROVE InRange(s)
    <3>1. CASE p = ActivePane(s)
      <4>1. ActivePane(s) # None
        BY <1>1, <2>1, <3>1, TreePlaces
      <4> QED BY <2>1, <4>1, ActiveTyped DEF InRange
    <3>2. CASE p # ActivePane(s)
      <4> DEFINE r  == RevealStackedPane(Unzoomed(s), p)
                 at == PositionOf(r.tree.order, p) - 1
                 a  == [r EXCEPT !.active = at]
      <4>1. s = NoteActive(a, p)
        BY <1>2, <2>1, <3>2 DEF FocusPane
      <4>2. Fits(r, L) /\ r.tree = s.tree /\ r.zoomed = None
        <5>1. Activates(s, L, s.active, None, Unzoomed(s))
          BY Unzooms
        <5>2. Shows(Unzoomed(s), L, r)
          BY <5>1, PaneRevealed DEF Activates
        <5> QED BY <5>1, <5>2 DEF Shows, Activates
      <4>3. at \in Nat /\ at < Len(s.tree.order)
        BY <1>1, <2>1, <4>2, TreePlaces
      <4>4. Activate(r, at, r.zoomed, a)
        BY <4>2 DEF Fits, TabStates, Activate
      <4> HIDE DEF at, r
      <4>7. r.zoomed \in Leaves(r.tree) \cup {None}
        BY <4>2
      <4>8. Activates(r, L, at, r.zoomed, a)
        BY <4>2, <4>3, <4>4, <4>7, Activated
      <4> HIDE DEF a
      <4>5. Fits(a, L) /\ a.active = at
        BY <4>8 DEF Activates
      <4>6. s.active = at
        BY <4>1, <4>5, Noted
      <4> QED BY <4>3, <4>6 DEF InRange
    <3> QED BY <3>1, <3>2
  <2> QED BY <1>2, <2>1, SameSame DEF Focuses
<1>3. CASE n # s
  <2> DEFINE r  == RevealStackedPane(Unzoomed(s), p)
             at == PositionOf(r.tree.order, p) - 1
             a  == [r EXCEPT !.active = at]
  <2>1. n = NoteActive(a, p) /\ p \in Leaves(s.tree)
    BY <1>3 DEF FocusPane
  <2>2. Fits(r, L) /\ r.tree = s.tree /\ r.zoomed = None /\ SameUnits(s, r)
    <3>1. Activates(s, L, s.active, None, Unzoomed(s))
      BY Unzooms
    <3>2. Shows(Unzoomed(s), L, r)
      BY <3>1, PaneRevealed DEF Activates
    <3>3. SameUnits(s, Unzoomed(s)) /\ SameUnits(Unzoomed(s), r)
      BY <3>1, <3>2 DEF Shows, Activates
    <3>4. SameUnits(s, r)
      BY <3>3, SameThrough
    <3> QED BY <3>1, <3>2, <3>4 DEF Shows, Activates
  <2>3. at \in Nat /\ at < Len(s.tree.order)
    BY <1>1, <2>1, <2>2, TreePlaces
  <2>4. Activate(r, at, r.zoomed, a)
    BY <2>2 DEF Fits, TabStates, Activate
  <2> HIDE DEF at, r
  <2>7. r.zoomed \in Leaves(r.tree) \cup {None}
    BY <2>2
  <2>8. Activates(r, L, at, r.zoomed, a)
    BY <2>2, <2>3, <2>4, <2>7, Activated
  <2> HIDE DEF a
  <2>9. SameUnits(s, a)
    BY <2>2, <2>8, SameThrough DEF Activates
  <2>5. Fits(a, L) /\ a.active = at /\ a.tree = s.tree /\ a.zoomed = None
        /\ SameUnits(s, a)
    BY <2>2, <2>8, <2>9 DEF Activates
  <2> HIDE DEF a, n
  <2>6. /\ Fits(n, L) /\ SameUnits(s, n) /\ n.tree = s.tree /\ n.active = at
        /\ n.zoomed = None
    BY <2>1, <2>5, Noted, SameThrough
  <2> QED BY <2>3, <2>6 DEF Focuses, InRange
<1> QED BY <1>2, <1>3

(* set_active_idx *)
IndexFocuses(s, L, i, n) ==
  /\ Fits(n, L) /\ SameUnits(s, n) /\ n.tree = s.tree
  /\ n.zoomed = s.zoomed /\ n.active = i

LEMMA IndexFocused ==
  ASSUME NEW s, NEW L, Fits(s, L), NEW i \in Nat
  PROVE  IndexFocuses(s, L, i, FocusIndex(s, i))
<1> DEFINE n  == FocusIndex(s, i)
           r  == RevealStackedPane(s, s.tree.order[i + 1])
           at == [r EXCEPT !.active = i]
<1>1. n = NoteActive(at, ActivePane(at))
  BY DEF FocusIndex
<1>2. Fits(r, L) /\ r.tree = s.tree /\ r.zoomed = s.zoomed /\ SameUnits(s, r)
  BY PaneRevealed DEF Shows
<1>3. Activate(r, i, r.zoomed, at)
  BY <1>2 DEF Fits, TabStates, Activate
<1>4. r.zoomed \in Leaves(r.tree) \cup {None}
  BY <1>2 DEF Fits
<1> HIDE DEF r
<1>7. Activates(r, L, i, r.zoomed, at)
  BY <1>2, <1>3, <1>4, Activated
<1> HIDE DEF at, n
<1>8. SameUnits(s, at)
  BY <1>2, <1>7, SameThrough DEF Activates
<1>5. /\ Fits(at, L) /\ at.active = i /\ at.tree = s.tree /\ at.zoomed = s.zoomed
      /\ SameUnits(s, at)
  BY <1>2, <1>7, <1>8 DEF Activates
<1>6. /\ Fits(n, L) /\ SameUnits(s, n) /\ n.tree = s.tree /\ n.active = i
      /\ n.zoomed = s.zoomed
  BY <1>1, <1>5, Noted, SameThrough
<1> QED BY <1>6 DEF n, IndexFocuses

-----------------------------------------------------------------------------
(* Panes that are forgotten.                                               *)

(* Groups, stacks and hidden panes are put in their places.                *)
Rebuilds(s, M, m, K, k, H, n) ==
  /\ Fits(n, M)
  /\ n.tree = s.tree /\ n.active = s.active /\ n.zoomed = s.zoomed
  /\ n.groups = m /\ n.stacks = K /\ n.next_id = k /\ n.hidden = H

Rebuild(s, m, K, k, H, n) ==
  n = [s EXCEPT !.groups = m, !.stacks = K, !.next_id = k, !.hidden = H]

LEMMA Rebuilt ==
  ASSUME NEW s \in TabStates, IsTree(s.tree), s.zoomed \in Leaves(s.tree) \cup {None},
         NEW M \in SUBSET Pane, NEW H \in SUBSET M, NEW m, NEW k \in Nat,
         GroupsFit(m, k, M), NEW K, StacksShaped(K), StacksNamed(K, m, M),
         NEW n, Rebuild(s, m, K, k, H, n)
  PROVE  Rebuilds(s, M, m, K, k, H, n)
<1>1. /\ n \in TabStates /\ n.tree = s.tree /\ n.active = s.active /\ n.zoomed = s.zoomed
      /\ n.groups = m /\ n.stacks = K /\ n.next_id = k /\ n.hidden = H
  <2>1. m \in GroupMaps /\ K \subseteq StackTypes
    BY DEF GroupsFit, StacksShaped
  <2> QED BY <2>1 DEF TabStates, Rebuild
<1>2. UnitsFit(n, M)
  BY <1>1 DEF UnitsFit
<1> QED BY <1>1, <1>2 DEF Fits, Rebuilds

(* The last pane of a unit goes.                                           *)
LEMMA LonePaneForgotten ==
  ASSUME NEW s, NEW L, Fits(s, L), NEW p \in L, p \notin s.hidden,
         \A g \in DOMAIN s.groups : p \notin MembersIn(s.groups, g)
  PROVE  \E K : Rebuilds(s, L \ {p}, s.groups, K, s.next_id, s.hidden,
                         Vanish(s, PaneUnit(p)).tab)
<1> DEFINE u == PaneUnit(p)
           M == L \ {p}
           m == s.groups
<1>1. /\ s \in TabStates /\ IsTree(s.tree) /\ s.zoomed \in Leaves(s.tree) \cup {None}
      /\ GroupsFit(m, s.next_id, L) /\ L \in SUBSET Pane /\ s.next_id \in Nat
      /\ s.hidden \subseteq L /\ StacksShaped(s.stacks) /\ StacksNamed(s.stacks, m, L)
  BY DEF Fits, UnitsFit, TabStates
<1>2. s = [s EXCEPT !.stacks = s.stacks]
  BY <1>1 DEF TabStates
<1>3. PICK K : /\ Vanish(s, u).tab = [s EXCEPT !.stacks = K]
               /\ StacksShaped(K)
               /\ \A x : InStack(K, x) => x # u /\ InStack(s.stacks, x)
  BY <1>1, <1>2, Vanished
<1>4. GroupsFit(m, s.next_id, M)
  BY <1>1 DEF GroupsFit
<1>5. UnitBy(m, p) = u
  BY <1>1, UnitOnly
<1>6. StacksNamed(K, m, M)
  BY <1>1, <1>3, <1>5 DEF StacksNamed
<1>7. Rebuild(s, m, K, s.next_id, s.hidden, Vanish(s, u).tab)
  BY <1>1, <1>3 DEF TabStates, Rebuild
<1>8. M \in SUBSET Pane /\ s.hidden \in SUBSET M
  BY <1>1
<1> HIDE DEF u, M, m
<1>9. Rebuilds(s, M, m, K, s.next_id, s.hidden, Vanish(s, u).tab)
  BY <1>1, <1>3, <1>4, <1>6, <1>7, <1>8, Rebuilt
<1> QED BY <1>9 DEF u, M, m

(* One pane is left of a group of two.                                     *)
LEMMA PairForgotten ==
  ASSUME NEW s, NEW L, Fits(s, L), NEW g \in DOMAIN s.groups, NEW p, NEW q, p # q,
         MembersIn(s.groups, g) = {p, q}, p \notin s.hidden
  PROVE  \E m, K : /\ Rebuilds(s, L \ {p}, m, K, s.next_id, s.hidden,
                               RenameUnit(Dissolve(s, g), GroupUnit(g), PaneUnit(q)))
                   /\ Dwindles(s.groups, {p}, m)
<1> DEFINE m == s.groups
           D == DOMAIN m \ {g}
           M == L \ {p}
           u == GroupUnit(g)
           v == PaneUnit(q)
           m2 == Restrict(m, D)
           K2 == {[k EXCEPT !.units = ReplaceAll(@, u, v)] : k \in s.stacks}
<1>1. /\ s \in TabStates /\ IsTree(s.tree) /\ s.zoomed \in Leaves(s.tree) \cup {None}
      /\ GroupsFit(m, s.next_id, L) /\ L \in SUBSET Pane /\ s.next_id \in Nat
      /\ s.hidden \subseteq L /\ StacksShaped(s.stacks) /\ StacksNamed(s.stacks, m, L)
  BY DEF Fits, UnitsFit, TabStates
<1>2. /\ \A h \in DOMAIN m : MembersIn(m, h) \subseteq L
      /\ \A h \in D : MembersIn(m, h) \cap {p, q} = {}
      /\ p \in L /\ q \in L
  BY <1>1 DEF GroupsFit
<1>3. D \in SUBSET DOMAIN m /\ M \in SUBSET Pane /\ \A h \in D : MembersIn(m, h) \subseteq M
  BY <1>1, <1>2
<1>4. /\ GroupsFit(m2, s.next_id, M)
      /\ DOMAIN m2 = D /\ \A h \in D : MembersIn(m2, h) = MembersIn(m, h)
      /\ \A x : (\E h \in D : x \in MembersIn(m, h)) => UnitBy(m2, x) = UnitBy(m, x)
      /\ \A x : (\A h \in D : x \notin MembersIn(m, h)) => UnitBy(m2, x) = PaneUnit(x)
  <2>1. Keeps(m, D, m2)
    BY DEF Keeps
  <2>2. GroupsFit(m, s.next_id, L) /\ s.next_id \in Nat
    BY <1>1
  <2> HIDE DEF D, M, m2, m
  <2>4. GroupsFit(m2, s.next_id, M) /\ AreKept(m, D, m2)
    BY <1>3, <2>1, <2>2, GroupsKept
  <2> QED BY <2>4 DEF AreKept
<1>5. v \in AnyUnit /\ ~ InStack(s.stacks, v)
  <2>1. v \in AnyUnit
    BY <1>1, <1>2, UnitKinds
  <2>2. \A x \in L : UnitBy(m, x) # v
    BY <1>1, UnitOnly
  <2> QED BY <1>1, <2>1, <2>2 DEF StacksNamed
<1>6. Renames(s.stacks, u, v, K2)
  BY DEF Renames
<1>7. /\ StacksShaped(K2)
      /\ \A x : InStack(K2, x) <=> \/ x # u /\ InStack(s.stacks, x)
                                   \/ x = v /\ InStack(s.stacks, u)
  <2> HIDE DEF u, v, K2
  <2> QED BY <1>1, <1>5, <1>6, StackRenamed
<1>8. StacksNamed(K2, m2, M)
  <2>1. SUFFICES ASSUME NEW x, InStack(K2, x) PROVE \E y \in M : UnitBy(m2, y) = x
    BY DEF StacksNamed
  <2>2. CASE x # u /\ InStack(s.stacks, x)
    <3>1. PICK y \in L : UnitBy(m, y) = x
      BY <1>1, <2>2 DEF StacksNamed
    <3>2. y \notin {p, q}
      BY <1>1, <2>2, <3>1, UnitOnly
    <3>3. CASE \E h \in D : y \in MembersIn(m, h)
      BY <1>4, <3>1, <3>2, <3>3
    <3>4. CASE \A h \in D : y \notin MembersIn(m, h)
      <4>1. UnitBy(m, y) = PaneUnit(y)
        BY <1>1, <3>2, <3>4, UnitOnly
      <4> QED BY <1>4, <3>1, <3>2, <3>4, <4>1
    <3> QED BY <3>3, <3>4
  <2>3. CASE x = v
    <3>1. UnitBy(m2, q) = v
      BY <1>2, <1>4
    <3> QED BY <1>2, <2>3, <3>1
  <2> QED BY <1>7, <2>1, <2>2, <2>3
<1>9. Rebuild(s, m2, K2, s.next_id, s.hidden, RenameUnit(Dissolve(s, g), u, v))
  <2> DEFINE d == Dissolve(s, g)
  <2>1. d = [s EXCEPT !.groups = m2]
    BY <1>1 DEF Dissolve, TabStates
  <2>2. d.stacks = s.stacks
    <3> HIDE DEF m2
    <3> QED BY <1>1, <2>1 DEF TabStates
  <2> HIDE DEF d
  <2>3. RenameUnit(d, u, v) = [d EXCEPT !.stacks = K2]
    BY <2>2 DEF RenameUnit
  <2> HIDE DEF m2, K2
  <2>4. RenameUnit(d, u, v) = [s EXCEPT !.groups = m2, !.stacks = K2,
                                 !.next_id = s.next_id, !.hidden = s.hidden]
    BY <1>1, <2>1, <2>3 DEF TabStates
  <2> QED BY <2>4 DEF d, Rebuild
<1>10. s.hidden \in SUBSET M
  BY <1>1
<1>12. Dwindles(m, {p}, m2)
  <2>1. \A h \in D : MembersIn(m, h) = MembersIn(m, h) \ {p}
    BY <1>2
  <2> HIDE DEF m2, D
  <2> QED BY <1>3, <1>4, <2>1 DEF Dwindles
<1> HIDE DEF D, M, u, v, m2, K2
<1>11. Rebuilds(s, M, m2, K2, s.next_id, s.hidden, RenameUnit(Dissolve(s, g), u, v))
  BY <1>1, <1>3, <1>4, <1>7, <1>8, <1>9, <1>10, Rebuilt
<1> QED BY <1>11, <1>12 DEF u, v, M

(* Two or more panes are left of a group.                                  *)
LEMMA MemberForgotten ==
  ASSUME NEW s, NEW L, Fits(s, L), NEW g \in DOMAIN s.groups, NEW p, p \notin s.hidden,
         p \in MembersIn(s.groups, g),
         NEW left \in Seq(Pane), IsInjective(left), Len(left) >= 2,
         ToSet(left) = MembersIn(s.groups, g) \ {p}
  PROVE  \E m : /\ Rebuilds(s, L \ {p}, m, s.stacks, s.next_id, s.hidden,
                     [s EXCEPT !.groups[g] =
                        [members |-> left,
                         last_active |-> IF @.last_active = p THEN left[1]
                                         ELSE @.last_active]])
                /\ Dwindles(s.groups, {p}, m)
<1> DEFINE m == s.groups
           M == L \ {p}
           last == IF m[g].last_active = p THEN left[1] ELSE m[g].last_active
           m2 == [m EXCEPT ![g] = [members |-> left, last_active |-> last]]
<1>1. /\ s \in TabStates /\ IsTree(s.tree) /\ s.zoomed \in Leaves(s.tree) \cup {None}
      /\ GroupsFit(m, s.next_id, L) /\ L \in SUBSET Pane /\ s.next_id \in Nat
      /\ s.hidden \subseteq L /\ StacksShaped(s.stacks) /\ StacksNamed(s.stacks, m, L)
  BY DEF Fits, UnitsFit, TabStates
<1>2. /\ \A h \in DOMAIN m : MembersIn(m, h) \subseteq L
      /\ \A h \in DOMAIN m : h # g => MembersIn(m, h) \cap MembersIn(m, g) = {}
      /\ m[g].last_active \in MembersIn(m, g)
  BY <1>1 DEF GroupsFit
<1>3. left[1] \in ToSet(left)
  BY SetOfSeq
<1>4. last \in ToSet(left) /\ ToSet(left) \subseteq M
  BY <1>2, <1>3
<1>5. \A h \in DOMAIN m : h # g => /\ MembersIn(m, h) \subseteq M
                                   /\ MembersIn(m, h) \cap ToSet(left) = {}
  BY <1>2
<1>6. Changes(m, g, left, last, m2)
  BY DEF Changes
<1>7. M \in SUBSET Pane /\ s.hidden \in SUBSET M
  BY <1>1
<1>8. /\ GroupsFit(m2, s.next_id, M)
      /\ DOMAIN m2 = DOMAIN m /\ MembersIn(m2, g) = ToSet(left)
      /\ \A h \in DOMAIN m : h # g => MembersIn(m2, h) = MembersIn(m, h)
      /\ \A x \in ToSet(left) : UnitBy(m2, x) = GroupUnit(g)
      /\ \A x : x \notin ToSet(left) /\ x \notin MembersIn(m, g) =>
                  UnitBy(m2, x) = UnitBy(m, x)
  <2>1. g \in DOMAIN m
    OBVIOUS
  <2>2. GroupsFit(m, s.next_id, L) /\ s.next_id \in Nat /\ M \in SUBSET Pane
    BY <1>1, <1>7
  <2>3. CanHave(m, g, left, M) /\ last \in ToSet(left)
    BY <1>4, <1>5 DEF CanHave
  <2> HIDE DEF m, M, last, m2
  <2>4. GroupsFit(m2, s.next_id, M) /\ IsChanged(m, g, left, m2)
    BY <1>6, <2>1, <2>2, <2>3, GroupChanged
  <2> QED BY <2>4 DEF IsChanged
<1>9. StacksNamed(s.stacks, m2, M)
  <2>1. SUFFICES ASSUME NEW x, InStack(s.stacks, x) PROVE \E y \in M : UnitBy(m2, y) = x
    BY DEF StacksNamed
  <2>2. PICK y \in L : UnitBy(m, y) = x
    BY <1>1, <2>1 DEF StacksNamed
  <2>3. CASE y \in MembersIn(m, g)
    <3>1. x = GroupUnit(g)
      BY <1>1, <2>2, <2>3, UnitOnly
    <3> QED BY <1>3, <1>4, <1>8, <3>1
  <2>4. CASE y \notin MembersIn(m, g)
    BY <1>8, <2>2, <2>4
  <2> QED BY <2>3, <2>4
<1> DEFINE n == [s EXCEPT !.groups[g] =
                     [members |-> left,
                      last_active |-> IF @.last_active = p THEN left[1] ELSE @.last_active]]
<1>10. Rebuild(s, m2, s.stacks, s.next_id, s.hidden, n)
  BY <1>1 DEF TabStates, Rebuild
<1>12. Dwindles(m, {p}, m2)
  <2>1. \A h \in DOMAIN m : h # g => p \notin MembersIn(m, h)
    BY <1>2
  <2>2. \A h \in DOMAIN m : MembersIn(m2, h) = MembersIn(m, h) \ {p}
    <3> HIDE DEF m, m2
    <3> QED BY <1>8, <2>1 DEF m
  <2> HIDE DEF m2
  <2> QED BY <1>8, <2>2 DEF Dwindles
<1> HIDE DEF M, last, m2, n
<1>11. Rebuilds(s, M, m2, s.stacks, s.next_id, s.hidden, n)
  BY <1>1, <1>7, <1>8, <1>9, <1>10, Rebuilt
<1> QED BY <1>11, <1>12 DEF M, n

(* GroupState::remove_pane *)
Forgets(s, p, M, n) ==
  /\ Fits(n, M) /\ Dwindles(s.groups, {p}, n.groups)
  /\ n.tree = s.tree /\ n.active = s.active /\ n.zoomed = s.zoomed
  /\ n.hidden = s.hidden /\ n.next_id = s.next_id

LEMMA PaneForgotten ==
  ASSUME NEW s, NEW L, Fits(s, L), NEW p \in L, p \notin s.hidden
  PROVE  Forgets(s, p, L \ {p}, ForgetPane(s, p).tab)
<1> DEFINE m == s.groups
           u == UnitBy(m, p)
           n == ForgetPane(s, p).tab
<1>1. L \in SUBSET Pane /\ GroupsFit(m, s.next_id, L)
  BY DEF Fits, UnitsFit
<1>2. PICK ps : ps = UnitPanes(s, u) /\ IsUnitOf(s, L, u, ps)
  BY <1>1, PanesOfUnit
<1>3. p \in ToSet(ps) /\ ps \in Seq(Pane) /\ IsInjective(ps)
  BY <1>2 DEF IsUnitOf
<1>4. PICK left : left = Omit(ps, p)
  OBVIOUS
<1>5. /\ left \in Seq(Pane) /\ IsInjective(left) /\ ToSet(left) = ToSet(ps) \ {p}
      /\ Len(left) = Len(ps) - 1 /\ Len(ps) \in Nat
      /\ left = <<>> <=> Len(ps) = 1
  BY <1>3, <1>4, Omitted
<1>6. UnitOf(s, p) = u
  BY UnitByGroups
<1> HIDE DEF u
<1>7. ForgetPane(s, p) =
        CASE left = <<>> -> Vanish(IF u.kind = "group" THEN Dissolve(s, u.id) ELSE s, u)
          [] Len(left) = 1 ->
               [tab |-> RenameUnit(Dissolve(s, u.id), u, PaneUnit(left[1])), reveal |-> <<>>]
          [] OTHER ->
               [tab |-> [s EXCEPT !.groups[u.id] =
                           [members |-> left,
                            last_active |-> IF @.last_active = p THEN left[1]
                                            ELSE @.last_active]],
                reveal |-> <<>>]
  BY <1>2, <1>4, <1>6 DEF ForgetPane
<1>8. CASE u = PaneUnit(p) /\ Len(ps) = 1 /\ \A g \in DOMAIN m : p \notin MembersIn(m, g)
  <2>1. n = Vanish(s, PaneUnit(p)).tab
    BY <1>5, <1>7, <1>8, UnitKinds
  <2>2. PICK K : Rebuilds(s, L \ {p}, m, K, s.next_id, s.hidden, n)
    BY <1>8, <2>1, LonePaneForgotten
  <2>3. Dwindles(m, {p}, m)
    BY <1>8 DEF Dwindles
  <2> QED BY <2>2, <2>3 DEF Rebuilds, Forgets
<1>9. ASSUME NEW g \in DOMAIN m, u = GroupUnit(g), ps = m[g].members, Len(ps) >= 2
      PROVE  Forgets(s, p, L \ {p}, n)
  <2>1. u.id = g /\ left # <<>> /\ MembersIn(m, g) = ToSet(ps)
    BY <1>5, <1>9, UnitKinds DEF MembersIn
  <2>2. CASE Len(left) = 1
    <3>1. PICK q : q = left[1]
      OBVIOUS
    <3>2. n = RenameUnit(Dissolve(s, g), GroupUnit(g), PaneUnit(q))
      BY <1>7, <1>9, <2>1, <2>2, <3>1
    <3>6. ToSet(left) = {left[i] : i \in 1 .. Len(left)}
      BY <1>5, SetOfSeq
    <3>7. 1 .. Len(left) = {1}
      BY <2>2
    <3>3. ToSet(left) = {q}
      BY <3>1, <3>6, <3>7
    <3>4. p # q /\ MembersIn(m, g) = {p, q}
      BY <1>3, <1>5, <2>1, <3>3
    <3> HIDE DEF n
    <3>5. PICK m2, K : /\ Rebuilds(s, L \ {p}, m2, K, s.next_id, s.hidden, n)
                       /\ Dwindles(s.groups, {p}, m2)
      BY <1>9, <3>2, <3>4, PairForgotten
    <3> QED BY <3>5 DEF Rebuilds, Forgets
  <2>3. CASE Len(left) # 1
    <3>4. \A a, b \in Nat : a = b - 1 /\ b >= 2 /\ a # 1 => a >= 2
      OBVIOUS
    <3>5. Len(left) \in Nat
      BY <1>5, LenProperties
    <3>1. Len(left) >= 2
      BY <1>5, <1>9, <2>3, <3>4, <3>5
    <3>2. n = [s EXCEPT !.groups[g] =
                 [members |-> left,
                  last_active |-> IF @.last_active = p THEN left[1] ELSE @.last_active]]
      BY <1>7, <2>1, <2>3
    <3>6. /\ left \in Seq(Pane) /\ IsInjective(left) /\ p \in MembersIn(s.groups, g)
          /\ ToSet(left) = MembersIn(s.groups, g) \ {p} /\ g \in DOMAIN s.groups
      BY <1>3, <1>5, <1>9, <2>1
    <3> HIDE DEF n, m
    <3>3. PICK m2 : /\ Rebuilds(s, L \ {p}, m2, s.stacks, s.next_id, s.hidden, n)
                    /\ Dwindles(s.groups, {p}, m2)
      BY <3>1, <3>2, <3>6, MemberForgotten
    <3> QED BY <3>3 DEF Rebuilds, Forgets
  <2> QED BY <2>2, <2>3
<1>10. \/ u = PaneUnit(p) /\ Len(ps) = 1 /\ \A g \in DOMAIN m : p \notin MembersIn(m, g)
       \/ \E g \in DOMAIN m : u = GroupUnit(g) /\ ps = m[g].members /\ Len(ps) >= 2
  <2>1. \/ \E x \in L : u = PaneUnit(x) /\ ps = <<x>> /\ Len(ps) = 1
        \/ \E g \in DOMAIN m : u = GroupUnit(g) /\ ps = m[g].members /\ Len(ps) >= 2
    BY <1>2 DEF IsUnitOf
  <2>2. \A x : u = PaneUnit(x) => x = p /\ \A g \in DOMAIN m : p \notin MembersIn(m, g)
    BY <1>1, UnitOnly DEF u
  <2> QED BY <2>1, <2>2
<1> QED BY <1>8, <1>9, <1>10

(* Some panes are hidden and others shown.                                 *)
Hide(s, H, n) == n = [s EXCEPT !.hidden = H]

Hides(s, L, H, n) ==
  /\ Fits(n, L) /\ SameUnits(s, n) /\ n.tree = s.tree
  /\ n.active = s.active /\ n.zoomed = s.zoomed /\ n.hidden = H
  /\ n.groups = s.groups /\ n.stacks = s.stacks /\ n.next_id = s.next_id

LEMMA Hidden ==
  ASSUME NEW s, NEW L, Fits(s, L), NEW H \in SUBSET L, NEW n, Hide(s, H, n)
  PROVE  Hides(s, L, H, n)
<1>1. /\ s \in TabStates /\ IsTree(s.tree) /\ s.zoomed \in Leaves(s.tree) \cup {None}
      /\ UnitsFit(s, L) /\ L \in SUBSET Pane
  BY DEF Fits, UnitsFit
<1>2. /\ n \in TabStates /\ n.tree = s.tree /\ n.active = s.active /\ n.zoomed = s.zoomed
      /\ n.hidden = H /\ n.groups = s.groups /\ n.stacks = s.stacks
      /\ n.next_id = s.next_id
  BY <1>1 DEF TabStates, Hide
<1>3. UnitsFit(n, L)
  BY <1>1, <1>2 DEF UnitsFit
<1>4. SameUnits(s, n)
  BY <1>2 DEF SameUnits
<1> QED BY <1>1, <1>2, <1>3, <1>4 DEF Fits, Hides

(* The loop of prune_removed_panes.                                        *)
ForgetsEach(f, s, removed, n) ==
  f = [i \in 0 .. n |-> IF i = 0 THEN [tab |-> s, reveal |-> <<>>]
                        ELSE ForgetNext(f[i - 1], removed[i])]

LEMMA ForgettingEnds ==
  ASSUME NEW s, NEW removed, NEW n \in Nat
  PROVE  \E f : ForgetsEach(f, s, removed, n)
<1> DEFINE E == {m \in Nat : \E f : ForgetsEach(f, s, removed, m)}
           x == [tab |-> s, reveal |-> <<>>]
<1>1. 0 \in E
  <2>1. ForgetsEach([i \in 0 .. 0 |-> x], s, removed, 0)
    BY DEF ForgetsEach
  <2> QED BY <2>1
<1>2. ASSUME NEW m \in 1 .. n, m - 1 \in E PROVE m \in E
  <2>1. PICK f : ForgetsEach(f, s, removed, m - 1)
    BY <1>2
  <2> DEFINE g == [i \in 0 .. m |-> IF i = m THEN ForgetNext(f[m - 1], removed[m])
                                    ELSE f[i]]
             r == [i \in 0 .. m |-> IF i = 0 THEN x ELSE ForgetNext(g[i - 1], removed[i])]
  <2>2. ASSUME NEW i \in 0 .. m PROVE g[i] = r[i]
    <3> HIDE DEF x
    <3>1. f = [j \in 0 .. m - 1 |-> IF j = 0 THEN x ELSE ForgetNext(f[j - 1], removed[j])]
      BY <2>1 DEF ForgetsEach, x
    <3>2. CASE i = m
      <4>1. m - 1 \in 0 .. m /\ m - 1 # m /\ m # 0
        OBVIOUS
      <4>2. g[m - 1] = f[m - 1]
        BY <4>1
      <4> QED BY <3>2, <4>1, <4>2
    <3>3. CASE i # m
      <4>1. i \in 0 .. m - 1 /\ g[i] = f[i]
        BY <3>3
      <4>2. CASE i = 0
        BY <3>1, <4>1, <4>2
      <4>3. CASE i # 0
        <5>1. i - 1 \in 0 .. m /\ i - 1 # m
          BY <4>1, <4>3
        <5>2. g[i - 1] = f[i - 1]
          BY <5>1
        <5>3. f[i] = ForgetNext(f[i - 1], removed[i])
          BY <3>1, <4>1, <4>3
        <5>4. r[i] = ForgetNext(g[i - 1], removed[i])
          BY <4>3
        <5> QED BY <4>1, <5>2, <5>3, <5>4
      <4> QED BY <4>2, <4>3
    <3> QED BY <3>2, <3>3
  <2>3. g = r
    BY <2>2
  <2>4. ForgetsEach(g, s, removed, m)
    <3> HIDE DEF g
    <3> QED BY <2>3 DEF ForgetsEach, x
  <2> QED BY <2>4
<1> HIDE DEF E
<1>3. n \in E
  BY <1>1, <1>2, UpTo
<1> QED BY <1>3 DEF E

Prunes(s, D, M, n) ==
  /\ Dwindles(s.groups, D, n.groups)
  /\ Fits(n, M) /\ n.tree = s.tree /\ n.active = s.active /\ n.zoomed = s.zoomed
  /\ n.next_id = s.next_id /\ n.hidden \subseteq s.hidden

LEMMA OneMoreForgotten ==
  ASSUME NEW s, NEW L, Fits(s, L), NEW p \in L, NEW acc, acc.tab = s
  PROVE  Prunes(s, {p}, L \ {p}, ForgetNext(acc, p).tab)
<1> DEFINE b == [s EXCEPT !.hidden = @ \ {p}]
           n == ForgetNext(acc, p).tab
<1>1. n = ForgetPane(b, p).tab
  BY DEF ForgetNext
<1>2. Hide(s, s.hidden \ {p}, b)
  BY DEF Fits, TabStates, Hide
<1>3. s.hidden \ {p} \in SUBSET L
  BY DEF Fits, UnitsFit
<1> HIDE DEF b
<1>4. Hides(s, L, s.hidden \ {p}, b)
  BY <1>2, <1>3, Hidden
<1>5. Fits(b, L) /\ p \notin b.hidden
  BY <1>4 DEF Hides
<1>6. Forgets(b, p, L \ {p}, n)
  BY <1>1, <1>5, PaneForgotten
<1> HIDE DEF n
<1>7. Prunes(s, {p}, L \ {p}, n)
  BY <1>4, <1>6 DEF Hides, Forgets, Prunes
<1> QED BY <1>7 DEF n

LEMMA AllForgotten ==
  ASSUME NEW s, NEW L, Fits(s, L), NEW removed \in Seq(L), IsInjective(removed)
  PROVE  Prunes(s, ToSet(removed), L \ ToSet(removed), ForgetAll(s, removed).tab)
<1> DEFINE n == Len(removed)
           gone(i) == {removed[j] : j \in 1 .. i}
           H(f) == f = [i \in 0 .. n |-> IF i = 0 THEN [tab |-> s, reveal |-> <<>>]
                                         ELSE ForgetNext(f[i - 1], removed[i])]
           forgot == CHOOSE f : H(f)
           E == {i \in 0 .. n : Prunes(s, gone(i), L \ gone(i), forgot[i].tab)}
<1>1. n \in Nat /\ DOMAIN removed = 1 .. n /\ \A i \in 1 .. n : removed[i] \in L
  BY LenProperties, ElementOfSeq
<1>2. H(forgot)
  <2>1. PICK f : ForgetsEach(f, s, removed, n)
    BY <1>1, ForgettingEnds
  <2>2. H(f)
    BY <2>1 DEF ForgetsEach
  <2> HIDE DEF H
  <2> QED BY <2>2
<1>3. ForgetAll(s, removed) = forgot[n]
  BY DEF ForgetAll
<1> HIDE DEF n, forgot
<1>4. 0 \in E
  <2>1. forgot[0].tab = s
    BY <1>1, <1>2
  <2>2. gone(0) = {} /\ L \ gone(0) = L
    OBVIOUS
  <2>3. Prunes(s, {}, L, s)
    BY DEF Prunes, Dwindles
  <2>4. Prunes(s, gone(0), L \ gone(0), forgot[0].tab)
    BY <2>1, <2>2, <2>3
  <2>5. 0 \in 0 .. n
    BY <1>1
  <2> HIDE DEF gone
  <2> QED BY <2>4, <2>5
<1>5. ASSUME NEW i \in 1 .. n, i - 1 \in E PROVE i \in E
  <2>1. forgot[i] = ForgetNext(forgot[i - 1], removed[i])
    BY <1>1, <1>2
  <2> DEFINE a == forgot[i - 1].tab
             M == L \ gone(i - 1)
             p == removed[i]
             c == ForgetNext(forgot[i - 1], p).tab
  <2>2. Prunes(s, gone(i - 1), M, a)
    BY <1>5
  <2>3. p \in M
    <3>1. \A j \in 1 .. i - 1 : j \in 1 .. n /\ j # i
      BY <1>1
    <3>2. \A j \in 1 .. n : removed[j] = removed[i] => j = i
      BY <1>1 DEF IsInjective
    <3> QED BY <1>1, <3>1, <3>2
  <2>4. M \ {p} = L \ gone(i) /\ gone(i) = gone(i - 1) \cup {p}
    <3>1. \A j : j \in 1 .. i <=> j \in 1 .. i - 1 \/ j = i
      BY <1>1
    <3>2. gone(i) = gone(i - 1) \cup {p}
      BY <3>1
    <3> QED BY <3>2
  <2> HIDE DEF M, p, gone
  <2>5. Prunes(a, {p}, M \ {p}, c)
    <3>1. Fits(a, M)
      BY <2>2 DEF Prunes
    <3> HIDE DEF a
    <3>2. a = forgot[i - 1].tab
      BY DEF a
    <3> QED BY <2>3, <3>1, <3>2, OneMoreForgotten
  <2> HIDE DEF a, c
  <2>6. Prunes(s, gone(i), M \ {p}, c)
    <3>1. Dwindles(s.groups, gone(i), c.groups)
      BY <2>2, <2>4, <2>5, DwindlesOn DEF Prunes
    <3> QED BY <2>2, <2>5, <3>1 DEF Prunes
  <2>7. c = forgot[i].tab
    BY <2>1 DEF c, p
  <2>8. Prunes(s, gone(i), L \ gone(i), forgot[i].tab)
    BY <2>4, <2>6, <2>7
  <2>9. i \in 0 .. n
    BY <1>1
  <2> QED BY <2>8, <2>9
<1>6. n \in E
  <2> HIDE DEF E
  <2>1. 0 .. n \subseteq E
    BY <1>1, <1>4, <1>5, UpTo
  <2> QED BY <1>1, <2>1
<1>7. gone(n) = ToSet(removed)
  BY SetOfSeq DEF n
<1> QED BY <1>3, <1>6, <1>7

(* prune_removed_panes                                                     *)
Pruned(s, D, M, n) ==
  /\ Dwindles(s.groups, D, n.groups)
  /\ Fits(n, M) /\ n.tree = s.tree /\ n.next_id = s.next_id
  /\ n.zoomed = s.zoomed \/ n.zoomed = None
  /\ InRange(s) => InRange(n)
  /\ ActivePane(s) \notin s.hidden => n.active = s.active /\ n.zoomed = s.zoomed

LEMMA RemovedPruned ==
  ASSUME NEW s, NEW L, Fits(s, L), NEW removed \in Seq(L), IsInjective(removed)
  PROVE  Pruned(s, ToSet(removed), L \ ToSet(removed), PruneRemoved(s, removed))
<1> DEFINE D == ToSet(removed)
           M == L \ D
           forgot == ForgetAll(s, removed)
           shown == ShowUnits(forgot.tab, forgot.reveal)
           next == IF forgot.reveal = <<>> THEN None
                   ELSE UnitFocusPane(shown, Head(forgot.reveal))
           target == IF next # None THEN next ELSE FirstOnShow(shown)
           n == PruneRemoved(s, removed)
<1> SUFFICES Pruned(s, D, M, n)
  OBVIOUS
<1>1. Prunes(s, D, M, forgot.tab)
  BY AllForgotten
<1>2. \/ n = shown
      \/ n = FocusPane(shown, target) /\ ActivePane(shown) \in shown.hidden
  <2>1. n = IF /\ shown.tree # NoTree /\ ActivePane(shown) \in shown.hidden
               /\ next # None \/ PanesOnShow(shown) # {}
            THEN FocusPane(shown, target) ELSE shown
    BY DEF PruneRemoved
  <2> HIDE DEF n, target, shown, next
  <2> QED BY <2>1
<1> HIDE DEF target, n
<1>3. PICK a : a = forgot.tab
  OBVIOUS
<1>4. Prunes(s, D, M, a)
  BY <1>1, <1>3
<1>5. PICK X : shown = [a EXCEPT !.hidden = @ \ X]
  BY <1>3 DEF ShowUnits
<1> HIDE DEF shown, forgot, M, D
<1>6. Fits(a, M)
  BY <1>4 DEF Prunes
<1>7. Hide(a, a.hidden \ X, shown)
  BY <1>5, <1>6 DEF Fits, TabStates, Hide
<1>8. a.hidden \ X \in SUBSET M
  BY <1>6 DEF Fits, UnitsFit
<1>9. Hides(a, M, a.hidden \ X, shown)
  BY <1>6, <1>7, <1>8, Hidden
<1>10. /\ Fits(shown, M) /\ shown.tree = s.tree /\ shown.next_id = s.next_id
       /\ shown.zoomed = s.zoomed /\ shown.active = s.active
       /\ shown.hidden \subseteq s.hidden /\ Dwindles(s.groups, D, shown.groups)
  BY <1>4, <1>9 DEF Hides, Prunes
<1>11. ActivePane(shown) = ActivePane(s)
  BY <1>10 DEF ActivePane
<1>12. CASE n = shown
  BY <1>10, <1>12 DEF Pruned, InRange
<1>13. CASE n = FocusPane(shown, target) /\ ActivePane(shown) \in shown.hidden
  <2>1. Focuses(shown, M, target, n)
    BY <1>10, <1>13, PaneFocused
  <2>2. ActivePane(s) \in s.hidden
    BY <1>10, <1>11, <1>13
  <2>3. n.next_id = shown.next_id
    BY <2>1 DEF Focuses, SameUnits
  <2>4. InRange(s) => InRange(n)
    BY <1>10, <2>1 DEF Focuses, InRange
  <2>5. Dwindles(s.groups, D, n.groups)
    <3>1. SameUnits(shown, n)
      BY <2>1 DEF Focuses
    <3> QED BY <1>10, <3>1 DEF Dwindles, SameUnits, MembersIn
  <2> QED BY <1>10, <2>1, <2>2, <2>3, <2>4, <2>5 DEF Focuses, Pruned
<1> QED BY <1>2, <1>12, <1>13

-----------------------------------------------------------------------------
(* Panes that are taken out.                                               *)

LEMMA ActiveCounted ==
  ASSUME NEW w, w.removed_indices \in Seq(Nat), NEW a \in Nat
  PROVE  ActiveAfter(w, a) \in Nat
<1> DEFINE C == {j \in DOMAIN w.removed_indices : w.removed_indices[j] <= a}
<1>1. ActiveAfter(w, a) = Max({0, a - Cardinality(C)})
  BY DEF ActiveAfter
<1>2. DOMAIN w.removed_indices = 1 .. Len(w.removed_indices)
      /\ Len(w.removed_indices) \in Nat
  BY LenProperties
<1>3. IsFiniteSet(1 .. Len(w.removed_indices))
  BY <1>2, FS_Interval
<1>4. IsFiniteSet(C)
  BY <1>2, <1>3, FS_Subset
<1>5. Cardinality(C) \in Nat
  BY <1>4, FS_CardinalityType
<1> HIDE DEF C
<1>6. PICK c \in Nat : c = Cardinality(C)
  BY <1>5
<1>7. Max({0, a - c}) = IF a - c >= 0 THEN a - c ELSE 0
  BY Saturated
<1> QED BY <1>1, <1>6, <1>7

(* The loop of remove_pane_if on a tab, groups and stacks aside.           *)
Takes(s, L, V, w, n) ==
  /\ Sane(s.tree, V, w) /\ Exact(s.tree, V, w) /\ w.dead_panes # <<>>
  /\ w.dead_panes \in Seq(Leaves(s.tree)) /\ IsInjective(w.dead_panes)
  /\ Fits(n, L) /\ SameUnits(s, n)
  /\ n.tree = w.tree /\ n.active = ActiveAfter(w, s.active)
  /\ n.zoomed = (IF s.zoomed \in ToSet(w.dead_panes) THEN None ELSE s.zoomed)
  /\ n.hidden = s.hidden /\ n.groups = s.groups /\ n.stacks = s.stacks
  /\ n.next_id = s.next_id
  /\ Leaves(n.tree) = Leaves(s.tree) \ ToSet(w.dead_panes)
  /\ ToSet(w.dead_panes) \subseteq V

LEMMA TakenOutOf ==
  ASSUME NEW s, NEW L, Fits(s, L), NEW V \in SUBSET Leaves(s.tree), V # {}
  PROVE  Takes(s, L, V, Walk(s.tree, V), TakeOut(s, V))
<1> DEFINE n == TakeOut(s, V)
<1>1. /\ s \in TabStates /\ s.tree \in PaneTrees /\ IsTree(s.tree)
      /\ s.active \in Nat /\ s.zoomed \in Leaves(s.tree) \cup {None}
      /\ UnitsFit(s, L) /\ V \in SUBSET Pane
  <2>1. s.tree \in PaneTrees
    BY DEF Fits, TabStates
  <2> QED BY <2>1, TreeFacts DEF Fits, TabStates
<1>2. PICK w : w = Walk(s.tree, V)
  OBVIOUS
<1>3. Sane(s.tree, V, w) /\ Exact(s.tree, V, w) /\ w.dead_panes # <<>>
  BY <1>1, <1>2, WalkEnds
<1>4. PICK t, dead : t = w.tree /\ dead = w.dead_panes
  OBVIOUS
<1>5. /\ t \in PaneTrees /\ IsTree(t) /\ Leaves(t) \subseteq Leaves(s.tree)
      /\ ToSet(dead) = Leaves(s.tree) \ Leaves(t) /\ ToSet(dead) \subseteq V
      /\ IsInjective(dead) /\ dead \in Seq(Pane) /\ w.removed_indices \in Seq(Nat)
  BY <1>3, <1>4 DEF Sane, Walks
<1>6. dead \in Seq(Leaves(s.tree))
  <2>1. Len(dead) \in Nat /\ DOMAIN dead = 1 .. Len(dead)
    BY <1>5, LenProperties
  <2>2. \A i \in 1 .. Len(dead) : dead[i] \in Leaves(s.tree)
    BY <1>5, <2>1, SetOfSeq
  <2>3. dead \in [1 .. Len(dead) -> Leaves(s.tree)]
    <3>1. dead = [i \in 1 .. Len(dead) |-> dead[i]]
      BY <1>5, <2>1
    <3> QED BY <2>2, <3>1
  <2> QED BY <2>1, <2>3, AsList
<1>7. PICK a \in Nat : a = ActiveAfter(w, s.active)
  BY <1>1, <1>5, ActiveCounted
<1>8. PICK z : z = IF s.zoomed \in ToSet(dead) THEN None ELSE s.zoomed
  OBVIOUS
<1>9. z \in Leaves(t) \cup {None} /\ z \in Pane \cup {None}
  <2>1. z \in Leaves(t) \cup {None}
    BY <1>1, <1>5, <1>8
  <2> QED BY <1>5, <2>1, TreeFacts
<1>10. n = [s EXCEPT !.tree = t, !.active = a, !.zoomed = z]
  BY <1>1, <1>2, <1>4, <1>7, <1>8 DEF TakeOut, TabStates
<1> HIDE DEF n
<1>11. /\ n \in TabStates /\ n.tree = t /\ n.active = a /\ n.zoomed = z
       /\ n.hidden = s.hidden /\ n.groups = s.groups /\ n.stacks = s.stacks
       /\ n.next_id = s.next_id
  BY <1>1, <1>5, <1>9, <1>10 DEF TabStates
<1>12. UnitsFit(n, L)
  BY <1>1, <1>11 DEF UnitsFit
<1>13. SameUnits(s, n)
  BY <1>11 DEF SameUnits
<1>14. Fits(n, L)
  BY <1>5, <1>9, <1>11, <1>12 DEF Fits
<1>15. Leaves(n.tree) = Leaves(s.tree) \ ToSet(dead)
  BY <1>5, <1>11
<1>16. Takes(s, L, V, w, n)
  BY <1>3, <1>4, <1>5, <1>6, <1>7, <1>8, <1>11, <1>13, <1>14, <1>15 DEF Takes
<1> QED BY <1>2, <1>16 DEF n

(* One pane is taken out: the active index stays that of a pane, and of    *)
(* the same pane, on show or not, unless it is the one that goes.          *)
TakesOne(s, v, w, n) ==
  /\ Leaves(n.tree) = Leaves(s.tree) \ {v} /\ ToSet(w.dead_panes) = {v}
  /\ InRange(s) => InRange(n)
  /\ ActivePane(s) # v => ActivePane(n) = ActivePane(s)

LEMMA OneTakenOut ==
  ASSUME NEW s, NEW L, Fits(s, L), NEW v \in Leaves(s.tree),
         NEW w, NEW n, Takes(s, L, {v}, w, n)
  PROVE  TakesOne(s, v, w, n)
<1> DEFINE a == s.active
<1>1. PICK t \in PaneTrees : t = s.tree /\ IsTree(t)
  BY DEF Fits, TabStates
<1>2. PICK r \in PaneTrees : r = n.tree /\ r = w.tree /\ IsTree(r)
  BY DEF Fits, TabStates, Takes
<1>3. /\ a \in Nat /\ n.active \in Nat /\ n.active = ActiveAfter(w, a)
      /\ Sane(t, {v}, w) /\ Exact(t, {v}, w) /\ w.dead_panes # <<>>
      /\ w.dead_panes \in Seq(Leaves(t)) /\ ToSet(w.dead_panes) \subseteq {v}
      /\ Leaves(r) = Leaves(t) \ ToSet(w.dead_panes)
      /\ s.zoomed \in Leaves(t) \cup {None} /\ s.tree = t /\ n.tree = r
      /\ n.zoomed = (IF s.zoomed \in ToSet(w.dead_panes) THEN None ELSE s.zoomed)
  BY <1>1, <1>2 DEF Takes, Fits, TabStates
<1>4. ToSet(w.dead_panes) = {v}
  <2>1. ToSet(w.dead_panes) # {}
    BY <1>3, SetOfSeq
  <2> QED BY <1>3, <2>1
<1>5. TookOnly(t, v, w)
  BY <1>3 DEF Exact
<1>6. PICK b \in Nat : b = n.active
  BY <1>3
<1>7. PICK m \in Nat, k \in Nat : m = Len(t.order) /\ k = Len(r.order)
  BY TreeFacts
<1>8. /\ t.order = <<>> <=> m = 0
      /\ r.order = <<>> <=> k = 0
      /\ None \notin Leaves(t) /\ None \notin Leaves(r)
      /\ \A i \in 1 .. m : t.order[i] \in Leaves(t)
      /\ \A i \in 1 .. k : r.order[i] \in Leaves(r)
  BY <1>1, <1>2, <1>7, TreePlaces
<1> HIDE DEF a
<1>9. ASSUME a < m
      PROVE  /\ k # 0 => b < k
             /\ t.order[a + 1] # v => b < k /\ r.order[b + 1] = t.order[a + 1]
  <2>1. ActiveFollows(t, v, a, w)
    BY <1>1, <1>3, <1>5, <1>7, <1>9, OneTaken
  <2>2. PanesAt(r, b) = IF b < k THEN {r.order[b + 1]} ELSE {}
    BY <1>7, ThePanesAt
  <2>3. PanesAt(t, a) = {t.order[a + 1]}
    BY <1>3, <1>7, <1>9, ThePanesAt
  <2>4. /\ PanesAt(t, a) \cap {v} = {} => PanesAt(r, b) = PanesAt(t, a)
        /\ r # NoTree => PanesAt(r, b) # {}
    BY <1>2, <1>3, <1>6, <2>1 DEF ActiveFollows
  <2>5. k # 0 => r # NoTree
    BY <1>8 DEF NoTree
  <2> QED BY <2>2, <2>3, <2>4, <2>5
<1>10. ASSUME ~ (a < m) PROVE ~ (b < k)
  <2>1. PICK i \in Nat : i = PositionOf(t.order, v) - 1 /\ i < m
    BY <1>1, <1>7, <1>3, TreePlaces
  <2>2. w.removed_indices = <<i>>
    BY <1>3, <1>5, <2>1 DEF TookOnly
  <2>3. b = IF i <= a /\ a > 0 THEN a - 1 ELSE a
    BY <1>3, <1>6, <2>2, ActiveShifted
  <2>4. k < m
    <3>1. CASE m = 1
      <4>1. r = NoTree
        BY <1>2, <1>3, <1>5, <1>7, <3>1 DEF TookOnly
      <4>2. k = 0
        BY <1>8, <4>1 DEF NoTree
      <4> QED BY <3>1, <4>2
    <3>2. CASE m # 1
      <4>1. r = RemoveLeaf(t, v)
        BY <1>2, <1>3, <1>5, <1>7, <3>2 DEF TookOnly
      <4>2. k = m - 1
        BY <1>1, <1>3, <1>7, <4>1, LeafRemoved
      <4> QED BY <4>2
    <3> QED BY <3>1, <3>2
  <2> QED BY <1>3, <1>10, <2>1, <2>3, <2>4
<1>11. InRange(s) => InRange(n)
  <2>1. InRange(s) <=> (m # 0 => a < m)
    BY <1>3, <1>7, <1>8 DEF InRange, a
  <2>2. InRange(n) <=> (k # 0 => b < k)
    BY <1>3, <1>6, <1>7, <1>8 DEF InRange
  <2>3. m = 0 => FALSE
    BY <1>3, <1>1, <1>7, TreePlaces
  <2> QED BY <1>9, <2>1, <2>2, <2>3
<1>12. ASSUME ActivePane(s) # v PROVE ActivePane(n) = ActivePane(s)
  <2>1. CASE s.zoomed # None
    BY <1>3, <1>4, <1>12, <2>1 DEF ActivePane
  <2>2. CASE s.zoomed = None
    <3>1. n.zoomed = None
      BY <1>3, <2>2
    <3>2. /\ ActivePane(s) = IF a < m THEN t.order[a + 1] ELSE None
          /\ ActivePane(n) = IF b < k THEN r.order[b + 1] ELSE None
      BY <1>3, <1>6, <1>7, <2>2, <3>1 DEF ActivePane, a
    <3> QED BY <1>9, <1>10, <1>12, <3>2
  <2> QED BY <2>1, <2>2
<1> QED BY <1>3, <1>4, <1>11, <1>12 DEF TakesOne

(* remove_pane_if *)
Removes(s, n) ==
  /\ \E D : Dwindles(s.groups, D, n.groups) /\ n.tree.sets = Shrunk(s.tree.sets, D)
  /\ Fits(n, Leaves(n.tree)) /\ n.next_id = s.next_id
  /\ s.zoomed = None => n.zoomed = None

RemovesOne(s, v, n) ==
  /\ Removes(s, n) /\ Leaves(n.tree) = Leaves(s.tree) \ {v}
  /\ InRange(s) => InRange(n)
  /\ ActivePane(s) # v /\ ActivePane(s) \notin s.hidden => ActivePane(n) = ActivePane(s)

LEMMA PanesRemoved ==
  ASSUME NEW s, Fits(s, Leaves(s.tree)), NEW V \in SUBSET Leaves(s.tree), V # {}
  PROVE  /\ Removes(s, RemovePaneIf(s, V))
         /\ \A v : V = {v} => RemovesOne(s, v, RemovePaneIf(s, V))
<1> DEFINE w == Walk(s.tree, V)
           out == TakeOut(s, V)
           dead == w.dead_panes
           n == RemovePaneIf(s, V)
           L == Leaves(s.tree)
<1>1. Takes(s, L, V, w, out)
  BY TakenOutOf
<1>2. n = IF dead = <<>> THEN out ELSE PruneRemoved(out, dead)
  BY DEF RemovePaneIf
<1> HIDE DEF w, out, n, L
<1>3. n = PruneRemoved(out, dead)
  BY <1>1, <1>2 DEF Takes
<1>4. Pruned(out, ToSet(dead), L \ ToSet(dead), n)
  BY <1>1, <1>3, RemovedPruned DEF Takes, L
<1>5. Leaves(n.tree) = L \ ToSet(dead) /\ n.tree = out.tree
  BY <1>1, <1>4 DEF Takes, Pruned, L
<1>6. Removes(s, n)
  <2>1. Fits(n, Leaves(n.tree)) /\ n.next_id = s.next_id
    BY <1>1, <1>4, <1>5 DEF Takes, Pruned
  <2>2. ASSUME s.zoomed = None PROVE n.zoomed = None
    BY <1>1, <1>4, <2>2 DEF Takes, Pruned
  <2>3. n.tree.sets = Shrunk(s.tree.sets, ToSet(dead))
    BY <1>1, <1>5 DEF Takes, Sane
  <2>4. Dwindles(s.groups, ToSet(dead), n.groups)
    BY <1>1, <1>4 DEF Takes, Pruned
  <2> QED BY <2>1, <2>2, <2>3, <2>4 DEF Removes
<1>7. ASSUME NEW v, V = {v} PROVE RemovesOne(s, v, n)
  <2>1. v \in Leaves(s.tree)
    BY <1>7
  <2>2. Takes(s, L, {v}, w, out) /\ Fits(s, L)
    BY <1>1, <1>7 DEF L
  <2>3. /\ ToSet(dead) = {v}
        /\ InRange(s) => InRange(out)
        /\ ActivePane(s) # v => ActivePane(out) = ActivePane(s)
    <3>1. TakesOne(s, v, w, out)
      BY <2>1, <2>2, OneTakenOut
    <3> QED BY <3>1 DEF TakesOne
  <2>4. Leaves(n.tree) = Leaves(s.tree) \ {v}
    BY <1>5, <2>3 DEF L
  <2>5. InRange(s) => InRange(n)
    BY <1>4, <2>3 DEF Pruned
  <2>6. ASSUME ActivePane(s) # v, ActivePane(s) \notin s.hidden
        PROVE  ActivePane(n) = ActivePane(s)
    <3>1. ActivePane(out) = ActivePane(s) /\ out.hidden = s.hidden
      BY <1>1, <2>3, <2>6 DEF Takes
    <3>2. n.active = out.active /\ n.zoomed = out.zoomed
      BY <1>4, <2>6, <3>1 DEF Pruned
    <3>3. ActivePane(n) = ActivePane(out)
      BY <1>5, <3>2 DEF ActivePane
    <3> QED BY <3>1, <3>3
  <2> QED BY <1>6, <2>4, <2>5, <2>6 DEF RemovesOne
<1> QED BY <1>6, <1>7 DEF n

-----------------------------------------------------------------------------
(* Panes that come in.                                                     *)

(* Another tree, with another pane active.                                 *)
Retree(s, t, a, n) == n = [s EXCEPT !.tree = t, !.active = a]

Retrees(s, L, t, a, n) ==
  /\ Fits(n, L) /\ SameUnits(s, n) /\ n.tree = t /\ n.active = a
  /\ n.zoomed = s.zoomed /\ n.hidden = s.hidden /\ n.groups = s.groups
  /\ n.stacks = s.stacks /\ n.next_id = s.next_id

LEMMA Retreed ==
  ASSUME NEW s, NEW L, Fits(s, L), NEW t \in PaneTrees, IsTree(t),
         s.zoomed \in Leaves(t) \cup {None}, NEW a \in Nat,
         NEW n, Retree(s, t, a, n)
  PROVE  Retrees(s, L, t, a, n)
<1>1. s \in TabStates /\ UnitsFit(s, L)
  BY DEF Fits
<1>2. /\ n \in TabStates /\ n.tree = t /\ n.active = a
      /\ n.zoomed = s.zoomed /\ n.hidden = s.hidden /\ n.groups = s.groups
      /\ n.stacks = s.stacks /\ n.next_id = s.next_id
  BY <1>1 DEF TabStates, Retree
<1>3. SameUnits(s, n)
  BY <1>2 DEF SameUnits
<1>4. UnitsFit(n, L)
  BY <1>1, <1>2 DEF UnitsFit
<1> QED BY <1>2, <1>3, <1>4 DEF Fits, Retrees

LEMMA FitsMore ==
  ASSUME NEW s, NEW L, Fits(s, L), NEW M \in SUBSET Pane, L \subseteq M
  PROVE  Fits(s, M)
<1>1. GroupsFit(s.groups, s.next_id, L) /\ StacksNamed(s.stacks, s.groups, L)
  BY DEF Fits, UnitsFit
<1>2. GroupsFit(s.groups, s.next_id, M)
  BY <1>1 DEF GroupsFit
<1>3. StacksNamed(s.stacks, s.groups, M)
  BY <1>1 DEF StacksNamed
<1> QED BY <1>2, <1>3 DEF Fits, UnitsFit

(* A group without a name for its panes in the stacks so far.              *)
LEMMA NewGroupNotStacked ==
  ASSUME NEW s, NEW L, Fits(s, L)
  PROVE  ~ InStack(s.stacks, GroupUnit(s.next_id))
<1>1. /\ GroupsFit(s.groups, s.next_id, L) /\ StacksNamed(s.stacks, s.groups, L)
      /\ s.next_id \in Nat /\ s.groups \in GroupMaps
  BY DEF Fits, UnitsFit, TabStates
<1>2. PICK k \in Nat : k = s.next_id
  BY <1>1
<1>3. \A g \in DOMAIN s.groups : g \in Nat /\ g < k
  BY <1>1, <1>2, GroupTyped DEF GroupsFit
<1>4. k \notin DOMAIN s.groups
  BY <1>3
<1>5. \A x : UnitBy(s.groups, x) # GroupUnit(k)
  BY <1>1, <1>4, UnitOnly
<1> QED BY <1>1, <1>2, <1>5 DEF StacksNamed

(* adopt: `new` joins the group of p, or the two make one.                 *)
Gathers(m, p, new, m2) ==
  \A g \in DOMAIN m2 :
    \/ /\ g \in DOMAIN m
       /\ MembersIn(m2, g) = IF p \in MembersIn(m, g) THEN MembersIn(m, g) \cup {new}
                             ELSE MembersIn(m, g)
    \/ MembersIn(m2, g) = {p, new}

Adopts(s, p, new, M, n) ==
  /\ Fits(n, M) /\ Gathers(s.groups, p, new, n.groups)
  /\ n.tree = s.tree /\ n.active = s.active /\ n.zoomed = s.zoomed
  /\ n.hidden = s.hidden
  /\ n.next_id = s.next_id \/ n.next_id = s.next_id + 1

LEMMA JoinsGroup ==
  ASSUME NEW s, NEW L, Fits(s, L), NEW new \in Pane \ L, NEW g \in DOMAIN s.groups,
         NEW p \in MembersIn(s.groups, g)
  PROVE  \E m : /\ Rebuilds(s, L \cup {new}, m, s.stacks, s.next_id, s.hidden,
                            [s EXCEPT !.groups[g].members = Append(@, new)])
                /\ Gathers(s.groups, p, new, m)
<1> DEFINE m == s.groups
           M == L \cup {new}
           ps == Append(m[g].members, new)
           last == m[g].last_active
           m2 == [m EXCEPT ![g] = [members |-> ps, last_active |-> last]]
           n == [s EXCEPT !.groups[g].members = Append(@, new)]
<1>1. /\ s \in TabStates /\ IsTree(s.tree) /\ s.zoomed \in Leaves(s.tree) \cup {None}
      /\ GroupsFit(m, s.next_id, L) /\ L \in SUBSET Pane /\ s.next_id \in Nat
      /\ s.hidden \subseteq L /\ StacksShaped(s.stacks) /\ StacksNamed(s.stacks, m, L)
  BY DEF Fits, UnitsFit, TabStates
<1>2. /\ \A h \in DOMAIN m : MembersIn(m, h) \subseteq L
      /\ \A h \in DOMAIN m : h # g => MembersIn(m, h) \cap MembersIn(m, g) = {}
      /\ last \in MembersIn(m, g) /\ IsInjective(m[g].members)
      /\ Len(m[g].members) >= 2
  BY <1>1 DEF GroupsFit
<1>3. /\ m[g].members \in Seq(Pane) /\ Len(m[g].members) \in Nat
      /\ m[g] = [members |-> m[g].members, last_active |-> last]
  BY <1>1, GroupTyped DEF GroupsFit
<1>4. PICK q \in Seq(Pane) : q = m[g].members
  BY <1>3
<1>5. IsLonger(Pane, q, new, ps)
  BY <1>4, Appended
<1>6. ToSet(q) = MembersIn(m, g) /\ new \notin ToSet(q)
  BY <1>2, <1>4 DEF MembersIn
<1>7. /\ ps \in Seq(Pane) /\ IsInjective(ps) /\ Len(ps) >= 2
      /\ ToSet(ps) = MembersIn(m, g) \cup {new}
  BY <1>2, <1>3, <1>4, <1>5, <1>6 DEF IsLonger
<1>8. /\ last \in ToSet(ps) /\ ToSet(ps) \subseteq M
      /\ \A h \in DOMAIN m : h # g => /\ MembersIn(m, h) \subseteq M
                                      /\ MembersIn(m, h) \cap ToSet(ps) = {}
  BY <1>2, <1>7
<1>9. Changes(m, g, ps, last, m2)
  BY DEF Changes
<1>10. M \in SUBSET Pane /\ s.hidden \in SUBSET M
  BY <1>1
<1>11. GroupsFit(m2, s.next_id, M) /\ IsChanged(m, g, ps, m2)
  <2>1. g \in DOMAIN m
    OBVIOUS
  <2>2. GroupsFit(m, s.next_id, L) /\ s.next_id \in Nat /\ M \in SUBSET Pane
    BY <1>1, <1>10
  <2> HIDE DEF m, M, ps, last, m2
  <2>3. CanHave(m, g, ps, M) /\ last \in ToSet(ps)
    BY <1>7, <1>8 DEF CanHave
  <2> QED BY <1>9, <2>1, <2>2, <2>3, GroupChanged
<1>12. StacksNamed(s.stacks, m2, M)
  <2>1. SUFFICES ASSUME NEW x, InStack(s.stacks, x) PROVE \E y \in M : UnitBy(m2, y) = x
    BY DEF StacksNamed
  <2>2. PICK y \in L : UnitBy(m, y) = x
    BY <1>1, <2>1 DEF StacksNamed
  <2>3. CASE y \in MembersIn(m, g)
    <3>1. x = GroupUnit(g)
      BY <1>1, <2>2, <2>3, UnitOnly
    <3>2. UnitBy(m2, y) = GroupUnit(g)
      BY <1>7, <1>11, <2>3 DEF IsChanged
    <3> QED BY <3>1, <3>2
  <2>4. CASE y \notin MembersIn(m, g)
    <3>1. y \notin ToSet(ps)
      BY <1>7, <2>4
    <3>2. UnitBy(m2, y) = UnitBy(m, y)
      BY <1>11, <2>4, <3>1 DEF IsChanged
    <3> QED BY <2>2, <3>2
  <2> QED BY <2>3, <2>4
<1>13. Rebuild(s, m2, s.stacks, s.next_id, s.hidden, n)
  <2>1. n = [s EXCEPT !.groups = [m EXCEPT ![g].members = ps]]
    BY <1>1 DEF TabStates
  <2> HIDE DEF n, ps
  <2>2. [m EXCEPT ![g].members = ps] = m2
    <3>1. \A a, b, c : [[members |-> a, last_active |-> b] EXCEPT !.members = c]
                         = [members |-> c, last_active |-> b]
      OBVIOUS
    <3>2. [m[g] EXCEPT !.members = ps] = [members |-> ps, last_active |-> last]
      BY <1>3, <3>1
    <3> HIDE DEF m, last
    <3> QED BY <3>2
  <2> HIDE DEF m2
  <2>3. n = [s EXCEPT !.groups = m2]
    BY <2>1, <2>2
  <2> QED BY <1>1, <2>3 DEF TabStates, Rebuild
<1>15. Gathers(m, p, new, m2)
  <2>1. \A h \in DOMAIN m : p \in MembersIn(m, h) <=> h = g
    BY <1>2
  <2>2. /\ DOMAIN m2 = DOMAIN m /\ MembersIn(m2, g) = MembersIn(m, g) \cup {new}
        /\ \A h \in DOMAIN m : h # g => MembersIn(m2, h) = MembersIn(m, h)
    <3> HIDE DEF m, m2, ps
    <3> QED BY <1>7, <1>11 DEF IsChanged
  <2> HIDE DEF m2
  <2> QED BY <2>1, <2>2 DEF Gathers
<1> HIDE DEF M, last, m2, n, ps
<1>14. Rebuilds(s, M, m2, s.stacks, s.next_id, s.hidden, n)
  <2>1. /\ s \in TabStates /\ IsTree(s.tree) /\ s.zoomed \in Leaves(s.tree) \cup {None}
        /\ s.next_id \in Nat /\ StacksShaped(s.stacks)
    BY <1>1
  <2>2. GroupsFit(m2, s.next_id, M)
    BY <1>11
  <2> QED BY <1>10, <1>12, <1>13, <2>1, <2>2, Rebuilt
<1> QED BY <1>14, <1>15 DEF M, n

(* A new group takes the place of the unit that was one of its panes.      *)

LEMMA BecomesGroup ==
  ASSUME NEW s, NEW L, Fits(s, L), NEW p \in L, NEW new \in Pane \ L,
         UnitBy(s.groups, p) = PaneUnit(p)
  PROVE  \E m, K :
           /\ Rebuilds(s, L \cup {new}, m, K, s.next_id + 1, s.hidden,
                RenameUnit(CreateGroup(s, <<p, new>>, new), PaneUnit(p),
                           GroupUnit(s.next_id)))
           /\ Gathers(s.groups, p, new, m)
<1> DEFINE m == s.groups
           M == L \cup {new}
           k == s.next_id
           ps == <<p, new>>
           u == PaneUnit(p)
           v == GroupUnit(k)
           c == CreateGroup(s, ps, new)
           n == RenameUnit(c, u, v)
           m2 == [g \in DOMAIN m \cup {k} |->
                    IF g = k THEN [members |-> ps, last_active |-> new] ELSE m[g]]
           K2 == {[j EXCEPT !.units = ReplaceAll(@, u, v)] : j \in s.stacks}
<1>1. /\ s \in TabStates /\ IsTree(s.tree) /\ s.zoomed \in Leaves(s.tree) \cup {None}
      /\ GroupsFit(m, k, L) /\ L \in SUBSET Pane /\ k \in Nat /\ k + 1 \in Nat
      /\ s.hidden \subseteq L /\ StacksShaped(s.stacks) /\ StacksNamed(s.stacks, m, L)
  BY DEF Fits, UnitsFit, TabStates
<1>2. M \in SUBSET Pane /\ s.hidden \in SUBSET M /\ p \in Pane /\ p # new
  BY <1>1
<1>3. GroupsFit(m, k, M)
  BY <1>1 DEF GroupsFit
<1>4. /\ ps \in Seq(Pane) /\ IsInjective(ps) /\ Len(ps) >= 2 /\ ToSet(ps) = {p, new}
  <2>1. ps \in Seq(Pane) /\ Len(ps) = 2 /\ DOMAIN ps = {1, 2}
    BY <1>2
  <2>2. ps[1] = p /\ ps[2] = new
    OBVIOUS
  <2> HIDE DEF ps
  <2>3. ToSet(ps) = {p, new}
    BY <2>1, <2>2 DEF ToSet
  <2>4. IsInjective(ps)
    BY <1>2, <2>1, <2>2 DEF IsInjective
  <2> QED BY <2>1, <2>3, <2>4
<1>5. ToSet(ps) \subseteq M /\ new \in ToSet(ps)
  BY <1>4
<1>6. \A g \in DOMAIN m : MembersIn(m, g) \cap ToSet(ps) = {}
  <2>1. \A g \in DOMAIN m : p \notin MembersIn(m, g)
    BY <1>1, UnitOnly
  <2>2. \A g \in DOMAIN m : MembersIn(m, g) \subseteq L
    BY <1>1 DEF GroupsFit
  <2> QED BY <1>4, <2>1, <2>2
<1>7. Adds(m, k, ps, new, m2)
  BY DEF Adds
<1>8. /\ GroupsFit(m2, k + 1, M)
      /\ DOMAIN m2 = DOMAIN m \cup {k} /\ m2[k].members = ps
      /\ \A g \in DOMAIN m : m2[g] = m[g]
      /\ \A x \in ToSet(ps) : UnitBy(m2, x) = GroupUnit(k)
      /\ \A x \in M \ ToSet(ps) : UnitBy(m2, x) = UnitBy(m, x)
  <2>1. k \in Nat /\ M \in SUBSET Pane
    BY <1>1, <1>2
  <2>2. ps \in Seq(Pane) /\ IsInjective(ps) /\ Len(ps) >= 2
    BY <1>4
  <2> HIDE DEF m, M, k, ps, m2
  <2>3. GroupsFit(m2, k + 1, M) /\ IsAdded(m, k, ps, M, m2)
    BY <1>3, <1>5, <1>6, <1>7, <2>1, <2>2, GroupAdded
  <2> QED BY <2>3 DEF IsAdded
<1>9. v \in AnyUnit /\ ~ InStack(s.stacks, v)
  BY <1>1, UnitKinds, NewGroupNotStacked
<1>10. Renames(s.stacks, u, v, K2)
  BY DEF Renames
<1>11. /\ StacksShaped(K2)
       /\ \A x : InStack(K2, x) <=> \/ x # u /\ InStack(s.stacks, x)
                                    \/ x = v /\ InStack(s.stacks, u)
  <2> HIDE DEF u, v, K2
  <2> QED BY <1>1, <1>9, <1>10, StackRenamed
<1>12. StacksNamed(K2, m2, M)
  <2>1. SUFFICES ASSUME NEW x, InStack(K2, x) PROVE \E y \in M : UnitBy(m2, y) = x
    BY DEF StacksNamed
  <2>2. CASE x # u /\ InStack(s.stacks, x)
    <3>1. PICK y \in L : UnitBy(m, y) = x
      BY <1>1, <2>2 DEF StacksNamed
    <3>2. y \notin ToSet(ps) /\ y \in M
      BY <1>4, <2>2, <3>1
    <3> QED BY <1>8, <3>1, <3>2
  <2>3. CASE x = v
    BY <1>4, <1>5, <1>8, <2>3
  <2> QED BY <1>11, <2>1, <2>2, <2>3
<1>13. Rebuild(s, m2, K2, k + 1, s.hidden, n)
  <2>1. c = [s EXCEPT !.groups = m2, !.next_id = k + 1]
    BY <1>1 DEF CreateGroup, TabStates
  <2>2. c.stacks = s.stacks
    <3> HIDE DEF m2
    <3> QED BY <1>1, <2>1 DEF TabStates
  <2> HIDE DEF c
  <2>3. n = [c EXCEPT !.stacks = K2]
    BY <2>2 DEF RenameUnit
  <2> HIDE DEF m2, K2, n
  <2> QED BY <1>1, <2>1, <2>3 DEF TabStates, Rebuild
<1>15. Gathers(m, p, new, m2)
  <2>1. \A g \in DOMAIN m : p \notin MembersIn(m, g)
    BY <1>4, <1>6
  <2> HIDE DEF m, m2, ps, k
  <2>2. MembersIn(m2, k) = {p, new}
    BY <1>4, <1>8 DEF MembersIn
  <2>3. \A g \in DOMAIN m : MembersIn(m2, g) = MembersIn(m, g)
    BY <1>8 DEF MembersIn
  <2> QED BY <1>8, <2>1, <2>2, <2>3 DEF Gathers
<1> HIDE DEF M, k, u, v, m2, K2, n, c
<1>14. Rebuilds(s, M, m2, K2, k + 1, s.hidden, n)
  BY <1>1, <1>2, <1>8, <1>11, <1>12, <1>13, Rebuilt
<1> QED BY <1>14, <1>15 DEF M, n, k, u, v, c

LEMMA Adopted ==
  ASSUME NEW s, NEW L, Fits(s, L), NEW p \in L, NEW new \in Pane \ L
  PROVE  Adopts(s, p, new, L \cup {new}, Adopt(s, p, new))
<1> DEFINE n == Adopt(s, p, new)
           u == UnitBy(s.groups, p)
           M == L \cup {new}
<1>1. GroupsFit(s.groups, s.next_id, L) /\ L \in SUBSET Pane
  BY DEF Fits, UnitsFit
<1>2. UnitOf(s, p) = u
  BY UnitByGroups
<1>3. n = IF u.kind = "group"
          THEN [s EXCEPT !.groups[u.id].members = Append(@, new)]
          ELSE IF Stacked(s, u)
          THEN RenameUnit(CreateGroup(s, <<p, new>>, new), u, GroupUnit(s.next_id))
          ELSE s
  BY <1>2 DEF Adopt
<1> HIDE DEF n
<1>4. InGroup(s.groups, p, u) \/ InNoGroup(s.groups, p, u)
  BY <1>1, UnitIs, GroupTyped DEF GroupsFit
<1>5. CASE InGroup(s.groups, p, u)
  <2>1. PICK g \in DOMAIN s.groups : u = GroupUnit(g) /\ p \in MembersIn(s.groups, g)
    BY <1>5 DEF InGroup
  <2>2. n = [s EXCEPT !.groups[g].members = Append(@, new)]
    BY <1>3, <2>1, UnitKinds
  <2>3. PICK m : /\ Rebuilds(s, M, m, s.stacks, s.next_id, s.hidden, n)
                 /\ Gathers(s.groups, p, new, m)
    BY <2>1, <2>2, JoinsGroup
  <2> QED BY <2>3 DEF Rebuilds, Adopts, n
<1>6. CASE InNoGroup(s.groups, p, u)
  <2>1. u = PaneUnit(p) /\ u.kind = "pane"
    BY <1>6, UnitKinds DEF InNoGroup
  <2>2. CASE Stacked(s, u)
    <3>1. n = RenameUnit(CreateGroup(s, <<p, new>>, new), PaneUnit(p), GroupUnit(s.next_id))
      BY <1>3, <2>1, <2>2
    <3>2. UnitBy(s.groups, p) = PaneUnit(p)
      BY <2>1
    <3>3. PICK m, K : /\ Rebuilds(s, M, m, K, s.next_id + 1, s.hidden, n)
                      /\ Gathers(s.groups, p, new, m)
      BY <3>1, <3>2, BecomesGroup
    <3> QED BY <3>3 DEF Rebuilds, Adopts, n
  <2>3. CASE ~ Stacked(s, u)
    <3>1. n = s
      BY <1>3, <2>1, <2>3
    <3>2. Fits(s, M)
      BY <1>1, FitsMore
    <3>3. Gathers(s.groups, p, new, s.groups)
      BY <1>6 DEF InNoGroup, Gathers
    <3> QED BY <3>1, <3>2, <3>3 DEF Adopts, n
  <2> QED BY <2>2, <2>3
<1> QED BY <1>4, <1>5, <1>6

(* split_and_insert: the panes of n's tree are those of s's and one more.  *)
Inserts(s, new, n) ==
  /\ InPlace(s) => InPlace(n)
  /\ Fits(n, Leaves(n.tree)) /\ Leaves(n.tree) = Leaves(s.tree) \cup {new}
  /\ n.zoomed = s.zoomed
  /\ n.next_id = s.next_id \/ n.next_id = s.next_id + 1
  /\ InRange(s) => InRange(n)

LEMMA PaneInserted ==
  ASSUME NEW s, Fits(s, Leaves(s.tree)), NEW p \in Leaves(s.tree),
         NEW new \in Pane \ Leaves(s.tree), NEW second \in BOOLEAN, NEW top \in BOOLEAN
  PROVE  Inserts(s, new, SplitAndInsert(s, p, new, second, top))
<1> DEFINE count == Len(s.tree.order)
           at == PositionOf(s.tree.order, p) - 1
           n == SplitAndInsert(s, p, new, second, top)
           L == Leaves(s.tree)
           M == L \cup {new}
<1>1. /\ s \in TabStates /\ s.tree \in PaneTrees /\ IsTree(s.tree) /\ s.active \in Nat
      /\ s.zoomed \in L \cup {None}
  BY DEF Fits, TabStates
<1>2. /\ L \in SUBSET Pane /\ M \in SUBSET Pane /\ at \in Nat /\ count \in Nat /\ at < count
      /\ s.tree.order # <<>>
  BY <1>1, TreePlaces
<1>3. PICK k \in Nat, i \in Nat : k = count /\ i = at /\ i < k
  BY <1>2
<1> HIDE DEF count, at
<1>4. CASE top /\ count > 1
  <2>1. PICK t, a : t = SplitRoot(s.tree, new, second) /\ a = IF second THEN k ELSE 0
    OBVIOUS
  <2>2. Grows(s.tree, <<new>>, t) /\ ToSet(<<new>>) = {new} /\ Len(<<new>>) = 1
    BY <1>1, <2>1, SplitGrows
  <2>3. /\ t \in PaneTrees /\ IsTree(t) /\ Leaves(t) = M /\ Len(t.order) = k + 1
        /\ a \in Nat /\ a < k + 1
    BY <1>3, <2>1, <2>2 DEF Grows, count
  <2>4. n = [s EXCEPT !.tree = t, !.active = a]
    BY <1>1, <1>3, <1>4, <2>1 DEF SplitAndInsert, TabStates, count
  <2>5. Retree(s, t, a, n)
    BY <2>4 DEF Retree
  <2>6. s.zoomed \in Leaves(t) \cup {None} /\ Fits(s, M)
    BY <1>1, <1>2, <2>3, FitsMore
  <2> HIDE DEF n, M
  <2>7. Retrees(s, M, t, a, n)
    BY <2>3, <2>5, <2>6, Retreed
  <2>8. InRange(n)
    BY <2>3, <2>7 DEF Retrees, InRange
  <2>9. ASSUME InPlace(s) PROVE InPlace(n)
    <3>1. s.tree.sets \subseteq t.sets
      BY <1>1, <2>1, SplitsAround
    <3> QED BY <2>7, <2>9, <3>1 DEF Retrees, InPlace
  <2> QED BY <2>3, <2>7, <2>8, <2>9 DEF Retrees, Inserts, M, n
<1>5. CASE ~ (top /\ count > 1)
  <2>1. PICK t, a : /\ t = SplitLeaf(s.tree, p, new, second)
                    /\ a = IF second THEN i + 1 ELSE s.active
    OBVIOUS
  <2>2. Grows(s.tree, <<new>>, t) /\ ToSet(<<new>>) = {new} /\ Len(<<new>>) = 1
    BY <1>1, <2>1, SplitGrows
  <2>3. /\ t \in PaneTrees /\ IsTree(t) /\ Leaves(t) = M /\ Len(t.order) = k + 1
        /\ a \in Nat
    BY <1>1, <1>3, <2>1, <2>2 DEF Grows, count
  <2> DEFINE b == [s EXCEPT !.tree = t, !.active = a]
  <2>4. n = Adopt(b, p, new)
    <3>1. n = Adopt([s EXCEPT !.tree = SplitLeaf(@, p, new, second),
                              !.active = IF second THEN at + 1 ELSE @], p, new)
      BY <1>5 DEF SplitAndInsert, count, at
    <3>2. [s EXCEPT !.tree = SplitLeaf(@, p, new, second),
                    !.active = IF second THEN at + 1 ELSE @] = b
      BY <1>1, <1>3, <2>1 DEF TabStates
    <3> HIDE DEF n, b
    <3> QED BY <3>1, <3>2
  <2>5. Retree(s, t, a, b)
    BY DEF Retree
  <2>6. s.zoomed \in Leaves(t) \cup {None}
    BY <1>1, <2>3
  <2> HIDE DEF n, b, M, L
  <2>7. Retrees(s, L, t, a, b)
    BY <2>3, <2>5, <2>6, Retreed DEF L
  <2>8. Adopts(b, p, new, M, n)
    <3>1. Fits(b, L)
      BY <2>7 DEF Retrees
    <3> QED BY <2>4, <3>1, Adopted DEF L, M
  <2>9. ASSUME InRange(s) PROVE InRange(n)
    <3>1. s.active < k
      BY <1>2, <1>3, <2>9 DEF InRange, count
    <3>2. a < k + 1
      BY <1>1, <1>3, <2>1, <3>1
    <3> QED BY <2>3, <2>7, <2>8, <3>2 DEF Adopts, Retrees, InRange
  <2>10. ASSUME InPlace(s) PROVE InPlace(n)
    <3>1. Gathers(s.groups, p, new, n.groups) /\ n.tree = t
      BY <2>7, <2>8 DEF Retrees, Adopts
    <3>2. /\ {p, new} \in t.sets
          /\ \A S \in s.tree.sets : IF p \in S THEN S \cup {new} \in t.sets ELSE S \in t.sets
      BY <1>1, <2>1, SplitsAround DEF L
    <3> QED BY <2>10, <3>1, <3>2 DEF Gathers, InPlace
  <2> QED BY <2>3, <2>7, <2>8, <2>9, <2>10 DEF Retrees, Adopts, Inserts, M, L, n
<1> QED BY <1>4, <1>5

-----------------------------------------------------------------------------
(* dock_unit                                                               *)

TakesEach(f, s, source, n) ==
  f = [i \in 0 .. n |-> IF i = 0 THEN s ELSE TakeOut(f[i - 1], {source[i]})]

LEMMA TakingEnds ==
  ASSUME NEW s, NEW source, NEW n \in Nat
  PROVE  \E f : TakesEach(f, s, source, n)
<1> DEFINE E == {m \in Nat : \E f : TakesEach(f, s, source, m)}
<1>1. 0 \in E
  <2>1. TakesEach([i \in 0 .. 0 |-> s], s, source, 0)
    BY DEF TakesEach
  <2> QED BY <2>1
<1>2. ASSUME NEW m \in 1 .. n, m - 1 \in E PROVE m \in E
  <2>1. PICK f : TakesEach(f, s, source, m - 1)
    BY <1>2
  <2> DEFINE g == [i \in 0 .. m |-> IF i = m THEN TakeOut(f[m - 1], {source[m]}) ELSE f[i]]
             r == [i \in 0 .. m |-> IF i = 0 THEN s ELSE TakeOut(g[i - 1], {source[i]})]
  <2>2. ASSUME NEW i \in 0 .. m PROVE g[i] = r[i]
    <3>1. f = [j \in 0 .. m - 1 |-> IF j = 0 THEN s ELSE TakeOut(f[j - 1], {source[j]})]
      BY <2>1 DEF TakesEach
    <3>2. CASE i = m
      <4>1. m - 1 \in 0 .. m /\ m - 1 # m /\ m # 0
        OBVIOUS
      <4>2. g[m - 1] = f[m - 1]
        BY <4>1
      <4> QED BY <3>2, <4>1, <4>2
    <3>3. CASE i # m
      <4>1. i \in 0 .. m - 1 /\ g[i] = f[i]
        BY <3>3
      <4>2. CASE i = 0
        BY <3>1, <4>1, <4>2
      <4>3. CASE i # 0
        <5>1. i - 1 \in 0 .. m /\ i - 1 # m
          BY <4>1, <4>3
        <5>2. g[i - 1] = f[i - 1]
          BY <5>1
        <5>3. f[i] = TakeOut(f[i - 1], {source[i]})
          BY <3>1, <4>1, <4>3
        <5>4. r[i] = TakeOut(g[i - 1], {source[i]})
          BY <4>3
        <5> QED BY <4>1, <5>2, <5>3, <5>4
      <4> QED BY <4>2, <4>3
    <3> QED BY <3>2, <3>3
  <2>3. g = r
    BY <2>2
  <2>4. TakesEach(g, s, source, m)
    <3> HIDE DEF g
    <3> QED BY <2>3 DEF TakesEach
  <2> QED BY <2>4
<1> HIDE DEF E
<1>3. n \in E
  BY <1>1, <1>2, UpTo
<1> QED BY <1>3 DEF E

(* A pane is taken out beside the subtree T.                               *)
StillThere(s, L, T, v, n) ==
  /\ n.tree.sets = Shrunk(s.tree.sets, {v}) /\ n.stacks = s.stacks
  /\ Fits(n, L) /\ SameUnits(s, n) /\ n.zoomed = None /\ n.hidden = s.hidden
  /\ Leaves(n.tree) = Leaves(s.tree) \ {v} /\ T \in n.tree.sets

LEMMA TakenBeside ==
  ASSUME NEW s, NEW L, Fits(s, L), s.zoomed = None, NEW T \in s.tree.sets,
         NEW v \in Leaves(s.tree) \ T
  PROVE  StillThere(s, L, T, v, TakeOut(s, {v}))
<1> DEFINE n == TakeOut(s, {v})
<1>1. PICK t \in PaneTrees : t = s.tree /\ IsTree(t)
  BY DEF Fits, TabStates
<1>2. PICK w : w = Walk(s.tree, {v})
  OBVIOUS
<1>3. Takes(s, L, {v}, w, n)
  BY <1>2, TakenOutOf
<1> HIDE DEF n
<1>4. TakesOne(s, v, w, n)
  BY <1>3, OneTakenOut
<1>5. T # {} /\ T \subseteq Leaves(t)
  BY <1>1 DEF IsTree, Leaves
<1>6. PICK x \in T : x # v /\ x \in Leaves(t)
  BY <1>1, <1>5
<1>7. Len(t.order) > 1
  BY <1>1, <1>6, LeavesCounted
<1>8. w.tree = RemoveLeaf(t, v)
  <2>1. Len(t.order) # 1
    <3>1. \A m \in Nat : m > 1 => m # 1
      OBVIOUS
    <3>2. Len(t.order) \in Nat
      BY TreeFacts
    <3> QED BY <1>7, <3>1, <3>2
  <2>2. TookOnly(t, v, w) /\ w.dead_panes # <<>>
    BY <1>1, <1>3 DEF Takes, Exact
  <2> QED BY <2>1, <2>2 DEF TookOnly
<1>9. T \in n.tree.sets
  <2>1. n.tree.sets = {S \ {v} : S \in t.sets} \ {{}}
    BY <1>3, <1>8 DEF Takes, RemoveLeaf
  <2>2. T \ {v} = T
    OBVIOUS
  <2> QED BY <1>1, <1>5, <2>1, <2>2
<1>10. n.zoomed = None
  BY <1>3 DEF Takes
<1>11. n.tree.sets = Shrunk(s.tree.sets, {v})
  BY <1>3, <1>4 DEF Takes, TakesOne, Sane
<1> QED BY <1>3, <1>4, <1>9, <1>10, <1>11 DEF Takes, TakesOne, StillThere, n

(* Taken out one by one.                                                   *)
ShrinksBy(s, D, n) == n.tree.sets = Shrunk(s.tree.sets, D)

LEMMA ShrinksOn ==
  ASSUME NEW s, NEW D, NEW r, NEW p, NEW n, ShrinksBy(s, D, r), ShrinksBy(r, {p}, n)
  PROVE  ShrinksBy(s, D \cup {p}, n)
<1>1. PICK sets : sets = s.tree.sets
  OBVIOUS
<1>2. n.tree.sets = Shrunk(Shrunk(sets, D), {p})
  BY <1>1 DEF ShrinksBy
<1>3. ASSUME NEW S \in sets PROVE S \ (D \cup {p}) = (S \ D) \ {p}
  OBVIOUS
<1>4. ASSUME NEW R \in n.tree.sets PROVE R \in Shrunk(sets, D \cup {p})
  <2>1. PICK S \in sets : R = (S \ D) \ {p} /\ R # {}
    BY <1>2 DEF Shrunk
  <2> QED BY <1>3, <2>1 DEF Shrunk
<1>5. ASSUME NEW R \in Shrunk(sets, D \cup {p}) PROVE R \in n.tree.sets
  <2>1. PICK S \in sets : R = S \ (D \cup {p}) /\ R # {}
    BY DEF Shrunk
  <2>2. R = (S \ D) \ {p} /\ S \ D # {}
    BY <1>3, <2>1
  <2>3. S \ D \in Shrunk(sets, D)
    BY <2>2 DEF Shrunk
  <2> QED BY <1>2, <2>1, <2>2, <2>3 DEF Shrunk
<1>6. PICK new : new = n.tree.sets
  OBVIOUS
<1>7. new = Shrunk(sets, D \cup {p})
  BY <1>4, <1>5, <1>6
<1> QED BY <1>1, <1>6, <1>7 DEF ShrinksBy

TakesAll(s, L, T, source, n) ==
  /\ Fits(n, L) /\ SameUnits(s, n) /\ n.zoomed = None
  /\ n.hidden = s.hidden /\ n.stacks = s.stacks
  /\ Leaves(n.tree) = L \ ToSet(source) /\ T \in n.tree.sets
  /\ n.tree.sets = Shrunk(s.tree.sets, ToSet(source))

LEMMA TakenInTurn ==
  ASSUME NEW s, Fits(s, Leaves(s.tree)), s.zoomed = None, NEW T \in s.tree.sets,
         NEW source \in Seq(Leaves(s.tree)), IsInjective(source),
         ToSet(source) \cap T = {},
         NEW f, TakesEach(f, s, source, Len(source)),
         NEW n, n = f[Len(source)]
  PROVE  TakesAll(s, Leaves(s.tree), T, source, n)
<1> DEFINE L == Leaves(s.tree)
           k == Len(source)
           gone(i) == {source[j] : j \in 1 .. i}
           Good(a, i) == /\ Fits(a, L) /\ SameUnits(s, a) /\ a.zoomed = None
                         /\ a.hidden = s.hidden /\ a.stacks = s.stacks
                         /\ Leaves(a.tree) = L \ gone(i) /\ T \in a.tree.sets
                         /\ a.tree.sets = Shrunk(s.tree.sets, gone(i))
           E == {i \in 0 .. k : Good(f[i], i)}
<1>1. k \in Nat /\ DOMAIN source = 1 .. k /\ \A i \in 1 .. k : source[i] \in L
  BY LenProperties, ElementOfSeq
<1>2. f = [i \in 0 .. k |-> IF i = 0 THEN s ELSE TakeOut(f[i - 1], {source[i]})]
  BY DEF TakesEach
<1>3. gone(k) = ToSet(source) /\ \A i \in 1 .. k : source[i] \notin T
  BY <1>1, SetOfSeq
<1> HIDE DEF k
<1>4. 0 \in E
  <2>1. f[0] = s
    <3>1. 0 \in 0 .. k
      BY <1>1
    <3> HIDE DEF L, gone, Good
    <3> QED BY <1>2, <3>1
  <2>3. gone(0) = {} /\ L \ gone(0) = L
    OBVIOUS
  <2>4. Shrunk(s.tree.sets, {}) = s.tree.sets
    <3>1. {} \notin s.tree.sets
      BY DEF Fits, IsTree
    <3> QED BY <3>1 DEF Shrunk
  <2>2. Good(s, 0)
    BY <2>3, <2>4, SameSame
  <2> HIDE DEF Good
  <2> QED BY <1>1, <2>1, <2>2
<1>5. ASSUME NEW i \in 1 .. k, i - 1 \in E PROVE i \in E
  <2>1. f[i] = TakeOut(f[i - 1], {source[i]})
    <3>1. i \in 0 .. k /\ i # 0
      BY <1>1
    <3> HIDE DEF L, gone, Good, E
    <3> QED BY <1>2, <3>1
  <2>2. PICK a, v, c : a = f[i - 1] /\ v = source[i] /\ c = f[i]
    OBVIOUS
  <2>3. Good(a, i - 1)
    BY <1>5, <2>2
  <2>4. v \in L /\ v \notin gone(i - 1) /\ v \notin T
    <3>1. \A j \in 1 .. i - 1 : j \in 1 .. k /\ j # i
      BY <1>1
    <3>2. \A j \in 1 .. k : source[j] = source[i] => j = i
      BY <1>1 DEF IsInjective
    <3> QED BY <1>1, <1>3, <2>2, <3>1, <3>2
  <2>5. gone(i) = gone(i - 1) \cup {v}
    <3>1. \A j : j \in 1 .. i <=> j \in 1 .. i - 1 \/ j = i
      BY <1>1
    <3> QED BY <2>2, <3>1
  <2> HIDE DEF gone
  <2>6. v \in Leaves(a.tree) \ T
    BY <2>3, <2>4
  <2>7. StillThere(a, L, T, v, c)
    BY <2>1, <2>2, <2>3, <2>6, TakenBeside
  <2>8. SameUnits(s, c)
    BY <2>3, <2>7, SameThrough DEF StillThere
  <2>11. c.tree.sets = Shrunk(s.tree.sets, gone(i))
    <3>1. ShrinksBy(a, {v}, c)
      BY <2>7 DEF StillThere, ShrinksBy
    <3>2. ShrinksBy(s, gone(i - 1), a)
      BY <2>3 DEF ShrinksBy
    <3> HIDE DEF Good
    <3>3. ShrinksBy(s, gone(i - 1) \cup {v}, c)
      BY <3>1, <3>2, ShrinksOn
    <3> QED BY <2>5, <3>3 DEF ShrinksBy
  <2>9. Good(c, i)
    BY <2>3, <2>5, <2>7, <2>8, <2>11 DEF StillThere
  <2> HIDE DEF Good
  <2>10. Good(f[i], i) /\ i \in 0 .. k
    BY <1>1, <2>2, <2>9
  <2> QED BY <2>10
<1>6. Good(n, k)
  <2> HIDE DEF E
  <2>1. 0 .. k \subseteq E
    BY <1>1, <1>4, <1>5, UpTo
  <2>2. k \in E
    BY <1>1, <2>1
  <2>3. Good(f[k], k)
    BY <2>2 DEF E
  <2> QED BY <2>3 DEF k
<1> QED BY <1>3, <1>6 DEF TakesAll

(* The subtrees, when the panes of source come beside T.                   *)
DockedSets(sets, source, T) ==
  Widen(Shrunk(sets, ToSet(source)), T, ToSet(source)) \cup {T} \cup ChainSets(source)

Docks(s, source, T, n) ==
  /\ n.tree.sets = DockedSets(s.tree.sets, source, T)
  /\ Fits(n, Leaves(n.tree)) /\ Leaves(n.tree) = Leaves(s.tree)
  /\ SameUnits(s, n) /\ n.zoomed = None /\ InRange(n)

(* dock_unit, before it gives the unit the focus.                          *)
DocksUnseen(s, source, T, d) ==
  /\ d.tree.sets = DockedSets(s.tree.sets, source, T)
  /\ Fits(d, Leaves(d.tree)) /\ Leaves(d.tree) = Leaves(s.tree)
  /\ SameUnits(s, d) /\ d.zoomed = None
  /\ d.hidden = s.hidden /\ d.stacks = s.stacks

LEMMA UnitDockedUnseen ==
  ASSUME NEW s, Fits(s, Leaves(s.tree)), s.zoomed = None, NEW T \in s.tree.sets,
         NEW source \in Seq(Leaves(s.tree)), source # <<>>, IsInjective(source),
         ToSet(source) \cap T = {}, NEW second \in BOOLEAN
  PROVE  \E d : DocksUnseen(s, source, T, d)
                /\ DockUnit(s, source, T, second) = FocusPane(d, Head(source))
<1> DEFINE H(f) == f = [i \in 0 .. Len(source) |->
                          IF i = 0 THEN s ELSE TakeOut(f[i - 1], {source[i]})]
           out == CHOOSE f : H(f)
           d == [out[Len(source)] EXCEPT !.tree = PairWith(@, T, source, second)]
           n == DockUnit(s, source, T, second)
           L == Leaves(s.tree)
<1>1. Len(source) \in Nat /\ L \in SUBSET Pane /\ Head(source) \in L
  <2>1. L \in SUBSET Pane
    BY DEF Fits, UnitsFit
  <2> QED BY <2>1, LenProperties, HeadTailProperties
<1>2. TakesEach(out, s, source, Len(source))
  <2>1. PICK f : TakesEach(f, s, source, Len(source))
    BY <1>1, TakingEnds
  <2>2. H(f)
    BY <2>1 DEF TakesEach
  <2> HIDE DEF H
  <2>3. H(out)
    BY <2>2
  <2> QED BY <2>3 DEF H, TakesEach
<1>3. n = FocusPane(d, Head(source))
  BY DEF DockUnit
<1>4. PICK o : o = out[Len(source)]
  OBVIOUS
<1> HIDE DEF out
<1>5. /\ Fits(o, L) /\ SameUnits(s, o) /\ o.zoomed = None /\ o.hidden = s.hidden
      /\ o.stacks = s.stacks
      /\ Leaves(o.tree) = L \ ToSet(source) /\ T \in o.tree.sets
      /\ o.tree.sets = Shrunk(s.tree.sets, ToSet(source))
  <2>1. TakesAll(s, L, T, source, o)
    BY <1>2, <1>4, TakenInTurn
  <2> QED BY <2>1 DEF TakesAll
<1>6. PICK t : t = PairWith(o.tree, T, source, second)
  OBVIOUS
<1>7. source \in Seq(Pane) /\ ToSet(source) \subseteq L
  <2>1. source \in Seq(Pane)
    <3>1. DOMAIN source = 1 .. Len(source) /\ \A i \in 1 .. Len(source) : source[i] \in Pane
      BY <1>1, LenProperties, ElementOfSeq
    <3>2. source = [i \in 1 .. Len(source) |-> source[i]]
      BY LenProperties
    <3>3. source \in [1 .. Len(source) -> Pane]
      BY <3>1, <3>2
    <3> QED BY <1>1, <3>3, AsList
  <2> QED BY <2>1, SetOfSeq
<1>8. o.tree \in PaneTrees /\ IsTree(o.tree) /\ o.active \in Nat /\ o \in TabStates
  BY <1>5 DEF Fits, TabStates
<1>9. Grows(o.tree, source, t)
  <2>1. ToSet(source) \cap Leaves(o.tree) = {}
    BY <1>5
  <2> QED BY <1>5, <1>6, <1>7, <1>8, <2>1, PairGrows
<1>10. t \in PaneTrees /\ IsTree(t) /\ Leaves(t) = L
  BY <1>5, <1>7, <1>9 DEF Grows
<1>11. Retree(o, t, o.active, d)
  BY <1>4, <1>6, <1>8 DEF Retree, TabStates
<1> HIDE DEF d, n, L
<1>12. Retrees(o, L, t, o.active, d)
  BY <1>5, <1>8, <1>10, <1>11, Retreed
<1>13. /\ Fits(d, L) /\ d.tree = t /\ d.zoomed = None /\ SameUnits(s, d)
       /\ d.hidden = s.hidden /\ d.stacks = s.stacks
  <2>1. SameUnits(o, d)
    BY <1>12 DEF Retrees
  <2>2. SameUnits(s, d)
    BY <1>5, <2>1, SameThrough
  <2> QED BY <1>5, <1>12, <2>2 DEF Retrees
<1>14. d.tree.sets = DockedSets(s.tree.sets, source, T)
  BY <1>5, <1>6, <1>13 DEF PairWith, DockedSets
<1>15. DocksUnseen(s, source, T, d)
  BY <1>10, <1>13, <1>14 DEF DocksUnseen, L
<1> QED BY <1>3, <1>15 DEF n

LEMMA UnitDocked ==
  ASSUME NEW s, Fits(s, Leaves(s.tree)), s.zoomed = None, NEW T \in s.tree.sets,
         NEW source \in Seq(Leaves(s.tree)), source # <<>>, IsInjective(source),
         ToSet(source) \cap T = {}, NEW second \in BOOLEAN
  PROVE  Docks(s, source, T, DockUnit(s, source, T, second))
<1>1. PICK n : n = DockUnit(s, source, T, second)
  OBVIOUS
<1>2. PICK d : DocksUnseen(s, source, T, d) /\ n = FocusPane(d, Head(source))
  BY <1>1, UnitDockedUnseen
<1>3. PICK L : L = Leaves(s.tree)
  OBVIOUS
<1>4. /\ Fits(d, L) /\ Leaves(d.tree) = L /\ SameUnits(s, d) /\ d.zoomed = None
      /\ d.tree.sets = DockedSets(s.tree.sets, source, T)
  BY <1>2, <1>3 DEF DocksUnseen
<1>5. Head(source) \in L
  BY <1>3, HeadTailProperties
<1>6. Focuses(d, L, Head(source), n)
  BY <1>2, <1>4, PaneFocused
<1>7. n.zoomed = None /\ InRange(n) /\ Fits(n, L) /\ n.tree = d.tree /\ SameUnits(d, n)
  BY <1>4, <1>5, <1>6 DEF Focuses
<1>8. SameUnits(s, n)
  BY <1>4, <1>7, SameThrough
<1> QED BY <1>1, <1>3, <1>4, <1>7, <1>8 DEF Docks

-----------------------------------------------------------------------------
(* The methods, one by one.                                                *)

(* What a call leaves behind.                                              *)
Leads(s, n) ==
  /\ Fits(n, Leaves(n.tree)) /\ n.next_id \in 0 .. MaxGroups
  /\ InRange(s) => InRange(n)

TabInv == Fits(tab, Leaves(tab.tree)) /\ tab.next_id \in 0 .. MaxGroups

LEMMA Untouching == TabInv => Leads(tab, tab)
BY DEF TabInv, Leads

LEMMA PrepareSplitLeads ==
  ASSUME TabInv, PrepareSplit
  PROVE  Leads(tab, tab')
<1>1. Activates(tab, Leaves(tab.tree), tab.active, None, Unzoomed(tab))
  BY Unzooms DEF TabInv
<1> QED BY <1>1 DEF PrepareSplit, Activates, Leads, TabInv, InRange

LEMMA SplitPaneLeads ==
  ASSUME TabInv, NEW p \in Ids, NEW new \in Fresh, NEW second \in BOOLEAN,
         NEW top \in BOOLEAN, SplitPane(p, new, second, top)
  PROVE  Leads(tab, tab')
<1>1. Fits(tab, Leaves(tab.tree)) /\ new \in Pane \ Leaves(tab.tree) /\ p \in Leaves(tab.tree)
  BY DEF TabInv, Ids, Fresh
<1>2. Inserts(tab, new, tab')
  BY <1>1, PaneInserted DEF SplitPane
<1>3. tab'.next_id \in 0 .. MaxGroups
  <2>1. tab'.next_id \in Nat
    BY <1>2 DEF Inserts, Fits, TabStates
  <2> QED BY <2>1, TabAssumption DEF SplitPane, GroupsBounded
<1> QED BY <1>2, <1>3 DEF Inserts, Leads

(* Taking out several panes may leave the index on none.                   *)
LEMMA RemovePanesLeads ==
  ASSUME TabInv, NEW V \in SUBSET Ids, V # {}, RemovePanes(V)
  PROVE  /\ Fits(tab', Leaves(tab'.tree)) /\ tab'.next_id \in 0 .. MaxGroups
         /\ \A v : V = {v} => RemovesOne(tab, v, tab')
<1>1. Fits(tab, Leaves(tab.tree)) /\ V \in SUBSET Leaves(tab.tree)
  BY DEF TabInv, Ids
<1>2. tab' = RemovePaneIf(tab, V)
  BY DEF RemovePanes
<1>3. Removes(tab, tab') /\ \A v : V = {v} => RemovesOne(tab, v, tab')
  BY <1>1, <1>2, PanesRemoved
<1> QED BY <1>3 DEF Removes, TabInv

LEMMA SetActivePaneLeads ==
  ASSUME TabInv, NEW p, SetActivePane(p)
  PROVE  Leads(tab, tab')
<1>1. Focuses(tab, Leaves(tab.tree), p, tab')
  BY PaneFocused DEF TabInv, SetActivePane
<1> QED BY <1>1 DEF Focuses, SameUnits, Leads, TabInv

LEMMA FocusIndexLeads ==
  ASSUME NEW s, Fits(s, Leaves(s.tree)), s.next_id \in 0 .. MaxGroups,
         NEW i \in Nat, i < Len(s.tree.order)
  PROVE  Leads(s, FocusIndex(s, i))
<1>1. PICK n : n = FocusIndex(s, i)
  OBVIOUS
<1>2. IndexFocuses(s, Leaves(s.tree), i, n)
  BY <1>1, IndexFocused
<1>3. Leads(s, n)
  BY <1>2 DEF IndexFocuses, SameUnits, Leads, InRange
<1> QED BY <1>1, <1>3

LEMMA IndexOfPane ==
  ASSUME NEW s, Fits(s, Leaves(s.tree)), NEW p \in Leaves(s.tree)
  PROVE  /\ PositionOf(s.tree.order, p) - 1 \in Nat
         /\ PositionOf(s.tree.order, p) - 1 < Len(s.tree.order)
<1>1. PICK t \in PaneTrees : t = s.tree /\ IsTree(t)
  BY DEF Fits, TabStates
<1>2. PositionOf(t.order, p) - 1 \in Nat /\ PositionOf(t.order, p) - 1 < Len(t.order)
  BY <1>1, TreePlaces
<1> QED BY <1>1, <1>2

LEMMA SetActiveIdxLeads ==
  ASSUME TabInv, NEW p \in Ids, SetActiveIdx(PositionOf(tab.tree.order, p) - 1)
  PROVE  Leads(tab, tab')
<1> DEFINE i == PositionOf(tab.tree.order, p) - 1
<1>1. i \in Nat /\ i < Len(tab.tree.order)
  BY IndexOfPane DEF TabInv, Ids
<1>2. tab' = FocusIndex(tab, i)
  BY DEF SetActiveIdx
<1> HIDE DEF i
<1> QED BY <1>1, <1>2, FocusIndexLeads DEF TabInv

LEMMA ActivatePaneDirectionLeads ==
  ASSUME TabInv, NEW p \in Ids, ActivatePaneDirection(PositionOf(tab.tree.order, p) - 1)
  PROVE  Leads(tab, tab')
<1>1. PICK s : s = Unzoomed(tab)
  OBVIOUS
<1>2. Activates(tab, Leaves(tab.tree), tab.active, None, s)
  BY <1>1, Unzooms DEF TabInv
<1>3. /\ Fits(s, Leaves(s.tree)) /\ s.tree = tab.tree /\ s.next_id \in 0 .. MaxGroups
      /\ InRange(tab) => InRange(s)
  BY <1>2 DEF Activates, TabInv, InRange
<1> DEFINE i == PositionOf(tab.tree.order, p) - 1
<1>4. tab' = FocusIndex(s, i)
  BY <1>1 DEF ActivatePaneDirection
<1>6. i \in Nat /\ i < Len(s.tree.order)
  BY <1>3, IndexOfPane DEF TabInv, Ids
<1> HIDE DEF i
<1>5. Leads(s, tab')
  BY <1>3, <1>4, <1>6, FocusIndexLeads
<1> QED BY <1>3, <1>5 DEF Leads

LEMMA ToggleZoomLeads ==
  ASSUME NEW s, Fits(s, Leaves(s.tree)), s.next_id \in 0 .. MaxGroups
  PROVE  Leads(s, ToggleZoomOf(s))
<1>1. PICK z : z = IF s.zoomed # None THEN None ELSE ActivePane(s)
  OBVIOUS
<1>2. z \in Leaves(s.tree) \cup {None}
  BY <1>1, ActiveTyped
<1>3. s.active \in Nat
  BY DEF Fits, TabStates
<1>4. PICK n : n = ToggleZoomOf(s)
  OBVIOUS
<1>5. Activate(s, s.active, z, n)
  BY <1>1, <1>4 DEF Fits, TabStates, Activate, ToggleZoomOf
<1>6. Activates(s, Leaves(s.tree), s.active, z, n)
  BY <1>2, <1>3, <1>5, Activated
<1>7. Leads(s, n)
  BY <1>6 DEF Activates, Leads, InRange
<1> QED BY <1>4, <1>7

LEMMA UnhidePaneLeads ==
  ASSUME TabInv, NEW p, UnhidePane(p)
  PROVE  Leads(tab, tab')
<1>1. Hide(tab, tab.hidden \ {p}, tab')
  BY DEF TabInv, UnhidePane, Hide, Fits, TabStates
<1>2. tab.hidden \ {p} \in SUBSET Leaves(tab.tree)
  BY DEF TabInv, Fits, UnitsFit
<1>3. Hides(tab, Leaves(tab.tree), tab.hidden \ {p}, tab')
  BY <1>1, <1>2, Hidden DEF TabInv
<1> QED BY <1>3 DEF Hides, Leads, TabInv, InRange

LEMMA HidePaneLeads ==
  ASSUME TabInv, NEW p \in Ids, HidePane(p)
  PROVE  Leads(tab, tab')
<1> DEFINE others == Ids \ (tab.hidden \cup {p})
           a == IF ActivePane(tab) = p THEN FirstOf(tab.tree.order, others) - 1
                                      ELSE tab.active
           moved == [tab EXCEPT !.active = IF ActivePane(tab) = p
                                           THEN FirstOf(tab.tree.order, others) - 1
                                           ELSE @]
           z == IF tab.zoomed = p THEN ToggleZoomOf(moved) ELSE moved
           L == Leaves(tab.tree)
<1>1. /\ others # {} /\ tab' = [z EXCEPT !.hidden = @ \cup {p}]
  BY DEF HidePane
<1>2. /\ tab \in TabStates /\ tab.tree \in PaneTrees /\ IsTree(tab.tree)
      /\ tab.active \in Nat /\ Fits(tab, L) /\ p \in L /\ others \subseteq L
      /\ tab.zoomed \in L \cup {None}
  BY DEF TabInv, Fits, TabStates, Ids
<1>3. PICK f : f = FirstOf(tab.tree.order, others)
  OBVIOUS
<1>4. PICK m \in Nat : m = Len(tab.tree.order)
  BY <1>2, TreePlaces
<1>5. f \in 1 .. m
  <2>1. tab.tree.order \in Seq(Pane) /\ ToSet(tab.tree.order) = L
    BY <1>2, TreePlaces
  <2>2. others \cap ToSet(tab.tree.order) # {}
    BY <1>1, <1>2, <2>1
  <2> HIDE DEF others
  <2> QED BY <1>3, <1>4, <2>1, <2>2, FirstPlace
<1>6. a \in Nat /\ (InRange(tab) => a < m)
  <2>1. InRange(tab) => tab.active < m
    BY <1>2, <1>4, TreePlaces DEF InRange
  <2> HIDE DEF others
  <2> QED BY <1>2, <1>3, <1>5, <2>1
<1>7. Activate(tab, a, tab.zoomed, moved)
  BY <1>2 DEF Activate, TabStates
<1> HIDE DEF a, others, moved
<1>8. Activates(tab, L, a, tab.zoomed, moved)
  BY <1>2, <1>6, <1>7, Activated
<1>9. Leads(tab, moved) /\ moved.tree = tab.tree
  BY <1>4, <1>6, <1>8 DEF Activates, Leads, InRange, TabInv
<1>10. Leads(tab, z) /\ z.tree = tab.tree
  <2>1. Leads(moved, ToggleZoomOf(moved))
    BY <1>9, ToggleZoomLeads DEF Leads
  <2>2. ToggleZoomOf(moved).tree = moved.tree
    BY <1>9 DEF ToggleZoomOf, Leads, Fits, TabStates
  <2> QED BY <1>9, <2>1, <2>2 DEF Leads
<1> HIDE DEF z
<1>11. Fits(z, L)
  BY <1>10 DEF Leads
<1>12. Hide(z, z.hidden \cup {p}, tab')
  BY <1>1, <1>11 DEF Hide, Fits, TabStates
<1>13. z.hidden \cup {p} \in SUBSET L
  BY <1>2, <1>11 DEF Fits, UnitsFit
<1>14. Hides(z, L, z.hidden \cup {p}, tab')
  BY <1>11, <1>12, <1>13, Hidden
<1> QED BY <1>10, <1>14 DEF Hides, Leads, InRange

(* The panes change places.                                                *)
LEMMA RetreeLeads ==
  ASSUME NEW s, Fits(s, Leaves(s.tree)), s.next_id \in 0 .. MaxGroups,
         NEW t \in PaneTrees, IsTree(t), Leaves(t) = Leaves(s.tree),
         NEW a \in Nat, InRange(s) => (t.order # <<>> => a < Len(t.order)),
         NEW n, Retree(s, t, a, n)
  PROVE  Leads(s, n)
<1>1. s.zoomed \in Leaves(t) \cup {None}
  BY DEF Fits
<1>2. Retrees(s, Leaves(s.tree), t, a, n)
  BY <1>1, Retreed
<1> QED BY <1>2 DEF Retrees, Leads, InRange

(* rotate_clockwise and rotate_counter_clockwise move the panes about.     *)
LEMMA RotateMoves ==
  ASSUME TabInv, NEW clockwise \in BOOLEAN, Rotate(clockwise)
  PROVE  \E f \in Bijection(Leaves(tab.tree), Leaves(tab.tree)) :
           tab' = [tab EXCEPT !.tree = Relabel(@, f)]
<1> DEFINE L == Leaves(tab.tree)
           to(p) == LET i == PositionOf(tab.tree.order, p)
                    IN  tab.tree.order[
                          IF clockwise THEN IF i = 1 THEN Len(tab.tree.order) ELSE i - 1
                          ELSE IF i = Len(tab.tree.order) THEN 1 ELSE i + 1]
           f == [p \in L |-> to(p)]
<1>1. /\ tab \in TabStates /\ tab.tree \in PaneTrees /\ IsTree(tab.tree)
      /\ tab.active \in Nat /\ Fits(tab, L)
  BY DEF TabInv, Fits, TabStates
<1>16. Len(tab.tree.order) \in Nat
  <2> HIDE DEF L, to, f
  <2> QED BY <1>1, TreeFacts
<1>17. PICK n \in Nat : n = Len(tab.tree.order)
  BY <1>16
<1>18. PICK order : order = tab.tree.order
  OBVIOUS
<1>2. order = tab.tree.order /\ n = Len(order)
  BY <1>17, <1>18
<1>3. /\ \A i \in 1 .. n : order[i] \in L
      /\ \A p \in L : PositionOf(order, p) \in 1 .. n /\ order[PositionOf(order, p)] = p
      /\ \A i, j \in 1 .. n : order[i] = order[j] => i = j
  <2>1. DOMAIN order = 1 .. n /\ IsInjective(order)
    BY <1>1, <1>2, TreePlaces, TreeFacts
  <2> QED BY <1>1, <1>2, <2>1, TreePlaces DEF IsInjective
<1> DEFINE g(i) == IF clockwise THEN IF i = 1 THEN n ELSE i - 1
                   ELSE IF i = n THEN 1 ELSE i + 1
           back(i) == IF clockwise THEN IF i = n THEN 1 ELSE i + 1
                      ELSE IF i = 1 THEN n ELSE i - 1
<1>4. /\ \A i \in 1 .. n : g(i) \in 1 .. n /\ back(i) \in 1 .. n /\ g(back(i)) = i
      /\ \A i, j \in 1 .. n : g(i) = g(j) => i = j
  OBVIOUS
<1>5. \A p \in L : f[p] = order[g(PositionOf(order, p))]
  BY <1>2
<1>6. tab' = [tab EXCEPT !.tree = Relabel(@, f)]
  BY DEF Rotate, Ids
<1>7. DOMAIN f = L
  OBVIOUS
<1> HIDE DEF f, L, g, back
<1>8. \A p \in L : f[p] \in L
  BY <1>3, <1>4, <1>5
<1>9. ASSUME NEW p \in L, NEW q \in L, f[p] = f[q] PROVE p = q
  <2>1. PICK i \in 1 .. n, j \in 1 .. n : i = PositionOf(order, p) /\ j = PositionOf(order, q)
    BY <1>3
  <2>2. g(i) \in 1 .. n /\ g(j) \in 1 .. n /\ order[g(i)] = order[g(j)]
    BY <1>4, <1>5, <1>9, <2>1
  <2>3. i = j
    BY <1>3, <1>4, <2>2
  <2> QED BY <1>3, <2>1, <2>3
<1>10. ASSUME NEW q \in L PROVE \E p \in L : f[p] = q
  <2>1. PICK j \in 1 .. n : j = PositionOf(order, q) /\ order[j] = q
    BY <1>3
  <2>2. PICK i \in 1 .. n : i = back(j) /\ g(i) = j
    BY <1>4
  <2>3. PICK p \in L : p = order[i]
    BY <1>3
  <2>4. PositionOf(order, p) = i
    BY <1>3, <2>3
  <2> QED BY <1>5, <2>1, <2>2, <2>3, <2>4
<1>11. f \in Bijection(L, L)
  <2>1. f \in [L -> L]
    <3>1. f = [p \in L |-> f[p]]
      BY DEF f
    <3> QED BY <1>8, <3>1
  <2> QED BY <1>7, <1>9, <1>10, <2>1 DEF Bijection, Injection, Surjection, IsInjective
<1> QED BY <1>6, <1>11 DEF L

LEMMA RotateLeads ==
  ASSUME TabInv, NEW clockwise \in BOOLEAN, Rotate(clockwise)
  PROVE  Leads(tab, tab')
<1>1. PICK L, n : L = Leaves(tab.tree) /\ n = Len(tab.tree.order)
  OBVIOUS
<1>2. PICK f \in Bijection(L, L) : tab' = [tab EXCEPT !.tree = Relabel(@, f)]
  BY <1>1, RotateMoves
<1>3. tab \in TabStates /\ tab.tree \in PaneTrees /\ IsTree(tab.tree) /\ tab.active \in Nat
  BY DEF TabInv, Fits, TabStates
<1>4. PICK t : t = Relabel(tab.tree, f)
  OBVIOUS
<1>5. t \in PaneTrees /\ IsTree(t) /\ Leaves(t) = L /\ Len(t.order) = n
  BY <1>1, <1>3, <1>4, Relabeled
<1>6. Retree(tab, t, tab.active, tab')
  BY <1>2, <1>3, <1>4 DEF Retree, TabStates
<1>7. InRange(tab) => (t.order # <<>> => tab.active < Len(t.order))
  <2>1. t.order = <<>> <=> n = 0
    BY <1>5, TreePlaces
  <2>2. tab.tree.order = <<>> <=> n = 0
    BY <1>1, <1>3, TreePlaces
  <2> QED BY <1>1, <1>5, <2>1, <2>2 DEF InRange
<1> QED BY <1>1, <1>3, <1>5, <1>6, <1>7, RetreeLeads DEF TabInv

LEMMA TreeSwapped ==
  ASSUME NEW s, Fits(s, Leaves(s.tree)), s.next_id \in 0 .. MaxGroups,
         NEW p \in Leaves(s.tree), NEW q \in Leaves(s.tree),
         NEW t, t = Exchange(s.tree, p, q)
  PROVE  /\ t \in PaneTrees /\ IsTree(t)
         /\ Leaves(t) = Leaves(s.tree) /\ Len(t.order) = Len(s.tree.order)
         /\ Len(t.order) \in Nat
         /\ t.order # <<>> /\ 0 < Len(t.order) /\ s.tree.order # <<>>
<1>1. s.tree \in PaneTrees /\ IsTree(s.tree)
  BY DEF Fits, TabStates
<1>2. /\ t \in PaneTrees /\ IsTree(t)
      /\ Leaves(t) = Leaves(s.tree) /\ Len(t.order) = Len(s.tree.order)
  BY <1>1, Exchanged
<1>3. /\ Len(t.order) \in Nat /\ t.order = <<>> <=> Len(t.order) = 0
      /\ t.order = <<>> <=> Leaves(t) = {}
  BY <1>2, TreePlaces
<1>4. s.tree.order = <<>> <=> Leaves(s.tree) = {}
  BY <1>1, TreePlaces
<1> QED BY <1>2, <1>3, <1>4

LEMMA PanesSwapped ==
  ASSUME NEW s, Fits(s, Leaves(s.tree)), s.next_id \in 0 .. MaxGroups,
         NEW p \in Leaves(s.tree), NEW q \in Leaves(s.tree)
  PROVE  Leads(s, SwapPanesOf(s, p, q))
<1>1. PICK t : t = Exchange(s.tree, p, q)
  OBVIOUS
<1>2. /\ t \in PaneTrees /\ IsTree(t)
      /\ Leaves(t) = Leaves(s.tree) /\ Len(t.order) = Len(s.tree.order)
      /\ t.order # <<>> /\ s.tree.order # <<>>
  BY <1>1, TreeSwapped
<1>3. PICK a : a = IF ActivePane(s) = None THEN s.active
                   ELSE PositionOf(t.order, ActivePane(s)) - 1
  OBVIOUS
<1>4. s.active \in Nat
  BY DEF Fits, TabStates
<1>5. CASE ActivePane(s) = None
  <2>1. a = s.active
    BY <1>3, <1>5
  <2>2. Retree(s, t, a, SwapPanesOf(s, p, q))
    BY <1>1, <1>5, <2>1 DEF Retree, SwapPanesOf, Fits, TabStates
  <2>3. InRange(s) => (t.order # <<>> => a < Len(t.order))
    BY <1>2, <2>1 DEF InRange
  <2> QED BY <1>2, <1>4, <2>1, <2>2, <2>3, RetreeLeads
<1>6. CASE ActivePane(s) # None
  <2>1. ActivePane(s) \in Leaves(t)
    BY <1>2, <1>6, ActiveTyped
  <2>2. a = PositionOf(t.order, ActivePane(s)) - 1
    BY <1>3, <1>6
  <2>3. a \in Nat /\ a < Len(t.order)
    BY <1>2, <2>1, <2>2, TreePlaces
  <2>4. Retree(s, t, a, SwapPanesOf(s, p, q))
    BY <1>1, <1>6, <2>2 DEF Retree, SwapPanesOf, Fits, TabStates
  <2> QED BY <1>2, <2>3, <2>4, RetreeLeads
<1> QED BY <1>5, <1>6

LEMMA SwapPanesLeads ==
  ASSUME TabInv, NEW p \in Ids, NEW q \in Ids, SwapPanes(p, q)
  PROVE  Leads(tab, tab')
BY PanesSwapped DEF TabInv, Ids, SwapPanes

LEMMA SwapActiveWithIndexLeads ==
  ASSUME TabInv, NEW i \in 0 .. Len(tab.tree.order) - 1, NEW keep \in BOOLEAN,
         SwapActiveWithIndex(i, keep)
  PROVE  Leads(tab, tab')
<1>1. /\ tab.tree \in PaneTrees /\ IsTree(tab.tree) /\ tab.active \in Nat
      /\ Fits(tab, Leaves(tab.tree)) /\ tab.next_id \in 0 .. MaxGroups
  BY DEF TabInv, Fits, TabStates
<1>2. PICK m \in Nat : m = Len(tab.tree.order)
  BY <1>1, TreePlaces
<1>3. i \in Nat /\ i < m /\ i + 1 \in 1 .. m
  BY <1>2
<1>4. PICK p, q : p = ActivePane(tab) /\ q = tab.tree.order[i + 1]
  OBVIOUS
<1>5. p \in Leaves(tab.tree)
  BY <1>1, <1>4, ActiveTyped DEF SwapActiveWithIndex
<1>6. q \in Leaves(tab.tree)
  BY <1>1, <1>2, <1>3, <1>4, TreePlaces
<1>7. PICK t : t = Exchange(tab.tree, p, q)
  OBVIOUS
<1>8. /\ t \in PaneTrees /\ IsTree(t)
      /\ Leaves(t) = Leaves(tab.tree) /\ Len(t.order) = m
      /\ t.order # <<>> /\ tab.tree.order # <<>>
  BY <1>1, <1>2, <1>5, <1>6, <1>7, TreeSwapped
<1>9. PICK n : n = [tab EXCEPT !.tree = t]
  OBVIOUS
<1>10. Retree(tab, t, tab.active, n)
  BY <1>1, <1>9 DEF Retree, Fits, TabStates
<1>11. InRange(tab) => (t.order # <<>> => tab.active < Len(t.order))
  BY <1>2, <1>8 DEF InRange
<1>12. Leads(tab, n)
  BY <1>1, <1>8, <1>10, <1>11, RetreeLeads
<1>13. n.tree = t
  BY <1>1, <1>9 DEF Fits, TabStates
<1>14. tab' = IF keep THEN FocusIndex(n, i) ELSE n
  BY <1>4, <1>7, <1>9 DEF SwapActiveWithIndex
<1>15. CASE keep
  <2>1. Fits(n, Leaves(n.tree)) /\ n.next_id \in 0 .. MaxGroups /\ i < Len(n.tree.order)
    BY <1>3, <1>8, <1>12, <1>13 DEF Leads
  <2>2. Leads(n, FocusIndex(n, i))
    BY <1>3, <2>1, FocusIndexLeads
  <2> QED BY <1>12, <1>14, <1>15, <2>2 DEF Leads
<1>16. CASE ~ keep
  BY <1>12, <1>14, <1>16
<1> QED BY <1>15, <1>16

LEMMA FocusLayoutLeads ==
  ASSUME TabInv, NEW p \in Ids, FocusLayout(p)
  PROVE  Leads(tab, tab')
<1>1. PICK s : s = Unzoomed(tab)
  OBVIOUS
<1>2. PICK main : main = Head(s.tree.order)
  OBVIOUS
<1>3. PICK rest : rest = Omit(s.tree.order, p)
  OBVIOUS
<1>4. PICK fresh : fresh = PairWith(LeafTree(p), {p}, rest, TRUE)
  OBVIOUS
<1>5. \/ tab' = [SwapPanesOf(s, main, p) EXCEPT !.active = 0]
      \/ rest # <<>> /\ tab' = [s EXCEPT !.tree = fresh, !.active = 0]
      \/ tab' = s
  BY <1>1, <1>2, <1>3, <1>4 DEF FocusLayout
<1>6. Activates(tab, Leaves(tab.tree), tab.active, None, s)
  BY <1>1, Unzooms DEF TabInv
<1>7. Leads(tab, s) /\ s.tree = tab.tree
  BY <1>6 DEF Activates, Leads, InRange, TabInv
<1>8. Fits(s, Leaves(s.tree)) /\ s.next_id \in 0 .. MaxGroups /\ p \in Leaves(s.tree)
  BY <1>7 DEF Leads, Ids
<1>9. s.tree \in PaneTrees /\ IsTree(s.tree) /\ s \in TabStates
  BY <1>8 DEF Fits, TabStates
<1>10. s.tree.order \in Seq(Pane) /\ IsInjective(s.tree.order)
       /\ ToSet(s.tree.order) = Leaves(s.tree) /\ s.tree.order # <<>>
  BY <1>8, <1>9, TreePlaces
<1>11. main \in Leaves(s.tree)
  <2>1. main = s.tree.order[1] /\ 1 \in 1 .. Len(s.tree.order)
    BY <1>2, <1>10
  <2> QED BY <1>9, <2>1, TreePlaces
<1>12. CASE tab' = [SwapPanesOf(s, main, p) EXCEPT !.active = 0]
  <2>1. PICK t : t = Exchange(s.tree, main, p)
    OBVIOUS
  <2>2. /\ t \in PaneTrees /\ IsTree(t)
        /\ Leaves(t) = Leaves(s.tree) /\ 0 < Len(t.order)
    BY <1>8, <1>11, <2>1, TreeSwapped
  <2>3. SwapPanesOf(s, main, p)
          = [s EXCEPT !.tree = t, !.active = SwapPanesOf(s, main, p).active]
    BY <1>9, <2>1 DEF SwapPanesOf, TabStates
  <2>4. Retree(s, t, 0, tab')
    BY <1>9, <1>12, <2>3 DEF Retree, TabStates
  <2>5. Leads(s, tab')
    BY <1>8, <2>2, <2>4, RetreeLeads
  <2> QED BY <1>7, <2>5 DEF Leads
<1>13. CASE rest # <<>> /\ tab' = [s EXCEPT !.tree = fresh, !.active = 0]
  <2>1. /\ rest \in Seq(Pane) /\ IsInjective(rest)
        /\ ToSet(rest) = Leaves(s.tree) \ {p}
    BY <1>3, <1>8, <1>10, Omitted
  <2>2. p \in Pane
    BY <1>8, <1>9, TreePlaces
  <2>3. /\ LeafTree(p) \in PaneTrees /\ IsTree(LeafTree(p))
        /\ Leaves(LeafTree(p)) = {p} /\ {p} \in LeafTree(p).sets
    BY <2>2, LeafAlone DEF LeafTree
  <2>4. ToSet(rest) \cap Leaves(LeafTree(p)) = {}
    BY <2>1, <2>3
  <2>5. Grows(LeafTree(p), rest, fresh)
    BY <1>4, <1>13, <2>1, <2>3, <2>4, PairGrows
  <2>6. fresh \in PaneTrees /\ IsTree(fresh) /\ Leaves(fresh) = Leaves(s.tree)
    BY <1>8, <2>1, <2>3, <2>5 DEF Grows
  <2>7. fresh.order # <<>> => 0 < Len(fresh.order)
    BY <2>6, TreePlaces
  <2>8. Retree(s, fresh, 0, tab')
    BY <1>13 DEF Retree
  <2>9. Leads(s, tab')
    BY <1>8, <2>6, <2>7, <2>8, RetreeLeads
  <2> QED BY <1>7, <2>9 DEF Leads
<1>14. CASE tab' = s
  BY <1>7, <1>14
<1> QED BY <1>5, <1>12, <1>13, <1>14

(* The two ends of dock_pane: the pane is docked, or put back.             *)
IsDocked(p, q, second) ==
  LET out    == RemovePaneIf(tab, {p})
      docked == SplitAndInsert(out, q, p, second, FALSE)
  IN  /\ p # q /\ tab.zoomed = None /\ {p, q} \cap tab.hidden = {}
      /\ tab' = FocusPane(docked, p) /\ GroupsBounded

IsPutBack(p, q) ==
  LET out == RemovePaneIf(tab, {p})
  IN  /\ p # q /\ tab.zoomed = None /\ {p, q} \cap tab.hidden = {}
      /\ PanesOnShow(out) # {}
      /\ tab' = SplitAndInsert(out, FirstOnShow(out), p, TRUE, FALSE)
      /\ GroupsBounded

LEMMA DockPaneEnds ==
  ASSUME NEW p, NEW q, NEW second \in BOOLEAN, DockPane(p, q, second)
  PROVE  IsDocked(p, q, second) \/ IsPutBack(p, q)
<1>1. PICK out : out = RemovePaneIf(tab, {p})
  OBVIOUS
<1>2. PICK restored \in BOOLEAN :
         /\ restored => second /\ PanesOnShow(out) # {}
         /\ \E s \in {SplitAndInsert(out, IF restored THEN FirstOnShow(out) ELSE q,
                                     p, second, FALSE)} :
              tab' = IF restored THEN s ELSE FocusPane(s, p)
  BY <1>1 DEF DockPane
<1>3. /\ p # q /\ tab.zoomed = None /\ {p, q} \cap tab.hidden = {}
      /\ GroupsBounded
  BY DEF DockPane
<1>4. CASE restored = TRUE
  <2>1. second = TRUE /\ PanesOnShow(out) # {}
    BY <1>2, <1>4
  <2>2. tab' = SplitAndInsert(out, FirstOnShow(out), p, TRUE, FALSE)
    BY <1>2, <1>4, <2>1
  <2> QED BY <1>1, <1>3, <2>1, <2>2 DEF IsPutBack
<1>5. CASE restored = FALSE
  <2>1. tab' = FocusPane(SplitAndInsert(out, q, p, second, FALSE), p)
    BY <1>2, <1>5
  <2> QED BY <1>1, <1>3, <2>1 DEF IsDocked
<1> QED BY <1>4, <1>5

LEMMA IsDockedLeads ==
  ASSUME TabInv, NEW p \in Ids, NEW q \in Ids, NEW second \in BOOLEAN,
         IsDocked(p, q, second)
  PROVE  Leads(tab, tab')
<1>1. PICK out : out = RemovePaneIf(tab, {p})
  OBVIOUS
<1>2. PICK docked : docked = SplitAndInsert(out, q, p, second, FALSE)
  OBVIOUS
<1>3. /\ p # q /\ tab.zoomed = None /\ tab' = FocusPane(docked, p)
      /\ tab'.next_id <= MaxGroups
  BY <1>1, <1>2 DEF IsDocked, GroupsBounded
<1>4. Fits(tab, Leaves(tab.tree)) /\ {p} \in SUBSET Leaves(tab.tree) /\ {p} # {}
      /\ tab.next_id \in 0 .. MaxGroups
  BY DEF TabInv, Ids
<1>5. Removes(tab, out) /\ RemovesOne(tab, p, out)
  BY <1>1, <1>4, PanesRemoved
<1>6. /\ Fits(out, Leaves(out.tree)) /\ out.next_id = tab.next_id /\ out.zoomed = None
      /\ Leaves(out.tree) = Leaves(tab.tree) \ {p}
  BY <1>3, <1>5 DEF Removes, RemovesOne
<1>7. q \in Leaves(out.tree) /\ p \in Pane \ Leaves(out.tree)
  <2>1. Leaves(tab.tree) \in SUBSET Pane
    BY <1>4, TreePlaces DEF Fits, TabStates
  <2> QED BY <1>3, <1>6, <2>1 DEF Ids
<1>8. Inserts(out, p, docked)
  BY <1>2, <1>6, <1>7, PaneInserted
<1>9. /\ Fits(docked, Leaves(docked.tree)) /\ p \in Leaves(docked.tree)
      /\ docked.zoomed = None
      /\ docked.next_id = tab.next_id \/ docked.next_id = tab.next_id + 1
  BY <1>6, <1>8 DEF Inserts
<1>10. Focuses(docked, Leaves(docked.tree), p, tab')
  BY <1>3, <1>9, PaneFocused
<1>11. /\ Fits(tab', Leaves(tab'.tree)) /\ InRange(tab') /\ tab'.next_id = docked.next_id
  BY <1>9, <1>10 DEF Focuses, SameUnits
<1>12. tab'.next_id \in 0 .. MaxGroups
  <2> DEFINE k == tab'.next_id
             d == docked.next_id
             z == tab.next_id
  <2>1. /\ k = d /\ k <= MaxGroups /\ z \in 0 .. MaxGroups
        /\ d = z \/ d = z + 1
    BY <1>3, <1>4, <1>9, <1>11
  <2>2. MaxGroups \in Nat
    BY TabAssumption
  <2> HIDE DEF k, d, z
  <2>3. k \in 0 .. MaxGroups
    BY <2>1, <2>2
  <2> QED BY <2>3 DEF k
<1> QED BY <1>11, <1>12 DEF Leads

(* The first pane on show of a tab that is not zoomed.                     *)
LEMMA FirstShown ==
  ASSUME NEW s, Fits(s, Leaves(s.tree)), s.zoomed = None, PanesOnShow(s) # {}
  PROVE  FirstOnShow(s) \in Leaves(s.tree) /\ FirstOnShow(s) \notin s.hidden
<1>1. PanesOnShow(s) = ToSet(s.tree.order) \ s.hidden
  BY DEF PanesOnShow
<1>2. FirstOnShow(s) = s.tree.order[FirstOf(s.tree.order, PanesOnShow(s))]
  BY DEF FirstOnShow
<1>3. s.tree.order \in Seq(Pane)
  BY DEF Fits, TabStates, PaneTrees
<1>4. PanesOnShow(s) \cap ToSet(s.tree.order) # {}
  BY <1>1
<1>5. FirstOnShow(s) \in PanesOnShow(s)
  BY <1>2, <1>3, <1>4, FirstPlace
<1>6. ToSet(s.tree.order) = Leaves(s.tree)
  BY TreePlaces DEF Fits, TabStates
<1> QED BY <1>1, <1>5, <1>6

LEMMA IsPutBackLeads ==
  ASSUME TabInv, NEW p \in Ids, NEW q \in Ids, IsPutBack(p, q)
  PROVE  Leads(tab, tab')
<1>1. PICK out : out = RemovePaneIf(tab, {p})
  OBVIOUS
<1>2. PICK beside : beside = FirstOnShow(out)
  OBVIOUS
<1>3. /\ p # q /\ tab.zoomed = None /\ tab' = SplitAndInsert(out, beside, p, TRUE, FALSE)
      /\ PanesOnShow(out) # {} /\ tab'.next_id <= MaxGroups
  BY <1>1, <1>2 DEF IsPutBack, GroupsBounded
<1>4. Fits(tab, Leaves(tab.tree)) /\ {p} \in SUBSET Leaves(tab.tree) /\ {p} # {}
      /\ tab.next_id \in 0 .. MaxGroups
  BY DEF TabInv, Ids
<1>5. Removes(tab, out) /\ RemovesOne(tab, p, out)
  BY <1>1, <1>4, PanesRemoved
<1>6. /\ Fits(out, Leaves(out.tree)) /\ out.next_id = tab.next_id /\ out.zoomed = None
      /\ Leaves(out.tree) = Leaves(tab.tree) \ {p}
  BY <1>3, <1>5 DEF Removes, RemovesOne
<1>7. beside \in Leaves(out.tree) /\ p \in Pane \ Leaves(out.tree)
  <2>1. Leaves(tab.tree) \in SUBSET Pane
    BY <1>4, TreePlaces DEF Fits, TabStates
  <2> QED BY <1>2, <1>3, <1>6, <2>1, FirstShown DEF Ids
<1>8. Inserts(out, p, tab')
  BY <1>3, <1>6, <1>7, PaneInserted
<1>9. /\ Fits(tab', Leaves(tab'.tree))
      /\ tab'.next_id = tab.next_id \/ tab'.next_id = tab.next_id + 1
  BY <1>6, <1>8 DEF Inserts
<1>10. InRange(tab) => InRange(tab')
  BY <1>5, <1>8 DEF Inserts, RemovesOne
<1>11. tab'.next_id \in 0 .. MaxGroups
  <2> DEFINE k == tab'.next_id
             z == tab.next_id
  <2>1. k <= MaxGroups /\ z \in 0 .. MaxGroups /\ (k = z \/ k = z + 1)
    BY <1>3, <1>4, <1>9
  <2>2. MaxGroups \in Nat
    BY TabAssumption
  <2> HIDE DEF k, z
  <2>3. k \in 0 .. MaxGroups
    BY <2>1, <2>2
  <2> QED BY <2>3 DEF k
<1> QED BY <1>9, <1>10, <1>11 DEF Leads

(* Two units become one group.                                             *)
IsJoined(A, B, r) ==
  /\ r \in Seq(Pane) /\ IsInjective(r) /\ ToSet(r) = ToSet(A) \cup ToSet(B)
  /\ Len(r) = Len(A) + Len(B)

LEMMA Joined ==
  ASSUME NEW A \in Seq(Pane), NEW B \in Seq(Pane), IsInjective(A), IsInjective(B),
         ToSet(A) \cap ToSet(B) = {}, NEW r, r = A \o B
  PROVE  IsJoined(A, B, r)
<1>1. PICK m \in Nat : m = Len(A)
  OBVIOUS
<1>2. PICK n \in Nat : n = Len(B)
  OBVIOUS
<1>3. /\ r \in Seq(Pane) /\ Len(r) = m + n
      /\ \A i \in 1 .. m + n : r[i] = IF i <= m THEN A[i] ELSE B[i - m]
  BY <1>1, <1>2
<1>4. DOMAIN A = 1 .. m /\ DOMAIN B = 1 .. n /\ DOMAIN r = 1 .. m + n
  BY <1>1, <1>2, <1>3
<1>5. /\ \A i \in 1 .. m : A[i] \in ToSet(A)
      /\ \A i \in 1 .. n : B[i] \in ToSet(B)
      /\ \A x \in ToSet(A) : \E i \in 1 .. m : A[i] = x
      /\ \A x \in ToSet(B) : \E i \in 1 .. n : B[i] = x
  BY <1>4 DEF ToSet
<1>6. \A i \in 1 .. m + n : \/ i \in 1 .. m /\ r[i] = A[i]
                            \/ /\ i \notin 1 .. m /\ i - m \in 1 .. n
                               /\ r[i] = B[i - m]
  BY <1>3
<1>7. /\ \A i \in 1 .. m : i \in 1 .. m + n /\ r[i] = A[i]
      /\ \A i \in 1 .. n : i + m \in 1 .. m + n /\ r[i + m] = B[i]
  <2>1. ASSUME NEW i \in 1 .. m PROVE i \in 1 .. m + n /\ r[i] = A[i]
    <3>1. i \in 1 .. m + n /\ i <= m
      OBVIOUS
    <3> QED BY <1>3, <3>1
  <2>2. ASSUME NEW i \in 1 .. n PROVE i + m \in 1 .. m + n /\ r[i + m] = B[i]
    <3>1. PICK j \in 1 .. m + n : j = i + m /\ ~ (j <= m) /\ j - m = i
      OBVIOUS
    <3>2. r[j] = B[j - m]
      BY <1>3, <3>1
    <3> QED BY <3>1, <3>2
  <2> QED BY <2>1, <2>2
<1>8. ToSet(r) = ToSet(A) \cup ToSet(B)
  <2>1. \A x \in ToSet(r) : \E i \in 1 .. m + n : r[i] = x
    BY <1>4 DEF ToSet
  <2>2. \A i \in 1 .. m + n : r[i] \in ToSet(r)
    BY <1>4 DEF ToSet
  <2>3. ASSUME NEW x \in ToSet(r) PROVE x \in ToSet(A) \cup ToSet(B)
    <3>1. PICK i \in 1 .. m + n : r[i] = x
      BY <2>1
    <3>2. CASE i \in 1 .. m /\ r[i] = A[i]
      BY <1>5, <3>1, <3>2
    <3>3. CASE i - m \in 1 .. n /\ r[i] = B[i - m]
      BY <1>5, <3>1, <3>3
    <3> QED BY <1>6, <3>2, <3>3
  <2>4. ASSUME NEW x \in ToSet(A) PROVE x \in ToSet(r)
    <3>1. PICK i \in 1 .. m : A[i] = x
      BY <1>5
    <3>2. i \in 1 .. m + n /\ r[i] = A[i]
      BY <1>7
    <3>3. r[i] \in ToSet(r)
      BY <2>2, <3>2
    <3> QED BY <3>1, <3>2, <3>3
  <2>5. ASSUME NEW x \in ToSet(B) PROVE x \in ToSet(r)
    <3>1. PICK i \in 1 .. n : B[i] = x
      BY <1>5
    <3>2. i + m \in 1 .. m + n /\ r[i + m] = B[i]
      BY <1>7
    <3>3. r[i + m] \in ToSet(r)
      BY <2>2, <3>2
    <3> QED BY <3>1, <3>2, <3>3
  <2> QED BY <2>3, <2>4, <2>5
<1>9. ASSUME NEW i \in 1 .. m + n, NEW j \in 1 .. m + n, r[i] = r[j] PROVE i = j
  <2>1. /\ \A x, y \in 1 .. m : A[x] = A[y] => x = y
        /\ \A x, y \in 1 .. n : B[x] = B[y] => x = y
    BY <1>4 DEF IsInjective
  <2>2. CASE i \in 1 .. m /\ j \in 1 .. m
    BY <1>7, <1>9, <2>1, <2>2, ZenonT(30)
  <2>3. CASE i \notin 1 .. m /\ j \notin 1 .. m
    <3>1. i - m \in 1 .. n /\ r[i] = B[i - m] /\ j - m \in 1 .. n /\ r[j] = B[j - m]
      BY <1>6, <2>3
    <3>2. B[i - m] = B[j - m]
      BY <1>9, <3>1
    <3>3. i - m = j - m
      BY <2>1, <3>1, <3>2
    <3> QED BY <3>3
  <2>4. ASSUME NEW x \in 1 .. m, NEW y \in 1 .. m + n, y \notin 1 .. m PROVE r[x] # r[y]
    <3>1. r[x] \in ToSet(A)
      BY <1>5, <1>7
    <3>2. r[y] \in ToSet(B)
      BY <1>5, <1>6, <2>4
    <3> QED BY <3>1, <3>2
  <2>5. i \in 1 .. m <=> j \in 1 .. m
    BY <1>9, <2>4
  <2> QED BY <2>2, <2>3, <2>5
<1>10. IsInjective(r)
  BY <1>4, <1>9 DEF IsInjective
<1> QED BY <1>1, <1>2, <1>3, <1>8, <1>10 DEF IsJoined

(* The groups a and b, if they are groups, make way for one of members ps. *)
Regroups(s, a, b, ps, last, n) ==
  n = CreateGroup([s EXCEPT !.groups =
        Restrict(@, {g \in DOMAIN @ : GroupUnit(g) \notin {a, b}})], ps, last)

(* A group of members N comes to some of the groups m.                     *)
GroupJoins(m, N, m2) ==
  \A g \in DOMAIN m2 : \/ g \in DOMAIN m /\ MembersIn(m2, g) = MembersIn(m, g)
                       \/ MembersIn(m2, g) = N

(* In m2 the units a and b of m are one group, with the new id k.          *)
Fuses(m, a, b, k, L, m2) ==
  /\ k \notin DOMAIN m
  /\ DOMAIN m2 = {g \in DOMAIN m : GroupUnit(g) \notin {a, b}} \cup {k}
  /\ \A q \in L : UnitBy(m2, q) = IF UnitBy(m, q) \in {a, b} THEN GroupUnit(k)
                                                             ELSE UnitBy(m, q)

LEMMA UnitsGrouped ==
  ASSUME NEW s, NEW L, Fits(s, L), NEW a, NEW b, a # b,
         NEW A, NEW B, IsUnitOf(s, L, a, A), IsUnitOf(s, L, b, B),
         ~ InStack(s.stacks, a), ~ InStack(s.stacks, b), NEW last \in ToSet(A),
         NEW n, Regroups(s, a, b, A \o B, last, n)
  PROVE  \E m : /\ Rebuilds(s, L, m, s.stacks, s.next_id + 1, s.hidden, n)
                /\ GroupJoins(s.groups, ToSet(A) \cup ToSet(B), m)
                /\ Fuses(s.groups, a, b, s.next_id, L, m)
<1>1. PICK ps : ps = A \o B
  OBVIOUS
<1>2. PICK m : m = s.groups
  OBVIOUS
<1>3. PICK D : D = {g \in DOMAIN m : GroupUnit(g) \notin {a, b}}
  OBVIOUS
<1>4. PICK m0 : m0 = Restrict(m, D)
  OBVIOUS
<1>5. PICK k : k = s.next_id
  OBVIOUS
<1>6. PICK m2 : Adds(m0, k, ps, last, m2)
  BY DEF Adds
<1>7. /\ L \in SUBSET Pane /\ GroupsFit(m, k, L) /\ k \in Nat
      /\ StacksShaped(s.stacks) /\ StacksNamed(s.stacks, m, L)
      /\ s \in TabStates
  BY <1>2, <1>5 DEF Fits, UnitsFit, TabStates
<1>8. /\ A \in Seq(Pane) /\ A # <<>> /\ IsInjective(A) /\ ToSet(A) \subseteq L
      /\ \A q : q \in ToSet(A) <=> (q \in L /\ UnitBy(m, q) = a)
  BY <1>2 DEF IsUnitOf
<1>9. /\ B \in Seq(Pane) /\ B # <<>> /\ IsInjective(B) /\ ToSet(B) \subseteq L
      /\ \A q : q \in ToSet(B) <=> (q \in L /\ UnitBy(m, q) = b)
  BY <1>2 DEF IsUnitOf
<1>10. ToSet(A) \cap ToSet(B) = {}
  BY <1>8, <1>9
<1>11. /\ ps \in Seq(Pane) /\ IsInjective(ps) /\ ToSet(ps) = ToSet(A) \cup ToSet(B)
       /\ Len(ps) = Len(A) + Len(B)
  <2>1. /\ A \in Seq(Pane) /\ IsInjective(A) /\ B \in Seq(Pane) /\ IsInjective(B)
        /\ ToSet(A) \cap ToSet(B) = {} /\ ps = A \o B
    BY <1>1, <1>8, <1>9, <1>10
  <2>2. IsJoined(A, B, ps)
    BY <2>1, Joined
  <2> QED BY <2>2 DEF IsJoined
<1>12. Len(ps) >= 2
  <2>1. Len(A) \in Nat /\ Len(B) \in Nat /\ Len(A) # 0 /\ Len(B) # 0
    BY <1>8, <1>9
  <2> QED BY <1>11, <2>1
<1>13. \A g \in DOMAIN m : MembersIn(m, g) \subseteq L
  BY <1>7 DEF GroupsFit
<1>14. GroupsFit(m0, k, L) /\ AreKept(m, D, m0)
  BY <1>3, <1>4, <1>7, <1>13, GroupsKept DEF Keeps
<1>15. DOMAIN m0 = D /\ \A g \in D : MembersIn(m0, g) = MembersIn(m, g)
  BY <1>14 DEF AreKept
<1>16. \A q \in L : q \in ToSet(ps) <=> UnitBy(m, q) \in {a, b}
  BY <1>8, <1>9, <1>11
<1>17. \A g \in DOMAIN m : \A q \in MembersIn(m, g) : UnitBy(m, q) = GroupUnit(g)
  BY <1>7, UnitOnly
<1>18. ASSUME NEW g \in D PROVE MembersIn(m0, g) \cap ToSet(ps) = {}
  <2>1. g \in DOMAIN m /\ GroupUnit(g) \notin {a, b}
    BY <1>3
  <2> QED BY <1>13, <1>15, <1>16, <1>17, <2>1
<1>19. GroupsFit(m2, k + 1, L) /\ IsAdded(m0, k, ps, L, m2)
  <2>1. ToSet(ps) \subseteq L /\ last \in ToSet(ps)
    BY <1>8, <1>9, <1>11
  <2>2. \A g \in DOMAIN m0 : MembersIn(m0, g) \cap ToSet(ps) = {}
    BY <1>15, <1>18
  <2> QED BY <1>6, <1>7, <1>11, <1>12, <1>14, <2>1, <2>2, GroupAdded
<1>20. ASSUME NEW p \in L, UnitBy(m, p) \notin {a, b} PROVE UnitBy(m2, p) = UnitBy(m, p)
  <2>3. p \in L \ ToSet(ps)
    BY <1>16, <1>20
  <2>4. UnitBy(m2, p) = UnitBy(m0, p)
    BY <1>19, <2>3 DEF IsAdded
  <2>5. CASE \E g \in DOMAIN m : p \in MembersIn(m, g)
    <3>1. PICK g \in DOMAIN m : p \in MembersIn(m, g)
      BY <2>5
    <3>2. UnitBy(m, p) = GroupUnit(g)
      BY <1>17, <3>1
    <3>3. g \in D
      BY <1>3, <1>20, <3>2
    <3>4. UnitBy(m0, p) = UnitBy(m, p)
      BY <1>14, <3>1, <3>3 DEF AreKept
    <3> QED BY <2>4, <3>4
  <2>6. CASE \A g \in DOMAIN m : p \notin MembersIn(m, g)
    <3>1. UnitBy(m, p) = PaneUnit(p)
      BY <1>7, <2>6, UnitOnly
    <3>2. D \subseteq DOMAIN m
      BY <1>3
    <3>3. UnitBy(m0, p) = PaneUnit(p)
      BY <1>14, <2>6, <3>2 DEF AreKept
    <3> QED BY <2>4, <3>1, <3>3
  <2> QED BY <2>5, <2>6
<1>21. StacksNamed(s.stacks, m2, L)
  <2> SUFFICES ASSUME NEW u, InStack(s.stacks, u) PROVE \E p \in L : UnitBy(m2, p) = u
    BY DEF StacksNamed
  <2>1. PICK p \in L : UnitBy(m, p) = u
    BY <1>7 DEF StacksNamed
  <2>2. u \notin {a, b}
    OBVIOUS
  <2> QED BY <1>20, <2>1, <2>2
<1>22. PICK loose : loose = [s EXCEPT !.groups = Restrict(@,
                               {g \in DOMAIN @ : GroupUnit(g) \notin {a, b}})]
  OBVIOUS
<1>23. /\ loose.groups = m0 /\ loose.next_id = k
       /\ loose = [s EXCEPT !.groups = m0]
  BY <1>2, <1>3, <1>4, <1>5, <1>7, <1>22 DEF TabStates
<1>24. n = CreateGroup(loose, ps, last)
  BY <1>1, <1>22 DEF Regroups
<1>25. n = [s EXCEPT !.groups = m2, !.next_id = k + 1]
  <2>1. n = [loose EXCEPT !.groups = m2, !.next_id = k + 1]
    BY <1>6, <1>23, <1>24 DEF CreateGroup, Adds
  <2> QED BY <1>7, <1>23, <2>1 DEF TabStates
<1>26. Rebuild(s, m2, s.stacks, k + 1, s.hidden, n)
  BY <1>7, <1>25 DEF Rebuild, TabStates
<1>27. k + 1 \in Nat /\ s.hidden \in SUBSET L /\ IsTree(s.tree)
       /\ s.zoomed \in Leaves(s.tree) \cup {None}
  BY <1>7 DEF Fits, UnitsFit
<1>28. Rebuilds(s, L, m2, s.stacks, k + 1, s.hidden, n)
  BY <1>7, <1>19, <1>21, <1>26, <1>27, Rebuilt
<1>29. GroupJoins(m, ToSet(A) \cup ToSet(B), m2)
  <2>1. DOMAIN m2 = D \cup {k} /\ MembersIn(m2, k) = ToSet(ps)
    BY <1>15, <1>19 DEF IsAdded, MembersIn
  <2>2. \A g \in D : MembersIn(m2, g) = MembersIn(m0, g)
    BY <1>15, <1>19 DEF IsAdded, MembersIn
  <2>3. D \subseteq DOMAIN m
    BY <1>3
  <2> QED BY <1>11, <1>15, <2>1, <2>2, <2>3 DEF GroupJoins
<1>30. Fuses(m, a, b, k, L, m2)
  <2>1. k \notin DOMAIN m
    <3>1. \A g \in DOMAIN m : g < k /\ g \in Nat
      BY <1>7, GroupTyped DEF GroupsFit
    <3> QED BY <1>7, <3>1
  <2>2. DOMAIN m2 = D \cup {k}
    BY <1>15, <1>19 DEF IsAdded
  <2>3. ASSUME NEW p \in L, UnitBy(m, p) \in {a, b} PROVE UnitBy(m2, p) = GroupUnit(k)
    BY <1>16, <1>19, <2>3 DEF IsAdded
  <2> QED BY <1>3, <1>20, <2>1, <2>2, <2>3 DEF Fuses
<1> QED BY <1>2, <1>5, <1>28, <1>29, <1>30

LEMMA NeighbourThere ==
  ASSUME TabInv, NEW p \in Neighbours
  PROVE  ActivePane(tab) \in Leaves(tab.tree) /\ p \in Leaves(tab.tree)
<1>1. /\ tab.tree \in PaneTrees /\ IsTree(tab.tree) /\ Fits(tab, Leaves(tab.tree))
      /\ tab.zoomed \in Leaves(tab.tree) \cup {None}
  BY DEF TabInv, Fits, TabStates
<1>2. ActivePane(tab) # None
  BY DEF Neighbours
<1>3. ActivePane(tab) \in Leaves(tab.tree)
  BY <1>1, <1>2, ActiveTyped
<1>4. ToSet(tab.tree.order) = Leaves(tab.tree) /\ tab.tree.order # <<>>
      /\ tab.tree.order \in Seq(Pane)
  BY <1>1, <1>3, TreePlaces
<1>5. PanesOnShow(tab) \subseteq Leaves(tab.tree)
  BY <1>1, <1>4 DEF PanesOnShow
<1>6. Head(tab.tree.order) \in Leaves(tab.tree)
  <2>1. Head(tab.tree.order) = tab.tree.order[1] /\ 1 \in 1 .. Len(tab.tree.order)
    BY <1>4
  <2> QED BY <1>1, <2>1, TreePlaces
<1> QED BY <1>2, <1>3, <1>5, <1>6 DEF Neighbours

(* The panes A of the unit u of a pane p.                                  *)
IsUnitAt(s, L, p, u, A) ==
  /\ IsUnitOf(s, L, u, A) /\ p \in ToSet(A)
  /\ A \in Seq(L) /\ A # <<>> /\ IsInjective(A) /\ ToSet(A) \subseteq L

LEMMA UnitAt ==
  ASSUME NEW s, NEW L, Fits(s, L), NEW p \in L
  PROVE  IsUnitAt(s, L, p, UnitOf(s, p), UnitPanes(s, UnitOf(s, p)))
<1>1. PICK u : u = UnitOf(s, p)
  OBVIOUS
<1>2. PICK A : A = UnitPanes(s, u)
  OBVIOUS
<1>3. u = UnitBy(s.groups, p)
  BY <1>1, UnitByGroups
<1>4. L \in SUBSET Pane /\ GroupsFit(s.groups, s.next_id, L)
  BY DEF Fits, UnitsFit
<1>5. IsUnitOf(s, L, u, A)
  BY <1>2, <1>3, <1>4, PanesOfUnit
<1>6. /\ A \in Seq(Pane) /\ A # <<>> /\ IsInjective(A) /\ ToSet(A) \subseteq L
      /\ p \in ToSet(A)
  BY <1>3, <1>5 DEF IsUnitOf
<1>7. A \in Seq(L)
  <2>1. PICK n \in Nat : n = Len(A)
    BY <1>6
  <2>2. A = [i \in 1 .. n |-> A[i]] /\ DOMAIN A = 1 .. n
    BY <1>6, <2>1
  <2>3. \A i \in 1 .. n : A[i] \in L
    BY <1>6, <2>2 DEF ToSet
  <2>4. A \in [1 .. n -> L]
    BY <2>2, <2>3
  <2> QED BY <2>1, <2>4, AsList
<1> QED BY <1>1, <1>2, <1>5, <1>6, <1>7 DEF IsUnitAt

(* The unit a comes beside the unit b, where it is not there already, and  *)
(* their panes may become one group.                                       *)
Joining(s, n, a, b, A, B, d) ==
  /\ a # b /\ IsUnitOf(s, Leaves(s.tree), a, A) /\ IsUnitOf(s, Leaves(s.tree), b, B)
  /\ \/ d = s /\ ToSet(A) \cup ToSet(B) \in s.tree.sets
     \/ ToSet(B) \in s.tree.sets /\ Docks(s, A, ToSet(B), d)
  /\ GroupJoins(d.groups, ToSet(A) \cup ToSet(B), n.groups)
  /\ n.tree = d.tree

UnitsJoin(s, n) == \E a, b, A, B, d : Joining(s, n, a, b, A, B, d)

LEMMA GroupWithLeads ==
  ASSUME TabInv, NEW p \in Neighbours, NEW second \in BOOLEAN, GroupWith(p, second)
  PROVE  Leads(tab, tab') /\ UnitsJoin(tab, tab')
<1>1. PICK L : L = Leaves(tab.tree)
  OBVIOUS
<1>2. PICK here : here = ActivePane(tab)
  OBVIOUS
<1>3. PICK a : a = UnitOf(tab, here)
  OBVIOUS
<1>4. PICK b : b = UnitOf(tab, p)
  OBVIOUS
<1>5. PICK A : A = UnitPanes(tab, a)
  OBVIOUS
<1>6. PICK B : B = UnitPanes(tab, b)
  OBVIOUS
<1>7. PICK adjacent \in BOOLEAN : adjacent <=> ToSet(A \o B) \in tab.tree.sets
  OBVIOUS
<1>8. PICK placed : placed = IF adjacent THEN tab ELSE DockUnit(tab, A, ToSet(B), second)
  OBVIOUS
<1>9. PICK n : Regroups(placed, a, b, A \o B, here, n)
  BY DEF Regroups
<1>10. /\ tab.zoomed = None /\ a # b /\ ~ Stacked(tab, a) /\ ~ Stacked(tab, b)
       /\ adjacent \/ CanDock(tab, A, ToSet(B))
       /\ tab' = FocusPane(n, here) /\ tab'.next_id <= MaxGroups
  BY <1>2, <1>3, <1>4, <1>5, <1>6, <1>7, <1>8, <1>9 DEF GroupWith, GroupsBounded, Regroups
<1>11. Fits(tab, L) /\ here \in L /\ p \in L /\ tab.next_id \in 0 .. MaxGroups
  BY <1>1, <1>2, NeighbourThere DEF TabInv
<1>12. IsUnitAt(tab, L, here, a, A)
  BY <1>3, <1>5, <1>11, UnitAt
<1>13. IsUnitAt(tab, L, p, b, B)
  BY <1>4, <1>6, <1>11, UnitAt
<1>14. /\ Fits(placed, L) /\ Leaves(placed.tree) = L /\ SameUnits(tab, placed)
       /\ placed.zoomed = None
       /\ ~ adjacent => Docks(tab, A, ToSet(B), placed)
  <2>1. CASE adjacent
    BY <1>1, <1>8, <1>10, <1>11, <2>1, SameSame
  <2>2. CASE ~ adjacent
    <3>1. ToSet(B) \in tab.tree.sets /\ ToSet(A) \cap ToSet(B) = {}
      BY <1>10, <2>2 DEF CanDock
    <3>2. A \in Seq(Leaves(tab.tree)) /\ A # <<>> /\ IsInjective(A)
      BY <1>1, <1>12 DEF IsUnitAt
    <3>3. Docks(tab, A, ToSet(B), DockUnit(tab, A, ToSet(B), second))
      BY <1>1, <1>10, <1>11, <3>1, <3>2, UnitDocked
    <3>4. Docks(tab, A, ToSet(B), placed)
      BY <1>8, <2>2, <3>3
    <3> QED BY <1>1, <3>4 DEF Docks
  <2> QED BY <2>1, <2>2
<1>15. UnitOf(placed, here) = a /\ UnitPanes(placed, a) = A
  BY <1>3, <1>5, <1>14, UnitByGroups, SameUnitBy
<1>16. UnitOf(placed, p) = b /\ UnitPanes(placed, b) = B
  BY <1>4, <1>6, <1>14, UnitByGroups, SameUnitBy
<1>17. IsUnitAt(placed, L, here, a, A)
  BY <1>11, <1>14, <1>15, UnitAt
<1>18. IsUnitAt(placed, L, p, b, B)
  BY <1>11, <1>14, <1>16, UnitAt
<1>19. ~ InStack(placed.stacks, a) /\ ~ InStack(placed.stacks, b)
  BY <1>10, <1>14, StackedIn DEF SameUnits
<1>20. /\ IsUnitOf(placed, L, a, A) /\ IsUnitOf(placed, L, b, B) /\ here \in ToSet(A)
  BY <1>17, <1>18 DEF IsUnitAt
<1>21. PICK m : /\ Rebuilds(placed, L, m, placed.stacks, placed.next_id + 1, placed.hidden, n)
                /\ GroupJoins(placed.groups, ToSet(A) \cup ToSet(B), m)
  <2>1. a # b /\ Fits(placed, L)
    BY <1>10, <1>14
  <2> QED BY <1>9, <1>19, <1>20, <2>1, UnitsGrouped
<1>22. /\ Fits(n, L) /\ n.tree = placed.tree /\ n.zoomed = None
       /\ n.next_id = tab.next_id + 1
  BY <1>14, <1>21 DEF Rebuilds, SameUnits
<1>23. Focuses(n, L, here, tab')
  BY <1>10, <1>22, PaneFocused
<1>24. /\ Fits(tab', Leaves(tab'.tree)) /\ InRange(tab') /\ tab'.next_id = n.next_id
  BY <1>11, <1>14, <1>22, <1>23 DEF Focuses, SameUnits
<1>25. tab'.next_id \in 0 .. MaxGroups
  <2>1. /\ tab'.next_id = tab.next_id + 1 /\ tab'.next_id <= MaxGroups
        /\ tab.next_id \in 0 .. MaxGroups
    BY <1>10, <1>11, <1>22, <1>24
  <2> QED BY <2>1, TabAssumption
<1>26. IsUnitOf(tab, L, a, A) /\ IsUnitOf(tab, L, b, B)
  BY <1>12, <1>13 DEF IsUnitAt
<1>27. \/ placed = tab /\ ToSet(A) \cup ToSet(B) \in tab.tree.sets
       \/ ToSet(B) \in tab.tree.sets /\ Docks(tab, A, ToSet(B), placed)
  <2>1. CASE adjacent
    <3>1. ToSet(A) \cap ToSet(B) = {}
      BY <1>10, <1>26 DEF IsUnitOf
    <3>2. ToSet(A \o B) = ToSet(A) \cup ToSet(B)
      BY <1>26, <3>1, Joined DEF IsUnitOf, IsJoined
    <3> QED BY <1>7, <1>8, <2>1, <3>2
  <2>2. CASE ~ adjacent
    BY <1>14, <1>10, <2>2 DEF CanDock
  <2> QED BY <2>1, <2>2
<1>28. GroupJoins(placed.groups, ToSet(A) \cup ToSet(B), tab'.groups)
  <2>1. n.groups = m /\ SameUnits(n, tab')
    BY <1>21, <1>23 DEF Rebuilds, Focuses
  <2> QED BY <1>21, <2>1 DEF GroupJoins, SameUnits, MembersIn
<1>29. tab'.tree = placed.tree
  BY <1>22, <1>23 DEF Focuses
<1>30. Joining(tab, tab', a, b, A, B, placed)
  BY <1>1, <1>10, <1>26, <1>27, <1>28, <1>29 DEF Joining
<1>31. UnitsJoin(tab, tab')
  BY <1>30 DEF UnitsJoin
<1> QED BY <1>24, <1>25, <1>31 DEF Leads

LEMMA UngroupActiveLeads ==
  ASSUME TabInv, UngroupActive
  PROVE  Leads(tab, tab')
<1>1. PICK L : L = Leaves(tab.tree)
  OBVIOUS
<1>2. PICK q : q = ActivePane(tab)
  OBVIOUS
<1>3. PICK u : u = UnitOf(tab, q)
  OBVIOUS
<1>4. PICK m : m = tab.groups
  OBVIOUS
<1>5. u.kind = "group" /\ ~ Stacked(tab, u) /\ tab' = Dissolve(tab, u.id)
  BY <1>2, <1>3 DEF UngroupActive
<1>6. /\ tab \in TabStates /\ IsTree(tab.tree) /\ Fits(tab, L)
      /\ tab.zoomed \in Leaves(tab.tree) \cup {None}
      /\ tab.next_id \in Nat /\ L \in SUBSET Pane /\ tab.hidden \in SUBSET L
      /\ GroupsFit(m, tab.next_id, L)
      /\ StacksShaped(tab.stacks) /\ StacksNamed(tab.stacks, m, L)
      /\ tab.next_id \in 0 .. MaxGroups
  BY <1>1, <1>4 DEF TabInv, Fits, UnitsFit, TabStates
<1>7. u = UnitBy(m, q) /\ DOMAIN m \subseteq Nat
  BY <1>3, <1>4, <1>6, UnitByGroups, GroupTyped DEF GroupsFit
<1>8. PICK g \in DOMAIN m : u = GroupUnit(g) /\ u.id = g
  <2>1. InGroup(m, q, u) \/ InNoGroup(m, q, u)
    BY <1>7, UnitIs
  <2>2. ~ InNoGroup(m, q, u)
    BY <1>5, UnitKinds DEF InNoGroup
  <2> QED BY <2>1, <2>2, UnitKinds DEF InGroup
<1>9. PICK D : D = DOMAIN m \ {g}
  OBVIOUS
<1>10. PICK m0 : m0 = Restrict(m, D)
  OBVIOUS
<1>11. GroupsFit(m0, tab.next_id, L) /\ AreKept(m, D, m0)
  <2>1. /\ D \in SUBSET DOMAIN m /\ \A h \in D : MembersIn(m, h) \subseteq L
        /\ Keeps(m, D, m0)
    BY <1>6, <1>9, <1>10 DEF GroupsFit, Keeps
  <2> QED BY <1>6, <2>1, GroupsKept
<1>12. StacksNamed(tab.stacks, m0, L)
  <2> SUFFICES ASSUME NEW v, InStack(tab.stacks, v) PROVE \E p \in L : UnitBy(m0, p) = v
    BY DEF StacksNamed
  <2>1. PICK p \in L : UnitBy(m, p) = v
    BY <1>6 DEF StacksNamed
  <2>2. v # u
    BY <1>5, StackedIn
  <2>3. CASE \E h \in DOMAIN m : p \in MembersIn(m, h)
    <3>1. PICK h \in DOMAIN m : p \in MembersIn(m, h)
      BY <2>3
    <3>2. v = GroupUnit(h)
      BY <1>6, <2>1, <3>1, UnitOnly
    <3>3. h \in D
      BY <1>8, <1>9, <2>2, <3>2
    <3> QED BY <1>11, <2>1, <3>1, <3>3 DEF AreKept
  <2>4. CASE \A h \in DOMAIN m : p \notin MembersIn(m, h)
    <3>1. UnitBy(m, p) = PaneUnit(p)
      BY <1>6, <2>4, UnitOnly
    <3>2. UnitBy(m0, p) = PaneUnit(p)
      BY <1>9, <1>11, <2>4 DEF AreKept
    <3> QED BY <2>1, <3>1, <3>2
  <2> QED BY <2>3, <2>4
<1>13. Rebuild(tab, m0, tab.stacks, tab.next_id, tab.hidden, tab')
  <2>1. tab' = [tab EXCEPT !.groups = m0]
    BY <1>4, <1>5, <1>6, <1>8, <1>9, <1>10 DEF Dissolve, TabStates
  <2> QED BY <1>6, <2>1 DEF Rebuild, TabStates
<1>14. Rebuilds(tab, L, m0, tab.stacks, tab.next_id, tab.hidden, tab')
  BY <1>6, <1>11, <1>12, <1>13, Rebuilt
<1> QED BY <1>1, <1>6, <1>14 DEF Rebuilds, Leads, InRange

LEMMA StackCycleLeads ==
  ASSUME TabInv, NEW forward \in BOOLEAN, StackCycle(forward)
  PROVE  Leads(tab, tab')
<1>1. PICK s : s = Unzoomed(tab)
  OBVIOUS
<1>2. PICK new, q, n : n = ShowStackUnit(s, new) /\ tab' = FocusPane(n, q)
  BY <1>1 DEF StackCycle
<1>3. Fits(tab, Leaves(tab.tree)) /\ tab.next_id \in 0 .. MaxGroups
  BY DEF TabInv
<1>4. Activates(tab, Leaves(tab.tree), tab.active, None, s)
  BY <1>1, <1>3, Unzooms
<1>5. Fits(s, Leaves(tab.tree))
  BY <1>4 DEF Activates
<1>6. Shows(s, Leaves(tab.tree), n)
  BY <1>2, <1>5, StackShown
<1>7. Fits(n, Leaves(tab.tree))
  BY <1>6 DEF Shows
<1>8. Focuses(n, Leaves(tab.tree), q, tab')
  BY <1>2, <1>7, PaneFocused
<1> QED BY <1>3, <1>4, <1>6, <1>8
        DEF Activates, Shows, Focuses, SameUnits, Leads, InRange

LEMMA ShowStackedPaneLeads ==
  ASSUME TabInv, NEW p, ShowStackedPane(p)
  PROVE  Leads(tab, tab')
<1>1. PICK u, q, n : n = ShowStackUnit(tab, u) /\ tab' = FocusPane(n, q)
  BY DEF ShowStackedPane
<1>2. Fits(tab, Leaves(tab.tree)) /\ tab.next_id \in 0 .. MaxGroups
  BY DEF TabInv
<1>3. Shows(tab, Leaves(tab.tree), n)
  BY <1>1, <1>2, StackShown
<1>4. Fits(n, Leaves(tab.tree))
  BY <1>3 DEF Shows
<1>5. Focuses(n, Leaves(tab.tree), q, tab')
  BY <1>1, <1>4, PaneFocused
<1> QED BY <1>2, <1>3, <1>5 DEF Shows, Focuses, SameUnits, Leads, InRange

(* A unit joins the stack of another one, or the two form a stack.         *)
StackOn(s, a, b) ==
  IF Stacked(s, b) THEN [units |-> Append(StackOf(s, b).units, a),
                         active |-> Len(StackOf(s, b).units)]
  ELSE [units |-> <<b, a>>, active |-> 1]

Stacks(s, a, b, K) ==
  /\ StacksShaped(K)
  /\ \A x : InStack(K, x) => InStack(s.stacks, x) \/ x = a \/ x = b

LEMMA StackJoined ==
  ASSUME NEW s, StacksShaped(s.stacks), NEW a \in AnyUnit, NEW b \in AnyUnit, a # b,
         ~ Stacked(s, a)
  PROVE  Stacks(s, a, b, {k \in s.stacks : b \notin ToSet(k.units)} \cup {StackOn(s, a, b)})
<1>1. PICK O : O = {k \in s.stacks : b \notin ToSet(k.units)}
  OBVIOUS
<1>2. PICK j : j = StackOn(s, a, b)
  OBVIOUS
<1>3. StacksShaped(O) /\ \A x : InStack(O, x) => InStack(s.stacks, x)
  BY <1>1, FewerStacks
<1>4. ~ InStack(O, a) /\ ~ InStack(O, b) /\ ~ InStack(s.stacks, a)
  BY <1>1, <1>3, StackedIn DEF InStack
<1>5. /\ j \in StackTypes /\ IsInjective(j.units) /\ j.active < Len(j.units)
      /\ \A x \in ToSet(j.units) : ~ InStack(O, x)
      /\ \A x \in ToSet(j.units) : InStack(s.stacks, x) \/ x = a \/ x = b
  <2>1. CASE Stacked(s, b)
    <3>1. PICK k : k = StackOf(s, b)
      OBVIOUS
    <3>2. /\ k \in s.stacks /\ k.units \in Seq(AnyUnit) /\ b \in ToSet(k.units)
          /\ IsInjective(k.units)
          /\ \A i \in s.stacks \ {k} : ToSet(i.units) \cap ToSet(k.units) = {}
      BY <2>1, <3>1, ItsStack
    <3>3. PICK us : us = k.units
      OBVIOUS
    <3>4. us \in Seq(AnyUnit) /\ IsInjective(us) /\ a \notin ToSet(us)
      BY <1>4, <3>2, <3>3 DEF InStack
    <3>5. j = [units |-> Append(us, a), active |-> Len(us)]
      BY <1>2, <2>1, <3>1, <3>3 DEF StackOn
    <3>6. PICK n \in Nat : n = Len(us)
      BY <3>4
    <3>7. PICK new : new = Append(us, a)
      OBVIOUS
    <3>8. /\ new \in Seq(AnyUnit) /\ Len(new) = n + 1 /\ DOMAIN new = 1 .. n + 1
          /\ DOMAIN us = 1 .. n
          /\ \A i \in 1 .. n : new[i] = us[i]
          /\ new[n + 1] = a
      BY <3>4, <3>6, <3>7
    <3>9. \A i \in 1 .. n + 1 : i \in 1 .. n \/ i = n + 1
      OBVIOUS
    <3>10. \A i \in 1 .. n : us[i] \in ToSet(us)
      BY <3>8 DEF ToSet
    <3>11. \A x, y \in 1 .. n : us[x] = us[y] => x = y
      BY <3>4, <3>8 DEF IsInjective
    <3>12. \A x, y \in 1 .. n + 1 : new[x] = new[y] => x = y
      BY <3>4, <3>8, <3>9, <3>10, <3>11
    <3>13. IsInjective(new)
      BY <3>8, <3>12 DEF IsInjective
    <3>14. \A x \in ToSet(new) : \E i \in 1 .. n + 1 : new[i] = x
      BY <3>8 DEF ToSet
    <3>15. \A x \in ToSet(new) : x \in ToSet(us) \/ x = a
      BY <3>8, <3>9, <3>10, <3>14
    <3>16. ASSUME NEW x \in ToSet(us) PROVE ~ InStack(O, x) /\ InStack(s.stacks, x)
      BY <1>1, <3>2, <3>3 DEF InStack
    <3>17. j.units = new /\ j.active = n
      BY <3>5, <3>6, <3>7
    <3>18. j \in StackTypes
      BY <3>5, <3>6, <3>7, <3>8 DEF StackTypes
    <3>19. j.active < Len(j.units)
      BY <3>8, <3>17
    <3>20. \A x \in ToSet(j.units) : ~ InStack(O, x)
      BY <1>4, <3>15, <3>16, <3>17
    <3>21. \A x \in ToSet(j.units) : InStack(s.stacks, x) \/ x = a \/ x = b
      BY <3>15, <3>16, <3>17
    <3> QED BY <3>13, <3>17, <3>18, <3>19, <3>20, <3>21
  <2>2. CASE ~ Stacked(s, b)
    <3>1. j = [units |-> <<b, a>>, active |-> 1]
      BY <1>2, <2>2 DEF StackOn
    <3>2. PICK new : new = <<b, a>>
      OBVIOUS
    <3>3. /\ new \in Seq(AnyUnit) /\ Len(new) = 2 /\ DOMAIN new = {1, 2}
          /\ new[1] = b /\ new[2] = a
      BY <3>2
    <3>4. IsInjective(new)
      BY <3>3 DEF IsInjective
    <3>5. ToSet(new) = {a, b}
      BY <3>3 DEF ToSet
    <3>6. j.units = new /\ j.active = 1 /\ j \in StackTypes
      BY <3>1, <3>2, <3>3 DEF StackTypes
    <3>7. j.active < Len(j.units)
      <4>1. j.active = 1 /\ Len(j.units) = 2
        BY <3>3, <3>6
      <4> QED BY <4>1
    <3> QED BY <1>4, <3>4, <3>5, <3>6, <3>7
  <2> QED BY <2>1, <2>2
<1>6. /\ StacksShaped(O \cup {j})
      /\ \A x : InStack(O \cup {j}, x) <=> InStack(O, x) \/ x \in ToSet(j.units)
  BY <1>3, <1>5, StackPut
<1> QED BY <1>1, <1>2, <1>3, <1>5, <1>6 DEF Stacks

LEMMA StackWithLeads ==
  ASSUME TabInv, NEW p \in Neighbours, StackWith(p)
  PROVE  Leads(tab, tab') /\ UnitsJoin(tab, tab')
<1>1. PICK L : L = Leaves(tab.tree)
  OBVIOUS
<1>2. PICK here : here = ActivePane(tab)
  OBVIOUS
<1>3. PICK a : a = UnitOf(tab, here)
  OBVIOUS
<1>4. PICK b : b = UnitOf(tab, p)
  OBVIOUS
<1>5. PICK A : A = UnitPanes(tab, a)
  OBVIOUS
<1>6. PICK B : B = UnitPanes(tab, b)
  OBVIOUS
<1>7. PICK docked : docked = DockUnit(tab, A, ToSet(B), TRUE)
  OBVIOUS
<1>8. PICK K : K = {k \in tab.stacks : b \notin ToSet(k.units)} \cup {StackOn(tab, a, b)}
  OBVIOUS
<1>9. PICK s : s = [docked EXCEPT !.stacks = K]
  OBVIOUS
<1>10. PICK h : h = SetUnitHidden(s, b, TRUE)
  OBVIOUS
<1>11. /\ tab.zoomed = None /\ a # b /\ ~ Stacked(tab, a)
       /\ CanDock(tab, A, ToSet(B))
       /\ \E q : tab' = FocusPane(h, q)
  BY <1>2, <1>3, <1>4, <1>5, <1>6, <1>7, <1>8, <1>9, <1>10 DEF StackWith, StackOn
<1>12. Fits(tab, L) /\ here \in L /\ p \in L /\ tab.next_id \in 0 .. MaxGroups
  BY <1>1, <1>2, NeighbourThere DEF TabInv
<1>13. IsUnitAt(tab, L, here, a, A)
  BY <1>3, <1>5, <1>12, UnitAt
<1>14. IsUnitAt(tab, L, p, b, B)
  BY <1>4, <1>6, <1>12, UnitAt
<1>15. /\ L \in SUBSET Pane /\ GroupsFit(tab.groups, tab.next_id, L)
       /\ StacksShaped(tab.stacks) /\ StacksNamed(tab.stacks, tab.groups, L)
  BY <1>12 DEF Fits, UnitsFit
<1>16. UnitBy(tab.groups, here) = a /\ UnitBy(tab.groups, p) = b
  BY <1>3, <1>4, UnitByGroups
<1>17. a \in AnyUnit /\ b \in AnyUnit
  <2>1. here \in Pane /\ p \in Pane
    BY <1>12, <1>15
  <2> QED BY <1>15, <1>16, <2>1, UnitOnly
<1>18. Docks(tab, A, ToSet(B), docked)
  <2>1. ToSet(B) \in tab.tree.sets /\ ToSet(A) \cap ToSet(B) = {}
    BY <1>11 DEF CanDock
  <2>2. A \in Seq(Leaves(tab.tree)) /\ A # <<>> /\ IsInjective(A)
    BY <1>1, <1>13 DEF IsUnitAt
  <2> QED BY <1>1, <1>7, <1>11, <1>12, <2>1, <2>2, UnitDocked
<1>19. /\ Fits(docked, L) /\ Leaves(docked.tree) = L /\ SameUnits(tab, docked)
       /\ docked.zoomed = None /\ InRange(docked)
  BY <1>1, <1>18 DEF Docks
<1>20. Stacks(tab, a, b, K)
  BY <1>8, <1>11, <1>15, <1>17, StackJoined
<1>21. StacksShaped(K) /\ StacksNamed(K, docked.groups, L)
  <2>1. ASSUME NEW u, InStack(K, u) PROVE \E q \in L : UnitBy(docked.groups, q) = u
    <3>1. \E q \in L : UnitBy(tab.groups, q) = u
      <4>1. InStack(tab.stacks, u) \/ u = a \/ u = b
        BY <1>20, <2>1 DEF Stacks
      <4>2. CASE InStack(tab.stacks, u)
        BY <1>15, <4>2 DEF StacksNamed
      <4>3. CASE u = a \/ u = b
        BY <1>12, <1>16, <4>3
      <4> QED BY <4>1, <4>2, <4>3
    <3> QED BY <1>19, <3>1, SameUnitBy
  <2>2. StacksShaped(K)
    BY <1>20 DEF Stacks
  <2> QED BY <2>1, <2>2 DEF StacksNamed
<1>22. /\ docked \in TabStates /\ IsTree(docked.tree)
       /\ docked.zoomed \in Leaves(docked.tree) \cup {None}
       /\ docked.hidden \in SUBSET L /\ docked.next_id \in Nat
       /\ GroupsFit(docked.groups, docked.next_id, L)
  BY <1>19 DEF Fits, UnitsFit, TabStates
<1>23. Rebuild(docked, docked.groups, K, docked.next_id, docked.hidden, s)
  BY <1>9, <1>22 DEF Rebuild, TabStates
<1>24. Rebuilds(docked, L, docked.groups, K, docked.next_id, docked.hidden, s)
  BY <1>15, <1>21, <1>22, <1>23, Rebuilt
<1>25. /\ Fits(s, L) /\ s.tree = docked.tree /\ s.active = docked.active
       /\ s.next_id = docked.next_id /\ s.groups = docked.groups
  BY <1>24 DEF Rebuilds
<1>26. UnitPanes(s, b) = B
  <2>1. UnitPanes(s, b) = UnitPanes(docked, b)
    BY <1>25 DEF UnitPanes
  <2> QED BY <1>6, <1>19, <2>1, SameUnitBy
<1>27. Hide(s, s.hidden \cup ToSet(B), h)
  <2>1. s.hidden \in SUBSET Pane /\ s \in TabStates
    BY <1>25 DEF Fits, TabStates
  <2> QED BY <1>10, <1>26, <2>1 DEF Hide, SetUnitHidden, TabStates
<1>28. s.hidden \cup ToSet(B) \in SUBSET L
  <2>1. s.hidden \subseteq L
    BY <1>25 DEF Fits, UnitsFit
  <2> QED BY <1>14, <2>1 DEF IsUnitAt
<1>29. Hides(s, L, s.hidden \cup ToSet(B), h)
  BY <1>25, <1>27, <1>28, Hidden
<1>30. Fits(h, L) /\ h.tree = s.tree /\ h.active = s.active /\ h.next_id = s.next_id
  BY <1>29 DEF Hides
<1>31. PICK q : tab' = FocusPane(h, q)
  BY <1>11
<1>32. Focuses(h, L, q, tab')
  BY <1>30, <1>31, PaneFocused
<1>33. InRange(h)
  BY <1>19, <1>25, <1>30 DEF InRange
<1>34. /\ Fits(tab', L) /\ InRange(tab') /\ tab'.tree = docked.tree
       /\ tab'.next_id = tab.next_id
  BY <1>19, <1>25, <1>30, <1>32, <1>33 DEF Focuses, SameUnits
<1>35. IsUnitOf(tab, L, a, A) /\ IsUnitOf(tab, L, b, B) /\ ToSet(B) \in tab.tree.sets
  BY <1>11, <1>13, <1>14 DEF IsUnitAt, CanDock
<1>36. GroupJoins(docked.groups, ToSet(A) \cup ToSet(B), tab'.groups)
  <2>1. h.groups = docked.groups /\ SameUnits(h, tab')
    BY <1>25, <1>29, <1>32 DEF Hides, Focuses
  <2> QED BY <2>1 DEF GroupJoins, SameUnits, MembersIn
<1>37. Joining(tab, tab', a, b, A, B, docked)
  BY <1>1, <1>11, <1>18, <1>34, <1>35, <1>36 DEF Joining
<1>38. UnitsJoin(tab, tab')
  BY <1>37 DEF UnitsJoin
<1> QED BY <1>12, <1>19, <1>34, <1>38 DEF Leads

-----------------------------------------------------------------------------
(* The whole tab. *)

LEMMA TabStarts == Init => TabInv /\ InRange(tab)
<1> SUFFICES ASSUME Init PROVE TabInv /\ InRange(tab)
  OBVIOUS
<1>1. PICK p \in Pane :
        tab = [tree |-> LeafTree(p), active |-> 0, zoomed |-> None, hidden |-> {},
               groups |-> <<>>, stacks |-> {}, next_id |-> 0]
  BY DEF Init
<1>2. PICK t : t = LeafTree(p)
  OBVIOUS
<1>3. /\ t \in PaneTrees /\ IsTree(t) /\ Leaves(t) = {p} /\ Len(t.order) = 1
  BY <1>2, LeafAlone
<1>4. PICK m : m = tab.groups
  OBVIOUS
<1>5. DOMAIN m = {} /\ m \in GroupMaps
  <2>1. m = <<>>
    BY <1>1, <1>4
  <2>2. DOMAIN m = {} /\ m = [g \in {} |-> m[g]]
    BY <2>1
  <2>3. m \in [{} -> [members : Seq(Pane), last_active : Pane]]
    BY <2>2
  <2>4. {} \in SUBSET Nat
    OBVIOUS
  <2> QED BY <2>2, <2>3, <2>4 DEF GroupMaps
<1>6. /\ tab.tree = t /\ tab.active = 0 /\ tab.zoomed = None /\ tab.hidden = {}
      /\ tab.stacks = {} /\ tab.next_id = 0
  BY <1>1, <1>2
<1>7. tab = [tree |-> t, active |-> 0, zoomed |-> None, hidden |-> {},
             groups |-> m, stacks |-> {}, next_id |-> 0]
  BY <1>1, <1>2, <1>4
<1>8. tab \in TabStates
  <2>1. {} \in SUBSET StackTypes /\ {} \in SUBSET Pane /\ 0 \in Nat
    OBVIOUS
  <2> QED BY <1>3, <1>5, <1>7, <2>1 DEF TabStates
<1>9. UnitsFit(tab, {p})
  <2>1. GroupsFit(m, 0, {p})
    BY <1>5 DEF GroupsFit
  <2>2. StacksShaped({}) /\ StacksNamed({}, m, {p})
    BY DEF StacksShaped, StacksNamed, InStack
  <2> QED BY <1>4, <1>6, <2>1, <2>2 DEF UnitsFit
<1>10. Fits(tab, Leaves(tab.tree))
  BY <1>3, <1>6, <1>8, <1>9 DEF Fits
<1>11. tab.next_id \in 0 .. MaxGroups
  BY <1>6, TabAssumption
<1>12. tab.active < Len(tab.tree.order)
  <2>1. tab.active = 0 /\ Len(tab.tree.order) = 1
    BY <1>3, <1>6
  <2> QED BY <2>1
<1> QED BY <1>10, <1>11, <1>12 DEF TabInv, InRange

(* A call that takes no panes away leads on; one that does is RemovePanes. *)
RemovesSome == \E V \in SUBSET Ids : Cardinality(V) \in 1 .. MaxVictims /\ RemovePanes(V)

LEMMA CallLeads ==
  ASSUME TabInv, Next
  PROVE  Leads(tab, tab') \/ RemovesSome
<1>1. CASE PrepareSplit
  BY <1>1, PrepareSplitLeads
<1>2. CASE \E p \in Ids, new \in Fresh, second, top \in BOOLEAN :
             SplitPane(p, new, second, top)
  BY <1>2, SplitPaneLeads
<1>3. CASE RemovesSome
  BY <1>3
<1>4. ASSUME NEW p \in Ids,
             \/ SetActivePane(p) \/ ShowStackedPane(p) \/ UnhidePane(p)
             \/ HidePane(p) \/ FocusLayout(p)
             \/ SetActiveIdx(PositionOf(tab.tree.order, p) - 1)
             \/ ActivatePaneDirection(PositionOf(tab.tree.order, p) - 1)
      PROVE Leads(tab, tab')
  <2>1. CASE SetActivePane(p)
    BY <2>1, SetActivePaneLeads
  <2>2. CASE ShowStackedPane(p)
    BY <2>2, ShowStackedPaneLeads
  <2>3. CASE UnhidePane(p)
    BY <2>3, UnhidePaneLeads
  <2>4. CASE HidePane(p)
    BY <2>4, HidePaneLeads
  <2>5. CASE FocusLayout(p)
    BY <2>5, FocusLayoutLeads
  <2>6. CASE SetActiveIdx(PositionOf(tab.tree.order, p) - 1)
    BY <2>6, SetActiveIdxLeads
  <2>7. CASE ActivatePaneDirection(PositionOf(tab.tree.order, p) - 1)
    BY <2>7, ActivatePaneDirectionLeads
  <2> QED BY <1>4, <2>1, <2>2, <2>3, <2>4, <2>5, <2>6, <2>7
<1>5. CASE ToggleZoom
  <2>1. Leads(tab, ToggleZoomOf(tab))
    BY ToggleZoomLeads DEF TabInv
  <2> QED BY <1>5, <2>1 DEF ToggleZoom
<1>6. CASE \E p \in Neighbours :
             StackWith(p) \/ \E second \in BOOLEAN : GroupWith(p, second)
  BY <1>6, StackWithLeads, GroupWithLeads
<1>7. CASE UngroupActive
  BY <1>7, UngroupActiveLeads
<1>8. CASE \E forward \in BOOLEAN : StackCycle(forward) \/ Rotate(forward)
  BY <1>8, StackCycleLeads, RotateLeads
<1>9. CASE \E p, q \in Ids :
             SwapPanes(p, q) \/ \E second \in BOOLEAN : DockPane(p, q, second)
  BY <1>9, SwapPanesLeads, DockPaneEnds, IsPutBackLeads, IsDockedLeads
<1>10. CASE \E i \in 0 .. (Len(tab.tree.order) - 1), keep \in BOOLEAN :
              SwapActiveWithIndex(i, keep)
  BY <1>10, SwapActiveWithIndexLeads
<1> QED BY <1>1, <1>2, <1>3, <1>4, <1>5, <1>6, <1>7, <1>8, <1>9, <1>10
        DEF Next, RemovesSome

LEMMA NotNone ==
  ASSUME TabInv, NEW V \in SUBSET Ids, Cardinality(V) \in 1 .. MaxVictims
  PROVE  V # {} /\ (MaxVictims = 1 => \E v : V = {v})
<1>1. IsFiniteSet(V)
  <2>1. V \subseteq Pane
    BY TreePlaces DEF TabInv, Fits, TabStates, Ids
  <2> QED BY <2>1, PaneAssumption, FS_Subset
<1>2. Cardinality({}) = 0
  BY FS_EmptySet
<1>3. V # {}
  BY <1>2
<1>4. MaxVictims = 1 => Cardinality(V) = 1
  OBVIOUS
<1> QED BY <1>1, <1>3, <1>4, FS_Singleton

LEMMA TabMoves == TabInv /\ [Next]_tab => TabInv'
<1> SUFFICES ASSUME TabInv, [Next]_tab PROVE TabInv'
  OBVIOUS
<1>1. CASE UNCHANGED tab
  BY <1>1 DEF TabInv
<1>2. CASE Leads(tab, tab')
  BY <1>2 DEF Leads, TabInv
<1>3. CASE RemovesSome
  <2>1. PICK V \in SUBSET Ids : Cardinality(V) \in 1 .. MaxVictims /\ RemovePanes(V)
    BY <1>3 DEF RemovesSome
  <2>2. V # {}
    BY <2>1, NotNone
  <2> QED BY <2>1, <2>2, RemovePanesLeads DEF TabInv
<1> QED BY <1>1, <1>2, <1>3, CallLeads

LEMMA IndexMoves ==
  ASSUME MaxVictims = 1
  PROVE  TabInv /\ InRange(tab) /\ [Next]_tab => InRange(tab)'
<1> SUFFICES ASSUME TabInv, InRange(tab), [Next]_tab PROVE InRange(tab)'
  OBVIOUS
<1>1. CASE UNCHANGED tab
  BY <1>1 DEF InRange
<1>2. CASE Leads(tab, tab')
  <2>1. InRange(tab')
    BY <1>2 DEF Leads
  <2> QED BY <2>1
<1>3. CASE RemovesSome
  <2>1. PICK V \in SUBSET Ids : Cardinality(V) \in 1 .. MaxVictims /\ RemovePanes(V)
    BY <1>3 DEF RemovesSome
  <2>2. V # {} /\ \E v : V = {v}
    BY <2>1, NotNone
  <2>3. PICK v : V = {v}
    BY <2>2
  <2>4. RemovesOne(tab, v, tab')
    BY <2>1, <2>2, <2>3, RemovePanesLeads
  <2>5. InRange(tab')
    BY <2>4 DEF RemovesOne
  <2> QED BY <2>5
<1> QED BY <1>1, <1>2, <1>3, CallLeads

(* In every state the tab fits its own tree: the hidden panes, the members *)
(* of the groups and the units of the stacks are panes of the tree, every  *)
(* pane belongs to one unit, and ids stay below the counter.  That is what *)
(* prune_removed_panes, adopt and dock_unit rely on when they look units   *)
(* up, and the invariant from which the theorems below follow.             *)
THEOREM TabInvariant == Spec => []TabInv
<1>1. Init => TabInv
  BY TabStarts
<1>2. TabInv /\ [Next]_tab => TabInv'
  BY TabMoves
<1> QED BY <1>1, <1>2, PTL DEF Spec

LEMMA InvTypes == TabInv => TypeOK
<1> SUFFICES ASSUME TabInv PROVE TypeOK
  OBVIOUS
<1>1. PICK L : L = Leaves(tab.tree)
  OBVIOUS
<1>2. PICK m : m = tab.groups
  OBVIOUS
<1>3. PICK k \in 0 .. MaxGroups : k = tab.next_id
  BY DEF TabInv
<1>4. /\ tab \in TabStates /\ tab.tree \in PaneTrees /\ IsTree(tab.tree)
      /\ tab.active \in Nat /\ tab.zoomed \in L \cup {None} /\ tab.hidden \subseteq L
      /\ GroupsFit(m, k, L) /\ StacksShaped(tab.stacks) /\ StacksNamed(tab.stacks, m, L)
      /\ L \in SUBSET Pane
  BY <1>1, <1>2, <1>3 DEF TabInv, Fits, UnitsFit, TabStates
<1>5. tab.tree.sets \subseteq SUBSET Pane /\ tab.tree.order \in Seq(Pane)
  BY <1>4 DEF PaneTrees
<1>6. ASSUME NEW g \in DOMAIN m PROVE g < k /\ m[g].members \in Seq(L)
  <2>1. PICK A : A = m[g].members
    OBVIOUS
  <2>2. g < k /\ ToSet(A) \subseteq L /\ m \in GroupMaps
    BY <1>4, <2>1 DEF GroupsFit, MembersIn
  <2>3. A \in Seq(Pane)
    BY <2>1, <2>2, GroupTyped
  <2>4. PICK n \in Nat : n = Len(A)
    BY <2>3
  <2>5. A = [i \in 1 .. n |-> A[i]] /\ DOMAIN A = 1 .. n
    BY <2>3, <2>4
  <2>6. \A i \in 1 .. n : A[i] \in L
    BY <2>2, <2>5 DEF ToSet
  <2>7. A \in [1 .. n -> L]
    BY <2>5, <2>6
  <2> QED BY <2>1, <2>2, <2>4, <2>7, AsList
<1>7. ASSUME NEW u, InStack(tab.stacks, u) PROVE u \in Unit
  <2>1. PICK p \in L : UnitBy(m, p) = u
    BY <1>4, <1>7 DEF StacksNamed
  <2>2. DOMAIN m \subseteq Nat
    BY <1>4, GroupTyped DEF GroupsFit
  <2>3. CASE InGroup(m, p, u)
    <3>1. PICK g \in DOMAIN m : u = GroupUnit(g)
      BY <2>3 DEF InGroup
    <3>2. g \in Nat /\ g < k
      BY <1>4, <2>2 DEF GroupsFit
    <3>3. g \in GroupId
      <4>1. MaxGroups \in Nat /\ k <= MaxGroups
        BY TabAssumption
      <4> QED BY <3>2, <4>1 DEF GroupId
    <3> QED BY <3>1, <3>3 DEF GroupUnit, Unit
  <2>4. CASE InNoGroup(m, p, u)
    BY <1>4, <2>4 DEF InNoGroup, PaneUnit, Unit
  <2> QED BY <2>1, <2>2, <2>3, <2>4, UnitIs
<1>8. ASSUME NEW j \in tab.stacks PROVE j.units \in Seq(Unit) /\ j.active \in Nat
  <2>1. PICK A : A = j.units
    OBVIOUS
  <2>2. A \in Seq(AnyUnit) /\ j.active \in Nat
    BY <1>4, <2>1 DEF StacksShaped, StackTypes
  <2>3. PICK n \in Nat : n = Len(A)
    BY <2>2
  <2>4. A = [i \in 1 .. n |-> A[i]] /\ DOMAIN A = 1 .. n
    BY <2>2, <2>3
  <2>5. \A i \in 1 .. n : A[i] \in ToSet(A)
    BY <2>4 DEF ToSet
  <2>6. \A i \in 1 .. n : A[i] \in Unit
    BY <1>7, <2>1, <2>5 DEF InStack
  <2>7. A \in [1 .. n -> Unit]
    BY <2>4, <2>6
  <2> QED BY <2>1, <2>2, <2>3, <2>7, AsList
<1> QED BY <1>1, <1>2, <1>3, <1>4, <1>5, <1>6, <1>8 DEF TypeOK, Ids

(* The state of a tab has the shape the code gives it: the split tree is a *)
(* proper binary tree whose leaves the preorder lists once, the zoomed and *)
(* the hidden panes are in it, and no group or stack names anything else.  *)
THEOREM TabTypes == Spec => []TypeOK
BY TabInvariant, InvTypes, PTL

(* Whatever becomes of its members, a group hands the focus to one of      *)
(* them: remove_pane picks the first that is left when the last active one *)
(* goes, note_active and adopt only ever name members.                     *)
THEOREM GroupsFocusMembers == Spec => []GroupFocusIsMember
<1>1. TabInv => GroupFocusIsMember
  BY DEF TabInv, Fits, UnitsFit, GroupsFit, GroupFocusIsMember, Members, MembersIn
<1> QED BY <1>1, TabInvariant, PTL

(* Every unit named by a stack is one that unit_of finds: no stack goes on *)
(* naming a group that was dissolved or a pane that joined a group.        *)
THEOREM StacksNameLiveUnits == Spec => []StacksNameUnits
<1>1. ASSUME TabInv PROVE StacksNameUnits
  <2>1. UnitsFit(tab, Leaves(tab.tree))
    BY <1>1 DEF TabInv, Fits
  <2>2. ASSUME NEW k \in tab.stacks, NEW u \in ToSet(k.units), NEW p \in UnitSet(u)
        PROVE  UnitOf(tab, p) = u
    <3>1. InStack(tab.stacks, u)
      BY DEF InStack
    <3>2. IsUnitOf(tab, Leaves(tab.tree), u, UnitPanes(tab, u))
      BY <2>1, <3>1, StackedUnit
    <3>3. UnitBy(tab.groups, p) = u
      BY <3>2 DEF IsUnitOf, UnitSet
    <3> QED BY <3>3, UnitByGroups
  <2> QED BY <2>2 DEF StacksNameUnits
<1> QED BY <1>1, TabInvariant, PTL

(* Closing a pane never takes the focus from another pane that is on show: *)
(* the index remove_pane_if computes names the pane that had the focus,    *)
(* wherever in the tree the closed pane was, and prune_removed_panes finds *)
(* no reason to move it.                                                   *)
THEOREM FocusStays == Spec => FocusSurvivesClose
<1> DEFINE A == \A p \in Ids \ {ActivePane(tab)} :
                  ActivePane(tab) \notin tab.hidden /\ RemovePanes({p}) =>
                    ActivePane(tab') = ActivePane(tab)
<1>1. TabInv => A
  <2> SUFFICES ASSUME TabInv, NEW p \in Ids \ {ActivePane(tab)},
                      ActivePane(tab) \notin tab.hidden, RemovePanes({p})
               PROVE  ActivePane(tab') = ActivePane(tab)
    OBVIOUS
  <2>1. PICK V : V = {p}
    OBVIOUS
  <2>2. V \in SUBSET Ids /\ V # {} /\ RemovePanes(V)
    BY <2>1
  <2>3. RemovesOne(tab, p, tab')
    BY <2>1, <2>2, RemovePanesLeads
  <2> QED BY <2>3 DEF RemovesOne
<1>2. TabInv /\ [Next]_tab => [A]_tab
  BY <1>1
<1> HIDE DEF A
<1>3. Spec => [][A]_tab
  BY <1>2, TabInvariant, PTL DEF Spec
<1> QED BY <1>3 DEF A, FocusSurvivesClose

LEMMA IndexNamesPane == TabInv /\ InRange(tab) => ActiveNamesPane
<1> SUFFICES ASSUME TabInv, InRange(tab), tab.tree # NoTree PROVE ActivePane(tab) # None
  BY DEF ActiveNamesPane
<1>1. Fits(tab, Leaves(tab.tree))
  BY DEF TabInv
<1>2. tab.tree \in PaneTrees /\ IsTree(tab.tree)
  BY <1>1 DEF Fits, TabStates
<1>3. tab.tree.order # <<>>
  <2> SUFFICES ASSUME tab.tree.order = <<>> PROVE tab.tree = NoTree
    OBVIOUS
  <2>1. Leaves(tab.tree) = {}
    BY <1>2, TreePlaces
  <2>2. {} \notin tab.tree.sets
    BY <1>2 DEF IsTree
  <2>3. tab.tree.sets = {}
    BY <2>1, <2>2 DEF Leaves
  <2> QED BY <1>2, <2>3 DEF PaneTrees, NoTree
<1>4. tab.active < Len(tab.tree.order)
  BY <1>3 DEF InRange
<1>5. CASE tab.zoomed = None
  BY <1>1, <1>4, <1>5, ActiveTyped
<1>6. CASE tab.zoomed # None
  BY <1>1, <1>6, ActiveTyped
<1> QED BY <1>5, <1>6

(* While a tab has panes, input has one to go to.  The theorem is about    *)
(* tabs whose panes are closed one at a time: when one call takes several, *)
(* the index may end beyond the last pane.                                 *)
THEOREM InputHasAPane == MaxVictims = 1 => (Spec => []ActiveNamesPane)
<1> SUFFICES ASSUME MaxVictims = 1 PROVE Spec => []ActiveNamesPane
  OBVIOUS
<1>1. Init => TabInv /\ InRange(tab)
  BY TabStarts
<1>2. TabInv /\ InRange(tab) /\ [Next]_tab => TabInv' /\ InRange(tab)'
  BY TabMoves, IndexMoves
<1>3. TabInv /\ InRange(tab) => ActiveNamesPane
  BY IndexNamesPane
<1> QED BY <1>1, <1>2, <1>3, PTL DEF Spec

-----------------------------------------------------------------------------
(* Where the groups lie in the tree: the members of a group are the leaves *)
(* of one subtree.  Only the pane selector's swap can break that, so the   *)
(* theorem leaves it out.                                                  *)

KeepsPlace(s, n) == InPlace(s) => InPlace(n)

-----------------------------------------------------------------------------
(* Calls that leave the tree alone.                                        *)

LEMMA NothingMoves ==
  ASSUME NEW s, NEW n, n.groups = s.groups, n.tree = s.tree
  PROVE  KeepsPlace(s, n)
BY DEF KeepsPlace, InPlace

LEMMA StayPut ==
  ASSUME NEW s, NEW n, SameUnits(s, n), n.tree = s.tree
  PROVE  KeepsPlace(s, n)
BY SamePlace DEF KeepsPlace

LEMMA StepByStep ==
  ASSUME NEW s, NEW r, NEW n, KeepsPlace(s, r), KeepsPlace(r, n)
  PROVE  KeepsPlace(s, n)
BY DEF KeepsPlace

LEMMA UnzoomedInPlace ==
  ASSUME NEW s, NEW L, Fits(s, L)
  PROVE  Fits(Unzoomed(s), L) /\ KeepsPlace(s, Unzoomed(s))
<1>1. PICK n : n = Unzoomed(s)
  OBVIOUS
<1>2. Activates(s, L, s.active, None, n)
  BY <1>1, Unzooms
<1>3. Fits(n, L) /\ SameUnits(s, n) /\ n.tree = s.tree
  BY <1>2 DEF Activates
<1> QED BY <1>1, <1>3, StayPut

LEMMA FocusedInPlace ==
  ASSUME NEW s, NEW L, Fits(s, L), NEW p, NEW n, n = FocusPane(s, p)
  PROVE  KeepsPlace(s, n)
<1>1. Focuses(s, L, p, n)
  BY PaneFocused
<1> QED BY <1>1, StayPut DEF Focuses

LEMMA IndexFocusedInPlace ==
  ASSUME NEW s, NEW L, Fits(s, L), NEW i \in Nat, NEW n, n = FocusIndex(s, i)
  PROVE  KeepsPlace(s, n)
<1>1. IndexFocuses(s, L, i, n)
  BY IndexFocused
<1> QED BY <1>1, StayPut DEF IndexFocuses

LEMMA ShownInPlace ==
  ASSUME NEW s, NEW L, Fits(s, L), NEW u, NEW n, n = ShowStackUnit(s, u)
  PROVE  Fits(n, L) /\ KeepsPlace(s, n)
<1>1. Shows(s, L, n)
  BY StackShown
<1> QED BY <1>1, StayPut DEF Shows

LEMMA SetActivePaneInPlace ==
  ASSUME TabInv, NEW p, SetActivePane(p)
  PROVE  KeepsPlace(tab, tab')
<1>1. Fits(tab, Leaves(tab.tree)) /\ tab' = FocusPane(tab, p)
  BY DEF TabInv, SetActivePane
<1> QED BY <1>1, FocusedInPlace

LEMMA SetActiveIdxInPlace ==
  ASSUME TabInv, NEW p \in Ids, SetActiveIdx(PositionOf(tab.tree.order, p) - 1)
  PROVE  KeepsPlace(tab, tab')
<1> DEFINE i == PositionOf(tab.tree.order, p) - 1
<1>1. i \in Nat /\ Fits(tab, Leaves(tab.tree)) /\ tab' = FocusIndex(tab, i)
  BY IndexOfPane DEF TabInv, Ids, SetActiveIdx
<1> HIDE DEF i
<1> QED BY <1>1, IndexFocusedInPlace

LEMMA ActivatePaneDirectionInPlace ==
  ASSUME TabInv, NEW p \in Ids, ActivatePaneDirection(PositionOf(tab.tree.order, p) - 1)
  PROVE  KeepsPlace(tab, tab')
<1> DEFINE i == PositionOf(tab.tree.order, p) - 1
<1>1. PICK s : s = Unzoomed(tab)
  OBVIOUS
<1>2. Fits(tab, Leaves(tab.tree)) /\ i \in Nat
  BY IndexOfPane DEF TabInv, Ids
<1>3. tab' = FocusIndex(s, i)
  BY <1>1 DEF ActivatePaneDirection
<1> HIDE DEF i
<1>4. Fits(s, Leaves(tab.tree)) /\ KeepsPlace(tab, s)
  BY <1>1, <1>2, UnzoomedInPlace
<1>5. KeepsPlace(s, tab')
  BY <1>2, <1>3, <1>4, IndexFocusedInPlace
<1> QED BY <1>4, <1>5, StepByStep

LEMMA StackCycleInPlace ==
  ASSUME TabInv, NEW forward \in BOOLEAN, StackCycle(forward)
  PROVE  KeepsPlace(tab, tab')
<1>1. PICK s : s = Unzoomed(tab)
  OBVIOUS
<1>2. PICK new, q, n : n = ShowStackUnit(s, new) /\ tab' = FocusPane(n, q)
  BY <1>1 DEF StackCycle
<1>3. Fits(s, Leaves(tab.tree)) /\ KeepsPlace(tab, s)
  BY <1>1, UnzoomedInPlace DEF TabInv
<1>4. Fits(n, Leaves(tab.tree)) /\ KeepsPlace(s, n)
  BY <1>2, <1>3, ShownInPlace
<1>5. KeepsPlace(n, tab')
  BY <1>2, <1>4, FocusedInPlace
<1> QED BY <1>3, <1>4, <1>5, StepByStep

LEMMA ShowStackedPaneInPlace ==
  ASSUME TabInv, NEW p, ShowStackedPane(p)
  PROVE  KeepsPlace(tab, tab')
<1>1. PICK u, q, n : n = ShowStackUnit(tab, u) /\ tab' = FocusPane(n, q)
  BY DEF ShowStackedPane
<1>2. Fits(n, Leaves(tab.tree)) /\ KeepsPlace(tab, n)
  BY <1>1, ShownInPlace DEF TabInv
<1>3. KeepsPlace(n, tab')
  BY <1>1, <1>2, FocusedInPlace
<1> QED BY <1>2, <1>3, StepByStep

(* The calls that only zoom or hide.                                       *)
LEMMA OnlyShownOtherwise ==
  ASSUME TabInv,
         \/ PrepareSplit \/ ToggleZoom
         \/ \E p \in Ids : UnhidePane(p) \/ HidePane(p)
  PROVE  KeepsPlace(tab, tab')
<1>1. tab \in TabStates
  BY DEF TabInv, Fits
<1>2. CASE PrepareSplit
  <2>1. tab'.groups = tab.groups /\ tab'.tree = tab.tree
    BY <1>1, <1>2 DEF PrepareSplit, Unzoomed, TabStates
  <2> QED BY <2>1, NothingMoves
<1>3. CASE ToggleZoom
  <2>1. tab'.groups = tab.groups /\ tab'.tree = tab.tree
    BY <1>1, <1>3 DEF ToggleZoom, ToggleZoomOf, TabStates
  <2> QED BY <2>1, NothingMoves
<1>4. ASSUME NEW p \in Ids, UnhidePane(p) PROVE KeepsPlace(tab, tab')
  <2>1. tab'.groups = tab.groups /\ tab'.tree = tab.tree
    BY <1>1, <1>4 DEF UnhidePane, TabStates
  <2> QED BY <2>1, NothingMoves
<1>5. ASSUME NEW p \in Ids, HidePane(p) PROVE KeepsPlace(tab, tab')
  <2>1. PICK a : LET moved == [tab EXCEPT !.active = a]
                     z == IF tab.zoomed = p THEN ToggleZoomOf(moved) ELSE moved
                 IN  tab' = [z EXCEPT !.hidden = @ \cup {p}]
    BY <1>1, <1>5 DEF HidePane
  <2>2. tab'.groups = tab.groups /\ tab'.tree = tab.tree
    BY <1>1, <2>1 DEF ToggleZoomOf, TabStates
  <2> QED BY <2>2, NothingMoves
<1> QED BY <1>2, <1>3, <1>4, <1>5

-----------------------------------------------------------------------------
(* Calls that add or take out panes.                                       *)

LEMMA RemovedInPlace ==
  ASSUME NEW s, NEW n, Removes(s, n)
  PROVE  KeepsPlace(s, n)
<1>1. PICK D : Dwindles(s.groups, D, n.groups) /\ n.tree.sets = Shrunk(s.tree.sets, D)
  BY DEF Removes
<1>2. GroupsFit(n.groups, n.next_id, Leaves(n.tree))
  BY DEF Removes, Fits, UnitsFit
<1>3. ASSUME NEW g \in DOMAIN n.groups, InPlace(s) PROVE MembersIn(n.groups, g) \in n.tree.sets
  <2>1. g \in DOMAIN s.groups /\ MembersIn(n.groups, g) = MembersIn(s.groups, g) \ D
    BY <1>1 DEF Dwindles
  <2>2. MembersIn(s.groups, g) \in s.tree.sets
    BY <1>3, <2>1 DEF InPlace
  <2>3. MembersIn(n.groups, g) # {}
    BY <1>2 DEF GroupsFit
  <2> QED BY <1>1, <2>1, <2>2, <2>3 DEF Shrunk
<1> QED BY <1>3 DEF KeepsPlace, InPlace

LEMMA RemovePanesInPlace ==
  ASSUME TabInv, NEW V \in SUBSET Ids, V # {}, RemovePanes(V)
  PROVE  KeepsPlace(tab, tab')
<1>1. Fits(tab, Leaves(tab.tree)) /\ V \in SUBSET Leaves(tab.tree)
  BY DEF TabInv, Ids
<1>2. Removes(tab, tab')
  BY <1>1, PanesRemoved DEF RemovePanes
<1> QED BY <1>2, RemovedInPlace

LEMMA SplitPaneInPlace ==
  ASSUME TabInv, NEW p \in Ids, NEW new \in Fresh, NEW second \in BOOLEAN,
         NEW top \in BOOLEAN, SplitPane(p, new, second, top)
  PROVE  KeepsPlace(tab, tab')
<1>1. Fits(tab, Leaves(tab.tree)) /\ new \in Pane \ Leaves(tab.tree) /\ p \in Leaves(tab.tree)
  BY DEF TabInv, Ids, Fresh
<1>2. Inserts(tab, new, tab')
  BY <1>1, PaneInserted DEF SplitPane
<1> QED BY <1>2 DEF Inserts, KeepsPlace

LEMMA IsDockedInPlace ==
  ASSUME TabInv, NEW p \in Ids, NEW q \in Ids, NEW second \in BOOLEAN,
         IsDocked(p, q, second)
  PROVE  KeepsPlace(tab, tab')
<1>1. PICK out : out = RemovePaneIf(tab, {p})
  OBVIOUS
<1>2. PICK docked : docked = SplitAndInsert(out, q, p, second, FALSE)
  OBVIOUS
<1>3. p # q /\ tab.zoomed = None /\ tab' = FocusPane(docked, p)
  BY <1>1, <1>2 DEF IsDocked
<1>4. Fits(tab, Leaves(tab.tree)) /\ {p} \in SUBSET Leaves(tab.tree) /\ {p} # {}
  BY DEF TabInv, Ids
<1>5. Removes(tab, out) /\ RemovesOne(tab, p, out)
  BY <1>1, <1>4, PanesRemoved
<1>6. Fits(out, Leaves(out.tree)) /\ Leaves(out.tree) = Leaves(tab.tree) \ {p}
  BY <1>5 DEF Removes, RemovesOne
<1>7. q \in Leaves(out.tree) /\ p \in Pane \ Leaves(out.tree)
  <2>1. Leaves(tab.tree) \in SUBSET Pane
    BY <1>4, TreePlaces DEF Fits, TabStates
  <2> QED BY <1>3, <1>6, <2>1 DEF Ids
<1>8. Inserts(out, p, docked)
  BY <1>2, <1>6, <1>7, PaneInserted
<1>9. Fits(docked, Leaves(docked.tree)) /\ KeepsPlace(out, docked)
  BY <1>8 DEF Inserts, KeepsPlace
<1>10. KeepsPlace(docked, tab')
  BY <1>3, <1>9, FocusedInPlace
<1>11. KeepsPlace(tab, out)
  BY <1>5, RemovedInPlace
<1> QED BY <1>9, <1>10, <1>11, StepByStep

LEMMA IsPutBackInPlace ==
  ASSUME TabInv, NEW p \in Ids, NEW q \in Ids, IsPutBack(p, q)
  PROVE  KeepsPlace(tab, tab')
<1>1. PICK out : out = RemovePaneIf(tab, {p})
  OBVIOUS
<1>2. PICK beside : beside = FirstOnShow(out)
  OBVIOUS
<1>3. /\ tab.zoomed = None /\ PanesOnShow(out) # {}
      /\ tab' = SplitAndInsert(out, beside, p, TRUE, FALSE)
  BY <1>1, <1>2 DEF IsPutBack
<1>4. Fits(tab, Leaves(tab.tree)) /\ {p} \in SUBSET Leaves(tab.tree) /\ {p} # {}
  BY DEF TabInv, Ids
<1>5. Removes(tab, out) /\ RemovesOne(tab, p, out)
  BY <1>1, <1>4, PanesRemoved
<1>6. /\ Fits(out, Leaves(out.tree)) /\ out.zoomed = None
      /\ Leaves(out.tree) = Leaves(tab.tree) \ {p}
  BY <1>3, <1>5 DEF Removes, RemovesOne
<1>7. beside \in Leaves(out.tree) /\ p \in Pane \ Leaves(out.tree)
  <2>1. Leaves(tab.tree) \in SUBSET Pane
    BY <1>4, TreePlaces DEF Fits, TabStates
  <2> QED BY <1>2, <1>3, <1>6, <2>1, FirstShown DEF Ids
<1>8. Inserts(out, p, tab')
  BY <1>3, <1>6, <1>7, PaneInserted
<1>9. KeepsPlace(out, tab')
  BY <1>8 DEF Inserts, KeepsPlace
<1>10. KeepsPlace(tab, out)
  BY <1>5, RemovedInPlace
<1> QED BY <1>9, <1>10, StepByStep

LEMMA UngroupActiveInPlace ==
  ASSUME TabInv, UngroupActive
  PROVE  KeepsPlace(tab, tab')
<1>1. PICK g : tab' = Dissolve(tab, g)
  BY DEF UngroupActive
<1>2. PICK m : m = tab.groups
  OBVIOUS
<1>3. PICK m0 : m0 = Restrict(m, DOMAIN m \ {g})
  OBVIOUS
<1>4. tab'.groups = m0 /\ tab'.tree = tab.tree
  BY <1>1, <1>2, <1>3 DEF Dissolve, TabInv, Fits, TabStates
<1>5. \A h \in DOMAIN m0 : h \in DOMAIN m /\ m0[h] = m[h]
  BY <1>3 DEF Restrict
<1> QED BY <1>2, <1>4, <1>5 DEF KeepsPlace, InPlace, MembersIn

-----------------------------------------------------------------------------
(* Calls that rearrange the panes of a tab without groups.                 *)

LEMMA NoGroupsInPlace ==
  ASSUME NEW s, NEW n, n.groups = s.groups, DOMAIN s.groups = {}
  PROVE  KeepsPlace(s, n)
BY DEF KeepsPlace, InPlace

LEMMA RotateInPlace ==
  ASSUME TabInv, NEW clockwise \in BOOLEAN, Rotate(clockwise)
  PROVE  KeepsPlace(tab, tab')
<1>1. PICK t : tab' = [tab EXCEPT !.tree = t]
  BY DEF Rotate
<1>2. tab'.groups = tab.groups
  BY <1>1 DEF TabInv, Fits, TabStates
<1>3. DOMAIN tab.groups = {}
  BY DEF Rotate, HasGroups
<1> QED BY <1>2, <1>3, NoGroupsInPlace

LEMMA FocusLayoutInPlace ==
  ASSUME TabInv, NEW p \in Ids, FocusLayout(p)
  PROVE  KeepsPlace(tab, tab')
<1>1. PICK s : s = Unzoomed(tab)
  OBVIOUS
<1>2. PICK main, fresh :
        \/ tab' = [SwapPanesOf(s, main, p) EXCEPT !.active = 0]
        \/ tab' = [s EXCEPT !.tree = fresh, !.active = 0]
        \/ tab' = s
  BY <1>1 DEF FocusLayout
<1>3. tab \in TabStates /\ s.groups = tab.groups
  BY <1>1 DEF TabInv, Fits, TabStates, Unzoomed
<1>4. PICK u : u = SwapPanesOf(s, main, p)
  OBVIOUS
<1>5. u.groups = s.groups
  BY <1>1, <1>3, <1>4 DEF SwapPanesOf, Unzoomed, TabStates
<1>6. tab'.groups = tab.groups
  BY <1>1, <1>2, <1>3, <1>4, <1>5 DEF SwapPanesOf, Unzoomed, TabStates
<1>7. DOMAIN tab.groups = {}
  BY DEF FocusLayout, HasGroups
<1> QED BY <1>6, <1>7, NoGroupsInPlace

-----------------------------------------------------------------------------
(* Two panes that are in no group change places.                           *)

LEMMA ExchangedElsewhere ==
  ASSUME NEW t, NEW a, NEW b, NEW S \in t.sets, a \notin S, b \notin S
  PROVE  S \in Exchange(t, a, b).sets
<1> DEFINE f == [p \in Leaves(t) |-> IF p = a THEN b ELSE IF p = b THEN a ELSE p]
<1>1. Exchange(t, a, b).sets = {{f[p] : p \in R} : R \in t.sets}
  BY DEF Exchange, Relabel
<1>2. \A p \in S : f[p] = p
  BY DEF Leaves
<1> HIDE DEF f
<1>3. {f[p] : p \in S} = S
  BY <1>2
<1>4. {f[p] : p \in S} \in {{f[p] : p \in R} : R \in t.sets}
  OBVIOUS
<1> QED BY <1>1, <1>3, <1>4

LEMMA SwapPanesInPlace ==
  ASSUME TabInv, NEW a \in Ids, NEW b \in Ids, SwapPanes(a, b)
  PROVE  KeepsPlace(tab, tab')
<1>1. PICK m : m = tab.groups
  OBVIOUS
<1>2. tab \in TabStates /\ GroupsFit(m, tab.next_id, Leaves(tab.tree)) /\ DOMAIN m \subseteq Nat
  <2>1. tab \in TabStates /\ GroupsFit(m, tab.next_id, Leaves(tab.tree))
    BY <1>1 DEF TabInv, Fits, UnitsFit
  <2> QED BY <2>1, GroupTyped DEF GroupsFit
<1>3. ASSUME NEW p, UnitOf(tab, p).kind = "pane" PROVE \A g \in DOMAIN m : p \notin MembersIn(m, g)
  <2>1. UnitBy(m, p).kind = "pane"
    BY <1>1, <1>3, UnitByGroups
  <2>2. InGroup(m, p, UnitBy(m, p)) \/ InNoGroup(m, p, UnitBy(m, p))
    BY <1>2, UnitIs
  <2> QED BY <2>1, <2>2, UnitKinds DEF InGroup, InNoGroup
<1>4. \A g \in DOMAIN m : a \notin MembersIn(m, g) /\ b \notin MembersIn(m, g)
  BY <1>3 DEF SwapPanes
<1>5. PICK t : t = Exchange(tab.tree, a, b)
  OBVIOUS
<1>6. tab'.groups = m /\ tab'.tree = t
  BY <1>1, <1>2, <1>5 DEF SwapPanes, SwapPanesOf, TabStates
<1>7. ASSUME NEW g \in DOMAIN m, InPlace(tab) PROVE MembersIn(m, g) \in t.sets
  <2>1. MembersIn(m, g) \in tab.tree.sets
    BY <1>1, <1>7 DEF InPlace
  <2> QED BY <1>4, <1>5, <2>1, ExchangedElsewhere
<1> QED BY <1>6, <1>7 DEF KeepsPlace, InPlace

-----------------------------------------------------------------------------
(* One unit comes beside another.                                          *)

(* The panes of a group are the panes of its unit.                         *)
LEMMA MembersOfUnit ==
  ASSUME NEW s, NEW L, Fits(s, L), NEW u, NEW A, IsUnitOf(s, L, u, A),
         NEW g \in DOMAIN s.groups
  PROVE  IF GroupUnit(g) = u THEN MembersIn(s.groups, g) = ToSet(A)
                             ELSE MembersIn(s.groups, g) \cap ToSet(A) = {}
<1>1. PICK m : m = s.groups
  OBVIOUS
<1>2. GroupsFit(m, s.next_id, L) /\ MembersIn(m, g) \subseteq L
  BY <1>1 DEF Fits, UnitsFit, GroupsFit
<1>3. /\ \A q \in MembersIn(m, g) : UnitBy(m, q) = GroupUnit(g)
      /\ \A q : UnitBy(m, q) = GroupUnit(g) => q \in MembersIn(m, g)
  BY <1>1, <1>2, UnitOnly
<1>4. \A q : q \in ToSet(A) <=> (q \in L /\ UnitBy(m, q) = u)
  BY <1>1 DEF IsUnitOf
<1>5. CASE GroupUnit(g) = u
  <2>1. PICK M, N : M = MembersIn(m, g) /\ N = ToSet(A)
    OBVIOUS
  <2>2. \A q : q \in M <=> q \in N
    BY <1>2, <1>3, <1>4, <1>5, <2>1
  <2>3. M = N
    <3> QED BY <2>2
  <2> QED BY <1>1, <1>5, <2>1, <2>3
<1>6. CASE GroupUnit(g) # u
  <2>1. \A q \in MembersIn(m, g) : q \notin ToSet(A)
    BY <1>3, <1>4, <1>6
  <2> QED BY <1>1, <1>6, <2>1
<1> QED BY <1>5, <1>6

(* A subtree stays one when a unit it has nothing to do with is docked.    *)
LEMMA DockedElsewhere ==
  ASSUME NEW sets, NEW source, NEW T, T # {}, NEW S \in sets, S # {},
         S \cap ToSet(source) = {}, S \cap T = {}
  PROVE  S \in DockedSets(sets, source, T)
<1>1. S \in Shrunk(sets, ToSet(source))
  <2>1. S \ ToSet(source) = S
    OBVIOUS
  <2> QED BY <2>1 DEF Shrunk
<1>2. S = IF T \subseteq S THEN S \cup ToSet(source) ELSE S
  OBVIOUS
<1>3. S \in Widen(Shrunk(sets, ToSet(source)), T, ToSet(source))
  BY <1>1, <1>2 DEF Widen
<1> QED BY <1>3 DEF DockedSets

LEMMA DockedBeside ==
  ASSUME NEW sets, NEW source, NEW T \in sets, T # {}, T \cap ToSet(source) = {}
  PROVE  ToSet(source) \cup T \in DockedSets(sets, source, T)
<1>1. T \in Shrunk(sets, ToSet(source))
  <2>1. T \ ToSet(source) = T
    OBVIOUS
  <2> QED BY <2>1 DEF Shrunk
<1>2. ToSet(source) \cup T = IF T \subseteq T THEN T \cup ToSet(source) ELSE T
  OBVIOUS
<1>3. ToSet(source) \cup T \in Widen(Shrunk(sets, ToSet(source)), T, ToSet(source))
  BY <1>1, <1>2 DEF Widen
<1> QED BY <1>3 DEF DockedSets

LEMMA DockedInPlace ==
  ASSUME NEW s, NEW L, Fits(s, L), NEW a, NEW b, a # b, NEW A, NEW B,
         IsUnitOf(s, L, a, A), IsUnitOf(s, L, b, B), ToSet(B) \in s.tree.sets,
         NEW n, Docks(s, A, ToSet(B), n)
  PROVE  KeepsPlace(s, n) /\ ToSet(A) \cup ToSet(B) \in n.tree.sets
<1>1. PICK N, T : N = ToSet(A) /\ T = ToSet(B)
  OBVIOUS
<1>2. PICK sets : sets = s.tree.sets
  OBVIOUS
<1>3. /\ n.tree.sets = DockedSets(sets, A, T) /\ SameUnits(s, n)
  BY <1>1, <1>2 DEF Docks
<1>4. A \in Seq(Pane) /\ A # <<>> /\ IsInjective(A) /\ B \in Seq(Pane) /\ B # <<>>
  BY DEF IsUnitOf
<1>5. N \cap T = {}
  BY <1>1 DEF IsUnitOf
<1>6. T # {}
  <2>1. 1 \in DOMAIN B
    BY <1>4
  <2> QED BY <1>1, <2>1 DEF ToSet
<1>7. N \in ChainSets(A)
  BY <1>1, <1>4, Chained
<1>8. N \cup T \in n.tree.sets
  BY <1>1, <1>2, <1>3, <1>5, <1>6, DockedBeside
<1>9. ASSUME NEW g \in DOMAIN s.groups, InPlace(s)
      PROVE  MembersIn(s.groups, g) \in n.tree.sets
  <2>1. PICK M : M = MembersIn(s.groups, g)
    OBVIOUS
  <2>2. M \in sets
    BY <1>2, <1>9, <2>1 DEF InPlace
  <2>3. IF GroupUnit(g) = a THEN M = N ELSE M \cap N = {}
    BY <1>1, <2>1, MembersOfUnit
  <2>4. IF GroupUnit(g) = b THEN M = T ELSE M \cap T = {}
    BY <1>1, <2>1, MembersOfUnit
  <2>5. CASE M = N
    BY <1>3, <1>7, <2>1, <2>5 DEF DockedSets
  <2>6. CASE M = T
    BY <1>3, <2>1, <2>6 DEF DockedSets
  <2>7. CASE M \cap N = {} /\ M \cap T = {}
    <3>1. M # {}
      <4>1. GroupsFit(s.groups, s.next_id, L)
        BY DEF Fits, UnitsFit
      <4> QED BY <2>1, <4>1 DEF GroupsFit
    <3>2. M \in DockedSets(sets, A, T)
      BY <1>1, <1>6, <2>2, <2>7, <3>1, DockedElsewhere
    <3> QED BY <1>3, <2>1, <3>2
  <2> QED BY <2>3, <2>4, <2>5, <2>6, <2>7
<1>10. \A g \in DOMAIN s.groups : MembersIn(n.groups, g) = MembersIn(s.groups, g)
  BY <1>3 DEF SameUnits, MembersIn
<1>11. KeepsPlace(s, n)
  BY <1>3, <1>9, <1>10 DEF KeepsPlace, InPlace, SameUnits
<1> QED BY <1>1, <1>8, <1>11

LEMMA UnitsJoinInPlace ==
  ASSUME NEW s, NEW n, Fits(s, Leaves(s.tree)), UnitsJoin(s, n)
  PROVE  KeepsPlace(s, n)
<1>1. PICK a, b, A, B, d : Joining(s, n, a, b, A, B, d)
  BY DEF UnitsJoin
<1>2. PICK N : N = ToSet(A) \cup ToSet(B)
  OBVIOUS
<1>3. /\ a # b /\ IsUnitOf(s, Leaves(s.tree), a, A) /\ IsUnitOf(s, Leaves(s.tree), b, B)
      /\ \/ d = s /\ N \in s.tree.sets
         \/ ToSet(B) \in s.tree.sets /\ Docks(s, A, ToSet(B), d)
      /\ GroupJoins(d.groups, N, n.groups) /\ n.tree = d.tree
  BY <1>1, <1>2 DEF Joining
<1>4. KeepsPlace(s, d) /\ N \in d.tree.sets
  <2>1. CASE d = s /\ N \in s.tree.sets
    BY <2>1 DEF KeepsPlace
  <2>2. CASE ToSet(B) \in s.tree.sets /\ Docks(s, A, ToSet(B), d)
    BY <1>2, <1>3, <2>2, DockedInPlace
  <2> QED BY <1>3, <2>1, <2>2
<1>5. KeepsPlace(d, n)
  BY <1>3, <1>4 DEF KeepsPlace, InPlace, GroupJoins
<1> QED BY <1>4, <1>5, StepByStep

-----------------------------------------------------------------------------
(* The whole tab.                                                          *)

LayoutInv == TabInv /\ InPlace(tab)

LEMMA LayoutStarts == Init => LayoutInv
<1> SUFFICES ASSUME Init PROVE LayoutInv
  OBVIOUS
<1>1. TabInv
  BY TabStarts
<1>2. tab.groups = <<>>
  BY DEF Init
<1>3. DOMAIN tab.groups = {}
  BY <1>2
<1> QED BY <1>1, <1>3 DEF LayoutInv, InPlace

LEMMA CallInPlace ==
  ASSUME SwapByIndex = FALSE, TabInv, Next
  PROVE  KeepsPlace(tab, tab')
<1>1. CASE PrepareSplit \/ ToggleZoom
  BY <1>1, OnlyShownOtherwise
<1>2. CASE \E p \in Ids, new \in Fresh, second, top \in BOOLEAN :
             SplitPane(p, new, second, top)
  BY <1>2, SplitPaneInPlace
<1>3. CASE RemovesSome
  <2>1. PICK V \in SUBSET Ids : Cardinality(V) \in 1 .. MaxVictims /\ RemovePanes(V)
    BY <1>3 DEF RemovesSome
  <2>2. V # {}
    BY <2>1, NotNone
  <2> QED BY <2>1, <2>2, RemovePanesInPlace
<1>4. ASSUME NEW p \in Ids,
             \/ SetActivePane(p) \/ ShowStackedPane(p) \/ UnhidePane(p)
             \/ HidePane(p) \/ FocusLayout(p)
             \/ SetActiveIdx(PositionOf(tab.tree.order, p) - 1)
             \/ ActivatePaneDirection(PositionOf(tab.tree.order, p) - 1)
      PROVE KeepsPlace(tab, tab')
  <2>1. CASE SetActivePane(p)
    BY <2>1, SetActivePaneInPlace
  <2>2. CASE ShowStackedPane(p)
    BY <2>2, ShowStackedPaneInPlace
  <2>3. CASE UnhidePane(p) \/ HidePane(p)
    BY <2>3, OnlyShownOtherwise
  <2>4. CASE FocusLayout(p)
    BY <2>4, FocusLayoutInPlace
  <2>5. CASE SetActiveIdx(PositionOf(tab.tree.order, p) - 1)
    BY <2>5, SetActiveIdxInPlace
  <2>6. CASE ActivatePaneDirection(PositionOf(tab.tree.order, p) - 1)
    BY <2>6, ActivatePaneDirectionInPlace
  <2> QED BY <1>4, <2>1, <2>2, <2>3, <2>4, <2>5, <2>6
<1>5. CASE \E p \in Neighbours :
             StackWith(p) \/ \E second \in BOOLEAN : GroupWith(p, second)
  <2>1. UnitsJoin(tab, tab')
    BY <1>5, StackWithLeads, GroupWithLeads
  <2> QED BY <2>1, UnitsJoinInPlace DEF TabInv
<1>6. CASE UngroupActive
  BY <1>6, UngroupActiveInPlace
<1>7. CASE \E forward \in BOOLEAN : StackCycle(forward) \/ Rotate(forward)
  BY <1>7, StackCycleInPlace, RotateInPlace
<1>8. CASE \E p, q \in Ids :
             SwapPanes(p, q) \/ \E second \in BOOLEAN : DockPane(p, q, second)
  BY <1>8, SwapPanesInPlace, DockPaneEnds, IsPutBackInPlace, IsDockedInPlace
<1>9. CASE \E i \in 0 .. (Len(tab.tree.order) - 1), keep \in BOOLEAN :
              SwapActiveWithIndex(i, keep)
  BY <1>9 DEF SwapActiveWithIndex
<1> QED BY <1>1, <1>2, <1>3, <1>4, <1>5, <1>6, <1>7, <1>8, <1>9
        DEF Next, RemovesSome

LEMMA LayoutMoves ==
  ASSUME SwapByIndex = FALSE
  PROVE  LayoutInv /\ [Next]_tab => LayoutInv'
<1> SUFFICES ASSUME LayoutInv, [Next]_tab PROVE LayoutInv'
  OBVIOUS
<1>1. TabInv'
  BY TabMoves DEF LayoutInv
<1>2. InPlace(tab')
  <2>1. CASE UNCHANGED tab
    BY <2>1 DEF LayoutInv
  <2>2. CASE Next
    BY <2>2, CallInPlace DEF LayoutInv, KeepsPlace
  <2> QED BY <2>1, <2>2
<1> QED BY <1>1, <1>2 DEF LayoutInv

(* The members of a group are always the leaves of one subtree, two or     *)
(* more of them and of no other group, whatever is split, docked, closed,  *)
(* stacked or grouped around them: the first two checks and half of the    *)
(* fourth of GroupState::validate, for every number of panes and of        *)
(* removals at once.  swap_active_with_index alone is left out: it         *)
(* exchanges leaves without a look at the groups.                          *)
THEOREM GroupsStaySubtrees == SwapByIndex = FALSE => (Spec => []GroupsAreSubtrees)
<1> SUFFICES ASSUME SwapByIndex = FALSE PROVE Spec => []GroupsAreSubtrees
  OBVIOUS
<1>1. Init => LayoutInv
  BY LayoutStarts
<1>2. LayoutInv /\ [Next]_tab => LayoutInv'
  BY LayoutMoves
<1>3. LayoutInv => GroupsAreSubtrees
  BY DEF LayoutInv, TabInv, Fits, UnitsFit, GroupsFit, InPlace, MembersIn,
         GroupsAreSubtrees, Members
<1> QED BY <1>1, <1>2, <1>3, PTL DEF Spec
=============================================================================

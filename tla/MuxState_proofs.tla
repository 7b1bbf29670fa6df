--------------------------- MODULE MuxState_proofs ---------------------------
(***************************************************************************)
(* What the calls of MuxState do to the registries, for any windows, tabs  *)
(* and panes: each keeps them consistent, and a sweep leaves nothing dead  *)
(* on show unless it has queued more removals.  Before that, what the      *)
(* operations on a window's list of tabs (WindowTabs) do to it, for a list *)
(* of any length.                                                          *)
(***************************************************************************)
EXTENDS MuxState, WindowOrder, Functions, SequenceTheorems, WellFoundedInduction, TLAPS

Windows(S) == [tabs : Seq(S), active : Nat, last : S \cup {None}]

(* No tab is listed twice, and the active position is that of a tab, or    *)
(* the first one if there is none: the next tab takes it.                  *)
Sound(w) ==
  /\ IsInjective(w.tabs)
  /\ IF w.tabs = <<>> THEN w.active = 0 ELSE w.active < Len(w.tabs)

-----------------------------------------------------------------------------
(* Induction over sets of numbers. *)
LEMMA Everything ==
  ASSUME NEW S \in SUBSET Nat, 0 \in S, \A n \in S : n + 1 \in S
  PROVE  S = Nat
<1>1. SUFFICES ASSUME Nat \ S # {} PROVE FALSE
  OBVIOUS
<1>2. PICK n \in Nat \ S :
        \A k \in Nat \ S : ~ (<<k, n>> \in OpToRel(<, Nat))
  BY <1>1, NatLessThanWellFounded, WFMin
<1>3. \A k \in Nat \ S : ~ (k < n)
  BY <1>2 DEF OpToRel
<1> HIDE <1>2
<1>4. n - 1 \in Nat /\ n - 1 < n /\ n = (n - 1) + 1
  OBVIOUS
<1>5. n - 1 \in S
  BY <1>3, <1>4
<1> QED BY <1>4, <1>5

-----------------------------------------------------------------------------
(* Lists without repetitions. *)

LEMMA SetOfSeq ==
  ASSUME NEW S, NEW s \in Seq(S)
  PROVE  /\ ToSet(s) = {s[i] : i \in 1 .. Len(s)}
         /\ ToSet(s) \subseteq S
         /\ ToSet(s) = {} <=> s = <<>>
<1>1. /\ Len(s) \in Nat /\ DOMAIN s = 1 .. Len(s)
      /\ \A i \in 1 .. Len(s) : s[i] \in S
  BY LenProperties, ElementOfSeq
<1>2. s = <<>> <=> Len(s) = 0
  BY EmptySeq
<1>3. ToSet(s) = {s[i] : i \in 1 .. Len(s)}
  BY <1>1 DEF ToSet
<1>4. ToSet(s) \subseteq S
  BY <1>1, <1>3
<1>5. s # <<>> => s[1] \in ToSet(s)
  BY <1>1, <1>2, <1>3
<1>6. s = <<>> => ToSet(s) = {}
  BY <1>1, <1>2, <1>3
<1> QED BY <1>3, <1>4, <1>5, <1>6

(* A place is taken out of a list. *)
LEMMA TakenOut ==
  ASSUME NEW S, NEW s \in Seq(S), NEW k \in 1 .. Len(s)
  PROVE  LET r == RemoveAt(s, k)
         IN  /\ r \in Seq(S) /\ Len(r) = Len(s) - 1
             /\ \A j \in 1 .. Len(s) - 1 :
                  r[j] = IF j < k THEN s[j] ELSE s[j + 1]
             /\ IsInjective(s) =>
                  IsInjective(r) /\ ToSet(r) = ToSet(s) \ {s[k]}
<1> DEFINE r == RemoveAt(s, k)
           a == SubSeq(s, 1, k - 1)
           b == SubSeq(s, k + 1, Len(s))
<1>1. /\ Len(s) \in Nat /\ DOMAIN s = 1 .. Len(s)
      /\ \A i \in 1 .. Len(s) : s[i] \in S
  BY LenProperties, ElementOfSeq
<1>2. /\ a \in Seq(S) /\ Len(a) = k - 1
      /\ \A j \in 1 .. k - 1 : a[j] = s[j]
  <2>1. \A i \in 1 .. k - 1 : s[i] \in S
    BY <1>1
  <2> QED BY <1>1, <2>1, SubSeqProperties
<1>3. /\ b \in Seq(S) /\ Len(b) = Len(s) - k
      /\ \A j \in 1 .. Len(s) - k : b[j] = s[k + j]
  <2>1. /\ \A i \in k + 1 .. Len(s) : s[i] \in S
        /\ k + 1 \in Int /\ Len(s) \in Int
    BY <1>1
  <2>2. /\ b \in Seq(S)
        /\ Len(b) = IF k + 1 <= Len(s) THEN Len(s) - (k + 1) + 1 ELSE 0
        /\ \A j \in 1 .. Len(s) - (k + 1) + 1 : b[j] = s[(k + 1) + j - 1]
    BY <2>1, SubSeqProperties
  <2> HIDE DEF b
  <2>3. Len(b) = Len(s) - k
    <3>1. Len(s) \in Nat /\ k <= Len(s) /\ k \in Nat
      BY <1>1
    <3>2. Len(b) = IF k + 1 <= Len(s) THEN Len(s) - (k + 1) + 1 ELSE 0
      BY <2>2
    <3> QED BY <3>1, <3>2
  <2>4. ASSUME NEW j \in 1 .. Len(s) - k
        PROVE  b[j] = s[k + j]
    <3>1. j \in 1 .. Len(s) - (k + 1) + 1 /\ (k + 1) + j - 1 = k + j
      BY <1>1
    <3> QED BY <2>2, <3>1
  <2> QED BY <2>2, <2>3, <2>4
<1>4. r = a \o b
  BY DEF RemoveAt
<1> HIDE DEF a, b, r
<1>5. /\ r \in Seq(S) /\ Len(r) = Len(s) - 1
      /\ \A j \in 1 .. Len(s) - 1 : r[j] = IF j < k THEN s[j] ELSE s[j + 1]
  <2>1. /\ r \in Seq(S) /\ Len(r) = Len(a) + Len(b)
        /\ \A j \in 1 .. Len(a) + Len(b) :
             r[j] = IF j <= Len(a) THEN a[j] ELSE b[j - Len(a)]
    BY <1>2, <1>3, <1>4, ConcatProperties
  <2>2. Len(r) = Len(s) - 1
    BY <1>1, <1>2, <1>3, <2>1
  <2>3. ASSUME NEW j \in 1 .. Len(s) - 1
        PROVE  r[j] = IF j < k THEN s[j] ELSE s[j + 1]
    <3>1. j \in 1 .. Len(a) + Len(b) /\ (j < k <=> j <= Len(a))
      BY <1>1, <1>2, <1>3
    <3>2. r[j] = IF j < k THEN a[j] ELSE b[j - (k - 1)]
      BY <1>2, <2>1, <3>1
    <3>3. CASE j < k
      BY <1>1, <1>2, <3>3, <3>2
    <3>4. CASE ~ (j < k)
      <4>1. j - (k - 1) \in 1 .. Len(s) - k /\ k + (j - (k - 1)) = j + 1
        BY <1>1, <3>4
      <4>2. r[j] = b[j - (k - 1)]
        BY <3>4, <3>2
      <4> QED BY <1>3, <3>4, <4>1, <4>2
    <3> QED BY <3>3, <3>4
  <2> QED BY <2>1, <2>2, <2>3
<1>6. DOMAIN r = 1 .. Len(s) - 1
  BY <1>5, LenProperties
<1>7. ASSUME IsInjective(s)
      PROVE  IsInjective(r) /\ ToSet(r) = ToSet(s) \ {s[k]}
  <2>1. \A i, j \in 1 .. Len(s) : s[i] = s[j] => i = j
    BY <1>1, <1>7 DEF IsInjective
  <2>2. IsInjective(r)
    <3>1. SUFFICES ASSUME NEW i \in 1 .. Len(s) - 1,
                          NEW j \in 1 .. Len(s) - 1, r[i] = r[j]
                   PROVE  i = j
      BY <1>6 DEF IsInjective
    <3> QED BY <1>1, <1>5, <2>1, <3>1
  <2>3. ASSUME NEW j \in 1 .. Len(s) - 1
        PROVE  r[j] \in ToSet(s) \ {s[k]}
    BY <1>1, <1>5, <2>1 DEF ToSet
  <2>4. ASSUME NEW i \in 1 .. Len(s), i # k
        PROVE  s[i] \in ToSet(r)
    <3>1. CASE i < k
      BY <1>1, <1>5, <1>6, <3>1 DEF ToSet
    <3>2. CASE i > k
      <4>1. i - 1 \in 1 .. Len(s) - 1 /\ ~ (i - 1 < k) /\ (i - 1) + 1 = i
        BY <1>1, <3>2
      <4>2. r[i - 1] = s[i]
        BY <1>5, <4>1
      <4> QED BY <1>6, <4>1, <4>2 DEF ToSet
    <3> QED BY <1>1, <2>4, <3>1, <3>2
  <2>5. ToSet(r) \subseteq ToSet(s) \ {s[k]}
    BY <1>6, <2>3 DEF ToSet
  <2>6. ToSet(s) \ {s[k]} \subseteq ToSet(r)
    <3>1. SUFFICES ASSUME NEW x \in ToSet(s) \ {s[k]} PROVE x \in ToSet(r)
      OBVIOUS
    <3>2. PICK i \in 1 .. Len(s) : x = s[i]
      BY <1>1 DEF ToSet
    <3> QED BY <2>4, <3>1, <3>2
  <2> QED BY <2>2, <2>5, <2>6
<1> QED BY <1>5, <1>7 DEF r

(* An element is put into a list. *)
LEMMA PutIn ==
  ASSUME NEW S, NEW s \in Seq(S), NEW e \in S, NEW k \in 1 .. Len(s) + 1
  PROVE  LET r == InsertAt(s, k, e)
         IN  /\ r \in Seq(S) /\ Len(r) = Len(s) + 1 /\ r[k] = e
             /\ ToSet(r) = ToSet(s) \cup {e}
             /\ IsInjective(s) /\ e \notin ToSet(s) => IsInjective(r)
<1> DEFINE r == InsertAt(s, k, e)
           a == SubSeq(s, 1, k - 1)
           b == SubSeq(s, k, Len(s))
<1>1. /\ Len(s) \in Nat /\ DOMAIN s = 1 .. Len(s)
      /\ \A i \in 1 .. Len(s) : s[i] \in S
  BY LenProperties, ElementOfSeq
<1>2. /\ a \in Seq(S) /\ Len(a) = k - 1
      /\ \A j \in 1 .. k - 1 : a[j] = s[j]
  <2>1. \A i \in 1 .. k - 1 : s[i] \in S
    BY <1>1
  <2> QED BY <1>1, <2>1, SubSeqProperties
<1>3. /\ b \in Seq(S) /\ Len(b) = Len(s) - k + 1
      /\ \A j \in 1 .. Len(s) - k + 1 : b[j] = s[k + j - 1]
  <2>1. \A i \in k .. Len(s) : s[i] \in S
    BY <1>1
  <2>2. k \in Int /\ Len(s) \in Int
    BY <1>1
  <2> HIDE <1>1
  <2> QED BY <1>1, <2>1, <2>2, SubSeqProperties
<1>4. r = a \o <<e>> \o b
  BY DEF InsertAt
<1> HIDE DEF a, b, r
<1>5. /\ r \in Seq(S) /\ Len(r) = Len(s) + 1
      /\ \A j \in 1 .. Len(s) + 1 :
           r[j] = IF j < k THEN s[j] ELSE IF j = k THEN e ELSE s[j - 1]
  <2> DEFINE c == a \o <<e>>
  <2>1. /\ <<e>> \in Seq(S) /\ Len(<<e>>) = 1 /\ <<e>>[1] = e
    OBVIOUS
  <2>2. /\ c \in Seq(S) /\ Len(c) = Len(a) + 1
        /\ \A j \in 1 .. Len(a) + 1 :
             c[j] = IF j <= Len(a) THEN a[j] ELSE <<e>>[j - Len(a)]
    BY <1>2, <2>1, ConcatProperties
  <2> HIDE DEF c
  <2>3. /\ c \in Seq(S) /\ Len(c) = k
        /\ \A j \in 1 .. k : c[j] = IF j < k THEN s[j] ELSE e
    BY <1>1, <1>2, <2>1, <2>2
  <2>4. r = c \o b
    BY <1>4 DEF c
  <2>5. /\ r \in Seq(S) /\ Len(r) = Len(c) + Len(b)
        /\ \A j \in 1 .. Len(c) + Len(b) :
             r[j] = IF j <= Len(c) THEN c[j] ELSE b[j - Len(c)]
    BY <1>3, <2>3, <2>4, ConcatProperties
  <2>6. Len(r) = Len(s) + 1
    BY <1>1, <1>3, <2>3, <2>5
  <2>7. ASSUME NEW j \in 1 .. Len(s) + 1
        PROVE  r[j] = IF j < k THEN s[j] ELSE IF j = k THEN e ELSE s[j - 1]
    <3>1. CASE j <= k
      BY <1>1, <1>3, <2>3, <2>5, <3>1
    <3>2. CASE ~ (j <= k)
      <4>1. j - k \in 1 .. Len(s) - k + 1 /\ k + (j - k) - 1 = j - 1
        BY <1>1, <3>2
      <4>2. r[j] = b[j - k]
        BY <1>1, <1>3, <2>3, <2>5, <3>2, SMTT(30)
      <4> QED BY <1>3, <3>2, <4>1, <4>2
    <3> QED BY <3>1, <3>2
  <2> QED BY <2>5, <2>6, <2>7
<1>6. DOMAIN r = 1 .. Len(s) + 1
  BY <1>5, LenProperties
<1>7. r[k] = e
  BY <1>1, <1>5
<1>8. ToSet(r) \subseteq ToSet(s) \cup {e}
  <2>1. ASSUME NEW j \in 1 .. Len(s) + 1
        PROVE  r[j] \in ToSet(s) \cup {e}
    BY <1>1, <1>5 DEF ToSet
  <2> QED BY <1>6, <2>1 DEF ToSet
<1>9. ToSet(s) \cup {e} \subseteq ToSet(r)
  <2>1. ASSUME NEW i \in 1 .. Len(s)
        PROVE  s[i] \in ToSet(r)
    <3>1. CASE i < k
      BY <1>1, <1>5, <1>6, <3>1 DEF ToSet
    <3>2. CASE ~ (i < k)
      <4>1. i + 1 \in 1 .. Len(s) + 1 /\ ~ (i + 1 < k) /\ i + 1 # k
            /\ (i + 1) - 1 = i
        BY <1>1, <3>2
      <4>2. r[i + 1] = s[i]
        BY <1>5, <4>1
      <4> QED BY <1>6, <4>1, <4>2 DEF ToSet
    <3> QED BY <3>1, <3>2
  <2>2. e \in ToSet(r)
    BY <1>1, <1>6, <1>7 DEF ToSet
  <2> QED BY <1>1, <2>1, <2>2 DEF ToSet
<1>10. ASSUME IsInjective(s), e \notin ToSet(s)
       PROVE  IsInjective(r)
  <2>1. \A i, j \in 1 .. Len(s) : s[i] = s[j] => i = j
    BY <1>1, <1>10 DEF IsInjective
  <2>2. \A i \in 1 .. Len(s) : s[i] # e
    BY <1>1, <1>10 DEF ToSet
  <2>3. SUFFICES ASSUME NEW i \in 1 .. Len(s) + 1,
                        NEW j \in 1 .. Len(s) + 1, r[i] = r[j]
                 PROVE  i = j
    BY <1>6 DEF IsInjective
  <2> QED BY <1>1, <1>5, <2>1, <2>2, <2>3
<1> QED BY <1>5, <1>7, <1>8, <1>9, <1>10 DEF r

(* idx_by_id finds a tab that is in the list. *)
LEMMA Found ==
  ASSUME NEW S, NEW s \in Seq(S), NEW t \in ToSet(s)
  PROVE  /\ PositionIn(s, t) \in 0 .. Len(s) - 1
         /\ PositionIn(s, t) + 1 \in 1 .. Len(s)
         /\ s[PositionIn(s, t) + 1] = t
         /\ IsInjective(s) =>
              \A i \in 1 .. Len(s) : s[i] = t => PositionIn(s, t) = i - 1
<1>1. Len(s) \in Nat /\ DOMAIN s = 1 .. Len(s)
  BY LenProperties
<1>2. \E i \in DOMAIN s : s[i] = t
  BY DEF ToSet
<1> DEFINE c == CHOOSE i \in DOMAIN s : s[i] = t
<1>3. c \in 1 .. Len(s) /\ s[c] = t
  BY <1>1, <1>2
<1>4. PositionIn(s, t) = c - 1
  BY DEF PositionIn
<1> HIDE DEF c
<1>5. PositionIn(s, t) + 1 = c /\ PositionIn(s, t) \in 0 .. Len(s) - 1
  BY <1>1, <1>3, <1>4
<1>6. IsInjective(s) => \A i \in 1 .. Len(s) : s[i] = t => i = c
  BY <1>1, <1>3 DEF IsInjective
<1> QED BY <1>1, <1>3, <1>4, <1>5, <1>6

-----------------------------------------------------------------------------
(* Operations on a window.                                                 *)

(* The active tab is the one at the active position. *)
LEMMA ActiveIs ==
  ASSUME NEW S, None \notin S, NEW w \in Windows(S), Sound(w)
  PROVE  /\ w.tabs = <<>> => ActiveTab(w) = None
         /\ w.tabs # <<>> =>
              /\ w.active + 1 \in 1 .. Len(w.tabs)
              /\ ActiveTab(w) = w.tabs[w.active + 1]
              /\ ActiveTab(w) \in TabsOf(w)
<1>1. /\ w.tabs \in Seq(S) /\ w.active \in Nat
      /\ Len(w.tabs) \in Nat
      /\ w.tabs = <<>> <=> Len(w.tabs) = 0
  BY LenProperties, EmptySeq DEF Windows
<1>2. TabsOf(w) = {w.tabs[i] : i \in 1 .. Len(w.tabs)}
  BY <1>1, SetOfSeq DEF TabsOf
<1> QED BY <1>1, <1>2 DEF ActiveTab, TabAt, Sound

(* do_remove_idx, when the window is left with the list rest: the fix-up   *)
(* finds a position in it.                                                 *)
LEMMA FixedUp ==
  ASSUME NEW S, NEW rest \in Seq(S), NEW at \in Nat, NEW old
  PROVE  /\ Fixup(rest, old, at) \in Nat
         /\ IF rest = <<>> THEN Fixup(rest, old, at) = at
            ELSE Fixup(rest, old, at) < Len(rest)
         /\ old \in ToSet(rest) =>
              TabAt([tabs |-> rest], Fixup(rest, old, at)) = old
<1>1. Len(rest) \in Nat /\ (rest = <<>> <=> Len(rest) = 0)
  BY LenProperties, EmptySeq
<1>2. CASE old \in ToSet(rest)
  <2>1. rest # <<>>
    BY <1>2, SetOfSeq
  <2>2. /\ PositionIn(rest, old) \in 0 .. Len(rest) - 1
        /\ rest[PositionIn(rest, old) + 1] = old
    BY <1>2, Found
  <2> QED BY <1>1, <1>2, <2>1, <2>2 DEF Fixup, TabAt
<1>3. CASE old \notin ToSet(rest)
  BY <1>1, <1>3 DEF Fixup
<1> QED BY <1>2, <1>3

LEMMA MovedToIsPosition ==
  ASSUME NEW S, NEW w \in Windows(S), Sound(w), w.tabs # <<>>, NEW i
  PROVE  MovedTo(w, i) \in 0 .. Len(w.tabs) - 1
<1>1. w.tabs \in Seq(S) /\ w.active \in Nat /\ Len(w.tabs) \in Nat
  BY LenProperties DEF Windows
<1>2. w.last \in TabsOf(w) => PositionIn(w.tabs, w.last) \in 0 .. Len(w.tabs) - 1
  BY <1>1, Found DEF TabsOf
<1>3. w.active \in 0 .. Len(w.tabs) - 1
  BY <1>1 DEF Sound
<1> QED BY <1>2, <1>3 DEF MovedTo

(* A tab is removed: the others stay in their order, the window is as      *)
(* sound as it was, and the active tab stays active unless it is the one.  *)
LEMMA TabRemoved ==
  ASSUME NEW S, None \notin S, NEW w \in Windows(S), Sound(w),
         NEW i \in 0 .. Len(w.tabs) - 1
  PROVE  LET n == RemoveTabAt(w, i)
         IN  /\ n \in Windows(S) /\ Sound(n) /\ n.last = w.last
             /\ TabsOf(n) = TabsOf(w) \ {w.tabs[i + 1]}
             /\ Len(n.tabs) = Len(w.tabs) - 1
             /\ w.tabs[i + 1] \in TabsOf(w)
             /\ ActiveTab(w) # w.tabs[i + 1] => ActiveTab(n) = ActiveTab(w)
<1> DEFINE rest == RemoveAt(w.tabs, i + 1)
           n    == RemoveTabAt(w, i)
           to   == Fixup(rest, ActiveTab(w), MovedTo(w, i))
<1>1. /\ w.tabs \in Seq(S) /\ w.active \in Nat /\ w.last \in S \cup {None}
      /\ Len(w.tabs) \in Nat /\ i + 1 \in 1 .. Len(w.tabs)
  BY LenProperties DEF Windows
<1>2. /\ rest \in Seq(S) /\ Len(rest) = Len(w.tabs) - 1
      /\ IsInjective(rest) /\ ToSet(rest) = ToSet(w.tabs) \ {w.tabs[i + 1]}
  <2> DEFINE s == w.tabs
             k == i + 1
  <2>1. /\ s \in Seq(S) /\ k \in 1 .. Len(s) /\ IsInjective(s)
        /\ rest = RemoveAt(s, k)
    BY <1>1 DEF Sound
  <2> HIDE DEF s, k, rest
  <2>2. /\ rest \in Seq(S) /\ Len(rest) = Len(s) - 1
        /\ IsInjective(rest) /\ ToSet(rest) = ToSet(s) \ {s[k]}
    BY <2>1, TakenOut
  <2> QED BY <2>2 DEF s, k
<1> HIDE DEF rest
<1>3. n = [w EXCEPT !.tabs = rest, !.active = to]
  BY DEF RemoveTabAt, rest
<1>4. MovedTo(w, i) \in 0 .. Len(w.tabs) - 1
  BY <1>1, EmptySeq, MovedToIsPosition
<1>5. /\ to \in Nat
      /\ IF rest = <<>> THEN to = 0 ELSE to < Len(rest)
      /\ ActiveTab(w) \in ToSet(rest) =>
           TabAt([tabs |-> rest], to) = ActiveTab(w)
  <2>1. MovedTo(w, i) \in Nat
    BY <1>1, <1>4
  <2>2. rest = <<>> => MovedTo(w, i) = 0
    <3>1. rest = <<>> => Len(w.tabs) = 1
      BY <1>1, <1>2
    <3>2. Len(w.tabs) = 1 => MovedTo(w, i) = 0
      BY <1>1, <1>4
    <3> QED BY <3>1, <3>2
  <2> QED BY <1>2, <2>1, <2>2, FixedUp
<1> HIDE DEF to, n
<1>6. n.tabs = rest /\ n.active = to /\ n.last = w.last /\ n \in Windows(S)
  BY <1>1, <1>2, <1>3, <1>5 DEF Windows
<1>7. Sound(n)
  BY <1>2, <1>5, <1>6 DEF Sound
<1>8. w.tabs[i + 1] \in TabsOf(w) /\ ActiveTab(w) \in TabsOf(w)
  <2>1. TabsOf(w) = {w.tabs[j] : j \in 1 .. Len(w.tabs)}
    BY <1>1, SetOfSeq DEF TabsOf
  <2>2. w.tabs # <<>>
    BY <1>1, EmptySeq
  <2> QED BY <1>1, <2>1, <2>2, ActiveIs
<1>9. ActiveTab(w) # w.tabs[i + 1] => ActiveTab(n) = ActiveTab(w)
  BY <1>2, <1>5, <1>6, <1>8 DEF ActiveTab, TabAt, TabsOf
<1> QED BY <1>2, <1>6, <1>7, <1>8, <1>9 DEF n, TabsOf

LEMMA TabRemovedById ==
  ASSUME NEW S, None \notin S, NEW w \in Windows(S), Sound(w), NEW t
  PROVE  LET n == RemoveTabById(w, t)
         IN  /\ n \in Windows(S) /\ Sound(n) /\ n.last = w.last
             /\ TabsOf(n) = TabsOf(w) \ {t}
             /\ ActiveTab(w) # t => ActiveTab(n) = ActiveTab(w)
<1>1. CASE t \in TabsOf(w)
  <2>1. /\ PositionIn(w.tabs, t) \in 0 .. Len(w.tabs) - 1
        /\ w.tabs[PositionIn(w.tabs, t) + 1] = t
    BY <1>1, Found DEF Windows, TabsOf
  <2> QED BY <1>1, <2>1, TabRemoved DEF RemoveTabById
<1>2. CASE t \notin TabsOf(w)
  BY <1>2 DEF RemoveTabById
<1> QED BY <1>1, <1>2

-----------------------------------------------------------------------------
(* Removing several tabs, one after the other.                             *)

(* The first i tabs of w's list are looked at, and those of gone removed. *)
After(f, w, gone, i) ==
  IF i = 0 THEN w
  ELSE IF w.tabs[i] \in gone THEN RemoveTabById(f[i - 1], w.tabs[i])
  ELSE f[i - 1]

(* The recursive definition in RemoveTabs defines a function. *)
LEMMA AfterExists ==
  ASSUME NEW w, NEW gone
  PROVE  \A n \in Nat : \E f : f = [i \in 0 .. n |-> After(f, w, gone, i)]
<1> DEFINE E == {n \in Nat : \E f : f = [i \in 0 .. n |-> After(f, w, gone, i)]}
<1>1. 0 \in E
  <2> DEFINE f == [i \in 0 .. 0 |-> w]
  <2>1. f = [i \in 0 .. 0 |-> After(f, w, gone, i)]
    BY DEF After
  <2> QED BY <2>1
<1>2. ASSUME NEW n \in E
      PROVE  n + 1 \in E
  <2>1. PICK f : f = [i \in 0 .. n |-> After(f, w, gone, i)]
    OBVIOUS
  <2> DEFINE g == [i \in 0 .. n + 1 |->
                     IF i = n + 1 THEN After(f, w, gone, i) ELSE f[i]]
  <2>2. \A i \in 0 .. n : g[i] = f[i]
    OBVIOUS
  <2>3. ASSUME NEW i \in 0 .. n + 1
        PROVE  g[i] = After(g, w, gone, i)
    <3>1. i = 0 \/ i - 1 \in 0 .. n
      OBVIOUS
    <3>2. After(g, w, gone, i) = After(f, w, gone, i)
      BY <2>2, <3>1 DEF After
    <3>3. i # n + 1 => f[i] = After(f, w, gone, i)
      <4> HIDE DEF After
      <4>1. i # n + 1 => i \in 0 .. n
        OBVIOUS
      <4> QED BY <2>1, <4>1
    <3> QED BY <3>2, <3>3
  <2>4. g = [i \in 0 .. n + 1 |-> After(g, w, gone, i)]
    BY <2>3
  <2> HIDE DEF g
  <2> QED BY <2>4
<1> HIDE DEF E
<1>3. E \in SUBSET Nat
  BY DEF E
<1>4. E = Nat
  BY <1>1, <1>2, <1>3, Everything
<1> QED BY <1>4 DEF E

LEMMA RemovedInSteps ==
  ASSUME NEW S, NEW w \in Windows(S), NEW gone
  PROVE  \E f : /\ f = [i \in 0 .. Len(w.tabs) |-> After(f, w, gone, i)]
                /\ RemoveTabs(w, gone) = f[Len(w.tabs)]
<1>1. Len(w.tabs) \in Nat
  BY LenProperties DEF Windows
<1> DEFINE f == CHOOSE f : f = [i \in 0 .. Len(w.tabs) |-> After(f, w, gone, i)]
<1>2. f = [i \in 0 .. Len(w.tabs) |-> After(f, w, gone, i)]
  BY <1>1, AfterExists
<1>3. RemoveTabs(w, gone) = f[Len(w.tabs)]
  BY DEF RemoveTabs, After
<1> QED BY <1>2, <1>3

(* Exactly the tabs of gone go, whatever becomes active meanwhile. *)
LEMMA TabsRemoved ==
  ASSUME NEW S, None \notin S, NEW w \in Windows(S), Sound(w), NEW gone
  PROVE  LET n == RemoveTabs(w, gone)
         IN  /\ n \in Windows(S) /\ Sound(n) /\ n.last = w.last
             /\ TabsOf(n) = TabsOf(w) \ gone
             /\ ActiveTab(w) \notin gone => ActiveTab(n) = ActiveTab(w)
<1>1. PICK f : /\ f = [i \in 0 .. Len(w.tabs) |-> After(f, w, gone, i)]
               /\ RemoveTabs(w, gone) = f[Len(w.tabs)]
  BY RemovedInSteps
<1>2. /\ Len(w.tabs) \in Nat
      /\ TabsOf(w) = {w.tabs[i] : i \in 1 .. Len(w.tabs)}
  BY LenProperties, SetOfSeq DEF Windows, TabsOf
<1> DEFINE Seen(k) == {w.tabs[i] : i \in 1 .. k}
           Good(k) == /\ f[k] \in Windows(S) /\ Sound(f[k])
                      /\ f[k].last = w.last
                      /\ TabsOf(f[k]) = TabsOf(w) \ (gone \cap Seen(k))
                      /\ ActiveTab(w) \notin gone =>
                           ActiveTab(f[k]) = ActiveTab(w)
           E == {k \in Nat : k <= Len(w.tabs) => Good(k)}
<1>3. 0 \in E
  <2>1. f[0] = w
    BY <1>1, <1>2 DEF After
  <2>2. Seen(0) = {}
    OBVIOUS
  <2> HIDE DEF Seen
  <2> QED BY <2>1, <2>2
<1>4. ASSUME NEW k \in E
      PROVE  k + 1 \in E
  <2>1. SUFFICES ASSUME k + 1 <= Len(w.tabs)
                 PROVE  Good(k + 1)
    OBVIOUS
  <2> DEFINE t == w.tabs[k + 1]
  <2>2. Good(k)
    BY <1>2, <2>1
  <2>3. f[k + 1] = IF t \in gone THEN RemoveTabById(f[k], t) ELSE f[k]
    <3>1. k + 1 \in 0 .. Len(w.tabs) /\ k + 1 # 0 /\ (k + 1) - 1 = k
      BY <1>2, <2>1
    <3>2. f[k + 1] = After(f, w, gone, k + 1)
      BY <1>1, <3>1
    <3> QED BY <3>1, <3>2 DEF After
  <2>4. Seen(k + 1) = Seen(k) \cup {t}
    <3>1. 1 .. k + 1 = 1 .. k \cup {k + 1}
      OBVIOUS
    <3> QED BY <3>1
  <2> HIDE DEF Seen, t
  <2>5. CASE t \in gone
    BY <2>2, <2>3, <2>4, <2>5, TabRemovedById
  <2>6. CASE t \notin gone
    BY <2>2, <2>3, <2>4, <2>6
  <2> QED BY <2>5, <2>6
<1>5. E = Nat
  <2>1. E \in SUBSET Nat
    OBVIOUS
  <2> HIDE DEF E
  <2> QED BY <1>3, <1>4, <2>1, Everything
<1> HIDE DEF Good
<1>6. Good(Len(w.tabs))
  BY <1>2, <1>5
<1> USE DEF Good
<1>7. Seen(Len(w.tabs)) = TabsOf(w)
  BY <1>2
<1> HIDE DEF Seen
<1> QED BY <1>1, <1>6, <1>7

(* Removing one tab of a list that way is removing that tab. *)
LEMMA OneRemoved ==
  ASSUME NEW S, None \notin S, NEW w \in Windows(S), Sound(w),
         NEW gone, NEW t, gone \cap TabsOf(w) = {t}
  PROVE  RemoveTabs(w, gone) = RemoveTabById(w, t)
<1>1. PICK f : /\ f = [i \in 0 .. Len(w.tabs) |-> After(f, w, gone, i)]
               /\ RemoveTabs(w, gone) = f[Len(w.tabs)]
  BY RemovedInSteps
<1>2. /\ Len(w.tabs) \in Nat /\ DOMAIN w.tabs = 1 .. Len(w.tabs)
      /\ TabsOf(w) = {w.tabs[i] : i \in 1 .. Len(w.tabs)}
  BY LenProperties, SetOfSeq DEF Windows, TabsOf
<1>3. PICK p \in 1 .. Len(w.tabs) : w.tabs[p] = t
  BY <1>2
<1>4. \A i \in 1 .. Len(w.tabs) : w.tabs[i] \in gone <=> i = p
  <2>1. \A i \in 1 .. Len(w.tabs) : w.tabs[i] \in gone <=> w.tabs[i] = t
    BY <1>2
  <2>2. \A i \in 1 .. Len(w.tabs) : w.tabs[i] = t => i = p
    BY <1>2, <1>3 DEF Sound, IsInjective
  <2> QED BY <1>3, <2>1, <2>2
<1> DEFINE Good(k) == f[k] = IF k < p THEN w ELSE RemoveTabById(w, t)
           E == {k \in Nat : k <= Len(w.tabs) => Good(k)}
<1>5. 0 \in E
  BY <1>1, <1>2, <1>3 DEF After
<1>6. ASSUME NEW k \in E
      PROVE  k + 1 \in E
  <2>1. SUFFICES ASSUME k + 1 <= Len(w.tabs)
                 PROVE  Good(k + 1)
    OBVIOUS
  <2>2. Good(k)
    BY <1>2, <2>1
  <2>3. k + 1 \in 1 .. Len(w.tabs) /\ k + 1 \in 0 .. Len(w.tabs)
        /\ k + 1 # 0 /\ (k + 1) - 1 = k
    BY <1>2, <2>1
  <2>4. f[k + 1] = IF k + 1 = p THEN RemoveTabById(f[k], w.tabs[k + 1])
                   ELSE f[k]
    BY <1>1, <1>4, <2>3 DEF After
  <2> QED BY <1>3, <2>2, <2>3, <2>4
<1>7. E = Nat
  <2>1. E \in SUBSET Nat
    OBVIOUS
  <2> HIDE DEF E
  <2> QED BY <1>5, <1>6, <2>1, Everything
<1> QED BY <1>1, <1>2, <1>3, <1>7

(* Activating a tab, and adding one behind the others. *)
LEMMA TabActivated ==
  ASSUME NEW S, None \notin S, NEW w \in Windows(S), Sound(w),
         NEW i \in 0 .. Len(w.tabs) - 1
  PROVE  LET n == SaveThenActivate(w, i)
         IN  n \in Windows(S) /\ Sound(n) /\ n.tabs = w.tabs
<1>1. /\ w.tabs \in Seq(S) /\ Len(w.tabs) \in Nat
      /\ i \in Nat /\ w.tabs # <<>>
  BY LenProperties, EmptySeq DEF Windows
<1>2. ActiveTab(w) \in S \cup {None}
  BY <1>1, ActiveIs, SetOfSeq DEF TabsOf
<1> HIDE DEF Sound
<1>3. /\ SaveThenActivate(w, i) \in Windows(S)
      /\ SaveThenActivate(w, i).tabs = w.tabs
      /\ SaveThenActivate(w, i).active = i
  BY <1>1, <1>2 DEF SaveThenActivate, Windows
<1> QED BY <1>1, <1>3 DEF Sound

LEMMA TabPushed ==
  ASSUME NEW S, None \notin S, NEW w \in Windows(S), Sound(w), NEW t \in S,
         t \notin TabsOf(w)
  PROVE  LET n == Push(w, t)
         IN  /\ n \in Windows(S) /\ Sound(n) /\ n.last = w.last
             /\ TabsOf(n) = TabsOf(w) \cup {t}
             /\ w.tabs # <<>> => ActiveTab(n) = ActiveTab(w)
<1> DEFINE n == Push(w, t)
<1>1. /\ w.tabs \in Seq(S) /\ w.active \in Nat /\ Len(w.tabs) \in Nat
      /\ DOMAIN w.tabs = 1 .. Len(w.tabs)
  BY LenProperties DEF Windows
<1>2. /\ n \in Windows(S) /\ n.tabs = Append(w.tabs, t)
      /\ n.last = w.last /\ n.active = w.active
  BY <1>1, AppendProperties DEF Push, Windows
<1>3. /\ n.tabs \in Seq(S) /\ Len(n.tabs) = Len(w.tabs) + 1
      /\ DOMAIN n.tabs = 1 .. Len(w.tabs) + 1
      /\ \A j \in 1 .. Len(w.tabs) : n.tabs[j] = w.tabs[j]
      /\ n.tabs[Len(w.tabs) + 1] = t
  BY <1>1, <1>2, AppendProperties, LenProperties
<1> HIDE DEF n
<1>4. TabsOf(n) = TabsOf(w) \cup {t}
  <2>1. TabsOf(n) = {n.tabs[j] : j \in 1 .. Len(w.tabs) + 1}
    BY <1>3 DEF TabsOf, ToSet
  <2>2. TabsOf(w) = {w.tabs[j] : j \in 1 .. Len(w.tabs)}
    BY <1>1 DEF TabsOf, ToSet
  <2>3. 1 .. Len(w.tabs) + 1 = (1 .. Len(w.tabs)) \cup {Len(w.tabs) + 1}
    BY <1>1
  <2> QED BY <1>3, <2>1, <2>2, <2>3, SMTT(30)
<1>5. IsInjective(n.tabs)
  <2>1. \A i, j \in 1 .. Len(w.tabs) : w.tabs[i] = w.tabs[j] => i = j
    BY <1>1 DEF Sound, IsInjective
  <2>2. \A i \in 1 .. Len(w.tabs) : w.tabs[i] # t
    BY <1>1 DEF TabsOf, ToSet
  <2>3. SUFFICES ASSUME NEW i \in 1 .. Len(w.tabs) + 1,
                        NEW j \in 1 .. Len(w.tabs) + 1, n.tabs[i] = n.tabs[j]
                 PROVE  i = j
    BY <1>3 DEF IsInjective
  <2>4. Len(w.tabs) \in Nat
    BY <1>1
  <2>5. CASE i \in 1 .. Len(w.tabs) /\ j \in 1 .. Len(w.tabs)
    BY <1>3, <2>1, <2>3, <2>5
  <2>6. CASE i \in 1 .. Len(w.tabs) /\ j = Len(w.tabs) + 1
    BY <1>3, <2>2, <2>3, <2>6
  <2>7. CASE i = Len(w.tabs) + 1 /\ j \in 1 .. Len(w.tabs)
    BY <1>3, <2>2, <2>3, <2>7
  <2>8. CASE i = Len(w.tabs) + 1 /\ j = Len(w.tabs) + 1
    BY <2>8
  <2> QED BY <2>4, <2>5, <2>6, <2>7, <2>8
<1>6. n.tabs # <<>> /\ w.active < Len(n.tabs)
  BY <1>1, <1>3, EmptySeq DEF Sound
<1>7. w.tabs # <<>> => ActiveTab(n) = ActiveTab(w)
  BY <1>1, <1>2, <1>3, <1>6, ActiveIs DEF ActiveTab, TabAt
<1> QED BY <1>2, <1>4, <1>5, <1>6, <1>7 DEF Sound, n

(* The active tab goes: the one to go back to becomes active, if its place *)
(* is before it.                                                           *)
LEMMA WentBack ==
  ASSUME NEW S, None \notin S, NEW w \in Windows(S), Sound(w),
         SwitchToLastActive, w.last \in TabsOf(w),
         PositionIn(w.tabs, w.last) < w.active
  PROVE  ActiveTab(RemoveTabById(w, ActiveTab(w))) = w.last
<1> DEFINE s    == w.tabs
           t    == ActiveTab(w)
           p    == PositionIn(s, w.last)
           k    == w.active + 1
           rest == RemoveAt(s, k)
           n    == RemoveTabAt(w, w.active)
<1>1. /\ s \in Seq(S) /\ Len(s) \in Nat /\ w.active \in Nat
      /\ DOMAIN s = 1 .. Len(s)
  BY LenProperties DEF Windows
<1>2. s # <<>>
  BY <1>1, SetOfSeq DEF TabsOf
<1>3. k \in 1 .. Len(s) /\ t = s[k] /\ t \in ToSet(s)
  BY <1>2, ActiveIs DEF TabsOf
<1>4. /\ p \in 0 .. Len(s) - 1 /\ s[p + 1] = w.last /\ p < w.active
      /\ w.last \in ToSet(s)
  BY <1>1, Found DEF TabsOf
<1>5. IsInjective(s)
  BY DEF Sound
<1>6. PositionIn(s, t) = w.active
  <2>1. PositionIn(s, t) = k - 1
    BY <1>1, <1>3, <1>5, Found
  <2> QED BY <1>1, <2>1
<1>7. RemoveTabById(w, t) = n
  BY <1>3, <1>6 DEF RemoveTabById, TabsOf
<1>8. MovedTo(w, w.active) = p
  BY <1>4 DEF MovedTo, TabsOf
<1> HIDE DEF s, t, p, k, rest, n
<1>9. /\ rest \in Seq(S) /\ Len(rest) = Len(s) - 1
      /\ ToSet(rest) = ToSet(s) \ {s[k]}
      /\ \A j \in 1 .. Len(s) - 1 : rest[j] = IF j < k THEN s[j] ELSE s[j + 1]
  <2>1. /\ s \in Seq(S) /\ k \in 1 .. Len(s) /\ IsInjective(s)
        /\ rest = RemoveAt(s, k)
    BY <1>1, <1>3, <1>5 DEF rest
  <2> QED BY <2>1, TakenOut, SMTT(30)
<1>10. n = [w EXCEPT !.tabs = rest, !.active = Fixup(rest, t, p)]
  BY <1>8 DEF n, RemoveTabAt, rest, s, k, t
<1>11. k = w.active + 1
  BY DEF k
<1>12. p < Len(rest) /\ p + 1 \in 1 .. Len(s) - 1 /\ p + 1 < k
  BY <1>1, <1>3, <1>4, <1>9, <1>11
<1>13. Fixup(rest, t, p) = p
  <2>1. t \notin ToSet(rest)
    BY <1>3, <1>9
  <2>2. ~ (p >= Len(rest))
    BY <1>1, <1>4, <1>9, <1>12
  <2> QED BY <2>1, <2>2 DEF Fixup
<1>14. n.tabs = rest /\ n.active = p
  BY <1>10, <1>13 DEF Windows
<1>15. rest[p + 1] = w.last
  BY <1>4, <1>9, <1>12
<1>16. ActiveTab(n) = w.last
  BY <1>12, <1>14, <1>15 DEF ActiveTab, TabAt
<1> QED BY <1>7, <1>16 DEF t

(* The active tab is dragged to another place. *)
LEMMA ActiveMoved ==
  ASSUME NEW S, None \notin S, NEW w \in Windows(S), Sound(w),
         NEW i \in 0 .. Len(w.tabs) - 1
  PROVE  LET n == MoveActive(w, i)
         IN  /\ n \in Windows(S) /\ Sound(n) /\ n.last = w.last
             /\ TabsOf(n) = TabsOf(w)
             /\ ActiveTab(n) = ActiveTab(w)
<1> DEFINE t   == ActiveTab(w)
           out == RemoveTabAt(w, w.active)
           new == InsertAt(out.tabs, i + 1, t)
           n   == MoveActive(w, i)
<1>1. /\ w.tabs \in Seq(S) /\ Len(w.tabs) \in Nat /\ w.active \in Nat
      /\ w.tabs # <<>>
  BY LenProperties, EmptySeq DEF Windows
<1>2. /\ w.active + 1 \in 1 .. Len(w.tabs) /\ t = w.tabs[w.active + 1]
      /\ t \in TabsOf(w) /\ t \in S
  BY <1>1, ActiveIs, SetOfSeq DEF TabsOf
<1>3. w.active \in 0 .. Len(w.tabs) - 1
  BY <1>1, <1>2
<1>4. /\ out \in Windows(S) /\ Sound(out) /\ out.last = w.last
      /\ TabsOf(out) = TabsOf(w) \ {t}
      /\ Len(out.tabs) = Len(w.tabs) - 1
  BY <1>2, <1>3, TabRemoved
<1>5. n = [out EXCEPT !.tabs = new, !.active = i]
  BY DEF MoveActive
<1>6. out.tabs \in Seq(S) /\ IsInjective(out.tabs)
  BY <1>4 DEF Windows, Sound
<1>7. i + 1 \in 1 .. Len(out.tabs) + 1 /\ i \in Nat
  BY <1>1, <1>4
<1> HIDE DEF t, out
<1>8. /\ new \in Seq(S) /\ Len(new) = Len(out.tabs) + 1 /\ new[i + 1] = t
      /\ ToSet(new) = ToSet(out.tabs) \cup {t}
      /\ t \notin ToSet(out.tabs) => IsInjective(new)
  <2> DEFINE s == out.tabs
             k == i + 1
  <2>1. s \in Seq(S) /\ k \in 1 .. Len(s) + 1 /\ new = InsertAt(s, k, t)
    BY <1>6, <1>7
  <2>2. IsInjective(s)
    BY <1>6
  <2> HIDE DEF s, k, new
  <2>3. /\ new \in Seq(S) /\ Len(new) = Len(s) + 1 /\ new[k] = t
        /\ ToSet(new) = ToSet(s) \cup {t}
        /\ t \notin ToSet(s) => IsInjective(new)
    BY <1>2, <2>1, <2>2, PutIn
  <2> QED BY <2>3 DEF s, k
<1> HIDE DEF new, n
<1>9. /\ n.tabs = new /\ n.active = i /\ n.last = w.last
      /\ n \in Windows(S)
  BY <1>4, <1>5, <1>7, <1>8 DEF Windows
<1>10. TabsOf(n) = TabsOf(w) /\ IsInjective(new)
  BY <1>2, <1>4, <1>8, <1>9 DEF TabsOf
<1>11. Len(new) = Len(w.tabs) /\ i < Len(new) /\ new # <<>>
  BY <1>1, <1>4, <1>8, EmptySeq
<1>12. Sound(n)
  BY <1>9, <1>10, <1>11 DEF Sound
<1>13. ActiveTab(n) = t
  BY <1>8, <1>9, <1>11 DEF ActiveTab, TabAt
<1> QED BY <1>9, <1>10, <1>12, <1>13 DEF n, t

-----------------------------------------------------------------------------
(* One window, step by step: the position of the active tab is always that *)
(* of a tab, and it follows the active tab through every removal, alone or *)
(* in a batch, and every move.                                             *)

WindowInv == window \in Windows(Tab) /\ Sound(window)

LEMMA WindowStarts == WindowInit => WindowInv
<1> SUFFICES ASSUME WindowInit PROVE WindowInv
  OBVIOUS
<1>1. <<>> \in Seq(Tab) /\ IsInjective(<<>>)
  BY EmptySeq DEF IsInjective
<1> QED BY <1>1 DEF WindowInv, WindowInit, EmptyWindow, Windows, Sound

(* What a step does to the tabs and to the one that is active. *)
Adds(t) ==
  Tabs' = Tabs \cup {t} /\ t \notin Tabs

Removes(gone) ==
  /\ gone \subseteq Tabs /\ Tabs' = Tabs \ gone /\ window'.last = window.last
  /\ ActiveTab(window) \notin gone => ActiveTab(window)' = ActiveTab(window)

LEMMA Unused ==
  ASSUME WindowInv, NEW t \in UnusedTabs
  PROVE  t \in Tab /\ t \notin Tabs
BY DEF UnusedTabs

LEMMA OpenKeeps ==
  ASSUME WindowInv, NEW t \in UnusedTabs, Open(t)
  PROVE  WindowInv' /\ Adds(t)
<1> DEFINE n == Push(window, t)
<1>1. /\ n \in Windows(Tab) /\ Sound(n) /\ TabsOf(n) = Tabs \cup {t}
      /\ Len(window.tabs) \in 0 .. Len(n.tabs) - 1
  <2>1. n \in Windows(Tab) /\ Sound(n) /\ TabsOf(n) = Tabs \cup {t}
    BY Unused, TabPushed, WindowAssumption DEF WindowInv, Tabs
  <2>2. window.tabs \in Seq(Tab) /\ Len(window.tabs) \in Nat
    BY LenProperties DEF WindowInv, Windows
  <2>3. n.tabs = Append(window.tabs, t)
    BY DEF WindowInv, Windows, Push
  <2>4. Len(n.tabs) = Len(window.tabs) + 1
    BY <2>2, <2>3, Unused, AppendProperties
  <2> QED BY <2>1, <2>2, <2>4
<1>2. window' = SaveThenActivate(n, Len(window.tabs))
  BY DEF Open
<1> HIDE DEF n
<1>3. window' \in Windows(Tab) /\ Sound(window') /\ window'.tabs = n.tabs
  BY <1>1, <1>2, TabActivated, WindowAssumption
<1> QED BY <1>1, <1>3, Unused DEF WindowInv, Adds, Tabs, TabsOf

LEMMA AddBehindKeeps ==
  ASSUME WindowInv, NEW t \in UnusedTabs, AddBehind(t)
  PROVE  WindowInv' /\ Adds(t)
BY Unused, TabPushed, WindowAssumption DEF WindowInv, Adds, AddBehind, Tabs

LEMMA CloseKeeps ==
  ASSUME WindowInv, NEW t \in Tabs, Close(t)
  PROVE  WindowInv' /\ Removes({t})
BY TabRemovedById, WindowAssumption DEF WindowInv, Removes, Close, Tabs

LEMMA PruneKeeps ==
  ASSUME WindowInv, NEW gone \in SUBSET Tabs, Prune(gone)
  PROVE  WindowInv' /\ Removes(gone)
BY TabsRemoved, WindowAssumption DEF WindowInv, Removes, Prune, Tabs

LEMMA SwitchKeeps ==
  ASSUME WindowInv, NEW i \in Positions, Switch(i)
  PROVE  WindowInv' /\ window'.tabs = window.tabs
BY TabActivated, WindowAssumption DEF WindowInv, Switch, Positions

LEMMA MoveKeeps ==
  ASSUME WindowInv, NEW i \in Positions, Move(i)
  PROVE  /\ WindowInv' /\ Tabs' = Tabs
         /\ ActiveTab(window)' = ActiveTab(window)
         /\ window'.last = window.last
BY ActiveMoved, WindowAssumption DEF WindowInv, Move, Positions, Tabs

LEMMA WindowPreserved == WindowInv /\ [WindowNext]_window => WindowInv'
<1> SUFFICES ASSUME WindowInv, [WindowNext]_window PROVE WindowInv'
  OBVIOUS
<1>1. ASSUME NEW t \in UnusedTabs, Open(t) PROVE WindowInv'
  BY <1>1, OpenKeeps
<1>2. ASSUME NEW t \in UnusedTabs, AddBehind(t) PROVE WindowInv'
  BY <1>2, AddBehindKeeps
<1>3. ASSUME NEW t \in Tabs, Close(t) PROVE WindowInv'
  BY <1>3, CloseKeeps
<1>4. ASSUME NEW gone \in SUBSET Tabs, Prune(gone) PROVE WindowInv'
  BY <1>4, PruneKeeps
<1>5. ASSUME NEW i \in Positions, Switch(i) PROVE WindowInv'
  BY <1>5, SwitchKeeps
<1>6. ASSUME NEW i \in Positions, Move(i) PROVE WindowInv'
  BY <1>6, MoveKeeps
<1>7. CASE UNCHANGED window
  BY <1>7 DEF WindowInv
<1> QED BY <1>1, <1>2, <1>3, <1>4, <1>5, <1>6, <1>7 DEF WindowNext

LEMMA WindowInvariant == WindowSpec => []WindowInv
BY WindowStarts, WindowPreserved, PTL DEF WindowSpec

-----------------------------------------------------------------------------

(* No tab is listed twice and the active position is that of a tab, so     *)
(* set_active_without_saving never panics.                                 *)
THEOREM WindowTypeCorrect == WindowSpec => []WindowTypeOK
<1>1. WindowInv => WindowTypeOK
  BY DEF WindowInv, WindowTypeOK, Windows, Sound
<1> QED BY <1>1, WindowInvariant, PTL

(* Closing or pruning other tabs never changes which tab is active.        *)
THEOREM ActiveStays == WindowSpec => OthersGoActiveStays
<1> DEFINE Stays == Tabs' \subseteq Tabs /\ Tabs' # Tabs
                      /\ ActiveTab(window) \in Tabs'
                      => ActiveTab(window)' = ActiveTab(window)
<1>1. ASSUME WindowInv, [WindowNext]_window PROVE [Stays]_window
  <2>1. ASSUME NEW t \in UnusedTabs, Open(t) PROVE Stays
    BY <1>1, <2>1, OpenKeeps DEF Adds
  <2>2. ASSUME NEW t \in UnusedTabs, AddBehind(t) PROVE Stays
    BY <1>1, <2>2, AddBehindKeeps DEF Adds
  <2>3. ASSUME NEW t \in Tabs, Close(t) PROVE Stays
    BY <1>1, <2>3, CloseKeeps DEF Removes
  <2>4. ASSUME NEW gone \in SUBSET Tabs, Prune(gone) PROVE Stays
    BY <1>1, <2>4, PruneKeeps DEF Removes
  <2>5. ASSUME NEW i \in Positions, Switch(i) PROVE Stays
    BY <1>1, <2>5, SwitchKeeps DEF Tabs, TabsOf
  <2>6. ASSUME NEW i \in Positions, Move(i) PROVE Stays
    BY <1>1, <2>6, MoveKeeps
  <2> QED BY <1>1, <2>1, <2>2, <2>3, <2>4, <2>5, <2>6 DEF WindowNext
<1> QED BY <1>1, WindowInvariant, PTL DEF WindowSpec, OthersGoActiveStays

(* Dragging a tab moves it and nothing else.                               *)
THEOREM MovesReorder == WindowSpec => MoveOnlyReorders
<1> DEFINE Reorders == Tabs' = Tabs /\ window'.tabs # window.tabs
                       => /\ ActiveTab(window)' = ActiveTab(window)
                          /\ window'.last = window.last
<1>1. ASSUME WindowInv, [WindowNext]_window PROVE [Reorders]_window
  <2>1. ASSUME NEW t \in UnusedTabs, Open(t) PROVE Reorders
    BY <1>1, <2>1, OpenKeeps DEF Adds
  <2>2. ASSUME NEW t \in UnusedTabs, AddBehind(t) PROVE Reorders
    BY <1>1, <2>2, AddBehindKeeps DEF Adds
  <2>3. ASSUME NEW t \in Tabs, Close(t) PROVE Reorders
    BY <1>1, <2>3, CloseKeeps DEF Removes
  <2>4. ASSUME NEW gone \in SUBSET Tabs, Prune(gone) PROVE Reorders
    <3>1. Removes(gone)
      BY <1>1, <2>4, PruneKeeps
    <3>2. Tabs' = Tabs => gone = {}
      BY <3>1 DEF Removes
    <3> QED BY <3>1, <3>2 DEF Removes
  <2>5. ASSUME NEW i \in Positions, Switch(i) PROVE Reorders
    BY <1>1, <2>5, SwitchKeeps
  <2>6. ASSUME NEW i \in Positions, Move(i) PROVE Reorders
    BY <1>1, <2>6, MoveKeeps
  <2> QED BY <1>1, <2>1, <2>2, <2>3, <2>4, <2>5, <2>6 DEF WindowNext
<1> QED BY <1>1, WindowInvariant, PTL DEF WindowSpec, MoveOnlyReorders

(* Closing the active tab goes back to the last active one, if that one    *)
(* stands before it.                                                       *)
THEOREM ClosingGoesBack == WindowSpec => GoesBack
<1> DEFINE Leaves == /\ SwitchToLastActive /\ window.last \in Tabs
                     /\ Tabs' = Tabs \ {ActiveTab(window)}
                     /\ PositionIn(window.tabs, window.last) < window.active
           Back == Leaves => ActiveTab(window)' = window.last
<1>1. ASSUME WindowInv, [WindowNext]_window PROVE [Back]_window
  <2>1. SUFFICES ASSUME Leaves, WindowNext
                 PROVE  ActiveTab(window)' = window.last
    BY <1>1
  <2>2. ActiveTab(window) \in Tabs
    <3>1. window.tabs # <<>>
      BY <1>1, <2>1, SetOfSeq DEF WindowInv, Windows, Tabs, TabsOf
    <3> QED BY <1>1, <3>1, ActiveIs, WindowAssumption DEF WindowInv, Tabs
  <2>3. ActiveTab(RemoveTabById(window, ActiveTab(window))) = window.last
    BY <1>1, <2>1, WentBack, WindowAssumption DEF WindowInv, Tabs
  <2>4. Tabs' # Tabs /\ Tabs' \subseteq Tabs
    BY <2>1, <2>2
  <2>5. ASSUME NEW t \in UnusedTabs, Open(t) PROVE FALSE
    BY <1>1, <2>4, <2>5, OpenKeeps DEF Adds
  <2>6. ASSUME NEW t \in UnusedTabs, AddBehind(t) PROVE FALSE
    BY <1>1, <2>4, <2>6, AddBehindKeeps DEF Adds
  <2>7. ASSUME NEW t \in Tabs, Close(t)
        PROVE  window' = RemoveTabById(window, ActiveTab(window))
    <3>1. Removes({t})
      BY <1>1, <2>7, CloseKeeps
    <3>2. t = ActiveTab(window)
      BY <2>1, <2>2, <3>1 DEF Removes
    <3> QED BY <2>7, <3>2 DEF Close
  <2>8. ASSUME NEW gone \in SUBSET Tabs, Prune(gone)
        PROVE  window' = RemoveTabById(window, ActiveTab(window))
    <3>1. Removes(gone)
      BY <1>1, <2>8, PruneKeeps
    <3>2. gone \cap Tabs = {ActiveTab(window)}
      BY <2>1, <2>2, <3>1 DEF Removes
    <3>3. window' = RemoveTabs(window, gone)
      BY <2>8 DEF Prune
    <3> QED BY <1>1, <3>2, <3>3, OneRemoved, WindowAssumption DEF WindowInv, Tabs
  <2>9. ASSUME NEW i \in Positions, Switch(i) PROVE FALSE
    BY <1>1, <2>4, <2>9, SwitchKeeps DEF Tabs, TabsOf
  <2>10. ASSUME NEW i \in Positions, Move(i) PROVE FALSE
    BY <1>1, <2>4, <2>10, MoveKeeps
  <2>11. window' = RemoveTabById(window, ActiveTab(window))
    BY <2>1, <2>5, <2>6, <2>7, <2>8, <2>9, <2>10 DEF WindowNext
  <2> QED BY <2>3, <2>11
<1> QED BY <1>1, WindowInvariant, PTL DEF WindowSpec, GoesBack

-----------------------------------------------------------------------------
(* The registries.                                                         *)

(* Functions from a part of S to T. *)
Partial(S, T) == UNION {[D -> T] : D \in SUBSET S}

MuxStates ==
  [windows : Partial(Window, Windows(Tab)), tabs : Partial(Tab, SUBSET Pane),
   panes : SUBSET Pane, process : [Pane -> {"running", "held", "dead"}],
   removing : SUBSET Pane, told : BOOLEAN]

(* Every tab of a window is registered and in that window only, and no     *)
(* pane is in two tabs.                                                    *)
Homes(m) ==
  /\ \A w \in DOMAIN m.windows :
       Sound(m.windows[w]) /\ TabsOf(m.windows[w]) \subseteq DOMAIN m.tabs
  /\ \A v, w \in DOMAIN m.windows :
       v = w \/ TabsOf(m.windows[v]) \cap TabsOf(m.windows[w]) = {}
  /\ \A t, u \in DOMAIN m.tabs : t = u \/ m.tabs[t] \cap m.tabs[u] = {}

Consistent(m) == m \in MuxStates /\ Homes(m)

-----------------------------------------------------------------------------

LEMMA PartialFunctions ==
  ASSUME NEW S, NEW T, NEW f
  PROVE  f \in Partial(S, T) <=> DOMAIN f \subseteq S /\ f \in [DOMAIN f -> T]
BY DEF Partial

(* The parts of the registries. *)
LEMMA Parts ==
  ASSUME NEW m \in MuxStates
  PROVE  /\ DOMAIN m.windows \subseteq Window
         /\ \A w \in DOMAIN m.windows : m.windows[w] \in Windows(Tab)
         /\ DOMAIN m.tabs \subseteq Tab
         /\ \A t \in DOMAIN m.tabs : m.tabs[t] \subseteq Pane
         /\ m.panes \subseteq Pane /\ m.removing \subseteq Pane
         /\ m.process \in [Pane -> {"running", "held", "dead"}]
         /\ m.told \in BOOLEAN
<1>1. /\ m.windows \in Partial(Window, Windows(Tab))
      /\ m.tabs \in Partial(Tab, SUBSET Pane)
      /\ m.panes \subseteq Pane /\ m.removing \subseteq Pane
      /\ m.process \in [Pane -> {"running", "held", "dead"}]
      /\ m.told \in BOOLEAN
  BY DEF MuxStates
<1> QED BY <1>1, PartialFunctions

(* The registries of windows and of tabs are replaced. *)
LEMMA Replaced ==
  ASSUME NEW m \in MuxStates, NEW windows, NEW tabs,
         DOMAIN windows \subseteq Window,
         windows = [w \in DOMAIN windows |-> windows[w]],
         \A w \in DOMAIN windows : windows[w] \in Windows(Tab),
         DOMAIN tabs \subseteq Tab,
         tabs = [t \in DOMAIN tabs |-> tabs[t]],
         \A t \in DOMAIN tabs : tabs[t] \subseteq Pane
  PROVE  /\ [m EXCEPT !.windows = windows, !.tabs = tabs] \in MuxStates
         /\ [m EXCEPT !.tabs = tabs, !.windows = windows] \in MuxStates
<1>1. windows \in Partial(Window, Windows(Tab))
  BY PartialFunctions
<1>2. tabs \in Partial(Tab, SUBSET Pane)
  BY PartialFunctions
<1> HIDE DEF Partial
<1> QED BY <1>1, <1>2 DEF MuxStates

LEMMA PanesRemoved ==
  ASSUME NEW m, Consistent(m), NEW P
  PROVE  LET n == RemovePanes(m, P)
         IN  /\ Consistent(n)
             /\ n.windows = m.windows /\ n.tabs = m.tabs
             /\ n.panes = m.panes \ P
             /\ n.removing = m.removing /\ n.told = m.told
             /\ \A p \in Pane \ P : IsDead(n, p) <=> IsDead(m, p)
<1> DEFINE n == RemovePanes(m, P)
           process == [p \in Pane |->
             IF p \in P \cap m.panes /\ m.process[p] = "held" THEN "dead"
             ELSE m.process[p]]
<1>1. m \in MuxStates /\ Homes(m)
  BY DEF Consistent
<1>2. process \in [Pane -> {"running", "held", "dead"}]
  BY <1>1, Parts
<1>3. n = [m EXCEPT !.panes = m.panes \ P, !.process = process]
  BY DEF RemovePanes
<1>4. \A p \in Pane \ P : process[p] = m.process[p]
  OBVIOUS
<1> HIDE DEF n, process
<1>5. /\ n \in MuxStates /\ n.windows = m.windows /\ n.tabs = m.tabs
      /\ n.panes = m.panes \ P /\ n.process = process
      /\ n.removing = m.removing /\ n.told = m.told
  BY <1>1, <1>2, <1>3 DEF MuxStates
<1>6. Homes(n)
  BY <1>1, <1>5 DEF Homes
<1> QED BY <1>4, <1>5, <1>6 DEF Consistent, IsDead, n

(* The tabs of T and their panes go, out of the windows too. *)
LEMMA TabsUnregistered ==
  ASSUME NEW m, Consistent(m), NEW T
  PROVE  LET n == RemoveEachTab(m, T)
             P == PanesInTabs(m, T \cap DOMAIN m.tabs)
         IN  /\ Consistent(n)
             /\ DOMAIN n.windows = DOMAIN m.windows
             /\ \A w \in DOMAIN m.windows :
                  TabsOf(n.windows[w]) = TabsOf(m.windows[w]) \ T
             /\ DOMAIN n.tabs = DOMAIN m.tabs \ T
             /\ \A t \in DOMAIN n.tabs : n.tabs[t] = m.tabs[t]
             /\ n.panes = m.panes \ P
             /\ n.removing = m.removing /\ n.told = m.told
             /\ \A p \in Pane \ P : IsDead(n, p) <=> IsDead(m, p)
<1> DEFINE known == T \cap DOMAIN m.tabs
           windows == [w \in DOMAIN m.windows |-> RemoveTabs(m.windows[w], known)]
           tabs == Without(m.tabs, known)
           o == [m EXCEPT !.tabs = tabs, !.windows = windows]
           P == PanesInTabs(m, known)
<1>1. m \in MuxStates /\ Homes(m)
  BY DEF Consistent
<1>2. ASSUME NEW w \in DOMAIN m.windows
      PROVE  /\ windows[w] \in Windows(Tab) /\ Sound(windows[w])
             /\ TabsOf(windows[w]) = TabsOf(m.windows[w]) \ known
  <2>1. m.windows[w] \in Windows(Tab) /\ Sound(m.windows[w])
    BY <1>1, Parts DEF Homes
  <2>2. windows[w] = RemoveTabs(m.windows[w], known)
    OBVIOUS
  <2> HIDE DEF windows, known
  <2> QED BY <2>1, <2>2, TabsRemoved, MuxAssumption
<1>3. /\ DOMAIN tabs = DOMAIN m.tabs \ T
      /\ \A t \in DOMAIN tabs : tabs[t] = m.tabs[t]
      /\ tabs = [t \in DOMAIN tabs |-> tabs[t]]
  BY DEF Without
<1>4. /\ DOMAIN windows = DOMAIN m.windows
      /\ windows = [w \in DOMAIN windows |-> windows[w]]
  OBVIOUS
<1>5. \A w \in DOMAIN m.windows :
        TabsOf(windows[w]) = TabsOf(m.windows[w]) \ T
  BY <1>1, <1>2 DEF Homes
<1> HIDE DEF tabs, windows
<1>6. o \in MuxStates
  BY <1>1, <1>2, <1>3, <1>4, Parts, Replaced
<1>7. /\ o.windows = windows /\ o.tabs = tabs /\ o.panes = m.panes
      /\ o.process = m.process /\ o.removing = m.removing /\ o.told = m.told
  BY <1>1 DEF MuxStates
<1> HIDE DEF o
<1>8. Homes(o)
  BY <1>1, <1>2, <1>3, <1>4, <1>5, <1>7, SMTT(30) DEF Homes
<1>9. RemoveEachTab(m, T) = RemovePanes(o, P)
  BY DEF RemoveEachTab, o, tabs, windows
<1> HIDE DEF P, known
<1> DEFINE n == RemoveEachTab(m, T)
<1> HIDE DEF n
<1>10. n = RemovePanes(o, P)
  BY <1>9 DEF n
<1>11. /\ Consistent(n)
       /\ n.windows = o.windows /\ n.tabs = o.tabs
       /\ n.panes = o.panes \ P
       /\ n.removing = o.removing /\ n.told = o.told
       /\ \A p \in Pane \ P : IsDead(n, p) <=> IsDead(o, p)
  BY <1>6, <1>8, <1>10, PanesRemoved DEF Consistent
<1>12. \A p \in Pane \ P : IsDead(n, p) <=> IsDead(m, p)
  BY <1>7, <1>11 DEF IsDead
<1>13. /\ DOMAIN n.windows = DOMAIN m.windows
       /\ \A w \in DOMAIN m.windows :
            TabsOf(n.windows[w]) = TabsOf(m.windows[w]) \ T
  BY <1>4, <1>5, <1>7, <1>11
<1>14. /\ DOMAIN n.tabs = DOMAIN m.tabs \ T
       /\ \A t \in DOMAIN n.tabs : n.tabs[t] = m.tabs[t]
  BY <1>3, <1>7, <1>11
<1> QED BY <1>7, <1>11, <1>12, <1>13, <1>14 DEF n, P, known

(* The panes of P are taken out of the tabs in windows. *)
LEMMA TakenOutOfTabs ==
  ASSUME NEW m, Consistent(m), NEW P
  PROVE  LET n == WithoutPanes(m, P)
             T == TabsInWindows(m)
         IN  /\ Consistent(n)
             /\ n.windows = m.windows /\ DOMAIN n.tabs = DOMAIN m.tabs
             /\ \A t \in DOMAIN m.tabs :
                  n.tabs[t] = IF t \in T THEN m.tabs[t] \ P ELSE m.tabs[t]
             /\ m.removing \subseteq n.removing
             /\ \A t \in T : m.tabs[t] \cap P \subseteq n.removing
             /\ n.panes = m.panes /\ n.told = m.told
             /\ \A p : IsDead(n, p) <=> IsDead(m, p)
<1> DEFINE n == WithoutPanes(m, P)
           T == TabsInWindows(m)
           tabs == [t \in DOMAIN m.tabs |->
                      m.tabs[t] \ IF t \in T THEN P ELSE {}]
           removing == m.removing \cup (P \cap PanesInTabs(m, T))
<1>1. m \in MuxStates /\ Homes(m)
  BY DEF Consistent
<1>2. T \subseteq DOMAIN m.tabs
  BY <1>1 DEF TabsInWindows, Homes
<1>3. PanesInTabs(m, T) \subseteq Pane
  BY <1>1, <1>2, Parts DEF PanesInTabs
<1>4. /\ DOMAIN tabs = DOMAIN m.tabs /\ DOMAIN m.tabs \subseteq Tab
      /\ \A t \in DOMAIN m.tabs :
           /\ tabs[t] = IF t \in T THEN m.tabs[t] \ P ELSE m.tabs[t]
           /\ tabs[t] \subseteq m.tabs[t] /\ tabs[t] \subseteq Pane
  BY <1>1, Parts
<1>5. tabs \in Partial(Tab, SUBSET Pane)
  <2>1. tabs = [t \in DOMAIN tabs |-> tabs[t]]
    OBVIOUS
  <2> HIDE DEF tabs
  <2> QED BY <1>4, <2>1, PartialFunctions
<1>6. \A t \in T : m.tabs[t] \cap P \subseteq removing
  BY DEF PanesInTabs
<1>7. n = [m EXCEPT !.tabs = tabs, !.removing = removing]
  BY DEF WithoutPanes
<1>8. removing \in SUBSET Pane /\ m.removing \subseteq removing
  BY <1>1, <1>3, Parts
<1> HIDE DEF n, tabs, removing, T
<1>9. /\ n \in MuxStates /\ n.windows = m.windows /\ n.tabs = tabs
      /\ n.panes = m.panes /\ n.process = m.process
      /\ n.removing = removing /\ n.told = m.told
  BY <1>1, <1>5, <1>7, <1>8 DEF MuxStates
<1>10. Homes(n)
  <2>1. \A t, u \in DOMAIN m.tabs : t = u \/ tabs[t] \cap tabs[u] = {}
    BY <1>1, <1>4 DEF Homes
  <2> QED BY <1>1, <1>4, <1>9, <2>1 DEF Homes
<1>11. Consistent(n)
  BY <1>9, <1>10 DEF Consistent
<1>12. \A p : IsDead(n, p) <=> IsDead(m, p)
  BY <1>9 DEF IsDead
<1> QED BY <1>4, <1>6, <1>8, <1>9, <1>11, <1>12 DEF n, T

(* What a call takes out of a tab is queued for removal; of a tab that has *)
(* none of the panes it takes nothing, and of any other something.         *)
LEMMA SomeTakenOut ==
  ASSUME NEW m, Consistent(m), NEW P, NEW n \in TakeOut(m, P)
  PROVE  /\ Consistent(n)
         /\ n.windows = m.windows /\ DOMAIN n.tabs = DOMAIN m.tabs
         /\ \A t \in DOMAIN m.tabs :
              /\ n.tabs[t] \subseteq m.tabs[t]
              /\ m.tabs[t] \ n.tabs[t] \subseteq P \cap n.removing
         /\ \A t \in TabsInWindows(m) :
              m.tabs[t] \cap P # {} => n.removing # {}
         /\ m.removing \subseteq n.removing
         /\ n.panes = m.panes /\ n.told = m.told
         /\ \A p : IsDead(n, p) <=> IsDead(m, p)
<1> DEFINE T == TabsInWindows(m)
<1>1. PICK L \in Missed(m, P) : n = WithoutPanes(m, P \ L)
  BY DEF TakeOut
<1>2. PICK Q : Q = P \ L
  OBVIOUS
<1>3. n = WithoutPanes(m, Q) /\ Q \subseteq P
  BY <1>1, <1>2
<1>4. /\ Consistent(n)
      /\ n.windows = m.windows /\ DOMAIN n.tabs = DOMAIN m.tabs
      /\ \A t \in DOMAIN m.tabs :
           n.tabs[t] = IF t \in T THEN m.tabs[t] \ Q ELSE m.tabs[t]
      /\ m.removing \subseteq n.removing
      /\ \A t \in T : m.tabs[t] \cap Q \subseteq n.removing
      /\ n.panes = m.panes /\ n.told = m.told
      /\ \A p : IsDead(n, p) <=> IsDead(m, p)
  BY <1>3, TakenOutOfTabs
<1>5. \A t \in T : P \cap m.tabs[t] # {} => ~ (P \cap m.tabs[t] \subseteq L)
  BY DEF Missed
<1>6. \A t \in T : m.tabs[t] \cap P # {} => m.tabs[t] \cap Q # {}
  BY <1>2, <1>5
<1> QED BY <1>3, <1>4, <1>6

(* What the windows show is pruned: a tab in a window has a living pane,   *)
(* and its panes are alive and known, unless a removal is queued.          *)
LEMMA WindowsPruned ==
  ASSUME NEW m, Consistent(m), NEW n \in PruneWindows(m)
  PROVE  /\ Consistent(n)
         /\ DOMAIN n.windows = DOMAIN m.windows
         /\ \A w \in DOMAIN n.windows :
              /\ TabsOf(n.windows[w]) \subseteq TabsOf(m.windows[w])
              /\ \A t \in TabsOf(n.windows[w]) :
                   /\ \E p \in n.tabs[t] : ~ IsDead(n, p)
                   /\ \/ n.removing # {}
                      \/ /\ n.tabs[t] \subseteq n.panes
                         /\ \A p \in n.tabs[t] : ~ IsDead(n, p)
         /\ DOMAIN n.tabs = DOMAIN m.tabs
         /\ \A t \in DOMAIN n.tabs : n.tabs[t] \subseteq m.tabs[t]
         /\ m.removing \subseteq n.removing
         /\ n.panes = m.panes /\ n.told = m.told
         /\ \A p : IsDead(n, p) <=> IsDead(m, p)
<1> DEFINE P == {p \in Pane : IsDead(m, p) \/ p \notin m.panes}
           T == TabsInWindows(m)
<1>1. PICK o \in TakeOut(m, P) :
        n = [o EXCEPT !.windows = [w \in DOMAIN @ |->
              RemoveTabs(@[w], {t \in TabsOf(@[w]) :
                t \notin DOMAIN o.tabs \/ \A p \in o.tabs[t] : IsDead(o, p)})]]
  BY DEF PruneWindows
<1>2. /\ Consistent(o)
      /\ o.windows = m.windows /\ DOMAIN o.tabs = DOMAIN m.tabs
      /\ \A t \in DOMAIN m.tabs :
           /\ o.tabs[t] \subseteq m.tabs[t]
           /\ m.tabs[t] \ o.tabs[t] \subseteq P \cap o.removing
      /\ \A t \in T : m.tabs[t] \cap P # {} => o.removing # {}
      /\ m.removing \subseteq o.removing
      /\ o.panes = m.panes /\ o.told = m.told
      /\ \A p : IsDead(o, p) <=> IsDead(m, p)
  <2> HIDE DEF P
  <2> QED BY SomeTakenOut
<1>3. ASSUME NEW t \in T, o.removing = {}
      PROVE  o.tabs[t] \subseteq o.panes /\ \A p \in o.tabs[t] : ~ IsDead(o, p)
  <2>1. t \in DOMAIN m.tabs
    BY DEF Consistent, Homes, TabsInWindows
  <2>2. m.tabs[t] \subseteq Pane
    BY <2>1, Parts DEF Consistent
  <2>3. m.tabs[t] \cap P = {} /\ o.tabs[t] \subseteq m.tabs[t]
    BY <1>2, <1>3, <2>1
  <2>4. \A p \in o.tabs[t] : p \in m.panes /\ ~ IsDead(m, p)
    BY <2>2, <2>3
  <2> QED BY <1>2, <2>4
<1> HIDE DEF P
<1> DEFINE gone(t) == t \notin DOMAIN o.tabs \/ \A p \in o.tabs[t] : IsDead(o, p)
           Gone(w) == {t \in TabsOf(o.windows[w]) : gone(t)}
           windows == [w \in DOMAIN o.windows |->
                         RemoveTabs(o.windows[w], Gone(w))]
<1>4. n = [o EXCEPT !.windows = windows]
  BY <1>1
<1>5. ASSUME NEW w \in DOMAIN o.windows
      PROVE  /\ windows[w] \in Windows(Tab) /\ Sound(windows[w])
             /\ TabsOf(windows[w]) = TabsOf(o.windows[w]) \ Gone(w)
  <2>1. o.windows[w] \in Windows(Tab) /\ Sound(o.windows[w])
    BY <1>2, Parts DEF Consistent, Homes
  <2>2. windows[w] = RemoveTabs(o.windows[w], Gone(w))
    OBVIOUS
  <2> HIDE DEF windows, Gone
  <2> QED BY <2>1, <2>2, TabsRemoved, MuxAssumption
<1>6. \A w \in DOMAIN o.windows :
        /\ TabsOf(windows[w]) \subseteq TabsOf(o.windows[w])
        /\ \A t \in TabsOf(windows[w]) : \E p \in o.tabs[t] : ~ IsDead(o, p)
  BY <1>5
<1>7. /\ DOMAIN windows = DOMAIN o.windows
      /\ windows = [w \in DOMAIN windows |-> windows[w]]
  OBVIOUS
<1> HIDE DEF windows, Gone, gone
<1>8. windows \in Partial(Window, Windows(Tab))
  BY <1>2, <1>5, <1>7, Parts, PartialFunctions DEF Consistent
<1>9. /\ n \in MuxStates /\ n.windows = windows /\ n.tabs = o.tabs
      /\ n.panes = o.panes /\ n.process = o.process
      /\ n.removing = o.removing /\ n.told = o.told
  BY <1>2, <1>4, <1>8 DEF MuxStates, Consistent
<1>10. Homes(n)
  BY <1>2, <1>5, <1>6, <1>7, <1>9, SMTT(30) DEF Homes, Consistent
<1>11. Consistent(n)
  BY <1>9, <1>10 DEF Consistent
<1>12. \A p : IsDead(n, p) <=> IsDead(o, p)
  BY <1>9 DEF IsDead
<1>13. \A w \in DOMAIN n.windows :
         /\ TabsOf(n.windows[w]) \subseteq TabsOf(m.windows[w])
         /\ \A t \in TabsOf(n.windows[w]) :
              /\ \E p \in n.tabs[t] : ~ IsDead(n, p)
              /\ \/ n.removing # {}
                 \/ /\ n.tabs[t] \subseteq n.panes
                    /\ \A p \in n.tabs[t] : ~ IsDead(n, p)
  <2>1. \A w \in DOMAIN m.windows : TabsOf(m.windows[w]) \subseteq T
    BY DEF TabsInWindows
  <2> HIDE DEF T
  <2> QED BY <1>2, <1>3, <1>6, <1>7, <1>9, <1>12, <2>1
<1>14. \A t \in DOMAIN m.tabs : o.tabs[t] \subseteq m.tabs[t]
  BY <1>2
<1> QED BY <1>2, <1>7, <1>9, <1>11, <1>12, <1>13, <1>14

-----------------------------------------------------------------------------
(* A sweep.                                                                *)

(* Every window has tabs, and every tab in a window has panes, all of them *)
(* alive and known.                                                        *)
Clean(m) ==
  \A w \in DOMAIN m.windows :
    /\ m.windows[w].tabs # <<>>
    /\ \A t \in TabsOf(m.windows[w]) :
         /\ m.tabs[t] # {} /\ m.tabs[t] \subseteq m.panes
         /\ \A p \in m.tabs[t] : ~ IsDead(m, p)

Told(m) == m.panes # {} \/ m.told

(* What n has is left of m, and a pane in no tab is as it was. *)
Remains(m, n) ==
  /\ DOMAIN n.tabs \subseteq DOMAIN m.tabs
  /\ \A t \in DOMAIN n.tabs : n.tabs[t] \subseteq m.tabs[t]
  /\ m.removing \subseteq n.removing
  /\ \A p \in Pane \ PanesInTabs(m, DOMAIN m.tabs) :
       (p \in m.panes => p \in n.panes) /\ (IsDead(n, p) <=> IsDead(m, p))

LEMMA Announced ==
  ASSUME NEW m, Consistent(m)
  PROVE  LET n == Announce(m)
         IN  /\ Consistent(n) /\ Told(n)
             /\ n.windows = m.windows /\ n.tabs = m.tabs
             /\ n.panes = m.panes /\ n.removing = m.removing
             /\ \A p : IsDead(n, p) <=> IsDead(m, p)
<1> DEFINE n == Announce(m)
<1>1. m \in MuxStates /\ Homes(m)
  BY DEF Consistent
<1>2. /\ n \in MuxStates /\ n.windows = m.windows /\ n.tabs = m.tabs
      /\ n.panes = m.panes /\ n.removing = m.removing
      /\ n.process = m.process /\ (n.panes = {} => n.told)
  BY <1>1 DEF Announce, MuxStates
<1> HIDE DEF n
<1> QED BY <1>1, <1>2 DEF Consistent, Homes, Told, IsDead, n

LEMMA WindowsUnregistered ==
  ASSUME NEW m, Consistent(m), NEW W
  PROVE  LET n == WithoutWindows(m, W)
         IN  /\ Consistent(n)
             /\ DOMAIN n.windows = DOMAIN m.windows \ W
             /\ \A w \in DOMAIN n.windows : n.windows[w] = m.windows[w]
             /\ n.tabs = m.tabs /\ n.panes = m.panes
             /\ n.removing = m.removing /\ n.told = m.told
             /\ \A p : IsDead(n, p) <=> IsDead(m, p)
<1> DEFINE windows == Without(m.windows, W)
           n == [m EXCEPT !.windows = windows]
<1>1. m \in MuxStates /\ Homes(m)
  BY DEF Consistent
<1>2. /\ DOMAIN windows = DOMAIN m.windows \ W
      /\ \A w \in DOMAIN windows : windows[w] = m.windows[w]
      /\ windows = [w \in DOMAIN windows |-> windows[w]]
  BY DEF Without
<1> HIDE DEF windows
<1>3. windows \in Partial(Window, Windows(Tab))
  BY <1>1, <1>2, Parts, PartialFunctions
<1>4. /\ n \in MuxStates /\ n.windows = windows /\ n.tabs = m.tabs
      /\ n.panes = m.panes /\ n.removing = m.removing /\ n.told = m.told
      /\ n.process = m.process
  BY <1>1, <1>3 DEF MuxStates
<1> HIDE DEF n
<1>5. Homes(n)
  BY <1>1, <1>2, <1>4 DEF Homes
<1>6. WithoutWindows(m, W) = n
  BY DEF WithoutWindows, n, windows
<1> QED BY <1>2, <1>4, <1>5, <1>6 DEF Consistent, IsDead

LEMMA IsSwept ==
  ASSUME NEW m, Consistent(m), NEW s \in Sweep(m)
  PROVE  /\ Consistent(s) /\ Told(s) /\ Remains(m, s)
         /\ Clean(s) \/ s.removing # {}
<1>0. PICK n \in PruneWindows(m) :
        s = Announce(WithoutBareWindows(WithoutDeadTabs(n), n))
  BY DEF Sweep
<1> DEFINE dead == {t \in DOMAIN n.tabs : \A p \in n.tabs[t] : IsDead(n, p)}
           bare == {w \in DOMAIN n.windows : n.windows[w].tabs = <<>>}
           kept == RemoveEachTab(n, dead)
           o == WithoutWindows(kept, bare)
           P == PanesInTabs(n, dead \cap DOMAIN n.tabs)
<1>1. /\ Consistent(n)
      /\ \A w \in DOMAIN n.windows :
           /\ \A t \in TabsOf(n.windows[w]) :
                /\ \E p \in n.tabs[t] : ~ IsDead(n, p)
                /\ \/ n.removing # {}
                   \/ /\ n.tabs[t] \subseteq n.panes
                      /\ \A p \in n.tabs[t] : ~ IsDead(n, p)
      /\ DOMAIN n.tabs = DOMAIN m.tabs
      /\ \A t \in DOMAIN n.tabs : n.tabs[t] \subseteq m.tabs[t]
      /\ m.removing \subseteq n.removing
      /\ n.panes = m.panes
      /\ \A p : IsDead(n, p) <=> IsDead(m, p)
  BY WindowsPruned
<1>2. \A t \in dead : t \in DOMAIN n.tabs /\ \A p \in n.tabs[t] : IsDead(n, p)
  OBVIOUS
<1>3. \A w \in DOMAIN n.windows : w \notin bare => n.windows[w].tabs # <<>>
  OBVIOUS
<1> HIDE DEF dead, bare
<1>4. /\ Consistent(kept)
      /\ DOMAIN kept.windows = DOMAIN n.windows
      /\ \A w \in DOMAIN n.windows :
           TabsOf(kept.windows[w]) = TabsOf(n.windows[w]) \ dead
      /\ DOMAIN kept.tabs = DOMAIN n.tabs \ dead
      /\ \A t \in DOMAIN kept.tabs : kept.tabs[t] = n.tabs[t]
      /\ kept.panes = n.panes \ P
      /\ kept.removing = n.removing
      /\ \A p \in Pane \ P : IsDead(kept, p) <=> IsDead(n, p)
  <2>1. Consistent(n) /\ kept = RemoveEachTab(n, dead)
    BY <1>1
  <2>2. P = PanesInTabs(n, dead \cap DOMAIN n.tabs)
    OBVIOUS
  <2> HIDE DEF kept, P
  <2> QED BY <2>1, <2>2, TabsUnregistered
<1> HIDE DEF kept
<1>5. /\ Consistent(o)
      /\ DOMAIN o.windows = DOMAIN kept.windows \ bare
      /\ \A w \in DOMAIN o.windows : o.windows[w] = kept.windows[w]
      /\ o.tabs = kept.tabs /\ o.panes = kept.panes
      /\ o.removing = kept.removing
      /\ \A p : IsDead(o, p) <=> IsDead(kept, p)
  <2>1. Consistent(kept) /\ o = WithoutWindows(kept, bare)
    BY <1>4
  <2> HIDE DEF o
  <2> QED BY <2>1, WindowsUnregistered
<1>6. s = Announce(o)
  BY <1>0 DEF WithoutBareWindows, WithoutDeadTabs, o, kept, dead, bare
<1> HIDE DEF o
<1>7. /\ Consistent(s) /\ Told(s)
      /\ s.windows = o.windows /\ s.tabs = o.tabs
      /\ s.panes = o.panes /\ s.removing = o.removing
      /\ \A p : IsDead(s, p) <=> IsDead(o, p)
  BY <1>5, <1>6, Announced
(* The tabs in windows are none of the dead ones. *)
<1>8. \A w \in DOMAIN n.windows :
        /\ TabsOf(n.windows[w]) \cap dead = {}
        /\ TabsOf(n.windows[w]) \subseteq DOMAIN n.tabs
  BY <1>1, <1>2 DEF Consistent, Homes
<1>9. ASSUME NEW t \in DOMAIN n.tabs \ dead
      PROVE  n.tabs[t] \cap P = {}
  BY <1>1, <1>2 DEF Consistent, Homes, P, PanesInTabs
<1>10. \A t \in DOMAIN n.tabs : n.tabs[t] \subseteq Pane
  BY <1>1, Parts DEF Consistent
<1> HIDE DEF P
<1>11. ASSUME s.removing = {} PROVE Clean(s)
  <2>1. SUFFICES ASSUME NEW w \in DOMAIN s.windows
                 PROVE  /\ s.windows[w].tabs # <<>>
                        /\ \A t \in TabsOf(s.windows[w]) :
                             /\ s.tabs[t] # {} /\ s.tabs[t] \subseteq s.panes
                             /\ \A p \in s.tabs[t] : ~ IsDead(s, p)
    BY DEF Clean
  <2>2. /\ w \in DOMAIN n.windows /\ n.windows[w].tabs # <<>>
        /\ TabsOf(s.windows[w]) = TabsOf(n.windows[w])
    <3>1. /\ w \in DOMAIN o.windows /\ s.windows[w] = o.windows[w]
          /\ DOMAIN o.windows = DOMAIN kept.windows \ bare
          /\ o.windows[w] = kept.windows[w]
      BY <1>5, <1>7, <2>1
    <3>2. w \in DOMAIN n.windows /\ w \notin bare
      BY <1>4, <3>1
    <3>3. TabsOf(kept.windows[w]) = TabsOf(n.windows[w]) \ dead
      BY <1>4, <3>2
    <3>4. TabsOf(n.windows[w]) \cap dead = {}
      BY <1>8, <3>2
    <3>5. n.windows[w].tabs # <<>>
      BY <1>3, <3>2
    <3> QED BY <3>1, <3>2, <3>3, <3>4, <3>5
  <2>3. n.windows[w].tabs \in Seq(Tab) /\ s.windows[w].tabs \in Seq(Tab)
    BY <1>1, <1>7, <2>1, <2>2, Parts DEF Consistent, Windows
  <2>4. s.windows[w].tabs # <<>>
    BY <2>2, <2>3, SetOfSeq DEF TabsOf
  <2>5. ASSUME NEW t \in TabsOf(s.windows[w])
        PROVE  /\ s.tabs[t] # {} /\ s.tabs[t] \subseteq s.panes
               /\ \A p \in s.tabs[t] : ~ IsDead(s, p)
    <3>1. t \in DOMAIN n.tabs \ dead
      BY <1>8, <2>2, <2>5
    <3>2. s.tabs[t] = n.tabs[t]
      BY <1>4, <1>5, <1>7, <3>1
    <3>6. n.removing = {}
      BY <1>4, <1>5, <1>7, <1>11
    <3>3. /\ n.tabs[t] # {} /\ n.tabs[t] \subseteq n.panes
          /\ \A p \in n.tabs[t] : ~ IsDead(n, p)
      BY <1>1, <2>2, <2>5, <3>6
    <3>4. s.panes = n.panes \ P
      BY <1>4, <1>5, <1>7
    <3>5. \A p \in n.tabs[t] : p \in Pane \ P
      BY <1>9, <1>10, <3>1
    <3> QED BY <1>4, <1>5, <1>7, <3>2, <3>3, <3>4, <3>5
  <2> QED BY <2>4, <2>5
<1>12. Remains(m, s)
  <2>1. P \subseteq PanesInTabs(m, DOMAIN m.tabs)
    BY <1>1 DEF P, PanesInTabs
  <2>2. \A p \in Pane \ PanesInTabs(m, DOMAIN m.tabs) : p \in Pane \ P
    BY <2>1
  <2>3. \A p \in Pane \ P :
          (p \in m.panes => p \in s.panes) /\ (IsDead(s, p) <=> IsDead(m, p))
    BY <1>1, <1>4, <1>5, <1>7
  <2>4. /\ DOMAIN s.tabs \subseteq DOMAIN m.tabs
        /\ \A t \in DOMAIN s.tabs : s.tabs[t] \subseteq m.tabs[t]
    BY <1>1, <1>4, <1>5, <1>7
  <2>5. m.removing \subseteq s.removing
    BY <1>1, <1>4, <1>5, <1>7
  <2> QED BY <2>2, <2>3, <2>4, <2>5 DEF Remains
<1> QED BY <1>7, <1>11, <1>12

(* prune_dead_windows: with no Activity held, it sweeps. *)
LEMMA IsPruned ==
  ASSUME NEW m, Consistent(m), NEW held, NEW n \in Pruned(m, held)
  PROVE  /\ Consistent(n) /\ Remains(m, n)
         /\ held = {} => /\ Clean(n) \/ n.removing # {}
                         /\ Told(n)
<1>1. CASE held = {}
  <2>1. n \in Sweep(m)
    BY <1>1 DEF Pruned
  <2> QED BY <2>1, IsSwept
<1>2. CASE held # {}
  <2>1. n = m
    BY <1>2 DEF Pruned
  <2> QED BY <1>2, <2>1 DEF Remains
<1> QED BY <1>1, <1>2

LEMMA DomainDetached ==
  ASSUME NEW m, Consistent(m), NEW held, NEW n \in Detached(m, held)
  PROVE  /\ Consistent(n) /\ m.removing \subseteq n.removing
         /\ held = {} => /\ Clean(n) \/ n.removing # {}
                         /\ Told(n)
<1>1. PICK o \in TakeOut(m, Remote) :
        n \in Pruned(RemovePanes(o, m.panes \cap Remote), held)
  BY DEF Detached
<1> DEFINE q == RemovePanes(o, m.panes \cap Remote)
<1>2. Consistent(o) /\ m.removing \subseteq o.removing
  BY SomeTakenOut
<1>3. Consistent(q) /\ q.removing = o.removing
  BY <1>2, PanesRemoved
<1> HIDE DEF q
<1>4. n \in Pruned(q, held)
  BY <1>1 DEF q
<1> QED BY <1>2, <1>3, <1>4, IsPruned DEF Remains

LEMMA WindowRemoved ==
  ASSUME NEW m, Consistent(m), NEW w \in DOMAIN m.windows, NEW held,
         NEW n \in RemoveWindow(m, w, held)
  PROVE  Consistent(n) /\ m.removing \subseteq n.removing
<1> DEFINE o == WithoutWindows(m, {w})
           inside == ToSet(m.windows[w].tabs)
<1>1. Consistent(o) /\ o.removing = m.removing
  BY WindowsUnregistered
<1> HIDE DEF o
<1>2. PICK q : q \in {o} \cup Detached(o, held) /\ n = RemoveEachTab(q, inside)
  BY DEF RemoveWindow, o
<1> HIDE DEF inside
<1>3. Consistent(q) /\ m.removing \subseteq q.removing
  BY <1>1, <1>2, DomainDetached
<1>4. Consistent(n) /\ n.removing = q.removing
  BY <1>2, <1>3, TabsUnregistered
<1> QED BY <1>3, <1>4

-----------------------------------------------------------------------------
(* Panes, tabs and windows are added and moved.                            *)

SamePanes(m, n) ==
  /\ n.panes = m.panes /\ n.process = m.process
  /\ n.removing = m.removing /\ n.told = m.told

(* The panes of one tab are replaced. *)
LEMMA TabChanged ==
  ASSUME NEW m, Consistent(m), NEW t \in DOMAIN m.tabs, NEW P \in SUBSET Pane,
         \A u \in DOMAIN m.tabs \ {t} : m.tabs[u] \cap P = {},
         NEW n, n = [m EXCEPT !.tabs[t] = P]
  PROVE  /\ Consistent(n) /\ n.windows = m.windows
         /\ DOMAIN n.tabs = DOMAIN m.tabs
         /\ \A u \in DOMAIN m.tabs : n.tabs[u] = IF u = t THEN P ELSE m.tabs[u]
         /\ SamePanes(m, n)
<1> DEFINE tabs == [m.tabs EXCEPT ![t] = P]
<1>1. m \in MuxStates /\ Homes(m)
  BY DEF Consistent
<1>2. m.tabs \in [DOMAIN m.tabs -> SUBSET Pane] /\ DOMAIN m.tabs \subseteq Tab
  BY <1>1, PartialFunctions DEF MuxStates
<1>3. /\ DOMAIN tabs = DOMAIN m.tabs
      /\ tabs \in [DOMAIN m.tabs -> SUBSET Pane]
      /\ \A u \in DOMAIN m.tabs : tabs[u] = IF u = t THEN P ELSE m.tabs[u]
  BY <1>2
<1>4. n = [m EXCEPT !.tabs = tabs]
  OBVIOUS
<1> HIDE DEF tabs
<1>5. tabs \in Partial(Tab, SUBSET Pane)
  BY <1>2, <1>3, PartialFunctions
<1>6. n \in MuxStates /\ n.windows = m.windows /\ n.tabs = tabs /\ SamePanes(m, n)
  BY <1>1, <1>4, <1>5 DEF MuxStates, SamePanes
<1>7. \A u, v \in DOMAIN m.tabs : u = v \/ tabs[u] \cap tabs[v] = {}
  BY <1>1, <1>3 DEF Homes
<1>8. Homes(n)
  BY <1>1, <1>3, <1>6, <1>7 DEF Homes
<1> QED BY <1>3, <1>6, <1>8 DEF Consistent

LEMMA PaneTaken ==
  ASSUME NEW m, Consistent(m), NEW t \in DOMAIN m.tabs, NEW p
  PROVE  LET n == TakePane(m, t, p)
         IN  /\ Consistent(n) /\ n.windows = m.windows
             /\ DOMAIN n.tabs = DOMAIN m.tabs
             /\ \A u \in DOMAIN m.tabs :
                  n.tabs[u] = IF u = t THEN m.tabs[t] \ {p} ELSE m.tabs[u]
             /\ SamePanes(m, n)
<1> DEFINE n == TakePane(m, t, p)
           P == m.tabs[t] \ {p}
<1>1. P \in SUBSET Pane
  BY Parts DEF Consistent
<1>2. \A u \in DOMAIN m.tabs \ {t} : m.tabs[u] \cap P = {}
  BY DEF Consistent, Homes
<1>3. n = [m EXCEPT !.tabs[t] = P]
  BY DEF TakePane
<1> HIDE DEF n, P
<1>4. /\ Consistent(n) /\ n.windows = m.windows
      /\ DOMAIN n.tabs = DOMAIN m.tabs
      /\ \A u \in DOMAIN m.tabs : n.tabs[u] = IF u = t THEN P ELSE m.tabs[u]
      /\ SamePanes(m, n)
  BY <1>1, <1>2, <1>3, TabChanged
<1> QED BY <1>4 DEF n, P

LEMMA PanePut ==
  ASSUME NEW m, Consistent(m), NEW t \in DOMAIN m.tabs, NEW p \in Pane,
         \A u \in DOMAIN m.tabs \ {t} : p \notin m.tabs[u]
  PROVE  LET n == PutPane(m, t, p)
         IN  /\ Consistent(n) /\ n.windows = m.windows
             /\ DOMAIN n.tabs = DOMAIN m.tabs
             /\ \A u \in DOMAIN m.tabs :
                  n.tabs[u] = IF u = t THEN m.tabs[t] \cup {p} ELSE m.tabs[u]
             /\ SamePanes(m, n)
<1> DEFINE n == PutPane(m, t, p)
           P == m.tabs[t] \cup {p}
<1>1. P \in SUBSET Pane
  BY Parts DEF Consistent
<1>2. \A u \in DOMAIN m.tabs \ {t} : m.tabs[u] \cap P = {}
  BY DEF Consistent, Homes
<1>3. n = [m EXCEPT !.tabs[t] = P]
  BY DEF PutPane
<1> HIDE DEF n, P
<1>4. /\ Consistent(n) /\ n.windows = m.windows
      /\ DOMAIN n.tabs = DOMAIN m.tabs
      /\ \A u \in DOMAIN m.tabs : n.tabs[u] = IF u = t THEN P ELSE m.tabs[u]
      /\ SamePanes(m, n)
  BY <1>1, <1>2, <1>3, TabChanged
<1> QED BY <1>4 DEF n, P

LEMMA PaneAdded ==
  ASSUME NEW m, Consistent(m), NEW p \in Pane
  PROVE  LET n == WithPane(m, p)
         IN  /\ Consistent(n) /\ n.windows = m.windows /\ n.tabs = m.tabs
             /\ n.panes = m.panes \cup {p} /\ n.process = m.process
             /\ n.removing = m.removing
<1> DEFINE n == WithPane(m, p)
<1>1. m \in MuxStates /\ Homes(m)
  BY DEF Consistent
<1>2. /\ n \in MuxStates /\ n.windows = m.windows /\ n.tabs = m.tabs
      /\ n.panes = m.panes \cup {p} /\ n.process = m.process
      /\ n.removing = m.removing
  BY <1>1 DEF WithPane, MuxStates
<1> HIDE DEF n
<1> QED BY <1>1, <1>2 DEF Consistent, Homes, n

LEMMA ChildAdded ==
  ASSUME NEW m, Consistent(m), NEW p \in Pane
  PROVE  LET n == WithChild(m, p)
         IN  /\ Consistent(n) /\ n.windows = m.windows /\ n.tabs = m.tabs
             /\ n.panes = m.panes \cup {p} /\ n.removing = m.removing
             /\ \A q \in Pane : IsDead(n, q) <=> q # p /\ IsDead(m, q)
<1> DEFINE o == WithPane(m, p)
           n == WithChild(m, p)
<1>1. /\ Consistent(o) /\ o.windows = m.windows /\ o.tabs = m.tabs
      /\ o.panes = m.panes \cup {p} /\ o.process = m.process
      /\ o.removing = m.removing
  BY PaneAdded
<1>2. n = [o EXCEPT !.process[p] = "running"]
  BY DEF WithChild
<1> HIDE DEF o, n
<1>3. /\ n \in MuxStates /\ n.windows = o.windows /\ n.tabs = o.tabs
      /\ n.panes = o.panes /\ n.process = [o.process EXCEPT ![p] = "running"]
      /\ n.removing = o.removing
  BY <1>1, <1>2 DEF Consistent, MuxStates
<1>4. Homes(n)
  BY <1>1, <1>3 DEF Consistent, Homes
<1>5. \A q \in Pane : IsDead(n, q) <=> q # p /\ IsDead(m, q)
  <2>1. m.process \in [Pane -> {"running", "held", "dead"}]
    BY Parts DEF Consistent
  <2> QED BY <1>1, <1>3, <2>1 DEF IsDead
<1> QED BY <1>1, <1>3, <1>4, <1>5 DEF Consistent, n

LEMMA TabAdded ==
  ASSUME NEW m, Consistent(m), NEW t \in Tab \ DOMAIN m.tabs,
         NEW P \in SUBSET Pane, \A u \in DOMAIN m.tabs : m.tabs[u] \cap P = {}
  PROVE  LET n == WithTab(m, t, P)
         IN  /\ Consistent(n) /\ n.windows = m.windows
             /\ DOMAIN n.tabs = DOMAIN m.tabs \cup {t}
             /\ n.tabs[t] = P
             /\ \A u \in DOMAIN m.tabs : n.tabs[u] = m.tabs[u]
             /\ SamePanes(m, n)
<1> DEFINE n == WithTab(m, t, P)
           tabs == [x \in DOMAIN m.tabs \cup {t} |->
                      IF x = t THEN P ELSE m.tabs[x]]
<1>1. m \in MuxStates /\ Homes(m)
  BY DEF Consistent
<1>2. /\ DOMAIN tabs = DOMAIN m.tabs \cup {t} /\ tabs[t] = P
      /\ \A u \in DOMAIN m.tabs : tabs[u] = m.tabs[u]
      /\ DOMAIN tabs \subseteq Tab
      /\ \A u \in DOMAIN tabs : tabs[u] \subseteq Pane
  BY <1>1, Parts
<1>3. tabs \in Partial(Tab, SUBSET Pane)
  <2>1. tabs = [x \in DOMAIN tabs |-> tabs[x]]
    OBVIOUS
  <2> HIDE DEF tabs
  <2> QED BY <1>2, <2>1, PartialFunctions
<1>4. n = [m EXCEPT !.tabs = tabs]
  BY DEF WithTab
<1> HIDE DEF n, tabs
<1>5. n \in MuxStates /\ n.windows = m.windows /\ n.tabs = tabs /\ SamePanes(m, n)
  BY <1>1, <1>3, <1>4 DEF MuxStates, SamePanes
<1>6. \A u, v \in DOMAIN tabs : u = v \/ tabs[u] \cap tabs[v] = {}
  BY <1>1, <1>2 DEF Homes
<1>7. Homes(n)
  BY <1>1, <1>2, <1>5, <1>6 DEF Homes
<1> QED BY <1>2, <1>5, <1>7 DEF Consistent, n

LEMMA WindowAdded ==
  ASSUME NEW m, Consistent(m), NEW w \in Window \ DOMAIN m.windows
  PROVE  LET n == WithWindow(m, w)
         IN  /\ Consistent(n)
             /\ DOMAIN n.windows = DOMAIN m.windows \cup {w}
             /\ TabsOf(n.windows[w]) = {}
             /\ \A v \in DOMAIN m.windows : n.windows[v] = m.windows[v]
             /\ n.tabs = m.tabs /\ SamePanes(m, n)
<1> DEFINE n == WithWindow(m, w)
           windows == [x \in DOMAIN m.windows \cup {w} |->
                         IF x = w THEN EmptyWindow ELSE m.windows[x]]
<1>1. m \in MuxStates /\ Homes(m)
  BY DEF Consistent
<1>2. EmptyWindow \in Windows(Tab) /\ Sound(EmptyWindow) /\ TabsOf(EmptyWindow) = {}
  <2>1. <<>> \in Seq(Tab) /\ IsInjective(<<>>)
    BY EmptySeq DEF IsInjective
  <2>2. ToSet(<<>>) = {}
    BY <2>1, SetOfSeq
  <2> QED BY <2>1, <2>2 DEF EmptyWindow, Windows, Sound, TabsOf
<1> HIDE DEF EmptyWindow
<1>3. /\ DOMAIN windows = DOMAIN m.windows \cup {w} /\ windows[w] = EmptyWindow
      /\ \A v \in DOMAIN m.windows : windows[v] = m.windows[v]
      /\ DOMAIN windows \subseteq Window
      /\ \A v \in DOMAIN windows : windows[v] \in Windows(Tab)
  BY <1>1, <1>2, Parts
<1>4. windows \in Partial(Window, Windows(Tab))
  <2>1. windows = [x \in DOMAIN windows |-> windows[x]]
    OBVIOUS
  <2> HIDE DEF windows
  <2> QED BY <1>3, <2>1, PartialFunctions
<1>5. n = [m EXCEPT !.windows = windows]
  BY DEF WithWindow
<1> HIDE DEF n, windows
<1>6. n \in MuxStates /\ n.windows = windows /\ n.tabs = m.tabs /\ SamePanes(m, n)
  BY <1>1, <1>4, <1>5 DEF MuxStates, SamePanes
<1>7. Homes(n)
  BY <1>1, <1>2, <1>3, <1>6 DEF Homes
<1> QED BY <1>2, <1>3, <1>6, <1>7 DEF Consistent, n

(* A window's list is replaced by one with tabs that are in no other. *)
LEMMA ListChanged ==
  ASSUME NEW m, Consistent(m), NEW w \in DOMAIN m.windows,
         NEW list \in Windows(Tab), Sound(list),
         TabsOf(list) \subseteq DOMAIN m.tabs,
         \A v \in DOMAIN m.windows \ {w} :
           TabsOf(m.windows[v]) \cap TabsOf(list) = {},
         NEW n, n = [m EXCEPT !.windows[w] = list]
  PROVE  /\ Consistent(n) /\ DOMAIN n.windows = DOMAIN m.windows
         /\ \A v \in DOMAIN m.windows :
              n.windows[v] = IF v = w THEN list ELSE m.windows[v]
         /\ n.tabs = m.tabs /\ SamePanes(m, n)
<1> DEFINE windows == [m.windows EXCEPT ![w] = list]
<1>1. m \in MuxStates /\ Homes(m)
  BY DEF Consistent
<1>2. /\ m.windows \in [DOMAIN m.windows -> Windows(Tab)]
      /\ DOMAIN m.windows \subseteq Window
  BY <1>1, PartialFunctions DEF MuxStates
<1>3. /\ DOMAIN windows = DOMAIN m.windows
      /\ windows \in [DOMAIN m.windows -> Windows(Tab)]
      /\ \A v \in DOMAIN m.windows :
           windows[v] = IF v = w THEN list ELSE m.windows[v]
  BY <1>2
<1>4. n = [m EXCEPT !.windows = windows]
  OBVIOUS
<1> HIDE DEF windows
<1>5. windows \in Partial(Window, Windows(Tab))
  BY <1>2, <1>3, PartialFunctions
<1>6. n \in MuxStates /\ n.windows = windows /\ n.tabs = m.tabs /\ SamePanes(m, n)
  BY <1>1, <1>4, <1>5 DEF MuxStates, SamePanes
<1>7. Homes(n)
  BY <1>1, <1>3, <1>6 DEF Homes
<1> QED BY <1>3, <1>6, <1>7 DEF Consistent
=============================================================================

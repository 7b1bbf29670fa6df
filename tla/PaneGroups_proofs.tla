-------------------------- MODULE PaneGroups_proofs --------------------------
(***************************************************************************)
(* Proofs about PaneGroups, for any set of panes.  TypeOK,                 *)
(* GroupsAreSubtrees and StacksShowOneUnit are inductive together: a group *)
(* or stack stays one subtree because the operations move whole units, and *)
(* whole units move because groups and stacks are disjoint subtrees.       *)
(*                                                                         *)
(* Each operation is an operator on layouts, so that its lemma speaks of   *)
(* layouts only and the invariance proof puts the lemmas together.         *)
(***************************************************************************)
EXTENDS PaneGroups, TLAPS

Fit(s) == WellFormed(s) /\ GroupsFit(s) /\ StacksFit(s)

(* The units of a layout are its groups and its panes that are in none.    *)
LEMMA UnitsAre ==
  ASSUME NEW s, WellFormed(s), GroupsFit(s)
  PROVE  \A u : u \in Units(s) <=>
           \/ u \in s.groups
           \/ \E p \in Panes(s) : u = {p} /\ ~InGroup(s, p)
<1>1. ASSUME NEW p \in Panes(s), NEW g \in s.groups, p \in g
      PROVE  UnitOf(s, p) = g
  <2>1. g \subseteq Panes(s)
    BY DEF GroupsFit, Panes
  <2>2. \A h \in s.groups : p \in h => h = g
    BY <1>1 DEF GroupsFit
  <2> QED
    BY <1>1, <2>1, <2>2 DEF UnitOf
<1>2. ASSUME NEW p \in Panes(s), ~InGroup(s, p)
      PROVE  UnitOf(s, p) = {p}
  BY <1>2 DEF UnitOf, InGroup
<1>3. \A g \in s.groups : \E p \in Panes(s) : p \in g
  BY DEF GroupsFit, Panes
<1> QED
  BY <1>1, <1>2, <1>3 DEF Units, InGroup

(* Units are subtrees, hence not empty, and no two of them share a pane.   *)
LEMMA UnitsDisjoint ==
  ASSUME NEW s, WellFormed(s), GroupsFit(s)
  PROVE  /\ \A u \in Units(s) : u \in s.subtrees /\ u # {} /\ u \subseteq Panes(s)
         /\ \A u, v \in Units(s) : u = v \/ u \cap v = {}
<1>0. \A u \in Units(s) : u \in s.groups \/ \E p \in Panes(s) : u = {p} /\ ~InGroup(s, p)
  BY UnitsAre
<1>1. \A u \in Units(s) : u \in s.subtrees
  BY <1>0 DEF GroupsFit, WellFormed
<1>2. \A S \in s.subtrees : S # {} /\ S \subseteq Panes(s)
  BY DEF WellFormed, Layout, Panes
<1>3. \A u, v \in Units(s) : u = v \/ u \cap v = {}
  BY <1>0 DEF GroupsFit, InGroup
<1> QED
  BY <1>1, <1>2, <1>3

(* A pane belongs to its unit, and only to that one.                       *)
LEMMA UnitOfPane ==
  ASSUME NEW s, WellFormed(s), GroupsFit(s), NEW p \in Panes(s)
  PROVE  /\ UnitOf(s, p) \in Units(s) /\ p \in UnitOf(s, p)
         /\ \A u \in Units(s) : p \in u => u = UnitOf(s, p)
<1>1. UnitOf(s, p) \in Units(s) /\ p \in UnitOf(s, p)
  BY DEF Units, UnitOf
<1> QED
  BY <1>1, UnitsDisjoint

(* A unit whose panes stay and join no new group is a unit afterwards.     *)
LEMMA UnitKept ==
  ASSUME NEW s, WellFormed(s), GroupsFit(s),
         NEW t, WellFormed(t), GroupsFit(t),
         NEW u \in Units(s), u \subseteq Panes(t),
         u \in s.groups => u \in t.groups,
         \A g \in t.groups : g \in s.groups \/ g \cap u = {}
  PROVE  u \in Units(t)
<1>1. u \in s.groups \/ \E p \in Panes(s) : u = {p} /\ ~InGroup(s, p)
  BY UnitsAre
<1>2. CASE u \in s.groups
  BY <1>2, UnitsAre
<1>3. ASSUME NEW p \in Panes(s), u = {p}, ~InGroup(s, p)
      PROVE  u \in Units(t)
  <2>1. p \in Panes(t) /\ ~InGroup(t, p)
    BY <1>3 DEF InGroup
  <2> QED
    BY <1>3, <2>1, UnitsAre
<1> QED
  BY <1>1, <1>2, <1>3

(* A stack fits as it did if its slot and its units stay and none of its   *)
(* panes is hidden or shown.                                               *)
LEMMA StackKept ==
  ASSUME NEW s, NEW t, NEW k, StackFits(s, k),
         StackPanes(k) \in t.subtrees, k.units \subseteq Units(t),
         \A p \in StackPanes(k) : p \in s.hidden <=> p \in t.hidden
  PROVE  StackFits(t, k)
<1>1. \A u \in k.units : u \subseteq StackPanes(k)
  BY DEF StackPanes
<1> QED
  BY <1>1 DEF StackFits

(* The panes of a stack are those of whole units: a unit is one of the     *)
(* stack's or shares no pane with it.                                      *)
LEMMA UnitsOfStack ==
  ASSUME NEW s, WellFormed(s), GroupsFit(s), NEW k, StackFits(s, k), NEW u \in Units(s)
  PROVE  u \in k.units \/ u \cap StackPanes(k) = {}
BY UnitsDisjoint DEF StackFits, StackPanes

-----------------------------------------------------------------------------

(* Splitting a pane: its unit grows by the new pane, in its own subtree.   *)
LEMMA InsertFits ==
  ASSUME NEW s, Fit(s), NEW new \in Pane \ Panes(s),
         NEW e \in Panes(s), e \notin s.hidden
  PROVE  Fit(Insert(s, e, new))
<1> DEFINE t == Insert(s, e, new)
           u == UnitOf(s, e)
           joins == u \in s.groups \/ Stacked(s, u)
<1>1. /\ t.subtrees = {IF e \in S THEN S \cup {new} ELSE S : S \in s.subtrees}
                        \cup {{e}, {new}}
      /\ t.hidden = s.hidden
      /\ t.groups = IF joins THEN (s.groups \ {u}) \cup {u \cup {new}} ELSE s.groups
      /\ t.stacks = IF joins THEN RenameIn(s.stacks, u, u \cup {new}) ELSE s.stacks
  BY DEF Insert
<1>2. t = [subtrees |-> t.subtrees, hidden |-> t.hidden, groups |-> t.groups, stacks |-> t.stacks]
  BY DEF Insert
<1> HIDE DEF t
<1>3. /\ \A S \in s.subtrees : e \in S => S \cup {new} \in t.subtrees
      /\ \A S \in s.subtrees : e \notin S => S \in t.subtrees
      /\ \A S \in s.subtrees : new \notin S
  BY <1>1 DEF Panes
<1>4. Panes(t) = Panes(s) \cup {new}
  <2>1. \A S \in t.subtrees : S \subseteq Panes(s) \cup {new}
    BY <1>1 DEF Panes
  <2>2. \A p \in Panes(s) : \E S \in t.subtrees : p \in S
    BY <1>3 DEF Panes
  <2>3. {new} \in t.subtrees
    BY <1>1
  <2> QED
    BY <2>1, <2>2, <2>3 DEF Panes
<1>5. u \in Units(s) /\ e \in u /\ \A v \in Units(s) : e \in v => v = u
  BY UnitOfPane DEF Fit
<1>6. /\ \A v \in Units(s) : v \in s.subtrees /\ v # {} /\ v \subseteq Panes(s)
      /\ \A v, w \in Units(s) : v = w \/ v \cap w = {}
  BY UnitsDisjoint DEF Fit
<1>7. \A g \in s.groups : g \in Units(s)
  BY UnitsAre DEF Fit
<1>8. WellFormed(t)
  <2>1. t.subtrees \subseteq (SUBSET Pane) \ {{}}
    <3>1. \A S \in s.subtrees : S \subseteq Pane /\ S # {}
      BY DEF Fit, WellFormed, Layout
    <3>2. e \in Pane
      BY <3>1 DEF Panes
    <3> QED
      BY <1>1, <3>1, <3>2
  <2>2. t.groups \subseteq SUBSET Pane
    BY <1>1, <1>5, <1>6 DEF Fit, WellFormed, Layout, Panes
  <2>3. t.stacks \subseteq [units : SUBSET SUBSET Pane, shown : SUBSET Pane]
    <3>1. u \cup {new} \subseteq Pane
      BY <1>5, <1>6 DEF Fit, WellFormed, Layout, Panes
    <3>2. ASSUME NEW k \in s.stacks
          PROVE  [units |-> {IF x = u THEN u \cup {new} ELSE x : x \in k.units},
                  shown |-> IF k.shown = u THEN u \cup {new} ELSE k.shown]
                    \in [units : SUBSET SUBSET Pane, shown : SUBSET Pane]
      BY <3>1 DEF Fit, WellFormed, Layout
    <3> QED
      BY <1>1, <3>2 DEF RenameIn, Fit, WellFormed, Layout
  <2>4. t.hidden \subseteq Panes(t) /\ t.hidden \subseteq Pane
    BY <1>1, <1>4 DEF Fit, WellFormed, Layout
  <2>5. \A p \in Panes(t) : {p} \in t.subtrees
    BY <1>1, <1>3, <1>4 DEF Fit, WellFormed
  <2> QED
    BY <1>2, <2>1, <2>2, <2>3, <2>4, <2>5 DEF WellFormed, Layout
<1>9. GroupsFit(t)
  <2>1. CASE joins
    <3>1. t.groups = (s.groups \ {u}) \cup {u \cup {new}}
      BY <1>1, <2>1
    <3>2. u \cup {new} \in t.subtrees /\ new \notin u
      BY <1>3, <1>5, <1>6
    <3>3. \A g \in s.groups \ {u} : g \in t.subtrees /\ g \cap (u \cup {new}) = {}
      BY <1>3, <1>5, <1>6, <1>7
    <3>4. \E p, q \in u \cup {new} : p # q
      BY <1>5, <3>2
    <3>5. t.groups \subseteq t.subtrees
      BY <3>1, <3>2, <3>3
    <3>6. \A g \in t.groups : \E p, q \in g : p # q
      BY <3>1, <3>4 DEF Fit, GroupsFit
    <3>7. \A g, h \in t.groups : g = h \/ g \cap h = {}
      BY <3>1, <3>3 DEF Fit, GroupsFit
    <3> QED
      BY <3>5, <3>6, <3>7 DEF GroupsFit
  <2>2. CASE ~joins
    <3>1. \A g \in s.groups : e \notin g
      BY <1>5, <1>7, <2>2
    <3> QED
      BY <1>1, <1>3, <2>2, <3>1 DEF Fit, GroupsFit
  <2> QED
    BY <2>1, <2>2
<1>10. \A v \in Units(s) : v # u \/ ~joins => v \in Units(t)
  <2> SUFFICES ASSUME NEW v \in Units(s), v # u \/ ~joins
               PROVE  v \in Units(t)
    OBVIOUS
  <2>1. v \subseteq Panes(t)
    BY <1>4, <1>6
  <2>2. v \in s.groups => v \in t.groups
    BY <1>1
  <2>3. \A g \in t.groups : g \in s.groups \/ g \cap v = {}
    BY <1>1, <1>5, <1>6, <1>3
  <2> QED
    BY <1>8, <1>9, <2>1, <2>2, <2>3, UnitKept DEF Fit
<1>11. StacksFit(t)
  <2>1. ASSUME NEW k \in s.stacks, u \notin k.units
        PROVE  StackFits(t, k) /\ e \notin StackPanes(k) /\ new \notin StackPanes(k)
    <3>1. StackFits(s, k)
      BY DEF Fit, StacksFit
    <3>2. e \notin StackPanes(k)
      BY <1>5, <2>1, <3>1, UnitsOfStack DEF Fit
    <3>3. StackPanes(k) \in t.subtrees /\ new \notin StackPanes(k)
      BY <1>3, <3>1, <3>2 DEF StackFits
    <3>4. k.units \subseteq Units(t)
      BY <1>10, <2>1, <3>1 DEF StackFits
    <3> QED
      BY <1>1, <3>1, <3>2, <3>3, <3>4, StackKept
  <2>2. CASE ~joins
    <3>1. \A k \in s.stacks : u \notin k.units
      BY <2>2 DEF Stacked
    <3> QED
      BY <1>1, <2>1, <2>2, <3>1 DEF Fit, StacksFit
  <2>3. CASE joins
    <3> DEFINE w == u \cup {new}
               Renamed(k) == [units |-> {IF x = u THEN w ELSE x : x \in k.units},
                              shown |-> IF k.shown = u THEN w ELSE k.shown]
    <3>1. t.stacks = {Renamed(k) : k \in s.stacks}
      BY <1>1, <2>3 DEF RenameIn
    <3>2. w \in Units(t)
      BY <1>1, <1>8, <1>9, <2>3, UnitsAre
    <3>3. ASSUME NEW k \in s.stacks
          PROVE  /\ StackFits(t, Renamed(k))
                 /\ StackPanes(Renamed(k)) =
                      IF u \in k.units THEN StackPanes(k) \cup {new} ELSE StackPanes(k)
      <4>1. StackFits(s, k)
        BY DEF Fit, StacksFit
      <4>2. CASE u \notin k.units
        <5>1. k.shown # u
          BY <4>1, <4>2 DEF StackFits
        <5>2. Renamed(k).units = k.units /\ Renamed(k).shown = k.shown
          BY <4>2, <5>1
        <5>3. StackFits(t, k)
          BY <2>1, <4>2
        <5> QED
          BY <4>2, <5>2, <5>3 DEF StackFits, StackPanes
      <4>3. CASE u \in k.units
        <5> DEFINE r == Renamed(k)
        <5>1. k.shown = u
          BY <1>5, <4>1, <4>3 DEF StackFits
        <5>2. r.units = (k.units \ {u}) \cup {w} /\ r.shown = w
          BY <4>3, <5>1
        <5> HIDE DEF r
        <5>3. \A x \in k.units : x \in Units(s) /\ new \notin x
          BY <1>3, <1>6, <4>1 DEF StackFits
        <5>4. StackPanes(r) = StackPanes(k) \cup {new}
          BY <4>3, <5>2 DEF StackPanes
        <5>5. StackPanes(r) \in t.subtrees
          <6>1. e \in StackPanes(k) /\ StackPanes(k) \in s.subtrees
            BY <1>5, <4>1, <4>3 DEF StackFits, StackPanes
          <6> QED
            BY <1>3, <5>4, <6>1
        <5>6. r.units \subseteq Units(t)
          BY <1>10, <3>2, <5>2, <5>3
        <5>7. w \in r.units /\ r.units # {w}
          BY <4>1, <5>1, <5>2, <5>3 DEF StackFits
        <5>8. w \cap t.hidden = {}
          BY <1>1, <4>1, <5>1 DEF StackFits, Fit, WellFormed
        <5>9. \A x \in r.units \ {w} : x \subseteq t.hidden
          BY <1>1, <4>1, <5>1, <5>2 DEF StackFits
        <5>10. StackFits(t, r)
          BY <5>2, <5>5, <5>6, <5>7, <5>8, <5>9 DEF StackFits
        <5> QED
          BY <4>3, <5>4, <5>10 DEF r
      <4> QED
        BY <4>2, <4>3
    <3>4. ASSUME NEW j \in s.stacks, NEW k \in s.stacks, j # k
          PROVE  StackPanes(Renamed(j)) \cap StackPanes(Renamed(k)) = {}
      <4>1. StackPanes(j) \cap StackPanes(k) = {}
        BY <3>4 DEF Fit, StacksFit
      <4>2. new \notin StackPanes(j) /\ new \notin StackPanes(k)
        BY <1>3 DEF Fit, StacksFit, StackFits
      <4>3. ~(u \in j.units /\ u \in k.units)
        BY <1>5, <4>1 DEF StackPanes
      <4> QED
        BY <3>3, <4>1, <4>2, <4>3
    <3> HIDE DEF Renamed
    <3>5. \A j, k \in s.stacks :
            Renamed(j) = Renamed(k) \/ StackPanes(Renamed(j)) \cap StackPanes(Renamed(k)) = {}
      BY <3>4
    <3> QED
      BY <3>1, <3>3, <3>5 DEF StacksFit
  <2> QED
    BY <2>2, <2>3
<1> QED
  BY <1>8, <1>9, <1>11 DEF Fit, t

(* Splitting the root: every subtree stays.                                *)
LEMMA InsertAtRootFits ==
  ASSUME NEW s, Fit(s), NEW new \in Pane \ Panes(s)
  PROVE  Fit(InsertAtRoot(s, new))
<1> DEFINE t == InsertAtRoot(s, new)
<1>0. s \in Layout
  BY DEF Fit, WellFormed
<1>1. /\ t.subtrees = s.subtrees \cup {{new}, Panes(s) \cup {new}}
      /\ t.hidden = s.hidden /\ t.groups = s.groups /\ t.stacks = s.stacks
  BY <1>0 DEF InsertAtRoot, Layout
<1>2. \A S \in s.subtrees : S \subseteq Pane /\ S # {} /\ new \notin S
  BY DEF Fit, WellFormed, Layout, Panes
<1>3. t \in Layout
  <2>1. s.subtrees \cup {{new}, Panes(s) \cup {new}} \in SUBSET ((SUBSET Pane) \ {{}})
    BY <1>2 DEF Panes
  <2> QED
    BY <1>0, <2>1 DEF InsertAtRoot, Layout
<1> HIDE DEF t
<1>4. Panes(t) = Panes(s) \cup {new}
  BY <1>1 DEF Panes
<1>5. WellFormed(t)
  BY <1>1, <1>3, <1>4 DEF Fit, WellFormed
<1>6. GroupsFit(t)
  BY <1>1 DEF Fit, GroupsFit
<1>7. \A u \in Units(s) : u \in Units(t)
  <2> SUFFICES ASSUME NEW u \in Units(s)
               PROVE  u \in Units(t)
    OBVIOUS
  <2>1. u \subseteq Panes(t)
    BY <1>4, UnitsDisjoint DEF Fit
  <2> QED
    BY <1>1, <1>5, <1>6, <2>1, UnitKept DEF Fit
<1>8. StacksFit(t)
  BY <1>1, <1>7 DEF Fit, StacksFit, StackFits
<1> QED
  BY <1>5, <1>6, <1>8 DEF Fit, t

-----------------------------------------------------------------------------

(* What is left of the tree when a pane goes.                              *)
LEMMA WithoutFacts ==
  ASSUME NEW s, Fit(s), NEW p \in Panes(s)
  PROVE  /\ Without(s.subtrees, p) \subseteq (SUBSET Pane) \ {{}}
         /\ UNION Without(s.subtrees, p) = Panes(s) \ {p}
         /\ \A S \in s.subtrees : S \ {p} # {} => S \ {p} \in Without(s.subtrees, p)
         /\ \A q \in Panes(s) \ {p} : {q} \in Without(s.subtrees, p)
<1>1. \A S \in s.subtrees : S \subseteq Pane /\ S # {}
  BY DEF Fit, WellFormed, Layout
<1>2. \A q \in Panes(s) : {q} \in s.subtrees
  BY DEF Fit, WellFormed
<1>3. \A S \in s.subtrees : S \ {p} # {} => S \ {p} \in Without(s.subtrees, p)
  BY DEF Without
<1>4. \A q \in Panes(s) \ {p} : {q} \in Without(s.subtrees, p)
  <2> SUFFICES ASSUME NEW q \in Panes(s) \ {p}
               PROVE  {q} \in Without(s.subtrees, p)
    OBVIOUS
  <2>1. {q} = {q} \ {p} /\ {q} # {}
    OBVIOUS
  <2> QED
    BY <1>2, <1>3, <2>1
<1>5. Without(s.subtrees, p) \subseteq (SUBSET Pane) \ {{}}
  BY <1>1 DEF Without
<1>6. UNION Without(s.subtrees, p) = Panes(s) \ {p}
  <2>1. \A S \in Without(s.subtrees, p) : S \subseteq Panes(s) \ {p}
    BY DEF Without, Panes
  <2> QED
    BY <1>4, <2>1
<1> QED
  BY <1>3, <1>4, <1>5, <1>6

(* A pane that is alone in its unit and in no stack goes, or one of        *)
(* several in its unit: the unit keeps its place under the panes left.     *)
LEMMA ShrinkFits ==
  ASSUME NEW s, Fit(s), NEW p \in Panes(s),
         UnitOf(s, p) # {p} \/ ~Stacked(s, UnitOf(s, p))
  PROVE  /\ Fit(Shrink(s, UnitOf(s, p), p))
         /\ Panes(Shrink(s, UnitOf(s, p), p)) = Panes(s) \ {p}
<1> DEFINE u == UnitOf(s, p)
           w == u \ {p}
           t == Shrink(s, u, p)
           Renamed(k) == [units |-> {IF x = u THEN w ELSE x : x \in k.units},
                          shown |-> IF k.shown = u THEN w ELSE k.shown]
<1>1. /\ t.subtrees = Without(s.subtrees, p)
      /\ t.hidden = s.hidden \ {p}
      /\ t.groups = (s.groups \ {u}) \cup AsGroup(w)
      /\ t.stacks = {Renamed(k) : k \in s.stacks}
  BY DEF Shrink, RenameIn
<1>2. t = [subtrees |-> t.subtrees, hidden |-> t.hidden, groups |-> t.groups, stacks |-> t.stacks]
  BY DEF Shrink
<1> HIDE DEF t
<1>3. /\ t.subtrees \subseteq (SUBSET Pane) \ {{}}
      /\ Panes(t) = Panes(s) \ {p}
      /\ \A S \in s.subtrees : S \ {p} # {} => S \ {p} \in t.subtrees
      /\ \A q \in Panes(t) : {q} \in t.subtrees
  <2>1. Panes(t) = UNION Without(s.subtrees, p)
    BY <1>1 DEF Panes
  <2>2. /\ Without(s.subtrees, p) \subseteq (SUBSET Pane) \ {{}}
        /\ UNION Without(s.subtrees, p) = Panes(s) \ {p}
        /\ \A S \in s.subtrees : S \ {p} # {} => S \ {p} \in Without(s.subtrees, p)
        /\ \A q \in Panes(s) \ {p} : {q} \in Without(s.subtrees, p)
    BY WithoutFacts
  <2> QED
    BY <1>1, <2>1, <2>2
<1>4. u \in Units(s) /\ p \in u /\ \A v \in Units(s) : p \in v => v = u
  BY UnitOfPane DEF Fit
<1>5. /\ \A v \in Units(s) : v \in s.subtrees /\ v # {} /\ v \subseteq Panes(s)
      /\ \A v, x \in Units(s) : v = x \/ v \cap x = {}
  BY UnitsDisjoint DEF Fit
<1>6. \A g \in s.groups : g \in Units(s)
  BY UnitsAre DEF Fit
<1>7. \A v \in Units(s) \ {u} : v \in t.subtrees /\ v \cap u = {} /\ v \subseteq Panes(t)
  <2> SUFFICES ASSUME NEW v \in Units(s) \ {u}
               PROVE  v \in t.subtrees /\ v \cap u = {} /\ v \subseteq Panes(t)
    OBVIOUS
  <2>1. v \cap u = {} /\ v \ {p} = v
    BY <1>4, <1>5
  <2> QED
    BY <1>3, <1>5, <2>1
<1>8. /\ \A g \in t.groups : g \in s.groups \ {u} \/ (g = w /\ \E q, r \in w : q # r)
      /\ (\E q, r \in w : q # r) => w \in t.groups
      /\ s.groups \ {u} \subseteq t.groups
  <2>1. CASE \E q, r \in w : q # r
    <3>1. AsGroup(w) = {w}
      BY <2>1 DEF AsGroup
    <3> QED
      BY <1>1, <2>1, <3>1
  <2>2. CASE \A q, r \in w : q = r
    <3>1. AsGroup(w) = {}
      BY <2>2 DEF AsGroup
    <3> QED
      BY <1>1, <2>2, <3>1
  <2> QED
    BY <2>1, <2>2
<1>9. WellFormed(t)
  <2>1. t.groups \subseteq SUBSET Pane
    <3>1. w \subseteq Pane /\ \A g \in s.groups : g \subseteq Pane
      BY <1>4, <1>5 DEF Fit, WellFormed, Layout, Panes
    <3> QED
      BY <1>8, <3>1
  <2>2. \A k \in s.stacks : Renamed(k) \in [units : SUBSET SUBSET Pane, shown : SUBSET Pane]
    <3>1. w \subseteq Pane
      BY <1>4, <1>5 DEF Fit, WellFormed, Layout, Panes
    <3> QED
      BY <3>1 DEF Fit, WellFormed, Layout
  <2>3. t.stacks \subseteq [units : SUBSET SUBSET Pane, shown : SUBSET Pane]
    BY <1>1, <2>2
  <2>4. t.hidden \subseteq Panes(t) /\ t.hidden \subseteq Pane
    BY <1>1, <1>3 DEF Fit, WellFormed, Layout
  <2> QED
    BY <1>2, <1>3, <2>1, <2>3, <2>4 DEF WellFormed, Layout
<1>10. GroupsFit(t)
  <2>1. \A g \in t.groups : \E q, r \in g : q # r
    BY <1>8 DEF Fit, GroupsFit
  <2>2. \A g \in t.groups : g \in t.subtrees
    <3>1. w # {} => w \in t.subtrees
      BY <1>3, <1>4, <1>5
    <3> QED
      BY <1>6, <1>7, <1>8, <3>1
  <2>3. \A g, h \in t.groups : g = h \/ g \cap h = {}
    <3>1. \A g \in s.groups \ {u} : g \cap w = {}
      BY <1>6, <1>7
    <3>2. \A g, h \in s.groups : g = h \/ g \cap h = {}
      BY DEF Fit, GroupsFit
    <3> QED
      BY <1>8, <3>1, <3>2
  <2> QED
    BY <2>1, <2>2, <2>3 DEF GroupsFit
<1>11. \A v \in Units(s) \ {u} : v \in Units(t)
  <2> SUFFICES ASSUME NEW v \in Units(s) \ {u}
               PROVE  v \in Units(t)
    OBVIOUS
  <2>1. v \in s.groups => v \in t.groups
    BY <1>8
  <2>2. \A g \in t.groups : g \in s.groups \/ g \cap v = {}
    BY <1>7, <1>8
  <2> QED
    BY <1>7, <1>9, <1>10, <2>1, <2>2, UnitKept DEF Fit
<1>12. w # {} => w \in Units(t)
  <2>1. CASE \E q, r \in w : q # r
    <3>1. w \in t.groups
      BY <1>8, <2>1
    <3> QED
      BY <1>9, <1>10, <3>1, UnitsAre
  <2>2. ASSUME w # {}, \A q, r \in w : q = r
        PROVE  w \in Units(t)
    <3>1. PICK q : w = {q}
      BY <2>2
    <3>2. q \in Panes(t)
      BY <1>3, <1>4, <1>5, <3>1
    <3>3. ~InGroup(t, q)
      BY <1>6, <1>7, <1>8, <2>2, <3>1 DEF InGroup
    <3> QED
      BY <1>9, <1>10, <3>1, <3>2, <3>3, UnitsAre
  <2> QED
    BY <2>1, <2>2
<1>13. ASSUME NEW k \in s.stacks
       PROVE  StackFits(t, Renamed(k)) /\ StackPanes(Renamed(k)) = StackPanes(k) \ {p}
  <2> DEFINE r == Renamed(k)
  <2>1. StackFits(s, k)
    BY DEF Fit, StacksFit
  <2>2. CASE u \notin k.units
    <3>1. r.units = k.units /\ r.shown = k.shown
      BY <2>1, <2>2 DEF StackFits
    <3> HIDE DEF r
    <3>2. p \notin StackPanes(k) /\ StackPanes(r) = StackPanes(k)
      BY <1>4, <2>1, <2>2, <3>1 DEF StackFits, StackPanes
    <3>3. StackPanes(r) \in t.subtrees
      <4>1. StackPanes(k) # {} /\ StackPanes(k) \in s.subtrees
        BY <2>1 DEF StackFits, Fit, WellFormed, Layout
      <4> QED
        BY <1>3, <3>2, <4>1
    <3>4. r.units \subseteq Units(t)
      BY <1>11, <2>1, <2>2, <3>1 DEF StackFits
    <3>5. StackFits(t, r)
      BY <1>1, <2>1, <2>2, <1>4, <3>1, <3>3, <3>4 DEF StackFits
    <3> QED
      BY <3>2, <3>5 DEF r
  <2>3. CASE u \in k.units
    <3>1. w # {}
      BY <1>4, <2>3 DEF Stacked
    <3>2. r.units = (k.units \ {u}) \cup {w} /\ r.shown = IF k.shown = u THEN w ELSE k.shown
      BY <2>3
    <3> HIDE DEF r
    <3>3. \A x \in k.units \ {u} : x \in Units(s) /\ p \notin x /\ x # {} /\ x \cap u = {}
      BY <1>4, <1>5, <2>1 DEF StackFits
    <3>4. StackPanes(r) = StackPanes(k) \ {p}
      BY <1>4, <2>3, <3>2, <3>3 DEF StackPanes
    <3>5. StackPanes(r) \in t.subtrees
      <4>1. w \subseteq StackPanes(k) \ {p} /\ StackPanes(k) \in s.subtrees
        BY <2>1, <2>3 DEF StackFits, StackPanes
      <4> QED
        BY <1>3, <3>1, <3>4, <4>1
    <3>6. r.units \subseteq Units(t)
      BY <1>11, <1>12, <3>1, <3>2, <3>3
    <3>7. r.shown \in r.units /\ r.units # {r.shown}
      <4>1. PICK x \in k.units : x # k.shown
        BY <2>1 DEF StackFits
      <4>2. w \notin k.units \ {u}
        BY <3>1, <3>3
      <4> QED
        BY <2>1, <2>3, <3>2, <4>1, <4>2 DEF StackFits
    <3>8. r.shown \cap t.hidden = {}
      BY <1>1, <2>1, <3>2 DEF StackFits
    <3>9. \A x \in r.units \ {r.shown} : x \subseteq t.hidden
      <4>1. \A x \in k.units \ {k.shown} : x \subseteq s.hidden
        BY <2>1 DEF StackFits
      <4> QED
        BY <1>1, <2>3, <3>2, <3>3, <4>1
    <3>10. StackFits(t, r)
      BY <3>5, <3>6, <3>7, <3>8, <3>9 DEF StackFits
    <3> QED
      BY <3>4, <3>10 DEF r
  <2> QED
    BY <2>2, <2>3
<1> HIDE DEF Renamed
<1>14. StacksFit(t)
  <2>1. \A j, k \in s.stacks : j = k \/ StackPanes(j) \cap StackPanes(k) = {}
    BY DEF Fit, StacksFit
  <2>2. \A j, k \in s.stacks :
          Renamed(j) = Renamed(k) \/ StackPanes(Renamed(j)) \cap StackPanes(Renamed(k)) = {}
    BY <1>13, <2>1
  <2> QED
    BY <1>1, <1>13, <2>2 DEF StacksFit
<1> QED
  BY <1>3, <1>9, <1>10, <1>14 DEF Fit, t

(* The last pane of a stacked unit goes: the unit leaves the stack and     *)
(* `next` is on show from then on.                                         *)
LEMMA LeaveFits ==
  ASSUME NEW s, Fit(s), NEW p \in Panes(s), UnitOf(s, p) = {p},
         NEW k \in s.stacks, {p} \in k.units,
         NEW next \in k.units \ {{p}}, k.shown = {p} \/ next = k.shown
  PROVE  /\ Fit(Leave(s, k, {p}, p, next))
         /\ Panes(Leave(s, k, {p}, p, next)) = Panes(s) \ {p}
<1> DEFINE t == Leave(s, k, {p}, p, next)
           rest == k.units \ {{p}}
           r == [units |-> rest, shown |-> next]
<1>1. /\ t.subtrees = Without(s.subtrees, p)
      /\ t.hidden = (s.hidden \ {p}) \ next
      /\ t.groups = s.groups
      /\ t.stacks = (s.stacks \ {k}) \cup (IF rest = {next} THEN {} ELSE {r})
  BY DEF Leave
<1>2. t = [subtrees |-> t.subtrees, hidden |-> t.hidden, groups |-> t.groups, stacks |-> t.stacks]
  BY DEF Leave
<1> HIDE DEF t
<1>3. /\ t.subtrees \subseteq (SUBSET Pane) \ {{}}
      /\ Panes(t) = Panes(s) \ {p}
      /\ \A S \in s.subtrees : S \ {p} # {} => S \ {p} \in t.subtrees
      /\ \A q \in Panes(t) : {q} \in t.subtrees
  <2>1. Panes(t) = UNION Without(s.subtrees, p)
    BY <1>1 DEF Panes
  <2>2. /\ Without(s.subtrees, p) \subseteq (SUBSET Pane) \ {{}}
        /\ UNION Without(s.subtrees, p) = Panes(s) \ {p}
        /\ \A S \in s.subtrees : S \ {p} # {} => S \ {p} \in Without(s.subtrees, p)
        /\ \A q \in Panes(s) \ {p} : {q} \in Without(s.subtrees, p)
    BY WithoutFacts
  <2> QED
    BY <1>1, <2>1, <2>2
<1>4. {p} \in Units(s) /\ \A v \in Units(s) : p \in v => v = {p}
  <2>1. UnitOf(s, p) \in Units(s) /\ \A v \in Units(s) : p \in v => v = UnitOf(s, p)
    BY UnitOfPane DEF Fit
  <2> QED
    BY <2>1
<1>5. /\ \A v \in Units(s) : v \in s.subtrees /\ v # {} /\ v \subseteq Panes(s)
      /\ \A v, x \in Units(s) : v = x \/ v \cap x = {}
  BY UnitsDisjoint DEF Fit
<1>6. \A g \in s.groups : g \in Units(s)
  BY UnitsAre DEF Fit
<1>7. \A v \in Units(s) \ {{p}} : v \in t.subtrees /\ p \notin v /\ v \subseteq Panes(t)
  <2> SUFFICES ASSUME NEW v \in Units(s) \ {{p}}
               PROVE  v \in t.subtrees /\ p \notin v /\ v \subseteq Panes(t)
    OBVIOUS
  <2>1. p \notin v /\ v \ {p} = v
    BY <1>4
  <2>2. v \in s.subtrees /\ v # {} /\ v \subseteq Panes(s)
    BY <1>5
  <2>3. v \in t.subtrees
    <3>1. \A S \in s.subtrees : S \ {p} # {} => S \ {p} \in t.subtrees
      BY <1>3
    <3>2. v \ {p} # {} => v \ {p} \in t.subtrees
      BY <2>2, <3>1
    <3> QED
      BY <2>1, <2>2, <3>2
  <2>4. v \subseteq Panes(t)
    <3>1. Panes(t) = Panes(s) \ {p}
      BY <1>3
    <3> QED
      BY <2>1, <2>2, <3>1
  <2> QED
    BY <2>1, <2>3, <2>4
<1>8. {p} \notin s.groups
  <2>1. \A g \in s.groups : \E q, o \in g : q # o
    BY DEF Fit, GroupsFit
  <2>2. ~ \E q, o \in {p} : q # o
    OBVIOUS
  <2> QED
    BY <2>1, <2>2
<1>9. WellFormed(t)
  <2>1. s.groups \subseteq SUBSET Pane
    BY DEF Fit, WellFormed, Layout
  <2>2. t.stacks \subseteq [units : SUBSET SUBSET Pane, shown : SUBSET Pane]
    <3>1. s.stacks \subseteq [units : SUBSET SUBSET Pane, shown : SUBSET Pane]
      BY DEF Fit, WellFormed, Layout
    <3>2. r \in [units : SUBSET SUBSET Pane, shown : SUBSET Pane]
      BY <3>1
    <3> QED
      BY <1>1, <3>1, <3>2
  <2>3. t.hidden \subseteq Panes(t) /\ t.hidden \subseteq Pane
    BY <1>1, <1>3 DEF Fit, WellFormed, Layout
  <2> QED
    BY <1>1, <1>2, <1>3, <2>1, <2>2, <2>3 DEF WellFormed, Layout
<1>10. GroupsFit(t)
  BY <1>1, <1>6, <1>7, <1>8 DEF Fit, GroupsFit
<1>11. \A v \in Units(s) \ {{p}} : v \in Units(t)
  BY <1>1, <1>7, <1>9, <1>10, UnitKept DEF Fit
<1>12. StackFits(s, k)
  BY DEF Fit, StacksFit
<1>13. ASSUME NEW j \in s.stacks \ {k}
       PROVE  StackFits(t, j) /\ StackPanes(j) \cap StackPanes(k) = {}
  <2>1. StackFits(s, j) /\ StackPanes(j) \cap StackPanes(k) = {}
    BY DEF Fit, StacksFit
  <2>2. p \in StackPanes(k) /\ next \subseteq StackPanes(k)
    BY DEF StackPanes
  <2>3. StackPanes(j) \ {p} = StackPanes(j) /\ StackPanes(j) # {}
    BY <2>1, <2>2 DEF StackFits, Fit, WellFormed, Layout
  <2>4. StackPanes(j) \in t.subtrees
    BY <1>3, <2>1, <2>3 DEF StackFits
  <2>5. {p} \notin j.units
    BY <2>1, <2>2 DEF StackPanes
  <2>6. j.units \subseteq Units(t)
    BY <1>11, <2>1, <2>5 DEF StackFits
  <2>7. \A q \in StackPanes(j) : q \in s.hidden <=> q \in t.hidden
    BY <1>1, <2>1, <2>2
  <2> QED
    BY <2>1, <2>4, <2>6, <2>7, StackKept
<1>14. \A u \in rest : u \in Units(s) /\ p \notin u /\ u # {}
  BY <1>5, <1>7, <1>12 DEF StackFits
<1>15. StackPanes(r) = StackPanes(k) \ {p}
  BY <1>14 DEF StackPanes
<1>16. ASSUME rest # {next}
       PROVE  StackFits(t, r)
  <2>1. StackPanes(r) \in t.subtrees
    <3>1. StackPanes(k) \ {p} # {} /\ StackPanes(k) \in s.subtrees
      BY <1>12, <1>14, <1>15 DEF StackFits, StackPanes
    <3> QED
      BY <1>3, <1>15, <3>1
  <2>2. r.units \subseteq Units(t)
    BY <1>11, <1>14
  <2>3. r.shown \in r.units /\ r.units # {r.shown}
    BY <1>16
  <2>4. r.shown \cap t.hidden = {}
    BY <1>1
  <2>5. ASSUME NEW u \in r.units \ {r.shown}
        PROVE  u \subseteq t.hidden
    <3>1. u \subseteq s.hidden
      BY <1>12 DEF StackFits
    <3>2. u \cap next = {} /\ p \notin u
      BY <1>5, <1>14
    <3> QED
      BY <1>1, <3>1, <3>2
  <2> QED
    BY <2>1, <2>2, <2>3, <2>4, <2>5 DEF StackFits
<1> HIDE DEF r
<1>17. StacksFit(t)
  <2>1. \A j \in t.stacks : j \in s.stacks \ {k} \/ (j = r /\ rest # {next})
    BY <1>1
  <2>2. \A i, j \in s.stacks : i = j \/ StackPanes(i) \cap StackPanes(j) = {}
    BY DEF Fit, StacksFit
  <2>3. \A j \in s.stacks \ {k} : StackPanes(j) \cap StackPanes(r) = {}
    BY <1>13, <1>15
  <2> QED
    BY <1>13, <1>16, <2>1, <2>2, <2>3 DEF StacksFit
<1> QED
  BY <1>3, <1>9, <1>10, <1>17 DEF Fit, t

(* Closing a pane keeps every other pane and hides none.                   *)
LEMMA ClosingsFit ==
  ASSUME NEW s, Fit(s), NEW p \in Panes(s), NEW t \in Closings(s, p)
  PROVE  /\ Fit(t)
         /\ Panes(t) = Panes(s) \ {p}
         /\ t.hidden \subseteq s.hidden
<1> DEFINE u == UnitOf(s, p)
<1>1. CASE t = Shrink(s, u, p) /\ (u # {p} \/ ~Stacked(s, u))
  <2>1. t.hidden \subseteq s.hidden
    BY <1>1 DEF Shrink
  <2> QED
    BY <1>1, <2>1, ShrinkFits
<1>2. ASSUME NEW k \in s.stacks, u = {p}, u \in k.units,
             NEW next \in k.units \ {u}, k.shown = u \/ next = k.shown,
             t = Leave(s, k, u, p, next)
      PROVE  Fit(t) /\ Panes(t) = Panes(s) \ {p} /\ t.hidden \subseteq s.hidden
  <2>1. t.hidden \subseteq s.hidden
    BY <1>2 DEF Leave
  <2>2. /\ UnitOf(s, p) = {p} /\ {p} \in k.units /\ next \in k.units \ {{p}}
        /\ k.shown = {p} \/ next = k.shown
        /\ t = Leave(s, k, {p}, p, next)
    BY <1>2
  <2>3. Fit(Leave(s, k, {p}, p, next)) /\ Panes(Leave(s, k, {p}, p, next)) = Panes(s) \ {p}
    BY <2>2, LeaveFits
  <2> QED
    BY <2>1, <2>2, <2>3
<1>3. \/ t = Shrink(s, u, p) /\ (u # {p} \/ ~Stacked(s, u))
      \/ \E k \in s.stacks : \E next \in k.units \ {u} :
           /\ u = {p} /\ u \in k.units /\ (k.shown = u \/ next = k.shown)
           /\ t = Leave(s, k, u, p, next)
  <2>1. \A k \in s.stacks : k.shown \in k.units
    BY DEF Fit, StacksFit, StackFits
  <2> QED
    BY <2>1 DEF Closings, Stacked
<1> QED
  BY <1>1, <1>2, <1>3

-----------------------------------------------------------------------------

(* Docking the panes of one unit beside another moves nothing else.        *)
LEMMA DockFacts ==
  ASSUME NEW s, Fit(s), NEW a \in Units(s), NEW b \in Units(s), a # b,
         NEW chain \in Chains(a)
  PROVE  /\ Dock(s.subtrees, a, b, chain) \subseteq (SUBSET Pane) \ {{}}
         /\ UNION Dock(s.subtrees, a, b, chain) = Panes(s)
         /\ \A S \in s.subtrees : b \subseteq S => S \cup a \in Dock(s.subtrees, a, b, chain)
         /\ \A S \in s.subtrees : ~(b \subseteq S) /\ S \cap a = {}
                                    => S \in Dock(s.subtrees, a, b, chain)
         /\ a \in Dock(s.subtrees, a, b, chain) /\ b \in Dock(s.subtrees, a, b, chain)
         /\ \A p \in Panes(s) : {p} \in Dock(s.subtrees, a, b, chain)
<1> DEFINE D == Dock(s.subtrees, a, b, chain)
<1>1. \A S \in s.subtrees : S \subseteq Pane /\ S # {} /\ S \subseteq Panes(s)
  BY DEF Fit, WellFormed, Layout, Panes
<1>2. a \in s.subtrees /\ b \in s.subtrees /\ a \cap b = {} /\ a # {} /\ b # {}
  BY UnitsDisjoint DEF Fit
<1>3. chain \subseteq (SUBSET a) \ {{}} /\ a \in chain /\ \A p \in a : {p} \in chain
  BY DEF Chains
<1>4. D \subseteq (SUBSET Pane) \ {{}} /\ \A S \in D : S \subseteq Panes(s)
  BY <1>1, <1>2, <1>3 DEF Dock
<1>5. \A S \in s.subtrees : b \subseteq S => S \cup a \in D
  BY <1>2 DEF Dock
<1>6. ASSUME NEW S \in s.subtrees, ~(b \subseteq S), S \cap a = {}
      PROVE  S \in D
  <2>1. S \ a = S /\ S # {}
    BY <1>1, <1>6
  <2> QED
    BY <1>6, <2>1 DEF Dock
<1>7. a \in D /\ b \in D
  BY <1>3 DEF Dock
<1>8. ASSUME NEW p \in Panes(s)
      PROVE  {p} \in D
  <2>1. {p} \in s.subtrees
    BY DEF Fit, WellFormed
  <2>2. CASE p \in a
    BY <1>3, <2>2 DEF Dock
  <2>3. CASE p \notin a /\ b = {p}
    BY <1>7, <2>3
  <2>4. CASE p \notin a /\ b # {p}
    BY <1>2, <1>6, <2>1, <2>4
  <2> QED
    BY <2>2, <2>3, <2>4
<1>9. UNION D = Panes(s)
  BY <1>4, <1>8
<1> HIDE DEF D
<1>10. D = Dock(s.subtrees, a, b, chain)
  BY DEF D
<1> QED
  BY <1>4, <1>5, <1>6, <1>7, <1>8, <1>9, <1>10

(* A unit that is in no stack shares no pane with one.                     *)
LEMMA UnstackedApart ==
  ASSUME NEW s, Fit(s), NEW a \in Units(s), ~Stacked(s, a), NEW k \in s.stacks
  PROVE  a \cap StackPanes(k) = {}
<1>1. StackFits(s, k)
  BY DEF Fit, StacksFit
<1> QED
  BY <1>1, UnitsOfStack DEF Fit, Stacked

(* Grouping two units that are in no stack.                                *)
LEMMA GroupedFits ==
  ASSUME NEW s, Fit(s), NEW a \in Units(s), NEW b \in Units(s), a # b,
         ~Stacked(s, a), ~Stacked(s, b), NEW chain \in Chains(a)
  PROVE  Fit(Grouped(s, a, b, chain))
<1> DEFINE t == Grouped(s, a, b, chain)
<1>1. s \in Layout
  BY DEF Fit, WellFormed
<1>2. /\ t.subtrees = IF a \cup b \in s.subtrees THEN s.subtrees ELSE Dock(s.subtrees, a, b, chain)
      /\ t.hidden = s.hidden /\ t.stacks = s.stacks
      /\ t.groups = (s.groups \ {a, b}) \cup {a \cup b}
  BY DEF Grouped
<1>3. t = [subtrees |-> t.subtrees, hidden |-> t.hidden, groups |-> t.groups, stacks |-> t.stacks]
  BY DEF Grouped
<1> HIDE DEF t
<1>5. a \cap b = {} /\ a # {} /\ b # {} /\ a \cup b \subseteq Panes(s) /\ b \in s.subtrees
  BY UnitsDisjoint DEF Fit
<1>6. \A S \in s.subtrees : S \subseteq Pane /\ S # {}
  BY DEF Fit, WellFormed, Layout
<1>7. /\ t.subtrees \subseteq (SUBSET Pane) \ {{}}
      /\ Panes(t) = Panes(s)
      /\ \A S \in s.subtrees : S \cap (a \cup b) = {} => S \in t.subtrees
      /\ a \cup b \in t.subtrees
      /\ \A p \in Panes(s) : {p} \in t.subtrees
  <2>1. CASE a \cup b \in s.subtrees
    <3>1. t.subtrees = s.subtrees
      BY <1>2, <2>1
    <3> QED
      BY <2>1, <3>1, <1>6 DEF Panes, Fit, WellFormed
  <2>2. CASE a \cup b \notin s.subtrees
    <3>1. t.subtrees = Dock(s.subtrees, a, b, chain)
      BY <1>2, <2>2
    <3> DEFINE D == Dock(s.subtrees, a, b, chain)
    <3>2. /\ D \subseteq (SUBSET Pane) \ {{}} /\ UNION D = Panes(s)
          /\ \A S \in s.subtrees : b \subseteq S => S \cup a \in D
          /\ \A S \in s.subtrees : ~(b \subseteq S) /\ S \cap a = {} => S \in D
          /\ \A p \in Panes(s) : {p} \in D
      BY DockFacts
    <3> HIDE DEF D
    <3>3. \A S \in s.subtrees : S \cap (a \cup b) = {} => S \in D
      BY <1>5, <3>2
    <3>4. a \cup b \in D
      BY <1>5, <3>2
    <3> QED
      BY <3>1, <3>2, <3>3, <3>4 DEF D, Panes
  <2> QED
    BY <2>1, <2>2
<1>8. WellFormed(t)
  <2>1. t.groups \subseteq SUBSET Pane
    BY <1>2, <1>5, <1>6 DEF Fit, WellFormed, Layout, Panes
  <2>2. t.hidden \subseteq Panes(t) /\ t.hidden \subseteq Pane
    BY <1>2, <1>7 DEF Fit, WellFormed, Layout
  <2>3. t.stacks \subseteq [units : SUBSET SUBSET Pane, shown : SUBSET Pane]
    BY <1>1, <1>2 DEF Layout
  <2> QED
    BY <1>3, <1>7, <2>1, <2>2, <2>3 DEF WellFormed, Layout
<1>9. \A g \in s.groups \ {a, b} : g \in s.subtrees /\ g \cap (a \cup b) = {}
  <2>1. \A g \in s.groups : g \in Units(s)
    BY UnitsAre DEF Fit
  <2>2. \A u, v \in Units(s) : u = v \/ u \cap v = {}
    BY UnitsDisjoint DEF Fit
  <2> QED
    BY <2>1, <2>2 DEF Fit, GroupsFit
<1>10. GroupsFit(t)
  <2>1. \A g \in t.groups : g \in t.subtrees
    BY <1>2, <1>7, <1>9
  <2>2. \A g \in t.groups : \E p, q \in g : p # q
    BY <1>2, <1>5 DEF Fit, GroupsFit
  <2>3. \A g, h \in t.groups : g = h \/ g \cap h = {}
    BY <1>2, <1>9 DEF Fit, GroupsFit
  <2> QED
    BY <2>1, <2>2, <2>3 DEF GroupsFit
<1>11. ASSUME NEW k \in s.stacks
       PROVE  StackFits(t, k)
  <2>1. StackFits(s, k)
    BY DEF Fit, StacksFit
  <2>2. StackPanes(k) \cap (a \cup b) = {}
    BY UnstackedApart
  <2>3. ASSUME NEW u \in k.units
        PROVE  u \in Units(t)
    <3>1. u \in Units(s) /\ u \cap (a \cup b) = {}
      BY <2>1, <2>2 DEF StackFits, StackPanes
    <3>2. u \subseteq Panes(t) /\ u # {}
      BY <1>7, <3>1, UnitsDisjoint DEF Fit
    <3>3. u \in s.groups => u \in t.groups
      BY <1>2, <1>5, <3>1, <3>2
    <3>4. \A g \in t.groups : g \in s.groups \/ g \cap u = {}
      BY <1>2, <3>1
    <3> QED
      BY <1>8, <1>10, <3>1, <3>2, <3>3, <3>4, UnitKept DEF Fit
  <2>4. StackPanes(k) \in t.subtrees
    BY <1>7, <2>1, <2>2 DEF StackFits
  <2> QED
    BY <1>2, <2>1, <2>3, <2>4, StackKept
<1>12. StacksFit(t)
  BY <1>2, <1>11 DEF Fit, StacksFit
<1> QED
  BY <1>8, <1>10, <1>12 DEF Fit, t

-----------------------------------------------------------------------------

(* A unit on show is docked beside a unit on show and takes its place in   *)
(* front of it, and of the stack that unit belongs to, if any.             *)
LEMMA StackedOnFits ==
  ASSUME NEW s, Fit(s), NEW a \in Units(s), NEW b \in Units(s), a # b,
         ~Stacked(s, a), (a \cup b) \cap s.hidden = {}, NEW chain \in Chains(a)
  PROVE  Fit(StackedOn(s, a, b, chain))
<1> DEFINE t == StackedOn(s, a, b, chain)
           D == Dock(s.subtrees, a, b, chain)
           with == {k \in s.stacks : b \in k.units}
           others == UNION {k.units : k \in with}
           r == [units |-> others \cup {a, b}, shown |-> a]
<1>1. /\ t.subtrees = D
      /\ t.hidden = s.hidden \cup b
      /\ t.groups = s.groups
      /\ t.stacks = (s.stacks \ with) \cup {r}
  BY DEF StackedOn
<1>2. t = [subtrees |-> t.subtrees, hidden |-> t.hidden, groups |-> t.groups, stacks |-> t.stacks]
  BY DEF StackedOn
<1> HIDE DEF t
<1>3. /\ a \cap b = {} /\ a # {} /\ b # {} /\ b \in s.subtrees
      /\ a \subseteq Panes(s) /\ b \subseteq Panes(s)
  BY UnitsDisjoint DEF Fit
<1>4. /\ D \subseteq (SUBSET Pane) \ {{}} /\ UNION D = Panes(s)
      /\ \A S \in s.subtrees : b \subseteq S => S \cup a \in D
      /\ \A S \in s.subtrees : ~(b \subseteq S) /\ S \cap a = {} => S \in D
      /\ a \in D /\ b \in D
      /\ \A p \in Panes(s) : {p} \in D
  BY DockFacts
<1> HIDE DEF D
<1>5. Panes(t) = Panes(s)
  BY <1>1, <1>4 DEF Panes
<1>6. \A k \in s.stacks : StackFits(s, k) /\ a \cap StackPanes(k) = {}
  BY UnstackedApart DEF Fit, StacksFit
<1>7. \A j, k \in s.stacks : j = k \/ StackPanes(j) \cap StackPanes(k) = {}
  BY DEF Fit, StacksFit
<1>8. \A v \in Units(s) : v = a \/ v = b \/ v \cap (a \cup b) = {}
  BY UnitsDisjoint DEF Fit
<1>9. WellFormed(t)
  <2>1. t.groups \subseteq SUBSET Pane
    BY <1>1 DEF Fit, WellFormed, Layout
  <2>2. t.stacks \subseteq [units : SUBSET SUBSET Pane, shown : SUBSET Pane]
    <3>1. s.stacks \subseteq [units : SUBSET SUBSET Pane, shown : SUBSET Pane]
      BY DEF Fit, WellFormed, Layout
    <3>2. a \subseteq Pane /\ b \subseteq Pane
      BY <1>4
    <3>3. r \in [units : SUBSET SUBSET Pane, shown : SUBSET Pane]
      BY <3>1, <3>2
    <3> QED
      BY <1>1, <3>1, <3>3
  <2>3. t.hidden \subseteq Panes(t) /\ t.hidden \subseteq Pane
    BY <1>1, <1>3, <1>4, <1>5 DEF Fit, WellFormed, Layout
  <2> QED
    BY <1>1, <1>2, <1>4, <1>5, <2>1, <2>2, <2>3 DEF WellFormed, Layout
<1>10. GroupsFit(t)
  <2>1. ASSUME NEW g \in s.groups
        PROVE  g \in D
    <3>1. g \in Units(s) /\ g \in s.subtrees /\ g # {}
      BY UnitsAre DEF Fit, GroupsFit
    <3> QED
      BY <1>3, <1>4, <1>8, <3>1
  <2> QED
    BY <1>1, <2>1 DEF Fit, GroupsFit
<1>11. \A v \in Units(s) : v \in Units(t)
  <2> SUFFICES ASSUME NEW v \in Units(s)
               PROVE  v \in Units(t)
    OBVIOUS
  <2>1. v \subseteq Panes(t)
    BY <1>5, UnitsDisjoint DEF Fit
  <2> QED
    BY <1>1, <1>9, <1>10, <2>1, UnitKept DEF Fit
<1>12. ASSUME NEW k \in s.stacks \ with
       PROVE  StackFits(t, k) /\ StackPanes(k) \cap (a \cup b) = {}
  <2>1. StackFits(s, k) /\ StackPanes(k) \cap (a \cup b) = {}
    BY <1>6, UnitsOfStack DEF Fit
  <2>2. StackPanes(k) \in t.subtrees
    BY <1>1, <1>3, <1>4, <2>1 DEF StackFits
  <2>3. k.units \subseteq Units(t)
    BY <1>11, <2>1 DEF StackFits
  <2>4. \A p \in StackPanes(k) : p \in s.hidden <=> p \in t.hidden
    BY <1>1, <2>1
  <2> QED
    BY <2>1, <2>2, <2>3, <2>4, StackKept
<1>13. \A j, k \in with : j = k
  BY <1>3, <1>7 DEF StackPanes
<1>14. /\ StackFits(t, r)
       /\ \A k \in s.stacks \ with : StackPanes(k) \cap StackPanes(r) = {}
  <2>1. CASE with = {}
    <3>1. r.units = {a, b} /\ r.shown = a
      BY <2>1
    <3> HIDE DEF r
    <3>2. StackPanes(r) = a \cup b
      BY <3>1 DEF StackPanes
    <3>3. a \cup b \in t.subtrees
      BY <1>1, <1>3, <1>4
    <3>4. a \cap t.hidden = {} /\ b \subseteq t.hidden
      BY <1>1, <1>3
    <3>5. StackFits(t, r)
      BY <1>11, <3>1, <3>2, <3>3, <3>4 DEF StackFits
    <3> QED
      BY <1>12, <3>2, <3>5
  <2>2. ASSUME NEW k \in with
        PROVE  /\ StackFits(t, r)
               /\ \A j \in s.stacks \ with : StackPanes(j) \cap StackPanes(r) = {}
    <3>1. others = k.units
      BY <1>13
    <3>2. r.units = k.units \cup {a} /\ r.shown = a
      BY <3>1
    <3> HIDE DEF r, others
    <3>3. StackFits(s, k) /\ b \in k.units /\ a \cap StackPanes(k) = {}
      BY <1>6
    <3>4. k.shown = b
      BY <1>3, <3>3 DEF StackFits
    <3>5. StackPanes(r) = StackPanes(k) \cup a
      BY <3>2 DEF StackPanes
    <3>6. StackPanes(r) \in t.subtrees
      <4>1. b \subseteq StackPanes(k) /\ StackPanes(k) \in s.subtrees
        BY <3>3 DEF StackFits, StackPanes
      <4> QED
        BY <1>1, <1>4, <3>5, <4>1
    <3>7. r.units \subseteq Units(t)
      BY <1>11, <3>2, <3>3 DEF StackFits
    <3>8. \A u \in r.units \ {a} : u \subseteq t.hidden
      BY <1>1, <3>2, <3>3, <3>4 DEF StackFits
    <3>9. a \cap t.hidden = {}
      BY <1>1, <1>3
    <3>10. r.units # {a}
      BY <3>2, <3>3
    <3>11. StackFits(t, r)
      BY <3>2, <3>6, <3>7, <3>8, <3>9, <3>10 DEF StackFits
    <3>12. \A j \in s.stacks \ with : StackPanes(j) \cap StackPanes(r) = {}
      BY <1>6, <1>7, <3>5
    <3> QED
      BY <3>11, <3>12
  <2> QED
    BY <2>1, <2>2
<1> HIDE DEF r
<1>15. StacksFit(t)
  <2>1. \A k \in t.stacks : k = r \/ k \in s.stacks \ with
    BY <1>1
  <2> QED
    BY <1>7, <1>12, <1>14, <2>1 DEF StacksFit
<1> QED
  BY <1>9, <1>10, <1>15 DEF Fit, t

(* Another unit of a stack comes on show.                                  *)
LEMMA ShowingFits ==
  ASSUME NEW s, Fit(s), NEW k \in s.stacks, NEW u \in k.units, u # k.shown
  PROVE  Fit(Showing(s, k, u))
<1> DEFINE t == Showing(s, k, u)
           r == [units |-> k.units, shown |-> u]
<1>1. /\ t.subtrees = s.subtrees
      /\ t.hidden = (s.hidden \ u) \cup k.shown
      /\ t.groups = s.groups
      /\ t.stacks = (s.stacks \ {k}) \cup {r}
  BY DEF Showing
<1>2. t = [subtrees |-> t.subtrees, hidden |-> t.hidden, groups |-> t.groups, stacks |-> t.stacks]
  BY DEF Showing
<1> HIDE DEF t
<1>3. Panes(t) = Panes(s) /\ Units(t) = Units(s)
  BY <1>1 DEF Panes, Units, UnitOf
<1>4. StackFits(s, k)
  BY DEF Fit, StacksFit
<1>5. \A v \in k.units : v \subseteq Panes(s) /\ v \subseteq StackPanes(k)
  BY <1>4, UnitsDisjoint DEF Fit, StackFits, StackPanes
<1>6. \A v, w \in k.units : v = w \/ v \cap w = {}
  BY <1>4, UnitsDisjoint DEF Fit, StackFits
<1>7. WellFormed(t)
  <2>1. t.stacks \subseteq [units : SUBSET SUBSET Pane, shown : SUBSET Pane]
    <3>1. s.stacks \subseteq [units : SUBSET SUBSET Pane, shown : SUBSET Pane]
      BY DEF Fit, WellFormed, Layout
    <3> QED
      BY <1>1, <3>1
  <2>2. t.hidden \subseteq Panes(s)
    BY <1>1, <1>4, <1>5 DEF StackFits, Fit, WellFormed
  <2>3. Panes(s) \subseteq Pane
    BY DEF Fit, WellFormed, Layout, Panes
  <2>4. t.subtrees \subseteq (SUBSET Pane) \ {{}} /\ t.groups \subseteq SUBSET Pane
    BY <1>1 DEF Fit, WellFormed, Layout
  <2> QED
    BY <1>1, <1>2, <1>3, <2>1, <2>2, <2>3, <2>4 DEF Fit, WellFormed, Layout
<1>8. GroupsFit(t)
  BY <1>1 DEF Fit, GroupsFit
<1>9. StackPanes(r) = StackPanes(k)
  BY DEF StackPanes
<1>10. StackFits(t, r)
  <2>1. u \cap t.hidden = {}
    BY <1>1, <1>4, <1>6 DEF StackFits
  <2>2. \A v \in k.units \ {u} : v \subseteq t.hidden
    BY <1>1, <1>4, <1>6 DEF StackFits
  <2>3. k.units # {u}
    BY <1>4 DEF StackFits
  <2> QED
    BY <1>1, <1>3, <1>4, <1>9, <2>1, <2>2, <2>3 DEF StackFits
<1> HIDE DEF r
<1>11. ASSUME NEW j \in s.stacks \ {k}
       PROVE  StackFits(t, j) /\ StackPanes(j) \cap StackPanes(k) = {}
  <2>1. StackFits(s, j) /\ StackPanes(j) \cap StackPanes(k) = {}
    BY DEF Fit, StacksFit
  <2>2. \A p \in StackPanes(j) : p \in s.hidden <=> p \in t.hidden
    BY <1>1, <1>4, <1>5, <2>1 DEF StackFits
  <2>3. StackPanes(j) \in t.subtrees /\ j.units \subseteq Units(t)
    BY <1>1, <1>3, <2>1 DEF StackFits
  <2> QED
    BY <2>1, <2>2, <2>3, StackKept
<1>12. StacksFit(t)
  <2>1. \A j \in t.stacks : j = r \/ j \in s.stacks \ {k}
    BY <1>1
  <2>2. \A i, j \in s.stacks : i = j \/ StackPanes(i) \cap StackPanes(j) = {}
    BY DEF Fit, StacksFit
  <2> QED
    BY <1>9, <1>10, <1>11, <2>1, <2>2 DEF StacksFit
<1> QED
  BY <1>7, <1>8, <1>12 DEF Fit, t

-----------------------------------------------------------------------------

(* Panes trade places: the tree keeps its shape, and no grouped pane moves.*)
LEMMA RelabeledFits ==
  ASSUME NEW s, Fit(s), s.stacks = {}, NEW f \in [Panes(s) -> Panes(s)],
         \A q \in Panes(s) : \E p \in Panes(s) : f[p] = q,
         \A g \in s.groups : \A p \in g : f[p] = p
  PROVE  Fit(Relabeled(s, f))
<1> DEFINE t == Relabeled(s, f)
           Moved(S) == {f[p] : p \in S}
<1>0. s \in Layout
  BY DEF Fit, WellFormed
<1>1. /\ t.subtrees = {Moved(S) : S \in s.subtrees}
      /\ t.hidden = s.hidden /\ t.groups = s.groups /\ t.stacks = s.stacks
  BY <1>0 DEF Relabeled, Layout
<1>2. \A S \in s.subtrees : S \subseteq Panes(s) /\ S # {} /\ S \subseteq Pane
  BY <1>0 DEF Layout, Panes
<1>3. \A S \in s.subtrees : Moved(S) \subseteq Panes(s) /\ Moved(S) # {}
  BY <1>2
<1>4. Panes(s) \subseteq Pane
  BY <1>2 DEF Panes
<1>5. t \in Layout
  <2>1. {Moved(S) : S \in s.subtrees} \in SUBSET ((SUBSET Pane) \ {{}})
    BY <1>3, <1>4
  <2> QED
    BY <1>0, <2>1 DEF Relabeled, Layout
<1> HIDE DEF t
<1>6. \A q \in Panes(s) : {q} \in t.subtrees
  <2> SUFFICES ASSUME NEW q \in Panes(s)
               PROVE  {q} \in t.subtrees
    OBVIOUS
  <2>1. PICK p \in Panes(s) : f[p] = q
    OBVIOUS
  <2>2. {p} \in s.subtrees /\ Moved({p}) = {q}
    BY <2>1 DEF Fit, WellFormed
  <2> QED
    BY <1>1, <2>2
<1>7. Panes(t) = Panes(s)
  <2>1. \A S \in t.subtrees : S \subseteq Panes(s)
    BY <1>1, <1>3
  <2> QED
    BY <1>6, <2>1 DEF Panes
<1>8. WellFormed(t)
  BY <1>1, <1>5, <1>6, <1>7 DEF Fit, WellFormed
<1>9. GroupsFit(t)
  <2>1. ASSUME NEW g \in s.groups
        PROVE  g \in t.subtrees
    <3>1. Moved(g) = g /\ g \in s.subtrees
      BY DEF Fit, GroupsFit
    <3> QED
      BY <1>1, <3>1
  <2> QED
    BY <1>1, <2>1 DEF Fit, GroupsFit
<1>10. StacksFit(t)
  BY <1>1 DEF StacksFit
<1> QED
  BY <1>8, <1>9, <1>10 DEF Fit, t

(* Without hidden panes there is no stack.                                 *)
LEMMA StacksHide ==
  ASSUME NEW s, Fit(s), s.hidden = {}
  PROVE  s.stacks = {}
<1> SUFFICES ASSUME NEW k \in s.stacks
             PROVE  FALSE
  OBVIOUS
<1>1. StackFits(s, k)
  BY DEF Fit, StacksFit
<1>2. \A u \in k.units : u # {}
  BY <1>1, UnitsDisjoint DEF Fit, StackFits
<1> QED
  BY <1>1, <1>2 DEF StackFits

(* The focus layout: one pane beside a chain of all the others.            *)
LEMMA ArrangeFits ==
  ASSUME NEW s, Fit(s), s.hidden = {}, s.groups = {}, NEW p \in Panes(s),
         NEW chain \in Chains(Panes(s) \ {p})
  PROVE  Fit([s EXCEPT !.subtrees = chain \cup {{p}, Panes(s)}])
<1> DEFINE new == chain \cup {{p}, Panes(s)}
           t == [s EXCEPT !.subtrees = new]
<1>0. s \in Layout
  BY DEF Fit, WellFormed
<1>1. t.subtrees = new /\ t.hidden = {} /\ t.groups = {} /\ t.stacks = s.stacks
  BY <1>0 DEF Layout
<1>2. Panes(s) \subseteq Pane
  BY <1>0 DEF Layout, Panes
<1>3. /\ chain \subseteq (SUBSET (Panes(s) \ {p})) \ {{}}
      /\ \A q \in Panes(s) \ {p} : {q} \in chain
  BY DEF Chains
<1>4. new \in SUBSET ((SUBSET Pane) \ {{}})
  BY <1>2, <1>3
<1>5. t \in Layout
  BY <1>0, <1>4 DEF Layout
<1> HIDE DEF t
<1>6. Panes(t) = Panes(s) /\ \A q \in Panes(s) : {q} \in t.subtrees
  <2>1. \A S \in t.subtrees : S \subseteq Panes(s)
    BY <1>1, <1>3
  <2>2. Panes(s) \in t.subtrees
    BY <1>1
  <2>3. \A q \in Panes(s) : {q} \in t.subtrees
    BY <1>1, <1>3
  <2> QED
    BY <2>1, <2>2, <2>3 DEF Panes
<1>7. s.stacks = {}
  BY StacksHide
<1> QED
  BY <1>1, <1>5, <1>6, <1>7 DEF Fit, WellFormed, GroupsFit, StacksFit, t

-----------------------------------------------------------------------------

(* Every tab starts with one pane, on show.                                *)
LEMMA InitFits == Init => Fit(layout)
<1> SUFFICES ASSUME NEW p \in Pane,
                    layout = [subtrees |-> {{p}}, hidden |-> {}, groups |-> {}, stacks |-> {}]
             PROVE  Fit(layout)
  BY DEF Init
<1>1. layout \in Layout
  BY DEF Layout
<1>2. Panes(layout) = {p}
  BY DEF Panes
<1> QED
  BY <1>1, <1>2 DEF Fit, WellFormed, GroupsFit, StacksFit

(* Every operation keeps the layout fit, one step per operation.           *)
LEMMA NextFits == Fit(layout) /\ [Next]_layout => Fit(layout')
<1> SUFFICES ASSUME Fit(layout), [Next]_layout
             PROVE  Fit(layout')
  OBVIOUS
<1>1. ASSUME NEW e \in Panes(layout), NEW new \in Pane \ Panes(layout), Split(e, new)
      PROVE  Fit(layout')
  BY <1>1, InsertFits DEF Split
<1>2. ASSUME NEW new \in Pane \ Panes(layout), SplitTop(new)
      PROVE  Fit(layout')
  BY <1>2, InsertAtRootFits DEF SplitTop
<1>3. ASSUME NEW p \in Panes(layout), Close(p)
      PROVE  Fit(layout')
  BY <1>3, ClosingsFit DEF Close
<1>4. ASSUME NEW p \in Panes(layout), Arrange(p)
      PROVE  Fit(layout')
  <2>1. PICK chain \in Chains(Panes(layout) \ {p}) :
          layout' = [layout EXCEPT !.subtrees = chain \cup {{p}, Panes(layout)}]
    BY <1>4 DEF Arrange
  <2>2. Fit([layout EXCEPT !.subtrees = chain \cup {{p}, Panes(layout)}])
    BY <1>4, ArrangeFits DEF Arrange
  <2> QED
    BY <2>1, <2>2
<1>5. ASSUME NEW p \in Panes(layout), NEW e \in Panes(layout), Move(p, e)
      PROVE  Fit(layout')
  <2>1. PICK s \in Closings(layout, p) :
          e \notin s.hidden /\ layout' = Insert(s, e, p)
    BY <1>5 DEF Move
  <2>2. /\ Fit(s) /\ Panes(s) = Panes(layout) \ {p} /\ s.hidden \subseteq layout.hidden
    BY ClosingsFit
  <2>3. e \in Panes(s) /\ e \notin s.hidden
    BY <1>5, <2>1, <2>2 DEF Move
  <2>4. p \in Pane \ Panes(s)
    BY <2>2 DEF Fit, WellFormed, Layout, Panes
  <2>5. Fit(Insert(s, e, p))
    BY <2>2, <2>3, <2>4, InsertFits
  <2> QED
    BY <2>1, <2>5
<1>6. ASSUME NEW a \in Panes(layout), NEW b \in Panes(layout), Swap(a, b)
      PROVE  Fit(layout')
  <2> DEFINE f == [p \in Panes(layout) |-> IF p = a THEN b ELSE IF p = b THEN a ELSE p]
  <2>1. layout.stacks = {}
    BY <1>6, StacksHide DEF Swap
  <2>2. f \in [Panes(layout) -> Panes(layout)]
    OBVIOUS
  <2>3. \A q \in Panes(layout) : \E p \in Panes(layout) : f[p] = q
    <3>1. f[a] = b /\ f[b] = a /\ \A q \in Panes(layout) \ {a, b} : f[q] = q
      OBVIOUS
    <3> QED
      BY <3>1
  <2>4. \A g \in layout.groups : \A p \in g : f[p] = p
    <3>1. \A g \in layout.groups : g \subseteq Panes(layout) /\ a \notin g /\ b \notin g
      BY <1>6 DEF Swap, InGroup, Fit, GroupsFit, Panes
    <3> QED
      BY <3>1
  <2>5. layout' = Relabeled(layout, f)
    BY <1>6 DEF Swap
  <2> HIDE DEF f
  <2>6. Fit(Relabeled(layout, f))
    BY <2>1, <2>2, <2>3, <2>4, RelabeledFits
  <2> QED
    BY <2>5, <2>6
<1>7. ASSUME NEW a \in Units(layout), NEW b \in Units(layout), Group(a, b)
      PROVE  Fit(layout')
  <2>1. PICK chain \in Chains(a) : layout' = Grouped(layout, a, b, chain)
    BY <1>7 DEF Group
  <2>2. Fit(Grouped(layout, a, b, chain))
    BY <1>7, GroupedFits DEF Group
  <2> QED
    BY <2>1, <2>2
<1>8. ASSUME NEW a \in Units(layout), NEW b \in Units(layout), StackUp(a, b)
      PROVE  Fit(layout')
  <2>1. PICK chain \in Chains(a) : layout' = StackedOn(layout, a, b, chain)
    BY <1>8 DEF StackUp
  <2>2. Fit(StackedOn(layout, a, b, chain))
    BY <1>8, StackedOnFits DEF StackUp
  <2> QED
    BY <2>1, <2>2
<1>9. ASSUME NEW g \in layout.groups, Ungroup(g)
      PROVE  Fit(layout')
  <2> DEFINE t == [layout EXCEPT !.groups = @ \ {g}]
  <2>1. layout' = t
    BY <1>9 DEF Ungroup
  <2>2. layout \in Layout
    BY DEF Fit, WellFormed
  <2>3. t \in Layout /\ t.subtrees = layout.subtrees /\ t.hidden = layout.hidden
        /\ t.groups = layout.groups \ {g} /\ t.stacks = layout.stacks
    BY <2>2 DEF Layout
  <2> HIDE DEF t
  <2>4. WellFormed(t) /\ GroupsFit(t) /\ Panes(t) = Panes(layout)
    BY <2>3 DEF Fit, WellFormed, GroupsFit, Panes
  <2>5. \A u \in Units(layout) \ {g} : u \in Units(t)
    <3> SUFFICES ASSUME NEW u \in Units(layout) \ {g}
                 PROVE  u \in Units(t)
      OBVIOUS
    <3>1. u \subseteq Panes(t)
      BY <2>4, UnitsDisjoint DEF Fit
    <3> QED
      BY <2>3, <2>4, <3>1, UnitKept DEF Fit
  <2>6. StacksFit(t)
    <3>1. \A k \in layout.stacks : StackFits(layout, k) /\ g \notin k.units
      BY <1>9 DEF Ungroup, Stacked, Fit, StacksFit
    <3>2. \A k \in layout.stacks : StackFits(t, k)
      BY <2>3, <2>5, <3>1 DEF StackFits
    <3> QED
      BY <2>3, <3>2 DEF Fit, StacksFit
  <2> QED
    BY <2>1, <2>4, <2>6 DEF Fit
<1>10. ASSUME NEW k \in layout.stacks, NEW u \in k.units, Show(k, u)
       PROVE  Fit(layout')
  BY <1>10, ShowingFits DEF Show
<1>11. ASSUME Permute
       PROVE  Fit(layout')
  <2>1. PICK f \in Bijection(Panes(layout), Panes(layout)) : layout' = Relabeled(layout, f)
    BY <1>11 DEF Permute
  <2>2. /\ f \in [Panes(layout) -> Panes(layout)]
        /\ \A q \in Panes(layout) : \E p \in Panes(layout) : f[p] = q
    BY DEF Bijection, Surjection
  <2>3. layout.groups = {} /\ layout.stacks = {}
    BY <1>11 DEF Permute
  <2>4. Fit(Relabeled(layout, f))
    BY <2>2, <2>3, RelabeledFits
  <2> QED
    BY <2>1, <2>4
<1>12. ASSUME UNCHANGED layout
       PROVE  Fit(layout')
  BY <1>12
<1> QED
  BY <1>1, <1>2, <1>3, <1>4, <1>5, <1>6, <1>7, <1>8, <1>9, <1>10, <1>11, <1>12 DEF Next

LEMMA AlwaysFit == Spec => []Fit(layout)
<1>1. Init => Fit(layout)
  BY InitFits
<1>2. Fit(layout) /\ [Next]_layout => Fit(layout)'
  BY NextFits
<1> QED
  BY <1>1, <1>2, PTL DEF Spec

(* Every pane is a leaf of the split tree and every hidden pane is in it,  *)
(* whatever sequence of layout operations came before.                     *)
THEOREM LayoutIsTyped == Spec => []TypeOK
<1>1. Fit(layout) => TypeOK
  BY DEF Fit, TypeOK
<1> QED
  BY <1>1, AlwaysFit, PTL

(* Every group keeps filling one subtree with two panes or more, and       *)
(* groups stay disjoint (pane_group.rs validate).                          *)
THEOREM GroupsStaySubtrees == Spec => []GroupsAreSubtrees
<1>1. Fit(layout) => GroupsAreSubtrees
  BY DEF Fit, GroupsAreSubtrees
<1> QED
  BY <1>1, AlwaysFit, PTL

(* Every stack keeps filling one subtree and shows exactly one of its      *)
(* units, the others hidden whole (pane_group.rs validate).                *)
THEOREM StacksStayExclusive == Spec => []StacksShowOneUnit
<1>1. Fit(layout) => StacksShowOneUnit
  BY DEF Fit, StacksShowOneUnit
<1> QED
  BY <1>1, AlwaysFit, PTL

-----------------------------------------------------------------------------
(* What is hidden is in a stack.                                           *)

LEMMA InsertHides ==
  ASSUME NEW s, HiddenFits(s), NEW e, NEW new
  PROVE  HiddenFits(Insert(s, e, new))
<1> DEFINE t == Insert(s, e, new)
           u == UnitOf(s, e)
<1>1. t.hidden = s.hidden /\ (t.stacks = s.stacks \/ t.stacks = RenameIn(s.stacks, u, u \cup {new}))
  BY DEF Insert
<1>2. ASSUME NEW p \in s.hidden, t.stacks = RenameIn(s.stacks, u, u \cup {new})
      PROVE  \E k \in t.stacks : p \in StackPanes(k)
  <2>10. PICK k \in s.stacks : \E x \in k.units : p \in x
    BY DEF HiddenFits, StackPanes
  <2>1. PICK x \in k.units : p \in x
    BY <2>10
  <2> DEFINE v == u \cup {new}
             j == [units |-> {IF y = u THEN v ELSE y : y \in k.units},
                   shown |-> IF k.shown = u THEN v ELSE k.shown]
  <2>2. j \in t.stacks
    BY <1>2 DEF RenameIn
  <2>3. (IF x = u THEN v ELSE x) \in j.units /\ p \in (IF x = u THEN v ELSE x)
    BY <2>1
  <2> QED BY <2>2, <2>3 DEF StackPanes
<1> QED BY <1>1, <1>2 DEF HiddenFits, t

LEMMA ShrinkHides ==
  ASSUME NEW s, HiddenFits(s), NEW u, NEW p
  PROVE  HiddenFits(Shrink(s, u, p))
<1> DEFINE t == Shrink(s, u, p)
           v == u \ {p}
<1>1. t.hidden = s.hidden \ {p} /\ t.stacks = RenameIn(s.stacks, u, v)
  BY DEF Shrink
<1>2. ASSUME NEW q \in s.hidden \ {p} PROVE \E k \in t.stacks : q \in StackPanes(k)
  <2>10. PICK k \in s.stacks : \E x \in k.units : q \in x
    BY DEF HiddenFits, StackPanes
  <2>1. PICK x \in k.units : q \in x
    BY <2>10
  <2> DEFINE j == [units |-> {IF y = u THEN v ELSE y : y \in k.units},
                   shown |-> IF k.shown = u THEN v ELSE k.shown]
  <2>2. j \in t.stacks
    BY <1>1 DEF RenameIn
  <2>3. (IF x = u THEN v ELSE x) \in j.units /\ q \in (IF x = u THEN v ELSE x)
    BY <2>1
  <2> QED BY <2>2, <2>3 DEF StackPanes
<1> QED BY <1>1, <1>2 DEF HiddenFits, t

LEMMA LeaveHides ==
  ASSUME NEW s, HiddenFits(s), NEW k \in s.stacks, NEW p, NEW next
  PROVE  HiddenFits(Leave(s, k, {p}, p, next))
<1> DEFINE t == Leave(s, k, {p}, p, next)
           rest == k.units \ {{p}}
<1>1. /\ t.hidden = (s.hidden \ {p}) \ next
      /\ t.stacks = (s.stacks \ {k})
                      \cup (IF rest = {next} THEN {} ELSE {[units |-> rest, shown |-> next]})
  BY DEF Leave
<1>2. ASSUME NEW q \in (s.hidden \ {p}) \ next PROVE \E j \in t.stacks : q \in StackPanes(j)
  <2>10. PICK j \in s.stacks : \E x \in j.units : q \in x
    BY DEF HiddenFits, StackPanes
  <2>1. PICK x \in j.units : q \in x
    BY <2>10
  <2>2. CASE j # k
    BY <1>1, <2>1, <2>2 DEF StackPanes
  <2>3. CASE j = k
    <3>1. x \in rest
      BY <2>1, <2>3
    <3>2. rest # {next}
      BY <2>1, <3>1
    <3>3. [units |-> rest, shown |-> next] \in t.stacks
      BY <1>1, <3>2
    <3> QED BY <2>1, <3>1, <3>3 DEF StackPanes
  <2> QED BY <2>2, <2>3
<1> QED BY <1>1, <1>2 DEF HiddenFits, t

LEMMA ClosingsHide ==
  ASSUME NEW s, HiddenFits(s), NEW p, NEW t \in Closings(s, p)
  PROVE  HiddenFits(t)
<1> DEFINE u == UnitOf(s, p)
           in == {k \in s.stacks : u \in k.units}
<1>1. \/ t = Shrink(s, u, p)
      \/ u = {p} /\ \E k \in in : \E next : t = Leave(s, k, u, p, next)
  BY DEF Closings
<1> QED BY <1>1, ShrinkHides, LeaveHides

LEMMA StackedOnHides ==
  ASSUME NEW s, HiddenFits(s), NEW a, NEW b, NEW chain
  PROVE  HiddenFits(StackedOn(s, a, b, chain))
<1> DEFINE t == StackedOn(s, a, b, chain)
           with == {k \in s.stacks : b \in k.units}
           others == UNION {k.units : k \in with}
           new == [units |-> others \cup {a, b}, shown |-> a]
<1>1. t.hidden = s.hidden \cup b /\ t.stacks = (s.stacks \ with) \cup {new}
  BY DEF StackedOn
<1>2. \A x \in others \cup {b} : x \subseteq StackPanes(new)
  BY DEF StackPanes
<1>3. ASSUME NEW q \in s.hidden \cup b PROVE \E k \in t.stacks : q \in StackPanes(k)
  <2>1. CASE q \in b
    BY <1>1, <1>2, <2>1
  <2>2. CASE q \in s.hidden
    <3>10. PICK k \in s.stacks : \E x \in k.units : q \in x
      BY <2>2 DEF HiddenFits, StackPanes
    <3>1. PICK x \in k.units : q \in x
      BY <3>10
    <3>2. CASE k \in with
      BY <1>1, <1>2, <3>1, <3>2
    <3>3. CASE k \notin with
      BY <1>1, <3>1, <3>3 DEF StackPanes
    <3> QED BY <3>2, <3>3
  <2> QED BY <2>1, <2>2
<1> QED BY <1>1, <1>3 DEF HiddenFits, t

LEMMA ShowingHides ==
  ASSUME NEW s, Fit(s), HiddenFits(s), NEW k \in s.stacks, NEW u
  PROVE  HiddenFits(Showing(s, k, u))
<1> DEFINE t == Showing(s, k, u)
           new == [units |-> k.units, shown |-> u]
<1>1. t.hidden = (s.hidden \ u) \cup k.shown /\ t.stacks = (s.stacks \ {k}) \cup {new}
  BY DEF Showing
<1>2. k.shown \in k.units /\ StackPanes(new) = StackPanes(k)
  BY DEF Fit, StacksFit, StackFits, StackPanes
<1>3. ASSUME NEW q \in s.hidden \cup k.shown PROVE \E j \in t.stacks : q \in StackPanes(j)
  <2>1. CASE q \in k.shown
    BY <1>1, <1>2, <2>1 DEF StackPanes
  <2>2. CASE q \in s.hidden
    <3>1. PICK j \in s.stacks : q \in StackPanes(j)
      BY <2>2 DEF HiddenFits
    <3> QED BY <1>1, <1>2, <3>1
  <2> QED BY <2>1, <2>2
<1> QED BY <1>1, <1>3 DEF HiddenFits, t

(* No operation hides a pane but in a stack.                               *)
LEMMA NextHides == Fit(layout) /\ HiddenFits(layout) /\ [Next]_layout => HiddenFits(layout')
<1> SUFFICES ASSUME Fit(layout), HiddenFits(layout), [Next]_layout PROVE HiddenFits(layout')
  OBVIOUS
<1>1. ASSUME NEW e, NEW new, Split(e, new) PROVE HiddenFits(layout')
  BY <1>1, InsertHides DEF Split
<1>2. ASSUME NEW p, Close(p) PROVE HiddenFits(layout')
  BY <1>2, ClosingsHide DEF Close
<1>3. ASSUME NEW p, NEW e, Move(p, e) PROVE HiddenFits(layout')
  BY <1>3, ClosingsHide, InsertHides DEF Move
<1>4. ASSUME NEW a, NEW b, StackUp(a, b) PROVE HiddenFits(layout')
  BY <1>4, StackedOnHides DEF StackUp
<1>5. ASSUME NEW k \in layout.stacks, NEW u, Show(k, u) PROVE HiddenFits(layout')
  BY <1>5, ShowingHides DEF Show
<1>6. ASSUME layout'.hidden = layout.hidden, layout'.stacks = layout.stacks
      PROVE  HiddenFits(layout')
  BY <1>6 DEF HiddenFits
<1>7. layout \in [subtrees : SUBSET SUBSET Pane, hidden : SUBSET Pane, groups : SUBSET SUBSET Pane,
                   stacks : SUBSET [units : SUBSET SUBSET Pane, shown : SUBSET Pane]]
  BY DEF Fit, WellFormed, Layout
<1>8. ASSUME NEW new, SplitTop(new) PROVE HiddenFits(layout')
  BY <1>6, <1>7, <1>8 DEF SplitTop, InsertAtRoot
<1>9. ASSUME NEW a, NEW b, Group(a, b) PROVE HiddenFits(layout')
  BY <1>6, <1>9 DEF Group, Grouped
<1>10. ASSUME NEW g, Ungroup(g) PROVE HiddenFits(layout')
  BY <1>6, <1>7, <1>10 DEF Ungroup
<1>11. ASSUME NEW f, layout' = Relabeled(layout, f) PROVE HiddenFits(layout')
  BY <1>6, <1>7, <1>11 DEF Relabeled
<1>12. ASSUME NEW p, Arrange(p) PROVE HiddenFits(layout')
  BY <1>6, <1>7, <1>12 DEF Arrange
<1>13. ASSUME Permute PROVE HiddenFits(layout')
  BY <1>11, <1>13 DEF Permute
<1>14. ASSUME NEW a, NEW b, Swap(a, b) PROVE HiddenFits(layout')
  BY <1>11, <1>14 DEF Swap
<1>15. CASE UNCHANGED layout
  BY <1>15
<1> QED BY <1>1, <1>2, <1>3, <1>4, <1>5, <1>8, <1>9, <1>10, <1>12, <1>13, <1>14, <1>15 DEF Next

(* No pane is lost from sight: what is hidden is always in a stack.        *)
THEOREM HiddenAreStacked == Spec => []OnlyStacksHide
<1>1. Init => HiddenFits(layout)
  BY DEF Init, HiddenFits
<1>2. Fit(layout) /\ HiddenFits(layout) /\ [Next]_layout => HiddenFits(layout)'
  BY NextHides
<1>3. HiddenFits(layout) => OnlyStacksHide
  BY DEF OnlyStacksHide
<1> QED BY <1>1, <1>2, <1>3, AlwaysFit, PTL DEF Spec
=============================================================================

-------------------------- MODULE TabPromise_proofs --------------------------
(***************************************************************************)
(* That Tab implements PaneGroups: seen as a layout, every call of a       *)
(* method of Tab is one step of PaneGroups or leaves the layout alone, as  *)
(* long as panes are only hidden by stacks and removed one at a time.      *)
(* What PaneGroups promises of stacks then holds of Tab.                   *)
(*                                                                         *)
(* The lemmas go from the parts of a layout (units, stacks) over what the  *)
(* helpers of the code do to them to one lemma for each method.            *)
(***************************************************************************)
EXTENDS Tab_proofs

PG == INSTANCE PaneGroups_proofs WITH layout <- GroupLayout

-----------------------------------------------------------------------------
(* A tab as a layout.                                                      *)

(* The panes of a unit. *)
Held(s, u) == {q \in Leaves(s.tree) : UnitBy(s.groups, q) = u}

SeenStack(s, k) ==
  [units |-> {Held(s, u) : u \in ToSet(k.units)}, shown |-> Held(s, ShownUnit(k))]

View(s) ==
  [subtrees |-> s.tree.sets,
   hidden   |-> s.hidden,
   groups   |-> {Held(s, GroupUnit(g)) : g \in DOMAIN s.groups},
   stacks   |-> {SeenStack(s, k) : k \in s.stacks}]

Sound(s) == Fits(s, Leaves(s.tree))

LEMMA ViewParts ==
  ASSUME NEW s
  PROVE  /\ View(s).subtrees = s.tree.sets /\ View(s).hidden = s.hidden
         /\ View(s).groups = {Held(s, GroupUnit(g)) : g \in DOMAIN s.groups}
         /\ View(s).stacks = {SeenStack(s, k) : k \in s.stacks}
         /\ PG!Panes(View(s)) = Leaves(s.tree)
BY DEF View, PG!Panes, Leaves

LEMMA SeenParts ==
  ASSUME NEW s, NEW k
  PROVE  /\ SeenStack(s, k).units = {Held(s, u) : u \in ToSet(k.units)}
         /\ SeenStack(s, k).shown = Held(s, ShownUnit(k))
BY DEF SeenStack

(* A unit of which a pane exists. *)
Live(s, u) == Held(s, u) # {}

LEMMA HeldApart ==
  ASSUME NEW s
  PROVE  /\ \A u, v : u = v \/ Held(s, u) \cap Held(s, v) = {}
         /\ \A u, v : Live(s, u) /\ Held(s, u) = Held(s, v) => u = v
         /\ \A p \in Leaves(s.tree) : p \in Held(s, UnitBy(s.groups, p))
         /\ \A p, u : p \in Held(s, u) => p \in Leaves(s.tree) /\ UnitBy(s.groups, p) = u
BY DEF Held, Live

(* The units that are: groups, the units of stacks, that of any pane.      *)
LEMMA LiveUnits ==
  ASSUME NEW s, Sound(s)
  PROVE  /\ \A u : InStack(s.stacks, u) => Live(s, u)
         /\ \A g \in DOMAIN s.groups : /\ Live(s, GroupUnit(g))
                                       /\ Held(s, GroupUnit(g)) = MembersIn(s.groups, g)
         /\ \A p \in Leaves(s.tree) : Live(s, UnitBy(s.groups, p))
<1>1. UnitsFit(s, Leaves(s.tree)) /\ GroupsFit(s.groups, s.next_id, Leaves(s.tree))
  BY DEF Sound, Fits, UnitsFit
<1>2. \A p \in Leaves(s.tree) : Live(s, UnitBy(s.groups, p))
  BY DEF Live, Held
<1>3. ASSUME NEW u, InStack(s.stacks, u) PROVE Live(s, u)
  <2>1. PICK p \in Leaves(s.tree) : UnitBy(s.groups, p) = u
    BY <1>1, <1>3 DEF UnitsFit, StacksNamed
  <2> QED BY <1>2, <2>1
<1>4. ASSUME NEW g \in DOMAIN s.groups
      PROVE  Live(s, GroupUnit(g)) /\ Held(s, GroupUnit(g)) = MembersIn(s.groups, g)
  <2>1. PICK M, H : M = MembersIn(s.groups, g) /\ H = Held(s, GroupUnit(g))
    OBVIOUS
  <2>2. M \subseteq Leaves(s.tree) /\ M # {}
    BY <1>1, <1>4, <2>1 DEF GroupsFit
  <2>3. \A q : q \in M <=> UnitBy(s.groups, q) = GroupUnit(g)
    BY <1>1, <1>4, <2>1, UnitOnly
  <2>4. M = H
    BY <2>1, <2>2, <2>3 DEF Held
  <2> QED BY <2>1, <2>2, <2>4 DEF Live
<1> QED BY <1>2, <1>3, <1>4

(* The unit of a live one is a list of its panes.                          *)
LEMMA HeldPanes ==
  ASSUME NEW s, Sound(s), NEW u, Live(s, u)
  PROVE  /\ IsUnitOf(s, Leaves(s.tree), u, UnitPanes(s, u))
         /\ ToSet(UnitPanes(s, u)) = Held(s, u)
<1>1. Leaves(s.tree) \in SUBSET Pane /\ GroupsFit(s.groups, s.next_id, Leaves(s.tree))
  BY DEF Sound, Fits, UnitsFit
<1>2. PICK p \in Leaves(s.tree) : UnitBy(s.groups, p) = u
  BY DEF Live, Held
<1>3. IsUnitOf(s, Leaves(s.tree), u, UnitPanes(s, u))
  BY <1>1, <1>2, PanesOfUnit
<1>4. PICK A, H : A = ToSet(UnitPanes(s, u)) /\ H = Held(s, u)
  OBVIOUS
<1>5. \A q : q \in A <=> q \in H
  BY <1>3, <1>4 DEF IsUnitOf, Held
<1>6. A = H
  BY <1>5
<1> QED BY <1>3, <1>4, <1>6

(* What a layout says of a unit.                                           *)
LEMMA UnitsSeen ==
  ASSUME NEW s, Sound(s)
  PROVE  /\ \A p \in Leaves(s.tree) :
              PG!UnitOf(View(s), p) = Held(s, UnitBy(s.groups, p))
         /\ \A u : Live(s, u) =>
              /\ Held(s, u) \in PG!Units(View(s))
              /\ Held(s, u) \in View(s).groups <=> \E g \in DOMAIN s.groups : u = GroupUnit(g)
              /\ PG!Stacked(View(s), Held(s, u)) <=> InStack(s.stacks, u)
         /\ \A p : PG!InGroup(View(s), p) <=> \E g \in DOMAIN s.groups : p \in MembersIn(s.groups, g)
<1>1. GroupsFit(s.groups, s.next_id, Leaves(s.tree))
  BY DEF Sound, Fits, UnitsFit
<1>2. PICK L, m : L = Leaves(s.tree) /\ m = s.groups
  OBVIOUS
<1>3. View(s).groups = {MembersIn(m, g) : g \in DOMAIN m}
  <2>1. \A g \in DOMAIN m : Held(s, GroupUnit(g)) = MembersIn(m, g)
    BY <1>2, LiveUnits
  <2> QED BY <1>2, <2>1, ViewParts
<1>4. \A p : PG!InGroup(View(s), p) <=> \E g \in DOMAIN m : p \in MembersIn(m, g)
  BY <1>3 DEF PG!InGroup
<1>5. ASSUME NEW p \in L PROVE PG!UnitOf(View(s), p) = Held(s, UnitBy(m, p))
  <2>1. PG!UnitOf(View(s), p) =
          {q \in L : q = p \/ \E g \in DOMAIN m : {p, q} \subseteq MembersIn(m, g)}
    BY <1>2, <1>3, ViewParts DEF PG!UnitOf
  <2>2. /\ DOMAIN m \subseteq Nat
        /\ \A q : InGroup(m, q, UnitBy(m, q)) \/ InNoGroup(m, q, UnitBy(m, q))
    BY <1>1, <1>2, UnitIs, GroupTyped DEF GroupsFit
  <2>3. ASSUME NEW q \in L
        PROVE (q = p \/ \E g \in DOMAIN m : {p, q} \subseteq MembersIn(m, g))
                <=> UnitBy(m, q) = UnitBy(m, p)
    <3>1. ASSUME NEW g \in DOMAIN m, {p, q} \subseteq MembersIn(m, g)
          PROVE  UnitBy(m, q) = UnitBy(m, p)
      BY <1>1, <1>2, <3>1, UnitOnly
    <3>2. ASSUME UnitBy(m, q) = UnitBy(m, p), q # p
          PROVE  \E g \in DOMAIN m : {p, q} \subseteq MembersIn(m, g)
      <4>1. InGroup(m, q, UnitBy(m, q))
        <5>1. \A r : InNoGroup(m, r, UnitBy(m, r)) => UnitBy(m, r) = PaneUnit(r)
          BY DEF InNoGroup
        <5>2. \A r : InGroup(m, r, UnitBy(m, r)) => \E g : UnitBy(m, r) = GroupUnit(g)
          BY DEF InGroup
        <5> QED BY <2>2, <3>2, <5>1, <5>2, UnitKinds
      <4>2. PICK g \in DOMAIN m : q \in MembersIn(m, g) /\ UnitBy(m, q) = GroupUnit(g)
        BY <4>1 DEF InGroup
      <4>3. p \in MembersIn(m, g)
        BY <1>1, <1>2, <3>2, <4>2, UnitOnly
      <4> QED BY <4>2, <4>3
    <3> QED BY <3>1, <3>2
  <2> QED BY <1>2, <2>1, <2>3 DEF Held
<1>6. ASSUME NEW u, Live(s, u)
      PROVE  /\ Held(s, u) \in PG!Units(View(s))
             /\ Held(s, u) \in View(s).groups <=> \E g \in DOMAIN m : u = GroupUnit(g)
             /\ PG!Stacked(View(s), Held(s, u)) <=> InStack(s.stacks, u)
  <2>1. PICK p \in L : UnitBy(m, p) = u
    BY <1>2, <1>6 DEF Live, Held
  <2>2. Held(s, u) \in PG!Units(View(s))
    BY <1>2, <1>5, <2>1, ViewParts DEF PG!Units
  <2>3. \A v : Held(s, u) = Held(s, v) <=> u = v
    BY <1>6, HeldApart
  <2>4. Held(s, u) \in View(s).groups <=> \E g \in DOMAIN m : u = GroupUnit(g)
    BY <1>2, <2>3, ViewParts
  <2>5. \A k : Held(s, u) \in SeenStack(s, k).units <=> u \in ToSet(k.units)
    BY <2>3, SeenParts
  <2>6. PG!Stacked(View(s), Held(s, u)) <=> InStack(s.stacks, u)
    BY <2>5, ViewParts DEF PG!Stacked, InStack
  <2> QED BY <2>2, <2>4, <2>6
<1> QED BY <1>2, <1>4, <1>5, <1>6

(* Stacks that look alike are the same.                                    *)
LEMMA StacksSeen ==
  ASSUME NEW s, Sound(s), NEW k \in s.stacks
  PROVE  /\ k.units \in Seq(AnyUnit) /\ IsInjective(k.units)
         /\ k.active \in Nat /\ k.active < Len(k.units)
         /\ ShownUnit(k) \in ToSet(k.units)
         /\ \A u \in ToSet(k.units) : InStack(s.stacks, u) /\ Live(s, u)
         /\ \A u : Held(s, u) \in SeenStack(s, k).units <=> u \in ToSet(k.units)
         /\ \A u : Held(s, u) = SeenStack(s, k).shown <=> u = ShownUnit(k)
         /\ SeenStack(s, k) \in View(s).stacks
         /\ \A j \in s.stacks : SeenStack(s, j) = SeenStack(s, k) => j = k
<1>1. /\ StacksShaped(s.stacks) /\ k \in StackTypes
      /\ IsInjective(k.units) /\ k.active < Len(k.units)
  BY DEF Sound, Fits, UnitsFit, StacksShaped
<1>2. k.units \in Seq(AnyUnit) /\ k.active \in Nat
  BY <1>1 DEF StackTypes
<1>3. \A u \in ToSet(k.units) : InStack(s.stacks, u) /\ Live(s, u)
  BY LiveUnits DEF InStack
<1>4. ASSUME NEW j \in s.stacks PROVE ShownUnit(j) \in ToSet(j.units)
  <2>1. j \in StackTypes /\ j.active < Len(j.units)
    BY <1>1 DEF StacksShaped
  <2>2. PICK l, a : l = j.units /\ a = j.active
    OBVIOUS
  <2>3. l \in Seq(AnyUnit) /\ a \in Nat /\ a < Len(l)
    BY <2>1, <2>2 DEF StackTypes
  <2>4. a + 1 \in 1 .. Len(l)
    BY <2>3, LenProperties
  <2>5. l[a + 1] \in ToSet(l)
    BY <2>3, <2>4, SetOfSeq
  <2> QED BY <2>2, <2>5 DEF ShownUnit
<1>5. \A u : Held(s, u) \in SeenStack(s, k).units <=> u \in ToSet(k.units)
  <2>1. \A u, v : v \in ToSet(k.units) /\ Held(s, u) = Held(s, v) => u = v
    BY <1>3, HeldApart
  <2> QED BY <2>1, SeenParts
<1>6. \A u : Held(s, u) = SeenStack(s, k).shown <=> u = ShownUnit(k)
  BY <1>3, <1>4, HeldApart, SeenParts
<1>7. ASSUME NEW j \in s.stacks, SeenStack(s, j) = SeenStack(s, k) PROVE j = k
  <2>1. ShownUnit(j) = ShownUnit(k)
    BY <1>6, <1>7, SeenParts
  <2>2. ShownUnit(j) \in ToSet(j.units) \cap ToSet(k.units)
    BY <1>4, <2>1
  <2> QED BY <1>1, <2>2 DEF StacksShaped
<1>8. SeenStack(s, k) \in View(s).stacks
  BY ViewParts
<1> QED BY <1>1, <1>2, <1>3, <1>4, <1>5, <1>6, <1>7, <1>8

LEMMA StacksLeft ==
  ASSUME NEW s, Sound(s), NEW k \in s.stacks
  PROVE  {SeenStack(s, j) : j \in s.stacks \ {k}} = View(s).stacks \ {SeenStack(s, k)}
<1>1. \A j \in s.stacks : SeenStack(s, j) = SeenStack(s, k) => j = k
  BY StacksSeen
<1> QED BY <1>1, ViewParts

(* With the same units and stacks, a layout is the same.                   *)
LEMMA SameHeld ==
  ASSUME NEW s, NEW n, Leaves(n.tree) = Leaves(s.tree),
         \A p \in Leaves(s.tree) : UnitBy(n.groups, p) = UnitBy(s.groups, p)
  PROVE  /\ \A u : Held(n, u) = Held(s, u)
         /\ \A k : SeenStack(n, k) = SeenStack(s, k)
<1>1. \A u : Held(n, u) = Held(s, u)
  BY DEF Held
<1> QED BY <1>1 DEF SeenStack

LEMMA LayoutsEqual ==
  ASSUME NEW s, NEW S, NEW H, NEW G, NEW K,
         View(s).subtrees = S, View(s).hidden = H, View(s).groups = G, View(s).stacks = K
  PROVE  View(s) = [subtrees |-> S, hidden |-> H, groups |-> G, stacks |-> K]
BY DEF View

(* Nothing happens to the hidden panes and the stacks. *)
Stays(s, n) == n.hidden = s.hidden /\ n.stacks = s.stacks

LEMMA StaysSeen ==
  ASSUME NEW s, NEW n, SameUnits(s, n), n.tree = s.tree, Stays(s, n)
  PROVE  View(n) = View(s)
<1>1. \A p : UnitBy(n.groups, p) = UnitBy(s.groups, p)
  BY SameUnitBy
<1>2. /\ \A u : Held(n, u) = Held(s, u)
      /\ \A k : SeenStack(n, k) = SeenStack(s, k)
  BY <1>1, SameHeld
<1>3. DOMAIN n.groups = DOMAIN s.groups
  BY DEF SameUnits
<1> QED BY <1>2, <1>3 DEF View, Stays

-----------------------------------------------------------------------------
(* A stack turns to another of its units.                                  *)

TurnsTo(s, k, to, n) ==
  /\ k \in s.stacks /\ to \in Nat /\ to < Len(k.units) /\ to # k.active
  /\ n.hidden = (s.hidden \ ToSet(UnitPanes(s, k.units[to + 1])))
                  \cup ToSet(UnitPanes(s, ShownUnit(k)))
  /\ n.stacks = (s.stacks \ {k}) \cup {[k EXCEPT !.active = to]}

(* One stack turns, or nothing happens. *)
Turns(s, n) == Stays(s, n) \/ \E k, to : TurnsTo(s, k, to, n)

(* PaneGroups: Show, or nothing. *)
ShowStep(V, W) == \E k \in V.stacks : \E u \in k.units : u # k.shown /\ W = PG!Showing(V, k, u)

LEMMA TurnSeen ==
  ASSUME NEW s, Sound(s), NEW n, SameUnits(s, n), n.tree = s.tree, Turns(s, n)
  PROVE  View(n) = View(s) \/ ShowStep(View(s), View(n))
<1>1. CASE Stays(s, n)
  BY <1>1, StaysSeen
<1>2. ASSUME NEW k, NEW to, TurnsTo(s, k, to, n)
      PROVE  ShowStep(View(s), View(n))
  <2>1. /\ k \in s.stacks /\ k.units \in Seq(AnyUnit) /\ IsInjective(k.units)
        /\ k.active \in Nat /\ k.active < Len(k.units) /\ ShownUnit(k) \in ToSet(k.units)
        /\ \A u \in ToSet(k.units) : Live(s, u)
        /\ \A u : Held(s, u) \in SeenStack(s, k).units <=> u \in ToSet(k.units)
        /\ \A u : Held(s, u) = SeenStack(s, k).shown <=> u = ShownUnit(k)
        /\ SeenStack(s, k) \in View(s).stacks
    BY <1>2, StacksSeen DEF TurnsTo
  <2>2. PICK u : u = k.units[to + 1]
    OBVIOUS
  <2>3. u \in ToSet(k.units) /\ u # ShownUnit(k)
    <3>1. PICK l, a : l = k.units /\ a = k.active
      OBVIOUS
    <3>2. l \in Seq(AnyUnit) /\ IsInjective(l) /\ a \in Nat /\ a < Len(l)
          /\ to \in Nat /\ to < Len(l) /\ to # a
      BY <1>2, <2>1, <3>1 DEF TurnsTo
    <3>3. to + 1 \in 1 .. Len(l) /\ a + 1 \in 1 .. Len(l) /\ to + 1 # a + 1
      BY <3>2, LenProperties
    <3>4. l[to + 1] \in ToSet(l) /\ l[to + 1] # l[a + 1]
      BY <3>2, <3>3, SetOfSeq DEF IsInjective
    <3> QED BY <2>2, <3>1, <3>4 DEF ShownUnit
  <2>4. PICK V, q, U : V = View(s) /\ q = SeenStack(s, k) /\ U = Held(s, u)
    OBVIOUS
  <2>5. U \in q.units /\ U # q.shown /\ q \in V.stacks
    BY <2>1, <2>3, <2>4
  <2>6. /\ \A x : Held(n, x) = Held(s, x)
        /\ \A j : SeenStack(n, j) = SeenStack(s, j)
    <3>1. \A p : UnitBy(n.groups, p) = UnitBy(s.groups, p)
      BY SameUnitBy
    <3> QED BY <3>1, SameHeld
  <2>7. View(n).hidden = (V.hidden \ U) \cup q.shown
    <3>1. ToSet(UnitPanes(s, u)) = U /\ ToSet(UnitPanes(s, ShownUnit(k))) = q.shown
      BY <2>1, <2>3, <2>4, HeldPanes, SeenParts
    <3> QED BY <1>2, <2>2, <2>4, <3>1, ViewParts DEF TurnsTo
  <2>8. View(n).stacks = (V.stacks \ {q}) \cup {[units |-> q.units, shown |-> U]}
    <3>1. PICK j : j = [k EXCEPT !.active = to]
      OBVIOUS
    <3>2. j.units = k.units /\ ShownUnit(j) = u
      <4>1. k \in StackTypes
        BY <2>1 DEF Sound, Fits, UnitsFit, StacksShaped
      <4>2. j.units = k.units /\ j.active = to
        BY <1>2, <3>1, <4>1 DEF StackTypes, TurnsTo
      <4> QED BY <2>2, <4>2 DEF ShownUnit
    <3>3. SeenStack(s, j) = [units |-> q.units, shown |-> U]
      BY <2>4, <3>2, SeenParts DEF SeenStack
    <3>4. n.stacks = (s.stacks \ {k}) \cup {j}
      BY <1>2, <3>1 DEF TurnsTo
    <3>5. View(n).stacks = {SeenStack(s, i) : i \in s.stacks \ {k}} \cup {SeenStack(s, j)}
      <4>1. View(n).stacks = {SeenStack(n, i) : i \in n.stacks}
        BY ViewParts
      <4>2. View(n).stacks = {SeenStack(s, i) : i \in n.stacks}
        BY <2>6, <4>1
      <4> QED BY <3>4, <4>2
    <3>6. {SeenStack(s, i) : i \in s.stacks \ {k}} = V.stacks \ {q}
      BY <2>1, <2>4, StacksLeft
    <3> QED BY <3>3, <3>5, <3>6
  <2>9. View(n).subtrees = V.subtrees /\ View(n).groups = V.groups
    <3>1. DOMAIN n.groups = DOMAIN s.groups
      BY DEF SameUnits
    <3>2. \A g \in DOMAIN s.groups : Held(n, GroupUnit(g)) = Held(s, GroupUnit(g))
      BY <2>6
    <3>3. {Held(n, GroupUnit(g)) : g \in DOMAIN n.groups}
            = {Held(s, GroupUnit(g)) : g \in DOMAIN s.groups}
      BY <3>1, <3>2
    <3>4. View(n).groups = V.groups
      BY <2>4, <3>3, ViewParts
    <3>5. View(n).subtrees = V.subtrees
      BY <2>4, ViewParts
    <3> QED BY <3>4, <3>5
  <2>10. View(n) = PG!Showing(V, q, U)
    BY <2>7, <2>8, <2>9, LayoutsEqual DEF PG!Showing
  <2> QED BY <2>4, <2>5, <2>10 DEF ShowStep
<1> QED BY <1>1, <1>2 DEF Turns

LEMMA TurnsLater ==
  ASSUME NEW s, NEW r, NEW n, SameUnits(s, r), Stays(s, r), Turns(r, n)
  PROVE  Turns(s, n)
<1>1. \A u : UnitPanes(r, u) = UnitPanes(s, u)
  BY SameUnitBy
<1>2. CASE Stays(r, n)
  BY <1>2 DEF Stays, Turns
<1>3. ASSUME NEW k, NEW to, TurnsTo(r, k, to, n) PROVE TurnsTo(s, k, to, n)
  BY <1>1, <1>3 DEF TurnsTo, Stays
<1> QED BY <1>2, <1>3 DEF Turns

LEMMA TurnsBefore ==
  ASSUME NEW s, NEW r, NEW n, Turns(s, r), Stays(r, n)
  PROVE  Turns(s, n) /\ (Stays(s, r) => Stays(s, n))
BY DEF Turns, TurnsTo, Stays

(* show_stack_unit: u is the unit on show in its stack.                    *)
LEMMA StackUnitTurns ==
  ASSUME NEW s, Sound(s), NEW u
  PROVE  /\ Turns(s, ShowStackUnit(s, u))
         /\ \A k \in ShowStackUnit(s, u).stacks : u \in ToSet(k.units) => u = ShownUnit(k)
<1> DEFINE n == ShowStackUnit(s, u)
<1>1. s \in TabStates /\ StacksShaped(s.stacks)
  BY DEF Sound, Fits, UnitsFit
<1>2. CASE ~ Stacked(s, u)
  <2>1. n = s
    BY <1>2 DEF ShowStackUnit
  <2> QED BY <1>2, <2>1 DEF Stacked, Turns, Stays
<1>3. CASE Stacked(s, u)
  <2>1. PICK k : k = StackOf(s, u)
    OBVIOUS
  <2>2. /\ k \in s.stacks /\ k \in StackTypes /\ k.units \in Seq(AnyUnit)
        /\ IsInjective(k.units) /\ u \in ToSet(k.units)
        /\ \A j \in s.stacks \ {k} : ToSet(j.units) \cap ToSet(k.units) = {}
        /\ PositionOf(k.units, u) \in 1 .. Len(k.units)
    BY <1>1, <1>3, <2>1, ItsStack
  <2>3. PICK to : to = PositionOf(k.units, u) - 1
    OBVIOUS
  <2>4. to \in Nat /\ to < Len(k.units) /\ to + 1 = PositionOf(k.units, u)
    BY <2>2, <2>3, LenProperties
  <2>5. k.units[to + 1] = u
    <3>1. k.units[PositionOf(k.units, u)] = u
      BY <2>2, Placed
    <3> QED BY <2>4, <3>1
  <2>6. CASE to = k.active
    <3>1. n = s
      BY <1>3, <2>1, <2>3, <2>6 DEF ShowStackUnit
    <3>2. u = ShownUnit(k)
      BY <2>5, <2>6 DEF ShownUnit
    <3>3. \A j \in s.stacks : u \in ToSet(j.units) => j = k
      BY <2>2
    <3> QED BY <3>1, <3>2, <3>3 DEF Turns, Stays
  <2>7. CASE to # k.active
    <3>1. PICK a : a = SetUnitHidden(s, u, FALSE)
      OBVIOUS
    <3>2. PICK b : b = SetUnitHidden(a, ShownUnit(k), TRUE)
      OBVIOUS
    <3>3. PICK j : j = [k EXCEPT !.active = to]
      OBVIOUS
    <3>4. n = [b EXCEPT !.stacks = (@ \ {k}) \cup {j}]
      BY <1>3, <2>1, <2>3, <2>7, <3>1, <3>2, <3>3 DEF ShowStackUnit
    <3>5. /\ a \in [tree : {s.tree}, active : Nat, zoomed : Pane \cup {None},
                    hidden : {s.hidden \ ToSet(UnitPanes(s, u))},
                    groups : {s.groups}, stacks : {s.stacks}, next_id : Nat]
      BY <1>1, <3>1 DEF SetUnitHidden, TabStates
    <3>6. a.groups = s.groups /\ a.hidden = s.hidden \ ToSet(UnitPanes(s, u))
          /\ a.stacks = s.stacks
      BY <3>5
    <3>7. UnitPanes(a, ShownUnit(k)) = UnitPanes(s, ShownUnit(k))
      BY <3>6 DEF UnitPanes
    <3>8. PICK H : H = (s.hidden \ ToSet(UnitPanes(s, u))) \cup ToSet(UnitPanes(s, ShownUnit(k)))
      OBVIOUS
    <3>9. b \in [tree : {s.tree}, active : Nat, zoomed : Pane \cup {None}, hidden : {H},
                 groups : {s.groups}, stacks : {s.stacks}, next_id : Nat]
      BY <3>2, <3>5, <3>6, <3>7, <3>8 DEF SetUnitHidden
    <3>10. n.hidden = H /\ n.stacks = (s.stacks \ {k}) \cup {j}
      BY <3>4, <3>9
    <3>11. TurnsTo(s, k, to, n)
      BY <2>2, <2>4, <2>5, <2>7, <3>3, <3>8, <3>10 DEF TurnsTo
    <3>12. j.units = k.units /\ ShownUnit(j) = u
      BY <2>2, <2>4, <2>5, <3>3 DEF StackTypes, ShownUnit
    <3>13. ASSUME NEW i \in n.stacks, u \in ToSet(i.units) PROVE u = ShownUnit(i)
      BY <2>2, <3>10, <3>12, <3>13
    <3> QED BY <3>11, <3>13 DEF Turns
  <2> QED BY <2>6, <2>7
<1> QED BY <1>2, <1>3

(* reveal_stacked_pane *)
LEMMA PaneTurns ==
  ASSUME NEW s, Sound(s), NEW p
  PROVE  /\ Turns(s, RevealStackedPane(s, p))
         /\ p \notin s.hidden => Stays(s, RevealStackedPane(s, p))
BY StackUnitTurns DEF RevealStackedPane, Turns, Stays

(* set_active_pane *)
LEMMA FocusTurns ==
  ASSUME NEW s, Sound(s), NEW p, NEW n, n = FocusPane(s, p)
  PROVE  /\ Sound(n) /\ n.tree = s.tree /\ SameUnits(s, n) /\ Turns(s, n)
         /\ p \notin s.hidden \/ p = ActivePane(s) => Stays(s, n)
<1>1. /\ Sound(n) /\ n.tree = s.tree /\ SameUnits(s, n)
  BY PaneFocused DEF Focuses, Sound
<1>2. CASE n = s
  BY <1>1, <1>2 DEF Turns, Stays
<1>3. CASE n # s
  <2>1. PICK z : z = Unzoomed(s)
    OBVIOUS
  <2>2. PICK r : r = RevealStackedPane(z, p)
    OBVIOUS
  <2>3. PICK a : a = [r EXCEPT !.active = PositionOf(r.tree.order, p) - 1]
    OBVIOUS
  <2>4. n = NoteActive(a, p) /\ p \in Leaves(s.tree) /\ p # ActivePane(s)
    BY <1>3, <2>1, <2>2, <2>3 DEF FocusPane
  <2>5. Sound(z) /\ Stays(s, z) /\ SameUnits(s, z) /\ z.tree = s.tree
    BY <2>1, Unzooms DEF Activates, Sound, Stays
  <2>6. Turns(z, r) /\ (p \notin z.hidden => Stays(z, r))
    BY <2>2, <2>5, PaneTurns
  <2>7. Fits(r, Leaves(s.tree)) /\ r.tree = s.tree
    BY <2>2, <2>5, PaneRevealed DEF Shows, Sound
  <2>8. PositionOf(r.tree.order, p) - 1 \in Nat /\ r.zoomed \in Leaves(r.tree) \cup {None}
    BY <2>4, <2>7, TreePlaces DEF Fits, TabStates
  <2>9. Activate(r, PositionOf(r.tree.order, p) - 1, r.zoomed, a)
    BY <2>3, <2>7 DEF Fits, TabStates, Activate
  <2>10. Fits(a, Leaves(s.tree)) /\ Stays(r, a)
    BY <2>7, <2>8, <2>9, Activated DEF Activates, Stays
  <2>11. Stays(a, n)
    BY <2>4, <2>10, Noted DEF Stays
  <2>12. Stays(r, n)
    BY <2>10, <2>11 DEF Stays
  <2>13. Turns(z, n) /\ (Stays(z, r) => Stays(z, n))
    BY <2>6, <2>12, TurnsBefore
  <2>14. Turns(s, n)
    BY <2>5, <2>13, TurnsLater
  <2>15. p \notin s.hidden => Stays(s, n)
    BY <2>5, <2>6, <2>13 DEF Stays
  <2> QED BY <1>1, <2>4, <2>14, <2>15
<1> QED BY <1>2, <1>3

(* set_active_idx *)
LEMMA IndexTurns ==
  ASSUME NEW s, Sound(s), NEW i \in Nat, NEW n, n = FocusIndex(s, i)
  PROVE  Sound(n) /\ n.tree = s.tree /\ SameUnits(s, n) /\ Turns(s, n)
<1>1. /\ Sound(n) /\ n.tree = s.tree /\ SameUnits(s, n)
  BY IndexFocused DEF IndexFocuses, Sound
<1>2. PICK r : r = RevealStackedPane(s, s.tree.order[i + 1])
  OBVIOUS
<1>3. PICK a : a = [r EXCEPT !.active = i]
  OBVIOUS
<1>4. n = NoteActive(a, ActivePane(a))
  BY <1>2, <1>3 DEF FocusIndex
<1>5. Turns(s, r)
  BY <1>2, PaneTurns
<1>6. Fits(r, Leaves(s.tree)) /\ r.tree = s.tree
  BY <1>2, PaneRevealed DEF Shows, Sound
<1>7. r.zoomed \in Leaves(r.tree) \cup {None} /\ Activate(r, i, r.zoomed, a)
  BY <1>3, <1>6 DEF Fits, TabStates, Activate
<1>8. Fits(a, Leaves(s.tree)) /\ Stays(r, a)
  BY <1>6, <1>7, Activated DEF Activates, Stays
<1>9. Stays(a, n)
  BY <1>4, <1>8, Noted DEF Stays
<1>10. Turns(s, n)
  BY <1>5, <1>8, <1>9, TurnsBefore DEF Stays
<1> QED BY <1>1, <1>10

(* get_unit_focus_pane finds a pane of the unit.                           *)
LEMMA UnitFocused ==
  ASSUME NEW s, Sound(s), NEW u, Live(s, u)
  PROVE  UnitFocusPane(s, u) \in Held(s, u)
<1>1. IsUnitOf(s, Leaves(s.tree), u, UnitPanes(s, u)) /\ ToSet(UnitPanes(s, u)) = Held(s, u)
  BY HeldPanes
<1>2. CASE \E p : u = PaneUnit(p) /\ ToSet(UnitPanes(s, u)) = {p}
  BY <1>1, <1>2, UnitKinds DEF UnitFocusPane
<1>3. ASSUME NEW g \in DOMAIN s.groups, u = GroupUnit(g) PROVE UnitFocusPane(s, u) \in Held(s, u)
  <2>1. s.groups[g].last_active \in MembersIn(s.groups, g)
    BY DEF Sound, Fits, UnitsFit, GroupsFit
  <2>2. UnitFocusPane(s, u) = s.groups[g].last_active
    BY <1>3, UnitKinds DEF UnitFocusPane
  <2> QED BY <1>3, <2>1, <2>2, LiveUnits
<1> QED BY <1>1, <1>2, <1>3 DEF IsUnitOf

(* The unit on show in a stack is on show whole, the others not at all.    *)
LEMMA UnitOnShow ==
  ASSUME NEW s, Sound(s), PG!Fit(View(s)), NEW k \in s.stacks, NEW u \in ToSet(k.units)
  PROVE  IF u = ShownUnit(k) THEN Held(s, u) \cap s.hidden = {}
                             ELSE Held(s, u) \subseteq s.hidden
<1>1. PICK V, q : V = View(s) /\ q = SeenStack(s, k)
  OBVIOUS
<1>2. q \in V.stacks /\ Held(s, u) \in q.units /\ (Held(s, u) = q.shown <=> u = ShownUnit(k))
  BY <1>1, StacksSeen
<1>3. q.shown \cap V.hidden = {} /\ \A x \in q.units \ {q.shown} : x \subseteq V.hidden
  BY <1>1, <1>2 DEF PG!Fit, PG!StacksFit, PG!StackFits
<1>4. V.hidden = s.hidden
  BY <1>1, ViewParts
<1> QED BY <1>2, <1>3, <1>4

(* Only panes of stacked units are hidden.                                 *)
LEMMA HiddenInStack ==
  ASSUME NEW s, Sound(s), PG!HiddenFits(View(s)), NEW p \in s.hidden
  PROVE  InStack(s.stacks, UnitBy(s.groups, p))
<1>1. PICK q \in View(s).stacks : p \in PG!StackPanes(q)
  BY ViewParts DEF PG!HiddenFits
<1>2. PICK k \in s.stacks : q = SeenStack(s, k)
  BY ViewParts
<1>3. PICK u \in ToSet(k.units) : p \in Held(s, u)
  BY <1>1, <1>2, SeenParts DEF PG!StackPanes
<1> QED BY <1>3, HeldApart DEF InStack

(* show_stack_unit, then set_active_pane for a pane of the unit.           *)
LEMMA UnitTurnedAndFocused ==
  ASSUME NEW s, Sound(s), PG!Fit(View(s)), NEW u, Stacked(s, u),
         NEW r, r = ShowStackUnit(s, u), NEW n, n = FocusPane(r, UnitFocusPane(r, u))
  PROVE  View(n) = View(s) \/ ShowStep(View(s), View(n))
<1>1. Sound(r) /\ SameUnits(s, r) /\ r.tree = s.tree
  BY StackShown DEF Shows, Sound
<1>2. Turns(s, r) /\ \A k \in r.stacks : u \in ToSet(k.units) => u = ShownUnit(k)
  BY StackUnitTurns
<1>3. View(r) = View(s) \/ ShowStep(View(s), View(r))
  BY <1>1, <1>2, TurnSeen
<1>4. PG!Fit(View(r))
  BY <1>3, PG!ShowingFits DEF ShowStep
<1>5. PICK k \in r.stacks : u \in ToSet(k.units)
  BY <1>1, StackedIn DEF SameUnits, InStack
<1>6. Held(r, u) \cap r.hidden = {}
  BY <1>1, <1>2, <1>4, <1>5, UnitOnShow
<1>7. UnitFocusPane(r, u) \in Held(r, u)
  BY <1>1, <1>5, UnitFocused, StacksSeen
<1>8. Stays(r, n) /\ SameUnits(r, n) /\ n.tree = r.tree
  BY <1>1, <1>6, <1>7, FocusTurns
<1>9. View(n) = View(r)
  BY <1>8, StaysSeen
<1> QED BY <1>3, <1>9

-----------------------------------------------------------------------------
(* The calls that move the focus.                                          *)

(* Nothing changes for a layout, or a stack turns.                         *)
OnlyShows(s, n) == View(n) = View(s) \/ ShowStep(View(s), View(n))

LEMMA UnzoomedSeen ==
  ASSUME NEW s, Sound(s), NEW z, z = Unzoomed(s)
  PROVE  Sound(z) /\ View(z) = View(s) /\ SameUnits(s, z) /\ z.tree = s.tree /\ Stays(s, z)
<1>1. Sound(z) /\ Stays(s, z) /\ SameUnits(s, z) /\ z.tree = s.tree
  BY Unzooms DEF Activates, Sound, Stays
<1> QED BY <1>1, StaysSeen

LEMMA SetActivePaneShows ==
  ASSUME TabInv, NEW p, SetActivePane(p)
  PROVE  OnlyShows(tab, tab')
<1>1. Sound(tab) /\ tab' = FocusPane(tab, p)
  BY DEF TabInv, Sound, SetActivePane
<1>2. tab'.tree = tab.tree /\ SameUnits(tab, tab') /\ Turns(tab, tab')
  BY <1>1, FocusTurns
<1> QED BY <1>1, <1>2, TurnSeen DEF OnlyShows

LEMMA IndexFocusShows ==
  ASSUME NEW s, Sound(s), NEW p \in Leaves(s.tree),
         NEW n, n = FocusIndex(s, PositionOf(s.tree.order, p) - 1)
  PROVE  OnlyShows(s, n)
<1>1. PositionOf(s.tree.order, p) - 1 \in Nat
  BY IndexOfPane DEF Sound
<1>2. n.tree = s.tree /\ SameUnits(s, n) /\ Turns(s, n)
  BY <1>1, IndexTurns
<1> QED BY <1>2, TurnSeen DEF OnlyShows

LEMMA IndexCallsShow ==
  ASSUME TabInv, NEW p \in Ids,
         \/ SetActiveIdx(PositionOf(tab.tree.order, p) - 1)
         \/ ActivatePaneDirection(PositionOf(tab.tree.order, p) - 1)
  PROVE  OnlyShows(tab, tab')
<1>1. Sound(tab) /\ p \in Leaves(tab.tree)
  BY DEF TabInv, Sound, Ids
<1>2. PICK i : i = PositionOf(tab.tree.order, p) - 1
  OBVIOUS
<1>3. CASE SetActiveIdx(i)
  BY <1>1, <1>2, <1>3, IndexFocusShows DEF SetActiveIdx
<1>4. CASE ActivatePaneDirection(i)
  <2>1. PICK z : z = Unzoomed(tab)
    OBVIOUS
  <2>2. Sound(z) /\ View(z) = View(tab) /\ z.tree = tab.tree
    BY <1>1, <2>1, UnzoomedSeen
  <2>3. tab' = FocusIndex(z, i)
    BY <1>4, <2>1 DEF ActivatePaneDirection
  <2>4. OnlyShows(z, tab')
    BY <1>1, <1>2, <2>2, <2>3, IndexFocusShows
  <2> QED BY <2>2, <2>4 DEF OnlyShows
<1> QED BY <1>2, <1>3, <1>4

LEMMA StackCycleShows ==
  ASSUME TabInv, PG!Fit(View(tab)), NEW forward \in BOOLEAN, StackCycle(forward)
  PROVE  OnlyShows(tab, tab')
<1>1. PICK u : u = UnitOf(tab, ActivePane(tab))
  OBVIOUS
<1>2. PICK k : k = StackOf(tab, u)
  OBVIOUS
<1>3. PICK l, a : l = k.units /\ a = k.active
  OBVIOUS
<1>4. PICK to : to = (a + (IF forward THEN 1 ELSE Len(l) - 1)) % Len(l)
  OBVIOUS
<1>5. PICK s : s = Unzoomed(tab)
  OBVIOUS
<1>6. PICK new : new = l[to + 1]
  OBVIOUS
<1>7. PICK r : r = ShowStackUnit(s, new)
  OBVIOUS
<1>8. Stacked(tab, u) /\ tab' = FocusPane(r, UnitFocusPane(r, new))
  BY <1>1, <1>2, <1>3, <1>4, <1>5, <1>6, <1>7 DEF StackCycle
<1>9. Sound(tab) /\ StacksShaped(tab.stacks)
  BY DEF TabInv, Sound, Fits, UnitsFit
<1>10. k \in tab.stacks /\ l \in Seq(AnyUnit) /\ a \in Nat /\ a < Len(l)
  BY <1>2, <1>3, <1>8, <1>9, ItsStack
<1>11. to + 1 \in 1 .. Len(l)
  <2>1. Len(l) \in Nat /\ Len(l) > 0
    BY <1>10, LenProperties
  <2>2. a + (IF forward THEN 1 ELSE Len(l) - 1) \in Nat
    BY <1>10, <2>1
  <2>3. to \in 0 .. Len(l) - 1
    BY <1>4, <2>1, <2>2
  <2> QED BY <2>1, <2>3
<1>12. new \in ToSet(l)
  BY <1>6, <1>10, <1>11, SetOfSeq
<1>13. Sound(s) /\ View(s) = View(tab) /\ s.stacks = tab.stacks
  BY <1>5, <1>9, UnzoomedSeen DEF Stays
<1>14. Stacked(s, new)
  BY <1>3, <1>10, <1>12, <1>13 DEF Stacked
<1>15. OnlyShows(s, tab')
  BY <1>7, <1>8, <1>13, <1>14, UnitTurnedAndFocused DEF OnlyShows
<1> QED BY <1>13, <1>15 DEF OnlyShows

LEMMA ShowStackedPaneShows ==
  ASSUME TabInv, PG!Fit(View(tab)), NEW p, ShowStackedPane(p)
  PROVE  OnlyShows(tab, tab')
<1>1. PICK u : u = UnitOf(tab, p)
  OBVIOUS
<1>2. PICK r : r = ShowStackUnit(tab, u)
  OBVIOUS
<1>3. Stacked(tab, u) /\ tab' = FocusPane(r, UnitFocusPane(r, u))
  BY <1>1, <1>2 DEF ShowStackedPane
<1>4. Sound(tab)
  BY DEF TabInv, Sound
<1> QED BY <1>2, <1>3, <1>4, UnitTurnedAndFocused DEF OnlyShows

(* The zoom is no part of a layout; with stacks alone to hide panes, there *)
(* is no other pane to bring back.                                         *)
LEMMA ZoomShows ==
  ASSUME TabInv, PrepareSplit \/ ToggleZoom
  PROVE  OnlyShows(tab, tab')
<1>1. tab \in TabStates
  BY DEF TabInv, Fits
<1>2. /\ tab'.tree = tab.tree /\ tab'.groups = tab.groups
      /\ tab'.hidden = tab.hidden /\ tab'.stacks = tab.stacks
      /\ tab'.next_id = tab.next_id
  BY <1>1 DEF PrepareSplit, ToggleZoom, Unzoomed, ToggleZoomOf, TabStates
<1>3. SameUnits(tab, tab') /\ Stays(tab, tab')
  BY <1>2 DEF SameUnits, Stays
<1> QED BY <1>2, <1>3, StaysSeen DEF OnlyShows

LEMMA NothingToUnhide ==
  ASSUME TabInv, PG!HiddenFits(View(tab)), HidePanes = FALSE,
         NEW p \in Ids, UnhidePane(p) \/ HidePane(p)
  PROVE  FALSE
<1>1. Sound(tab)
  BY DEF TabInv, Sound
<1>2. UnhidePane(p)
  BY DEF HidePane
<1>3. p \in tab.hidden /\ ~ Stacked(tab, UnitOf(tab, p))
  BY <1>2 DEF UnhidePane
<1>4. InStack(tab.stacks, UnitOf(tab, p))
  BY <1>1, <1>3, HiddenInStack, UnitByGroups
<1> QED BY <1>3, <1>4, StackedIn

-----------------------------------------------------------------------------
(* A unit changes its name or its panes: the stacks stay as they are, with *)
(* one unit known under another name.                                      *)

(* Unit u of every stack of s is unit v in n. *)
Renamed(s, u, v, n) ==
  \/ u = v /\ n.stacks = s.stacks
  \/ Renames(s.stacks, u, v, n.stacks)

RenamedStack(q, A, B) ==
  [units |-> {IF x = A THEN B ELSE x : x \in q.units},
   shown |-> IF q.shown = A THEN B ELSE q.shown]

LEMMA RenamedStacks ==
  ASSUME NEW K, NEW A, NEW B
  PROVE  PG!RenameIn(K, A, B) = {RenamedStack(q, A, B) : q \in K}
BY DEF PG!RenameIn, RenamedStack

LEMMA StackRelabeled ==
  ASSUME NEW s, Sound(s), NEW k \in s.stacks, NEW u, Live(s, u), NEW v, NEW n,
         \A x : InStack(s.stacks, x) /\ x # u => Held(n, x) = Held(s, x),
         NEW j, j.active = k.active, DOMAIN j.units = DOMAIN k.units,
         \A i \in DOMAIN k.units : j.units[i] = IF k.units[i] = u THEN v ELSE k.units[i]
  PROVE  SeenStack(n, j) = RenamedStack(SeenStack(s, k), Held(s, u), Held(n, v))
<1>1. PICK l, a, A, B : l = k.units /\ a = k.active /\ A = Held(s, u) /\ B = Held(n, v)
  OBVIOUS
<1>2. /\ l \in Seq(AnyUnit) /\ a \in Nat /\ a < Len(l)
      /\ \A x \in ToSet(l) : InStack(s.stacks, x) /\ Live(s, x)
  BY <1>1, StacksSeen
<1>3. /\ DOMAIN l = 1 .. Len(l) /\ a + 1 \in DOMAIN l
      /\ \A i \in DOMAIN l : l[i] \in ToSet(l)
  BY <1>2, LenProperties DEF ToSet
<1>4. ASSUME NEW i \in DOMAIN l
      PROVE  Held(n, j.units[i]) = IF Held(s, l[i]) = A THEN B ELSE Held(s, l[i])
  <2>1. Held(s, l[i]) = A <=> l[i] = u
    BY <1>1, HeldApart
  <2>2. l[i] # u => Held(n, l[i]) = Held(s, l[i])
    BY <1>2, <1>3 DEF Live
  <2> QED BY <1>1, <2>1, <2>2
<1>5. SeenStack(n, j).shown = IF SeenStack(s, k).shown = A THEN B ELSE SeenStack(s, k).shown
  BY <1>1, <1>3, <1>4, SeenParts DEF ShownUnit
<1>6. SeenStack(n, j).units = {Held(n, j.units[i]) : i \in DOMAIN l}
  BY <1>1, SeenParts DEF ToSet
<1>7. SeenStack(s, k).units = {Held(s, l[i]) : i \in DOMAIN l}
  BY <1>1, SeenParts DEF ToSet
<1>8. SeenStack(n, j).units = {IF x = A THEN B ELSE x : x \in SeenStack(s, k).units}
  BY <1>4, <1>6, <1>7
<1> QED BY <1>1, <1>5, <1>8 DEF SeenStack, RenamedStack

(* The stack k with its unit u called v.                                   *)
CalledAs(k, u, v) == [k EXCEPT !.units = ReplaceAll(@, u, v)]

LEMMA StackCalledAs ==
  ASSUME NEW k \in StackTypes, NEW u, NEW v, NEW j, j = CalledAs(k, u, v)
  PROVE  /\ j.active = k.active /\ DOMAIN j.units = DOMAIN k.units
         /\ \A i \in DOMAIN k.units : j.units[i] = IF k.units[i] = u THEN v ELSE k.units[i]
<1>1. PICK l : l = k.units
  OBVIOUS
<1>2. j.active = k.active /\ j.units = ReplaceAll(l, u, v) /\ l \in Seq(AnyUnit)
  BY <1>1 DEF StackTypes, CalledAs
<1>3. DOMAIN l = 1 .. Len(l)
  BY <1>2, LenProperties
<1> QED BY <1>1, <1>2, <1>3 DEF ReplaceAll

LEMMA StacksRelabeled ==
  ASSUME NEW s, Sound(s), NEW u, Live(s, u), NEW v, NEW n, Renamed(s, u, v, n),
         \A x : InStack(s.stacks, x) /\ x # u => Held(n, x) = Held(s, x)
  PROVE  View(n).stacks = PG!RenameIn(View(s).stacks, Held(s, u), Held(n, v))
<1>1. PICK A, B : A = Held(s, u) /\ B = Held(n, v)
  OBVIOUS
<1>2. PG!RenameIn(View(s).stacks, A, B) = {RenamedStack(SeenStack(s, k), A, B) : k \in s.stacks}
  <2>1. View(s).stacks = {SeenStack(s, k) : k \in s.stacks}
    BY ViewParts
  <2>2. PG!RenameIn(View(s).stacks, A, B) = {RenamedStack(q, A, B) : q \in View(s).stacks}
    BY RenamedStacks
  <2> QED BY <2>1, <2>2
<1>3. CASE u = v /\ n.stacks = s.stacks
  <2>1. ASSUME NEW k \in s.stacks PROVE SeenStack(n, k) = RenamedStack(SeenStack(s, k), A, B)
    <3>1. \A i \in DOMAIN k.units : k.units[i] = IF k.units[i] = u THEN v ELSE k.units[i]
      BY <1>3
    <3> QED BY <1>1, <3>1, StackRelabeled
  <2>2. View(n).stacks = {SeenStack(n, k) : k \in s.stacks}
    BY <1>3, ViewParts
  <2> QED BY <1>1, <1>2, <2>1, <2>2
<1>4. CASE Renames(s.stacks, u, v, n.stacks)
  <2>1. ASSUME NEW k \in s.stacks
        PROVE  SeenStack(n, CalledAs(k, u, v)) = RenamedStack(SeenStack(s, k), A, B)
    <3>1. k \in StackTypes
      BY DEF Sound, Fits, UnitsFit, StacksShaped
    <3> QED BY <1>1, <3>1, StackCalledAs, StackRelabeled
  <2>2. View(n).stacks = {SeenStack(n, CalledAs(k, u, v)) : k \in s.stacks}
    <3>1. n.stacks = {CalledAs(k, u, v) : k \in s.stacks}
      BY <1>4 DEF Renames, CalledAs
    <3>2. PICK K, S : K = n.stacks /\ S = View(n).stacks
      OBVIOUS
    <3>3. S = {SeenStack(n, j) : j \in K} /\ K = {CalledAs(k, u, v) : k \in s.stacks}
      BY <3>1, <3>2, ViewParts
    <3>4. S = {SeenStack(n, CalledAs(k, u, v)) : k \in s.stacks}
      BY <3>3
    <3> QED BY <3>2, <3>4
  <2> QED BY <1>1, <1>2, <2>1, <2>2
<1> QED BY <1>3, <1>4 DEF Renamed

LEMMA StacksUnchanged ==
  ASSUME NEW s, Sound(s), NEW n, n.stacks = s.stacks,
         \A x : InStack(s.stacks, x) => Held(n, x) = Held(s, x)
  PROVE  View(n).stacks = View(s).stacks
<1>1. ASSUME NEW k \in s.stacks PROVE SeenStack(n, k) = SeenStack(s, k)
  <2>1. \A x \in ToSet(k.units) : Held(n, x) = Held(s, x)
    BY StacksSeen
  <2>2. ShownUnit(k) \in ToSet(k.units)
    BY StacksSeen
  <2> QED BY <2>1, <2>2 DEF SeenStack
<1>2. {SeenStack(n, k) : k \in s.stacks} = {SeenStack(s, k) : k \in s.stacks}
  BY <1>1
<1>3. View(n).stacks = {SeenStack(n, k) : k \in s.stacks}
  BY ViewParts
<1> QED BY <1>2, <1>3, ViewParts

GroupUnits(m) == {GroupUnit(g) : g \in DOMAIN m}

LEMMA GroupsOfUnits ==
  ASSUME NEW s
  PROVE  View(s).groups = {Held(s, x) : x \in GroupUnits(s.groups)}
BY ViewParts DEF GroupUnits

(* Unit u of s has become v in n, a group when it is in G.                 *)
Becomes(s, u, v, G, n) ==
  /\ Live(s, u) /\ Renamed(s, u, v, n)
  /\ \A x : Live(s, x) /\ x # u => Held(n, x) = Held(s, x)
  /\ GroupUnits(n.groups) = (GroupUnits(s.groups) \ {u}) \cup G

LEMMA UnitChanged ==
  ASSUME NEW s, Sound(s), NEW u, NEW v, NEW G, NEW n, Becomes(s, u, v, G, n)
  PROVE  /\ View(n).stacks = PG!RenameIn(View(s).stacks, Held(s, u), Held(n, v))
         /\ View(n).groups = (View(s).groups \ {Held(s, u)}) \cup {Held(n, x) : x \in G}
<1>1. \A x : InStack(s.stacks, x) => Live(s, x)
  BY LiveUnits
<1>2. View(n).stacks = PG!RenameIn(View(s).stacks, Held(s, u), Held(n, v))
  BY <1>1, StacksRelabeled DEF Becomes
<1>3. PICK D, A : D = GroupUnits(s.groups) /\ A = Held(s, u)
  OBVIOUS
<1>4. \A x \in D : Live(s, x)
  BY <1>3, LiveUnits DEF GroupUnits
<1>5. \A x \in D \ {u} : Held(n, x) = Held(s, x) /\ Held(s, x) # A
  BY <1>3, <1>4, HeldApart DEF Becomes
<1>6. {Held(n, x) : x \in D \ {u}} = {Held(s, x) : x \in D} \ {A}
  BY <1>3, <1>5
<1>7. View(s).groups = {Held(s, x) : x \in D}
  BY <1>3, GroupsOfUnits
<1>8. GroupUnits(n.groups) = (D \ {u}) \cup G
  BY <1>3 DEF Becomes
<1>9. View(n).groups = {Held(n, x) : x \in D \ {u}} \cup {Held(n, x) : x \in G}
  <2>1. PICK E : E = GroupUnits(n.groups)
    OBVIOUS
  <2>2. View(n).groups = {Held(n, x) : x \in E}
    BY <2>1, GroupsOfUnits
  <2> QED BY <1>8, <2>1, <2>2
<1> QED BY <1>2, <1>3, <1>6, <1>7, <1>9

(* The panes of a unit, from the members of the groups.                    *)
LEMMA HeldByMembers ==
  ASSUME NEW n, Sound(n)
  PROVE  /\ \A g \in DOMAIN n.groups : Held(n, GroupUnit(g)) = MembersIn(n.groups, g)
         /\ \A p \in Leaves(n.tree) : (\A g \in DOMAIN n.groups : p \notin MembersIn(n.groups, g))
                                        => Held(n, PaneUnit(p)) = {p}
<1>1. GroupsFit(n.groups, n.next_id, Leaves(n.tree))
  BY DEF Sound, Fits, UnitsFit
<1>2. \A g \in DOMAIN n.groups : Held(n, GroupUnit(g)) = MembersIn(n.groups, g)
  BY LiveUnits
<1>3. ASSUME NEW p \in Leaves(n.tree), \A g \in DOMAIN n.groups : p \notin MembersIn(n.groups, g)
      PROVE  Held(n, PaneUnit(p)) = {p}
  <2>1. \A q : UnitBy(n.groups, q) = PaneUnit(p) => q = p
    BY <1>1, UnitOnly, UnitKinds
  <2>2. UnitBy(n.groups, p) = PaneUnit(p)
    BY <1>1, <1>3, UnitOnly
  <2> QED BY <2>1, <2>2 DEF Held
<1> QED BY <1>2, <1>3

(* A live unit is a group, or a pane outside of all groups.                *)
LEMMA LiveKinds ==
  ASSUME NEW s, Sound(s), NEW u, Live(s, u)
  PROVE  \/ \E g \in DOMAIN s.groups : u = GroupUnit(g) /\ Held(s, u) = MembersIn(s.groups, g)
         \/ \E p \in Leaves(s.tree) : /\ u = PaneUnit(p) /\ Held(s, u) = {p}
                                      /\ \A g \in DOMAIN s.groups : p \notin MembersIn(s.groups, g)
<1>1. IsUnitOf(s, Leaves(s.tree), u, UnitPanes(s, u)) /\ ToSet(UnitPanes(s, u)) = Held(s, u)
  BY HeldPanes
<1> QED BY <1>1, LiveUnits DEF IsUnitOf

-----------------------------------------------------------------------------
(* A pane is split off another one.                                        *)

(* adopt: what becomes of the groups m and the stacks K, k the next id.    *)
JoinsGroupOf(m, K, p, new, n) ==
  \E g \in DOMAIN m :
    /\ p \in MembersIn(m, g) /\ n.stacks = K /\ DOMAIN n.groups = DOMAIN m
    /\ MembersIn(n.groups, g) = MembersIn(m, g) \cup {new}
    /\ \A h \in DOMAIN m : h # g => MembersIn(n.groups, h) = MembersIn(m, h)

MakesGroup(m, K, k, p, new, n) ==
  /\ \A g \in DOMAIN m : p \notin MembersIn(m, g)
  /\ InStack(K, PaneUnit(p)) /\ Renames(K, PaneUnit(p), GroupUnit(k), n.stacks)
  /\ DOMAIN n.groups = DOMAIN m \cup {k} /\ k \notin DOMAIN m
  /\ MembersIn(n.groups, k) = {p, new}
  /\ \A h \in DOMAIN m : MembersIn(n.groups, h) = MembersIn(m, h)

StaysAlone(m, K, p, n) ==
  /\ \A g \in DOMAIN m : p \notin MembersIn(m, g)
  /\ ~ InStack(K, PaneUnit(p)) /\ n.groups = m /\ n.stacks = K

Joins(m, K, k, p, new, n) ==
  \/ JoinsGroupOf(m, K, p, new, n)
  \/ MakesGroup(m, K, k, p, new, n)
  \/ StaysAlone(m, K, p, n)

LEMMA AdoptedExactly ==
  ASSUME NEW s, NEW L, Fits(s, L), NEW p \in L, NEW new \in Pane \ L,
         NEW n, n = Adopt(s, p, new)
  PROVE  Joins(s.groups, s.stacks, s.next_id, p, new, n) /\ n.hidden = s.hidden
<1>1. PICK m, K, k, u : m = s.groups /\ K = s.stacks /\ k = s.next_id /\ u = UnitBy(m, p)
  OBVIOUS
<1>2. /\ GroupsFit(m, k, L) /\ m \in GroupMaps /\ DOMAIN m \subseteq Nat /\ k \in Nat
      /\ s \in TabStates
  BY <1>1, GroupTyped DEF Fits, UnitsFit, GroupsFit, TabStates
<1>3. UnitOf(s, p) = u
  BY <1>1, UnitByGroups
<1>4. InGroup(m, p, u) \/ InNoGroup(m, p, u)
  BY <1>1, <1>2, UnitIs
<1>5. CASE InGroup(m, p, u)
  <2>1. PICK g \in DOMAIN m : u = GroupUnit(g) /\ p \in MembersIn(m, g)
    BY <1>5 DEF InGroup
  <2>2. PICK ps \in Seq(Pane) : ps = m[g].members
    BY <1>2, GroupTyped
  <2>3. PICK m2 : m2 = [m EXCEPT ![g].members = Append(ps, new)]
    OBVIOUS
  <2>4. n = [s EXCEPT !.groups = m2]
    <3>1. n = [s EXCEPT !.groups[g].members = Append(@, new)]
      BY <1>3, <2>1, UnitKinds DEF Adopt
    <3> QED BY <1>1, <1>2, <2>2, <2>3, <3>1 DEF TabStates
  <2>5. n.groups = m2 /\ n.stacks = K /\ n.hidden = s.hidden
    BY <1>1, <1>2, <2>4 DEF TabStates
  <2>6. ToSet(Append(ps, new)) = ToSet(ps) \cup {new}
    <3>1. PICK r : r = Append(ps, new)
      OBVIOUS
    <3>2. new \in Pane
      OBVIOUS
    <3>3. IsLonger(Pane, ps, new, r)
      BY <2>2, <3>1, <3>2, Appended
    <3> QED BY <3>1, <3>3 DEF IsLonger
  <2>7. DOMAIN m2 = DOMAIN m /\ \A h \in DOMAIN m : h # g => m2[h] = m[h]
    BY <2>3
  <2>8. m2[g].members = Append(ps, new)
    <3>1. PICK last : m[g] = [members |-> ps, last_active |-> last]
      BY <1>2, <2>2, GroupTyped
    <3>2. m2[g] = [m[g] EXCEPT !.members = Append(ps, new)]
      BY <2>3
    <3> QED BY <3>1, <3>2
  <2>9. JoinsGroupOf(m, K, p, new, n)
    BY <2>1, <2>2, <2>5, <2>6, <2>7, <2>8 DEF JoinsGroupOf, MembersIn
  <2> QED BY <1>1, <2>5, <2>9 DEF Joins
<1>6. CASE InNoGroup(m, p, u)
  <2>1. u = PaneUnit(p) /\ u.kind = "pane" /\ \A g \in DOMAIN m : p \notin MembersIn(m, g)
    BY <1>6, UnitKinds DEF InNoGroup
  <2>2. CASE ~ Stacked(s, u)
    <3>1. n = s
      BY <1>3, <2>1, <2>2, UnitKinds DEF Adopt
    <3>2. ~ InStack(K, u)
      BY <1>1, <2>2, StackedIn
    <3> QED BY <1>1, <2>1, <3>1, <3>2 DEF Joins, StaysAlone
  <2>3. CASE Stacked(s, u)
    <3>1. PICK c : c = CreateGroup(s, <<p, new>>, new)
      OBVIOUS
    <3>2. n = RenameUnit(c, u, GroupUnit(k))
      BY <1>1, <1>3, <2>1, <2>3, <3>1, UnitKinds DEF Adopt
    <3>3. PICK m2 : m2 = [g \in DOMAIN m \cup {k} |->
                            IF g = k THEN [members |-> <<p, new>>, last_active |-> new] ELSE m[g]]
      OBVIOUS
    <3>4. c = [s EXCEPT !.groups = m2, !.next_id = k + 1]
      BY <1>1, <1>2, <3>1, <3>3 DEF CreateGroup, TabStates
    <3>5. c.groups = m2 /\ c.stacks = K /\ c.hidden = s.hidden
          /\ DOMAIN c = DOMAIN s
      BY <1>1, <1>2, <3>4 DEF TabStates
    <3>6. n.groups = m2 /\ n.hidden = s.hidden
          /\ n.stacks = {[j EXCEPT !.units = ReplaceAll(@, u, GroupUnit(k))] : j \in K}
      BY <1>2, <3>2, <3>5 DEF RenameUnit, TabStates
    <3>7. k \notin DOMAIN m
      BY <1>2 DEF GroupsFit
    <3>8. InStack(K, u)
      BY <1>1, <2>3, StackedIn
    <3>9. MembersIn(m2, k) = {p, new}
      <4>1. m2[k].members = <<p, new>>
        BY <3>3
      <4>2. ToSet(<<p, new>>) = {p, new}
        BY DEF ToSet
      <4> QED BY <4>1, <4>2 DEF MembersIn
    <3>10. DOMAIN m2 = DOMAIN m \cup {k} /\ \A h \in DOMAIN m : MembersIn(m2, h) = MembersIn(m, h)
      BY <3>3, <3>7 DEF MembersIn
    <3>11. Renames(K, u, GroupUnit(k), n.stacks)
      BY <3>6 DEF Renames
    <3> QED BY <1>1, <2>1, <3>6, <3>7, <3>8, <3>9, <3>10, <3>11 DEF Joins, MakesGroup
  <2> QED BY <2>2, <2>3
<1> QED BY <1>4, <1>5, <1>6

(* All units but u are the same in n. *)
Spares(s, u, n) ==
  /\ \A h \in DOMAIN s.groups : GroupUnit(h) # u =>
       h \in DOMAIN n.groups /\ MembersIn(n.groups, h) = MembersIn(s.groups, h)
  /\ \A q \in Leaves(s.tree) :
       PaneUnit(q) # u /\ (\A g \in DOMAIN s.groups : q \notin MembersIn(s.groups, g)) =>
         /\ q \in Leaves(n.tree)
         /\ \A g \in DOMAIN n.groups : q \notin MembersIn(n.groups, g)

LEMMA UnitsSpared ==
  ASSUME NEW s, Sound(s), NEW n, Sound(n), NEW u, Spares(s, u, n)
  PROVE  \A x : Live(s, x) /\ x # u => Held(n, x) = Held(s, x)
<1>1. ASSUME NEW x, Live(s, x), x # u PROVE Held(n, x) = Held(s, x)
  <2>1. ASSUME NEW g \in DOMAIN s.groups, x = GroupUnit(g), Held(s, x) = MembersIn(s.groups, g)
        PROVE  Held(n, x) = Held(s, x)
    BY <1>1, <2>1, HeldByMembers DEF Spares
  <2>2. ASSUME NEW p \in Leaves(s.tree), x = PaneUnit(p), Held(s, x) = {p},
               \A g \in DOMAIN s.groups : p \notin MembersIn(s.groups, g)
        PROVE  Held(n, x) = Held(s, x)
    BY <1>1, <2>2, HeldByMembers DEF Spares
  <2> QED BY <1>1, <2>1, <2>2, LiveKinds
<1> QED BY <1>1

LEMMA LeafSplit ==
  ASSUME NEW t, NEW p, NEW new, NEW second
  PROVE  SplitLeaf(t, p, new, second).sets =
           {IF p \in S THEN S \cup {new} ELSE S : S \in t.sets} \cup {{p}, {new}}
<1>1. ToSet(<<new>>) = {new} /\ DOMAIN <<new>> = {1} /\ <<new>>[1] = new /\ Len(<<new>>) = 1
  BY DEF ToSet
<1>2. ChainSets(<<new>>) = {{new}}
  <2>1. {{<<new>>[j] : j \in i .. 1} : i \in {1}} = {{new}}
    BY <1>1
  <2> QED BY <1>1, <2>1 DEF ChainSets
<1>3. Widen(t.sets, {p}, {new}) = {IF p \in S THEN S \cup {new} ELSE S : S \in t.sets}
  BY DEF Widen
<1> QED BY <1>1, <1>2, <1>3 DEF SplitLeaf, PairWith

LEMMA RootSplit ==
  ASSUME NEW t, IsTree(t), Leaves(t) # {}, NEW new, NEW second
  PROVE  SplitRoot(t, new, second).sets = t.sets \cup {{new}, Leaves(t) \cup {new}}
<1>1. ToSet(<<new>>) = {new} /\ DOMAIN <<new>> = {1} /\ <<new>>[1] = new /\ Len(<<new>>) = 1
  BY DEF ToSet
<1>2. ChainSets(<<new>>) = {{new}}
  <2>1. {{<<new>>[j] : j \in i .. 1} : i \in {1}} = {{new}}
    BY <1>1
  <2> QED BY <1>1, <2>1 DEF ChainSets
<1>3. PICK L, K : L = Leaves(t) /\ K = t.sets
  OBVIOUS
<1>4. L \in K /\ \A S \in K : L \subseteq S <=> S = L
  BY <1>3 DEF IsTree, Leaves
<1>5. Widen(K, L, {new}) = (K \ {L}) \cup {L \cup {new}}
  <2>1. \A S \in K : (IF L \subseteq S THEN S \cup {new} ELSE S) = IF S = L THEN L \cup {new} ELSE S
    BY <1>4
  <2>2. ASSUME NEW X
        PROVE  X \in Widen(K, L, {new}) <=> \E S \in K : X = IF S = L THEN L \cup {new} ELSE S
    BY <2>1 DEF Widen
  <2>3. ASSUME NEW X
        PROVE  X \in Widen(K, L, {new}) <=> X \in (K \ {L}) \cup {L \cup {new}}
    <3>1. PICK A : A = L \cup {new}
      OBVIOUS
    <3>2. (\E S \in K : X = IF S = L THEN A ELSE S) <=> X = A \/ X \in K \ {L}
      BY <1>4
    <3> QED BY <2>2, <3>1, <3>2
  <2> QED BY <2>3
<1>6. SplitRoot(t, new, second).sets = Widen(K, L, {new}) \cup {L} \cup {{new}}
  BY <1>1, <1>2, <1>3 DEF SplitRoot, PairWith
<1>7. PICK A : A = L \cup {new}
  OBVIOUS
<1>8. SplitRoot(t, new, second).sets = K \cup {{new}, A}
  <2>1. PICK W, B : W = SplitRoot(t, new, second).sets /\ B = {new}
    OBVIOUS
  <2>2. W = ((K \ {L}) \cup {A}) \cup {L} \cup {B}
    BY <1>5, <1>6, <1>7, <2>1
  <2>3. W = K \cup {B, A}
    BY <1>4, <2>2
  <2> QED BY <2>1, <2>3
<1> QED BY <1>3, <1>7, <1>8

(* The new pane in the unit of p, as the layout has it.                    *)
LEMMA JoinsSeen ==
  ASSUME NEW s, Sound(s), NEW p \in Leaves(s.tree), NEW new \in Pane \ Leaves(s.tree),
         NEW n, Sound(n), Leaves(n.tree) = Leaves(s.tree) \cup {new}, n.hidden = s.hidden,
         Joins(s.groups, s.stacks, s.next_id, p, new, n),
         n.tree.sets = {IF p \in S THEN S \cup {new} ELSE S : S \in s.tree.sets} \cup {{p}, {new}}
  PROVE  View(n) = PG!Insert(View(s), p, new)
<1>1. PICK m, u, U, V : m = s.groups /\ u = UnitBy(m, p) /\ U = Held(s, u) /\ V = View(s)
  OBVIOUS
<1>2. /\ PG!UnitOf(V, p) = U /\ Live(s, u)
      /\ U \in V.groups <=> \E g \in DOMAIN m : u = GroupUnit(g)
      /\ PG!Stacked(V, U) <=> InStack(s.stacks, u)
  <2>1. Live(s, u)
    BY <1>1, LiveUnits
  <2>2. PG!UnitOf(V, p) = U
    BY <1>1, UnitsSeen
  <2> QED BY <1>1, <2>1, <2>2, UnitsSeen
<1>3. GroupsFit(m, s.next_id, Leaves(s.tree)) /\ DOMAIN m \subseteq Nat
  BY <1>1, GroupTyped DEF Sound, Fits, UnitsFit, GroupsFit
<1>4. PICK N : N = View(n)
  OBVIOUS
<1>5. /\ N.subtrees = {IF p \in S THEN S \cup {new} ELSE S : S \in V.subtrees} \cup {{p}, {new}}
      /\ N.hidden = V.hidden
  BY <1>1, <1>4, ViewParts
<1>6. SUFFICES
        LET joins == U \in V.groups \/ PG!Stacked(V, U)
        IN  /\ N.groups = IF joins THEN (V.groups \ {U}) \cup {U \cup {new}} ELSE V.groups
            /\ N.stacks = IF joins THEN PG!RenameIn(V.stacks, U, U \cup {new}) ELSE V.stacks
  BY <1>1, <1>2, <1>4, <1>5, LayoutsEqual DEF PG!Insert
<1>7. ASSUME NEW v, Becomes(s, u, v, {v}, n), Held(n, v) = U \cup {new},
             U \in V.groups \/ PG!Stacked(V, U)
      PROVE  /\ N.groups = (V.groups \ {U}) \cup {U \cup {new}}
             /\ N.stacks = PG!RenameIn(V.stacks, U, U \cup {new})
  <2>1. PICK G : G = {v}
    OBVIOUS
  <2>2. /\ View(n).stacks = PG!RenameIn(View(s).stacks, Held(s, u), Held(n, v))
        /\ View(n).groups = (View(s).groups \ {Held(s, u)}) \cup {Held(n, x) : x \in G}
    <3>1. Becomes(s, u, v, G, n)
      BY <1>7, <2>1
    <3> QED BY <3>1, UnitChanged
  <2>3. {Held(n, x) : x \in G} = {Held(n, v)}
    BY <2>1
  <2> QED BY <1>1, <1>4, <1>7, <2>2, <2>3
<1>8. CASE JoinsGroupOf(m, s.stacks, p, new, n)
  <2>1. PICK g \in DOMAIN m :
          /\ p \in MembersIn(m, g) /\ n.stacks = s.stacks /\ DOMAIN n.groups = DOMAIN m
          /\ MembersIn(n.groups, g) = MembersIn(m, g) \cup {new}
          /\ \A h \in DOMAIN m : h # g => MembersIn(n.groups, h) = MembersIn(m, h)
    BY <1>8 DEF JoinsGroupOf
  <2>2. u = GroupUnit(g) /\ U = MembersIn(m, g)
    BY <1>1, <1>3, <2>1, UnitOnly, LiveUnits
  <2>3. Spares(s, u, n)
    <3>1. \A h \in DOMAIN m : GroupUnit(h) # u => h # g
      BY <2>2
    <3>2. ASSUME NEW q \in Leaves(s.tree), \A h \in DOMAIN m : q \notin MembersIn(m, h),
                 NEW h \in DOMAIN n.groups
          PROVE  q \notin MembersIn(n.groups, h)
      BY <2>1, <3>2
    <3> QED BY <1>1, <2>1, <3>1, <3>2 DEF Spares
  <2>4. \A x : Live(s, x) /\ x # u => Held(n, x) = Held(s, x)
    BY <2>3, UnitsSpared
  <2>5. GroupUnits(n.groups) = (GroupUnits(m) \ {u}) \cup {u}
    BY <2>1, <2>2 DEF GroupUnits
  <2>6. Becomes(s, u, u, {u}, n)
    BY <1>1, <1>2, <2>1, <2>4, <2>5 DEF Becomes, Renamed
  <2>7. Held(n, u) = U \cup {new}
    BY <2>1, <2>2, HeldByMembers
  <2> QED BY <1>2, <1>7, <2>2, <2>6, <2>7
<1>9. CASE MakesGroup(m, s.stacks, s.next_id, p, new, n)
  <2>1. PICK k, v : k = s.next_id /\ v = GroupUnit(k)
    OBVIOUS
  <2>2. /\ \A g \in DOMAIN m : p \notin MembersIn(m, g)
        /\ InStack(s.stacks, PaneUnit(p)) /\ Renames(s.stacks, PaneUnit(p), v, n.stacks)
        /\ DOMAIN n.groups = DOMAIN m \cup {k} /\ k \notin DOMAIN m
        /\ MembersIn(n.groups, k) = {p, new}
        /\ \A h \in DOMAIN m : MembersIn(n.groups, h) = MembersIn(m, h)
    BY <1>9, <2>1 DEF MakesGroup
  <2>3. u = PaneUnit(p) /\ U = {p}
    <3>1. Held(s, PaneUnit(p)) = {p}
      BY <1>1, <2>2, HeldByMembers
    <3> QED BY <1>1, <1>3, <2>2, <3>1, UnitOnly
  <2>4. Spares(s, u, n)
    <3>1. ASSUME NEW q \in Leaves(s.tree), PaneUnit(q) # u,
                 \A h \in DOMAIN m : q \notin MembersIn(m, h), NEW h \in DOMAIN n.groups
          PROVE  q \notin MembersIn(n.groups, h)
      BY <2>2, <2>3, <3>1
    <3> QED BY <1>1, <2>2, <3>1 DEF Spares
  <2>5. \A x : Live(s, x) /\ x # u => Held(n, x) = Held(s, x)
    BY <2>4, UnitsSpared
  <2>6. GroupUnits(n.groups) = (GroupUnits(m) \ {u}) \cup {v}
    <3>1. u \notin GroupUnits(m)
      BY <2>3, UnitKinds DEF GroupUnits
    <3>2. GroupUnits(n.groups) = GroupUnits(m) \cup {v}
      BY <2>1, <2>2 DEF GroupUnits
    <3> QED BY <3>1, <3>2
  <2>7. Becomes(s, u, v, {v}, n)
    BY <1>1, <1>2, <2>2, <2>3, <2>5, <2>6 DEF Becomes, Renamed
  <2>8. Held(n, v) = U \cup {new}
    <3>1. Held(n, v) = MembersIn(n.groups, k)
      BY <2>1, <2>2, HeldByMembers
    <3> QED BY <2>2, <2>3, <3>1
  <2> QED BY <1>2, <1>7, <2>2, <2>3, <2>7, <2>8
<1>10. CASE StaysAlone(m, s.stacks, p, n)
  <2>1. /\ \A g \in DOMAIN m : p \notin MembersIn(m, g)
        /\ ~ InStack(s.stacks, PaneUnit(p)) /\ n.groups = m /\ n.stacks = s.stacks
    BY <1>10 DEF StaysAlone
  <2>2. u = PaneUnit(p)
    BY <1>1, <1>3, <2>1, UnitOnly
  <2>3. U \notin V.groups /\ ~ PG!Stacked(V, U)
    BY <1>2, <2>1, <2>2, UnitKinds
  <2>4. Spares(s, PaneUnit(new), n)
    BY <1>1, <2>1 DEF Spares
  <2>5. \A x : Live(s, x) => x # PaneUnit(new)
    BY LiveKinds, UnitKinds
  <2>6. \A x : Live(s, x) => Held(n, x) = Held(s, x)
    BY <2>4, <2>5, UnitsSpared
  <2>7. N.stacks = V.stacks
    BY <1>1, <1>4, <2>1, <2>6, StacksUnchanged, LiveUnits
  <2>8. N.groups = V.groups
    <3>1. \A x \in GroupUnits(m) : Held(n, x) = Held(s, x)
      BY <1>1, <2>6, LiveUnits DEF GroupUnits
    <3>2. {Held(n, x) : x \in GroupUnits(m)} = {Held(s, x) : x \in GroupUnits(m)}
      BY <3>1
    <3>3. View(n).groups = {Held(n, x) : x \in GroupUnits(m)}
      BY <2>1, GroupsOfUnits
    <3>4. View(s).groups = {Held(s, x) : x \in GroupUnits(m)}
      BY <1>1, GroupsOfUnits
    <3> QED BY <1>1, <1>4, <3>2, <3>3, <3>4
  <2> QED BY <2>3, <2>7, <2>8
<1> QED BY <1>1, <1>8, <1>9, <1>10 DEF Joins

InsertsIn(s, p, new, top, n) ==
  /\ Sound(n) /\ Leaves(n.tree) = Leaves(s.tree) \cup {new} /\ n.hidden = s.hidden
  /\ IF top /\ Len(s.tree.order) > 1 THEN View(n) = PG!InsertAtRoot(View(s), new)
     ELSE View(n) = PG!Insert(View(s), p, new)

LEMMA InsertSeen ==
  ASSUME NEW s, Sound(s), NEW p \in Leaves(s.tree), NEW new \in Pane \ Leaves(s.tree),
         NEW second \in BOOLEAN, NEW top \in BOOLEAN,
         NEW n, n = SplitAndInsert(s, p, new, second, top)
  PROVE  InsertsIn(s, p, new, top, n)
<1>1. PICK L, M : L = Leaves(s.tree) /\ M = L \cup {new}
  OBVIOUS
<1>2. /\ s \in TabStates /\ s.tree \in PaneTrees /\ IsTree(s.tree) /\ s.active \in Nat
      /\ s.zoomed \in L \cup {None} /\ Fits(s, L) /\ Len(s.tree.order) \in Nat
      /\ PositionOf(s.tree.order, p) - 1 \in Nat
  BY <1>1, TreePlaces DEF Sound, Fits, TabStates
<1>3. Sound(n) /\ Leaves(n.tree) = M
  <2>1. Inserts(s, new, n)
    BY PaneInserted DEF Sound
  <2> QED BY <1>1, <2>1 DEF Inserts, Sound
<1>4. CASE top /\ Len(s.tree.order) > 1
  <2>1. PICK t, a : /\ t = SplitRoot(s.tree, new, second)
                    /\ a = IF second THEN Len(s.tree.order) ELSE 0
    OBVIOUS
  <2>2. n = [s EXCEPT !.tree = t, !.active = a]
    BY <1>2, <1>4, <2>1 DEF SplitAndInsert, TabStates
  <2>3. /\ n.tree = t /\ n.hidden = s.hidden /\ n.groups = s.groups /\ n.stacks = s.stacks
    BY <1>2, <2>2 DEF TabStates
  <2>4. t.sets = s.tree.sets \cup {{new}, M}
    BY <1>1, <1>2, <2>1, RootSplit
  <2>5. Spares(s, PaneUnit(new), n)
    BY <1>1, <1>3, <2>3 DEF Spares
  <2>6. \A x : Live(s, x) => x # PaneUnit(new)
    BY LiveKinds, UnitKinds
  <2>7. \A x : Live(s, x) => Held(n, x) = Held(s, x)
    BY <1>3, <2>5, <2>6, UnitsSpared
  <2>8. View(n).stacks = View(s).stacks
    BY <2>3, <2>7, StacksUnchanged, LiveUnits
  <2>9. View(n).groups = View(s).groups
    <3>1. PICK D : D = GroupUnits(s.groups)
      OBVIOUS
    <3>2. \A x \in D : Held(n, x) = Held(s, x)
      BY <2>7, <3>1, LiveUnits DEF GroupUnits
    <3>3. {Held(n, x) : x \in D} = {Held(s, x) : x \in D}
      BY <3>2
    <3>4. View(n).groups = {Held(n, x) : x \in D} /\ View(s).groups = {Held(s, x) : x \in D}
      BY <2>3, <3>1, GroupsOfUnits
    <3> QED BY <3>3, <3>4
  <2>10. PICK V, N : V = View(s) /\ N = View(n)
    OBVIOUS
  <2>11. /\ N.subtrees = V.subtrees \cup {{new}, PG!Panes(V) \cup {new}}
         /\ N.hidden = V.hidden /\ N.groups = V.groups /\ N.stacks = V.stacks
    BY <1>1, <2>3, <2>4, <2>8, <2>9, <2>10, ViewParts
  <2>12. N = PG!InsertAtRoot(V, new)
    BY <2>10, <2>11 DEF PG!InsertAtRoot, View
  <2> QED BY <1>1, <1>3, <1>4, <2>3, <2>10, <2>12 DEF InsertsIn
<1>5. CASE ~ (top /\ Len(s.tree.order) > 1)
  <2>1. PICK t, a : /\ t = SplitLeaf(s.tree, p, new, second)
                    /\ a = IF second THEN PositionOf(s.tree.order, p) ELSE s.active
    OBVIOUS
  <2>2. Grows(s.tree, <<new>>, t) /\ ToSet(<<new>>) = {new} /\ Len(<<new>>) = 1
    BY <1>2, <2>1, SplitGrows
  <2>3. t \in PaneTrees /\ IsTree(t) /\ Leaves(t) = M /\ a \in Nat
    <3>1. PositionOf(s.tree.order, p) \in Nat
      BY <1>1, <1>2, TreePlaces
    <3> QED BY <1>1, <1>2, <2>1, <2>2, <3>1 DEF Grows
  <2>4. PICK b : b = [s EXCEPT !.tree = t, !.active = a]
    OBVIOUS
  <2>5. n = Adopt(b, p, new)
    <3>1. PICK i : i = PositionOf(s.tree.order, p) /\ i \in Nat
      BY <1>1, <1>2, TreePlaces
    <3>2. n = Adopt([s EXCEPT !.tree = SplitLeaf(@, p, new, second),
                              !.active = IF second THEN (i - 1) + 1 ELSE @], p, new)
      BY <1>5, <3>1 DEF SplitAndInsert
    <3>3. (i - 1) + 1 = i
      BY <3>1
    <3>4. [s EXCEPT !.tree = SplitLeaf(@, p, new, second),
                    !.active = IF second THEN i ELSE @] = b
      BY <1>2, <2>1, <2>4, <3>1 DEF TabStates
    <3> QED BY <3>2, <3>3, <3>4
  <2>6. s.zoomed \in Leaves(t) \cup {None} /\ Retree(s, t, a, b)
    BY <1>1, <1>2, <2>3, <2>4 DEF Retree
  <2>7. Retrees(s, L, t, a, b)
    BY <1>2, <2>3, <2>6, Retreed
  <2>8. Joins(s.groups, s.stacks, s.next_id, p, new, n) /\ n.hidden = s.hidden /\ n.tree = t
    <3>1. Fits(b, L) /\ p \in L /\ new \in Pane \ L
      BY <1>1, <2>7 DEF Retrees
    <3>2. Joins(b.groups, b.stacks, b.next_id, p, new, n) /\ n.hidden = b.hidden
      BY <2>5, <3>1, AdoptedExactly
    <3>3. Adopts(b, p, new, M, n)
      BY <1>1, <2>5, <3>1, Adopted
    <3> QED BY <2>7, <3>2, <3>3 DEF Retrees, Adopts
  <2>9. t.sets = {IF p \in S THEN S \cup {new} ELSE S : S \in s.tree.sets} \cup {{p}, {new}}
    BY <2>1, LeafSplit
  <2>10. View(n) = PG!Insert(View(s), p, new)
    BY <1>1, <1>3, <2>8, <2>9, JoinsSeen
  <2> QED BY <1>1, <1>3, <1>5, <2>8, <2>10 DEF InsertsIn
<1> QED BY <1>4, <1>5

(* PaneGroups: Split and SplitTop. *)
SplitStep(V, W) ==
  \E e \in PG!Panes(V), new \in Pane \ PG!Panes(V) : e \notin V.hidden /\ W = PG!Insert(V, e, new)

SplitTopStep(V, W) ==
  \E new \in Pane \ PG!Panes(V) : V.subtrees # {} /\ W = PG!InsertAtRoot(V, new)

(* The pane of a tab that has no other is on show: a stack needs two units.*)
LEMMA OnlyPaneOnShow ==
  ASSUME NEW s, Sound(s), PG!Fit(View(s)), PG!HiddenFits(View(s)),
         NEW p \in Leaves(s.tree), \A q \in Leaves(s.tree) : q = p
  PROVE  p \notin s.hidden
<1>1. SUFFICES ASSUME p \in s.hidden PROVE FALSE
  OBVIOUS
<1>2. PICK k \in s.stacks : UnitBy(s.groups, p) \in ToSet(k.units)
  BY <1>1, HiddenInStack DEF InStack
<1>3. ShownUnit(k) \in ToSet(k.units) /\ Live(s, ShownUnit(k))
  BY StacksSeen
<1>4. p \in Held(s, ShownUnit(k))
  BY <1>3, HeldApart DEF Live
<1> QED BY <1>1, <1>3, <1>4, UnitOnShow

LEMMA SplitPaneKeeps ==
  ASSUME TabInv, PG!Fit(View(tab)), PG!HiddenFits(View(tab)), NEW p \in Ids, NEW new \in Fresh,
         NEW second \in BOOLEAN, NEW top \in BOOLEAN, SplitPane(p, new, second, top)
  PROVE  SplitStep(View(tab), View(tab')) \/ SplitTopStep(View(tab), View(tab'))
<1>1. PICK L, V, W : L = Leaves(tab.tree) /\ V = View(tab) /\ W = View(tab')
  OBVIOUS
<1>2. /\ Sound(tab) /\ p \in L /\ new \in Pane \ L /\ PG!Panes(V) = L
      /\ V.subtrees = tab.tree.sets /\ V.hidden = tab.hidden
  BY <1>1, ViewParts DEF TabInv, Sound, Ids, Fresh
<1>3. tab' = SplitAndInsert(tab, p, new, second, top) /\ (top \/ p \notin tab.hidden)
  BY DEF SplitPane
<1>4. /\ top /\ Len(tab.tree.order) > 1 => W = PG!InsertAtRoot(V, new)
      /\ ~ (top /\ Len(tab.tree.order) > 1) => W = PG!Insert(V, p, new)
  <2>1. PICK n : n = tab' /\ n = SplitAndInsert(tab, p, new, second, top)
    BY <1>3
  <2>2. p \in Leaves(tab.tree) /\ new \in Pane \ Leaves(tab.tree)
    BY <1>1, <1>2
  <2>3. InsertsIn(tab, p, new, top, n)
    BY <1>2, <2>1, <2>2, InsertSeen
  <2> QED BY <1>1, <2>1, <2>3 DEF InsertsIn
<1>5. CASE top /\ Len(tab.tree.order) > 1
  <2>1. V.subtrees # {}
    BY <1>1, <1>2 DEF Leaves
  <2> QED BY <1>1, <1>2, <1>4, <1>5, <2>1 DEF SplitTopStep
<1>6. CASE ~ (top /\ Len(tab.tree.order) > 1)
  <2>1. p \notin tab.hidden
    <3>1. CASE ~ top
      BY <1>3, <3>1
    <3>2. CASE ~ (Len(tab.tree.order) > 1)
      <4>1. /\ Len(tab.tree.order) \in Nat
            /\ \A q \in L : /\ PositionOf(tab.tree.order, q) \in 1 .. Len(tab.tree.order)
                            /\ tab.tree.order[PositionOf(tab.tree.order, q)] = q
        BY <1>1, <1>2, TreePlaces DEF Sound, Fits, TabStates
      <4>2. \A q \in L : PositionOf(tab.tree.order, q) = 1
        BY <3>2, <4>1
      <4>3. \A q \in L : q = p
        BY <1>2, <4>1, <4>2
      <4> QED BY <1>1, <1>2, <4>3, OnlyPaneOnShow
    <3> QED BY <1>6, <3>1, <3>2
  <2> QED BY <1>1, <1>2, <1>4, <1>6, <2>1 DEF SplitStep
<1> QED BY <1>5, <1>6

-----------------------------------------------------------------------------
(* A pane is taken out.                                                    *)

LEMMA TwoInList ==
  ASSUME NEW S, NEW s \in Seq(S), IsInjective(s)
  PROVE  Len(s) \in Nat /\ (Len(s) >= 2 <=> \E x, y \in ToSet(s) : x # y)
<1>1. IsFiniteSet(ToSet(s)) /\ Cardinality(ToSet(s)) = Len(s)
  BY Counted
<1>2. Len(s) \in Nat
  BY LenProperties
<1>3. Len(s) > 1 <=> \E x, y \in ToSet(s) : x # y
  BY <1>1, TwoOrMore
<1> QED BY <1>2, <1>3

(* What vanish leaves of the list l of a stack whose unit at a is on show. *)
IsLeft(S, l, a, u, left, to) ==
  /\ left \in Seq(S) /\ IsInjective(left) /\ ToSet(left) = ToSet(l) \ {u}
  /\ Len(left) = Len(l) - 1 /\ Len(left) \in Nat
  /\ to \in Nat /\ to < Len(left) /\ left[to + 1] \in ToSet(l) \ {u}
  /\ l[a + 1] # u => left[to + 1] = l[a + 1]

Leaving(l, a, u, left, pos, to) ==
  /\ left = Omit(l, u) /\ pos = PositionOf(l, u) - 1
  /\ to = IF pos = a /\ left # <<>> THEN Min({pos, Len(left) - 1})
          ELSE IF pos < a THEN a - 1 ELSE a

LEMMA UnitLeaves ==
  ASSUME NEW S, NEW l \in Seq(S), IsInjective(l), Len(l) >= 2, NEW a \in Nat, a < Len(l),
         NEW u \in ToSet(l), NEW left, NEW pos, NEW to, Leaving(l, a, u, left, pos, to)
  PROVE  IsLeft(S, l, a, u, left, to) /\ left # <<>> /\ (pos = a <=> l[a + 1] = u)
<1>0. /\ left = Omit(l, u) /\ pos = PositionOf(l, u) - 1
      /\ to = IF pos = a /\ left # <<>> THEN Min({pos, Len(left) - 1})
              ELSE IF pos < a THEN a - 1 ELSE a
  BY DEF Leaving
<1>1. /\ left \in Seq(S) /\ IsInjective(left) /\ ToSet(left) = ToSet(l) \ {u}
      /\ Len(left) = Len(l) - 1 /\ Len(l) \in Nat /\ (left = <<>> <=> Len(l) = 1)
  BY <1>0, Omitted
<1>2. PICK k \in 1 .. Len(l) : k = PositionOf(l, u) /\ l[k] = u
  BY Placed
<1>3. /\ \A j \in 1 .. Len(l) - 1 : left[j] = IF j < k THEN l[j] ELSE l[j + 1]
  <2>1. left = RemoveAt(l, k)
    BY <1>0, <1>2 DEF Omit
  <2> QED BY <2>1, TakenOut DEF IsTakenOut
<1>4. PICK n \in Nat, b \in Nat : n = Len(l) /\ b = Len(left) /\ n = b + 1 /\ b >= 1 /\ a < n
  BY <1>1
<1>5. pos \in Nat /\ pos + 1 = k /\ pos < n /\ left # <<>>
  BY <1>0, <1>1, <1>2, <1>4
<1>6. a + 1 \in 1 .. n /\ (pos = a <=> l[a + 1] = u)
  <2>1. a + 1 \in 1 .. Len(l)
    BY <1>4
  <2>2. l[a + 1] = u => a + 1 = k
    BY <1>2, <2>1, Placed
  <2> QED BY <1>2, <1>4, <1>5, <2>1, <2>2
<1>7. to \in Nat /\ to < b /\ (pos # a => left[to + 1] = l[a + 1])
  <2>1. CASE pos = a
    <3>1. {pos, b - 1} \in SUBSET Nat /\ {pos, b - 1} # {}
      BY <1>4, <1>5
    <3>2. Min({pos, b - 1}) \in {pos, b - 1} /\ \A i \in {pos, b - 1} : Min({pos, b - 1}) <= i
      BY <3>1, Least
    <3>3. to = Min({pos, b - 1})
      BY <1>0, <1>4, <1>5, <2>1
    <3> QED BY <1>4, <1>5, <2>1, <3>2, <3>3
  <2>2. CASE pos < a
    <3>1. to = a - 1 /\ to \in Nat /\ to < b /\ ~ (to + 1 < k) /\ to + 1 \in 1 .. n - 1
          /\ (to + 1) + 1 = a + 1
      BY <1>0, <1>4, <1>5, <2>2
    <3>2. left[to + 1] = l[(to + 1) + 1]
      BY <1>3, <1>4, <3>1
    <3> QED BY <3>1, <3>2
  <2>3. CASE pos > a
    <3>1. to = a /\ to \in Nat /\ to < b /\ to + 1 < k /\ to + 1 \in 1 .. n - 1
      BY <1>0, <1>2, <1>4, <1>5, <2>3
    <3>2. left[to + 1] = l[to + 1]
      BY <1>3, <1>4, <3>1
    <3> QED BY <3>1, <3>2
  <2> QED BY <1>5, <2>1, <2>2, <2>3
<1>8. left[to + 1] \in ToSet(l) \ {u}
  <2>1. to + 1 \in 1 .. Len(left)
    BY <1>4, <1>7
  <2> QED BY <1>1, <2>1, SetOfSeq
<1> QED BY <1>1, <1>4, <1>5, <1>6, <1>7, <1>8 DEF IsLeft

(* Unit u leaves the stack k, where w is on show then.                     *)
LeavesStack(K, k, u, w, K2) ==
  \/ ToSet(k.units) = {u, w} /\ K2 = K \ {k}
  \/ /\ ToSet(k.units) # {u, w}
     /\ \E j : K2 = (K \ {k}) \cup {j} /\ ToSet(j.units) = ToSet(k.units) \ {u} /\ ShownUnit(j) = w

Vanishes(s, k, u, w, r) ==
  /\ k \in s.stacks /\ u \in ToSet(k.units) /\ w \in ToSet(k.units) \ {u}
  /\ \E K : r.tab = [s EXCEPT !.stacks = K] /\ LeavesStack(s.stacks, k, u, w, K)
  /\ \/ u = ShownUnit(k) /\ r.reveal = <<w>>
     \/ u # ShownUnit(k) /\ w = ShownUnit(k) /\ r.reveal = <<>>

LEMMA VanishesExactly ==
  ASSUME NEW s, StacksShaped(s.stacks), NEW u, Stacked(s, u),
         \A k \in s.stacks : Len(k.units) >= 2
  PROVE  \E k, w : Vanishes(s, k, u, w, Vanish(s, u))
<1>1. PICK k : /\ k = StackOf(s, u) /\ k \in s.stacks /\ u \in ToSet(k.units)
               /\ k.units \in Seq(AnyUnit) /\ k.active \in Nat
               /\ IsInjective(k.units) /\ k.active < Len(k.units)
  BY ItsStack
<1>2. PICK l, a : l = k.units /\ a = k.active
  OBVIOUS
<1>3. PICK pos, left : pos = PositionOf(l, u) - 1 /\ left = Omit(l, u)
  OBVIOUS
<1>4. PICK to : to = IF pos = a /\ left # <<>> THEN Min({pos, Len(left) - 1})
                     ELSE IF pos < a THEN a - 1 ELSE a
  OBVIOUS
<1>5. IsLeft(AnyUnit, l, a, u, left, to) /\ left # <<>> /\ (pos = a <=> l[a + 1] = u)
  <2>1. l \in Seq(AnyUnit) /\ IsInjective(l) /\ Len(l) >= 2 /\ a \in Nat /\ a < Len(l) /\ u \in ToSet(l)
    BY <1>1, <1>2
  <2>2. Leaving(l, a, u, left, pos, to)
    BY <1>3, <1>4 DEF Leaving
  <2> QED BY <2>1, <2>2, UnitLeaves
<1>6. PICK kept : kept = IF Len(left) < 2 THEN {} ELSE {[units |-> left, active |-> to]}
  OBVIOUS
<1>7. Vanish(s, u) = [tab    |-> [s EXCEPT !.stacks = (@ \ {k}) \cup kept],
                      reveal |-> IF pos = a /\ left # <<>> THEN <<left[to + 1]>> ELSE <<>>]
  BY <1>1, <1>2, <1>3, <1>4, <1>6 DEF Vanish
<1>8. PICK w : w = left[to + 1]
  OBVIOUS
<1>9. w \in ToSet(l) \ {u} /\ (l[a + 1] # u => w = l[a + 1]) /\ ToSet(left) = ToSet(l) \ {u}
      /\ left \in Seq(AnyUnit) /\ IsInjective(left) /\ w \in ToSet(left) /\ Len(left) \in Nat
  BY <1>5, <1>8 DEF IsLeft
<1>10. PICK K : K = (s.stacks \ {k}) \cup kept
  OBVIOUS
<1>11. Len(left) < 2 <=> ToSet(l) = {u, w}
  <2>1. ToSet(l) = {u, w} <=> \A x \in ToSet(left) : x = w
    BY <1>1, <1>2, <1>9
  <2>2. Len(left) >= 2 <=> \E x, y \in ToSet(left) : x # y
    BY <1>9, TwoInList
  <2> QED BY <1>9, <2>1, <2>2
<1>12. LeavesStack(s.stacks, k, u, w, K)
  <2>1. CASE Len(left) < 2
    <3>1. K = s.stacks \ {k}
      BY <1>6, <1>10, <2>1
    <3> QED BY <1>2, <1>11, <2>1, <3>1 DEF LeavesStack
  <2>2. CASE ~ (Len(left) < 2)
    <3>1. PICK j : j = [units |-> left, active |-> to]
      OBVIOUS
    <3>2. K = (s.stacks \ {k}) \cup {j} /\ j.units = left /\ ShownUnit(j) = w
      BY <1>6, <1>8, <1>10, <2>2, <3>1 DEF ShownUnit
    <3> QED BY <1>2, <1>9, <1>11, <2>2, <3>2 DEF LeavesStack
  <2> QED BY <2>1, <2>2
<1>13. ShownUnit(k) = l[a + 1]
  BY <1>2 DEF ShownUnit
<1>14. PICK r : r = Vanish(s, u)
  OBVIOUS
<1>15. r.tab = [s EXCEPT !.stacks = K]
  BY <1>7, <1>10, <1>14
<1>16. \/ u = ShownUnit(k) /\ r.reveal = <<w>>
       \/ u # ShownUnit(k) /\ w = ShownUnit(k) /\ r.reveal = <<>>
  BY <1>5, <1>7, <1>8, <1>9, <1>13, <1>14
<1>17. Vanishes(s, k, u, w, r)
  BY <1>1, <1>2, <1>9, <1>12, <1>15, <1>16 DEF Vanishes
<1> QED BY <1>14, <1>17

(* remove_pane: a larger group loses a member, a group of two ends, or the *)
(* unit goes.                                                              *)
LosesMember(s, g, p, n) ==
  /\ g \in DOMAIN s.groups /\ p \in MembersIn(s.groups, g)
  /\ \E x, y \in MembersIn(s.groups, g) \ {p} : x # y
  /\ DOMAIN n.groups = DOMAIN s.groups /\ n.stacks = s.stacks
  /\ MembersIn(n.groups, g) = MembersIn(s.groups, g) \ {p}
  /\ \A h \in DOMAIN s.groups : h # g => MembersIn(n.groups, h) = MembersIn(s.groups, h)

LosesGroup(s, g, p, q, n) ==
  /\ g \in DOMAIN s.groups /\ MembersIn(s.groups, g) = {p, q} /\ p # q
  /\ DOMAIN n.groups = DOMAIN s.groups \ {g}
  /\ \A h \in DOMAIN s.groups : h # g => MembersIn(n.groups, h) = MembersIn(s.groups, h)
  /\ Renames(s.stacks, GroupUnit(g), PaneUnit(q), n.stacks)

LosesPane(s, p, r) ==
  \/ (\E g : LosesMember(s, g, p, r.tab)) /\ r.reveal = <<>>
  \/ (\E g, q : LosesGroup(s, g, p, q, r.tab)) /\ r.reveal = <<>>
  \/ (\A g \in DOMAIN s.groups : p \notin MembersIn(s.groups, g)) /\ r = Vanish(s, PaneUnit(p))

LEMMA ForgetsExactly ==
  ASSUME NEW s, NEW L, Fits(s, L), NEW p \in L, NEW r, r = ForgetPane(s, p)
  PROVE  LosesPane(s, p, r)
<1>1. PICK m, u : m = s.groups /\ u = UnitBy(m, p)
  OBVIOUS
<1>2. /\ L \in SUBSET Pane /\ GroupsFit(m, s.next_id, L) /\ s \in TabStates
      /\ m \in GroupMaps /\ DOMAIN m \subseteq Nat
  BY <1>1, GroupTyped DEF Fits, UnitsFit, GroupsFit
<1>3. PICK ps : ps = UnitPanes(s, u) /\ IsUnitOf(s, L, u, ps)
  BY <1>1, <1>2, PanesOfUnit
<1>4. p \in ToSet(ps) /\ ps \in Seq(Pane) /\ IsInjective(ps)
  BY <1>1, <1>3 DEF IsUnitOf
<1>5. PICK left : left = Omit(ps, p)
  OBVIOUS
<1>6. /\ left \in Seq(Pane) /\ IsInjective(left) /\ ToSet(left) = ToSet(ps) \ {p}
      /\ Len(left) = Len(ps) - 1 /\ Len(ps) \in Nat
      /\ left = <<>> <=> Len(ps) = 1
  BY <1>4, <1>5, Omitted
<1>7. UnitOf(s, p) = u
  BY <1>1, UnitByGroups
<1>8. r = CASE left = <<>> -> Vanish(IF u.kind = "group" THEN Dissolve(s, u.id) ELSE s, u)
            [] Len(left) = 1 ->
                 [tab |-> RenameUnit(Dissolve(s, u.id), u, PaneUnit(left[1])), reveal |-> <<>>]
            [] OTHER ->
                 [tab |-> [s EXCEPT !.groups[u.id] =
                             [members |-> left,
                              last_active |-> IF @.last_active = p THEN left[1]
                                              ELSE @.last_active]],
                  reveal |-> <<>>]
  BY <1>3, <1>5, <1>7 DEF ForgetPane
<1>9. CASE u = PaneUnit(p) /\ Len(ps) = 1 /\ \A g \in DOMAIN m : p \notin MembersIn(m, g)
  <2>1. r = Vanish(s, PaneUnit(p))
    BY <1>6, <1>8, <1>9, UnitKinds
  <2> QED BY <1>1, <1>9, <2>1 DEF LosesPane
<1>10. ASSUME NEW g \in DOMAIN m, u = GroupUnit(g), ps = m[g].members, Len(ps) >= 2
       PROVE  LosesPane(s, p, r)
  <2>1. u.id = g /\ left # <<>> /\ MembersIn(m, g) = ToSet(ps)
    BY <1>6, <1>10, UnitKinds DEF MembersIn
  <2>2. CASE Len(left) = 1
    <3>1. PICK q : q = left[1]
      OBVIOUS
    <3>2. PICK d : d = Dissolve(s, g)
      OBVIOUS
    <3>3. r = [tab |-> RenameUnit(d, u, PaneUnit(q)), reveal |-> <<>>]
      BY <1>8, <2>1, <2>2, <3>1, <3>2
    <3>4. ToSet(left) = {q}
      <4>1. ToSet(left) = {left[i] : i \in 1 .. Len(left)}
        BY <1>6, SetOfSeq
      <4>2. 1 .. Len(left) = {1}
        BY <2>2
      <4> QED BY <3>1, <4>1, <4>2
    <3>5. p # q /\ MembersIn(m, g) = {p, q}
      BY <1>4, <1>6, <2>1, <3>4
    <3>6. PICK m2 : m2 = Restrict(m, DOMAIN m \ {g})
      OBVIOUS
    <3>7. DOMAIN m2 = DOMAIN m \ {g} /\ \A h \in DOMAIN m \ {g} : m2[h] = m[h]
      BY <3>6 DEF Restrict
    <3>8. d = [s EXCEPT !.groups = m2]
      BY <1>1, <3>2, <3>6 DEF Dissolve
    <3>9. d.groups = m2 /\ d.stacks = s.stacks /\ DOMAIN d = DOMAIN s
      BY <1>2, <3>8 DEF TabStates
    <3>10. PICK n : n = RenameUnit(d, u, PaneUnit(q))
      OBVIOUS
    <3>11. n.groups = m2 /\ Renames(s.stacks, u, PaneUnit(q), n.stacks)
      BY <1>2, <3>9, <3>10 DEF RenameUnit, Renames, TabStates
    <3>12. LosesGroup(s, g, p, q, n)
      BY <1>1, <1>10, <3>5, <3>7, <3>11 DEF LosesGroup, MembersIn
    <3>13. r.tab = n /\ r.reveal = <<>>
      BY <3>3, <3>10
    <3> QED BY <3>12, <3>13 DEF LosesPane
  <2>3. CASE Len(left) # 1
    <3>1. PICK last : last = IF m[g].last_active = p THEN left[1] ELSE m[g].last_active
      OBVIOUS
    <3>2. PICK m2 : m2 = [m EXCEPT ![g] = [members |-> left, last_active |-> last]]
      OBVIOUS
    <3>3. PICK n : n = [s EXCEPT !.groups = m2]
      OBVIOUS
    <3>4. r = [tab |-> [s EXCEPT !.groups[g] =
                          [members |-> left,
                           last_active |-> IF @.last_active = p THEN left[1]
                                           ELSE @.last_active]],
               reveal |-> <<>>]
      BY <1>8, <2>1, <2>3
    <3>5. r.tab = n /\ r.reveal = <<>>
      BY <1>1, <1>2, <3>1, <3>2, <3>3, <3>4 DEF TabStates
    <3>6. n.groups = m2 /\ n.stacks = s.stacks
      BY <1>2, <3>3 DEF TabStates
    <3>7. DOMAIN m2 = DOMAIN m /\ \A h \in DOMAIN m : h # g => m2[h] = m[h]
      BY <3>2
    <3>8. m2[g].members = left
      BY <1>10, <3>2
    <3>9. \E x, y \in ToSet(left) : x # y
      <4>1. \A a, b \in Nat : a = b - 1 /\ b >= 2 /\ a # 1 => a >= 2
        OBVIOUS
      <4>2. Len(left) \in Nat
        BY <1>6, LenProperties
      <4>3. Len(left) >= 2
        BY <1>6, <1>10, <2>3, <4>1, <4>2
      <4> QED BY <1>6, <4>3, TwoInList
    <3>10. LosesMember(s, g, p, n)
      BY <1>1, <1>4, <1>6, <1>10, <2>1, <3>6, <3>7, <3>8, <3>9 DEF LosesMember, MembersIn
    <3> QED BY <3>5, <3>10 DEF LosesPane
  <2> QED BY <2>2, <2>3
<1>11. \/ u = PaneUnit(p) /\ Len(ps) = 1 /\ \A g \in DOMAIN m : p \notin MembersIn(m, g)
       \/ \E g \in DOMAIN m : u = GroupUnit(g) /\ ps = m[g].members /\ Len(ps) >= 2
  <2>1. \/ \E x \in L : u = PaneUnit(x) /\ ps = <<x>> /\ Len(ps) = 1
        \/ \E g \in DOMAIN m : u = GroupUnit(g) /\ ps = m[g].members /\ Len(ps) >= 2
    BY <1>1, <1>3 DEF IsUnitOf
  <2>2. \A x : u = PaneUnit(x) => x = p /\ \A g \in DOMAIN m : p \notin MembersIn(m, g)
    <3>1. GroupsFit(m, s.next_id, L)
      BY <1>2
    <3>2. \A x : UnitBy(m, p) = PaneUnit(x) =>
                   x = p /\ \A g \in DOMAIN m : p \notin MembersIn(m, g)
      BY <3>1, UnitOnly
    <3> QED BY <1>1, <3>2
  <2> QED BY <2>1, <2>2
<1> QED BY <1>9, <1>10, <1>11

(* Pane v is out of the tree, and not among the hidden ones any more. *)
Gone(s, v, n) ==
  /\ Sound(n) /\ n.tree.sets = Shrunk(s.tree.sets, {v})
  /\ Leaves(n.tree) = Leaves(s.tree) \ {v} /\ n.hidden = s.hidden \ {v}

LEMMA GoneSeen ==
  ASSUME NEW s, NEW v, NEW n, Gone(s, v, n)
  PROVE  /\ View(n).subtrees = PG!Without(View(s).subtrees, v)
         /\ View(n).hidden = View(s).hidden \ {v}
BY ViewParts DEF Gone, Shrunk, PG!Without

(* PaneGroups: Close. *)
CloseStep(V, v, W) == W \in PG!Closings(V, v)

LEMMA ClosingReveals ==
  ASSUME NEW V, NEW v, NEW W \in PG!Closings(V, v)
  PROVE  W.hidden \subseteq V.hidden
<1>1. PICK U, in : U = PG!UnitOf(V, v) /\ in = {k \in V.stacks : U \in k.units}
  OBVIOUS
<1>2. \/ W = PG!Shrink(V, U, v)
      \/ \E k, next : W = PG!Leave(V, k, U, v, next)
  BY <1>1 DEF PG!Closings
<1> QED BY <1>2 DEF PG!Shrink, PG!Leave

LEMMA LeavingCloses ==
  ASSUME NEW V, NEW v, NEW U, U = {v}, PG!UnitOf(V, v) = U, NEW q \in V.stacks, U \in q.units,
         NEW W, W \in (IF q.shown = U THEN q.units \ {U} ELSE {q.shown})
  PROVE  PG!Leave(V, q, U, v, W) \in PG!Closings(V, v)
<1>1. PICK in : in = {j \in V.stacks : U \in j.units}
  OBVIOUS
<1>2. q \in in /\ in # {}
  BY <1>1
<1>3. PG!Closings(V, v) =
        UNION {{PG!Leave(V, j, U, v, next) :
                  next \in IF j.shown = U THEN j.units \ {U} ELSE {j.shown}} : j \in in}
  <2>1. ~ (U # {v} \/ in = {})
    BY <1>2
  <2> QED BY <1>1, <2>1 DEF PG!Closings
<1>4. PG!Leave(V, q, U, v, W) \in
        {PG!Leave(V, q, U, v, next) :
           next \in IF q.shown = U THEN q.units \ {U} ELSE {q.shown}}
  OBVIOUS
<1> QED BY <1>2, <1>3, <1>4

LEMMA ShrinkSeen ==
  ASSUME NEW s, Sound(s), NEW v \in Leaves(s.tree), NEW n, Gone(s, v, n),
         NEW U, U = Held(s, UnitBy(s.groups, v)),
         View(n).groups = (View(s).groups \ {U}) \cup PG!AsGroup(U \ {v}),
         View(n).stacks = PG!RenameIn(View(s).stacks, U, U \ {v}),
         U # {v} \/ ~ PG!Stacked(View(s), U)
  PROVE  CloseStep(View(s), v, View(n))
<1>1. PICK V, N : V = View(s) /\ N = View(n)
  OBVIOUS
<1>2. /\ N.subtrees = PG!Without(V.subtrees, v) /\ N.hidden = V.hidden \ {v}
      /\ N.groups = (V.groups \ {U}) \cup PG!AsGroup(U \ {v})
      /\ N.stacks = PG!RenameIn(V.stacks, U, U \ {v})
  BY <1>1, GoneSeen
<1>3. N = PG!Shrink(V, U, v)
  BY <1>1, <1>2, LayoutsEqual DEF PG!Shrink
<1>4. PG!UnitOf(V, v) = U
  BY <1>1, UnitsSeen
<1>5. U # {v} \/ {k \in V.stacks : U \in k.units} = {}
  BY <1>1 DEF PG!Stacked
<1>6. PG!Closings(V, v) = {PG!Shrink(V, U, v)}
  BY <1>4, <1>5 DEF PG!Closings
<1> QED BY <1>1, <1>3, <1>6 DEF CloseStep

LEMMA MemberLost ==
  ASSUME NEW s, Sound(s), NEW v \in Leaves(s.tree), NEW n, Gone(s, v, n),
         NEW g, LosesMember(s, g, v, n)
  PROVE  CloseStep(View(s), v, View(n))
<1>1. PICK u, U : u = GroupUnit(g) /\ U = Held(s, u)
  OBVIOUS
<1>2. GroupsFit(s.groups, s.next_id, Leaves(s.tree))
  BY DEF Sound, Fits, UnitsFit
<1>3. /\ g \in DOMAIN s.groups /\ v \in MembersIn(s.groups, g)
      /\ \E x, y \in MembersIn(s.groups, g) \ {v} : x # y
      /\ DOMAIN n.groups = DOMAIN s.groups /\ n.stacks = s.stacks
      /\ MembersIn(n.groups, g) = MembersIn(s.groups, g) \ {v}
      /\ \A h \in DOMAIN s.groups : h # g => MembersIn(n.groups, h) = MembersIn(s.groups, h)
  BY DEF LosesMember
<1>4. UnitBy(s.groups, v) = u /\ U = MembersIn(s.groups, g) /\ Live(s, u)
  BY <1>1, <1>2, <1>3, UnitOnly, LiveUnits
<1>5. Held(n, u) = U \ {v}
  BY <1>1, <1>3, <1>4, HeldByMembers DEF Gone
<1>6. Spares(s, u, n)
  <2>1. \A h \in DOMAIN s.groups : GroupUnit(h) # u => h # g
    BY <1>1
  <2>2. ASSUME NEW q \in Leaves(s.tree), \A h \in DOMAIN s.groups : q \notin MembersIn(s.groups, h)
        PROVE  q \in Leaves(n.tree) /\ \A h \in DOMAIN n.groups : q \notin MembersIn(n.groups, h)
    BY <1>3, <2>2 DEF Gone
  <2> QED BY <1>3, <2>1, <2>2 DEF Spares
<1>7. \A x : Live(s, x) /\ x # u => Held(n, x) = Held(s, x)
  BY <1>6, UnitsSpared DEF Gone
<1>8. GroupUnits(n.groups) = (GroupUnits(s.groups) \ {u}) \cup {u}
  BY <1>1, <1>3 DEF GroupUnits
<1>9. PICK G : G = {u}
  OBVIOUS
<1>10. Becomes(s, u, u, G, n)
  BY <1>3, <1>4, <1>7, <1>8, <1>9 DEF Becomes, Renamed
<1>11. /\ View(n).stacks = PG!RenameIn(View(s).stacks, U, U \ {v})
       /\ View(n).groups = (View(s).groups \ {U}) \cup {Held(n, x) : x \in G}
  <2>1. /\ View(n).stacks = PG!RenameIn(View(s).stacks, Held(s, u), Held(n, u))
        /\ View(n).groups = (View(s).groups \ {Held(s, u)}) \cup {Held(n, x) : x \in G}
    BY <1>10, UnitChanged
  <2> QED BY <1>1, <1>5, <2>1
<1>12. {Held(n, x) : x \in G} = {U \ {v}}
  BY <1>5, <1>9
<1>13. PG!AsGroup(U \ {v}) = {U \ {v}} /\ U # {v}
  BY <1>3, <1>4 DEF PG!AsGroup
<1> QED BY <1>1, <1>4, <1>11, <1>12, <1>13, ShrinkSeen

LEMMA GroupLost ==
  ASSUME NEW s, Sound(s), NEW v \in Leaves(s.tree), NEW n, Gone(s, v, n),
         NEW g, NEW q, LosesGroup(s, g, v, q, n)
  PROVE  CloseStep(View(s), v, View(n))
<1>1. PICK u, w, U : u = GroupUnit(g) /\ w = PaneUnit(q) /\ U = Held(s, u)
  OBVIOUS
<1>2. GroupsFit(s.groups, s.next_id, Leaves(s.tree))
  BY DEF Sound, Fits, UnitsFit
<1>3. /\ g \in DOMAIN s.groups /\ MembersIn(s.groups, g) = {v, q} /\ v # q
      /\ DOMAIN n.groups = DOMAIN s.groups \ {g}
      /\ \A h \in DOMAIN s.groups : h # g => MembersIn(n.groups, h) = MembersIn(s.groups, h)
      /\ Renames(s.stacks, u, w, n.stacks)
  BY <1>1 DEF LosesGroup
<1>4. UnitBy(s.groups, v) = u /\ U = {v, q} /\ Live(s, u)
  BY <1>1, <1>2, <1>3, UnitOnly, LiveUnits
<1>5. /\ q \in Leaves(n.tree)
      /\ \A h \in DOMAIN s.groups : h # g => {v, q} \cap MembersIn(s.groups, h) = {}
  <2>1. q \in Leaves(s.tree)
    BY <1>2, <1>3 DEF GroupsFit
  <2>2. \A h \in DOMAIN s.groups : h # g => {v, q} \cap MembersIn(s.groups, h) = {}
    BY <1>2, <1>3 DEF GroupsFit
  <2> QED BY <1>3, <2>1, <2>2 DEF Gone
<1>6. Held(n, w) = U \ {v}
  <2>1. \A h \in DOMAIN n.groups : q \notin MembersIn(n.groups, h)
    BY <1>3, <1>5
  <2>2. Held(n, PaneUnit(q)) = {q}
    BY <1>5, <2>1, HeldByMembers DEF Gone
  <2> QED BY <1>1, <1>3, <1>4, <2>2
<1>7. Spares(s, u, n)
  <2>1. \A h \in DOMAIN s.groups : GroupUnit(h) # u => h # g
    BY <1>1
  <2>2. ASSUME NEW x \in Leaves(s.tree), \A h \in DOMAIN s.groups : x \notin MembersIn(s.groups, h)
        PROVE  x \in Leaves(n.tree) /\ \A h \in DOMAIN n.groups : x \notin MembersIn(n.groups, h)
    BY <1>3, <2>2 DEF Gone
  <2> QED BY <1>3, <2>1, <2>2 DEF Spares
<1>8. \A x : Live(s, x) /\ x # u => Held(n, x) = Held(s, x)
  BY <1>7, UnitsSpared DEF Gone
<1>9. GroupUnits(n.groups) = (GroupUnits(s.groups) \ {u}) \cup {}
  BY <1>1, <1>3, UnitKinds DEF GroupUnits
<1>10. PICK G : G = {}
  OBVIOUS
<1>11. Becomes(s, u, w, G, n)
  BY <1>3, <1>4, <1>8, <1>9, <1>10 DEF Becomes, Renamed
<1>12. /\ View(n).stacks = PG!RenameIn(View(s).stacks, U, U \ {v})
       /\ View(n).groups = (View(s).groups \ {U}) \cup {Held(n, x) : x \in G}
  <2>1. /\ View(n).stacks = PG!RenameIn(View(s).stacks, Held(s, u), Held(n, w))
        /\ View(n).groups = (View(s).groups \ {Held(s, u)}) \cup {Held(n, x) : x \in G}
    BY <1>11, UnitChanged
  <2>2. Held(s, u) = U
    BY <1>1
  <2> QED BY <1>6, <2>1, <2>2
<1>13. {Held(n, x) : x \in G} = {}
  BY <1>10
<1>14. PG!AsGroup(U \ {v}) = {} /\ U # {v}
  BY <1>3, <1>4 DEF PG!AsGroup
<1> QED BY <1>1, <1>4, <1>12, <1>13, <1>14, ShrinkSeen

(* A pane outside of all groups that is in no stack. *)
LEMMA LonePaneLost ==
  ASSUME NEW s, Sound(s), NEW v \in Leaves(s.tree), NEW n, Gone(s, v, n),
         \A g \in DOMAIN s.groups : v \notin MembersIn(s.groups, g),
         ~ InStack(s.stacks, PaneUnit(v)), n.groups = s.groups, n.stacks = s.stacks
  PROVE  CloseStep(View(s), v, View(n))
<1>1. PICK u, U, V, N : u = PaneUnit(v) /\ U = {v} /\ V = View(s) /\ N = View(n)
  OBVIOUS
<1>2. GroupsFit(s.groups, s.next_id, Leaves(s.tree))
  BY DEF Sound, Fits, UnitsFit
<1>3. UnitBy(s.groups, v) = u /\ Held(s, u) = U /\ Live(s, u)
  BY <1>1, <1>2, UnitOnly, HeldByMembers DEF Live
<1>4. U \notin V.groups /\ ~ PG!Stacked(V, U)
  <2>1. /\ U \in V.groups <=> \E g \in DOMAIN s.groups : u = GroupUnit(g)
        /\ PG!Stacked(V, U) <=> InStack(s.stacks, u)
    BY <1>1, <1>3, UnitsSeen
  <2>2. \A g : u # GroupUnit(g)
    BY <1>1, UnitKinds
  <2> QED BY <1>1, <2>1, <2>2
<1>5. Spares(s, u, n)
  BY <1>1 DEF Spares, Gone
<1>6. \A x : Live(s, x) /\ x # u => Held(n, x) = Held(s, x)
  BY <1>5, UnitsSpared DEF Gone
<1>7. N.stacks = V.stacks
  <2>1. \A x : InStack(s.stacks, x) => x # u /\ Live(s, x)
    BY <1>1, LiveUnits
  <2> QED BY <1>1, <1>6, <2>1, StacksUnchanged
<1>8. N.groups = V.groups
  <2>1. PICK D : D = GroupUnits(s.groups)
    OBVIOUS
  <2>2. \A x \in D : Held(n, x) = Held(s, x)
    BY <1>1, <1>6, <2>1, LiveUnits, UnitKinds DEF GroupUnits
  <2>3. {Held(n, x) : x \in D} = {Held(s, x) : x \in D}
    BY <2>2
  <2>4. N.groups = {Held(n, x) : x \in D} /\ V.groups = {Held(s, x) : x \in D}
    BY <1>1, <2>1, GroupsOfUnits
  <2> QED BY <2>3, <2>4
<1>9. PG!RenameIn(V.stacks, U, U \ {v}) = V.stacks
  <2>1. ASSUME NEW q \in V.stacks PROVE RenamedStack(q, U, U \ {v}) = q
    <3>1. PICK k \in s.stacks : q = SeenStack(s, k)
      BY <1>1, <2>1, ViewParts
    <3>2. q.shown \in q.units /\ q = [units |-> q.units, shown |-> q.shown]
      BY <3>1, StacksSeen DEF SeenStack
    <3>3. \A x \in q.units : x # U
      BY <1>4 DEF PG!Stacked
    <3>4. {IF x = U THEN U \ {v} ELSE x : x \in q.units} = q.units
      BY <3>3
    <3> QED BY <3>2, <3>3, <3>4 DEF RenamedStack
  <2>2. {RenamedStack(q, U, U \ {v}) : q \in V.stacks} = V.stacks
    BY <2>1
  <2> QED BY <2>2, RenamedStacks
<1>10. PG!AsGroup(U \ {v}) = {}
  BY <1>1 DEF PG!AsGroup
<1> QED BY <1>1, <1>3, <1>4, <1>7, <1>8, <1>9, <1>10, ShrinkSeen

(* A pane that is a unit of the stack k, where w is on show from then on.  *)
LeavesUnit(s, v, k, w, n) ==
  LET u == PaneUnit(v)
  IN  /\ \A g \in DOMAIN s.groups : v \notin MembersIn(s.groups, g)
      /\ k \in s.stacks /\ u \in ToSet(k.units) /\ w \in ToSet(k.units) \ {u}
      /\ u # ShownUnit(k) => w = ShownUnit(k)
      /\ LeavesStack(s.stacks, k, u, w, n.stacks)
      /\ Sound(n) /\ n.groups = s.groups
      /\ n.tree.sets = Shrunk(s.tree.sets, {v}) /\ Leaves(n.tree) = Leaves(s.tree) \ {v}
      /\ n.hidden = (s.hidden \ {v}) \ Held(s, w)

LEMMA UnitLost ==
  ASSUME NEW s, Sound(s), NEW v \in Leaves(s.tree), NEW k, NEW w, NEW n,
         LeavesUnit(s, v, k, w, n)
  PROVE  CloseStep(View(s), v, View(n)) /\ Held(n, w) = Held(s, w) /\ Live(n, w)
<1>1. PICK u, U, V, N, q, W :
        /\ u = PaneUnit(v) /\ U = {v} /\ V = View(s) /\ N = View(n)
        /\ q = SeenStack(s, k) /\ W = Held(s, w)
  OBVIOUS
<1>2. /\ \A g \in DOMAIN s.groups : v \notin MembersIn(s.groups, g)
      /\ k \in s.stacks /\ u \in ToSet(k.units) /\ w \in ToSet(k.units) /\ w # u
      /\ u # ShownUnit(k) => w = ShownUnit(k)
      /\ LeavesStack(s.stacks, k, u, w, n.stacks)
      /\ Sound(n) /\ n.groups = s.groups
      /\ n.tree.sets = Shrunk(s.tree.sets, {v}) /\ Leaves(n.tree) = Leaves(s.tree) \ {v}
      /\ n.hidden = (s.hidden \ {v}) \ W
  BY <1>1 DEF LeavesUnit
<1>3. GroupsFit(s.groups, s.next_id, Leaves(s.tree)) /\ StacksShaped(s.stacks)
  BY DEF Sound, Fits, UnitsFit
<1>4. UnitBy(s.groups, v) = u /\ Held(s, u) = U /\ Live(s, u)
  BY <1>1, <1>2, <1>3, UnitOnly, HeldByMembers DEF Live
<1>5. Spares(s, u, n)
  BY <1>1, <1>2 DEF Spares
<1>6. \A x : Live(s, x) /\ x # u => Held(n, x) = Held(s, x)
  BY <1>2, <1>5, UnitsSpared
<1>7. PICK B : B = ToSet(k.units)
  OBVIOUS
<1>8. /\ u \in B /\ w \in B /\ \A x \in B : Live(s, x)
      /\ \A x, y \in B : Held(s, x) = Held(s, y) => x = y
      /\ q.units = {Held(s, x) : x \in B} /\ q \in V.stacks
      /\ q.shown = Held(s, ShownUnit(k)) /\ ShownUnit(k) \in B
  <2>1. \A x \in B : Live(s, x)
    BY <1>2, <1>7, StacksSeen
  <2>2. \A x, y \in B : Held(s, x) = Held(s, y) => x = y
    BY <2>1, HeldApart
  <2> QED BY <1>1, <1>2, <1>7, <2>1, <2>2, SeenParts, StacksSeen
<1>9. Held(n, w) = W /\ Live(n, w)
  BY <1>1, <1>2, <1>6, <1>8 DEF Live
<1>10. PICK rest : rest = q.units \ {U}
  OBVIOUS
<1>11. rest = {Held(n, x) : x \in B \ {u}}
  <2>1. rest = {Held(s, x) : x \in B \ {u}}
    BY <1>4, <1>8, <1>10
  <2>2. \A x \in B \ {u} : Held(n, x) = Held(s, x)
    BY <1>6, <1>8
  <2> QED BY <2>1, <2>2
<1>12. rest = {W} <=> B = {u, w}
  <2>1. \A x \in B \ {u} : Held(n, x) = Held(s, x)
    BY <1>6, <1>8
  <2>2. \A x \in B \ {u} : Held(n, x) = W => x = w
    BY <1>1, <1>8, <2>1
  <2>3. rest = {W} => \A x \in B \ {u} : x = w
    BY <1>11, <2>2
  <2>4. B = {u, w} => rest = {W}
    <3>1. B = {u, w} => B \ {u} = {w}
      BY <1>2
    <3>2. {Held(n, x) : x \in {w}} = {W}
      BY <1>9
    <3> QED BY <1>11, <3>1, <3>2
  <2> QED BY <1>8, <2>3, <2>4
<1>13. {SeenStack(n, j) : j \in s.stacks \ {k}} = V.stacks \ {q}
  <2>1. ASSUME NEW j \in s.stacks \ {k} PROVE SeenStack(n, j) = SeenStack(s, j)
    <3>1. \A x \in ToSet(j.units) : Live(s, x) /\ x # u
      BY <1>2, <1>3, StacksSeen DEF StacksShaped
    <3>2. \A x \in ToSet(j.units) : Held(n, x) = Held(s, x)
      BY <1>6, <3>1
    <3>3. ShownUnit(j) \in ToSet(j.units)
      BY StacksSeen
    <3> QED BY <3>2, <3>3 DEF SeenStack
  <2>2. {SeenStack(n, j) : j \in s.stacks \ {k}} = {SeenStack(s, j) : j \in s.stacks \ {k}}
    BY <2>1
  <2> QED BY <1>1, <1>2, <2>2, StacksLeft
<1>14. N.stacks = (V.stacks \ {q})
                    \cup (IF rest = {W} THEN {} ELSE {[units |-> rest, shown |-> W]})
  <2>1. PICK K, S : K = n.stacks /\ S = {SeenStack(n, j) : j \in K} /\ N.stacks = S
    BY <1>1, ViewParts
  <2>2. CASE B = {u, w}
    <3>1. K = s.stacks \ {k}
      BY <1>2, <1>7, <2>1, <2>2 DEF LeavesStack
    <3> QED BY <1>12, <1>13, <2>1, <2>2, <3>1
  <2>3. CASE B # {u, w}
    <3>1. PICK i : K = (s.stacks \ {k}) \cup {i} /\ ToSet(i.units) = B \ {u} /\ ShownUnit(i) = w
      BY <1>2, <1>7, <2>1, <2>3 DEF LeavesStack
    <3>2. SeenStack(n, i) = [units |-> rest, shown |-> W]
      BY <1>9, <1>11, <3>1 DEF SeenStack
    <3>3. S = {SeenStack(n, j) : j \in s.stacks \ {k}} \cup {SeenStack(n, i)}
      BY <2>1, <3>1
    <3> QED BY <1>12, <1>13, <2>1, <2>3, <3>2, <3>3
  <2> QED BY <2>2, <2>3
<1>15. N.groups = V.groups
  <2>1. PICK D : D = GroupUnits(s.groups)
    OBVIOUS
  <2>2. \A x \in D : Held(n, x) = Held(s, x)
    BY <1>1, <1>6, <2>1, LiveUnits, UnitKinds DEF GroupUnits
  <2>3. {Held(n, x) : x \in D} = {Held(s, x) : x \in D}
    BY <2>2
  <2>4. N.groups = {Held(n, x) : x \in D} /\ V.groups = {Held(s, x) : x \in D}
    BY <1>1, <1>2, <2>1, GroupsOfUnits
  <2> QED BY <2>3, <2>4
<1>16. N.subtrees = PG!Without(V.subtrees, v) /\ N.hidden = (V.hidden \ {v}) \ W
  BY <1>1, <1>2, ViewParts DEF Shrunk, PG!Without
<1>17. N = PG!Leave(V, q, U, v, W)
  BY <1>1, <1>10, <1>14, <1>15, <1>16, LayoutsEqual DEF PG!Leave
<1>18. PG!UnitOf(V, v) = U
  BY <1>1, <1>4, UnitsSeen
<1>19. W \in (IF q.shown = U THEN q.units \ {U} ELSE {q.shown})
  <2>1. q.shown = U <=> ShownUnit(k) = u
    BY <1>4, <1>8
  <2>2. W \in q.units \ {U}
    BY <1>1, <1>2, <1>4, <1>8
  <2> QED BY <1>1, <1>2, <1>8, <2>1, <2>2
<1>20. q \in V.stacks /\ U \in q.units
  BY <1>4, <1>8
<1>21. PG!Leave(V, q, U, v, W) \in PG!Closings(V, v)
  BY <1>1, <1>18, <1>19, <1>20, LeavingCloses
<1> QED BY <1>1, <1>9, <1>17, <1>21 DEF CloseStep

(* Pane v is out of the tree, the groups and stacks not yet told. *)
Taken(s, v, b) ==
  /\ Fits(b, Leaves(s.tree)) /\ b.tree.sets = Shrunk(s.tree.sets, {v})
  /\ Leaves(b.tree) = Leaves(s.tree) \ {v} /\ b.hidden = s.hidden \ {v}
  /\ b.groups = s.groups /\ b.stacks = s.stacks /\ b.next_id = s.next_id

(* The focus next goes to no unit, or to one that is on show. *)
NextOnShow(n, reveal) ==
  reveal = <<>> \/ \E w : reveal = <<w>> /\ Live(n, w) /\ Held(n, w) \cap n.hidden = {}

Closes(s, v, b, reveal, n) ==
  /\ Sound(n) /\ n.tree = b.tree /\ n.active = b.active /\ n.zoomed = b.zoomed
  /\ CloseStep(View(s), v, View(n)) /\ NextOnShow(n, reveal)

LEMMA NothingRevealed ==
  ASSUME NEW a \in TabStates
  PROVE  ShowUnits(a, <<>>) = a
<1>1. ToSet(<<>>) = {}
  BY SetOfSeq, EmptySeq
<1>2. ShowUnits(a, <<>>) = [a EXCEPT !.hidden = a.hidden \ {}]
  <2>1. UNION {ToSet(UnitPanes(a, u)) : u \in ToSet(<<>>)} = {}
    BY <1>1
  <2> QED BY <2>1 DEF ShowUnits
<1> QED BY <1>2 DEF TabStates

LEMMA TwoUnitsAtLeast ==
  ASSUME NEW s, Sound(s), PG!Fit(View(s)), NEW k \in s.stacks
  PROVE  Len(k.units) >= 2
<1>1. PICK q : q = SeenStack(s, k)
  OBVIOUS
<1>2. q \in View(s).stacks /\ q.units # {q.shown} /\ q.shown \in q.units
  <2>1. q \in View(s).stacks
    BY <1>1, StacksSeen
  <2> QED BY <2>1 DEF PG!Fit, PG!StacksFit, PG!StackFits
<1>3. PICK x : x \in q.units /\ x # q.shown
  BY <1>2
<1>4. PICK u \in ToSet(k.units) : x = Held(s, u)
  BY <1>1, <1>3, SeenParts
<1>5. u # ShownUnit(k) /\ ShownUnit(k) \in ToSet(k.units)
  BY <1>1, <1>3, <1>4, SeenParts, StacksSeen
<1>6. k.units \in Seq(AnyUnit) /\ IsInjective(k.units)
  BY StacksSeen
<1> QED BY <1>4, <1>5, <1>6, TwoInList

(* A unit goes with its pane and is in a stack. *)
LEMMA UnitForgotten ==
  ASSUME NEW s, Sound(s), PG!Fit(View(s)), NEW v \in Leaves(s.tree), NEW b, Taken(s, v, b),
         \A g \in DOMAIN s.groups : v \notin MembersIn(s.groups, g),
         NEW k, NEW w, NEW r, Vanishes(b, k, PaneUnit(v), w, r), Gone(s, v, r.tab),
         r.tab.tree = b.tree,
         NEW n, n = ShowUnits(r.tab, r.reveal)
  PROVE  Closes(s, v, b, r.reveal, n)
<1>1. PICK u, a, M : u = PaneUnit(v) /\ a = r.tab /\ M = Leaves(a.tree)
  OBVIOUS
<1>2. /\ k \in s.stacks /\ u \in ToSet(k.units) /\ w \in ToSet(k.units) \ {u}
      /\ \/ u = ShownUnit(k) /\ r.reveal = <<w>>
         \/ u # ShownUnit(k) /\ w = ShownUnit(k) /\ r.reveal = <<>>
      /\ u # ShownUnit(k) => w = ShownUnit(k)
  BY <1>1 DEF Vanishes, Taken
<1>3. PICK K : a = [b EXCEPT !.stacks = K] /\ LeavesStack(s.stacks, k, u, w, K)
  BY <1>1 DEF Vanishes, Taken
<1>4. b \in TabStates
  BY DEF Taken, Fits
<1>5. /\ a.groups = s.groups /\ a.stacks = K /\ a.tree = b.tree /\ a.active = b.active
      /\ a.zoomed = b.zoomed /\ a.hidden = s.hidden \ {v}
  BY <1>3, <1>4 DEF TabStates, Taken
<1>6. /\ Sound(a) /\ Fits(a, M) /\ a \in TabStates /\ a.hidden \subseteq M
      /\ M = Leaves(s.tree) \ {v} /\ a.tree.sets = Shrunk(s.tree.sets, {v})
  BY <1>1 DEF Gone, Sound, Fits, UnitsFit
<1>7. Live(s, w)
  BY <1>2, StacksSeen
<1>8. Held(a, w) = Held(s, w) /\ Live(a, w)
  <2>1. Spares(s, u, a)
    BY <1>1, <1>5, <1>6 DEF Spares
  <2>2. Held(a, w) = Held(s, w)
    BY <1>2, <1>6, <1>7, <2>1, UnitsSpared
  <2> QED BY <1>7, <2>2 DEF Live
<1>9. PICK H : H = a.hidden \ Held(s, w)
  OBVIOUS
<1>10. Hide(a, H, n)
  <2>1. CASE r.reveal = <<w>>
    <3>1. ToSet(r.reveal) = {w}
      BY <2>1 DEF ToSet
    <3>2. ToSet(UnitPanes(a, w)) = Held(s, w)
      BY <1>6, <1>8, HeldPanes
    <3>3. UNION {ToSet(UnitPanes(a, x)) : x \in ToSet(r.reveal)} = Held(s, w)
      BY <3>1, <3>2
    <3>4. n = [a EXCEPT !.hidden = @ \ UNION {ToSet(UnitPanes(a, x)) : x \in ToSet(r.reveal)}]
      BY <1>1 DEF ShowUnits
    <3> QED BY <1>6, <1>9, <3>3, <3>4 DEF Hide, TabStates
  <2>2. CASE u # ShownUnit(k) /\ w = ShownUnit(k) /\ r.reveal = <<>>
    <3>1. n = a
      BY <1>1, <1>6, <2>2, NothingRevealed
    <3>2. Held(s, w) \cap s.hidden = {}
      BY <1>2, <2>2, UnitOnShow
    <3>3. H = a.hidden
      BY <1>5, <1>9, <3>2
    <3> QED BY <1>6, <3>1, <3>3 DEF Hide, TabStates
  <2> QED BY <1>2, <2>1, <2>2
<1>11. Hides(a, M, H, n)
  <2>1. H \in SUBSET M
    BY <1>6, <1>9
  <2> QED BY <1>6, <1>10, <2>1, Hidden
<1>12. Sound(n) /\ n.tree = b.tree /\ n.active = b.active /\ n.zoomed = b.zoomed
  BY <1>1, <1>5, <1>11 DEF Hides, Sound
<1>13. LeavesUnit(s, v, k, w, n)
  <2>1. n.stacks = K /\ n.groups = s.groups /\ n.hidden = (s.hidden \ {v}) \ Held(s, w)
    BY <1>5, <1>9, <1>11 DEF Hides
  <2>2. n.tree.sets = Shrunk(s.tree.sets, {v}) /\ Leaves(n.tree) = Leaves(s.tree) \ {v}
    BY <1>1, <1>6, <1>11 DEF Hides
  <2> QED BY <1>1, <1>2, <1>3, <1>12, <2>1, <2>2 DEF LeavesUnit
<1>14. CloseStep(View(s), v, View(n)) /\ Held(n, w) = Held(s, w) /\ Live(n, w)
  BY <1>13, UnitLost
<1>15. Held(n, w) \cap n.hidden = {}
  BY <1>9, <1>11, <1>14 DEF Hides
<1>16. NextOnShow(n, r.reveal)
  BY <1>2, <1>14, <1>15 DEF NextOnShow
<1> QED BY <1>12, <1>14, <1>16 DEF Closes

LEMMA ForgottenCloses ==
  ASSUME NEW s, Sound(s), PG!Fit(View(s)), NEW v \in Leaves(s.tree), NEW b, Taken(s, v, b),
         NEW r, r = ForgetPane(b, v), NEW n, n = ShowUnits(r.tab, r.reveal)
  PROVE  Closes(s, v, b, r.reveal, n)
<1>1. PICK a, L, u : a = r.tab /\ L = Leaves(s.tree) /\ u = PaneUnit(v)
  OBVIOUS
<1>2. Fits(b, L) /\ v \in L /\ v \notin b.hidden /\ StacksShaped(b.stacks)
  BY <1>1 DEF Taken, Fits, UnitsFit
<1>3. Forgets(b, v, L \ {v}, a)
  BY <1>1, <1>2, PaneForgotten
<1>4. Sound(a) /\ Gone(s, v, a) /\ a \in TabStates /\ a.tree = b.tree
      /\ a.active = b.active /\ a.zoomed = b.zoomed
  BY <1>1, <1>3 DEF Forgets, Taken, Gone, Sound, Fits
<1>5. LosesPane(b, v, r)
  BY <1>2, ForgetsExactly
<1>6. ASSUME r.reveal = <<>>, CloseStep(View(s), v, View(a)) PROVE Closes(s, v, b, r.reveal, n)
  <2>1. n = a
    BY <1>1, <1>4, <1>6, NothingRevealed
  <2> QED BY <1>4, <1>6, <2>1 DEF Closes, NextOnShow
<1>7. ASSUME NEW g, LosesMember(b, g, v, a), r.reveal = <<>>
      PROVE  Closes(s, v, b, r.reveal, n)
  <2>1. LosesMember(s, g, v, a)
    BY <1>7 DEF LosesMember, Taken
  <2> QED BY <1>4, <1>6, <1>7, <2>1, MemberLost
<1>8. ASSUME NEW g, NEW q, LosesGroup(b, g, v, q, a), r.reveal = <<>>
      PROVE  Closes(s, v, b, r.reveal, n)
  <2>1. LosesGroup(s, g, v, q, a)
    BY <1>8 DEF LosesGroup, Taken
  <2> QED BY <1>4, <1>6, <1>8, <2>1, GroupLost
<1>9. CASE (\A g \in DOMAIN b.groups : v \notin MembersIn(b.groups, g)) /\ r = Vanish(b, u)
  <2>1. \A g \in DOMAIN s.groups : v \notin MembersIn(s.groups, g)
    BY <1>9 DEF Taken
  <2>2. CASE ~ Stacked(b, u)
    <3>1. r.tab = b /\ r.reveal = <<>>
      BY <1>9, <2>2 DEF Vanish
    <3>2. ~ InStack(s.stacks, PaneUnit(v)) /\ a.groups = s.groups /\ a.stacks = s.stacks
      BY <1>1, <2>2, <3>1, StackedIn DEF Taken
    <3> QED BY <1>4, <1>6, <2>1, <3>1, <3>2, LonePaneLost
  <2>3. CASE Stacked(b, u)
    <3>1. \A k \in b.stacks : Len(k.units) >= 2
      BY TwoUnitsAtLeast DEF Taken
    <3>2. PICK k, w : Vanishes(b, k, u, w, r)
      BY <1>2, <1>9, <2>3, <3>1, VanishesExactly
    <3> QED BY <1>1, <1>4, <2>1, <3>2, UnitForgotten
  <2> QED BY <2>2, <2>3
<1> QED BY <1>1, <1>5, <1>7, <1>8, <1>9 DEF LosesPane

-----------------------------------------------------------------------------
(* Panes that are removed.                                                 *)

(* Where the focus goes when the active pane is hidden afterwards.         *)
Target(s, reveal, target) ==
  LET next == IF reveal = <<>> THEN None ELSE UnitFocusPane(s, Head(reveal))
  IN  /\ next # None \/ PanesOnShow(s) # {}
      /\ target = IF next # None THEN next ELSE FirstOnShow(s)

LEMMA TargetOnShow ==
  ASSUME NEW s, Sound(s), NEW reveal, NextOnShow(s, reveal),
         NEW target, Target(s, reveal, target)
  PROVE  target \notin s.hidden \/ target = ActivePane(s)
<1>1. PICK next : next = IF reveal = <<>> THEN None ELSE UnitFocusPane(s, Head(reveal))
  OBVIOUS
<1>2. /\ next # None \/ PanesOnShow(s) # {}
      /\ target = IF next # None THEN next ELSE FirstOnShow(s)
  BY <1>1 DEF Target
<1>3. CASE next # None
  <2>1. reveal # <<>>
    BY <1>1, <1>3
  <2>2. PICK w : reveal = <<w>> /\ Live(s, w) /\ Held(s, w) \cap s.hidden = {}
    BY <2>1 DEF NextOnShow
  <2>3. target = UnitFocusPane(s, w)
    BY <1>1, <1>2, <1>3, <2>2
  <2>4. target \in Held(s, w)
    BY <2>2, <2>3, UnitFocused
  <2> QED BY <2>2, <2>4
<1>4. CASE next = None
  <2>1. target = FirstOnShow(s) /\ PanesOnShow(s) # {}
    BY <1>2, <1>4
  <2>2. CASE s.zoomed # None
    BY <2>1, <2>2 DEF FirstOnShow, ActivePane
  <2>3. CASE s.zoomed = None
    <3>1. PanesOnShow(s) = ToSet(s.tree.order) \ s.hidden
      BY <2>3 DEF PanesOnShow
    <3>2. target = s.tree.order[FirstOf(s.tree.order, PanesOnShow(s))]
      BY <2>1, <2>3 DEF FirstOnShow
    <3>3. s.tree.order \in Seq(Pane)
      BY DEF Sound, Fits, TabStates, PaneTrees
    <3>4. PanesOnShow(s) \cap ToSet(s.tree.order) # {}
      BY <2>1, <3>1
    <3>5. target \in PanesOnShow(s)
      BY <3>2, <3>3, <3>4, FirstPlace
    <3> QED BY <3>1, <3>5
  <2> QED BY <2>2, <2>3
<1> QED BY <1>3, <1>4

(* prune_removed_panes forgets one pane: remove_pane, and what it reveals. *)
LEMMA OneForgotten ==
  ASSUME NEW s, NEW v, NEW b, b = [s EXCEPT !.hidden = @ \ {v}],
         NEW r, r = ForgetPane(b, v), r.reveal = <<>> \/ \E w : r.reveal = <<w>>
  PROVE  ForgetAll(s, <<v>>) = [tab |-> r.tab, reveal |-> r.reveal]
<1> DEFINE H(f) == f = [i \in 0 .. Len(<<v>>) |->
                          IF i = 0 THEN [tab |-> s, reveal |-> <<>>]
                          ELSE ForgetNext(f[i - 1], <<v>>[i])]
           forgot == CHOOSE f : H(f)
<1>1. Len(<<v>>) = 1 /\ <<v>>[1] = v
  OBVIOUS
<1>2. ForgetAll(s, <<v>>) = forgot[1]
  BY <1>1 DEF ForgetAll
<1>3. H(forgot)
  <2>1. PICK f : ForgetsEach(f, s, <<v>>, 1)
    BY ForgettingEnds
  <2>2. H(f)
    BY <1>1, <2>1 DEF ForgetsEach
  <2> HIDE DEF H
  <2> QED BY <2>2
<1> HIDE DEF forgot
<1>4. forgot[0] = [tab |-> s, reveal |-> <<>>]
  BY <1>1, <1>3
<1>5. forgot[1] = ForgetNext(forgot[0], v)
  BY <1>1, <1>3
<1>6. forgot[1] = [tab |-> r.tab, reveal |-> <<>> \o r.reveal]
  BY <1>4, <1>5 DEF ForgetNext
<1>7. <<>> \o r.reveal = r.reveal
  <2>1. CASE r.reveal = <<>>
    BY <2>1
  <2>2. CASE \E w : r.reveal = <<w>>
    <3>1. PICK w : r.reveal = <<w>>
      BY <2>2
    <3>2. <<>> \o <<w>> = <<w>>
      OBVIOUS
    <3> QED BY <3>1, <3>2
  <2> QED BY <2>1, <2>2
<1> QED BY <1>2, <1>6, <1>7

(* prune_removed_panes only looks for the focus after that.                *)
Refocuses(shown, reveal, n) ==
  n = shown \/ \E target : Target(shown, reveal, target) /\ n = FocusPane(shown, target)

LEMMA PrunedOne ==
  ASSUME NEW s, NEW removed, NEW f, f = ForgetAll(s, removed),
         NEW shown, shown = ShowUnits(f.tab, f.reveal),
         NEW n, n = PruneRemoved(s, removed)
  PROVE  Refocuses(shown, f.reveal, n)
<1> DEFINE next == IF f.reveal = <<>> THEN None ELSE UnitFocusPane(shown, Head(f.reveal))
           target == IF next # None THEN next ELSE FirstOnShow(shown)
           finds == next # None \/ PanesOnShow(shown) # {}
<1>1. n = IF shown.tree # NoTree /\ ActivePane(shown) \in shown.hidden /\ finds
          THEN FocusPane(shown, target) ELSE shown
  BY DEF PruneRemoved
<1>2. finds => Target(shown, f.reveal, target)
  BY DEF Target
<1> HIDE DEF next, target, finds
<1> QED BY <1>1, <1>2 DEF Refocuses

(* What the walk takes out, before it is forgotten.                        *)
LEMMA VictimTaken ==
  ASSUME NEW s, Sound(s), NEW v \in Leaves(s.tree), NEW out, out = TakeOut(s, {v}),
         NEW b, b = [out EXCEPT !.hidden = @ \ {v}]
  PROVE  Taken(s, v, b) /\ Walk(s.tree, {v}).dead_panes = <<v>>
<1>1. PICK w, L : w = Walk(s.tree, {v}) /\ L = Leaves(s.tree)
  OBVIOUS
<1>2. Fits(s, L) /\ {v} \in SUBSET Leaves(s.tree) /\ {v} # {} /\ L \in SUBSET Pane
  BY <1>1 DEF Sound, Fits, UnitsFit
<1>3. Takes(s, L, {v}, w, out)
  BY <1>1, <1>2, TakenOutOf
<1>4. TakesOne(s, v, w, out)
  BY <1>1, <1>2, <1>3, OneTakenOut
<1>5. w.dead_panes \in Seq(L) /\ IsInjective(w.dead_panes) /\ ToSet(w.dead_panes) = {v}
  BY <1>1, <1>3, <1>4 DEF Takes, TakesOne
<1>6. w.dead_panes = <<v>>
  <2>1. PICK d : d = w.dead_panes
    OBVIOUS
  <2>2. IsFiniteSet({v}) /\ Cardinality({v}) = 1
    BY FS_Singleton
  <2>3. Len(d) = 1
    BY <1>5, <2>1, <2>2, Counted
  <2>4. d[1] \in {v}
    <3>1. ToSet(d) = {d[i] : i \in 1 .. Len(d)}
      BY <1>5, <2>1, SetOfSeq
    <3>2. 1 \in 1 .. Len(d)
      BY <2>3
    <3>3. d[1] \in ToSet(d)
      BY <3>1, <3>2
    <3> QED BY <1>5, <2>1, <3>3
  <2> QED BY <1>5, <2>1, <2>3, <2>4
<1>7. Fits(out, L) /\ out.hidden = s.hidden /\ out.groups = s.groups /\ out.stacks = s.stacks
      /\ out.next_id = s.next_id /\ out.tree = w.tree /\ w.tree.sets = Shrunk(s.tree.sets, {v})
      /\ Leaves(out.tree) = L \ {v}
  BY <1>1, <1>3, <1>5, <1>4 DEF Takes, TakesOne, Sane
<1>8. s.hidden \ {v} \in SUBSET L
  BY <1>2 DEF Fits, UnitsFit
<1>9. Hide(out, s.hidden \ {v}, b)
  BY <1>7 DEF Hide, Fits, TabStates
<1>10. Hides(out, L, s.hidden \ {v}, b)
  BY <1>7, <1>8, <1>9, Hidden
<1>11. Taken(s, v, b)
  BY <1>1, <1>7, <1>10 DEF Hides, Taken
<1> QED BY <1>1, <1>6, <1>11

(* remove_pane_if, for one pane. *)
LEMMA RemovalCloses ==
  ASSUME NEW s, Sound(s), PG!Fit(View(s)), NEW v \in Leaves(s.tree),
         NEW n, n = RemovePaneIf(s, {v})
  PROVE  CloseStep(View(s), v, View(n)) /\ Sound(n) /\ Leaves(n.tree) = Leaves(s.tree) \ {v}
<1>1. PICK out : out = TakeOut(s, {v})
  OBVIOUS
<1>2. PICK b : b = [out EXCEPT !.hidden = @ \ {v}]
  OBVIOUS
<1>3. Taken(s, v, b) /\ Walk(s.tree, {v}).dead_panes = <<v>>
  BY <1>1, <1>2, VictimTaken
<1>4. n = PruneRemoved(out, <<v>>)
  <2>1. <<v>> # <<>>
    OBVIOUS
  <2> QED BY <1>1, <1>3, <2>1 DEF RemovePaneIf
<1>5. PICK r : r = ForgetPane(b, v)
  OBVIOUS
<1>6. PICK shown : shown = ShowUnits(r.tab, r.reveal)
  OBVIOUS
<1>7. Closes(s, v, b, r.reveal, shown)
  BY <1>3, <1>5, <1>6, ForgottenCloses
<1>8. NextOnShow(shown, r.reveal) /\ Sound(shown) /\ CloseStep(View(s), v, View(shown))
      /\ Leaves(shown.tree) = Leaves(s.tree) \ {v}
  BY <1>3, <1>7 DEF Closes, Taken
<1>9. ForgetAll(out, <<v>>) = [tab |-> r.tab, reveal |-> r.reveal]
  <2>1. r.reveal = <<>> \/ \E w : r.reveal = <<w>>
    BY <1>8 DEF NextOnShow
  <2> QED BY <1>2, <1>5, <2>1, OneForgotten
<1>10. Refocuses(shown, r.reveal, n)
  <2>1. PICK f : f = ForgetAll(out, <<v>>)
    OBVIOUS
  <2>2. f.tab = r.tab /\ f.reveal = r.reveal
    BY <1>9, <2>1
  <2>3. shown = ShowUnits(f.tab, f.reveal)
    BY <1>6, <2>2
  <2>4. Refocuses(shown, f.reveal, n)
    BY <1>4, <2>1, <2>3, PrunedOne
  <2> QED BY <2>2, <2>4
<1>11. CASE n = shown
  BY <1>8, <1>11
<1>12. ASSUME NEW target, Target(shown, r.reveal, target), n = FocusPane(shown, target)
       PROVE  CloseStep(View(s), v, View(n)) /\ Sound(n)
              /\ Leaves(n.tree) = Leaves(s.tree) \ {v}
  <2>1. target \notin shown.hidden \/ target = ActivePane(shown)
    BY <1>8, <1>12, TargetOnShow
  <2>2. Sound(n) /\ n.tree = shown.tree /\ SameUnits(shown, n) /\ Stays(shown, n)
    BY <1>8, <1>12, <2>1, FocusTurns
  <2>3. View(n) = View(shown)
    BY <2>2, StaysSeen
  <2> QED BY <1>8, <2>2, <2>3
<1> QED BY <1>10, <1>11, <1>12 DEF Refocuses

(* kill_pane, remove_pane, prune_dead_panes, kill_panes_in_domain *)
LEMMA RemovePanesCloses ==
  ASSUME TabInv, PG!Fit(View(tab)), NEW v \in Ids, RemovePanes({v})
  PROVE  CloseStep(View(tab), v, View(tab'))
BY RemovalCloses DEF TabInv, Sound, Ids, RemovePanes

(* dock_pane *)
MoveStep(V, W) ==
  \E p, e \in PG!Panes(V) :
    /\ p \notin V.hidden /\ p # e
    /\ \E s \in PG!Closings(V, p) : e \notin s.hidden /\ W = PG!Insert(s, e, p)

LEMMA IsDockedMoves ==
  ASSUME TabInv, PG!Fit(View(tab)), NEW p \in Ids, NEW q \in Ids, NEW second \in BOOLEAN,
         IsDocked(p, q, second)
  PROVE  MoveStep(View(tab), View(tab'))
<1>1. PICK out : out = RemovePaneIf(tab, {p})
  OBVIOUS
<1>2. PICK docked : docked = SplitAndInsert(out, q, p, second, FALSE)
  OBVIOUS
<1>3. /\ p # q /\ tab' = FocusPane(docked, p) /\ {p, q} \cap tab.hidden = {}
  BY <1>1, <1>2 DEF IsDocked
<1>4. Sound(tab) /\ p \in Leaves(tab.tree) /\ q \in Leaves(tab.tree) /\ p \in Pane
  BY DEF TabInv, Sound, Ids, Fits, UnitsFit
<1>5. CloseStep(View(tab), p, View(out)) /\ Sound(out) /\ Leaves(out.tree) = Leaves(tab.tree) \ {p}
  BY <1>1, <1>4, RemovalCloses
<1>6. q \in Leaves(out.tree) /\ p \in Pane \ Leaves(out.tree) /\ FALSE \in BOOLEAN
  BY <1>3, <1>4, <1>5
<1>7. InsertsIn(out, q, p, FALSE, docked)
  BY <1>2, <1>5, <1>6, InsertSeen
<1>8. Sound(docked) /\ docked.hidden = out.hidden /\ View(docked) = PG!Insert(View(out), q, p)
  BY <1>7 DEF InsertsIn
<1>9. p \notin docked.hidden
  BY <1>5, <1>6, <1>8 DEF Sound, Fits, UnitsFit
<1>10. View(tab') = View(docked)
  <2>1. PICK n : n = tab'
    OBVIOUS
  <2>2. n.tree = docked.tree /\ SameUnits(docked, n) /\ Stays(docked, n)
    BY <1>3, <1>8, <1>9, <2>1, FocusTurns
  <2> QED BY <2>1, <2>2, StaysSeen
<1>11. PG!Panes(View(tab)) = Leaves(tab.tree) /\ View(tab).hidden = tab.hidden
  BY ViewParts
<1>12. View(out) \in PG!Closings(View(tab), p)
  BY <1>5 DEF CloseStep
<1>13. View(tab') = PG!Insert(View(out), q, p)
  BY <1>8, <1>10
<1>14. q \notin View(out).hidden
  BY <1>3, <1>4, <1>11, <1>12, ClosingReveals
<1> QED BY <1>3, <1>4, <1>11, <1>12, <1>13, <1>14 DEF MoveStep

LEMMA IsPutBackMoves ==
  ASSUME TabInv, PG!Fit(View(tab)), NEW p \in Ids, NEW q \in Ids, IsPutBack(p, q)
  PROVE  MoveStep(View(tab), View(tab'))
<1>1. PICK out : out = RemovePaneIf(tab, {p})
  OBVIOUS
<1>2. PICK beside : beside = FirstOnShow(out)
  OBVIOUS
<1>3. /\ p # q /\ tab.zoomed = None /\ p \notin tab.hidden /\ PanesOnShow(out) # {}
      /\ tab' = SplitAndInsert(out, beside, p, TRUE, FALSE)
  BY <1>1, <1>2 DEF IsPutBack
<1>4. Sound(tab) /\ p \in Leaves(tab.tree) /\ p \in Pane
  BY DEF TabInv, Sound, Ids, Fits, UnitsFit
<1>5. CloseStep(View(tab), p, View(out)) /\ Sound(out) /\ Leaves(out.tree) = Leaves(tab.tree) \ {p}
  BY <1>1, <1>4, RemovalCloses
<1>6. out.zoomed = None
  <2>1. Fits(tab, Leaves(tab.tree)) /\ {p} \in SUBSET Leaves(tab.tree) /\ {p} # {}
    BY <1>4 DEF TabInv
  <2> QED BY <1>1, <1>3, <2>1, PanesRemoved DEF Removes, RemovesOne
<1>7. beside \in Leaves(out.tree) /\ beside \notin out.hidden
  BY <1>2, <1>3, <1>5, <1>6, FirstShown DEF Sound
<1>8. p \in Pane \ Leaves(out.tree) /\ FALSE \in BOOLEAN /\ TRUE \in BOOLEAN
  BY <1>4, <1>5
<1>9. InsertsIn(out, beside, p, FALSE, tab')
  BY <1>3, <1>5, <1>7, <1>8, InsertSeen
<1>10. View(tab') = PG!Insert(View(out), beside, p)
  BY <1>9 DEF InsertsIn
<1>11. /\ PG!Panes(View(tab)) = Leaves(tab.tree) /\ View(tab).hidden = tab.hidden
       /\ View(out).hidden = out.hidden
  BY ViewParts
<1>12. View(out) \in PG!Closings(View(tab), p)
  BY <1>5 DEF CloseStep
<1>13. p # beside /\ beside \in Leaves(tab.tree)
  BY <1>5, <1>7
<1> QED BY <1>3, <1>4, <1>7, <1>10, <1>11, <1>12, <1>13 DEF MoveStep

-----------------------------------------------------------------------------
(* Calls that change the tree and leave groups and stacks alone.           *)

LEMMA RetreeSeen ==
  ASSUME NEW s, NEW n, Leaves(n.tree) = Leaves(s.tree), n.groups = s.groups,
         n.stacks = s.stacks, n.hidden = s.hidden
  PROVE  View(n) = [View(s) EXCEPT !.subtrees = n.tree.sets]
<1>1. (\A u : Held(n, u) = Held(s, u)) /\ (\A k : SeenStack(n, k) = SeenStack(s, k))
  BY SameHeld
<1>2. View(n).groups = View(s).groups /\ View(n).stacks = View(s).stacks
  <2>1. View(n).groups = {Held(s, GroupUnit(g)) : g \in DOMAIN s.groups}
    BY <1>1 DEF View
  <2>2. View(n).stacks = {SeenStack(s, k) : k \in s.stacks}
    BY <1>1 DEF View
  <2> QED BY <2>1, <2>2 DEF View
<1>3. View(n).subtrees = n.tree.sets /\ View(n).hidden = View(s).hidden
  BY DEF View
<1>4. PICK W : W = [View(s) EXCEPT !.subtrees = n.tree.sets]
  OBVIOUS
<1>5. /\ W = [subtrees |-> n.tree.sets, hidden |-> View(s).hidden,
              groups |-> View(s).groups, stacks |-> View(s).stacks]
  BY <1>4 DEF View
<1>6. View(n) = [subtrees |-> n.tree.sets, hidden |-> View(s).hidden,
                 groups |-> View(s).groups, stacks |-> View(s).stacks]
  BY <1>2, <1>3, LayoutsEqual
<1> QED BY <1>4, <1>5, <1>6

Moved(s, n) ==
  /\ Leaves(n.tree) = Leaves(s.tree) /\ n.groups = s.groups
  /\ n.stacks = s.stacks /\ n.hidden = s.hidden

LEMMA RelabelSeen ==
  ASSUME NEW s, NEW n, Moved(s, n), NEW f,
         n.tree.sets = {{f[p] : p \in S} : S \in s.tree.sets}
  PROVE  View(n) = PG!Relabeled(View(s), f)
<1>1. View(n) = [View(s) EXCEPT !.subtrees = n.tree.sets]
  BY RetreeSeen DEF Moved
<1>2. View(s).subtrees = s.tree.sets
  BY ViewParts
<1>3. n.tree.sets = {{f[p] : p \in S} : S \in View(s).subtrees}
  BY <1>2
<1> QED BY <1>1, <1>3 DEF PG!Relabeled

LEMMA NoGroupsSeen ==
  ASSUME NEW s, ~ HasGroups(s)
  PROVE  View(s).groups = {} /\ View(s).stacks = {}
BY DEF View, HasGroups

PermuteStep(V, W) ==
  /\ V.groups = {} /\ V.stacks = {}
  /\ \E f \in Bijection(PG!Panes(V), PG!Panes(V)) : W = PG!Relabeled(V, f)

(* rotate_clockwise and rotate_counter_clockwise *)
LEMMA RotatePermutes ==
  ASSUME TabInv, NEW clockwise \in BOOLEAN, Rotate(clockwise)
  PROVE  PermuteStep(View(tab), View(tab'))
<1>1. PICK L : L = Leaves(tab.tree)
  OBVIOUS
<1>2. PICK f \in Bijection(L, L) : tab' = [tab EXCEPT !.tree = Relabel(@, f)]
  BY <1>1, RotateMoves
<1>3. tab \in TabStates /\ tab.tree \in PaneTrees /\ IsTree(tab.tree)
  BY DEF TabInv, Fits, TabStates
<1>4. Leaves(Relabel(tab.tree, f)) = L
  BY <1>1, <1>3, Relabeled
<1>5. PICK n : n = tab'
  OBVIOUS
<1>6. n.tree = Relabel(tab.tree, f) /\ Moved(tab, n)
  BY <1>1, <1>2, <1>3, <1>4, <1>5 DEF Moved, TabStates
<1>7. n.tree.sets = {{f[p] : p \in S} : S \in tab.tree.sets}
  BY <1>6 DEF Relabel
<1>8. View(n) = PG!Relabeled(View(tab), f)
  BY <1>6, <1>7, RelabelSeen
<1>9. PG!Panes(View(tab)) = L
  BY <1>1, ViewParts
<1>10. View(tab).groups = {} /\ View(tab).stacks = {}
  BY NoGroupsSeen DEF Rotate
<1> QED BY <1>5, <1>8, <1>9, <1>10 DEF PermuteStep

SwapStep(V, W) ==
  \E a, b \in PG!Panes(V) :
    /\ V.hidden = {} /\ ~ PG!InGroup(V, a) /\ ~ PG!InGroup(V, b)
    /\ W = PG!Relabeled(V, [p \in PG!Panes(V) |-> IF p = a THEN b ELSE IF p = b THEN a ELSE p])

LEMMA SwapSeen ==
  ASSUME NEW s, Sound(s), s.hidden = {}, NEW a \in Leaves(s.tree), NEW b \in Leaves(s.tree),
         \A g \in DOMAIN s.groups : a \notin MembersIn(s.groups, g) /\ b \notin MembersIn(s.groups, g),
         NEW n, Moved(s, n), n.tree = Exchange(s.tree, a, b)
  PROVE  SwapStep(View(s), View(n))
<1> DEFINE f == [p \in Leaves(s.tree) |-> IF p = a THEN b ELSE IF p = b THEN a ELSE p]
<1>1. n.tree.sets = {{f[p] : p \in S} : S \in s.tree.sets}
  BY DEF Exchange, Relabel
<1> HIDE DEF f
<1>2. View(n) = PG!Relabeled(View(s), f)
  BY <1>1, RelabelSeen
<1>3. PG!Panes(View(s)) = Leaves(s.tree) /\ View(s).hidden = {}
  BY ViewParts
<1>4. ~ PG!InGroup(View(s), a) /\ ~ PG!InGroup(View(s), b)
  BY UnitsSeen
<1>5. f = [p \in PG!Panes(View(s)) |-> IF p = a THEN b ELSE IF p = b THEN a ELSE p]
  BY <1>3 DEF f
<1>6. View(n) = PG!Relabeled(View(s),
                  [p \in PG!Panes(View(s)) |-> IF p = a THEN b ELSE IF p = b THEN a ELSE p])
  BY <1>2, <1>5
<1>7. a \in PG!Panes(View(s)) /\ b \in PG!Panes(View(s))
  BY <1>3
<1> QED BY <1>3, <1>4, <1>6, <1>7 DEF SwapStep

(* swap_panes *)
LEMMA SwapPanesSwaps ==
  ASSUME TabInv, NEW a \in Ids, NEW b \in Ids, SwapPanes(a, b)
  PROVE  SwapStep(View(tab), View(tab'))
<1>1. Sound(tab) /\ tab \in TabStates /\ a \in Leaves(tab.tree) /\ b \in Leaves(tab.tree)
      /\ tab.next_id \in 0 .. MaxGroups
  BY DEF TabInv, Sound, Ids, Fits
<1>2. tab.hidden = {} /\ UnitOf(tab, a).kind = "pane" /\ UnitOf(tab, b).kind = "pane"
      /\ tab' = SwapPanesOf(tab, a, b)
  BY DEF SwapPanes
<1>3. \A g \in DOMAIN tab.groups : a \notin MembersIn(tab.groups, g) /\ b \notin MembersIn(tab.groups, g)
  <2>1. GroupsFit(tab.groups, tab.next_id, Leaves(tab.tree))
    BY <1>1 DEF Sound, Fits, UnitsFit
  <2>2. \A p : \A g \in DOMAIN tab.groups : p \in MembersIn(tab.groups, g) =>
          UnitBy(tab.groups, p) = GroupUnit(g)
    BY <2>1, UnitOnly
  <2>3. UnitBy(tab.groups, a).kind = "pane" /\ UnitBy(tab.groups, b).kind = "pane"
    BY <1>2, UnitByGroups
  <2> QED BY <2>2, <2>3, UnitKinds
<1>4. PICK n : n = tab'
  OBVIOUS
<1>5. PICK t : t = Exchange(tab.tree, a, b)
  OBVIOUS
<1>6. n.tree = t /\ n.groups = tab.groups /\ n.stacks = tab.stacks /\ n.hidden = tab.hidden
  BY <1>1, <1>2, <1>4, <1>5 DEF SwapPanesOf, TabStates
<1>7. Leaves(t) = Leaves(tab.tree)
  BY <1>1, <1>5, TreeSwapped DEF Sound
<1>8. Moved(tab, n)
  BY <1>6, <1>7 DEF Moved
<1>9. SwapStep(View(tab), View(n))
  BY <1>1, <1>2, <1>3, <1>5, <1>6, <1>8, SwapSeen
<1> QED BY <1>4, <1>9

-----------------------------------------------------------------------------
(* Chains.                                                                 *)

LEMMA ChainIsChain ==
  ASSUME NEW panes \in Seq(Pane), panes # <<>>, IsInjective(panes)
  PROVE  ChainSets(panes) \in PG!Chains(ToSet(panes))
<1>1. PICK C, N : C = ChainSets(panes) /\ N = ToSet(panes)
  OBVIOUS
<1>9. PICK m : m = Len(panes)
  OBVIOUS
<1> DEFINE At(i) == {panes[j] : j \in i .. m}
<1>2. /\ \A Q \in C : Q \subseteq N /\ Q # {}
      /\ N \in C /\ \A p \in N : {p} \in C
      /\ \A R, S \in C : R \subseteq S \/ S \subseteq R \/ R \cap S = {}
  BY <1>1, Chained
<1>3. m \in Nat /\ DOMAIN panes = 1 .. m
  BY <1>9, LenProperties
<1>4. N = {panes[i] : i \in 1 .. m}
  BY <1>1, <1>3 DEF ToSet
<1>5. C = {{p} : p \in N} \cup {At(i) : i \in 1 .. m}
  BY <1>1, <1>3, <1>9 DEF ChainSets
<1>6. \A Q \in C : \E p \in Q : Q = {p} \/ Q \ {p} \in C
  <2>1. SUFFICES ASSUME NEW Q \in C PROVE \E p \in Q : Q = {p} \/ Q \ {p} \in C
    OBVIOUS
  <2>2. CASE \E p \in N : Q = {p}
    BY <2>2
  <2>3. ASSUME NEW i \in 1 .. m, Q = At(i) PROVE \E p \in Q : Q = {p} \/ Q \ {p} \in C
    <3>1. CASE i = m
      <4>1. i .. m = {m}
        BY <1>3, <3>1
      <4>2. At(i) = {panes[m]}
        BY <4>1
      <4> HIDE DEF At
      <4> QED BY <2>3, <4>2
    <3>2. CASE i # m
      <4>1. i + 1 \in 1 .. m /\ i .. m = {i} \cup (i + 1 .. m)
        BY <1>3, <3>2
      <4>2. At(i) = {panes[i]} \cup At(i + 1)
        BY <4>1
      <4>3. panes[i] \notin At(i + 1)
        <5>1. \A j \in i + 1 .. m : j \in 1 .. m /\ j # i
          BY <1>3
        <5>2. \A j \in 1 .. m : panes[j] = panes[i] => j = i
          BY <1>3 DEF IsInjective
        <5> QED BY <5>1, <5>2
      <4>4. At(i + 1) \in C
        BY <1>5, <4>1
      <4> HIDE DEF At
      <4>5. At(i) \ {panes[i]} = At(i + 1) /\ panes[i] \in Q
        BY <2>3, <4>2, <4>3
      <4> QED BY <2>3, <4>4, <4>5
    <3> QED BY <3>1, <3>2
  <2> HIDE DEF At
  <2> QED BY <1>5, <2>2, <2>3
<1>7. C \in SUBSET ((SUBSET N) \ {{}})
  BY <1>2
<1> HIDE DEF At
<1>8. C \in PG!Chains(N)
  BY <1>2, <1>6, <1>7 DEF PG!Chains
<1> QED BY <1>1, <1>8

ArrangeStep(V, W) ==
  \E p \in PG!Panes(V) :
    LET others == PG!Panes(V) \ {p}
    IN  /\ V.hidden = {} /\ V.groups = {} /\ V.stacks = {}
        /\ \E chain \in PG!Chains(others) :
             W = [V EXCEPT !.subtrees = chain \cup {{p}, PG!Panes(V)}]

(* focus_layout *)
LEMMA FocusLayoutArranges ==
  ASSUME TabInv, NEW p \in Ids, FocusLayout(p)
  PROVE  \/ View(tab') = View(tab)
         \/ SwapStep(View(tab), View(tab')) \/ ArrangeStep(View(tab), View(tab'))
<1>1. PICK s : s = Unzoomed(tab)
  OBVIOUS
<1>2. PICK main : main = Head(s.tree.order)
  OBVIOUS
<1>3. PICK rest : rest = Omit(s.tree.order, p)
  OBVIOUS
<1>4. PICK fresh : fresh = PairWith(LeafTree(p), {p}, rest, TRUE)
  OBVIOUS
<1>5. \/ tab' = [SwapPanesOf(s, main, p) EXCEPT !.active = 0]
      \/ rest # <<>> /\ tab' = [s EXCEPT !.tree = fresh, !.active = 0]
      \/ tab' = s
  BY <1>1, <1>2, <1>3, <1>4 DEF FocusLayout
<1>6. Sound(tab) /\ tab.hidden = {} /\ ~ HasGroups(tab) /\ tab.next_id \in 0 .. MaxGroups
  BY DEF TabInv, Sound, FocusLayout
<1>7. Sound(s) /\ View(s) = View(tab) /\ s.tree = tab.tree /\ s.hidden = {}
      /\ DOMAIN s.groups = {}
  <2>1. Sound(s) /\ View(s) = View(tab) /\ SameUnits(tab, s) /\ s.tree = tab.tree /\ Stays(tab, s)
    BY <1>1, <1>6, UnzoomedSeen
  <2> QED BY <1>6, <2>1 DEF SameUnits, Stays, HasGroups
<1>8. s.tree \in PaneTrees /\ IsTree(s.tree) /\ s \in TabStates /\ p \in Leaves(s.tree)
      /\ p \in Pane
  BY <1>7, TreePlaces DEF Sound, Fits, TabStates, Ids
<1>9. s.tree.order \in Seq(Pane) /\ IsInjective(s.tree.order)
       /\ ToSet(s.tree.order) = Leaves(s.tree) /\ s.tree.order # <<>>
  BY <1>8, TreePlaces
<1>10. PICK n : n = tab'
  OBVIOUS
<1>11. CASE n = [SwapPanesOf(s, main, p) EXCEPT !.active = 0]
  <2>1. main \in Leaves(s.tree)
    <3>1. main = s.tree.order[1] /\ 1 \in 1 .. Len(s.tree.order)
      BY <1>2, <1>9
    <3> QED BY <1>8, <3>1, TreePlaces
  <2>2. PICK t : t = Exchange(s.tree, main, p)
    OBVIOUS
  <2>3. Leaves(t) = Leaves(s.tree)
    BY <1>8, <2>1, <2>2, Exchanged
  <2>4. n.tree = t /\ n.groups = s.groups /\ n.stacks = s.stacks /\ n.hidden = s.hidden
    BY <1>8, <1>11, <2>2 DEF SwapPanesOf, TabStates
  <2>5. Moved(s, n)
    BY <2>3, <2>4 DEF Moved
  <2>6. SwapStep(View(s), View(n))
    BY <1>7, <1>8, <2>1, <2>2, <2>4, <2>5, SwapSeen
  <2> QED BY <1>7, <1>10, <2>6
<1>12. CASE rest # <<>> /\ n = [s EXCEPT !.tree = fresh, !.active = 0]
  <2>1. /\ rest \in Seq(Pane) /\ IsInjective(rest)
        /\ ToSet(rest) = Leaves(s.tree) \ {p}
    BY <1>3, <1>8, <1>9, Omitted
  <2>2. PICK O, C : O = ToSet(rest) /\ C = ChainSets(rest)
    OBVIOUS
  <2>3. C \in PG!Chains(O) /\ O \in C /\ \A Q \in C : Q \subseteq O
    BY <1>12, <2>1, <2>2, ChainIsChain, Chained
  <2>4. fresh.sets = C \cup {{p}, Leaves(s.tree)}
    <3>1. fresh.sets = Widen({{p}}, {p}, O) \cup {{p}} \cup C
      BY <1>4, <2>2 DEF PairWith, LeafTree
    <3>2. Widen({{p}}, {p}, O) = {{p} \cup O}
      BY DEF Widen
    <3>3. {p} \cup O = Leaves(s.tree)
      BY <1>8, <2>1, <2>2
    <3> QED BY <3>1, <3>2, <3>3
  <2>5. Leaves(fresh) = Leaves(s.tree)
    <3>1. PICK L : L = Leaves(s.tree)
      OBVIOUS
    <3>2. fresh.sets = C \cup {{p}, L} /\ \A Q \in C : Q \subseteq L
      BY <2>1, <2>2, <2>3, <2>4, <3>1
    <3>3. UNION fresh.sets = L
      BY <1>8, <3>1, <3>2
    <3> QED BY <3>1, <3>3 DEF Leaves
  <2>6. n.tree = fresh /\ n.groups = s.groups /\ n.stacks = s.stacks /\ n.hidden = s.hidden
    BY <1>8, <1>12 DEF TabStates
  <2>7. View(n) = [View(s) EXCEPT !.subtrees = C \cup {{p}, Leaves(s.tree)}]
    BY <2>4, <2>5, <2>6, RetreeSeen
  <2>8. PICK V : V = View(s)
    OBVIOUS
  <2>9. PG!Panes(V) = Leaves(s.tree) /\ V.hidden = {} /\ V.groups = {} /\ V.stacks = {}
    BY <1>6, <1>7, <2>8, ViewParts, NoGroupsSeen
  <2>10. C \in PG!Chains(PG!Panes(V) \ {p}) /\ p \in PG!Panes(V)
    BY <1>8, <2>1, <2>2, <2>3, <2>9
  <2>11. View(n) = [V EXCEPT !.subtrees = C \cup {{p}, PG!Panes(V)}]
    BY <2>7, <2>8, <2>9
  <2>12. ArrangeStep(V, View(n))
    BY <2>9, <2>10, <2>11 DEF ArrangeStep
  <2> QED BY <1>7, <1>10, <2>8, <2>12
<1>13. CASE n = s
  BY <1>7, <1>10, <1>13
<1> QED BY <1>5, <1>10, <1>11, <1>12, <1>13

UngroupStep(V, W) ==
  \E G \in V.groups : ~ PG!Stacked(V, G) /\ W = [V EXCEPT !.groups = @ \ {G}]

(* ungroup_active *)
LEMMA UngroupActiveUngroups ==
  ASSUME TabInv, UngroupActive
  PROVE  UngroupStep(View(tab), View(tab'))
<1>1. PICK L, m, q : L = Leaves(tab.tree) /\ m = tab.groups /\ q = ActivePane(tab)
  OBVIOUS
<1>2. PICK u : u = UnitBy(m, q)
  OBVIOUS
<1>3. u.kind = "group" /\ ~ Stacked(tab, u) /\ tab' = Dissolve(tab, u.id)
  <2>1. u = UnitOf(tab, ActivePane(tab))
    BY <1>1, <1>2, UnitByGroups
  <2> QED BY <2>1 DEF UngroupActive
<1>4. /\ Sound(tab) /\ tab \in TabStates
      /\ GroupsFit(m, tab.next_id, L) /\ DOMAIN m \subseteq Nat
  BY <1>1, GroupTyped DEF TabInv, Sound, Fits, UnitsFit, GroupsFit
<1>5. PICK g \in DOMAIN m : u = GroupUnit(g) /\ u.id = g
  <2>1. InGroup(m, q, u) \/ InNoGroup(m, q, u)
    BY <1>2, <1>4, UnitIs
  <2>2. ~ InNoGroup(m, q, u)
    BY <1>3, UnitKinds DEF InNoGroup
  <2> QED BY <2>1, <2>2, UnitKinds DEF InGroup
<1>6. PICK n : n = tab'
  OBVIOUS
<1>7. Sound(n)
  BY <1>6, UngroupActiveLeads DEF Leads, Sound
<1>8. n.tree = tab.tree /\ n.hidden = tab.hidden /\ n.stacks = tab.stacks
      /\ n.groups = Restrict(m, DOMAIN m \ {g})
  BY <1>1, <1>3, <1>4, <1>5, <1>6 DEF Dissolve, TabStates
<1>9. DOMAIN n.groups = DOMAIN m \ {g}
      /\ \A h \in DOMAIN m \ {g} : MembersIn(n.groups, h) = MembersIn(m, h)
  <2>1. DOMAIN n.groups = DOMAIN m \ {g} /\ \A h \in DOMAIN m \ {g} : n.groups[h] = m[h]
    BY <1>8 DEF Restrict
  <2> QED BY <2>1 DEF MembersIn
<1>10. Spares(tab, u, n)
  BY <1>1, <1>5, <1>8, <1>9, UnitKinds DEF Spares
<1>11. \A x : Live(tab, x) /\ x # u => Held(n, x) = Held(tab, x)
  BY <1>4, <1>7, <1>10, UnitsSpared
<1>12. Live(tab, u)
  BY <1>1, <1>4, <1>5, LiveUnits
<1>13. Renamed(tab, u, u, n)
  BY <1>8 DEF Renamed
<1>14. GroupUnits(n.groups) = (GroupUnits(tab.groups) \ {u}) \cup {}
  BY <1>1, <1>5, <1>9, UnitKinds DEF GroupUnits
<1>15. Becomes(tab, u, u, {}, n)
  BY <1>11, <1>12, <1>13, <1>14 DEF Becomes
<1>16. View(n).groups = (View(tab).groups \ {Held(tab, u)}) \cup {Held(n, x) : x \in {}}
  BY <1>4, <1>15, UnitChanged
<1>17. ~ InStack(tab.stacks, u)
  BY <1>3, StackedIn
<1>18. \A x : InStack(tab.stacks, x) => Held(n, x) = Held(tab, x)
  BY <1>4, <1>11, <1>17, LiveUnits
<1>19. View(n).stacks = View(tab).stacks
  BY <1>4, <1>8, <1>18, StacksUnchanged
<1>20. PICK V, G : V = View(tab) /\ G = Held(tab, u)
  OBVIOUS
<1>21. G \in V.groups /\ ~ PG!Stacked(V, G)
  BY <1>1, <1>4, <1>5, <1>12, <1>17, <1>20, UnitsSeen
<1>22. View(n).subtrees = V.subtrees /\ View(n).hidden = V.hidden
  BY <1>8, <1>20, ViewParts
<1>23. View(n).groups = V.groups \ {G} /\ View(n).stacks = V.stacks
  BY <1>16, <1>19, <1>20
<1>24. View(n) = [V EXCEPT !.groups = @ \ {G}]
  <2>1. View(n) = [subtrees |-> V.subtrees, hidden |-> V.hidden,
                   groups |-> V.groups \ {G}, stacks |-> V.stacks]
    BY <1>22, <1>23, LayoutsEqual
  <2>2. V = [subtrees |-> V.subtrees, hidden |-> V.hidden,
             groups |-> V.groups, stacks |-> V.stacks]
    BY <1>20 DEF View
  <2> QED BY <2>1, <2>2
<1> QED BY <1>6, <1>20, <1>21, <1>24 DEF UngroupStep

-----------------------------------------------------------------------------
(* Two units joined: docked beside each other first, where they are apart. *)

(* The panes of a unit in no stack are all on show.                        *)
LEMMA LooseOnShow ==
  ASSUME NEW s, Sound(s), PG!HiddenFits(View(s)), NEW u, ~ InStack(s.stacks, u)
  PROVE  Held(s, u) \cap s.hidden = {}
<1>1. ASSUME NEW p \in Held(s, u), p \in s.hidden PROVE FALSE
  <2>1. UnitBy(s.groups, p) = u
    BY <1>1, HeldApart
  <2> QED BY <1>1, <2>1, HiddenInStack
<1> QED BY <1>1

(* replace_subtree_with_pair is the docking of the promise.                *)
LEMMA DockedAre ==
  ASSUME NEW sets, NEW T, T # {}, NEW source, ToSet(source) \cap T = {}
  PROVE  DockedSets(sets, source, T) = PG!Dock(sets, ToSet(source), T, ChainSets(source))
<1>1. PICK A : A = ToSet(source)
  OBVIOUS
<1>2. PICK C : C = ChainSets(source)
  OBVIOUS
<1>3. PICK X : X = Shrunk(sets, A)
  OBVIOUS
<1>4. PICK D : D = Widen(X, T, A)
  OBVIOUS
<1>5. PICK E : E = {IF T \subseteq S THEN S \cup A ELSE S \ A : S \in sets} \ {{}}
  OBVIOUS
<1>6. A \cap T = {}
  BY <1>1
<1>7. ASSUME NEW R \in D PROVE R \in E
  <2>1. PICK Y \in X : R = IF T \subseteq Y THEN Y \cup A ELSE Y
    BY <1>4, <1>7 DEF Widen
  <2>2. PICK S \in sets : Y = S \ A /\ Y # {}
    BY <1>3, <2>1 DEF Shrunk
  <2>3. T \subseteq Y <=> T \subseteq S
    BY <1>6, <2>2
  <2>4. Y \cup A = S \cup A
    BY <2>2
  <2>5. R = IF T \subseteq S THEN S \cup A ELSE S \ A
    BY <2>1, <2>2, <2>3, <2>4
  <2>6. R # {}
    BY <2>1, <2>2
  <2> QED BY <1>5, <2>5, <2>6
<1>8. ASSUME NEW R \in E PROVE R \in D
  <2>1. PICK S \in sets : R = (IF T \subseteq S THEN S \cup A ELSE S \ A) /\ R # {}
    BY <1>5, <1>8
  <2>2. PICK Y : Y = S \ A
    OBVIOUS
  <2>3. T \subseteq Y <=> T \subseteq S
    BY <1>6, <2>2
  <2>4. Y # {}
    BY <2>1, <2>2, <2>3
  <2>5. Y \in X
    BY <1>3, <2>2, <2>4 DEF Shrunk
  <2>6. Y \cup A = S \cup A
    BY <2>2
  <2>7. R = IF T \subseteq Y THEN Y \cup A ELSE Y
    BY <2>1, <2>2, <2>3, <2>6
  <2> QED BY <1>4, <2>5, <2>7 DEF Widen
<1>9. D = E
  BY <1>7, <1>8
<1>10. DockedSets(sets, source, T) = D \cup {T} \cup C
  BY <1>1, <1>2, <1>3, <1>4 DEF DockedSets
<1>11. PG!Dock(sets, ToSet(source), T, ChainSets(source)) = E \cup {T} \cup C
  BY <1>1, <1>2, <1>5 DEF PG!Dock
<1> QED BY <1>9, <1>10, <1>11

(* Unit a has been docked beside unit b, and nothing else has changed.     *)
Redocks(s, a, b, n) ==
  /\ Sound(n) /\ Leaves(n.tree) = Leaves(s.tree) /\ SameUnits(s, n) /\ Stays(s, n)
  /\ n.zoomed = None
  /\ \E chain \in PG!Chains(Held(s, a)) :
       n.tree.sets = PG!Dock(s.tree.sets, Held(s, a), Held(s, b), chain)

LEMMA DockSeen ==
  ASSUME NEW s, Sound(s), PG!HiddenFits(View(s)), s.zoomed = None,
         NEW a, Live(s, a), ~ InStack(s.stacks, a), NEW b, Live(s, b), a # b,
         Held(s, b) \in s.tree.sets, NEW second \in BOOLEAN,
         NEW n, n = DockUnit(s, UnitPanes(s, a), ToSet(UnitPanes(s, b)), second)
  PROVE  Redocks(s, a, b, n)
<1>1. PICK A : A = UnitPanes(s, a)
  OBVIOUS
<1>2. PICK T : T = Held(s, b)
  OBVIOUS
<1>3. PICK L : L = Leaves(s.tree)
  OBVIOUS
<1>4. IsUnitOf(s, L, a, A) /\ ToSet(A) = Held(s, a) /\ ToSet(UnitPanes(s, b)) = T
  BY <1>1, <1>2, <1>3, HeldPanes
<1>5. A \in Seq(Pane) /\ A # <<>> /\ IsInjective(A) /\ ToSet(A) \subseteq L
  BY <1>4 DEF IsUnitOf
<1>6. A \in Seq(L)
  <2>1. \A i \in 1 .. Len(A) : A[i] \in ToSet(A)
    BY <1>5 DEF ToSet
  <2> QED BY <1>5, <2>1
<1>7. ToSet(A) \cap T = {} /\ T # {}
  BY <1>2, <1>4, HeldApart DEF Live
<1>8. Fits(s, L) /\ T \in s.tree.sets /\ n = DockUnit(s, A, T, second)
  BY <1>1, <1>2, <1>3, <1>4 DEF Sound
<1>9. PICK d : DocksUnseen(s, A, T, d) /\ n = FocusPane(d, Head(A))
  BY <1>3, <1>5, <1>6, <1>7, <1>8, UnitDockedUnseen
<1>10. Docks(s, A, T, n)
  BY <1>3, <1>5, <1>6, <1>7, <1>8, UnitDocked
<1>11. Sound(d) /\ d.hidden = s.hidden /\ SameUnits(s, d) /\ d.stacks = s.stacks
       /\ d.tree.sets = DockedSets(s.tree.sets, A, T)
  BY <1>9 DEF DocksUnseen, Sound
<1>12. Head(A) \notin d.hidden
  <2>1. Head(A) \in ToSet(A)
    BY <1>5 DEF ToSet
  <2>2. Held(s, a) \cap s.hidden = {}
    BY LooseOnShow
  <2> QED BY <1>4, <1>11, <2>1, <2>2
<1>13. n.tree = d.tree /\ Stays(d, n)
  BY <1>9, <1>11, <1>12, FocusTurns
<1>14. ChainSets(A) \in PG!Chains(Held(s, a))
  BY <1>4, <1>5, ChainIsChain
<1>15. n.tree.sets = PG!Dock(s.tree.sets, Held(s, a), Held(s, b), ChainSets(A))
  BY <1>2, <1>4, <1>7, <1>11, <1>13, DockedAre
<1>16. /\ Sound(n) /\ Leaves(n.tree) = Leaves(s.tree) /\ SameUnits(s, n)
       /\ n.zoomed = None
  BY <1>10 DEF Docks, Sound
<1>17. Stays(s, n)
  BY <1>11, <1>13 DEF Stays
<1> QED BY <1>14, <1>15, <1>16, <1>17 DEF Redocks

(* Only the tree has changed.                                              *)
LEMMA SameUnitsSeen ==
  ASSUME NEW s, NEW n, SameUnits(s, n), Leaves(n.tree) = Leaves(s.tree), Stays(s, n)
  PROVE  /\ \A u : Held(n, u) = Held(s, u)
         /\ View(n).groups = View(s).groups /\ View(n).stacks = View(s).stacks
         /\ View(n).hidden = View(s).hidden
<1>1. \A p \in Leaves(s.tree) : UnitBy(n.groups, p) = UnitBy(s.groups, p)
  BY SameUnitBy
<1>2. (\A u : Held(n, u) = Held(s, u)) /\ \A k : SeenStack(n, k) = SeenStack(s, k)
  BY <1>1, SameHeld
<1>3. DOMAIN n.groups = DOMAIN s.groups
  BY DEF SameUnits
<1>4. n.stacks = s.stacks /\ n.hidden = s.hidden
  BY DEF Stays
<1>5. View(n).groups = View(s).groups
  BY <1>2, <1>3 DEF View
<1>6. View(n).stacks = View(s).stacks
  BY <1>2, <1>4 DEF View
<1>7. View(n).hidden = View(s).hidden
  BY <1>4 DEF View
<1> QED BY <1>2, <1>5, <1>6, <1>7

(* group_units on the groups alone: the two units become one group.        *)
LEMMA UnitsFused ==
  ASSUME NEW s, Sound(s), NEW a, Live(s, a), NEW b, Live(s, b),
         ~ InStack(s.stacks, a), ~ InStack(s.stacks, b),
         NEW n, n.tree = s.tree, n.stacks = s.stacks, NEW k,
         Fuses(s.groups, a, b, k, Leaves(s.tree), n.groups)
  PROVE  /\ View(n).groups = (View(s).groups \ {Held(s, a), Held(s, b)})
                               \cup {Held(s, a) \cup Held(s, b)}
         /\ View(n).stacks = View(s).stacks
<1>1. PICK L : L = Leaves(s.tree)
  OBVIOUS
<1>2. PICK j : j = GroupUnit(k)
  OBVIOUS
<1>3. PICK A : A = Held(s, a)
  OBVIOUS
<1>4. PICK B : B = Held(s, b)
  OBVIOUS
<1>5. /\ k \notin DOMAIN s.groups
      /\ DOMAIN n.groups = {g \in DOMAIN s.groups : GroupUnit(g) \notin {a, b}} \cup {k}
      /\ \A q \in L : UnitBy(n.groups, q) = IF UnitBy(s.groups, q) \in {a, b} THEN j
                                            ELSE UnitBy(s.groups, q)
  BY <1>1, <1>2 DEF Fuses
<1>6. \A q \in L : UnitBy(s.groups, q) # j
  <2>1. GroupsFit(s.groups, s.next_id, L)
    BY <1>1 DEF Sound, Fits, UnitsFit
  <2> QED BY <1>2, <1>5, <2>1, UnitOnly
<1>7. Held(n, j) = A \cup B
  BY <1>1, <1>3, <1>4, <1>5, <1>6 DEF Held
<1>8. ASSUME NEW x, x # a, x # b, x # j PROVE Held(n, x) = Held(s, x)
  BY <1>1, <1>5, <1>8 DEF Held
<1>9. ~ Live(s, j)
  BY <1>1, <1>6 DEF Live, Held
<1>10. GroupUnits(n.groups) = (GroupUnits(s.groups) \ {a, b}) \cup {j}
  BY <1>2, <1>5 DEF GroupUnits
<1>11. \A x \in GroupUnits(s.groups) : Live(s, x)
  BY LiveUnits DEF GroupUnits
<1>12. j \notin GroupUnits(s.groups)
  BY <1>9, <1>11
<1>13. PICK X : X = GroupUnits(s.groups)
  OBVIOUS
<1>14. View(s).groups = {Held(s, x) : x \in X}
  BY <1>13, GroupsOfUnits
<1>15. View(n).groups = {Held(n, x) : x \in (X \ {a, b}) \cup {j}}
  BY <1>10, <1>13, GroupsOfUnits
<1>16. \A x \in X \ {a, b} : Held(n, x) = Held(s, x)
  BY <1>8, <1>12, <1>13
<1>17. \A x \in X : Held(s, x) = A <=> x = a
  BY <1>3, <1>11, <1>13, HeldApart
<1>18. \A x \in X : Held(s, x) = B <=> x = b
  BY <1>4, <1>11, <1>13, HeldApart
<1>19. {Held(n, x) : x \in (X \ {a, b}) \cup {j}} = {Held(s, x) : x \in X \ {a, b}} \cup {A \cup B}
  BY <1>7, <1>16
<1>20. {Held(s, x) : x \in X \ {a, b}} = {Held(s, x) : x \in X} \ {A, B}
  BY <1>17, <1>18
<1>21. View(n).groups = (View(s).groups \ {A, B}) \cup {A \cup B}
  BY <1>14, <1>15, <1>19, <1>20
<1>22. \A x : InStack(s.stacks, x) => Held(n, x) = Held(s, x)
  <2>1. \A x : InStack(s.stacks, x) => Live(s, x)
    BY LiveUnits
  <2> QED BY <1>8, <1>9, <2>1
<1>23. View(n).stacks = View(s).stacks
  BY <1>22, StacksUnchanged
<1> QED BY <1>3, <1>4, <1>21, <1>23

GroupStep(V, W) ==
  \E a, b \in PG!Units(V) :
    /\ a # b /\ ~ PG!Stacked(V, a) /\ ~ PG!Stacked(V, b)
    /\ \E chain \in PG!Chains(a) : W = PG!Grouped(V, a, b, chain)

(* What the layout must look like for the step to be Grouped.              *)
LEMMA GroupedSeen ==
  ASSUME NEW s, NEW n, NEW A, NEW B, NEW chain,
         n.tree.sets = IF A \cup B \in s.tree.sets THEN s.tree.sets
                       ELSE PG!Dock(s.tree.sets, A, B, chain),
         n.hidden = s.hidden,
         View(n).groups = (View(s).groups \ {A, B}) \cup {A \cup B},
         View(n).stacks = View(s).stacks
  PROVE  View(n) = PG!Grouped(View(s), A, B, chain)
<1>1. PICK S : S = n.tree.sets
  OBVIOUS
<1>2. PICK G : G = View(n).groups
  OBVIOUS
<1>3. PICK K : K = View(n).stacks
  OBVIOUS
<1>4. View(s).subtrees = s.tree.sets /\ View(s).hidden = s.hidden
  BY ViewParts
<1>5. View(n).subtrees = S /\ View(n).hidden = s.hidden
  BY <1>1, ViewParts
<1>6. View(n) = [subtrees |-> S, hidden |-> s.hidden, groups |-> G, stacks |-> K]
  BY <1>2, <1>3, <1>5, LayoutsEqual
<1>7. PG!Grouped(View(s), A, B, chain)
        = [subtrees |-> S, hidden |-> s.hidden, groups |-> G, stacks |-> K]
  BY <1>1, <1>2, <1>3, <1>4 DEF PG!Grouped
<1> QED BY <1>6, <1>7

(* A chain of the panes of a unit exists: the one chain_subtree makes.     *)
LEMMA UnitChained ==
  ASSUME NEW s, Sound(s), NEW u, Live(s, u)
  PROVE  \E chain : chain \in PG!Chains(Held(s, u))
<1>1. PICK A : A = UnitPanes(s, u)
  OBVIOUS
<1>2. IsUnitOf(s, Leaves(s.tree), u, A) /\ ToSet(A) = Held(s, u)
  BY <1>1, HeldPanes
<1>3. A \in Seq(Pane) /\ A # <<>> /\ IsInjective(A)
  BY <1>2 DEF IsUnitOf
<1> QED BY <1>2, <1>3, ChainIsChain

(* Where group_units puts the two units: they stay if they are a subtree.  *)
TwoPlaced(s, a, b, n) ==
  /\ Sound(n) /\ Leaves(n.tree) = Leaves(s.tree) /\ SameUnits(s, n) /\ Stays(s, n)
  /\ n.zoomed = None
  /\ \E chain \in PG!Chains(Held(s, a)) :
       n.tree.sets = IF Held(s, a) \cup Held(s, b) \in s.tree.sets THEN s.tree.sets
                     ELSE PG!Dock(s.tree.sets, Held(s, a), Held(s, b), chain)

(* GroupWith is one step of the promise: two units in no stack become one  *)
(* group, and one is docked beside the other unless they are a subtree.    *)
LEMMA GroupWithGroups ==
  ASSUME TabInv, PG!HiddenFits(View(tab)), NEW p \in Neighbours, NEW second \in BOOLEAN,
         GroupWith(p, second)
  PROVE  GroupStep(View(tab), View(tab'))
<1>1. PICK L : L = Leaves(tab.tree)
  OBVIOUS
<1>2. PICK here : here = ActivePane(tab)
  OBVIOUS
<1>3. PICK a : a = UnitOf(tab, here)
  OBVIOUS
<1>4. PICK b : b = UnitOf(tab, p)
  OBVIOUS
<1>5. PICK A : A = UnitPanes(tab, a)
  OBVIOUS
<1>6. PICK B : B = UnitPanes(tab, b)
  OBVIOUS
<1>7. PICK adjacent \in BOOLEAN : adjacent <=> ToSet(A \o B) \in tab.tree.sets
  OBVIOUS
<1>8. PICK placed : placed = IF adjacent THEN tab ELSE DockUnit(tab, A, ToSet(B), second)
  OBVIOUS
<1>9. PICK n : Regroups(placed, a, b, A \o B, here, n)
  BY DEF Regroups
<1>10. /\ tab.zoomed = None /\ a # b /\ ~ Stacked(tab, a) /\ ~ Stacked(tab, b)
       /\ adjacent \/ CanDock(tab, A, ToSet(B))
       /\ tab' = FocusPane(n, here)
  BY <1>2, <1>3, <1>4, <1>5, <1>6, <1>7, <1>8, <1>9 DEF GroupWith, Regroups
<1>11. Sound(tab) /\ Fits(tab, L) /\ here \in L /\ p \in L
  BY <1>1, <1>2, NeighbourThere DEF TabInv, Sound
<1>12. UnitBy(tab.groups, here) = a /\ UnitBy(tab.groups, p) = b
  BY <1>3, <1>4, UnitByGroups
<1>13. Live(tab, a) /\ Live(tab, b)
  BY <1>1, <1>11, <1>12, LiveUnits
<1>14. ~ InStack(tab.stacks, a) /\ ~ InStack(tab.stacks, b)
  BY <1>10, StackedIn
<1>15. PICK HA : HA = Held(tab, a)
  OBVIOUS
<1>16. PICK HB : HB = Held(tab, b)
  OBVIOUS
<1>17. ToSet(A) = HA /\ IsUnitOf(tab, L, a, A)
  BY <1>1, <1>5, <1>11, <1>13, <1>15, HeldPanes
<1>18. ToSet(B) = HB /\ IsUnitOf(tab, L, b, B)
  BY <1>1, <1>6, <1>11, <1>13, <1>16, HeldPanes
<1>19. HA \cap HB = {}
  BY <1>10, <1>15, <1>16, HeldApart
<1>20. adjacent <=> HA \cup HB \in tab.tree.sets
  <2>1. A \in Seq(Pane) /\ IsInjective(A) /\ B \in Seq(Pane) /\ IsInjective(B)
    BY <1>17, <1>18 DEF IsUnitOf
  <2>2. IsJoined(A, B, A \o B)
    BY <1>17, <1>18, <1>19, <2>1, Joined
  <2> QED BY <1>7, <1>17, <1>18, <2>2 DEF IsJoined
<1>21. TwoPlaced(tab, a, b, placed)
  <2>1. CASE adjacent
    <3>1. placed = tab
      BY <1>8, <2>1
    <3>2. PICK chain : chain \in PG!Chains(Held(tab, a))
      BY <1>11, <1>13, UnitChained
    <3>3. tab.tree.sets = IF HA \cup HB \in tab.tree.sets THEN tab.tree.sets
                          ELSE PG!Dock(tab.tree.sets, HA, HB, chain)
      BY <1>20, <2>1
    <3>4. SameUnits(tab, tab) /\ Stays(tab, tab)
      BY SameSame DEF Stays
    <3> QED BY <1>10, <1>11, <1>15, <1>16, <3>1, <3>2, <3>3, <3>4 DEF TwoPlaced
  <2>2. CASE ~ adjacent
    <3>1. Held(tab, b) \in tab.tree.sets
      BY <1>10, <1>16, <1>18, <2>2 DEF CanDock
    <3>2. placed = DockUnit(tab, UnitPanes(tab, a), ToSet(UnitPanes(tab, b)), second)
      BY <1>5, <1>6, <1>8, <2>2
    <3>3. Redocks(tab, a, b, placed)
      BY <1>10, <1>11, <1>13, <1>14, <3>1, <3>2, DockSeen
    <3>4. ~ (Held(tab, a) \cup Held(tab, b) \in tab.tree.sets)
      BY <1>15, <1>16, <1>20, <2>2
    <3> QED BY <3>3, <3>4 DEF Redocks, TwoPlaced
  <2> QED BY <2>1, <2>2
<1>22. /\ Sound(placed) /\ Leaves(placed.tree) = L /\ SameUnits(tab, placed)
       /\ Stays(tab, placed)
  BY <1>1, <1>21 DEF TwoPlaced
<1>23. PICK chain \in PG!Chains(HA) :
         placed.tree.sets = IF HA \cup HB \in tab.tree.sets THEN tab.tree.sets
                            ELSE PG!Dock(tab.tree.sets, HA, HB, chain)
  BY <1>15, <1>16, <1>21 DEF TwoPlaced
<1>24. /\ Held(placed, a) = HA /\ Held(placed, b) = HB
       /\ View(placed).groups = View(tab).groups /\ View(placed).stacks = View(tab).stacks
  BY <1>1, <1>15, <1>16, <1>22, SameUnitsSeen
<1>25. Live(placed, a) /\ Live(placed, b)
  BY <1>13, <1>15, <1>16, <1>24 DEF Live
<1>26. UnitPanes(placed, a) = A /\ UnitPanes(placed, b) = B
  BY <1>5, <1>6, <1>22, SameUnitBy
<1>27. IsUnitOf(placed, L, a, A) /\ IsUnitOf(placed, L, b, B)
  BY <1>22, <1>25, <1>26, HeldPanes
<1>28. ~ InStack(placed.stacks, a) /\ ~ InStack(placed.stacks, b)
  BY <1>14, <1>22 DEF Stays
<1>29. here \in ToSet(A)
  BY <1>1, <1>11, <1>12, <1>15, <1>17 DEF Held
<1>30. PICK m : /\ Rebuilds(placed, L, m, placed.stacks, placed.next_id + 1, placed.hidden, n)
                /\ Fuses(placed.groups, a, b, placed.next_id, L, m)
  <2>1. a # b /\ Fits(placed, L)
    BY <1>10, <1>22 DEF Sound
  <2> QED BY <1>9, <1>27, <1>28, <1>29, <2>1, UnitsGrouped
<1>31. /\ Sound(n) /\ n.tree = placed.tree /\ n.stacks = placed.stacks
       /\ n.hidden = placed.hidden /\ n.groups = m
  BY <1>22, <1>30 DEF Rebuilds, Sound
<1>32. Fuses(placed.groups, a, b, placed.next_id, Leaves(placed.tree), n.groups)
  BY <1>22, <1>30, <1>31
<1>33. /\ View(n).groups = (View(placed).groups \ {Held(placed, a), Held(placed, b)})
                               \cup {Held(placed, a) \cup Held(placed, b)}
       /\ View(n).stacks = View(placed).stacks
  BY <1>22, <1>25, <1>28, <1>31, <1>32, UnitsFused
<1>34. View(n) = PG!Grouped(View(tab), HA, HB, chain)
  <2>1. n.tree.sets = IF HA \cup HB \in tab.tree.sets THEN tab.tree.sets
                      ELSE PG!Dock(tab.tree.sets, HA, HB, chain)
    BY <1>23, <1>31
  <2>2. n.hidden = tab.hidden
    BY <1>22, <1>31 DEF Stays
  <2>3. /\ View(n).groups = (View(tab).groups \ {HA, HB}) \cup {HA \cup HB}
        /\ View(n).stacks = View(tab).stacks
    BY <1>24, <1>33
  <2> QED BY <2>1, <2>2, <2>3, GroupedSeen
<1>35. View(tab') = View(n)
  <2>1. here \notin n.hidden
    <3>1. Held(tab, a) \cap tab.hidden = {}
      BY <1>11, <1>14, LooseOnShow
    <3>2. n.hidden = tab.hidden /\ here \in Held(tab, a)
      BY <1>15, <1>17, <1>22, <1>29, <1>31 DEF Stays
    <3> QED BY <3>1, <3>2
  <2>2. tab'.tree = n.tree /\ SameUnits(n, tab') /\ Stays(n, tab')
    BY <1>10, <1>31, <2>1, FocusTurns
  <2> QED BY <2>2, StaysSeen
<1>36. /\ HA \in PG!Units(View(tab)) /\ HB \in PG!Units(View(tab))
       /\ ~ PG!Stacked(View(tab), HA) /\ ~ PG!Stacked(View(tab), HB)
  BY <1>11, <1>13, <1>14, <1>15, <1>16, UnitsSeen
<1>37. HA # HB
  BY <1>10, <1>13, <1>15, <1>16, HeldApart
<1> QED BY <1>23, <1>34, <1>35, <1>36, <1>37 DEF GroupStep

(* The units of the stack stack_units makes, and the one on show.          *)
IsStackOn(s, a, b, j) ==
  /\ ShownUnit(j) = a
  /\ \/ /\ \A k \in s.stacks : b \notin ToSet(k.units)
        /\ ToSet(j.units) = {a, b}
     \/ \E k \in s.stacks :
          /\ b \in ToSet(k.units) /\ \A i \in s.stacks \ {k} : b \notin ToSet(i.units)
          /\ ToSet(j.units) = ToSet(k.units) \cup {a}

LEMMA StackOnUnits ==
  ASSUME NEW s, StacksShaped(s.stacks), NEW a \in AnyUnit, NEW b \in AnyUnit,
         NEW j, j = StackOn(s, a, b)
  PROVE  IsStackOn(s, a, b, j)
<1>1. CASE Stacked(s, b)
  <2>1. PICK k : k = StackOf(s, b)
    OBVIOUS
  <2>2. /\ k \in s.stacks /\ k.units \in Seq(AnyUnit) /\ b \in ToSet(k.units)
        /\ \A i \in s.stacks \ {k} : ToSet(i.units) \cap ToSet(k.units) = {}
    BY <1>1, <2>1, ItsStack
  <2>3. PICK us : us = k.units
    OBVIOUS
  <2>4. PICK n \in Nat : n = Len(us)
    BY <2>2, <2>3
  <2>5. PICK new : new = Append(us, a)
    OBVIOUS
  <2>6. /\ DOMAIN new = 1 .. n + 1 /\ DOMAIN us = 1 .. n
        /\ \A i \in 1 .. n : new[i] = us[i]
        /\ new[n + 1] = a
    BY <2>2, <2>3, <2>4, <2>5
  <2>7. \A i : i \in 1 .. n + 1 <=> i \in 1 .. n \/ i = n + 1
    OBVIOUS
  <2>8. ToSet(new) = ToSet(us) \cup {a}
    BY <2>6, <2>7 DEF ToSet
  <2>9. j = [units |-> Append(us, a), active |-> Len(us)]
    BY <1>1, <2>1, <2>3 DEF StackOn
  <2>10. j.units = new /\ j.active = n
    BY <2>4, <2>5, <2>9
  <2>11. ShownUnit(j) = a
    BY <2>6, <2>10 DEF ShownUnit
  <2> QED BY <2>2, <2>3, <2>8, <2>10, <2>11 DEF IsStackOn
<1>2. CASE ~ Stacked(s, b)
  <2>1. j.units = <<b, a>> /\ j.active = 1
    BY <1>2 DEF StackOn
  <2>2. PICK new : new = <<b, a>>
    OBVIOUS
  <2>3. DOMAIN new = {1, 2} /\ new[1] = b /\ new[2] = a
    BY <2>2
  <2>4. ToSet(new) = {a, b}
    BY <2>3 DEF ToSet
  <2>5. j.active + 1 = 2
    BY <2>1
  <2>6. ShownUnit(j) = a
    BY <2>1, <2>2, <2>3, <2>5 DEF ShownUnit
  <2>7. \A k \in s.stacks : b \notin ToSet(k.units)
    BY <1>2 DEF Stacked
  <2> QED BY <2>1, <2>2, <2>4, <2>6, <2>7 DEF IsStackOn
<1> QED BY <1>1, <1>2

(* The stacks of the promise's StackedOn.                                  *)
StacksJoined(K, A, B) ==
  LET with == {q \in K : B \in q.units}
      others == UNION {q.units : q \in with}
  IN  (K \ with) \cup {[units |-> others \cup {A, B}, shown |-> A]}

LEMMA StackOnSeen ==
  ASSUME NEW s, Sound(s), NEW a \in AnyUnit, NEW b \in AnyUnit, Live(s, b),
         NEW n, \A u : Held(n, u) = Held(s, u),
         n.stacks = {k \in s.stacks : b \notin ToSet(k.units)} \cup {StackOn(s, a, b)}
  PROVE  View(n).stacks = StacksJoined(View(s).stacks, Held(s, a), Held(s, b))
<1>1. PICK j : j = StackOn(s, a, b)
  OBVIOUS
<1>2. PICK O : O = {k \in s.stacks : b \notin ToSet(k.units)}
  OBVIOUS
<1>3. PICK A : A = Held(s, a)
  OBVIOUS
<1>4. PICK B : B = Held(s, b)
  OBVIOUS
<1>5. PICK K : K = View(s).stacks
  OBVIOUS
<1>6. PICK with : with = {q \in K : B \in q.units}
  OBVIOUS
<1>7. PICK others : others = UNION {q.units : q \in with}
  OBVIOUS
<1>8. K = {SeenStack(s, k) : k \in s.stacks}
  BY <1>5, ViewParts
<1>9. \A k \in s.stacks : B \in SeenStack(s, k).units <=> b \in ToSet(k.units)
  BY <1>4, StacksSeen
<1>10. {SeenStack(s, k) : k \in O} = K \ with
  <2>1. ASSUME NEW k \in O PROVE SeenStack(s, k) \in K \ with
    BY <1>2, <1>6, <1>8, <1>9
  <2>2. ASSUME NEW q \in K \ with PROVE \E k \in O : q = SeenStack(s, k)
    BY <1>2, <1>6, <1>8, <1>9
  <2> QED BY <2>1, <2>2
<1>11. \A k : SeenStack(n, k) = SeenStack(s, k)
  BY DEF SeenStack
<1>12. View(n).stacks = {SeenStack(s, k) : k \in O \cup {j}}
  <2>1. n.stacks = O \cup {j}
    BY <1>1, <1>2
  <2>2. View(n).stacks = {SeenStack(n, k) : k \in n.stacks}
    BY ViewParts
  <2> QED BY <1>11, <2>1, <2>2
<1>13. View(n).stacks = (K \ with) \cup {SeenStack(s, j)}
  BY <1>10, <1>12
<1>14. StacksShaped(s.stacks)
  BY DEF Sound, Fits, UnitsFit
<1>15. IsStackOn(s, a, b, j)
  BY <1>1, <1>14, StackOnUnits
<1>16. ShownUnit(j) = a
  BY <1>15 DEF IsStackOn
<1>17. SeenStack(s, j).units = others \cup {A, B}
  <2>1. SeenStack(s, j).units = {Held(s, u) : u \in ToSet(j.units)}
    BY SeenParts
  <2>2. CASE (\A k \in s.stacks : b \notin ToSet(k.units)) /\ ToSet(j.units) = {a, b}
    <3>1. with = {}
      BY <1>6, <1>8, <1>9, <2>2
    <3>2. others = {}
      BY <1>7, <3>1
    <3>3. SeenStack(s, j).units = {A, B}
      BY <1>3, <1>4, <2>1, <2>2
    <3> QED BY <3>2, <3>3
  <2>3. ASSUME NEW k \in s.stacks, b \in ToSet(k.units),
               \A i \in s.stacks \ {k} : b \notin ToSet(i.units),
               ToSet(j.units) = ToSet(k.units) \cup {a}
        PROVE  SeenStack(s, j).units = others \cup {A, B}
    <3>1. PICK Q : Q = SeenStack(s, k)
      OBVIOUS
    <3>2. with = {Q}
      BY <1>6, <1>8, <1>9, <2>3, <3>1
    <3>3. others = Q.units
      BY <1>7, <3>2
    <3>4. Q.units = {Held(s, u) : u \in ToSet(k.units)}
      BY <3>1, SeenParts
    <3>5. SeenStack(s, j).units = Q.units \cup {A}
      BY <1>3, <2>1, <2>3, <3>4
    <3>6. B \in Q.units
      BY <1>4, <2>3, <3>4
    <3> QED BY <3>3, <3>5, <3>6
  <2> QED BY <1>15, <2>2, <2>3 DEF IsStackOn
<1>18. SeenStack(s, j).shown = A
  BY <1>3, <1>16, SeenParts
<1>19. SeenStack(s, j) = [units |-> others \cup {A, B}, shown |-> A]
  <2>1. PICK U : U = {Held(s, u) : u \in ToSet(j.units)}
    OBVIOUS
  <2>2. PICK x : x = Held(s, ShownUnit(j))
    OBVIOUS
  <2>3. SeenStack(s, j) = [units |-> U, shown |-> x]
    BY <2>1, <2>2 DEF SeenStack
  <2>4. U = others \cup {A, B} /\ x = A
    BY <1>17, <1>18, <2>3
  <2> QED BY <2>3, <2>4
<1> QED BY <1>3, <1>4, <1>5, <1>6, <1>7, <1>13, <1>19 DEF StacksJoined

StackUpStep(V, W) ==
  \E a, b \in PG!Units(V) :
    /\ a # b /\ ~ PG!Stacked(V, a)
    /\ (a \cup b) \cap V.hidden = {}
    /\ \E chain \in PG!Chains(a) : W = PG!StackedOn(V, a, b, chain)

(* What the layout must look like for the step to be StackedOn.            *)
LEMMA StackedOnSeen ==
  ASSUME NEW s, NEW n, NEW A, NEW B, NEW chain,
         n.tree.sets = PG!Dock(s.tree.sets, A, B, chain),
         n.hidden = s.hidden \cup B,
         View(n).groups = View(s).groups,
         View(n).stacks = StacksJoined(View(s).stacks, A, B)
  PROVE  View(n) = PG!StackedOn(View(s), A, B, chain)
<1>1. PICK S : S = PG!Dock(s.tree.sets, A, B, chain)
  OBVIOUS
<1>2. PICK G : G = View(s).groups
  OBVIOUS
<1>3. PICK K : K = StacksJoined(View(s).stacks, A, B)
  OBVIOUS
<1>4. PICK H : H = s.hidden \cup B
  OBVIOUS
<1>5. View(s).subtrees = s.tree.sets /\ View(s).hidden = s.hidden
  BY ViewParts
<1>6. View(n).subtrees = S /\ View(n).hidden = H
  BY <1>1, <1>4, ViewParts
<1>7. View(n) = [subtrees |-> S, hidden |-> H, groups |-> G, stacks |-> K]
  BY <1>2, <1>3, <1>6, LayoutsEqual
<1>8. PG!StackedOn(View(s), A, B, chain)
        = [subtrees |-> S, hidden |-> H, groups |-> G, stacks |-> K]
  BY <1>1, <1>2, <1>3, <1>4, <1>5 DEF PG!StackedOn, StacksJoined
<1> QED BY <1>7, <1>8

LEMMA NeighbourOnShow ==
  ASSUME tab.zoomed = None, NEW p \in Neighbours
  PROVE  p \notin tab.hidden
BY DEF Neighbours, PanesOnShow

(* A unit with a pane on show is on show whole.                            *)
LEMMA UnitOnShowWhole ==
  ASSUME NEW s, Sound(s), PG!Fit(View(s)), PG!HiddenFits(View(s)),
         NEW p \in Leaves(s.tree), p \notin s.hidden
  PROVE  Held(s, UnitBy(s.groups, p)) \cap s.hidden = {}
<1>1. PICK u : u = UnitBy(s.groups, p)
  OBVIOUS
<1>2. p \in Held(s, u)
  BY <1>1, HeldApart
<1>3. CASE InStack(s.stacks, u)
  <2>1. PICK k \in s.stacks : u \in ToSet(k.units)
    BY <1>3 DEF InStack
  <2>2. u = ShownUnit(k)
    BY <1>2, <2>1, UnitOnShow
  <2> QED BY <1>1, <2>1, <2>2, UnitOnShow
<1>4. CASE ~ InStack(s.stacks, u)
  BY <1>1, <1>4, LooseOnShow
<1> QED BY <1>3, <1>4

(* StackWith is one step of the promise: the unit of the active pane is    *)
(* docked beside another, which is hidden behind it.                       *)
LEMMA StackWithStacks ==
  ASSUME TabInv, PG!Fit(View(tab)), PG!HiddenFits(View(tab)), NEW p \in Neighbours, StackWith(p)
  PROVE  StackUpStep(View(tab), View(tab'))
<1>1. PICK L : L = Leaves(tab.tree)
  OBVIOUS
<1>2. PICK here : here = ActivePane(tab)
  OBVIOUS
<1>3. PICK a : a = UnitOf(tab, here)
  OBVIOUS
<1>4. PICK b : b = UnitOf(tab, p)
  OBVIOUS
<1>5. PICK A : A = UnitPanes(tab, a)
  OBVIOUS
<1>6. PICK B : B = UnitPanes(tab, b)
  OBVIOUS
<1>7. PICK docked : docked = DockUnit(tab, A, ToSet(B), TRUE)
  OBVIOUS
<1>8. PICK K : K = {k \in tab.stacks : b \notin ToSet(k.units)} \cup {StackOn(tab, a, b)}
  OBVIOUS
<1>9. PICK s : s = [docked EXCEPT !.stacks = K]
  OBVIOUS
<1>10. PICK h : h = SetUnitHidden(s, b, TRUE)
  OBVIOUS
<1>11. /\ tab.zoomed = None /\ a # b /\ ~ Stacked(tab, a)
       /\ CanDock(tab, A, ToSet(B))
       /\ tab' = FocusPane(h, UnitFocusPane(h, a))
  BY <1>2, <1>3, <1>4, <1>5, <1>6, <1>7, <1>8, <1>9, <1>10 DEF StackWith, StackOn
<1>12. Sound(tab) /\ Fits(tab, L) /\ here \in L /\ p \in L
  BY <1>1, <1>2, NeighbourThere DEF TabInv, Sound
<1>13. UnitBy(tab.groups, here) = a /\ UnitBy(tab.groups, p) = b
  BY <1>3, <1>4, UnitByGroups
<1>14. Live(tab, a) /\ Live(tab, b)
  BY <1>1, <1>12, <1>13, LiveUnits
<1>15. ~ InStack(tab.stacks, a)
  BY <1>11, StackedIn
<1>16. PICK HA : HA = Held(tab, a)
  OBVIOUS
<1>17. PICK HB : HB = Held(tab, b)
  OBVIOUS
<1>18. ToSet(A) = HA /\ ToSet(B) = HB
  BY <1>5, <1>6, <1>12, <1>14, <1>16, <1>17, HeldPanes
<1>19. HA \cap HB = {} /\ HA # HB
  BY <1>11, <1>14, <1>16, <1>17, HeldApart
<1>20. Redocks(tab, a, b, docked)
  <2>1. Held(tab, b) \in tab.tree.sets
    BY <1>11, <1>17, <1>18 DEF CanDock
  <2>2. docked = DockUnit(tab, UnitPanes(tab, a), ToSet(UnitPanes(tab, b)), TRUE)
    BY <1>5, <1>6, <1>7
  <2> QED BY <1>11, <1>12, <1>14, <1>15, <2>1, <2>2, DockSeen
<1>21. /\ Sound(docked) /\ Leaves(docked.tree) = L /\ SameUnits(tab, docked)
       /\ Stays(tab, docked)
  BY <1>1, <1>20 DEF Redocks
<1>22. PICK chain \in PG!Chains(HA) : docked.tree.sets = PG!Dock(tab.tree.sets, HA, HB, chain)
  BY <1>16, <1>17, <1>20 DEF Redocks
<1>23. /\ \A u : Held(docked, u) = Held(tab, u)
       /\ View(docked).groups = View(tab).groups
  BY <1>1, <1>21, SameUnitsSeen
<1>24. a \in AnyUnit /\ b \in AnyUnit
  <2>1. here \in Pane /\ p \in Pane /\ GroupsFit(tab.groups, tab.next_id, L)
    BY <1>12 DEF Fits, UnitsFit
  <2> QED BY <1>13, <2>1, UnitOnly
<1>25. StacksShaped(K) /\ StacksNamed(K, docked.groups, L)
  <2>1. StacksShaped(tab.stacks) /\ StacksNamed(tab.stacks, tab.groups, L)
    BY <1>12 DEF Fits, UnitsFit
  <2>2. Stacks(tab, a, b, K)
    BY <1>8, <1>11, <1>24, <2>1, StackJoined
  <2>3. ASSUME NEW u, InStack(K, u) PROVE \E q \in L : UnitBy(docked.groups, q) = u
    <3>1. \E q \in L : UnitBy(tab.groups, q) = u
      <4>1. InStack(tab.stacks, u) \/ u = a \/ u = b
        BY <2>2, <2>3 DEF Stacks
      <4>2. CASE InStack(tab.stacks, u)
        BY <2>1, <4>2 DEF StacksNamed
      <4>3. CASE u = a \/ u = b
        BY <1>12, <1>13, <4>3
      <4> QED BY <4>1, <4>2, <4>3
    <3> QED BY <1>21, <3>1, SameUnitBy
  <2> QED BY <2>2, <2>3 DEF StacksNamed, Stacks
<1>26. /\ docked \in TabStates /\ IsTree(docked.tree)
       /\ docked.zoomed \in Leaves(docked.tree) \cup {None}
       /\ docked.hidden \in SUBSET L /\ docked.next_id \in Nat /\ L \in SUBSET Pane
       /\ GroupsFit(docked.groups, docked.next_id, L)
  BY <1>21 DEF Sound, Fits, UnitsFit, TabStates
<1>27. Rebuild(docked, docked.groups, K, docked.next_id, docked.hidden, s)
  BY <1>9, <1>26 DEF Rebuild, TabStates
<1>28. Rebuilds(docked, L, docked.groups, K, docked.next_id, docked.hidden, s)
  BY <1>25, <1>26, <1>27, Rebuilt
<1>29. /\ Fits(s, L) /\ s.tree = docked.tree /\ s.groups = docked.groups /\ s.stacks = K
       /\ s.hidden = docked.hidden
  BY <1>28 DEF Rebuilds
<1>30. ToSet(UnitPanes(s, b)) = HB
  <2>1. UnitPanes(s, b) = UnitPanes(docked, b)
    BY <1>29 DEF UnitPanes
  <2> QED BY <1>6, <1>18, <1>21, <2>1, SameUnitBy
<1>31. Hide(s, s.hidden \cup HB, h)
  <2>1. s \in TabStates
    BY <1>29 DEF Fits
  <2> QED BY <1>10, <1>30, <2>1 DEF Hide, SetUnitHidden, TabStates
<1>32. s.hidden \cup HB \in SUBSET L
  <2>1. s.hidden \subseteq L
    BY <1>29 DEF Fits, UnitsFit
  <2> QED BY <1>1, <1>17, <2>1 DEF Held
<1>33. Hides(s, L, s.hidden \cup HB, h)
  BY <1>29, <1>31, <1>32, Hidden
<1>34. /\ Fits(h, L) /\ h.tree = docked.tree /\ h.groups = docked.groups /\ h.stacks = K
       /\ h.hidden = tab.hidden \cup HB
  BY <1>21, <1>29, <1>33 DEF Hides, Stays
<1>35. Sound(h)
  BY <1>21, <1>34 DEF Sound
<1>36. \A u : Held(h, u) = Held(tab, u)
  <2>1. \A u : Held(h, u) = Held(docked, u)
    BY <1>34 DEF Held
  <2> QED BY <1>23, <2>1
<1>37. View(h).groups = View(tab).groups
  <2>1. View(h).groups = View(docked).groups
    BY <1>34 DEF View, Held
  <2> QED BY <1>23, <2>1
<1>38. View(h).stacks = StacksJoined(View(tab).stacks, HA, HB)
  <2>1. h.stacks = {k \in tab.stacks : b \notin ToSet(k.units)} \cup {StackOn(tab, a, b)}
    BY <1>8, <1>34
  <2> QED BY <1>12, <1>14, <1>16, <1>17, <1>24, <1>36, <2>1, StackOnSeen
<1>39. View(h) = PG!StackedOn(View(tab), HA, HB, chain)
  <2>1. h.tree.sets = PG!Dock(tab.tree.sets, HA, HB, chain)
    BY <1>22, <1>34
  <2> QED BY <1>34, <1>37, <1>38, <2>1, StackedOnSeen
<1>40. HA \cap tab.hidden = {}
  BY <1>12, <1>15, <1>16, LooseOnShow
<1>41. HB \cap tab.hidden = {}
  <2>1. p \notin tab.hidden
    BY <1>11, NeighbourOnShow
  <2> QED BY <1>1, <1>12, <1>13, <1>17, <2>1, UnitOnShowWhole
<1>42. View(tab') = View(h)
  <2>1. PICK q : q = UnitFocusPane(h, a)
    OBVIOUS
  <2>2. q \in HA
    <3>1. Live(h, a) /\ Held(h, a) = HA
      BY <1>14, <1>16, <1>36 DEF Live
    <3> QED BY <1>35, <2>1, <3>1, UnitFocused
  <2>3. q \notin h.hidden
    BY <1>19, <1>34, <1>40, <2>2
  <2>4. tab'.tree = h.tree /\ SameUnits(h, tab') /\ Stays(h, tab')
    BY <1>11, <1>35, <2>1, <2>3, FocusTurns
  <2> QED BY <2>4, StaysSeen
<1>43. /\ HA \in PG!Units(View(tab)) /\ HB \in PG!Units(View(tab))
       /\ ~ PG!Stacked(View(tab), HA)
  BY <1>12, <1>14, <1>15, <1>16, <1>17, UnitsSeen
<1>44. (HA \cup HB) \cap View(tab).hidden = {}
  BY <1>40, <1>41, ViewParts
<1> QED BY <1>19, <1>22, <1>39, <1>42, <1>43, <1>44 DEF StackUpStep

-----------------------------------------------------------------------------
(* Every call is one step of the promise, or leaves the layout alone.      *)

LEMMA SeenAsLayout ==
  ASSUME NEW s, Sound(s)
  PROVE  View(s) =
           [subtrees |-> s.tree.sets,
            hidden   |-> s.hidden,
            groups   |-> {ToSet(s.groups[g].members) : g \in DOMAIN s.groups},
            stacks   |-> {[units |-> {ToSet(UnitPanes(s, u)) : u \in ToSet(k.units)},
                           shown |-> ToSet(UnitPanes(s, ShownUnit(k)))] : k \in s.stacks}]
<1>1. View(s).groups = {ToSet(s.groups[g].members) : g \in DOMAIN s.groups}
  <2>1. \A g \in DOMAIN s.groups : Held(s, GroupUnit(g)) = ToSet(s.groups[g].members)
    BY LiveUnits DEF MembersIn
  <2>2. View(s).groups = {Held(s, GroupUnit(g)) : g \in DOMAIN s.groups}
    BY ViewParts
  <2> QED BY <2>1, <2>2
<1>2. ASSUME NEW k \in s.stacks
      PROVE  SeenStack(s, k) = [units |-> {ToSet(UnitPanes(s, u)) : u \in ToSet(k.units)},
                                shown |-> ToSet(UnitPanes(s, ShownUnit(k)))]
  <2>1. \A u \in ToSet(k.units) : Live(s, u)
    BY <1>2, StacksSeen
  <2>2. \A u \in ToSet(k.units) : Held(s, u) = ToSet(UnitPanes(s, u))
    BY <2>1, HeldPanes
  <2>3. ShownUnit(k) \in ToSet(k.units)
    BY <1>2, StacksSeen
  <2> QED BY <2>2, <2>3 DEF SeenStack
<1>3. View(s).stacks =
        {[units |-> {ToSet(UnitPanes(s, u)) : u \in ToSet(k.units)},
          shown |-> ToSet(UnitPanes(s, ShownUnit(k)))] : k \in s.stacks}
  <2>1. View(s).stacks = {SeenStack(s, k) : k \in s.stacks}
    BY ViewParts
  <2> QED BY <1>2, <2>1
<1>4. View(s).subtrees = s.tree.sets /\ View(s).hidden = s.hidden
  BY ViewParts
<1> QED BY <1>1, <1>3, <1>4, LayoutsEqual

LEMMA LayoutSeen ==
  /\ TabInv => GroupLayout = View(tab)
  /\ TabInv' => GroupLayout' = View(tab')
<1>1. TabInv => GroupLayout = View(tab)
  BY SeenAsLayout DEF TabInv, Sound, GroupLayout, Members, UnitSet
<1>2. TabInv' => GroupLayout' = View(tab')
  BY SeenAsLayout DEF TabInv, Sound, GroupLayout, Members, UnitSet
<1> QED BY <1>1, <1>2

(* The steps of the promise, between two layouts.                          *)
LayoutStep(V, W) ==
  \/ SplitStep(V, W) \/ SplitTopStep(V, W)
  \/ \E v \in PG!Panes(V) : CloseStep(V, v, W)
  \/ ShowStep(V, W) \/ UngroupStep(V, W) \/ MoveStep(V, W) \/ SwapStep(V, W)
  \/ PermuteStep(V, W) \/ GroupStep(V, W) \/ StackUpStep(V, W) \/ ArrangeStep(V, W)

(* The bounds under which only stacks hide panes, one pane is removed at a *)
(* time and panes are only exchanged by swap_panes.                        *)
Promised == HidePanes = FALSE /\ MaxVictims = 1 /\ SwapByIndex = FALSE

LEMMA CallsKeepPromise ==
  ASSUME Promised, TabInv, PG!Fit(View(tab)), PG!HiddenFits(View(tab)), Next
  PROVE  View(tab') = View(tab) \/ LayoutStep(View(tab), View(tab'))
<1>1. PG!Panes(View(tab)) = Ids
  BY ViewParts DEF Ids
<1>2. OnlyShows(tab, tab') => View(tab') = View(tab) \/ LayoutStep(View(tab), View(tab'))
  BY DEF OnlyShows, LayoutStep
<1>3. CASE PrepareSplit \/ ToggleZoom
  BY <1>2, <1>3, ZoomShows
<1>4. CASE \E p \in Ids, new \in Fresh, second, top \in BOOLEAN : SplitPane(p, new, second, top)
  BY <1>4, SplitPaneKeeps DEF LayoutStep
<1>5. CASE \E named \in SUBSET Ids :
             Cardinality(named) \in 1..MaxVictims /\ RemovePanes(named)
  <2>1. PICK named \in SUBSET Ids : Cardinality(named) \in 1..MaxVictims /\ RemovePanes(named)
    BY <1>5
  <2>2. PICK v \in Ids : named = {v}
    <3>1. Cardinality(named) = 1
      BY <2>1 DEF Promised
    <3>2. IsFiniteSet(named)
      <4>1. Ids \subseteq Pane
        BY DEF TabInv, Fits, UnitsFit, Ids
      <4> QED BY <2>1, <4>1, PaneAssumption, FS_Subset
    <3> QED BY <2>1, <3>1, <3>2, FS_Singleton
  <2>3. CloseStep(View(tab), v, View(tab'))
    BY <2>1, <2>2, RemovePanesCloses
  <2> QED BY <1>1, <2>2, <2>3 DEF LayoutStep
<1>6. CASE \E p \in Ids : SetActivePane(p)
  BY <1>2, <1>6, SetActivePaneShows
<1>7. CASE \E p \in Ids : ShowStackedPane(p)
  BY <1>2, <1>7, ShowStackedPaneShows
<1>8. CASE \E p \in Ids : UnhidePane(p) \/ HidePane(p)
  BY <1>8, NothingToUnhide DEF Promised
<1>9. CASE \E p \in Ids : FocusLayout(p)
  BY <1>9, FocusLayoutArranges DEF LayoutStep
<1>10. CASE \E p \in Ids : \/ SetActiveIdx(PositionOf(tab.tree.order, p) - 1)
                           \/ ActivatePaneDirection(PositionOf(tab.tree.order, p) - 1)
  BY <1>2, <1>10, IndexCallsShow
<1>11. CASE \E p \in Neighbours : StackWith(p)
  BY <1>11, StackWithStacks DEF LayoutStep
<1>12. CASE \E p \in Neighbours : \E second \in BOOLEAN : GroupWith(p, second)
  BY <1>12, GroupWithGroups DEF LayoutStep
<1>13. CASE UngroupActive
  BY <1>13, UngroupActiveUngroups DEF LayoutStep
<1>14. CASE \E forward \in BOOLEAN : StackCycle(forward)
  BY <1>2, <1>14, StackCycleShows
<1>15. CASE \E forward \in BOOLEAN : Rotate(forward)
  BY <1>15, RotatePermutes DEF LayoutStep
<1>16. CASE \E a, b \in Ids : SwapPanes(a, b)
  BY <1>16, SwapPanesSwaps DEF LayoutStep
<1>17. CASE \E a, b \in Ids : \E second \in BOOLEAN : DockPane(a, b, second)
  BY <1>17, DockPaneEnds, IsDockedMoves, IsPutBackMoves DEF LayoutStep
<1>18. CASE \E i \in 0..(Len(tab.tree.order) - 1), keep \in BOOLEAN : SwapActiveWithIndex(i, keep)
  BY <1>18 DEF SwapActiveWithIndex, Promised
<1> QED
  BY <1>3, <1>4, <1>5, <1>6, <1>7, <1>8, <1>9, <1>10, <1>11, <1>12, <1>13, <1>14, <1>15,
     <1>16, <1>17, <1>18 DEF Next

LEMMA StepIsNext ==
  ASSUME LayoutStep(GroupLayout, GroupLayout')
  PROVE  PG!Next
<1>1. CASE SplitStep(GroupLayout, GroupLayout')
  BY <1>1 DEF SplitStep, PG!Next, PG!Split
<1>2. CASE SplitTopStep(GroupLayout, GroupLayout')
  BY <1>2 DEF SplitTopStep, PG!Next, PG!SplitTop
<1>3. CASE \E v \in PG!Panes(GroupLayout) : CloseStep(GroupLayout, v, GroupLayout')
  BY <1>3 DEF CloseStep, PG!Next, PG!Close
<1>4. CASE ShowStep(GroupLayout, GroupLayout')
  BY <1>4 DEF ShowStep, PG!Next, PG!Show
<1>5. CASE UngroupStep(GroupLayout, GroupLayout')
  BY <1>5 DEF UngroupStep, PG!Next, PG!Ungroup
<1>6. CASE MoveStep(GroupLayout, GroupLayout')
  BY <1>6 DEF MoveStep, PG!Next, PG!Move
<1>7. CASE SwapStep(GroupLayout, GroupLayout')
  BY <1>7 DEF SwapStep, PG!Next, PG!Swap
<1>8. CASE PermuteStep(GroupLayout, GroupLayout')
  <2>1. \A S : PG!Bijection(S, S) = Bijection(S, S)
    BY DEF PG!Bijection, PG!Injection, PG!Surjection, PG!IsInjective,
           Bijection, Injection, Surjection, IsInjective
  <2> QED BY <1>8, <2>1 DEF PermuteStep, PG!Next, PG!Permute
<1>9. CASE GroupStep(GroupLayout, GroupLayout')
  BY <1>9 DEF GroupStep, PG!Next, PG!Group
<1>10. CASE StackUpStep(GroupLayout, GroupLayout')
  BY <1>10 DEF StackUpStep, PG!Next, PG!StackUp
<1>11. CASE ArrangeStep(GroupLayout, GroupLayout')
  BY <1>11 DEF ArrangeStep, PG!Next, PG!Arrange
<1> QED
  BY <1>1, <1>2, <1>3, <1>4, <1>5, <1>6, <1>7, <1>8, <1>9, <1>10, <1>11 DEF LayoutStep

(* The tab's invariant with that of the layout it shows.                   *)
PromiseInv ==
  TabInv /\ PG!Fit(GroupLayout) /\ PG!HiddenFits(GroupLayout)

LEMMA PromiseStarts == Init => PromiseInv /\ PG!Init
<1> SUFFICES ASSUME Init PROVE PromiseInv /\ PG!Init
  OBVIOUS
<1>1. TabInv
  BY TabStarts
<1>2. PG!Init
  <2>1. PICK p \in Pane :
          tab = [tree |-> LeafTree(p), active |-> 0, zoomed |-> None, hidden |-> {},
                 groups |-> <<>>, stacks |-> {}, next_id |-> 0]
    BY DEF Init
  <2>2. /\ tab.tree.sets = {{p}} /\ tab.hidden = {} /\ tab.groups = <<>> /\ tab.stacks = {}
    BY <2>1 DEF LeafTree
  <2>3. DOMAIN tab.groups = {}
    BY <2>2
  <2>4. GroupLayout = [subtrees |-> {{p}}, hidden |-> {}, groups |-> {}, stacks |-> {}]
    BY <2>2, <2>3 DEF GroupLayout
  <2> QED BY <2>4 DEF PG!Init
<1>3. PG!Fit(GroupLayout)
  BY <1>2, PG!InitFits
<1>4. PG!HiddenFits(GroupLayout)
  BY <1>2 DEF PG!Init, PG!HiddenFits
<1> QED BY <1>1, <1>2, <1>3, <1>4 DEF PromiseInv

LEMMA PromiseKept ==
  ASSUME Promised, PromiseInv, [Next]_tab
  PROVE  PromiseInv' /\ [PG!Next]_GroupLayout
<1>1. TabInv /\ TabInv'
  BY TabMoves DEF PromiseInv
<1>2. GroupLayout = View(tab) /\ GroupLayout' = View(tab')
  BY <1>1, LayoutSeen
<1>3. [PG!Next]_GroupLayout
  <2>1. CASE Next
    <3>1. View(tab') = View(tab) \/ LayoutStep(View(tab), View(tab'))
      BY <1>1, <1>2, <2>1, CallsKeepPromise DEF PromiseInv
    <3>2. GroupLayout' = GroupLayout \/ LayoutStep(GroupLayout, GroupLayout')
      BY <1>2, <3>1
    <3> QED BY <3>2, StepIsNext
  <2>2. CASE UNCHANGED tab
    <3>1. GroupLayout' = GroupLayout
      BY <1>2, <2>2
    <3> QED BY <3>1
  <2> QED BY <2>1, <2>2
<1>4. PG!Fit(GroupLayout) /\ PG!HiddenFits(GroupLayout)
  BY DEF PromiseInv
<1>5. PG!Fit(GroupLayout)'
  BY <1>3, <1>4, PG!NextFits
<1>6. PG!HiddenFits(GroupLayout)'
  BY <1>3, <1>4, PG!NextHides
<1> QED BY <1>1, <1>3, <1>5, <1>6 DEF PromiseInv

(* PG and Promise are instances of the same module: what the one calls a   *)
(* step the other does.                                                    *)
LEMMA SameOperators ==
  /\ \A s : PG!Panes(s) = Promise!Panes(s) /\ PG!Units(s) = Promise!Units(s)
  /\ \A s, p : PG!UnitOf(s, p) = Promise!UnitOf(s, p) /\ (PG!InGroup(s, p) <=> Promise!InGroup(s, p))
  /\ \A s, u : PG!Stacked(s, u) <=> Promise!Stacked(s, u)
  /\ \A K, u, v : PG!RenameIn(K, u, v) = Promise!RenameIn(K, u, v)
  /\ \A u : PG!AsGroup(u) = Promise!AsGroup(u) /\ PG!Chains(u) = Promise!Chains(u)
  /\ \A S, p : PG!Without(S, p) = Promise!Without(S, p)
  /\ \A S, a, b, c : PG!Dock(S, a, b, c) = Promise!Dock(S, a, b, c)
  /\ \A S, T : PG!Bijection(S, T) = Promise!Bijection(S, T)
<1>1. \A s : PG!Panes(s) = Promise!Panes(s)
  BY DEF PG!Panes, Promise!Panes
<1>2. \A s, p : PG!UnitOf(s, p) = Promise!UnitOf(s, p)
  BY <1>1 DEF PG!UnitOf, Promise!UnitOf
<1>3. \A s : PG!Units(s) = Promise!Units(s)
  BY <1>1, <1>2 DEF PG!Units, Promise!Units
<1>4. \A s, p : PG!InGroup(s, p) <=> Promise!InGroup(s, p)
  BY DEF PG!InGroup, Promise!InGroup
<1>5. \A s, u : PG!Stacked(s, u) <=> Promise!Stacked(s, u)
  BY DEF PG!Stacked, Promise!Stacked
<1>6. \A K, u, v : PG!RenameIn(K, u, v) = Promise!RenameIn(K, u, v)
  BY DEF PG!RenameIn, Promise!RenameIn
<1>7. \A u : PG!AsGroup(u) = Promise!AsGroup(u)
  BY DEF PG!AsGroup, Promise!AsGroup
<1>8. \A u : PG!Chains(u) = Promise!Chains(u)
  BY DEF PG!Chains, Promise!Chains
<1>9. \A S, p : PG!Without(S, p) = Promise!Without(S, p)
  BY DEF PG!Without, Promise!Without
<1>10. \A S, a, b, c : PG!Dock(S, a, b, c) = Promise!Dock(S, a, b, c)
  BY DEF PG!Dock, Promise!Dock
<1>11. \A S, T : PG!Bijection(S, T) = Promise!Bijection(S, T)
  BY DEF PG!Bijection, PG!Injection, PG!Surjection, PG!IsInjective,
         Promise!Bijection, Promise!Injection, Promise!Surjection, Promise!IsInjective
<1> QED BY <1>1, <1>2, <1>3, <1>4, <1>5, <1>6, <1>7, <1>8, <1>9, <1>10, <1>11

LEMMA SameOperations ==
  /\ \A s, e, new : PG!Insert(s, e, new) = Promise!Insert(s, e, new)
  /\ \A s, new : PG!InsertAtRoot(s, new) = Promise!InsertAtRoot(s, new)
  /\ \A s, p : PG!Closings(s, p) = Promise!Closings(s, p)
  /\ \A s, a, b, c : PG!Grouped(s, a, b, c) = Promise!Grouped(s, a, b, c)
  /\ \A s, a, b, c : PG!StackedOn(s, a, b, c) = Promise!StackedOn(s, a, b, c)
  /\ \A s, k, u : PG!Showing(s, k, u) = Promise!Showing(s, k, u)
  /\ \A s, f : PG!Relabeled(s, f) = Promise!Relabeled(s, f)
<1>1. \A s, e, new : PG!Insert(s, e, new) = Promise!Insert(s, e, new)
  <2> SUFFICES ASSUME NEW s, NEW e, NEW new
               PROVE  PG!Insert(s, e, new) = Promise!Insert(s, e, new)
    OBVIOUS
  <2>1. PICK u : u = PG!UnitOf(s, e)
    OBVIOUS
  <2>2. PICK joins \in BOOLEAN : joins <=> u \in s.groups \/ PG!Stacked(s, u)
    OBVIOUS
  <2>3. PICK K : K = PG!RenameIn(s.stacks, u, u \cup {new})
    OBVIOUS
  <2>4. PICK G : G = (s.groups \ {u}) \cup {u \cup {new}}
    OBVIOUS
  <2>5. PICK S : S = {IF e \in T THEN T \cup {new} ELSE T : T \in s.subtrees} \cup {{e}, {new}}
    OBVIOUS
  <2>6. PG!Insert(s, e, new) =
          [subtrees |-> S, hidden |-> s.hidden,
           groups |-> IF joins THEN G ELSE s.groups, stacks |-> IF joins THEN K ELSE s.stacks]
    BY <2>1, <2>2, <2>3, <2>4, <2>5 DEF PG!Insert
  <2>7. u = Promise!UnitOf(s, e) /\ K = Promise!RenameIn(s.stacks, u, u \cup {new})
        /\ (joins <=> u \in s.groups \/ Promise!Stacked(s, u))
    BY <2>1, <2>2, <2>3, SameOperators
  <2>8. Promise!Insert(s, e, new) =
          [subtrees |-> S, hidden |-> s.hidden,
           groups |-> IF joins THEN G ELSE s.groups, stacks |-> IF joins THEN K ELSE s.stacks]
    BY <2>4, <2>5, <2>7 DEF Promise!Insert
  <2> QED BY <2>6, <2>8
<1>2. \A s, new : PG!InsertAtRoot(s, new) = Promise!InsertAtRoot(s, new)
  BY SameOperators DEF PG!InsertAtRoot, Promise!InsertAtRoot
<1>3. \A s, p : PG!Closings(s, p) = Promise!Closings(s, p)
  <2>1. \A s, u, p : PG!Shrink(s, u, p) = Promise!Shrink(s, u, p)
    BY SameOperators DEF PG!Shrink, Promise!Shrink
  <2>2. \A s, k, u, p, next : PG!Leave(s, k, u, p, next) = Promise!Leave(s, k, u, p, next)
    BY SameOperators DEF PG!Leave, Promise!Leave
  <2> QED BY SameOperators, <2>1, <2>2 DEF PG!Closings, Promise!Closings
<1>4. \A s, a, b, c : PG!Grouped(s, a, b, c) = Promise!Grouped(s, a, b, c)
  <2>1. ASSUME NEW s, NEW a, NEW b, NEW c
        PROVE  PG!Grouped(s, a, b, c) = Promise!Grouped(s, a, b, c)
    <3>1. PICK D : D = Promise!Dock(s.subtrees, a, b, c)
      OBVIOUS
    <3>2. PG!Dock(s.subtrees, a, b, c) = D
      BY <3>1, SameOperators
    <3> QED BY <3>1, <3>2 DEF PG!Grouped, Promise!Grouped
  <2> QED BY <2>1
<1>5. \A s, a, b, c : PG!StackedOn(s, a, b, c) = Promise!StackedOn(s, a, b, c)
  <2>1. ASSUME NEW s, NEW a, NEW b, NEW c
        PROVE  PG!StackedOn(s, a, b, c) = Promise!StackedOn(s, a, b, c)
    <3>1. PICK D : D = Promise!Dock(s.subtrees, a, b, c)
      OBVIOUS
    <3>2. PG!Dock(s.subtrees, a, b, c) = D
      BY <3>1, SameOperators
    <3> QED BY <3>1, <3>2 DEF PG!StackedOn, Promise!StackedOn
  <2> QED BY <2>1
<1>6. \A s, k, u : PG!Showing(s, k, u) = Promise!Showing(s, k, u)
  BY DEF PG!Showing, Promise!Showing
<1>7. \A s, f : PG!Relabeled(s, f) = Promise!Relabeled(s, f)
  BY DEF PG!Relabeled, Promise!Relabeled
<1> QED BY <1>1, <1>2, <1>3, <1>4, <1>5, <1>6, <1>7

LEMMA SameSteps ==
  /\ PG!Init => Promise!Init
  /\ PG!Next => Promise!Next
<1>1. PG!Init => Promise!Init
  BY DEF PG!Init, Promise!Init
<1>2. ASSUME PG!Next PROVE Promise!Next
  <2>1. \A e, new : PG!Split(e, new) => Promise!Split(e, new)
    BY SameOperations DEF PG!Split, Promise!Split
  <2>2. \A new : PG!SplitTop(new) => Promise!SplitTop(new)
    BY SameOperations DEF PG!SplitTop, Promise!SplitTop
  <2>3. \A p : PG!Close(p) => Promise!Close(p)
    BY SameOperations DEF PG!Close, Promise!Close
  <2>4. \A k, u : PG!Show(k, u) => Promise!Show(k, u)
    BY SameOperations DEF PG!Show, Promise!Show
  <2>5. \A g : PG!Ungroup(g) => Promise!Ungroup(g)
    BY SameOperators DEF PG!Ungroup, Promise!Ungroup
  <2>6. \A p, e : PG!Move(p, e) => Promise!Move(p, e)
    BY SameOperations DEF PG!Move, Promise!Move
  <2>7. \A p, e : PG!Swap(p, e) => Promise!Swap(p, e)
    BY SameOperators, SameOperations DEF PG!Swap, Promise!Swap
  <2>8. PG!Permute => Promise!Permute
    BY SameOperators, SameOperations DEF PG!Permute, Promise!Permute
  <2>9. \A a, b : PG!Group(a, b) => Promise!Group(a, b)
    BY SameOperators, SameOperations DEF PG!Group, Promise!Group
  <2>10. \A a, b : PG!StackUp(a, b) => Promise!StackUp(a, b)
    BY SameOperators, SameOperations DEF PG!StackUp, Promise!StackUp
  <2>11. \A p : PG!Arrange(p) => Promise!Arrange(p)
    BY SameOperators DEF PG!Arrange, Promise!Arrange
  <2> QED
    BY <1>2, <2>1, <2>2, <2>3, <2>4, <2>5, <2>6, <2>7, <2>8, <2>9, <2>10, <2>11, SameOperators
    DEF PG!Next, Promise!Next
<1> QED BY <1>1, <1>2

-----------------------------------------------------------------------------
(* What follows for every run of the tab. *)

LEMMA PromiseInvariant == Promised => (Spec => []PromiseInv)
<1> SUFFICES ASSUME Promised PROVE Spec => []PromiseInv
  OBVIOUS
<1>1. Init => PromiseInv
  BY PromiseStarts
<1>2. PromiseInv /\ [Next]_tab => PromiseInv'
  BY PromiseKept
<1> QED BY <1>1, <1>2, PTL DEF Spec

(* The refinement: as long as panes are only hidden by stacks, one pane is *)
(* removed at a time and the pane selector's swap is not used, every       *)
(* method of the tab, dock_unit and prune_removed_panes included, is one   *)
(* step of PaneGroups or leaves the layout alone, for every set of panes   *)
(* and any number of groups.                                               *)
THEOREM TabKeepsPromise ==
  HidePanes = FALSE /\ MaxVictims = 1 /\ SwapByIndex = FALSE => (Spec => KeepsPromise)
<1> SUFFICES ASSUME Promised PROVE Spec => KeepsPromise
  BY DEF Promised
<1>1. Init => Promise!Init
  BY PromiseStarts, SameSteps
<1>2. PromiseInv /\ [Next]_tab => [GroupLayout' # GroupLayout => Promise!Next]_tab
  BY PromiseKept, SameSteps
<1>3. Spec => []PromiseInv
  BY PromiseInvariant
<1> QED BY <1>1, <1>2, <1>3, PTL DEF Spec, KeepsPromise

LEMMA StacksFitTab ==
  ASSUME PromiseInv
  PROVE  StacksShowOneUnit
<1>1. TabInv /\ Sound(tab) /\ GroupLayout = View(tab)
  BY LayoutSeen DEF PromiseInv, TabInv, Sound
<1>2. PG!Fit(View(tab))
  BY <1>1 DEF PromiseInv
<1>3. ASSUME NEW k \in tab.stacks, NEW u \in ToSet(k.units)
      PROVE  UnitSet(u) = Held(tab, u) /\ UnitSet(u) # {}
  <2>1. Live(tab, u)
    BY <1>1, <1>3, StacksSeen
  <2> QED BY <1>1, <2>1, HeldPanes DEF UnitSet, Live
<1>4. ASSUME NEW k \in tab.stacks
      PROVE  StackPanes(k) = PG!StackPanes(SeenStack(tab, k))
  <2>1. SeenStack(tab, k).units = {Held(tab, u) : u \in ToSet(k.units)}
    BY SeenParts
  <2>2. SeenStack(tab, k).units = {UnitSet(u) : u \in ToSet(k.units)}
    BY <1>3, <1>4, <2>1
  <2> QED BY <2>2 DEF StackPanes, PG!StackPanes
<1>5. ASSUME NEW k \in tab.stacks
      PROVE  /\ Len(k.units) >= 2 /\ IsInjective(k.units) /\ k.active < Len(k.units)
             /\ StackPanes(k) \in tab.tree.sets
  <2>1. SeenStack(tab, k) \in View(tab).stacks
    BY <1>1, <1>5, StacksSeen
  <2>2. PG!StackPanes(SeenStack(tab, k)) \in View(tab).subtrees
    BY <1>2, <2>1 DEF PG!Fit, PG!StacksFit, PG!StackFits
  <2>3. StackPanes(k) \in tab.tree.sets
    BY <1>4, <1>5, <2>2, ViewParts
  <2>4. IsInjective(k.units) /\ k.active < Len(k.units)
    BY <1>1, <1>5, StacksSeen
  <2>5. Len(k.units) >= 2
    BY <1>1, <1>2, <1>5, TwoUnitsAtLeast
  <2> QED BY <2>3, <2>4, <2>5
<1>6. ASSUME NEW k \in tab.stacks, NEW u \in ToSet(k.units)
      PROVE  /\ UnitSet(u) # {}
             /\ IF u = ShownUnit(k) THEN UnitSet(u) \cap tab.hidden = {}
                                    ELSE UnitSet(u) \subseteq tab.hidden
  <2>1. IF u = ShownUnit(k) THEN Held(tab, u) \cap tab.hidden = {}
                            ELSE Held(tab, u) \subseteq tab.hidden
    BY <1>1, <1>2, <1>6, UnitOnShow
  <2> QED BY <1>3, <1>6, <2>1
<1>7. ASSUME NEW j \in tab.stacks, NEW k \in tab.stacks, j # k
      PROVE  StackPanes(j) \cap StackPanes(k) = {}
  <2>1. /\ SeenStack(tab, j) \in View(tab).stacks /\ SeenStack(tab, k) \in View(tab).stacks
        /\ SeenStack(tab, j) # SeenStack(tab, k)
    BY <1>1, <1>7, StacksSeen
  <2>2. PG!StackPanes(SeenStack(tab, j)) \cap PG!StackPanes(SeenStack(tab, k)) = {}
    BY <1>2, <2>1 DEF PG!Fit, PG!StacksFit
  <2> QED BY <1>4, <1>7, <2>2
<1> QED BY <1>5, <1>6, <1>7 DEF StacksShowOneUnit

(* Invariants 3 and 4 of validate: a stack fills one subtree of the split  *)
(* tree with two units or more, shows exactly one of them and hides the    *)
(* others whole, and no pane is in two stacks.                             *)
THEOREM StacksStayExclusive ==
  HidePanes = FALSE /\ MaxVictims = 1 /\ SwapByIndex = FALSE => (Spec => []StacksShowOneUnit)
<1> SUFFICES ASSUME Promised PROVE Spec => []StacksShowOneUnit
  BY DEF Promised
<1>1. PromiseInv => StacksShowOneUnit
  BY StacksFitTab
<1>2. Spec => []PromiseInv
  BY PromiseInvariant
<1> QED BY <1>1, <1>2, PTL
(* Only stacks hide: in a tab whose panes are not hidden one by one, a     *)
(* pane that is not on show is in a stack, which can be turned to it,      *)
(* whatever was closed, docked, grouped and stacked before.                *)
THEOREM HiddenCanBeShown ==
  HidePanes = FALSE /\ MaxVictims = 1 /\ SwapByIndex = FALSE => (Spec => []Promise!OnlyStacksHide)
<1> SUFFICES ASSUME Promised PROVE Spec => []Promise!OnlyStacksHide
  BY DEF Promised
<1>1. PromiseInv => Promise!OnlyStacksHide
  BY DEF PromiseInv, PG!HiddenFits, PG!StackPanes,
         Promise!OnlyStacksHide, Promise!HiddenFits, Promise!StackPanes
<1>2. Spec => []PromiseInv
  BY PromiseInvariant
<1> QED BY <1>1, <1>2, PTL
=============================================================================

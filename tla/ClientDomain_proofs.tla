------------------------- MODULE ClientDomain_proofs -------------------------
(***************************************************************************)
(* What the mirror of a mux server never does, however many panes, tabs    *)
(* and windows there are and in whatever order lists, answers and pushes   *)
(* arrive: no remote pane is mirrored twice, and none is killed that the   *)
(* user did not close.                                                     *)
(*                                                                         *)
(* The first part is about the registries alone, which are less regular    *)
(* here than in Mux (a pane may be in two tabs until the next list comes). *)
(* Then come the steps that bring the mirror up to date, and one lemma for *)
(* each action.                                                            *)
(***************************************************************************)
EXTENDS ClientDomain, MuxState_proofs, FiniteSetTheorems

(* Local ids are counted up and never run out (static PANE_ID and the like *)
(* in mux); here, one is used again once nothing refers to it.             *)
EndlessIds ==
  ~ IsFiniteSet(Pane) /\ ~ IsFiniteSet(Tab) /\ ~ IsFiniteSet(Window)

-----------------------------------------------------------------------------
(* Finite sets and the lists made of them.                                 *)

LEMMA SmallerIsFinite ==
  ASSUME NEW S, IsFiniteSet(S), NEW T, T \subseteq S
  PROVE  IsFiniteSet(T)
BY FS_Subset

LEMMA BothFinite ==
  ASSUME NEW S, NEW T, IsFiniteSet(S), IsFiniteSet(T)
  PROVE  IsFiniteSet(S \cup T)
BY FS_Union

LEMMA ImageFinite ==
  ASSUME NEW f, IsFiniteSet(DOMAIN f)
  PROVE  IsFiniteSet({f[x] : x \in DOMAIN f})
<1> DEFINE g == [x \in DOMAIN f |-> f[x]]
           T == {f[x] : x \in DOMAIN f}
<1>1. g \in Surjection(DOMAIN f, T)
  BY DEF Surjection
<1> QED BY <1>1, FS_Surjection

LEMMA SomethingLeft ==
  ASSUME NEW S, ~ IsFiniteSet(S), NEW T, IsFiniteSet(T)
  PROVE  \E x : x \in S \ T
<1> SUFFICES ASSUME S \subseteq T PROVE FALSE
  OBVIOUS
<1> QED BY SmallerIsFinite

LEMMA ListOfSet ==
  ASSUME NEW S, IsFiniteSet(S)
  PROVE  SetToSeq(S) \in Seq(S) /\ ToSet(SetToSeq(S)) \subseteq S
         /\ \A x \in S : \E i \in DOMAIN SetToSeq(S) : SetToSeq(S)[i] = x
<1>1. Cardinality(S) \in Nat /\ ExistsBijection(1 .. Cardinality(S), S)
  BY FS_CardinalityType
<1>2. PICK f : f \in Bijection(1 .. Cardinality(S), S)
  BY <1>1 DEF ExistsBijection
<1>3. f \in [1 .. Cardinality(S) -> S] /\ IsInjective(f)
  BY <1>2 DEF Bijection, Injection, IsInjective
<1>4. SetToSeq(S) \in [1 .. Cardinality(S) -> S] /\ IsInjective(SetToSeq(S))
  BY <1>3 DEF SetToSeq
<1>5. \A x \in S : \E i \in 1 .. Cardinality(S) : SetToSeq(S)[i] = x
  <2>1. SetToSeq(S) \in Injection(1 .. Cardinality(S), S)
    BY <1>4 DEF Injection
  <2>2. Cardinality(1 .. Cardinality(S)) = Cardinality(S)
    BY <1>1, FS_Interval
  <2>3. SetToSeq(S) \in Surjection(1 .. Cardinality(S), S)
    BY <2>1, <2>2, FS_Injection
  <2> QED BY <2>3 DEF Surjection
<1>6. SetToSeq(S) \in Seq(S) /\ DOMAIN SetToSeq(S) = 1 .. Cardinality(S)
  BY <1>1, <1>4, SeqDef
<1> QED BY <1>4, <1>5, <1>6 DEF ToSet

-----------------------------------------------------------------------------
(* Sequences of messages.                                                  *)

LEMMA Appended ==
  ASSUME NEW S, NEW a \in Seq(S), NEW b \in Seq(S)
  PROVE  /\ a \o b \in Seq(S) /\ ToSet(a \o b) = ToSet(a) \cup ToSet(b)
         /\ Len(a) \in Nat /\ Len(b) \in Nat /\ Len(a \o b) = Len(a) + Len(b)
         /\ DOMAIN a = 1 .. Len(a) /\ DOMAIN b = 1 .. Len(b)
         /\ DOMAIN (a \o b) = 1 .. Len(a) + Len(b)
         /\ \A i \in 1 .. Len(a) + Len(b) :
              (a \o b)[i] = IF i <= Len(a) THEN a[i] ELSE b[i - Len(a)]
<1>1. PICK c : c = a \o b
  OBVIOUS
<1>2. /\ c \in Seq(S) /\ Len(a) \in Nat /\ Len(b) \in Nat /\ Len(c) = Len(a) + Len(b)
      /\ \A i \in 1 .. Len(a) + Len(b) :
           c[i] = IF i <= Len(a) THEN a[i] ELSE b[i - Len(a)]
  BY <1>1, ConcatProperties, LenProperties
<1>3. DOMAIN a = 1 .. Len(a) /\ DOMAIN b = 1 .. Len(b) /\ DOMAIN c = 1 .. Len(a) + Len(b)
  BY <1>2, LenProperties
<1>4. ToSet(c) = ToSet(a) \cup ToSet(b)
  <2>1. ASSUME NEW i \in DOMAIN c PROVE c[i] \in ToSet(a) \cup ToSet(b)
    <3>1. CASE i <= Len(a)
      BY <1>2, <1>3, <3>1 DEF ToSet
    <3>2. CASE i > Len(a)
      <4>1. i - Len(a) \in DOMAIN b /\ c[i] = b[i - Len(a)]
        BY <1>2, <1>3, <3>2
      <4> QED BY <4>1 DEF ToSet
    <3> QED BY <1>2, <1>3, <3>1, <3>2
  <2>2. ASSUME NEW i \in DOMAIN a PROVE a[i] \in ToSet(c)
    <3>1. i \in DOMAIN c /\ c[i] = a[i]
      BY <1>2, <1>3
    <3> QED BY <3>1 DEF ToSet
  <2>3. ASSUME NEW i \in DOMAIN b PROVE b[i] \in ToSet(c)
    <3>1. Len(a) + i \in DOMAIN c /\ c[Len(a) + i] = b[i]
      BY <1>2, <1>3
    <3> QED BY <3>1 DEF ToSet
  <2> QED BY <2>1, <2>2, <2>3 DEF ToSet
<1> QED BY <1>1, <1>2, <1>3, <1>4

(* Where the elements of a list were before the one at i was taken out.    *)
LEMMA TakenAway ==
  ASSUME NEW S, NEW q \in Seq(S), NEW i \in DOMAIN q
  PROVE  /\ RemoveAt(q, i) \in Seq(S) /\ ToSet(RemoveAt(q, i)) \subseteq ToSet(q)
         /\ i \in Nat /\ DOMAIN q = 1 .. Len(q) /\ Len(q) \in Nat
         /\ DOMAIN RemoveAt(q, i) = 1 .. Len(q) - 1
         /\ \A j \in DOMAIN RemoveAt(q, i) :
              RemoveAt(q, i)[j] = q[IF j < i THEN j ELSE j + 1]
<1>1. PICK c : c = RemoveAt(q, i)
  OBVIOUS
<1>2. Len(q) \in Nat /\ DOMAIN q = 1 .. Len(q) /\ i \in 1 .. Len(q)
  BY LenProperties
<1>3. PICK a, b : a = SubSeq(q, 1, i - 1) /\ b = SubSeq(q, i + 1, Len(q))
  OBVIOUS
<1>4. /\ a \in Seq(S) /\ Len(a) = i - 1
      /\ \A j \in 1 .. i - 1 : a[j] = q[j]
  BY <1>2, <1>3, SubSeqProperties
<1>5. /\ b \in Seq(S) /\ Len(b) = Len(q) - i
      /\ \A j \in 1 .. Len(q) - i : b[j] = q[i + j]
  <2>1. PICK m, n : m = i + 1 /\ n = Len(q)
    OBVIOUS
  <2>2. m \in Int /\ n \in Int /\ \A j \in m .. n : q[j] \in S
    BY <1>2, <2>1
  <2>3. /\ b \in Seq(S) /\ Len(b) = IF m <= n THEN n - m + 1 ELSE 0
        /\ \A j \in 1 .. n - m + 1 : b[j] = q[m + j - 1]
    <3>1. b = SubSeq(q, m, n)
      BY <1>3, <2>1
    <3> QED BY <2>2, <3>1, SubSeqProperties
  <2>4. n - m + 1 = Len(q) - i
    BY <1>2, <2>1
  <2>5. Len(b) = Len(q) - i
    BY <1>2, <2>1, <2>3
  <2>6. ASSUME NEW j \in 1 .. Len(q) - i PROVE b[j] = q[i + j]
    <3>1. m + j - 1 = i + j
      BY <1>2, <2>1
    <3> QED BY <2>3, <2>4, <3>1
  <2> QED BY <2>3, <2>5, <2>6
<1>6. c = a \o b
  BY <1>1, <1>3 DEF RemoveAt
<1>7. /\ c \in Seq(S) /\ DOMAIN c = 1 .. Len(q) - 1
      /\ \A j \in 1 .. Len(q) - 1 : c[j] = IF j <= i - 1 THEN a[j] ELSE b[j - (i - 1)]
  <2>1. Len(a) + Len(b) = Len(q) - 1
    BY <1>2, <1>4, <1>5
  <2>2. /\ c \in Seq(S) /\ DOMAIN c = 1 .. Len(a) + Len(b)
        /\ \A j \in 1 .. Len(a) + Len(b) : c[j] = IF j <= Len(a) THEN a[j] ELSE b[j - Len(a)]
    BY <1>4, <1>5, <1>6, Appended
  <2> QED BY <1>4, <2>1, <2>2
<1>8. \A j \in DOMAIN c : c[j] = q[IF j < i THEN j ELSE j + 1]
  <2>1. ASSUME NEW j \in DOMAIN c, j < i PROVE c[j] = q[j]
    BY <1>2, <1>4, <1>7, <2>1
  <2>2. ASSUME NEW j \in DOMAIN c, ~ (j < i) PROVE c[j] = q[j + 1]
    <3>1. j - (i - 1) \in 1 .. Len(q) - i /\ i + (j - (i - 1)) = j + 1
      BY <1>2, <1>7, <2>2
    <3>2. c[j] = b[j - (i - 1)]
      BY <1>2, <1>7, <2>2
    <3> QED BY <1>5, <3>1, <3>2
  <2> QED BY <2>1, <2>2
<1>9. ToSet(c) \subseteq ToSet(q)
  <2>1. \A j \in DOMAIN c : (IF j < i THEN j ELSE j + 1) \in DOMAIN q
    BY <1>2, <1>7
  <2> QED BY <1>8, <2>1 DEF ToSet
<1> QED BY <1>1, <1>2, <1>7, <1>8, <1>9

-----------------------------------------------------------------------------
(* The registries.  Every tab of a window is registered; beyond that, a    *)
(* pane may be in several tabs.  No pane of a remote domain is held after  *)
(* its program ended.                                                      *)
Registered(m) ==
  /\ m \in MuxStates /\ \A p \in Pane : m.process[p] # "held"
  /\ \A w \in DOMAIN m.windows :
       Sound(m.windows[w]) /\ TabsOf(m.windows[w]) \subseteq DOMAIN m.tabs

InTabs(m) == PanesInTabs(m, DOMAIN m.tabs)

Few(m) ==
  /\ IsFiniteSet(m.panes) /\ IsFiniteSet(m.removing)
  /\ IsFiniteSet(DOMAIN m.windows) /\ IsFiniteSet(DOMAIN m.tabs)
  /\ IsFiniteSet(InTabs(m))

(* From m to n, panes are only lost, and only those of P leave the mux or  *)
(* wait to be removed from it.                                             *)
GivesUp(m, n, P) ==
  /\ Registered(n) /\ n.process = m.process
  /\ DOMAIN n.windows \subseteq DOMAIN m.windows
  /\ DOMAIN n.tabs \subseteq DOMAIN m.tabs /\ InTabs(n) \subseteq InTabs(m)
  /\ n.panes \subseteq m.panes /\ m.panes \ n.panes \subseteq P
  /\ n.removing \subseteq m.removing \cup InTabs(m)
  /\ n.removing \cap m.panes \subseteq m.removing \cup P

LEMMA FewAreLeft ==
  ASSUME NEW m, Few(m), NEW n, NEW P, GivesUp(m, n, P)
  PROVE  Few(n)
<1>1. IsFiniteSet(m.removing \cup InTabs(m))
  BY BothFinite DEF Few
<1>2. IsFiniteSet(n.panes) /\ IsFiniteSet(n.removing)
  BY <1>1, SmallerIsFinite DEF Few, GivesUp
<1>3. IsFiniteSet(DOMAIN n.windows) /\ IsFiniteSet(DOMAIN n.tabs) /\ IsFiniteSet(InTabs(n))
  BY SmallerIsFinite DEF Few, GivesUp
<1> QED BY <1>2, <1>3 DEF Few

LEMMA GivenUpInTurn ==
  ASSUME NEW m, NEW n, NEW o, NEW P, NEW Q, GivesUp(m, n, P), GivesUp(n, o, Q)
  PROVE  GivesUp(m, o, P \cup Q)
<1>1. o.panes \subseteq m.panes /\ m.panes \ o.panes \subseteq P \cup Q
  BY DEF GivesUp
<1>2. o.removing \subseteq m.removing \cup InTabs(m)
  BY DEF GivesUp
<1>3. o.removing \cap m.panes \subseteq m.removing \cup P \cup Q
  BY DEF GivesUp
<1> QED BY <1>1, <1>2, <1>3 DEF GivesUp

LEMMA GivesUpMore ==
  ASSUME NEW m, NEW n, NEW P, NEW Q, P \cap m.panes \subseteq Q, GivesUp(m, n, P)
  PROVE  GivesUp(m, n, Q)
BY DEF GivesUp

(* Tabs that lose panes, or are lost.                                      *)
LEMMA InFewerTabs ==
  ASSUME NEW m, NEW n, DOMAIN n.tabs \subseteq DOMAIN m.tabs,
         \A t \in DOMAIN n.tabs : n.tabs[t] \subseteq m.tabs[t]
  PROVE  InTabs(n) \subseteq InTabs(m)
BY DEF InTabs, PanesInTabs

LEMMA PanesGivenUp ==
  ASSUME NEW m, Registered(m), NEW P
  PROVE  LET n == RemovePanes(m, P)
         IN  /\ GivesUp(m, n, P) /\ n.windows = m.windows /\ n.tabs = m.tabs
             /\ n.panes = m.panes \ P /\ n.removing = m.removing /\ n.told = m.told
<1>1. PICK f : f = [p \in Pane |->
                 IF p \in P \cap m.panes /\ m.process[p] = "held" THEN "dead" ELSE m.process[p]]
  OBVIOUS
<1>2. f = m.process
  BY <1>1, Parts DEF Registered
<1>3. PICK n : n = RemovePanes(m, P)
  OBVIOUS
<1>4. n = [m EXCEPT !.panes = @ \ P, !.process = f]
  BY <1>1, <1>3 DEF RemovePanes
<1>5. /\ n \in MuxStates /\ n.windows = m.windows /\ n.tabs = m.tabs
      /\ n.panes = m.panes \ P /\ n.process = m.process
      /\ n.removing = m.removing /\ n.told = m.told
  BY <1>2, <1>4 DEF Registered, MuxStates
<1>6. Registered(n)
  BY <1>5 DEF Registered
<1>7. InTabs(n) = InTabs(m)
  BY <1>5 DEF InTabs, PanesInTabs
<1> QED BY <1>3, <1>5, <1>6, <1>7 DEF GivesUp

LEMMA TabsGivenUp ==
  ASSUME NEW m, Registered(m), NEW T
  PROVE  LET n == RemoveEachTab(m, T)
         IN  /\ GivesUp(m, n, PanesInTabs(m, T \cap DOMAIN m.tabs))
             /\ DOMAIN n.tabs = DOMAIN m.tabs \ T /\ n.removing = m.removing
<1>1. PICK known : known = T \cap DOMAIN m.tabs
  OBVIOUS
<1>2. PICK windows, tabs : /\ windows = [w \in DOMAIN m.windows |-> RemoveTabs(m.windows[w], known)]
                           /\ tabs = Without(m.tabs, known)
  OBVIOUS
<1>3. PICK o : o = [m EXCEPT !.tabs = tabs, !.windows = windows]
  OBVIOUS
<1>4. ASSUME NEW w \in DOMAIN m.windows
      PROVE  /\ windows[w] \in Windows(Tab) /\ Sound(windows[w])
             /\ TabsOf(windows[w]) = TabsOf(m.windows[w]) \ known
  BY <1>2, Parts, TabsRemoved, MuxAssumption DEF Registered
<1>5. DOMAIN tabs = DOMAIN m.tabs \ T /\ \A t \in DOMAIN tabs : tabs[t] = m.tabs[t]
  BY <1>1, <1>2 DEF Without
<1>6. o \in MuxStates
  <2>1. DOMAIN windows = DOMAIN m.windows /\ DOMAIN m.windows \subseteq Window
    BY <1>2, Parts DEF Registered
  <2>2. DOMAIN tabs \subseteq Tab /\ \A t \in DOMAIN tabs : tabs[t] \subseteq Pane
    BY <1>5, Parts DEF Registered
  <2>3. tabs = [t \in DOMAIN tabs |-> tabs[t]] /\ windows = [w \in DOMAIN windows |-> windows[w]]
    BY <1>2 DEF Without
  <2> QED BY <1>3, <1>4, <2>1, <2>2, <2>3, Replaced DEF Registered
<1>7. /\ o.windows = windows /\ o.tabs = tabs /\ o.panes = m.panes
      /\ o.process = m.process /\ o.removing = m.removing
  BY <1>3 DEF Registered, MuxStates
<1>8. Registered(o)
  <2>1. ASSUME NEW w \in DOMAIN windows PROVE TabsOf(windows[w]) \subseteq DOMAIN tabs
    <3>1. w \in DOMAIN m.windows
      BY <1>2
    <3>2. TabsOf(m.windows[w]) \subseteq DOMAIN m.tabs
      BY <3>1 DEF Registered
    <3> QED BY <1>1, <1>4, <1>5, <3>1, <3>2
  <2> QED BY <1>2, <1>4, <1>6, <1>7, <2>1 DEF Registered
<1>9. InTabs(o) \subseteq InTabs(m)
  BY <1>5, <1>7, InFewerTabs
<1>10. GivesUp(m, o, {})
  BY <1>2, <1>5, <1>7, <1>8, <1>9 DEF GivesUp
<1>11. PICK n : n = RemovePanes(o, PanesInTabs(m, known))
  OBVIOUS
<1>12. n = RemoveEachTab(m, T)
  BY <1>1, <1>2, <1>3, <1>11 DEF RemoveEachTab
<1>13. /\ GivesUp(o, n, PanesInTabs(m, known)) /\ n.tabs = o.tabs /\ n.removing = o.removing
  BY <1>8, <1>11, PanesGivenUp
<1>14. GivesUp(m, n, {} \cup PanesInTabs(m, known))
  BY <1>10, <1>13, GivenUpInTurn
<1>15. GivesUp(m, n, PanesInTabs(m, known))
  BY <1>14, GivesUpMore
<1> QED BY <1>1, <1>5, <1>7, <1>12, <1>13, <1>15

LEMMA PanesGone ==
  ASSUME NEW m, Registered(m), NEW P
  PROVE  LET n == WithoutPanes(m, P)
         IN  /\ GivesUp(m, n, P) /\ n.windows = m.windows /\ n.panes = m.panes
             /\ DOMAIN n.tabs = DOMAIN m.tabs
             /\ \A t \in DOMAIN n.tabs : n.tabs[t] \subseteq m.tabs[t]
<1>1. PICK T, tabs, waiting :
        /\ T = TabsInWindows(m) /\ waiting = P \cap PanesInTabs(m, T)
        /\ tabs = [t \in DOMAIN m.tabs |-> m.tabs[t] \ IF t \in T THEN P ELSE {}]
  OBVIOUS
<1>2. PICK n : n = WithoutPanes(m, P)
  OBVIOUS
<1>3. n = [m EXCEPT !.tabs = tabs, !.removing = @ \cup waiting]
  BY <1>1, <1>2 DEF WithoutPanes
<1>4. T \subseteq DOMAIN m.tabs
  BY <1>1 DEF TabsInWindows, Registered
<1>5. waiting \subseteq InTabs(m) /\ waiting \subseteq P
  BY <1>1, <1>4 DEF InTabs, PanesInTabs
<1>6. InTabs(m) \subseteq Pane
  BY Parts DEF InTabs, PanesInTabs, Registered
<1>7. DOMAIN tabs = DOMAIN m.tabs /\ \A t \in DOMAIN tabs : tabs[t] \subseteq m.tabs[t]
  BY <1>1
<1>8. tabs \in Partial(Tab, SUBSET Pane)
  <2>1. DOMAIN tabs \subseteq Tab /\ \A t \in DOMAIN tabs : tabs[t] \in SUBSET Pane
    BY <1>7, Parts DEF Registered
  <2>2. tabs \in [DOMAIN tabs -> SUBSET Pane]
    BY <1>1, <2>1
  <2> QED BY <2>1, <2>2, PartialFunctions
<1>9. /\ n \in MuxStates /\ n.tabs = tabs /\ n.windows = m.windows /\ n.panes = m.panes
      /\ n.process = m.process /\ n.removing = m.removing \cup waiting
  BY <1>3, <1>5, <1>6, <1>8 DEF Registered, MuxStates
<1>10. Registered(n)
  BY <1>7, <1>9 DEF Registered
<1>11. InTabs(n) \subseteq InTabs(m)
  BY <1>7, <1>9, InFewerTabs
<1> QED BY <1>2, <1>5, <1>7, <1>9, <1>10, <1>11 DEF GivesUp

LEMMA PanesTakenOut ==
  ASSUME NEW m, Registered(m), NEW P, NEW n \in TakeOut(m, P)
  PROVE  /\ GivesUp(m, n, P) /\ n.windows = m.windows /\ n.panes = m.panes
         /\ DOMAIN n.tabs = DOMAIN m.tabs
         /\ \A t \in DOMAIN n.tabs : n.tabs[t] \subseteq m.tabs[t]
<1>1. PICK L : n = WithoutPanes(m, P \ L)
  BY DEF TakeOut
<1>2. /\ GivesUp(m, n, P \ L) /\ n.windows = m.windows /\ n.panes = m.panes
      /\ DOMAIN n.tabs = DOMAIN m.tabs
      /\ \A t \in DOMAIN n.tabs : n.tabs[t] \subseteq m.tabs[t]
  BY <1>1, PanesGone
<1>3. GivesUp(m, n, P)
  <2>1. (P \ L) \cap m.panes \subseteq P
    OBVIOUS
  <2> QED BY <1>2, <2>1, GivesUpMore
<1> QED BY <1>2, <1>3

LEMMA WindowsGivenUp ==
  ASSUME NEW m, Registered(m), NEW W
  PROVE  LET n == WithoutWindows(m, W)
         IN  /\ GivesUp(m, n, {}) /\ n.tabs = m.tabs /\ n.panes = m.panes
<1>1. PICK windows : windows = Without(m.windows, W)
  OBVIOUS
<1>2. /\ DOMAIN windows = DOMAIN m.windows \ W
      /\ \A w \in DOMAIN windows : windows[w] = m.windows[w]
  BY <1>1 DEF Without
<1>3. windows \in Partial(Window, Windows(Tab))
  <2>1. DOMAIN windows \subseteq Window /\ \A w \in DOMAIN windows : windows[w] \in Windows(Tab)
    BY <1>2, Parts DEF Registered
  <2>2. windows \in [DOMAIN windows -> Windows(Tab)]
    BY <1>1, <2>1 DEF Without
  <2> QED BY <2>1, <2>2, PartialFunctions
<1>4. PICK n : n = WithoutWindows(m, W)
  OBVIOUS
<1>5. n = [m EXCEPT !.windows = windows]
  BY <1>1, <1>4 DEF WithoutWindows
<1>6. /\ n \in MuxStates /\ n.tabs = m.tabs /\ n.windows = windows /\ n.panes = m.panes
      /\ n.process = m.process /\ n.removing = m.removing
  BY <1>3, <1>5 DEF Registered, MuxStates
<1>7. Registered(n)
  BY <1>2, <1>6 DEF Registered
<1>8. InTabs(n) = InTabs(m)
  BY <1>6 DEF InTabs, PanesInTabs
<1> QED BY <1>2, <1>4, <1>6, <1>7, <1>8 DEF GivesUp

Dead(m) == {p \in Pane : IsDead(m, p)}

LEMMA WindowsSwept ==
  ASSUME NEW m, Registered(m), NEW n \in PruneWindows(m)
  PROVE  GivesUp(m, n, Dead(m)) /\ n.panes = m.panes
<1> DEFINE gone(o, t) == t \notin DOMAIN o.tabs \/ \A p \in o.tabs[t] : IsDead(o, p)
<1>1. PICK P : P = {p \in Pane : IsDead(m, p) \/ p \notin m.panes}
  OBVIOUS
<1>2. PICK o \in TakeOut(m, P) :
        n = [o EXCEPT !.windows = [w \in DOMAIN @ |->
               RemoveTabs(@[w], {t \in TabsOf(@[w]) : gone(o, t)})]]
  BY <1>1 DEF PruneWindows
<1>3. /\ GivesUp(m, o, P) /\ o.windows = m.windows /\ o.panes = m.panes
      /\ DOMAIN o.tabs = DOMAIN m.tabs
  BY <1>1, PanesTakenOut
<1>4. Registered(o)
  BY <1>3 DEF GivesUp
<1>5. PICK windows :
        windows = [w \in DOMAIN o.windows |->
          RemoveTabs(o.windows[w], {t \in TabsOf(o.windows[w]) : gone(o, t)})]
  OBVIOUS
<1>6. PICK taken : taken = [w \in DOMAIN o.windows |-> {t \in TabsOf(o.windows[w]) : gone(o, t)}]
  OBVIOUS
<1>7. n = [o EXCEPT !.windows = windows]
  BY <1>2, <1>5
<1> HIDE DEF gone
<1>8. ASSUME NEW w \in DOMAIN o.windows
      PROVE  /\ windows[w] \in Windows(Tab) /\ Sound(windows[w])
             /\ TabsOf(windows[w]) = TabsOf(o.windows[w]) \ taken[w]
  <2>1. windows[w] = RemoveTabs(o.windows[w], taken[w])
    BY <1>5, <1>6
  <2> QED BY <1>4, <2>1, Parts, TabsRemoved, MuxAssumption DEF Registered
<1>9. windows \in Partial(Window, Windows(Tab))
  <2>1. DOMAIN windows \subseteq Window
    BY <1>4, <1>5, Parts DEF Registered
  <2>2. windows \in [DOMAIN windows -> Windows(Tab)]
    BY <1>5, <1>8
  <2> QED BY <2>1, <2>2, PartialFunctions
<1>10. /\ n \in MuxStates /\ n.windows = windows /\ n.tabs = o.tabs /\ n.panes = o.panes
       /\ n.process = o.process /\ n.removing = o.removing
  BY <1>4, <1>7, <1>9 DEF Registered, MuxStates
<1>11. Registered(n)
  <2>1. ASSUME NEW w \in DOMAIN windows
        PROVE  Sound(windows[w]) /\ TabsOf(windows[w]) \subseteq DOMAIN o.tabs
    <3>1. w \in DOMAIN o.windows
      BY <1>5
    <3>2. TabsOf(o.windows[w]) \subseteq DOMAIN o.tabs
      BY <1>4, <3>1 DEF Registered
    <3> QED BY <1>8, <3>1, <3>2
  <2>2. \A p \in Pane : n.process[p] # "held"
    BY <1>4, <1>10 DEF Registered
  <2> QED BY <1>10, <2>1, <2>2 DEF Registered
<1>12. InTabs(n) = InTabs(o)
  BY <1>10 DEF InTabs, PanesInTabs
<1>13. GivesUp(o, n, {})
  BY <1>5, <1>10, <1>11, <1>12 DEF GivesUp
<1>14. GivesUp(m, n, P \cup {})
  BY <1>3, <1>13, GivenUpInTurn
<1>15. (P \cup {}) \cap m.panes \subseteq Dead(m)
  BY <1>1 DEF Dead
<1>16. GivesUp(m, n, Dead(m))
  BY <1>14, <1>15, GivesUpMore
<1> QED BY <1>3, <1>10, <1>16

LEMMA SweptGivesUp ==
  ASSUME NEW m, Registered(m), NEW s \in Sweep(m)
  PROVE  GivesUp(m, s, Dead(m))
<1>1. PICK n \in PruneWindows(m) : s = Announce(WithoutBareWindows(WithoutDeadTabs(n), n))
  BY DEF Sweep
<1>2. PICK dead, bare :
        /\ dead = {t \in DOMAIN n.tabs : \A p \in n.tabs[t] : IsDead(n, p)}
        /\ bare = {w \in DOMAIN n.windows : n.windows[w].tabs = <<>>}
  OBVIOUS
<1>3. PICK kept, left : kept = RemoveEachTab(n, dead) /\ left = WithoutWindows(kept, bare)
  OBVIOUS
<1>4. s = Announce(left)
  BY <1>1, <1>2, <1>3 DEF WithoutDeadTabs, WithoutBareWindows
<1>5. GivesUp(m, n, Dead(m)) /\ Registered(n)
  BY WindowsSwept DEF GivesUp
<1>6. GivesUp(n, kept, PanesInTabs(n, dead \cap DOMAIN n.tabs)) /\ Registered(kept)
  BY <1>3, <1>5, TabsGivenUp DEF GivesUp
<1>7. GivesUp(kept, left, {}) /\ Registered(left)
  BY <1>3, <1>6, WindowsGivenUp DEF GivesUp
<1>8. GivesUp(left, s, {})
  <2>1. /\ s \in MuxStates /\ s.windows = left.windows /\ s.tabs = left.tabs /\ s.panes = left.panes
        /\ s.process = left.process /\ s.removing = left.removing
    BY <1>4, <1>7 DEF Announce, Registered, MuxStates
  <2>2. Registered(s)
    BY <1>7, <2>1 DEF Registered
  <2>3. InTabs(s) = InTabs(left)
    BY <2>1 DEF InTabs, PanesInTabs
  <2> QED BY <2>1, <2>2, <2>3 DEF GivesUp
<1>9. PanesInTabs(n, dead \cap DOMAIN n.tabs) \subseteq Dead(m)
  <2>1. n.process = m.process
    BY <1>5 DEF GivesUp
  <2>2. \A t \in DOMAIN n.tabs : n.tabs[t] \subseteq Pane
    BY <1>5, Parts DEF Registered
  <2> QED BY <1>2, <2>1, <2>2 DEF PanesInTabs, Dead, IsDead
<1>10. GivesUp(m, s, Dead(m) \cup PanesInTabs(n, dead \cap DOMAIN n.tabs) \cup {} \cup {})
  <2>1. GivesUp(m, kept, Dead(m) \cup PanesInTabs(n, dead \cap DOMAIN n.tabs))
    BY <1>5, <1>6, GivenUpInTurn
  <2>2. GivesUp(m, left, Dead(m) \cup PanesInTabs(n, dead \cap DOMAIN n.tabs) \cup {})
    BY <1>7, <2>1, GivenUpInTurn
  <2> QED BY <1>8, <2>2, GivenUpInTurn
<1>11. GivesUp(m, s, Dead(m))
  BY <1>9, <1>10, GivesUpMore
<1> QED BY <1>11

LEMMA NothingGivenUp ==
  ASSUME NEW m, Registered(m)
  PROVE  GivesUp(m, m, {})
BY DEF GivesUp

LEMMA PrunedGivesUp ==
  ASSUME NEW m, Registered(m), NEW held, NEW n \in Pruned(m, held)
  PROVE  GivesUp(m, n, Dead(m))
<1>1. GivesUp(m, m, Dead(m))
  BY NothingGivenUp, GivesUpMore
<1> QED BY <1>1, SweptGivesUp DEF Pruned

LEMMA DetachedGivesUp ==
  ASSUME NEW m, Registered(m), NEW held, NEW n \in Detached(m, held)
  PROVE  GivesUp(m, n, Pane) /\ n.panes = {}
<1>1. PICK o, q : /\ o \in TakeOut(m, Remote) /\ q = RemovePanes(o, m.panes \cap Remote)
                  /\ n \in Pruned(q, held)
  BY DEF Detached
<1>2. GivesUp(m, o, Remote) /\ o.panes = m.panes /\ Registered(o)
  BY <1>1, PanesTakenOut DEF GivesUp
<1>3. GivesUp(o, q, m.panes \cap Remote) /\ q.panes = o.panes \ (m.panes \cap Remote) /\ Registered(q)
  BY <1>1, <1>2, PanesGivenUp DEF GivesUp
<1>4. GivesUp(q, n, Dead(q))
  BY <1>1, <1>3, PrunedGivesUp
<1>5. m.panes \subseteq Pane /\ Remote = Pane
  BY Parts, ClientDomainAssumption DEF Registered
<1>6. n.panes = {}
  BY <1>2, <1>3, <1>4, <1>5 DEF GivesUp
<1>7. GivesUp(m, q, Remote \cup (m.panes \cap Remote))
  BY <1>2, <1>3, GivenUpInTurn
<1>8. GivesUp(m, n, (Remote \cup (m.panes \cap Remote)) \cup Dead(q))
  BY <1>4, <1>7, GivenUpInTurn
<1>9. GivesUp(m, n, Pane)
  BY <1>5, <1>8, GivesUpMore DEF Dead
<1> QED BY <1>6, <1>9

LEMMA WindowGivenUp ==
  ASSUME NEW m, Registered(m), NEW w \in DOMAIN m.windows, NEW held,
         NEW n \in RemoveWindow(m, w, held)
  PROVE  LET inside == PanesInTabs(m, TabsOf(m.windows[w]))
         IN  /\ GivesUp(m, n, inside \cup IF inside = {} THEN {} ELSE Pane)
             /\ inside # {} => n.panes = {}
<1>1. PICK T, inside : T = TabsOf(m.windows[w]) /\ inside = PanesInTabs(m, T)
  OBVIOUS
<1>2. PICK o : o = WithoutWindows(m, {w})
  OBVIOUS
<1>3. PICK q \in IF inside \cap Remote = {} THEN {o} ELSE Detached(o, held) :
        n = RemoveEachTab(q, T)
  BY <1>1, <1>2 DEF RemoveWindow, TabsOf
<1>4. T \subseteq DOMAIN m.tabs
  BY <1>1 DEF Registered
<1>5. inside \subseteq Pane /\ inside \cap Remote = inside
  <2>1. \A t \in T : m.tabs[t] \subseteq Pane
    BY <1>4, Parts DEF Registered
  <2> QED BY <1>1, <2>1, ClientDomainAssumption DEF PanesInTabs
<1>6. GivesUp(m, o, {}) /\ o.tabs = m.tabs /\ o.panes = m.panes /\ Registered(o)
  BY <1>2, WindowsGivenUp DEF GivesUp
<1>7. CASE inside = {}
  <2>1. q = o
    BY <1>3, <1>5, <1>7
  <2>2. GivesUp(o, n, PanesInTabs(o, T \cap DOMAIN o.tabs))
    BY <1>3, <1>6, <2>1, TabsGivenUp
  <2>3. PanesInTabs(o, T \cap DOMAIN o.tabs) = {}
    BY <1>1, <1>6, <1>7 DEF PanesInTabs
  <2>4. GivesUp(m, n, {} \cup {})
    BY <1>6, <2>2, <2>3, GivenUpInTurn
  <2> QED BY <1>1, <1>7, <2>4
<1>8. CASE inside # {}
  <2>1. q \in Detached(o, held)
    BY <1>3, <1>5, <1>8
  <2>2. GivesUp(o, q, Pane) /\ q.panes = {} /\ Registered(q)
    BY <1>6, <2>1, DetachedGivesUp DEF GivesUp
  <2>3. GivesUp(q, n, PanesInTabs(q, T \cap DOMAIN q.tabs))
    BY <1>3, <2>2, TabsGivenUp
  <2>4. n.panes = {}
    BY <2>2, <2>3 DEF GivesUp
  <2>5. GivesUp(m, q, {} \cup Pane)
    BY <1>6, <2>2, GivenUpInTurn
  <2>6. GivesUp(m, n, ({} \cup Pane) \cup PanesInTabs(q, T \cap DOMAIN q.tabs))
    BY <2>3, <2>5, GivenUpInTurn
  <2>7. m.panes \subseteq Pane
    BY Parts DEF Registered
  <2>8. GivesUp(m, n, inside \cup Pane)
    BY <2>6, <2>7, GivesUpMore
  <2> QED BY <1>1, <1>8, <2>4, <2>8
<1> QED BY <1>7, <1>8

(* What is added leaves the rest as it is.                                 *)
LEMMA ChildRegistered ==
  ASSUME NEW m, Registered(m), NEW p \in Pane
  PROVE  LET n == WithChild(m, p)
         IN  /\ Registered(n) /\ (Few(m) => Few(n))
             /\ n.windows = m.windows /\ n.tabs = m.tabs
             /\ n.panes = m.panes \cup {p} /\ n.removing = m.removing
             /\ \A q \in Pane : IsDead(n, q) <=> q # p /\ IsDead(m, q)
<1>1. PICK o, n : o = WithPane(m, p) /\ n = WithChild(m, p)
  OBVIOUS
<1>2. o = [m EXCEPT !.panes = @ \cup {p}, !.told = FALSE]
  BY <1>1 DEF WithPane
<1>3. /\ o \in MuxStates /\ o.windows = m.windows /\ o.tabs = m.tabs
      /\ o.panes = m.panes \cup {p} /\ o.process = m.process /\ o.removing = m.removing
  BY <1>2 DEF Registered, MuxStates
<1>4. n = [o EXCEPT !.process[p] = "running"]
  BY <1>1 DEF WithChild
<1>5. /\ n \in MuxStates /\ n.windows = o.windows /\ n.tabs = o.tabs /\ n.panes = o.panes
      /\ n.process = [o.process EXCEPT ![p] = "running"] /\ n.removing = o.removing
  BY <1>3, <1>4 DEF MuxStates
<1>6. /\ \A q \in Pane : n.process[q] # "held"
      /\ \A q \in Pane : n.process[q] = "dead" <=> q # p /\ m.process[q] = "dead"
  <2>1. m.process \in [Pane -> {"running", "held", "dead"}]
        /\ \A q \in Pane : m.process[q] # "held"
    BY Parts DEF Registered
  <2> QED BY <1>3, <1>5, <2>1
<1>7. Registered(n)
  BY <1>3, <1>5, <1>6 DEF Registered
<1>8. InTabs(n) = InTabs(m)
  BY <1>3, <1>5 DEF InTabs, PanesInTabs
<1>9. Few(m) => Few(n)
  <2>1. IsFiniteSet({p})
    BY FS_Singleton
  <2> QED BY <1>3, <1>5, <1>8, <2>1, BothFinite DEF Few
<1> QED BY <1>1, <1>3, <1>5, <1>6, <1>7, <1>9 DEF IsDead

LEMMA PanesOfTab ==
  ASSUME NEW m, Registered(m), NEW tabs, NEW t \in Tab, NEW P \in SUBSET Pane,
         tabs = [x \in DOMAIN m.tabs \cup {t} |-> IF x = t THEN P ELSE m.tabs[x]]
  PROVE  LET n == [m EXCEPT !.tabs = tabs]
         IN  /\ Registered(n) /\ n.windows = m.windows /\ n.tabs = tabs
             /\ InTabs(n) \subseteq InTabs(m) \cup P /\ SamePanes(m, n)
<1>1. DOMAIN tabs \subseteq Tab /\ \A x \in DOMAIN tabs : tabs[x] \in SUBSET Pane
  BY Parts DEF Registered
<1>2. tabs \in Partial(Tab, SUBSET Pane)
  <2>1. tabs \in [DOMAIN tabs -> SUBSET Pane]
    BY <1>1
  <2> QED BY <1>1, <2>1, PartialFunctions
<1>3. PICK n : n = [m EXCEPT !.tabs = tabs]
  OBVIOUS
<1>4. /\ n \in MuxStates /\ n.windows = m.windows /\ n.tabs = tabs /\ SamePanes(m, n)
  BY <1>2, <1>3 DEF Registered, MuxStates, SamePanes
<1>5. DOMAIN m.tabs \subseteq DOMAIN tabs
  OBVIOUS
<1>6. Registered(n)
  BY <1>4, <1>5 DEF Registered, SamePanes
<1>7. InTabs(n) \subseteq InTabs(m) \cup P
  BY <1>4 DEF InTabs, PanesInTabs
<1> QED BY <1>3, <1>4, <1>6, <1>7

LEMMA TabRegistered ==
  ASSUME NEW m, Registered(m), NEW t \in Tab, NEW P \in SUBSET Pane
  PROVE  LET n == WithTab(m, t, P)
         IN  /\ Registered(n) /\ (Few(m) /\ IsFiniteSet(P) => Few(n))
             /\ n.windows = m.windows /\ DOMAIN n.tabs = DOMAIN m.tabs \cup {t}
             /\ SamePanes(m, n)
<1>1. PICK tabs, n : /\ tabs = [x \in DOMAIN m.tabs \cup {t} |-> IF x = t THEN P ELSE m.tabs[x]]
                     /\ n = [m EXCEPT !.tabs = tabs]
  OBVIOUS
<1>2. n = WithTab(m, t, P)
  BY <1>1 DEF WithTab
<1>3. /\ Registered(n) /\ n.windows = m.windows /\ n.tabs = tabs
      /\ InTabs(n) \subseteq InTabs(m) \cup P /\ SamePanes(m, n)
  BY <1>1, PanesOfTab
<1>4. ASSUME Few(m), IsFiniteSet(P) PROVE Few(n)
  <2>1. IsFiniteSet(DOMAIN m.tabs \cup {t})
    BY <1>4, FS_Singleton, BothFinite DEF Few
  <2>2. IsFiniteSet(InTabs(n))
    BY <1>3, <1>4, BothFinite, SmallerIsFinite DEF Few
  <2> QED BY <1>1, <1>3, <1>4, <2>1, <2>2 DEF Few, SamePanes
<1> QED BY <1>1, <1>2, <1>3, <1>4

LEMMA TabReplaced ==
  ASSUME NEW m, Registered(m), NEW t \in DOMAIN m.tabs, NEW P \in SUBSET Pane
  PROVE  LET n == [m EXCEPT !.tabs[t] = P]
         IN  /\ Registered(n) /\ (Few(m) /\ IsFiniteSet(P) => Few(n))
             /\ n.windows = m.windows /\ DOMAIN n.tabs = DOMAIN m.tabs
             /\ InTabs(n) \subseteq InTabs(m) \cup P /\ SamePanes(m, n)
<1>1. PICK tabs, n : /\ tabs = [x \in DOMAIN m.tabs \cup {t} |-> IF x = t THEN P ELSE m.tabs[x]]
                     /\ n = [m EXCEPT !.tabs = tabs]
  OBVIOUS
<1>2. t \in Tab /\ tabs = [m.tabs EXCEPT ![t] = P]
  BY <1>1, Parts DEF Registered
<1>3. n = [m EXCEPT !.tabs[t] = P]
  BY <1>1, <1>2
<1>4. /\ Registered(n) /\ n.windows = m.windows /\ n.tabs = tabs
      /\ InTabs(n) \subseteq InTabs(m) \cup P /\ SamePanes(m, n)
  BY <1>1, <1>2, PanesOfTab
<1>5. ASSUME Few(m), IsFiniteSet(P) PROVE Few(n)
  <2>1. IsFiniteSet(DOMAIN tabs)
    BY <1>1, <1>5 DEF Few
  <2>2. IsFiniteSet(InTabs(n))
    BY <1>4, <1>5, BothFinite, SmallerIsFinite DEF Few
  <2> QED BY <1>4, <1>5, <2>1, <2>2 DEF Few, SamePanes
<1> QED BY <1>1, <1>3, <1>4, <1>5

LEMMA WindowsReplaced ==
  ASSUME NEW m, Registered(m), NEW windows, NEW n, n = [m EXCEPT !.windows = windows],
         windows = [w \in DOMAIN windows |-> windows[w]],
         \A w \in DOMAIN windows :
           /\ w \in Window /\ windows[w] \in Windows(Tab) /\ Sound(windows[w])
           /\ TabsOf(windows[w]) \subseteq DOMAIN m.tabs
  PROVE  /\ Registered(n) /\ (Few(m) /\ IsFiniteSet(DOMAIN windows) => Few(n))
         /\ n.windows = windows /\ n.tabs = m.tabs /\ SamePanes(m, n)
<1>1. windows \in Partial(Window, Windows(Tab))
  BY PartialFunctions
<1>2. n \in MuxStates /\ n.windows = windows /\ n.tabs = m.tabs /\ SamePanes(m, n)
  BY <1>1 DEF Registered, MuxStates, SamePanes
<1>3. Registered(n)
  BY <1>2 DEF Registered, SamePanes
<1>4. InTabs(n) = InTabs(m)
  BY <1>2 DEF InTabs, PanesInTabs
<1> QED BY <1>2, <1>3, <1>4 DEF Few, SamePanes

LEMMA WindowRegistered ==
  ASSUME NEW m, Registered(m), NEW w \in Window \ DOMAIN m.windows
  PROVE  LET n == WithWindow(m, w)
         IN  /\ Registered(n) /\ (Few(m) => Few(n)) /\ n.tabs = m.tabs
             /\ DOMAIN n.windows = DOMAIN m.windows \cup {w}
             /\ TabsOf(n.windows[w]) = {} /\ SamePanes(m, n)
<1>1. EmptyWindow \in Windows(Tab) /\ Sound(EmptyWindow) /\ TabsOf(EmptyWindow) = {}
  <2>1. <<>> \in Seq(Tab) /\ IsInjective(<<>>)
    BY EmptySeq DEF IsInjective
  <2>2. ToSet(<<>>) = {}
    BY <2>1, SetOfSeq
  <2> QED BY <2>1, <2>2 DEF EmptyWindow, Windows, Sound, TabsOf
<1>2. PICK windows, n :
        /\ windows = [x \in DOMAIN m.windows \cup {w} |-> IF x = w THEN EmptyWindow ELSE m.windows[x]]
        /\ n = [m EXCEPT !.windows = windows]
  OBVIOUS
<1>3. n = WithWindow(m, w)
  BY <1>2 DEF WithWindow
<1>4. ASSUME NEW x \in DOMAIN windows
      PROVE  /\ x \in Window /\ windows[x] \in Windows(Tab) /\ Sound(windows[x])
             /\ TabsOf(windows[x]) \subseteq DOMAIN m.tabs
  <2>1. CASE x = w
    BY <1>1, <1>2, <2>1
  <2>2. CASE x # w
    <3>1. x \in DOMAIN m.windows /\ windows[x] = m.windows[x]
      BY <1>2, <2>2
    <3> QED BY <3>1, Parts DEF Registered
  <2> QED BY <2>1, <2>2
<1>5. windows = [x \in DOMAIN windows |-> windows[x]]
  BY <1>2
<1>6. /\ Registered(n) /\ (Few(m) /\ IsFiniteSet(DOMAIN windows) => Few(n))
      /\ n.windows = windows /\ n.tabs = m.tabs /\ SamePanes(m, n)
  BY <1>2, <1>4, <1>5, WindowsReplaced
<1>7. Few(m) => IsFiniteSet(DOMAIN windows)
  BY <1>2, FS_Singleton, BothFinite DEF Few
<1>8. windows[w] = EmptyWindow /\ DOMAIN windows = DOMAIN m.windows \cup {w}
  BY <1>2
<1> QED BY <1>1, <1>3, <1>6, <1>7, <1>8

LEMMA ListReplaced ==
  ASSUME NEW m, Registered(m), NEW w \in DOMAIN m.windows,
         NEW list \in Windows(Tab), Sound(list), TabsOf(list) \subseteq DOMAIN m.tabs
  PROVE  LET n == [m EXCEPT !.windows[w] = list]
         IN  /\ Registered(n) /\ (Few(m) => Few(n)) /\ n.tabs = m.tabs
             /\ DOMAIN n.windows = DOMAIN m.windows /\ n.windows[w] = list
             /\ SamePanes(m, n)
<1>1. PICK windows, n : /\ windows = [m.windows EXCEPT ![w] = list]
                        /\ n = [m EXCEPT !.windows = windows]
  OBVIOUS
<1>2. n = [m EXCEPT !.windows[w] = list]
  BY <1>1
<1>3. /\ DOMAIN windows = DOMAIN m.windows /\ windows[w] = list
      /\ \A x \in DOMAIN windows : x # w => windows[x] = m.windows[x]
      /\ windows = [x \in DOMAIN windows |-> windows[x]]
  BY <1>1
<1>4. ASSUME NEW x \in DOMAIN windows
      PROVE  /\ x \in Window /\ windows[x] \in Windows(Tab) /\ Sound(windows[x])
             /\ TabsOf(windows[x]) \subseteq DOMAIN m.tabs
  <2>1. x \in Window /\ m.windows[x] \in Windows(Tab)
    BY <1>3, Parts DEF Registered
  <2>2. Sound(m.windows[x]) /\ TabsOf(m.windows[x]) \subseteq DOMAIN m.tabs
    BY <1>3 DEF Registered
  <2> QED BY <1>3, <2>1, <2>2
<1>5. /\ Registered(n) /\ (Few(m) /\ IsFiniteSet(DOMAIN windows) => Few(n))
      /\ n.windows = windows /\ n.tabs = m.tabs /\ SamePanes(m, n)
  BY <1>1, <1>3, <1>4, WindowsReplaced
<1> QED BY <1>2, <1>3, <1>5 DEF Few

LEMMA TabPlaced ==
  ASSUME NEW m, Registered(m), NEW w \in DOMAIN m.windows, NEW t \in DOMAIN m.tabs,
         t \notin TabsOf(m.windows[w])
  PROVE  LET n == AddTabToWindow(m, t, w)
         IN  /\ Registered(n) /\ (Few(m) => Few(n)) /\ n.tabs = m.tabs
             /\ DOMAIN n.windows = DOMAIN m.windows
             /\ TabsOf(n.windows[w]) = TabsOf(m.windows[w]) \cup {t}
             /\ SamePanes(m, n)
<1>1. PICK list, n : list = Push(m.windows[w], t) /\ n = AddTabToWindow(m, t, w)
  OBVIOUS
<1>2. /\ m.windows[w] \in Windows(Tab) /\ Sound(m.windows[w]) /\ t \in Tab
      /\ TabsOf(m.windows[w]) \subseteq DOMAIN m.tabs
  BY Parts DEF Registered
<1>3. list \in Windows(Tab) /\ Sound(list) /\ TabsOf(list) = TabsOf(m.windows[w]) \cup {t}
  BY <1>1, <1>2, TabPushed, MuxAssumption
<1>4. n = [m EXCEPT !.windows[w] = list]
  BY <1>1 DEF AddTabToWindow
<1> QED BY <1>1, <1>2, <1>3, <1>4, ListReplaced

LEMMA TabShown ==
  ASSUME NEW m, Registered(m), NEW w \in DOMAIN m.windows, NEW t \in TabsOf(m.windows[w])
  PROVE  LET n == ActivateAt(m, w, PositionIn(m.windows[w].tabs, t))
         IN  /\ Registered(n) /\ (Few(m) => Few(n)) /\ n.tabs = m.tabs
             /\ DOMAIN n.windows = DOMAIN m.windows /\ SamePanes(m, n)
<1>1. PICK i, list, n : /\ i = PositionIn(m.windows[w].tabs, t)
                        /\ list = SaveThenActivate(m.windows[w], i)
                        /\ n = ActivateAt(m, w, i)
  OBVIOUS
<1>2. /\ m.windows[w] \in Windows(Tab) /\ Sound(m.windows[w])
      /\ TabsOf(m.windows[w]) \subseteq DOMAIN m.tabs
  BY Parts DEF Registered
<1>3. i \in 0 .. Len(m.windows[w].tabs) - 1
  BY <1>1, <1>2, Found DEF Windows, TabsOf
<1>4. list \in Windows(Tab) /\ Sound(list) /\ TabsOf(list) = TabsOf(m.windows[w])
  BY <1>1, <1>2, <1>3, TabActivated, MuxAssumption DEF TabsOf
<1>5. n = [m EXCEPT !.windows[w] = list]
  BY <1>1 DEF ActivateAt
<1> QED BY <1>1, <1>2, <1>4, <1>5, ListReplaced

-----------------------------------------------------------------------------
(* The client's view: the registries and the maps.                         *)
Clients ==
  [attached : BOOLEAN, window : Partial(Nat, Window), tab : Partial(Nat, Tab),
   pane : Partial(Nat, Pane), image : Partial(Pane, Nat), panicked : BOOLEAN]

Views == [mux : MuxStates, client : Clients]

(* The view v of a server that handed out N ids.  Every pane of the mux is *)
(* an image, of a remote pane that has no other, and the map leads to it;  *)
(* where the map leads to a pane that is gone, there is no image.          *)
Mirrors(v, N) ==
  /\ v \in Views /\ Registered(v.mux) /\ Few(v.mux)
  /\ DOMAIN v.client.pane \subseteq 1 .. N /\ DOMAIN v.client.tab \subseteq 1 .. N
  /\ DOMAIN v.client.window \subseteq 1 .. N
  /\ \A p \in DOMAIN v.client.image : v.client.image[p] \in 1 .. N
  /\ v.mux.panes \subseteq DOMAIN v.client.image
  /\ IsInjective(v.client.image) /\ IsInjective(v.client.tab)
  /\ \A r \in DOMAIN v.client.pane :
       IF v.client.pane[r] \in v.mux.panes THEN v.client.image[v.client.pane[r]] = r
       ELSE \A p \in v.mux.panes : v.client.image[p] # r

(* The images are those of the panes in the mux, no others. *)
Exact(v) == DOMAIN v.client.image = v.mux.panes

(* The remote panes the view knows of. *)
Known(v) == DOMAIN v.client.pane \cup {v.client.image[p] : p \in v.mux.panes}

LEMMA MappedIn ==
  ASSUME NEW S, NEW T, NEW f, f \in Partial(S, T), NEW x, x \in S, NEW y, y \in T
  PROVE  Mapped(f, x, y) \in Partial(S, T)
<1>1. PICK g : g = [z \in DOMAIN f \cup {x} |-> IF z = x THEN y ELSE f[z]]
  OBVIOUS
<1>2. g = Mapped(f, x, y)
  BY <1>1 DEF Mapped
<1>3. f \in [DOMAIN f -> T] /\ DOMAIN f \subseteq S
  BY PartialFunctions
<1>4. g \in [DOMAIN g -> T] /\ DOMAIN g \subseteq S
  BY <1>1, <1>3
<1> QED BY <1>2, <1>4, PartialFunctions

LEMMA RestrictedIs ==
  ASSUME NEW S, NEW T, NEW f \in Partial(S, T), NEW D \in SUBSET DOMAIN f
  PROVE  LET g == Restrict(f, D)
         IN  /\ g \in Partial(S, T) /\ DOMAIN g = D
             /\ \A z \in D : g[z] = f[z]
<1>1. PICK g : g = [z \in D |-> f[z]]
  OBVIOUS
<1>2. g = Restrict(f, D)
  BY <1>1 DEF Restrict
<1>3. f \in [DOMAIN f -> T] /\ DOMAIN f \subseteq S
  BY PartialFunctions
<1>4. g \in [DOMAIN g -> T] /\ DOMAIN g \subseteq S
  BY <1>1, <1>3
<1>5. g \in Partial(S, T)
  BY <1>4, PartialFunctions
<1> QED BY <1>1, <1>2, <1>5

LEMMA MapsFinite ==
  ASSUME NEW S, NEW f, IsFiniteSet(S), DOMAIN f \subseteq S
  PROVE  IsFiniteSet(DOMAIN f) /\ IsFiniteSet(Range(f))
<1>1. IsFiniteSet(DOMAIN f)
  BY SmallerIsFinite
<1>2. IsFiniteSet({f[x] : x \in DOMAIN f})
  BY <1>1, ImageFinite
<1> QED BY <1>1, <1>2 DEF Range

LEMMA UpToIsFinite ==
  ASSUME NEW N \in Nat PROVE IsFiniteSet(1 .. N)
BY FS_Interval

LEMMA ClientParts ==
  ASSUME NEW v \in Views
  PROVE  /\ v = [mux |-> v.mux, client |-> v.client]
         /\ v.mux \in MuxStates /\ v.client \in Clients
         /\ v.client.attached \in BOOLEAN /\ v.client.panicked \in BOOLEAN
         /\ v.client.window \in Partial(Nat, Window)
         /\ v.client.tab \in Partial(Nat, Tab)
         /\ v.client.pane \in Partial(Nat, Pane)
         /\ v.client.image \in Partial(Pane, Nat)
         /\ \A r \in DOMAIN v.client.window : v.client.window[r] \in Window
         /\ \A r \in DOMAIN v.client.tab : v.client.tab[r] \in Tab
         /\ \A r \in DOMAIN v.client.pane : v.client.pane[r] \in Pane
         /\ DOMAIN v.client.image \subseteq Pane
<1>1. /\ v = [mux |-> v.mux, client |-> v.client]
      /\ v.mux \in MuxStates /\ v.client \in Clients
  BY DEF Views
<1>2. /\ v.client.attached \in BOOLEAN /\ v.client.panicked \in BOOLEAN
      /\ v.client.window \in Partial(Nat, Window)
      /\ v.client.tab \in Partial(Nat, Tab)
      /\ v.client.pane \in Partial(Nat, Pane)
      /\ v.client.image \in Partial(Pane, Nat)
  BY <1>1 DEF Clients
<1>3. /\ \A r \in DOMAIN v.client.window : v.client.window[r] \in Window
      /\ \A r \in DOMAIN v.client.tab : v.client.tab[r] \in Tab
      /\ \A r \in DOMAIN v.client.pane : v.client.pane[r] \in Pane
      /\ DOMAIN v.client.image \subseteq Pane
  BY <1>2, PartialFunctions
<1> QED BY <1>1, <1>2, <1>3

(* The view [mux |-> m, client |-> c], c given by its parts. *)
LEMMA ViewOf ==
  ASSUME NEW m \in MuxStates, NEW c \in Clients
  PROVE  LET v == [mux |-> m, client |-> c]
         IN  v \in Views /\ v.mux = m /\ v.client = c
BY DEF Views

LEMMA PaneMapped ==
  ASSUME NEW c \in Clients, NEW f \in Partial(Nat, Pane)
  PROVE  LET d == [c EXCEPT !.pane = f]
         IN  /\ d \in Clients /\ d.pane = f /\ d.tab = c.tab /\ d.window = c.window
             /\ d.image = c.image /\ d.attached = c.attached /\ d.panicked = c.panicked
BY DEF Clients

LEMMA TabMapped ==
  ASSUME NEW c \in Clients, NEW f \in Partial(Nat, Tab)
  PROVE  LET d == [c EXCEPT !.tab = f]
         IN  /\ d \in Clients /\ d.pane = c.pane /\ d.tab = f /\ d.window = c.window
             /\ d.image = c.image /\ d.attached = c.attached /\ d.panicked = c.panicked
BY DEF Clients

LEMMA WindowMapped ==
  ASSUME NEW c \in Clients, NEW f \in Partial(Nat, Window)
  PROVE  LET d == [c EXCEPT !.window = f]
         IN  /\ d \in Clients /\ d.pane = c.pane /\ d.tab = c.tab /\ d.window = f
             /\ d.image = c.image /\ d.attached = c.attached /\ d.panicked = c.panicked
BY DEF Clients

LEMMA ImageMapped ==
  ASSUME NEW c \in Clients, NEW f \in Partial(Pane, Nat)
  PROVE  LET d == [c EXCEPT !.image = f]
         IN  /\ d \in Clients /\ d.pane = c.pane /\ d.tab = c.tab /\ d.window = c.window
             /\ d.image = f /\ d.attached = c.attached /\ d.panicked = c.panicked
BY DEF Clients

-----------------------------------------------------------------------------
(* Ids that nothing refers to.                                             *)

FewUnderWay == IsFiniteSet(SplitsUnderWay) /\ IsFiniteSet(opening)

LEMMA FreshIs ==
  ASSUME NEW S, ~ IsFiniteSet(S), NEW T, IsFiniteSet(T), NEW wish
  PROVE  Fresh(S \ T, wish) \in S /\ Fresh(S \ T, wish) \notin T
<1>1. \E x : x \in S \ T
  BY SomethingLeft
<1> QED BY <1>1 DEF Fresh

LEMMA FreshPaneIs ==
  ASSUME EndlessIds, FewUnderWay, NEW N \in Nat, NEW v, Mirrors(v, N), NEW r
  PROVE  LET p == FreshPane(v, r)
         IN  /\ p \in Pane /\ p \notin v.mux.panes /\ p \notin v.mux.removing
             /\ \A s \in DOMAIN v.client.pane : v.client.pane[s] # p
<1>1. PICK T : T = v.mux.panes \cup v.mux.removing \cup Range(v.client.pane)
                     \cup PanesInTabs(v.mux, DOMAIN v.mux.tabs)
                     \cup {m.target : m \in SplitsUnderWay}
  OBVIOUS
<1>2. IsFiniteSet({m.target : m \in SplitsUnderWay})
  <2>1. PICK f : f = [m \in SplitsUnderWay |-> m.target]
    OBVIOUS
  <2>2. IsFiniteSet({f[m] : m \in DOMAIN f})
    BY <2>1, ImageFinite DEF FewUnderWay
  <2>3. {f[m] : m \in DOMAIN f} = {m.target : m \in SplitsUnderWay}
    BY <2>1
  <2> QED BY <2>2, <2>3
<1>3. IsFiniteSet(Range(v.client.pane))
  BY UpToIsFinite, MapsFinite DEF Mirrors
<1>4. /\ IsFiniteSet(v.mux.panes) /\ IsFiniteSet(v.mux.removing)
      /\ IsFiniteSet(PanesInTabs(v.mux, DOMAIN v.mux.tabs))
  BY DEF Mirrors, Few, InTabs
<1>5. IsFiniteSet(T)
  <2>1. IsFiniteSet(v.mux.panes \cup v.mux.removing)
    BY <1>4, BothFinite
  <2>2. IsFiniteSet(v.mux.panes \cup v.mux.removing \cup Range(v.client.pane))
    BY <1>3, <2>1, BothFinite
  <2>3. IsFiniteSet(v.mux.panes \cup v.mux.removing \cup Range(v.client.pane)
                      \cup PanesInTabs(v.mux, DOMAIN v.mux.tabs))
    BY <1>4, <2>2, BothFinite
  <2> QED BY <1>1, <1>2, <2>3, BothFinite
<1>6. PICK p : p = FreshPane(v, r)
  OBVIOUS
<1>7. p = Fresh(Pane \ T, r)
  BY <1>1, <1>6 DEF FreshPane
<1>8. p \in Pane /\ p \notin T
  BY <1>5, <1>7, FreshIs DEF EndlessIds
<1>9. \A s \in DOMAIN v.client.pane : v.client.pane[s] \in Range(v.client.pane)
  BY DEF Range
<1> QED BY <1>1, <1>6, <1>8, <1>9

LEMMA FreshTabIs ==
  ASSUME EndlessIds, FewUnderWay, NEW N \in Nat, NEW v, Mirrors(v, N), NEW rt
  PROVE  LET t == FreshTab(v, rt)
         IN  /\ t \in Tab /\ t \notin DOMAIN v.mux.tabs
             /\ \A s \in DOMAIN v.client.tab : v.client.tab[s] # t
<1>1. PICK T, lasts, split :
        /\ lasts = {v.mux.windows[w].last : w \in DOMAIN v.mux.windows}
        /\ split = {m.tab : m \in SplitsUnderWay}
        /\ T = DOMAIN v.mux.tabs \cup Range(v.client.tab) \cup lasts \cup split
  OBVIOUS
<1>2. IsFiniteSet(split)
  <2>1. PICK f : f = [m \in SplitsUnderWay |-> m.tab]
    OBVIOUS
  <2>2. IsFiniteSet({f[m] : m \in DOMAIN f})
    BY <2>1, ImageFinite DEF FewUnderWay
  <2>3. {f[m] : m \in DOMAIN f} = split
    BY <1>1, <2>1
  <2> QED BY <2>2, <2>3
<1>3. IsFiniteSet(lasts)
  <2>1. PICK f : f = [w \in DOMAIN v.mux.windows |-> v.mux.windows[w].last]
    OBVIOUS
  <2>2. IsFiniteSet({f[w] : w \in DOMAIN f})
    BY <2>1, ImageFinite DEF Mirrors, Few
  <2>3. {f[w] : w \in DOMAIN f} = lasts
    BY <1>1, <2>1
  <2> QED BY <2>2, <2>3
<1>4. IsFiniteSet(Range(v.client.tab)) /\ IsFiniteSet(DOMAIN v.mux.tabs)
  BY UpToIsFinite, MapsFinite DEF Mirrors, Few
<1>5. IsFiniteSet(T)
  <2>1. IsFiniteSet(DOMAIN v.mux.tabs \cup Range(v.client.tab))
    BY <1>4, BothFinite
  <2>2. IsFiniteSet(DOMAIN v.mux.tabs \cup Range(v.client.tab) \cup lasts)
    BY <1>3, <2>1, BothFinite
  <2> QED BY <1>1, <1>2, <2>2, BothFinite
<1>6. PICK t : t = FreshTab(v, rt)
  OBVIOUS
<1>7. t = Fresh(Tab \ T, rt)
  BY <1>1, <1>6 DEF FreshTab
<1>8. t \in Tab /\ t \notin T
  BY <1>5, <1>7, FreshIs DEF EndlessIds
<1>9. \A s \in DOMAIN v.client.tab : v.client.tab[s] \in Range(v.client.tab)
  BY DEF Range
<1> QED BY <1>1, <1>6, <1>8, <1>9

LEMMA FreshWindowIs ==
  ASSUME EndlessIds, FewUnderWay, NEW N \in Nat, NEW v, Mirrors(v, N), NEW rw
  PROVE  FreshWindow(v, rw) \in Window \ DOMAIN v.mux.windows
<1>1. PICK T : T = DOMAIN v.mux.windows \cup Range(v.client.window) \cup opening
  OBVIOUS
<1>2. IsFiniteSet(Range(v.client.window)) /\ IsFiniteSet(DOMAIN v.mux.windows)
  BY UpToIsFinite, MapsFinite DEF Mirrors, Few
<1>3. IsFiniteSet(T)
  <2>1. IsFiniteSet(DOMAIN v.mux.windows \cup Range(v.client.window))
    BY <1>2, BothFinite
  <2> QED BY <1>1, <2>1, BothFinite DEF FewUnderWay
<1>4. PICK w : w = FreshWindow(v, rw)
  OBVIOUS
<1>5. w = Fresh(Window \ T, rw)
  BY <1>1, <1>4 DEF FreshWindow
<1>6. w \in Window /\ w \notin T
  BY <1>3, <1>5, FreshIs DEF EndlessIds
<1> QED BY <1>1, <1>4, <1>6

-----------------------------------------------------------------------------
(* Steps that add to the mirror.                                           *)

(* From v to n, nothing is lost, and the panes that are new are images of  *)
(* those of R.                                                             *)
Grows(v, n, R) ==
  /\ v.mux.panes \subseteq n.mux.panes /\ n.mux.removing = v.mux.removing
  /\ n.client.attached = v.client.attached
  /\ \A p \in v.mux.panes :
       /\ n.client.image[p] = v.client.image[p]
       /\ IsDead(n.mux, p) => IsDead(v.mux, p)
  /\ \A p \in n.mux.panes \ v.mux.panes :
       p \notin n.mux.removing /\ ~ IsDead(n.mux, p) /\ n.client.image[p] \in R
  /\ DOMAIN n.client.pane \subseteq Known(v) \cup R

HasImage(v, r) == \E p \in v.mux.panes : v.client.image[p] = r

(* No tab and no window is concerned. *)
SameTabs(v, n) ==
  /\ n.mux.windows = v.mux.windows /\ n.mux.tabs = v.mux.tabs
  /\ n.client.tab = v.client.tab /\ n.client.window = v.client.window
  /\ n.client.panicked = v.client.panicked

LEMMA GrowsNot ==
  ASSUME NEW v, NEW R
  PROVE  Grows(v, v, R)
BY DEF Grows, Known

LEMMA KnownGrows ==
  ASSUME NEW v, NEW n, NEW R, Grows(v, n, R)
  PROVE  Known(n) \subseteq Known(v) \cup R
<1>1. ASSUME NEW p \in n.mux.panes PROVE n.client.image[p] \in Known(v) \cup R
  BY DEF Grows, Known
<1> QED BY <1>1 DEF Grows, Known

LEMMA GrowsMore ==
  ASSUME NEW v, NEW n, NEW o, NEW Q, NEW R, Grows(v, n, Q), Grows(n, o, R)
  PROVE  Grows(v, o, Q \cup R)
<1>1. Known(n) \subseteq Known(v) \cup Q
  BY KnownGrows
<1>2. \A p \in v.mux.panes :
        /\ p \in o.mux.panes /\ o.client.image[p] = v.client.image[p]
        /\ IsDead(o.mux, p) => IsDead(v.mux, p)
  BY DEF Grows
<1>3. ASSUME NEW p \in o.mux.panes \ v.mux.panes
      PROVE  p \notin o.mux.removing /\ ~ IsDead(o.mux, p) /\ o.client.image[p] \in Q \cup R
  <2>1. CASE p \in n.mux.panes
    BY <2>1 DEF Grows
  <2>2. CASE p \notin n.mux.panes
    BY <2>2 DEF Grows
  <2> QED BY <2>1, <2>2
<1>4. /\ o.mux.removing = v.mux.removing /\ o.client.attached = v.client.attached
      /\ DOMAIN o.client.pane \subseteq Known(n) \cup R
  BY DEF Grows
<1> QED BY <1>1, <1>2, <1>3, <1>4 DEF Grows

LEMMA GrowsWithin ==
  ASSUME NEW v, NEW n, NEW Q, NEW R, Grows(v, n, Q), Q \subseteq R
  PROVE  Grows(v, n, R)
BY DEF Grows

LEMMA ImageMade ==
  ASSUME NEW N \in Nat, NEW v, Mirrors(v, N), Exact(v),
         NEW p \in Pane, p \notin v.mux.panes, p \notin v.mux.removing,
         \A s \in DOMAIN v.client.pane : v.client.pane[s] # p,
         NEW r \in 1 .. N, r \notin Known(v)
  PROVE  LET n == WithImage(v, p, r)
         IN  /\ Mirrors(n, N) /\ Exact(n) /\ Grows(v, n, {r}) /\ SameTabs(v, n)
             /\ p \in n.mux.panes /\ n.client.image[p] = r
             /\ n.client.pane = v.client.pane
<1>1. PICK m, image, c, n :
        /\ m = WithChild(v.mux, p) /\ image = Mapped(v.client.image, p, r)
        /\ c = [v.client EXCEPT !.image = image] /\ n = [mux |-> m, client |-> c]
  OBVIOUS
<1>2. n = WithImage(v, p, r)
  BY <1>1 DEF WithImage
<1>3. v \in Views /\ Registered(v.mux) /\ Few(v.mux)
  BY DEF Mirrors
<1>4. /\ Registered(m) /\ Few(m) /\ m \in MuxStates
      /\ m.windows = v.mux.windows /\ m.tabs = v.mux.tabs
      /\ m.panes = v.mux.panes \cup {p} /\ m.removing = v.mux.removing
      /\ \A q \in Pane : IsDead(m, q) <=> q # p /\ IsDead(v.mux, q)
  BY <1>1, <1>3, ChildRegistered DEF Registered
<1>5. /\ image \in Partial(Pane, Nat) /\ DOMAIN image = DOMAIN v.client.image \cup {p}
      /\ image[p] = r /\ \A q \in DOMAIN v.client.image : q # p => image[q] = v.client.image[q]
  <2>1. v.client.image \in Partial(Pane, Nat) /\ r \in Nat
    BY <1>3, ClientParts
  <2>2. image \in Partial(Pane, Nat)
    BY <1>1, <2>1, MappedIn
  <2> QED BY <1>1, <2>2 DEF Mapped
<1>6. /\ c \in Clients /\ c.pane = v.client.pane /\ c.tab = v.client.tab
      /\ c.window = v.client.window /\ c.image = image
      /\ c.attached = v.client.attached /\ c.panicked = v.client.panicked
  BY <1>1, <1>3, <1>5, ClientParts, ImageMapped
<1>7. n \in Views /\ n.mux = m /\ n.client = c
  BY <1>1, <1>4, <1>6, ViewOf
<1>8. /\ DOMAIN v.client.image = v.mux.panes
      /\ \A q \in v.mux.panes : v.client.image[q] # r
      /\ r \notin DOMAIN v.client.pane
  BY DEF Exact, Known
<1>9. DOMAIN image = m.panes /\ \A q \in v.mux.panes : image[q] = v.client.image[q]
  BY <1>4, <1>5, <1>8
<1>10. \A q \in m.panes : image[q] \in 1 .. N
  BY <1>4, <1>5, <1>8, <1>9 DEF Mirrors
<1>11. IsInjective(image)
  <2>1. IsInjective(v.client.image)
    BY DEF Mirrors
  <2> QED BY <1>4, <1>5, <1>8, <1>9, <2>1 DEF IsInjective
<1>12. ASSUME NEW s \in DOMAIN c.pane
       PROVE  IF c.pane[s] \in m.panes THEN image[c.pane[s]] = s
              ELSE \A q \in m.panes : image[q] # s
  <2>1. s # r /\ c.pane[s] # p /\ s \in DOMAIN v.client.pane /\ c.pane[s] = v.client.pane[s]
    BY <1>6, <1>8
  <2>2. IF v.client.pane[s] \in v.mux.panes THEN v.client.image[v.client.pane[s]] = s
        ELSE \A q \in v.mux.panes : v.client.image[q] # s
    BY <2>1 DEF Mirrors
  <2> QED BY <1>4, <1>5, <1>9, <2>1, <2>2
<1>13. Mirrors(n, N)
  <2>1. IsInjective(c.tab)
    BY <1>6 DEF Mirrors
  <2>2. /\ DOMAIN c.pane \subseteq 1 .. N /\ DOMAIN c.tab \subseteq 1 .. N
        /\ DOMAIN c.window \subseteq 1 .. N
    BY <1>6 DEF Mirrors
  <2> QED BY <1>4, <1>6, <1>7, <1>9, <1>10, <1>11, <1>12, <2>1, <2>2 DEF Mirrors
<1>14. Exact(n)
  BY <1>6, <1>7, <1>9 DEF Exact
<1>15. Grows(v, n, {r})
  <2>1. v.mux.panes \subseteq Pane
    BY <1>3, Parts DEF Registered
  <2> QED BY <1>4, <1>5, <1>6, <1>7, <1>9, <2>1 DEF Grows, Known
<1>16. SameTabs(v, n)
  BY <1>4, <1>6, <1>7 DEF SameTabs
<1> QED BY <1>2, <1>4, <1>5, <1>6, <1>7, <1>13, <1>14, <1>15, <1>16

(* The map of panes becomes f, whose entries are right. *)
LEMMA PaneMapSet ==
  ASSUME NEW N \in Nat, NEW v, Mirrors(v, N), NEW f \in Partial(Nat, Pane),
         DOMAIN f \subseteq 1 .. N,
         \A r \in DOMAIN f :
           IF f[r] \in v.mux.panes THEN v.client.image[f[r]] = r
           ELSE \A p \in v.mux.panes : v.client.image[p] # r
  PROVE  LET n == [v EXCEPT !.client.pane = f]
         IN  /\ Mirrors(n, N) /\ n.mux = v.mux /\ SameTabs(v, n)
             /\ n.client.pane = f /\ n.client.image = v.client.image
             /\ n.client.attached = v.client.attached
<1>1. PICK c, n : c = [v.client EXCEPT !.pane = f] /\ n = [mux |-> v.mux, client |-> c]
  OBVIOUS
<1>2. v \in Views
  BY DEF Mirrors
<1>3. n = [v EXCEPT !.client.pane = f]
  BY <1>1, <1>2 DEF Views
<1>4. /\ c \in Clients /\ c.pane = f /\ c.tab = v.client.tab
      /\ c.window = v.client.window /\ c.image = v.client.image
      /\ c.attached = v.client.attached /\ c.panicked = v.client.panicked
  BY <1>1, <1>2, ClientParts, PaneMapped
<1>5. n \in Views /\ n.mux = v.mux /\ n.client = c
  BY <1>1, <1>2, <1>4, ClientParts, ViewOf
<1>6. Mirrors(n, N)
  BY <1>4, <1>5 DEF Mirrors
<1> QED BY <1>3, <1>4, <1>5, <1>6 DEF SameTabs

LEMMA LookedUp ==
  ASSUME NEW N \in Nat, NEW v, Mirrors(v, N), NEW r
  PROVE  LET n == LookUp(v, r)
         IN  /\ Mirrors(n, N) /\ n.mux = v.mux /\ SameTabs(v, n)
             /\ n.client.image = v.client.image
             /\ n.client.attached = v.client.attached
             /\ DOMAIN n.client.pane \subseteq Known(v)
             /\ \A p \in v.mux.panes :
                  v.client.image[p] = r => IsMirrored(n, r) /\ n.client.pane[r] = p
<1>1. PICK images : images = {p \in v.mux.panes : v.client.image[p] = r}
  OBVIOUS
<1>2. PICK n : n = LookUp(v, r)
  OBVIOUS
<1>3. v \in Views /\ v.mux.panes \subseteq DOMAIN v.client.image /\ IsInjective(v.client.image)
  BY DEF Mirrors
<1>4. CASE r \in DOMAIN v.client.pane \/ images = {}
  <2>1. n = v
    BY <1>1, <1>2, <1>4 DEF LookUp
  <2>2. ASSUME NEW p \in v.mux.panes, v.client.image[p] = r
        PROVE  IsMirrored(n, r) /\ n.client.pane[r] = p
    <3>1. r \in DOMAIN v.client.pane
      BY <1>1, <1>4, <2>2
    <3>2. v.client.pane[r] \in v.mux.panes /\ v.client.image[v.client.pane[r]] = r
      BY <2>2, <3>1 DEF Mirrors
    <3>3. v.client.pane[r] = p
      BY <1>3, <2>2, <3>2 DEF IsInjective
    <3> QED BY <2>1, <3>1, <3>2, <3>3 DEF IsMirrored
  <2> QED BY <1>2, <2>1, <2>2 DEF SameTabs, Known
<1>5. CASE r \notin DOMAIN v.client.pane /\ images # {}
  <2>1. PICK p \in v.mux.panes : v.client.image[p] = r
    BY <1>1, <1>5
  <2>2. images = {p}
    BY <1>1, <1>3, <2>1 DEF IsInjective
  <2>3. p \in Pane /\ p \in Nat
    BY <1>3, <2>1, ClientParts, ClientDomainAssumption
  <2>4. Min(images) = p
    BY <2>2, <2>3 DEF Min
  <2>5. PICK f : f = Mapped(v.client.pane, r, p)
    OBVIOUS
  <2>6. n = [v EXCEPT !.client.pane = f]
    BY <1>1, <1>2, <1>5, <2>4, <2>5 DEF LookUp
  <2>7. r \in 1 .. N /\ r \in Nat
    BY <1>3, <2>1 DEF Mirrors
  <2>8. /\ f \in Partial(Nat, Pane) /\ DOMAIN f = DOMAIN v.client.pane \cup {r} /\ f[r] = p
        /\ \A s \in DOMAIN v.client.pane : s # r => f[s] = v.client.pane[s]
    <3>1. v.client.pane \in Partial(Nat, Pane)
      BY <1>3, ClientParts
    <3>2. f \in Partial(Nat, Pane)
      BY <2>3, <2>5, <2>7, <3>1, MappedIn
    <3> QED BY <2>5, <3>2 DEF Mapped
  <2>9. DOMAIN f \subseteq 1 .. N
    BY <2>7, <2>8 DEF Mirrors
  <2>10. ASSUME NEW s \in DOMAIN f
         PROVE  IF f[s] \in v.mux.panes THEN v.client.image[f[s]] = s
                ELSE \A q \in v.mux.panes : v.client.image[q] # s
    BY <1>5, <2>1, <2>8 DEF Mirrors
  <2>11. /\ Mirrors(n, N) /\ n.mux = v.mux /\ SameTabs(v, n)
         /\ n.client.pane = f /\ n.client.image = v.client.image
         /\ n.client.attached = v.client.attached
    BY <2>6, <2>8, <2>9, <2>10, PaneMapSet
  <2>12. ASSUME NEW q \in v.mux.panes, v.client.image[q] = r
         PROVE  IsMirrored(n, r) /\ n.client.pane[r] = q
    <3>1. q = p
      BY <1>3, <2>1, <2>12 DEF IsInjective
    <3> QED BY <2>8, <2>11, <3>1 DEF IsMirrored
  <2>13. DOMAIN f \subseteq Known(v)
    BY <2>1, <2>8 DEF Known
  <2> QED BY <1>2, <2>11, <2>12, <2>13
<1> QED BY <1>4, <1>5

LEMMA PaneMirrored ==
  ASSUME EndlessIds, FewUnderWay, NEW N \in Nat, NEW v, Mirrors(v, N), Exact(v),
         NEW r, r \in 1 .. N
  PROVE  LET n == MirrorPane(v, r)
         IN  /\ Mirrors(n, N) /\ Exact(n) /\ Grows(v, n, {r}) /\ SameTabs(v, n)
             /\ HasImage(n, r)
<1>1. PICK k, f, o, p, n :
        /\ k = LookUp(v, r) /\ f = Restrict(k.client.pane, DOMAIN k.client.pane \ {r})
        /\ o = [k EXCEPT !.client.pane = f]
        /\ p = FreshPane(o, r) /\ n = MirrorPane(v, r)
  OBVIOUS
<1>2. n = IF IsMirrored(k, r) THEN k ELSE WithImage(o, p, r)
  BY <1>1 DEF MirrorPane
<1>3. /\ Mirrors(k, N) /\ k.mux = v.mux /\ SameTabs(v, k)
      /\ k.client.image = v.client.image /\ k.client.attached = v.client.attached
      /\ DOMAIN k.client.pane \subseteq Known(v)
      /\ \A q \in v.mux.panes : v.client.image[q] = r => IsMirrored(k, r)
  BY <1>1, LookedUp
<1>4. Exact(k) /\ Grows(v, k, {r})
  BY <1>3 DEF Exact, Grows
<1>5. CASE IsMirrored(k, r)
  <2>1. k.client.pane[r] \in k.mux.panes /\ k.client.image[k.client.pane[r]] = r
    BY <1>3, <1>5 DEF IsMirrored, Mirrors
  <2> QED BY <1>1, <1>2, <1>3, <1>4, <1>5, <2>1 DEF HasImage
<1>6. CASE ~ IsMirrored(k, r)
  <2>1. k.client.pane \in Partial(Nat, Pane)
    BY <1>3, ClientParts DEF Mirrors
  <2>2. /\ f \in Partial(Nat, Pane) /\ DOMAIN f = DOMAIN k.client.pane \ {r}
        /\ \A s \in DOMAIN f : f[s] = k.client.pane[s]
    BY <1>1, <2>1, RestrictedIs
  <2>3. DOMAIN f \subseteq 1 .. N
    BY <1>3, <2>2 DEF Mirrors
  <2>4. ASSUME NEW s \in DOMAIN f
        PROVE  IF f[s] \in k.mux.panes THEN k.client.image[f[s]] = s
               ELSE \A q \in k.mux.panes : k.client.image[q] # s
    BY <1>3, <2>2 DEF Mirrors
  <2>5. /\ Mirrors(o, N) /\ o.mux = k.mux /\ SameTabs(k, o)
        /\ o.client.pane = f /\ o.client.image = k.client.image
        /\ o.client.attached = k.client.attached
    <3>1. f \in Partial(Nat, Pane) /\ Mirrors(k, N)
      BY <1>3, <2>2
    <3>2. o = [k EXCEPT !.client.pane = f]
      BY <1>1
    <3> QED BY <2>3, <2>4, <3>1, <3>2, PaneMapSet
  <2>6. r \notin Known(o)
    BY <1>3, <1>6, <2>2, <2>5 DEF Known
  <2>7. Exact(o)
    BY <1>4, <2>5 DEF Exact
  <2>8. /\ p \in Pane /\ p \notin o.mux.panes /\ p \notin o.mux.removing
        /\ \A s \in DOMAIN o.client.pane : o.client.pane[s] # p
    BY <1>1, <2>5, FreshPaneIs
  <2>9. n = WithImage(o, p, r)
    BY <1>2, <1>6
  <2>10. /\ Mirrors(n, N) /\ Exact(n) /\ Grows(o, n, {r}) /\ SameTabs(o, n)
         /\ p \in n.mux.panes /\ n.client.image[p] = r
    BY <2>5, <2>6, <2>7, <2>8, <2>9, ImageMade
  <2>11. Grows(v, o, {r})
    BY <1>3, <2>2, <2>5 DEF Grows
  <2>12. Grows(v, n, {r})
    <3>1. Grows(v, n, {r} \cup {r})
      BY <2>10, <2>11, GrowsMore
    <3> QED BY <3>1, GrowsWithin
  <2>13. SameTabs(v, n)
    BY <1>3, <2>5, <2>10 DEF SameTabs
  <2> QED BY <1>1, <2>10, <2>12, <2>13 DEF HasImage
<1> QED BY <1>5, <1>6

(* The panes of a list, one after the other. *)
AfterPanes(f, v, list, i) == IF i = 0 THEN v ELSE MirrorPane(f[i - 1], list[i])

(* The recursive definition in MirrorPanes defines a function. *)
LEMMA AfterPanesExists ==
  ASSUME NEW v, NEW list
  PROVE  \A n \in Nat : \E f : f = [i \in 0 .. n |-> AfterPanes(f, v, list, i)]
<1> DEFINE E == {n \in Nat : \E f : f = [i \in 0 .. n |-> AfterPanes(f, v, list, i)]}
<1>1. 0 \in E
  <2> DEFINE f == [i \in 0 .. 0 |-> v]
  <2>1. f = [i \in 0 .. 0 |-> AfterPanes(f, v, list, i)]
    BY DEF AfterPanes
  <2> QED BY <2>1
<1>2. ASSUME NEW n \in E
      PROVE  n + 1 \in E
  <2>1. PICK f : f = [i \in 0 .. n |-> AfterPanes(f, v, list, i)]
    OBVIOUS
  <2> DEFINE g == [i \in 0 .. n + 1 |->
                     IF i = n + 1 THEN AfterPanes(f, v, list, i) ELSE f[i]]
  <2>2. \A i \in 0 .. n : g[i] = f[i]
    OBVIOUS
  <2>3. ASSUME NEW i \in 0 .. n + 1
        PROVE  g[i] = AfterPanes(g, v, list, i)
    <3>1. i = 0 \/ i - 1 \in 0 .. n
      OBVIOUS
    <3>2. AfterPanes(g, v, list, i) = AfterPanes(f, v, list, i)
      BY <2>2, <3>1 DEF AfterPanes
    <3>3. i # n + 1 => f[i] = AfterPanes(f, v, list, i)
      <4> HIDE DEF AfterPanes
      <4>1. i # n + 1 => i \in 0 .. n
        OBVIOUS
      <4> QED BY <2>1, <4>1
    <3> QED BY <3>2, <3>3
  <2>4. g = [i \in 0 .. n + 1 |-> AfterPanes(g, v, list, i)]
    BY <2>3
  <2> HIDE DEF g
  <2> QED BY <2>4
<1> HIDE DEF E
<1>3. E \in SUBSET Nat
  BY DEF E
<1>4. E = Nat
  BY <1>1, <1>2, <1>3, Everything
<1> QED BY <1>4 DEF E

LEMMA PanesInSteps ==
  ASSUME NEW v, NEW list, Len(list) \in Nat
  PROVE  \E f : /\ f = [i \in 0 .. Len(list) |-> AfterPanes(f, v, list, i)]
                /\ MirrorPanes(v, list) = f[Len(list)]
<1> DEFINE f == CHOOSE f : f = [i \in 0 .. Len(list) |-> AfterPanes(f, v, list, i)]
<1>1. f = [i \in 0 .. Len(list) |-> AfterPanes(f, v, list, i)]
  BY AfterPanesExists
<1>2. MirrorPanes(v, list) = f[Len(list)]
  BY DEF MirrorPanes, AfterPanes
<1> QED BY <1>1, <1>2

LEMMA PanesMirrored ==
  ASSUME EndlessIds, FewUnderWay, NEW N \in Nat, NEW v, Mirrors(v, N), Exact(v),
         NEW list \in Seq(1 .. N)
  PROVE  LET n == MirrorPanes(v, list)
         IN  /\ Mirrors(n, N) /\ Exact(n) /\ Grows(v, n, ToSet(list)) /\ SameTabs(v, n)
             /\ \A i \in DOMAIN list : HasImage(n, list[i])
<1>1. Len(list) \in Nat /\ DOMAIN list = 1 .. Len(list)
  BY LenProperties
<1>2. PICK f : /\ f = [i \in 0 .. Len(list) |-> AfterPanes(f, v, list, i)]
               /\ MirrorPanes(v, list) = f[Len(list)]
  BY <1>1, PanesInSteps
<1> DEFINE Done(i) ==
             /\ Mirrors(f[i], N) /\ Exact(f[i]) /\ Grows(v, f[i], ToSet(list)) /\ SameTabs(v, f[i])
             /\ \A j \in 1 .. i : HasImage(f[i], list[j])
           I == {i \in Nat : i <= Len(list) => Done(i)}
<1>3. 0 \in I
  <2>1. f[0] = v
    BY <1>1, <1>2 DEF AfterPanes
  <2>2. Done(0)
    BY <2>1, GrowsNot DEF SameTabs
  <2> QED BY <2>2
<1>4. ASSUME NEW i \in I PROVE i + 1 \in I
  <2> SUFFICES ASSUME i + 1 <= Len(list) PROVE Done(i + 1)
    OBVIOUS
  <2>1. Done(i) /\ i \in Nat /\ i + 1 \in 1 .. Len(list)
    BY <1>1
  <2>2. PICK r, o, n : r = list[i + 1] /\ o = f[i] /\ n = f[i + 1]
    OBVIOUS
  <2>3. r \in 1 .. N /\ r \in ToSet(list)
    BY <1>1, <2>1, <2>2 DEF ToSet
  <2>4. n = MirrorPane(o, r)
    <3>1. i + 1 \in 0 .. Len(list) /\ (i + 1) - 1 = i /\ i + 1 # 0
      BY <1>1, <2>1
    <3> QED BY <1>2, <2>2, <3>1 DEF AfterPanes
  <2>5. /\ Mirrors(o, N) /\ Exact(o) /\ Grows(v, o, ToSet(list)) /\ SameTabs(v, o)
        /\ \A j \in 1 .. i : HasImage(o, list[j])
    BY <2>1, <2>2
  <2> HIDE DEF Done, I
  <2>6. /\ Mirrors(n, N) /\ Exact(n) /\ Grows(o, n, {r}) /\ SameTabs(o, n)
        /\ HasImage(n, r)
    BY <2>3, <2>4, <2>5, PaneMirrored
  <2>7. Grows(v, n, ToSet(list))
    <3>1. Grows(v, n, ToSet(list) \cup {r})
      BY <2>5, <2>6, GrowsMore
    <3> QED BY <2>3, <3>1, GrowsWithin
  <2>8. ASSUME NEW j \in 1 .. i + 1 PROVE HasImage(n, list[j])
    <3>1. CASE j = i + 1
      BY <2>2, <2>6, <3>1
    <3>2. CASE j # i + 1
      <4>1. j \in 1 .. i
        BY <2>1, <3>2
      <4>2. PICK p \in o.mux.panes : o.client.image[p] = list[j]
        BY <2>5, <4>1 DEF HasImage
      <4>3. p \in n.mux.panes /\ n.client.image[p] = list[j]
        BY <2>6, <4>2 DEF Grows
      <4> QED BY <4>3 DEF HasImage
    <3> QED BY <3>1, <3>2
  <2>9. SameTabs(v, n)
    BY <2>5, <2>6 DEF SameTabs
  <2> QED BY <2>2, <2>6, <2>7, <2>8, <2>9 DEF Done
<1>5. I = Nat
  <2>1. I \in SUBSET Nat
    OBVIOUS
  <2> HIDE DEF I
  <2> QED BY <1>3, <1>4, <2>1, Everything
<1>6. Done(Len(list))
  BY <1>1, <1>5
<1> QED BY <1>1, <1>2, <1>6

(* Tabs and windows change, the panes and what is known of them do not.    *)
LEMMA Reshaped ==
  ASSUME NEW N \in Nat, NEW v, Mirrors(v, N), NEW n \in Views,
         Registered(n.mux), Few(n.mux), SamePanes(v.mux, n.mux),
         n.client.pane = v.client.pane, n.client.image = v.client.image,
         n.client.attached = v.client.attached,
         IsInjective(n.client.tab), DOMAIN n.client.tab \subseteq 1 .. N,
         DOMAIN n.client.window \subseteq 1 .. N, NEW R
  PROVE  /\ Mirrors(n, N) /\ (Exact(v) => Exact(n)) /\ Grows(v, n, R)
         /\ Known(n) = Known(v)
<1>1. /\ n.mux.panes = v.mux.panes /\ n.mux.removing = v.mux.removing
      /\ n.mux.process = v.mux.process
  BY DEF SamePanes
<1>2. Mirrors(n, N)
  BY <1>1 DEF Mirrors
<1> QED BY <1>1, <1>2 DEF Exact, Grows, Known, IsDead

LEMMA TabMirrored ==
  ASSUME EndlessIds, FewUnderWay, NEW N \in Nat, NEW v, Mirrors(v, N), Exact(v),
         NEW rt \in 1 .. N
  PROVE  LET n == MirrorTab(v, rt)
         IN  /\ Mirrors(n, N) /\ Exact(n) /\ Grows(v, n, {})
             /\ rt \in DOMAIN n.client.tab /\ n.client.tab[rt] \in DOMAIN n.mux.tabs
<1>1. PICK g, o, t, f, m, c, n :
        /\ g = Restrict(v.client.tab, DOMAIN v.client.tab \ {rt})
        /\ o = [v EXCEPT !.client.tab = g] /\ t = FreshTab(o, rt)
        /\ f = Mapped(v.client.tab, rt, t) /\ m = WithTab(v.mux, t, {})
        /\ c = [v.client EXCEPT !.tab = f] /\ n = [mux |-> m, client |-> c]
  OBVIOUS
<1>2. CASE rt \in DOMAIN v.client.tab /\ v.client.tab[rt] \in DOMAIN v.mux.tabs
  <2>1. MirrorTab(v, rt) = v
    BY <1>2 DEF MirrorTab
  <2> QED BY <1>2, <2>1, GrowsNot
<1>3. CASE ~ (rt \in DOMAIN v.client.tab /\ v.client.tab[rt] \in DOMAIN v.mux.tabs)
  <2>1. MirrorTab(v, rt) = n
    BY <1>1, <1>3 DEF MirrorTab
  <2>2. v \in Views /\ Registered(v.mux) /\ Few(v.mux)
    BY DEF Mirrors
  <2>3. v.client \in Clients /\ v.mux \in MuxStates /\ v.client.tab \in Partial(Nat, Tab)
        /\ rt \in Nat
    BY <2>2, ClientParts
  <2>4. /\ g \in Partial(Nat, Tab) /\ DOMAIN g = DOMAIN v.client.tab \ {rt}
        /\ \A s \in DOMAIN g : g[s] = v.client.tab[s]
    BY <1>1, <2>3, RestrictedIs
  <2>5. Mirrors(o, N) /\ o.mux = v.mux /\ o.client.tab = g
    <3>1. PICK d : d = [v.client EXCEPT !.tab = g]
      OBVIOUS
    <3>2. /\ d \in Clients /\ d.pane = v.client.pane /\ d.tab = g /\ d.window = v.client.window
          /\ d.image = v.client.image /\ d.attached = v.client.attached
      BY <2>3, <2>4, <3>1, TabMapped
    <3>3. o = [mux |-> v.mux, client |-> d]
      BY <1>1, <2>2, <3>1 DEF Views
    <3>4. o \in Views /\ o.mux = v.mux /\ o.client = d
      BY <2>3, <3>2, <3>3, ViewOf
    <3>5. IsInjective(g) /\ DOMAIN g \subseteq 1 .. N /\ DOMAIN v.client.window \subseteq 1 .. N
      BY <2>4 DEF Mirrors, IsInjective
    <3> QED BY <2>2, <3>2, <3>4, <3>5, Reshaped DEF SamePanes
  <2>6. /\ t \in Tab /\ t \notin DOMAIN v.mux.tabs
        /\ \A s \in DOMAIN g : g[s] # t
    BY <1>1, <2>5, FreshTabIs
  <2>7. f \in Partial(Nat, Tab)
    BY <1>1, <2>3, <2>6, MappedIn
  <2>8. /\ DOMAIN f = DOMAIN v.client.tab \cup {rt} /\ f[rt] = t
        /\ \A s \in DOMAIN v.client.tab : s # rt => f[s] = v.client.tab[s]
    BY <1>1 DEF Mapped
  <2>9. /\ c \in Clients /\ c.pane = v.client.pane /\ c.tab = f /\ c.window = v.client.window
        /\ c.image = v.client.image /\ c.attached = v.client.attached
    BY <1>1, <2>3, <2>7, TabMapped
  <2>10. IsFiniteSet({}) /\ {} \in SUBSET Pane
    BY FS_EmptySet
  <2>11. /\ Registered(m) /\ Few(m) /\ m.windows = v.mux.windows
         /\ DOMAIN m.tabs = DOMAIN v.mux.tabs \cup {t} /\ SamePanes(v.mux, m)
    BY <1>1, <2>2, <2>6, <2>10, TabRegistered
  <2>12. n \in Views /\ n.mux = m /\ n.client = c
    BY <1>1, <2>9, <2>11, ViewOf DEF Registered
  <2>13. IsInjective(f)
    <3>1. IsInjective(v.client.tab)
      BY DEF Mirrors
    <3>2. \A s \in DOMAIN f : s # rt => s \in DOMAIN g /\ f[s] = g[s] /\ f[s] = v.client.tab[s]
      BY <2>4, <2>8
    <3> QED BY <2>6, <2>8, <3>1, <3>2 DEF IsInjective
  <2>14. DOMAIN f \subseteq 1 .. N /\ DOMAIN c.window \subseteq 1 .. N
    BY <2>8, <2>9 DEF Mirrors
  <2>15. Mirrors(n, N) /\ Exact(n) /\ Grows(v, n, {})
    BY <2>9, <2>11, <2>12, <2>13, <2>14, Reshaped
  <2>16. rt \in DOMAIN n.client.tab /\ n.client.tab[rt] \in DOMAIN n.mux.tabs
    BY <2>8, <2>9, <2>11, <2>12
  <2> QED BY <2>1, <2>15, <2>16
<1> QED BY <1>2, <1>3

LEMMA TabIsPlaced ==
  ASSUME EndlessIds, FewUnderWay, NEW N \in Nat, NEW v, Mirrors(v, N), Exact(v),
         NEW t \in DOMAIN v.mux.tabs, NEW rw \in 1 .. N
  PROVE  LET n == Place(v, t, rw)
         IN  Mirrors(n, N) /\ Exact(n) /\ Grows(v, n, {})
<1>1. v \in Views /\ Registered(v.mux) /\ Few(v.mux)
  BY DEF Mirrors
<1>2. /\ v.client \in Clients /\ v.mux \in MuxStates /\ v.client.window \in Partial(Nat, Window)
      /\ rw \in Nat
  BY <1>1, ClientParts
<1>3. /\ IsInjective(v.client.tab) /\ DOMAIN v.client.tab \subseteq 1 .. N
      /\ DOMAIN v.client.window \subseteq 1 .. N
  BY DEF Mirrors
<1>4. CASE rw \notin DOMAIN v.client.window
  <2>1. PICK w, o, m, f, c, n :
          /\ w = FreshWindow(v, rw) /\ o = WithWindow(v.mux, w) /\ m = AddTabToWindow(o, t, w)
          /\ f = Mapped(v.client.window, rw, w) /\ c = [v.client EXCEPT !.window = f]
          /\ n = [mux |-> m, client |-> c]
    OBVIOUS
  <2>2. Place(v, t, rw) = n
    BY <1>4, <2>1 DEF Place
  <2>3. w \in Window \ DOMAIN v.mux.windows
    BY <2>1, FreshWindowIs
  <2>4. /\ Registered(o) /\ Few(o) /\ o.tabs = v.mux.tabs
        /\ DOMAIN o.windows = DOMAIN v.mux.windows \cup {w}
        /\ TabsOf(o.windows[w]) = {} /\ SamePanes(v.mux, o)
    BY <1>1, <2>1, <2>3, WindowRegistered
  <2>5. Registered(m) /\ Few(m) /\ SamePanes(o, m)
    <3>1. w \in DOMAIN o.windows /\ t \in DOMAIN o.tabs /\ t \notin TabsOf(o.windows[w])
      BY <2>4
    <3> QED BY <2>1, <2>4, <3>1, TabPlaced
  <2>6. SamePanes(v.mux, m)
    BY <2>4, <2>5 DEF SamePanes
  <2>7. f \in Partial(Nat, Window)
    BY <1>2, <2>1, <2>3, MappedIn
  <2>8. DOMAIN f \subseteq 1 .. N
    BY <1>3, <2>1 DEF Mapped
  <2>9. /\ c \in Clients /\ c.pane = v.client.pane /\ c.tab = v.client.tab /\ c.window = f
        /\ c.image = v.client.image /\ c.attached = v.client.attached
    BY <1>2, <2>1, <2>7, WindowMapped
  <2>10. n \in Views /\ n.mux = m /\ n.client = c
    BY <2>1, <2>5, <2>9, ViewOf DEF Registered
  <2>11. Mirrors(n, N) /\ Exact(n) /\ Grows(v, n, {})
    BY <1>3, <2>5, <2>6, <2>8, <2>9, <2>10, Reshaped
  <2> QED BY <2>2, <2>11
<1>5. CASE rw \in DOMAIN v.client.window
  <2>1. PICK w, n : w = v.client.window[rw] /\ n = Place(v, t, rw)
    OBVIOUS
  <2>2. CASE w \notin DOMAIN v.mux.windows
    <3>1. n = [v EXCEPT !.client.panicked = TRUE]
      BY <1>5, <2>1, <2>2 DEF Place
    <3>2. PICK c : c = [v.client EXCEPT !.panicked = TRUE]
      OBVIOUS
    <3>3. /\ c \in Clients /\ c.pane = v.client.pane /\ c.tab = v.client.tab
          /\ c.window = v.client.window /\ c.image = v.client.image
          /\ c.attached = v.client.attached
      BY <1>2, <3>2 DEF Clients
    <3>4. n = [mux |-> v.mux, client |-> c]
      BY <1>1, <3>1, <3>2 DEF Views
    <3>5. n \in Views /\ n.mux = v.mux /\ n.client = c
      BY <1>2, <3>3, <3>4, ViewOf
    <3>6. Mirrors(n, N) /\ Exact(n) /\ Grows(v, n, {})
      BY <1>1, <1>3, <3>3, <3>5, Reshaped DEF SamePanes
    <3> QED BY <2>1, <3>6
  <2>3. CASE w \in DOMAIN v.mux.windows /\ t \in TabsOf(v.mux.windows[w])
    <3>1. n = v
      BY <1>5, <2>1, <2>3 DEF Place
    <3> QED BY <2>1, <3>1, GrowsNot
  <2>4. CASE w \in DOMAIN v.mux.windows /\ t \notin TabsOf(v.mux.windows[w])
    <3>1. PICK m : m = AddTabToWindow(v.mux, t, w)
      OBVIOUS
    <3>2. n = [mux |-> m, client |-> v.client]
      BY <1>1, <1>5, <2>1, <2>4, <3>1 DEF Place, Views
    <3>3. Registered(m) /\ Few(m) /\ SamePanes(v.mux, m)
      BY <1>1, <2>4, <3>1, TabPlaced
    <3>4. n \in Views /\ n.mux = m /\ n.client = v.client
      BY <1>2, <3>2, <3>3, ViewOf DEF Registered
    <3>5. Mirrors(n, N) /\ Exact(n) /\ Grows(v, n, {})
      BY <1>3, <3>3, <3>4, Reshaped
    <3> QED BY <2>1, <3>5
  <2> QED BY <2>2, <2>3, <2>4
<1> QED BY <1>4, <1>5

(* The maps forget some entries. *)
Forgets(v, n) ==
  /\ n \in Views /\ n.mux = v.mux /\ n.client.image = v.client.image
  /\ n.client.attached = v.client.attached
  /\ DOMAIN n.client.pane \subseteq DOMAIN v.client.pane
  /\ DOMAIN n.client.tab \subseteq DOMAIN v.client.tab
  /\ DOMAIN n.client.window \subseteq DOMAIN v.client.window
  /\ \A r \in DOMAIN n.client.pane : n.client.pane[r] = v.client.pane[r]
  /\ \A r \in DOMAIN n.client.tab : n.client.tab[r] = v.client.tab[r]

LEMMA LessKnown ==
  ASSUME NEW N \in Nat, NEW v, Mirrors(v, N), NEW n, Forgets(v, n), NEW R
  PROVE  /\ Mirrors(n, N) /\ (Exact(v) => Exact(n)) /\ Grows(v, n, R)
         /\ Known(n) \subseteq Known(v)
<1>1. IsInjective(n.client.tab)
  BY DEF Forgets, Mirrors, IsInjective
<1>2. \A r \in DOMAIN n.client.pane :
        IF n.client.pane[r] \in n.mux.panes THEN n.client.image[n.client.pane[r]] = r
        ELSE \A p \in n.mux.panes : n.client.image[p] # r
  BY DEF Forgets, Mirrors
<1>3. /\ DOMAIN n.client.pane \subseteq 1 .. N /\ DOMAIN n.client.tab \subseteq 1 .. N
      /\ DOMAIN n.client.window \subseteq 1 .. N
  BY DEF Forgets, Mirrors
<1>4. Mirrors(n, N)
  BY <1>1, <1>2, <1>3 DEF Forgets, Mirrors
<1> QED BY <1>4 DEF Forgets, Exact, Grows, Known

(* All three maps are restricted. *)
LEMMA MapsRestricted ==
  ASSUME NEW v, v \in Views, NEW P, P \subseteq DOMAIN v.client.pane,
         NEW T, T \subseteq DOMAIN v.client.tab, NEW W, W \subseteq DOMAIN v.client.window,
         NEW f, f = Restrict(v.client.pane, P), NEW g, g = Restrict(v.client.tab, T),
         NEW h, h = Restrict(v.client.window, W),
         NEW c, c = [v.client EXCEPT !.pane = f, !.tab = g, !.window = h],
         NEW n, n = [mux |-> v.mux, client |-> c]
  PROVE  Forgets(v, n)
<1>2. /\ v.mux \in MuxStates /\ v.client \in Clients
      /\ v.client.pane \in Partial(Nat, Pane) /\ v.client.tab \in Partial(Nat, Tab)
      /\ v.client.window \in Partial(Nat, Window)
  BY ClientParts
<1>3. /\ f \in Partial(Nat, Pane) /\ DOMAIN f = P
      /\ \A z \in P : f[z] = v.client.pane[z]
  BY <1>2, RestrictedIs
<1>4. /\ g \in Partial(Nat, Tab) /\ DOMAIN g = T
      /\ \A z \in T : g[z] = v.client.tab[z]
  BY <1>2, RestrictedIs
<1>5. h \in Partial(Nat, Window) /\ DOMAIN h = W
  BY <1>2, RestrictedIs
<1>6. /\ c \in Clients /\ c.pane = f /\ c.tab = g /\ c.window = h
      /\ c.image = v.client.image /\ c.attached = v.client.attached
  BY <1>2, <1>3, <1>4, <1>5 DEF Clients
<1>7. n \in Views /\ n.mux = v.mux /\ n.client = c
  <2>1. v.mux \in MuxStates /\ c \in Clients
    BY <1>2, <1>6
  <2> QED BY <2>1 DEF Views
<1>8. n.client.pane = f /\ n.client.tab = g /\ n.client.window = h
  BY <1>6, <1>7
<1>9. /\ DOMAIN n.client.pane = P /\ DOMAIN n.client.tab = T /\ DOMAIN n.client.window = W
      /\ \A r \in P : n.client.pane[r] = v.client.pane[r]
      /\ \A r \in T : n.client.tab[r] = v.client.tab[r]
  BY <1>3, <1>4, <1>5, <1>8
<1> QED BY <1>6, <1>7, <1>9 DEF Forgets

LEMMA SweptForgets ==
  ASSUME NEW v \in Views, NEW listed
  PROVE  Forgets(v, Swept(v, listed))
<1>1. PICK W, T, P, n :
        /\ W = DOMAIN v.client.window \cap {listed[rt].window : rt \in DOMAIN listed}
        /\ T = DOMAIN v.client.tab \cap DOMAIN listed
        /\ P = DOMAIN v.client.pane \cap UNION {listed[rt].panes : rt \in DOMAIN listed}
        /\ n = Swept(v, listed)
  OBVIOUS
<1>2. n = [v EXCEPT !.client.window = Restrict(v.client.window, W),
                    !.client.tab = Restrict(v.client.tab, T),
                    !.client.pane = Restrict(v.client.pane, P)]
  BY <1>1 DEF Swept, Views, Clients
<1>3. PICK f, g, h, c : /\ f = Restrict(v.client.pane, P) /\ g = Restrict(v.client.tab, T)
                        /\ h = Restrict(v.client.window, W)
                        /\ c = [v.client EXCEPT !.pane = f, !.tab = g, !.window = h]
  OBVIOUS
<1>4. n = [mux |-> v.mux, client |-> c]
  BY <1>2, <1>3 DEF Views, Clients
<1>5. /\ P \subseteq DOMAIN v.client.pane /\ T \subseteq DOMAIN v.client.tab
      /\ W \subseteq DOMAIN v.client.window
  BY <1>1
<1>6. v \in Views
  OBVIOUS
<1>7. Forgets(v, n)
  BY <1>3, <1>4, <1>5, <1>6, MapsRestricted
<1> QED BY <1>1, <1>7

LEMMA ExpiredForgets ==
  ASSUME NEW v \in Views
  PROVE  Forgets(v, Expired(v))
<1> DEFINE isShown(t) == t \in DOMAIN v.mux.tabs /\ v.mux.tabs[t] # {}
           hasTabs(w) == /\ w \in DOMAIN v.mux.windows
                         /\ \E t \in TabsOf(v.mux.windows[w]) : isShown(t)
<1>1. PICK W, T, P, n :
        /\ W = {rw \in DOMAIN v.client.window : hasTabs(v.client.window[rw])}
        /\ T = {rt \in DOMAIN v.client.tab : isShown(v.client.tab[rt])}
        /\ P = {r \in DOMAIN v.client.pane : v.client.pane[r] \in v.mux.panes}
        /\ n = Expired(v)
  OBVIOUS
<1>2. n = [v EXCEPT !.client.pane = Restrict(v.client.pane, P),
                    !.client.tab = Restrict(v.client.tab, T),
                    !.client.window = Restrict(v.client.window, W)]
  BY <1>1 DEF Expired, Views, Clients
<1>3. PICK f, g, h, c : /\ f = Restrict(v.client.pane, P) /\ g = Restrict(v.client.tab, T)
                        /\ h = Restrict(v.client.window, W)
                        /\ c = [v.client EXCEPT !.pane = f, !.tab = g, !.window = h]
  OBVIOUS
<1>4. n = [mux |-> v.mux, client |-> c]
  BY <1>2, <1>3 DEF Views, Clients
<1>5. /\ P \subseteq DOMAIN v.client.pane /\ T \subseteq DOMAIN v.client.tab
      /\ W \subseteq DOMAIN v.client.window
  BY <1>1
<1>6. v \in Views
  OBVIOUS
<1>7. Forgets(v, n)
  BY <1>3, <1>4, <1>5, <1>6, MapsRestricted
<1> QED BY <1>1, <1>7

-----------------------------------------------------------------------------
(* The list of all panes.                                                  *)

(* Tabs of a server that handed out N ids. *)
Listing(tabs, N) ==
  /\ DOMAIN tabs \subseteq 1 .. N
  /\ \A rt \in DOMAIN tabs : tabs[rt].window \in 1 .. N /\ tabs[rt].panes \subseteq 1 .. N

PanesListed(tabs) == UNION {tabs[rt].panes : rt \in DOMAIN tabs}

LEMMA RemoteTabMirrored ==
  ASSUME EndlessIds, FewUnderWay, NEW N \in Nat, NEW v, Mirrors(v, N), Exact(v),
         NEW listed, Listing(listed, N), NEW rt \in DOMAIN listed
  PROVE  LET n == Mirror(v, rt, listed)
         IN  Mirrors(n, N) /\ Exact(n) /\ Grows(v, n, PanesListed(listed))
<1>1. PICK panes, list, o, q, t, images, m, s, n :
        /\ panes = listed[rt].panes /\ list = SetToSeq(panes)
        /\ o = MirrorTab(v, rt) /\ q = MirrorPanes(o, list) /\ t = q.client.tab[rt]
        /\ images = {ImageOf(q, r) : r \in panes}
        /\ m = WithTab(q.mux, t, images) /\ s = [q EXCEPT !.mux = m]
        /\ n = Place(s, t, listed[rt].window)
  OBVIOUS
<1>2. Mirror(v, rt, listed) = IF v.client.panicked THEN v ELSE n
  BY <1>1 DEF Mirror
<1>3. /\ rt \in 1 .. N /\ listed[rt].window \in 1 .. N
      /\ panes \subseteq 1 .. N /\ panes \subseteq PanesListed(listed)
  BY <1>1 DEF Listing, PanesListed
<1>4. /\ Mirrors(o, N) /\ Exact(o) /\ Grows(v, o, {})
      /\ rt \in DOMAIN o.client.tab /\ o.client.tab[rt] \in DOMAIN o.mux.tabs
  BY <1>1, <1>3, TabMirrored
<1>5. IsFiniteSet(panes)
  BY <1>3, UpToIsFinite, SmallerIsFinite
<1>6. /\ list \in Seq(1 .. N) /\ ToSet(list) \subseteq panes
      /\ \A r \in panes : \E i \in DOMAIN list : list[i] = r
  <2>1. /\ list \in Seq(panes) /\ ToSet(list) \subseteq panes
        /\ \A r \in panes : \E i \in DOMAIN list : list[i] = r
    BY <1>1, <1>5, ListOfSet
  <2>2. Len(list) \in Nat /\ list \in [1 .. Len(list) -> panes]
    BY <2>1, LenProperties
  <2>3. list \in [1 .. Len(list) -> 1 .. N]
    BY <1>3, <2>2
  <2>4. list \in Seq(1 .. N)
    BY <2>2, <2>3, SeqDef
  <2> QED BY <2>1, <2>4
<1>7. /\ Mirrors(q, N) /\ Exact(q) /\ Grows(o, q, ToSet(list)) /\ SameTabs(o, q)
      /\ \A i \in DOMAIN list : HasImage(q, list[i])
  BY <1>1, <1>4, <1>6, PanesMirrored
<1>8. t \in DOMAIN q.mux.tabs
  BY <1>1, <1>4, <1>7 DEF SameTabs
<1>9. images \subseteq q.mux.panes
  <2>1. ASSUME NEW r \in panes PROVE ImageOf(q, r) \in q.mux.panes
    <3>1. HasImage(q, r)
      BY <1>6, <1>7
    <3> QED BY <3>1 DEF HasImage, ImageOf
  <2> QED BY <1>1, <2>1
<1>10. q \in Views /\ Registered(q.mux) /\ Few(q.mux)
  BY <1>7 DEF Mirrors
<1>11. images \in SUBSET Pane /\ IsFiniteSet(images) /\ t \in Tab
  <2>1. q.mux.panes \subseteq Pane /\ DOMAIN q.mux.tabs \subseteq Tab
    BY <1>10, Parts DEF Registered
  <2> QED BY <1>8, <1>9, <1>10, <2>1, SmallerIsFinite DEF Few
<1>12. /\ Registered(m) /\ Few(m) /\ m.windows = q.mux.windows
       /\ DOMAIN m.tabs = DOMAIN q.mux.tabs \cup {t} /\ SamePanes(q.mux, m)
  <2>1. m = WithTab(q.mux, t, images)
    BY <1>1
  <2> QED BY <1>10, <1>11, <2>1, TabRegistered
<1>13. s \in Views /\ s.mux = m /\ s.client = q.client
  <2>1. q.client \in Clients /\ m \in MuxStates
    BY <1>10, <1>12, ClientParts DEF Registered
  <2>2. s = [mux |-> m, client |-> q.client]
    BY <1>1, <1>10 DEF Views
  <2> QED BY <2>1, <2>2, ViewOf
<1>14. Mirrors(s, N) /\ Exact(s) /\ Grows(q, s, {})
  <2>1. /\ IsInjective(q.client.tab) /\ DOMAIN q.client.tab \subseteq 1 .. N
        /\ DOMAIN q.client.window \subseteq 1 .. N
    BY <1>7 DEF Mirrors
  <2> QED BY <1>7, <1>12, <1>13, <2>1, Reshaped
<1>15. Mirrors(n, N) /\ Exact(n) /\ Grows(s, n, {})
  <2>1. t \in DOMAIN s.mux.tabs /\ n = Place(s, t, listed[rt].window)
    BY <1>1, <1>12, <1>13
  <2>2. listed[rt].window \in 1 .. N /\ Mirrors(s, N) /\ Exact(s)
    BY <1>3, <1>14
  <2> QED BY <2>1, <2>2, TabIsPlaced
<1>16. Grows(v, n, PanesListed(listed))
  <2>1. Grows(v, q, {} \cup ToSet(list))
    BY <1>4, <1>7, GrowsMore
  <2>2. Grows(v, s, {} \cup ToSet(list) \cup {})
    BY <1>14, <2>1, GrowsMore
  <2>3. Grows(v, n, {} \cup ToSet(list) \cup {} \cup {})
    BY <1>15, <2>2, GrowsMore
  <2> QED BY <1>3, <1>6, <2>3, GrowsWithin
<1>17. Grows(v, v, PanesListed(listed))
  BY GrowsNot
<1> QED BY <1>2, <1>15, <1>16, <1>17

AfterTabs(f, v, list, listed, i) ==
  IF i = 0 THEN v ELSE Mirror(f[i - 1], list[i], listed)

(* The recursive definition in MirrorTabs defines a function. *)
LEMMA AfterTabsExists ==
  ASSUME NEW v, NEW list, NEW listed
  PROVE  \A n \in Nat : \E f : f = [i \in 0 .. n |-> AfterTabs(f, v, list, listed, i)]
<1> DEFINE E == {n \in Nat : \E f : f = [i \in 0 .. n |-> AfterTabs(f, v, list, listed, i)]}
<1>1. 0 \in E
  <2> DEFINE f == [i \in 0 .. 0 |-> v]
  <2>1. f = [i \in 0 .. 0 |-> AfterTabs(f, v, list, listed, i)]
    BY DEF AfterTabs
  <2> QED BY <2>1
<1>2. ASSUME NEW n \in E
      PROVE  n + 1 \in E
  <2>1. PICK f : f = [i \in 0 .. n |-> AfterTabs(f, v, list, listed, i)]
    OBVIOUS
  <2> DEFINE g == [i \in 0 .. n + 1 |->
                     IF i = n + 1 THEN AfterTabs(f, v, list, listed, i) ELSE f[i]]
  <2>2. \A i \in 0 .. n : g[i] = f[i]
    OBVIOUS
  <2>3. ASSUME NEW i \in 0 .. n + 1
        PROVE  g[i] = AfterTabs(g, v, list, listed, i)
    <3>1. i = 0 \/ i - 1 \in 0 .. n
      OBVIOUS
    <3>2. AfterTabs(g, v, list, listed, i) = AfterTabs(f, v, list, listed, i)
      BY <2>2, <3>1 DEF AfterTabs
    <3>3. i # n + 1 => f[i] = AfterTabs(f, v, list, listed, i)
      <4> HIDE DEF AfterTabs
      <4>1. i # n + 1 => i \in 0 .. n
        OBVIOUS
      <4> QED BY <2>1, <4>1
    <3> QED BY <3>2, <3>3
  <2>4. g = [i \in 0 .. n + 1 |-> AfterTabs(g, v, list, listed, i)]
    BY <2>3
  <2> HIDE DEF g
  <2> QED BY <2>4
<1> HIDE DEF E
<1>3. E \in SUBSET Nat
  BY DEF E
<1>4. E = Nat
  BY <1>1, <1>2, <1>3, Everything
<1> QED BY <1>4 DEF E

LEMMA TabsMirrored ==
  ASSUME EndlessIds, FewUnderWay, NEW N \in Nat, NEW v, Mirrors(v, N), Exact(v),
         NEW listed, Listing(listed, N), NEW list \in Seq(DOMAIN listed)
  PROVE  LET n == MirrorTabs(v, list, listed)
         IN  Mirrors(n, N) /\ Exact(n) /\ Grows(v, n, PanesListed(listed))
<1>1. Len(list) \in Nat /\ \A i \in 1 .. Len(list) : list[i] \in DOMAIN listed
  BY LenProperties
<1> DEFINE f == CHOOSE f : f = [i \in 0 .. Len(list) |-> AfterTabs(f, v, list, listed, i)]
<1>2. /\ f = [i \in 0 .. Len(list) |-> AfterTabs(f, v, list, listed, i)]
      /\ MirrorTabs(v, list, listed) = f[Len(list)]
  <2>1. Len(list) \in Nat
    BY <1>1
  <2>2. f = [i \in 0 .. Len(list) |-> AfterTabs(f, v, list, listed, i)]
    BY <2>1, AfterTabsExists
  <2>3. MirrorTabs(v, list, listed) = f[Len(list)]
    BY DEF MirrorTabs, AfterTabs
  <2> QED BY <2>2, <2>3
<1> HIDE DEF f
<1> DEFINE Done(i) == /\ Mirrors(f[i], N) /\ Exact(f[i])
                      /\ Grows(v, f[i], PanesListed(listed))
           I == {i \in Nat : i <= Len(list) => Done(i)}
<1>3. 0 \in I
  <2>1. f[0] = v
    BY <1>1, <1>2 DEF AfterTabs
  <2>2. Done(0)
    BY <2>1, GrowsNot
  <2> QED BY <2>2
<1>4. ASSUME NEW i \in I PROVE i + 1 \in I
  <2> SUFFICES ASSUME i + 1 <= Len(list) PROVE Done(i + 1)
    OBVIOUS
  <2>1. Done(i) /\ i \in Nat /\ i + 1 \in 1 .. Len(list)
    BY <1>1
  <2>2. PICK rt, o, n : rt = list[i + 1] /\ o = f[i] /\ n = f[i + 1]
    OBVIOUS
  <2>3. rt \in DOMAIN listed
    BY <1>1, <2>1, <2>2
  <2>4. n = Mirror(o, rt, listed)
    <3>1. i + 1 \in 0 .. Len(list) /\ (i + 1) - 1 = i /\ i + 1 # 0
      BY <1>1, <2>1
    <3> QED BY <1>2, <2>2, <3>1 DEF AfterTabs
  <2>5. Mirrors(o, N) /\ Exact(o) /\ Grows(v, o, PanesListed(listed))
    BY <2>1, <2>2
  <2> HIDE DEF Done, I
  <2>6. Mirrors(n, N) /\ Exact(n) /\ Grows(o, n, PanesListed(listed))
    BY <2>3, <2>4, <2>5, RemoteTabMirrored
  <2>7. Grows(v, n, PanesListed(listed))
    <3>1. Grows(v, n, PanesListed(listed) \cup PanesListed(listed))
      BY <2>5, <2>6, GrowsMore
    <3> QED BY <3>1, GrowsWithin
  <2> QED BY <2>2, <2>6, <2>7 DEF Done
<1>5. I = Nat
  <2>1. I \in SUBSET Nat
    OBVIOUS
  <2> HIDE DEF I
  <2> QED BY <1>3, <1>4, <2>1, Everything
<1>6. Done(Len(list))
  BY <1>1, <1>5
<1> QED BY <1>2, <1>6

LEMMA ListProcessed ==
  ASSUME EndlessIds, FewUnderWay, NEW N \in Nat, NEW v, Mirrors(v, N), Exact(v),
         NEW listed, Listing(listed, N)
  PROVE  LET n == ProcessPaneList(v, listed)
         IN  Mirrors(n, N) /\ Exact(n) /\ Grows(v, n, PanesListed(listed))
<1>1. PICK list, o, n : /\ list = SetToSeq(DOMAIN listed) /\ o = MirrorTabs(v, list, listed)
                        /\ n = Swept(o, listed)
  OBVIOUS
<1>2. n = ProcessPaneList(v, listed)
  BY <1>1 DEF ProcessPaneList
<1>3. IsFiniteSet(DOMAIN listed)
  BY UpToIsFinite, SmallerIsFinite DEF Listing
<1>4. list \in Seq(DOMAIN listed)
  BY <1>1, <1>3, ListOfSet
<1>5. Mirrors(o, N) /\ Exact(o) /\ Grows(v, o, PanesListed(listed))
  BY <1>1, <1>4, TabsMirrored
<1>6. Forgets(o, n)
  BY <1>1, <1>5, SweptForgets DEF Mirrors
<1>7. Mirrors(n, N) /\ Exact(n) /\ Grows(o, n, {})
  BY <1>5, <1>6, LessKnown
<1>8. Grows(v, n, PanesListed(listed) \cup {})
  BY <1>5, <1>7, GrowsMore
<1> QED BY <1>2, <1>7, <1>8, GrowsWithin

-----------------------------------------------------------------------------
(* Steps that take from the mirror.                                        *)

(* Of the remote panes of I, none is shown as dead, and none that is not   *)
(* in C waits to be removed or is about to be killed.                      *)
Wanted(v, C, I) ==
  /\ \A p \in v.mux.panes :
       /\ IsDead(v.mux, p) => v.client.image[p] \notin I
       /\ p \in v.mux.removing => v.client.image[p] \in C \/ v.client.image[p] \notin I
  /\ v.client.attached =>
       \A p \in DOMAIN v.client.image \ v.mux.panes :
         v.client.image[p] \in C \/ v.client.image[p] \notin I

(* The mux becomes m, and the domain may be detached.                      *)
LEMMA Lessened ==
  ASSUME NEW N \in Nat, NEW v, Mirrors(v, N), NEW P, NEW n, n \in Views,
         GivesUp(v.mux, n.mux, P), n.client.pane = v.client.pane,
         n.client.tab = v.client.tab, n.client.window = v.client.window,
         n.client.image = v.client.image
  PROVE  Mirrors(n, N) /\ Known(n) \subseteq Known(v)
<1>1. Registered(n.mux) /\ Few(n.mux) /\ n.mux.panes \subseteq v.mux.panes
  BY FewAreLeft DEF Mirrors, GivesUp
<1>2. ASSUME NEW r \in DOMAIN n.client.pane
      PROVE  IF n.client.pane[r] \in n.mux.panes
             THEN n.client.image[n.client.pane[r]] = r
             ELSE \A p \in n.mux.panes : n.client.image[p] # r
  <2>1. CASE n.client.pane[r] \in v.mux.panes
    <3>1. /\ n.client.image[n.client.pane[r]] = r
          /\ n.client.pane[r] \in DOMAIN n.client.image
      BY <2>1 DEF Mirrors
    <3>2. ASSUME NEW p \in n.mux.panes, n.client.image[p] = r
          PROVE  n.client.pane[r] \in n.mux.panes
      <4>1. p \in DOMAIN n.client.image
        BY <1>1 DEF Mirrors
      <4>2. p = n.client.pane[r]
        BY <3>1, <3>2, <4>1 DEF Mirrors, IsInjective
      <4> QED BY <4>2
    <3> QED BY <3>1, <3>2
  <2>2. CASE n.client.pane[r] \notin v.mux.panes
    BY <1>1, <2>2 DEF Mirrors
  <2> QED BY <2>1, <2>2
<1>3. Mirrors(n, N)
  BY <1>1, <1>2 DEF Mirrors
<1> QED BY <1>1, <1>3 DEF Known

LEMMA LessenedIsWanted ==
  ASSUME NEW v, NEW n, NEW P, GivesUp(v.mux, n.mux, P), v.mux.panes \subseteq DOMAIN v.client.image,
         n.client.image = v.client.image, n.client.attached => v.client.attached,
         NEW C, NEW D, C \subseteq D, NEW I, Wanted(v, C, I),
         \A p \in P \cap v.mux.panes :
           p \in n.mux.panes \/ n.client.attached =>
             v.client.image[p] \in D \/ v.client.image[p] \notin I
  PROVE  Wanted(n, D, I)
<1>1. /\ n.mux.panes \subseteq v.mux.panes /\ v.mux.panes \ n.mux.panes \subseteq P
      /\ n.mux.removing \cap v.mux.panes \subseteq v.mux.removing \cup P
      /\ n.mux.process = v.mux.process
  BY DEF GivesUp
<1>2. ASSUME NEW p \in n.mux.panes
      PROVE  /\ IsDead(n.mux, p) => n.client.image[p] \notin I
             /\ p \in n.mux.removing =>
                  n.client.image[p] \in D \/ n.client.image[p] \notin I
  BY <1>1 DEF Wanted, IsDead
<1>3. ASSUME n.client.attached, NEW p \in DOMAIN n.client.image \ n.mux.panes
      PROVE  n.client.image[p] \in D \/ n.client.image[p] \notin I
  <2>1. CASE p \in v.mux.panes
    BY <1>1, <1>3, <2>1
  <2>2. CASE p \notin v.mux.panes
    BY <1>3, <2>2 DEF Wanted
  <2> QED BY <2>1, <2>2
<1> QED BY <1>2, <1>3 DEF Wanted

LEMMA GrownIsWanted ==
  ASSUME NEW v, NEW n, NEW R, Grows(v, n, R), Exact(n), NEW C, NEW I, Wanted(v, C, I)
  PROVE  Wanted(n, C, I)
<1>1. ASSUME NEW p \in n.mux.panes
      PROVE  /\ IsDead(n.mux, p) => n.client.image[p] \notin I
             /\ p \in n.mux.removing =>
                  n.client.image[p] \in C \/ n.client.image[p] \notin I
  BY DEF Grows, Wanted
<1> QED BY <1>1 DEF Wanted, Exact

LEMMA PrunedIsWanted ==
  ASSUME NEW N \in Nat, NEW v, Mirrors(v, N), NEW C, NEW I, Wanted(v, C, I), NEW held,
         NEW n, n \in Views, n.mux \in Pruned(v.mux, held), n.client = v.client
  PROVE  Mirrors(n, N) /\ Wanted(n, C, I) /\ Known(n) \subseteq Known(v)
<1>1. GivesUp(v.mux, n.mux, Dead(v.mux))
  BY PrunedGivesUp DEF Mirrors
<1>2. \A p \in Dead(v.mux) \cap v.mux.panes : v.client.image[p] \notin I
  BY DEF Wanted, Dead
<1>3. Mirrors(n, N) /\ Known(n) \subseteq Known(v)
  BY <1>1, Lessened
<1>4. v.mux.panes \subseteq DOMAIN v.client.image
  BY DEF Mirrors
<1>5. Wanted(n, C, I)
  BY <1>1, <1>2, <1>4, LessenedIsWanted
<1> QED BY <1>3, <1>5

(* The program in a pane has ended. *)
LEMMA ProgramEnded ==
  ASSUME NEW N \in Nat, NEW v, Mirrors(v, N), NEW p, p \in Pane,
         NEW n, n = [v EXCEPT !.mux = [v.mux EXCEPT !.process[p] = "dead"]]
  PROVE  /\ Mirrors(n, N) /\ Known(n) = Known(v) /\ n.client = v.client
         /\ n.mux = [v.mux EXCEPT !.process[p] = "dead"]
         /\ \A C, I : Wanted(v, C, I) /\ v.client.image[p] \notin I => Wanted(n, C, I)
<1>1. v \in Views /\ v.mux \in MuxStates /\ v.client \in Clients /\ Registered(v.mux)
  BY ClientParts DEF Mirrors
<1>2. PICK f : f = [v.mux.process EXCEPT ![p] = "dead"]
  OBVIOUS
<1>3. /\ v.mux.process \in [Pane -> {"running", "held", "dead"}]
      /\ v.mux = [windows |-> v.mux.windows, tabs |-> v.mux.tabs, panes |-> v.mux.panes,
                  process |-> v.mux.process, removing |-> v.mux.removing,
                  told |-> v.mux.told]
  BY <1>1 DEF MuxStates
<1>4. /\ f \in [Pane -> {"running", "held", "dead"}] /\ f[p] = "dead"
      /\ \A q \in Pane : q # p => f[q] = v.mux.process[q]
  BY <1>2, <1>3
<1>5. PICK m : m = [v.mux EXCEPT !.process = f]
  OBVIOUS
<1>6. /\ m \in MuxStates /\ m.process = f /\ m.windows = v.mux.windows
      /\ m.tabs = v.mux.tabs /\ m.panes = v.mux.panes /\ m.removing = v.mux.removing
  BY <1>1, <1>4, <1>5 DEF MuxStates
<1>7. m = [v.mux EXCEPT !.process[p] = "dead"]
  BY <1>2, <1>3, <1>5
<1>8. n = [mux |-> m, client |-> v.client]
  BY <1>1, <1>7 DEF Views
<1>9. n \in Views /\ n.mux = m /\ n.client = v.client
  <2>1. m \in MuxStates /\ v.client \in Clients
    BY <1>1, <1>6
  <2>2. PICK o : o = [mux |-> m, client |-> v.client]
    OBVIOUS
  <2>3. o \in Views /\ o.mux = m /\ o.client = v.client
    BY <2>1, <2>2, ViewOf
  <2> QED BY <1>8, <2>2, <2>3
<1>10. Registered(m)
  BY <1>1, <1>4, <1>6 DEF Registered
<1>11. Few(m)
  BY <1>6 DEF Few, InTabs, PanesInTabs, Mirrors
<1>12. Mirrors(n, N)
  BY <1>6, <1>9, <1>10, <1>11 DEF Mirrors
<1>13. v.mux.panes \subseteq Pane
  BY <1>1 DEF MuxStates
<1>14. ASSUME NEW C, NEW I, Wanted(v, C, I), v.client.image[p] \notin I
       PROVE  Wanted(n, C, I)
  <2>1. \A q \in v.mux.panes : IsDead(n.mux, q) => q = p \/ IsDead(v.mux, q)
    BY <1>4, <1>6, <1>9, <1>13 DEF IsDead
  <2> QED BY <1>6, <1>9, <1>14, <2>1 DEF Wanted
<1>15. Known(n) = Known(v)
  BY <1>6, <1>9 DEF Known
<1>16. n.mux = [v.mux EXCEPT !.process[p] = "dead"]
  BY <1>7, <1>9
<1> QED BY <1>9, <1>12, <1>14, <1>15, <1>16

LEMMA PaneDied ==
  ASSUME NEW N \in Nat, NEW v, Mirrors(v, N), NEW r, IsMirrored(v, r),
         NEW C, NEW I, Wanted(v, C, I), r \notin I, NEW n \in Died(v, r)
  PROVE  Mirrors(n, N) /\ Wanted(n, C, I) /\ Known(n) \subseteq Known(v)
<1>1. PICK p, m, a : /\ p = v.client.pane[r] /\ m = [v.mux EXCEPT !.process[p] = "dead"]
                     /\ a = [v EXCEPT !.mux = m]
  OBVIOUS
<1>2. PICK o, b : /\ o \in Pruned(m, opening) /\ b = [v EXCEPT !.mux = o]
                   /\ n = Expired(b)
  BY <1>1 DEF Died
<1>3. p \in v.mux.panes /\ p \in Pane /\ v.client.image[p] = r
  BY <1>1, ClientParts DEF IsMirrored, Mirrors
<1>4. a = [v EXCEPT !.mux = [v.mux EXCEPT !.process[p] = "dead"]]
  BY <1>1
<1>5. Mirrors(a, N) /\ Known(a) = Known(v) /\ a.client = v.client /\ a.mux = m
      /\ Wanted(a, C, I)
  BY <1>1, <1>3, <1>4, ProgramEnded
<1>6. /\ v \in Views /\ v.client \in Clients
      /\ o \in MuxStates
  BY <1>2, <1>5, ClientParts, PrunedGivesUp DEF Mirrors, GivesUp, Registered
<1>7. b = [mux |-> o, client |-> v.client]
  BY <1>2, <1>6 DEF Views
<1>8. b \in Views /\ b.mux = o /\ b.client = v.client
  BY <1>6, <1>7, ViewOf
<1>9. Mirrors(b, N) /\ Wanted(b, C, I) /\ Known(b) \subseteq Known(a)
  <2>1. b.mux \in Pruned(a.mux, opening) /\ b.client = a.client
    BY <1>2, <1>5, <1>8
  <2> QED BY <1>5, <1>8, <2>1, PrunedIsWanted
<1>10. Forgets(b, n)
  BY <1>2, <1>8, ExpiredForgets
<1>11. Mirrors(n, N) /\ Known(n) \subseteq Known(b)
  BY <1>9, <1>10, LessKnown
<1>12. Wanted(n, C, I)
  BY <1>9, <1>10 DEF Forgets, Wanted
<1> QED BY <1>5, <1>9, <1>11, <1>12

-----------------------------------------------------------------------------
(* What Becomes keeps of a view, and what it sends.                        *)

(* The images of panes that are gone are forgotten. *)
LEMMA Trimmed ==
  ASSUME NEW N \in Nat, NEW v, Mirrors(v, N), NEW n, n \in Views,
         Registered(n.mux), Few(n.mux), n.mux.panes = v.mux.panes,
         n.mux.removing = v.mux.removing,
         \A p \in v.mux.panes : n.mux.process[p] = v.mux.process[p],
         n.client.pane = v.client.pane, n.client.tab = v.client.tab,
         n.client.window = v.client.window, DOMAIN n.client.image = v.mux.panes,
         \A p \in v.mux.panes : n.client.image[p] = v.client.image[p]
  PROVE  /\ Mirrors(n, N) /\ Exact(n) /\ Known(n) = Known(v)
         /\ \A C, I : Wanted(v, C, I) => Wanted(n, C, I)
<1>1. IsInjective(n.client.image)
  <2>1. v.mux.panes \subseteq DOMAIN v.client.image /\ IsInjective(v.client.image)
    BY DEF Mirrors
  <2> QED BY <2>1 DEF IsInjective
<1>2. \A r \in DOMAIN n.client.pane :
        IF n.client.pane[r] \in n.mux.panes THEN n.client.image[n.client.pane[r]] = r
        ELSE \A p \in n.mux.panes : n.client.image[p] # r
  BY DEF Mirrors
<1>3. /\ DOMAIN n.client.pane \subseteq 1 .. N /\ DOMAIN n.client.tab \subseteq 1 .. N
      /\ DOMAIN n.client.window \subseteq 1 .. N /\ IsInjective(n.client.tab)
      /\ \A p \in DOMAIN n.client.image : n.client.image[p] \in 1 .. N
      /\ n.mux.panes \subseteq DOMAIN n.client.image
  BY DEF Mirrors
<1>4. Mirrors(n, N)
  BY <1>1, <1>2, <1>3 DEF Mirrors
<1>5. Exact(n) /\ Known(n) = Known(v)
  BY DEF Exact, Known
<1>6. ASSUME NEW C, NEW I, Wanted(v, C, I)
      PROVE  Wanted(n, C, I)
  <2>1. ASSUME NEW p \in n.mux.panes
        PROVE  /\ IsDead(n.mux, p) => n.client.image[p] \notin I
               /\ p \in n.mux.removing =>
                    n.client.image[p] \in C \/ n.client.image[p] \notin I
    BY <1>6 DEF Wanted, IsDead
  <2> QED BY <1>5, <2>1 DEF Wanted, Exact
<1> QED BY <1>4, <1>5, <1>6

Settles(v, m, c) ==
  /\ m = [v.mux EXCEPT !.process = [p \in Pane |->
             IF p \in v.mux.panes \cup PanesInTabs(v.mux, DOMAIN v.mux.tabs)
             THEN v.mux.process[p] ELSE "dead"], !.told = FALSE]
  /\ c = [v.client EXCEPT !.image =
             Restrict(v.client.image, v.mux.panes \cap DOMAIN v.client.image)]

LEMMA Settled ==
  ASSUME NEW N \in Nat, NEW v, Mirrors(v, N), NEW m, NEW c, NEW n,
         Settles(v, m, c), n = [mux |-> m, client |-> c]
  PROVE  /\ Mirrors(n, N) /\ Exact(n) /\ Known(n) = Known(v)
         /\ \A C, I : Wanted(v, C, I) => Wanted(n, C, I)
<1>1. v \in Views /\ v.mux \in MuxStates /\ v.client \in Clients /\ Registered(v.mux)
  BY ClientParts DEF Mirrors
<1>2. PICK f : f = [p \in Pane |->
                IF p \in v.mux.panes \cup PanesInTabs(v.mux, DOMAIN v.mux.tabs)
                THEN v.mux.process[p] ELSE "dead"]
  OBVIOUS
<1>3. /\ v.mux.process \in [Pane -> {"running", "held", "dead"}]
      /\ v.mux.panes \subseteq Pane
  BY <1>1 DEF MuxStates
<1>4. /\ f \in [Pane -> {"running", "held", "dead"}]
      /\ \A p \in v.mux.panes : f[p] = v.mux.process[p]
      /\ \A p \in Pane : f[p] = v.mux.process[p] \/ f[p] = "dead"
  BY <1>2, <1>3
<1>5. m = [v.mux EXCEPT !.process = f, !.told = FALSE]
  BY <1>2 DEF Settles
<1>6. /\ m \in MuxStates /\ m.process = f /\ m.windows = v.mux.windows
      /\ m.tabs = v.mux.tabs /\ m.panes = v.mux.panes /\ m.removing = v.mux.removing
  BY <1>1, <1>4, <1>5 DEF MuxStates
<1>7. Registered(m)
  BY <1>1, <1>4, <1>6 DEF Registered
<1>8. Few(m)
  BY <1>6 DEF Few, InTabs, PanesInTabs, Mirrors
<1>9. PICK g : g = Restrict(v.client.image, v.mux.panes \cap DOMAIN v.client.image)
  OBVIOUS
<1>10. v.mux.panes \cap DOMAIN v.client.image = v.mux.panes
  BY DEF Mirrors
<1>11. /\ g \in Partial(Pane, Nat) /\ DOMAIN g = v.mux.panes
       /\ \A p \in v.mux.panes : g[p] = v.client.image[p]
  <2>1. v.client.image \in Partial(Pane, Nat) /\ v.mux.panes \in SUBSET DOMAIN v.client.image
    BY <1>1, <1>10, ClientParts
  <2>2. g = Restrict(v.client.image, v.mux.panes)
    BY <1>9, <1>10
  <2> QED BY <2>1, <2>2, RestrictedIs
<1>12. PICK d : d = [v.client EXCEPT !.image = g]
  OBVIOUS
<1>13. /\ d \in Clients /\ d.pane = v.client.pane /\ d.tab = v.client.tab
       /\ d.window = v.client.window /\ d.image = g /\ d.attached = v.client.attached
  <2>1. v.client \in Clients /\ g \in Partial(Pane, Nat)
    BY <1>1, <1>11
  <2> QED BY <1>12, <2>1, ImageMapped
<1>14. n \in Views /\ n.mux = m /\ n.client = d
  <2>1. c = d
    BY <1>9, <1>12 DEF Settles
  <2> QED BY <1>6, <1>13, <2>1, ViewOf
<1>15. IsInjective(g)
  <2>1. v.mux.panes \subseteq DOMAIN v.client.image /\ IsInjective(v.client.image)
    BY DEF Mirrors
  <2> QED BY <1>11, <2>1 DEF IsInjective
<1>16. /\ n.mux.panes = v.mux.panes /\ n.client.image = g
       /\ n.client.pane = v.client.pane /\ n.client.tab = v.client.tab
       /\ n.client.window = v.client.window
  BY <1>6, <1>13, <1>14
<1>17. Registered(n.mux) /\ Few(n.mux) /\ n.mux.removing = v.mux.removing
  BY <1>6, <1>7, <1>8, <1>14
<1>18. /\ DOMAIN n.client.image = v.mux.panes
       /\ \A p \in v.mux.panes : n.client.image[p] = v.client.image[p]
       /\ \A p \in v.mux.panes : n.mux.process[p] = v.mux.process[p]
  BY <1>4, <1>6, <1>11, <1>14, <1>16
<1>19. n \in Views
  BY <1>14
<1> QED BY <1>16, <1>17, <1>18, <1>19, Trimmed

IsList(q) == \E S : q \in Seq(S)

LEMMA Joined ==
  ASSUME NEW a, IsList(a), NEW b, IsList(b)
  PROVE  /\ IsList(a \o b) /\ ToSet(a \o b) = ToSet(a) \cup ToSet(b)
         /\ Len(a) \in Nat /\ Len(b) \in Nat
         /\ DOMAIN a = 1 .. Len(a) /\ DOMAIN b = 1 .. Len(b)
         /\ DOMAIN (a \o b) = 1 .. Len(a) + Len(b)
         /\ \A i \in 1 .. Len(a) + Len(b) :
              (a \o b)[i] = IF i <= Len(a) THEN a[i] ELSE b[i - Len(a)]
<1>1. PICK S, T : a \in Seq(S) /\ b \in Seq(T)
  BY DEF IsList
<1>2. PICK U : U = S \cup T
  OBVIOUS
<1>3. a \in Seq(U) /\ b \in Seq(U)
  <2>1. /\ Len(a) \in Nat /\ a \in [1 .. Len(a) -> S]
        /\ Len(b) \in Nat /\ b \in [1 .. Len(b) -> T]
    BY <1>1, LenProperties
  <2>2. a \in [1 .. Len(a) -> U] /\ b \in [1 .. Len(b) -> U]
    BY <1>2, <2>1
  <2> QED BY <2>1, <2>2, SeqDef
<1>4. IsList(a \o b)
  BY <1>3, Appended DEF IsList
<1> QED BY <1>3, <1>4, Appended

LEMMA ShortLists ==
  /\ IsList(<< >>) /\ ToSet(<< >>) = {}
  /\ \A x : IsList(<<x>>) /\ ToSet(<<x>>) = {x} /\ Len(<<x>>) = 1 /\ <<x>>[1] = x
<1>1. << >> \in Seq({})
  OBVIOUS
<1>2. IsList(<< >>) /\ ToSet(<< >>) = {}
  BY <1>1 DEF IsList, ToSet
<1>3. ASSUME NEW x
      PROVE  IsList(<<x>>) /\ ToSet(<<x>>) = {x} /\ Len(<<x>>) = 1 /\ <<x>>[1] = x
  <2>1. <<x>> \in Seq({x})
    OBVIOUS
  <2>2. Len(<<x>>) = 1 /\ DOMAIN <<x>> = 1 .. 1 /\ <<x>>[1] = x
    OBVIOUS
  <2>3. ToSet(<<x>>) = {x}
    <3>1. \A i \in 1 .. 1 : i = 1
      OBVIOUS
    <3>2. ToSet(<<x>>) = {<<x>>[i] : i \in 1 .. 1}
      BY <2>2 DEF ToSet
    <3>3. 1 \in 1 .. 1
      OBVIOUS
    <3> QED BY <2>2, <3>1, <3>2, <3>3
  <2>4. IsList(<<x>>)
    BY <2>1 DEF IsList
  <2> QED BY <2>2, <2>3, <2>4
<1> QED BY <1>2, <1>3

LEMMA ListIsFinite ==
  ASSUME NEW q, IsList(q) PROVE IsFiniteSet(ToSet(q))
<1>1. PICK S : q \in Seq(S)
  BY DEF IsList
<1>2. Len(q) \in Nat /\ DOMAIN q = 1 .. Len(q)
  BY <1>1, LenProperties
<1>3. IsFiniteSet(DOMAIN q)
  BY <1>2, UpToIsFinite
<1> QED BY <1>3, ImageFinite DEF ToSet

LEMMA OneTaken ==
  ASSUME NEW q, IsList(q), NEW i \in DOMAIN q
  PROVE  /\ IsList(RemoveAt(q, i)) /\ ToSet(RemoveAt(q, i)) \subseteq ToSet(q)
         /\ i \in Nat /\ DOMAIN q = 1 .. Len(q) /\ Len(q) \in Nat /\ q[i] \in ToSet(q)
         /\ DOMAIN RemoveAt(q, i) = 1 .. Len(q) - 1
         /\ \A j \in DOMAIN RemoveAt(q, i) :
              RemoveAt(q, i)[j] = q[IF j < i THEN j ELSE j + 1]
<1>1. PICK S : q \in Seq(S)
  BY DEF IsList
<1>2. IsList(RemoveAt(q, i))
  BY <1>1, TakenAway DEF IsList
<1>3. q[i] \in ToSet(q)
  BY DEF ToSet
<1> QED BY <1>1, <1>2, <1>3, TakenAway

(* The panes to be killed, and no others. *)
LEMMA KillsFit ==
  ASSUME NEW N \in Nat, NEW v, Mirrors(v, N), NEW C, NEW I, Wanted(v, C, I)
  PROVE  /\ IsList(Kills(v))
         /\ \A m \in ToSet(Kills(v)) :
              m.kind = "kill" /\ m.pane \in 1 .. N /\ (m.pane \in C \/ m.pane \notin I)
<1>1. CASE ~ v.client.attached
  BY <1>1, ShortLists DEF Kills
<1>2. CASE v.client.attached
  <2>1. PICK gone, S :
          /\ gone = {v.client.image[p] : p \in DOMAIN v.client.image \ v.mux.panes}
          /\ S = {[kind |-> "kill", pane |-> r] : r \in gone}
    OBVIOUS
  <2>2. \A r \in gone : r \in 1 .. N /\ (r \in C \/ r \notin I)
    BY <1>2, <2>1 DEF Mirrors, Wanted
  <2>3. IsFiniteSet(gone)
    BY <2>2, UpToIsFinite, SmallerIsFinite
  <2>4. PICK f : f = [r \in gone |-> [kind |-> "kill", pane |-> r]]
    OBVIOUS
  <2>5. S = {f[r] : r \in DOMAIN f} /\ DOMAIN f = gone
    BY <2>1, <2>4
  <2>6. IsFiniteSet(S)
    BY <2>3, <2>5, ImageFinite
  <2>7. Kills(v) = SetToSeq(S)
    BY <1>2, <2>1 DEF Kills
  <2>8. Kills(v) \in Seq(S) /\ ToSet(Kills(v)) \subseteq S
    BY <2>6, <2>7, ListOfSet
  <2>9. \A m \in S : m.kind = "kill" /\ m.pane \in gone
    BY <2>1
  <2> QED BY <2>2, <2>8, <2>9 DEF IsList
<1> QED BY <1>1, <1>2

-----------------------------------------------------------------------------
(* The server: the windows, tabs and panes it has are among those it made, *)
(* and a pane whose removal is queued is in no tab.                        *)

RemoteTabs == Partial(Nat, [window : Nat, panes : SUBSET Nat])

Servers ==
  [tabs : RemoteTabs, leaving : SUBSET Nat, silent : SUBSET Nat, made : Nat]

SoundServer(srv) ==
  /\ srv \in Servers /\ Listing(srv.tabs, srv.made)
  /\ srv.leaving \subseteq 1 .. srv.made /\ srv.leaving \cap InTrees(srv) = {}

LEMMA TabsAreMade ==
  ASSUME NEW srv, SoundServer(srv)
  PROVE  /\ srv.made \in Nat /\ InTrees(srv) \subseteq 1 .. srv.made
         /\ RemoteWindows(srv) \subseteq 1 .. srv.made
         /\ PanesListed(srv.tabs) = InTrees(srv)
<1>1. srv.made \in Nat
  BY DEF SoundServer, Servers
<1>2. InTrees(srv) \subseteq 1 .. srv.made /\ RemoteWindows(srv) \subseteq 1 .. srv.made
  BY DEF SoundServer, Listing, InTrees, RemoteWindows
<1> QED BY <1>1, <1>2 DEF PanesListed, InTrees

Retabbed(srv, tabs, S, N) == [srv EXCEPT !.tabs = tabs, !.silent = S, !.made = N]

MayRetab(srv, tabs, S, N) ==
  /\ tabs \in RemoteTabs /\ S \in SUBSET Nat /\ N \in Nat /\ srv.made <= N
  /\ Listing(tabs, N) /\ PanesListed(tabs) \cap srv.leaving = {}

(* The tabs become those of a server that has made N panes. *)
LEMMA TabsReplaced ==
  ASSUME NEW srv, SoundServer(srv), NEW tabs, NEW S, NEW N, MayRetab(srv, tabs, S, N),
         NEW n, n = Retabbed(srv, tabs, S, N)
  PROVE  /\ SoundServer(n) /\ n.made = N /\ n.leaving = srv.leaving
         /\ InTrees(n) = PanesListed(tabs)
<1>1. srv \in Servers /\ srv.made \in Nat /\ srv.leaving \subseteq 1 .. srv.made
  BY DEF SoundServer, Servers
<1>2. n \in Servers /\ n.tabs = tabs /\ n.made = N /\ n.leaving = srv.leaving
  BY <1>1 DEF Servers, Retabbed, MayRetab
<1>3. srv.leaving \subseteq 1 .. N
  BY <1>1 DEF MayRetab
<1>4. InTrees(n) = PanesListed(tabs)
  BY <1>2 DEF InTrees, PanesListed
<1> QED BY <1>2, <1>3, <1>4 DEF SoundServer, MayRetab

LEMMA PaneLeaves ==
  ASSUME NEW srv, SoundServer(srv), NEW r
  PROVE  LET n == WithoutPane(srv, r)
         IN  /\ SoundServer(n) /\ n.made = srv.made /\ n.leaving = srv.leaving
             /\ InTrees(n) \subseteq InTrees(srv) \ {r}
<1>1. PICK rest, tabs, S, n :
        /\ rest = {t \in DOMAIN srv.tabs : srv.tabs[t].panes # {r}}
        /\ tabs = [t \in rest |-> RemoteTab(srv.tabs[t].window, srv.tabs[t].panes \ {r})]
        /\ S = srv.silent \ {r} /\ n = WithoutPane(srv, r)
  OBVIOUS
<1>2. srv \in Servers /\ srv.made \in Nat /\ srv.tabs \in RemoteTabs /\ S \in SUBSET Nat
  BY <1>1 DEF SoundServer, Servers
<1>3. n = Retabbed(srv, tabs, S, srv.made)
  <2>1. n = [srv EXCEPT !.tabs = tabs, !.silent = S]
    BY <1>1 DEF WithoutPane
  <2> QED BY <1>2, <2>1 DEF Servers, Retabbed
<1>4. /\ DOMAIN srv.tabs \subseteq Nat
      /\ \A t \in DOMAIN srv.tabs :
           srv.tabs[t].window \in Nat /\ srv.tabs[t].panes \subseteq Nat
  <2>1. PICK f, D : f = srv.tabs /\ D \in SUBSET Nat
                    /\ f \in [D -> [window : Nat, panes : SUBSET Nat]]
    BY <1>2 DEF RemoteTabs, Partial
  <2>2. DOMAIN f = D /\ \A t \in D : f[t].window \in Nat /\ f[t].panes \subseteq Nat
    BY <2>1
  <2> QED BY <2>1, <2>2
<1>5. /\ DOMAIN tabs = rest /\ rest \subseteq DOMAIN srv.tabs
      /\ \A t \in rest : /\ tabs[t] = RemoteTab(srv.tabs[t].window, srv.tabs[t].panes \ {r})
                         /\ tabs[t].window = srv.tabs[t].window
                         /\ tabs[t].panes = srv.tabs[t].panes \ {r}
  BY <1>1 DEF RemoteTab
<1>6. tabs \in RemoteTabs
  <2>1. \A t \in rest : tabs[t] \in [window : Nat, panes : SUBSET Nat]
    BY <1>4, <1>5 DEF RemoteTab
  <2>2. rest \in SUBSET Nat /\ tabs = [t \in rest |-> tabs[t]]
    BY <1>1, <1>4, <1>5
  <2>3. tabs \in [rest -> [window : Nat, panes : SUBSET Nat]]
    BY <2>1, <2>2
  <2> QED BY <2>2, <2>3 DEF RemoteTabs, Partial
<1>7. Listing(tabs, srv.made)
  <2>1. Listing(srv.tabs, srv.made)
    BY DEF SoundServer, Listing
  <2>2. DOMAIN tabs \subseteq 1 .. srv.made
    BY <1>5, <2>1 DEF Listing
  <2>3. ASSUME NEW t \in DOMAIN tabs
        PROVE  tabs[t].window \in 1 .. srv.made /\ tabs[t].panes \subseteq 1 .. srv.made
    BY <1>5, <2>1 DEF Listing
  <2> QED BY <2>2, <2>3 DEF Listing
<1>8. PanesListed(tabs) \subseteq InTrees(srv) \ {r}
  <2>1. ASSUME NEW t \in DOMAIN tabs
        PROVE  tabs[t].panes \subseteq InTrees(srv) \ {r}
    <3>1. t \in DOMAIN srv.tabs /\ tabs[t].panes = srv.tabs[t].panes \ {r}
      BY <1>5
    <3>2. srv.tabs[t].panes \subseteq InTrees(srv)
      BY <3>1 DEF InTrees
    <3> QED BY <3>1, <3>2
  <2> QED BY <2>1 DEF PanesListed
<1>9. PanesListed(tabs) \cap srv.leaving = {}
  BY <1>8 DEF SoundServer
<1>10. MayRetab(srv, tabs, S, srv.made)
  BY <1>2, <1>6, <1>7, <1>9 DEF MayRetab
<1>11. /\ SoundServer(n) /\ n.made = srv.made /\ n.leaving = srv.leaving
       /\ InTrees(n) = PanesListed(tabs)
  BY <1>3, <1>10, TabsReplaced
<1> QED BY <1>1, <1>8, <1>11

(* One tab is new, or another. *)
LEMMA OneTabListed ==
  ASSUME NEW tabs, tabs \in RemoteTabs, NEW N, N \in Nat, Listing(tabs, N),
         NEW t, t \in 1 .. N + 1, NEW w, w \in 1 .. N + 1,
         NEW P, P \subseteq 1 .. N + 1,
         NEW other, other = Mapped(tabs, t, RemoteTab(w, P))
  PROVE  /\ other \in RemoteTabs /\ Listing(other, N + 1)
         /\ PanesListed(other) \subseteq PanesListed(tabs) \cup P
<1>1. PICK x : x = RemoteTab(w, P)
  OBVIOUS
<1>2. /\ x \in [window : Nat, panes : SUBSET Nat] /\ x.window = w /\ x.panes = P
      /\ t \in Nat
  BY <1>1 DEF RemoteTab
<1>3. other \in RemoteTabs
  BY <1>1, <1>2, MappedIn DEF RemoteTabs
<1>4. /\ DOMAIN other = DOMAIN tabs \cup {t} /\ other[t] = x
      /\ \A z \in DOMAIN tabs : z # t => other[z] = tabs[z]
  BY <1>1 DEF Mapped
<1>5. 1 .. N \subseteq 1 .. N + 1
  OBVIOUS
<1>6. \A z \in DOMAIN other :
        other[z].window \in 1 .. N + 1 /\ other[z].panes \subseteq 1 .. N + 1
  BY <1>2, <1>4, <1>5 DEF Listing
<1>7. Listing(other, N + 1)
  BY <1>4, <1>5, <1>6 DEF Listing
<1>8. PanesListed(other) \subseteq PanesListed(tabs) \cup P
  <2>1. ASSUME NEW z \in DOMAIN other
        PROVE  other[z].panes \subseteq PanesListed(tabs) \cup P
    BY <1>2, <1>4 DEF PanesListed
  <2> QED BY <2>1 DEF PanesListed
<1> QED BY <1>3, <1>7, <1>8

LEMMA TabMade ==
  ASSUME NEW srv, SoundServer(srv), NEW r, r \in 1 .. srv.made + 1, r \notin srv.leaving,
         NEW w, w \in 1 .. srv.made + 1
  PROVE  LET n == NewTab(srv, r, w, srv.made + 1)
         IN  /\ SoundServer(n) /\ n.made = srv.made + 1
             /\ InTrees(n) \subseteq InTrees(srv) \cup {r}
<1>1. PICK N, tabs, n :
        /\ N = srv.made /\ tabs = Mapped(srv.tabs, N + 1, RemoteTab(w, {r}))
        /\ n = NewTab(srv, r, w, srv.made + 1)
  OBVIOUS
<1>2. /\ srv \in Servers /\ N \in Nat /\ srv.tabs \in RemoteTabs
      /\ srv.silent \in SUBSET Nat /\ Listing(srv.tabs, N)
  BY <1>1 DEF SoundServer, Servers
<1>3. n = Retabbed(srv, tabs, srv.silent, N + 1)
  BY <1>1, <1>2 DEF NewTab, Servers, Retabbed
<1>4. N + 1 \in 1 .. N + 1 /\ w \in 1 .. N + 1 /\ {r} \subseteq 1 .. N + 1
  BY <1>1, <1>2
<1>5. /\ tabs \in RemoteTabs /\ Listing(tabs, N + 1)
      /\ PanesListed(tabs) \subseteq PanesListed(srv.tabs) \cup {r}
  BY <1>1, <1>2, <1>4, OneTabListed
<1>6. PanesListed(srv.tabs) = InTrees(srv) /\ InTrees(srv) \cap srv.leaving = {}
  BY TabsAreMade DEF SoundServer
<1>7. PanesListed(tabs) \cap srv.leaving = {}
  BY <1>5, <1>6
<1>8. MayRetab(srv, tabs, srv.silent, N + 1)
  BY <1>1, <1>2, <1>5, <1>7 DEF MayRetab
<1>9. SoundServer(n) /\ n.made = N + 1 /\ InTrees(n) = PanesListed(tabs)
  BY <1>3, <1>8, TabsReplaced
<1> QED BY <1>1, <1>5, <1>6, <1>9

LEMMA SplitMade ==
  ASSUME NEW srv, SoundServer(srv), NEW t, t \in DOMAIN srv.tabs
  PROVE  LET n == NewSplit(srv, t)
         IN  /\ SoundServer(n) /\ n.made = srv.made + 1
             /\ InTrees(n) \subseteq InTrees(srv) \cup {srv.made + 1}
<1>1. PICK N, w, P, tabs, S, n :
        /\ N = srv.made /\ w = srv.tabs[t].window /\ P = srv.tabs[t].panes \cup {N + 1}
        /\ tabs = Mapped(srv.tabs, t, RemoteTab(w, P)) /\ S = srv.silent \cup {N + 1}
        /\ n = NewSplit(srv, t)
  OBVIOUS
<1>2. /\ srv \in Servers /\ N \in Nat /\ srv.tabs \in RemoteTabs
      /\ srv.silent \in SUBSET Nat /\ Listing(srv.tabs, N)
  BY <1>1 DEF SoundServer, Servers
<1>3. n = Retabbed(srv, tabs, S, N + 1)
  BY <1>1, <1>2 DEF NewSplit, Servers, Retabbed
<1>4. t \in 1 .. N + 1 /\ w \in 1 .. N + 1 /\ P \subseteq 1 .. N + 1
  <2>1. t \in 1 .. N /\ w \in 1 .. N /\ srv.tabs[t].panes \subseteq 1 .. N
    BY <1>1, <1>2 DEF Listing
  <2>2. 1 .. N \subseteq 1 .. N + 1 /\ N + 1 \in 1 .. N + 1
    BY <1>2
  <2> QED BY <1>1, <2>1, <2>2
<1>5. /\ tabs \in RemoteTabs /\ Listing(tabs, N + 1)
      /\ PanesListed(tabs) \subseteq PanesListed(srv.tabs) \cup P
  BY <1>1, <1>2, <1>4, OneTabListed
<1>6. /\ PanesListed(srv.tabs) = InTrees(srv) /\ InTrees(srv) \cap srv.leaving = {}
      /\ srv.leaving \subseteq 1 .. N /\ srv.tabs[t].panes \subseteq InTrees(srv)
  BY <1>1, TabsAreMade DEF SoundServer, InTrees
<1>7. PanesListed(tabs) \subseteq InTrees(srv) \cup {N + 1}
  BY <1>1, <1>5, <1>6
<1>8. PanesListed(tabs) \cap srv.leaving = {}
  <2>1. N + 1 \notin 1 .. N
    BY <1>2
  <2> QED BY <1>6, <1>7, <2>1
<1>9. MayRetab(srv, tabs, S, N + 1)
  <2>1. N + 1 \in Nat /\ srv.made <= N + 1 /\ S \in SUBSET Nat
    BY <1>1, <1>2
  <2> QED BY <1>5, <1>8, <2>1 DEF MayRetab
<1>10. SoundServer(n) /\ n.made = N + 1 /\ InTrees(n) = PanesListed(tabs)
  BY <1>3, <1>9, TabsReplaced
<1> QED BY <1>1, <1>7, <1>10

LEMMA LeavingSet ==
  ASSUME NEW srv, SoundServer(srv), NEW L, L \subseteq 1 .. srv.made,
         L \cap InTrees(srv) = {}, NEW n, n = [srv EXCEPT !.leaving = L]
  PROVE  SoundServer(n) /\ n.made = srv.made /\ InTrees(n) = InTrees(srv)
<1>1. srv \in Servers /\ srv.made \in Nat
  BY DEF SoundServer, Servers
<1>2. L \in SUBSET Nat
  BY <1>1
<1>3. n \in Servers /\ n.tabs = srv.tabs /\ n.made = srv.made /\ n.leaving = L
  BY <1>1, <1>2 DEF Servers
<1> QED BY <1>3 DEF SoundServer, InTrees

LEMMA SilentSet ==
  ASSUME NEW srv, SoundServer(srv), NEW r, NEW n, n = [srv EXCEPT !.silent = @ \ {r}]
  PROVE  SoundServer(n) /\ n.made = srv.made /\ InTrees(n) = InTrees(srv)
<1>1. srv \in Servers /\ srv.silent \in SUBSET Nat
  BY DEF SoundServer, Servers
<1>2. /\ n \in Servers /\ n.tabs = srv.tabs /\ n.made = srv.made
      /\ n.leaving = srv.leaving
  BY <1>1 DEF Servers
<1> QED BY <1>2 DEF SoundServer, InTrees

-----------------------------------------------------------------------------
(* The invariant.                                                          *)

(* A request is for what the server has made, a kill is wanted, and the    *)
(* removal to look at with a list is of a pane that is gone.               *)
UpFits(m, N, C, I) ==
  /\ m.kind \in {"list", "kill", "spawn", "split"}
  /\ m.kind = "list" => m.then = None \/ m.then \in (1 .. N) \ I
  /\ m.kind \in {"kill", "split"} => m.pane \in 1 .. N
  /\ m.kind = "kill" => m.pane \in C \/ m.pane \notin I
  /\ m.kind = "spawn" => m.window \in {None} \cup 1 .. N /\ m.into \in Window

DownFits(m, N, I) ==
  /\ m.kind \in {"tabs", "removed", "output", "listed", "spawned", "splitted", "failed"}
  /\ m.kind = "removed" => m.pane \in (1 .. N) \ I
  /\ m.kind = "listed" =>
       Listing(m.tabs, N) /\ (m.then = None \/ m.then \in (1 .. N) \ I)
  /\ m.kind = "spawned" =>
       m.pane \in 1 .. N /\ m.tab \in 1 .. N /\ m.window \in 1 .. N /\ m.into \in Window
  /\ m.kind = "splitted" => m.pane \in 1 .. N

IsAnswer(m) == m.kind \in {"spawned", "splitted"}

(* When an answer is read, its pane is not among those the client knows:   *)
(* no list with it comes before, and no other answer brings it.            *)
AnswersNew(q, K) ==
  \A i \in DOMAIN q : IsAnswer(q[i]) =>
    /\ q[i].pane \notin K
    /\ \A j \in DOMAIN q :
         j < i /\ q[j].kind = "listed" => q[i].pane \notin PanesListed(q[j].tabs)
    /\ \A j \in DOMAIN q : IsAnswer(q[j]) /\ q[j].pane = q[i].pane => j = i

MirrorInv ==
  /\ Mirrors(View, server.made) /\ Exact(View)
  /\ Wanted(View, closed, InTrees(server))

HistoryInv ==
  /\ closed \cup unplaced \subseteq 1 .. server.made
  /\ opening \subseteq Window \cup {None} /\ IsFiniteSet(opening)

UpInv ==
  IsList(up) /\ \A m \in ToSet(up) : UpFits(m, server.made, closed, InTrees(server))

DownInv ==
  /\ IsList(down) /\ \A m \in ToSet(down) : DownFits(m, server.made, InTrees(server))
  /\ AnswersNew(down, Known(View))

ClientInv ==
  SoundServer(server) /\ MirrorInv /\ HistoryInv /\ UpInv /\ DownInv

LEMMA KnownIsMade ==
  ASSUME NEW N, NEW v, Mirrors(v, N) PROVE Known(v) \subseteq 1 .. N
BY DEF Known, Mirrors

LEMMA MirrorsMore ==
  ASSUME NEW N \in Nat, NEW M \in Nat, N <= M, NEW v, Mirrors(v, N)
  PROVE  Mirrors(v, M)
<1>1. 1 .. N \subseteq 1 .. M
  OBVIOUS
<1>2. /\ DOMAIN v.client.pane \subseteq 1 .. M /\ DOMAIN v.client.tab \subseteq 1 .. M
      /\ DOMAIN v.client.window \subseteq 1 .. M
      /\ \A p \in DOMAIN v.client.image : v.client.image[p] \in 1 .. M
  BY <1>1 DEF Mirrors
<1> QED BY <1>2 DEF Mirrors

LEMMA WantedStill ==
  ASSUME NEW N, NEW v, Mirrors(v, N), NEW C, NEW I, Wanted(v, C, I),
         NEW J, J \cap 1 .. N \subseteq I
  PROVE  Wanted(v, C \cap J, J)
<1>1. \A p \in DOMAIN v.client.image : v.client.image[p] \in J => v.client.image[p] \in I
  BY DEF Mirrors
<1>2. v.mux.panes \subseteq DOMAIN v.client.image
  BY DEF Mirrors
<1> QED BY <1>1, <1>2 DEF Wanted

LEMMA AnswersAppended ==
  ASSUME NEW q, IsList(q), NEW r, IsList(r), NEW N \in Nat, NEW K, K \subseteq 1 .. N,
         AnswersNew(q, K),
         \A i \in DOMAIN q :
           /\ IsAnswer(q[i]) => q[i].pane \in 1 .. N
           /\ q[i].kind = "listed" => PanesListed(q[i].tabs) \subseteq 1 .. N,
         \A i \in DOMAIN r : IsAnswer(r[i]) =>
           r[i].pane = N + 1 /\ \A j \in DOMAIN r : j = i \/ r[j].kind = "tabs"
  PROVE  AnswersNew(q \o r, K)
<1>1. PICK s, n, k : s = q \o r /\ n = Len(q) /\ k = Len(r)
  OBVIOUS
<1>2. /\ n \in Nat /\ k \in Nat /\ DOMAIN q = 1 .. n /\ DOMAIN r = 1 .. k
      /\ DOMAIN s = 1 .. n + k
      /\ \A i \in 1 .. n + k : s[i] = IF i <= n THEN q[i] ELSE r[i - n]
  BY <1>1, Joined
<1>3. \A i \in DOMAIN s : i <= n => i \in DOMAIN q /\ s[i] = q[i]
  BY <1>2
<1>4. \A i \in DOMAIN s : ~ (i <= n) => i - n \in DOMAIN r /\ s[i] = r[i - n]
  BY <1>2
<1>5. N + 1 \notin 1 .. N
  OBVIOUS
<1>6. ASSUME NEW i \in DOMAIN s, IsAnswer(s[i]), i <= n
      PROVE  /\ s[i].pane \notin K
             /\ \A j \in DOMAIN s :
                  j < i /\ s[j].kind = "listed" => s[i].pane \notin PanesListed(s[j].tabs)
             /\ \A j \in DOMAIN s : IsAnswer(s[j]) /\ s[j].pane = s[i].pane => j = i
  <2>1. i \in DOMAIN q /\ s[i] = q[i] /\ s[i].pane \in 1 .. N
    BY <1>3, <1>6
  <2>2. \A j \in DOMAIN s : j < i => j <= n
    BY <1>2, <1>6
  <2>3. \A j \in DOMAIN s :
          j < i /\ s[j].kind = "listed" => s[i].pane \notin PanesListed(s[j].tabs)
    BY <1>3, <1>6, <2>1, <2>2 DEF AnswersNew
  <2>4. ASSUME NEW j \in DOMAIN s, IsAnswer(s[j]), s[j].pane = s[i].pane
        PROVE  j = i
    <3>1. CASE j <= n
      BY <1>3, <1>6, <2>1, <2>4, <3>1 DEF AnswersNew
    <3>2. CASE ~ (j <= n)
      BY <1>4, <1>5, <2>1, <2>4, <3>2
    <3> QED BY <3>1, <3>2
  <2> QED BY <1>6, <2>1, <2>3, <2>4 DEF AnswersNew
<1>7. ASSUME NEW i \in DOMAIN s, IsAnswer(s[i]), ~ (i <= n)
      PROVE  /\ s[i].pane \notin K
             /\ \A j \in DOMAIN s :
                  j < i /\ s[j].kind = "listed" => s[i].pane \notin PanesListed(s[j].tabs)
             /\ \A j \in DOMAIN s : IsAnswer(s[j]) /\ s[j].pane = s[i].pane => j = i
  <2>1. /\ i - n \in DOMAIN r /\ s[i] = r[i - n] /\ s[i].pane = N + 1
        /\ \A j \in DOMAIN r : j = i - n \/ r[j].kind = "tabs"
    BY <1>4, <1>7
  <2>2. ASSUME NEW j \in DOMAIN s, ~ (j <= n), j # i
        PROVE  s[j].kind = "tabs"
    <3>1. j - n \in DOMAIN r /\ s[j] = r[j - n] /\ j - n # i - n
      BY <1>2, <1>4, <2>2
    <3> QED BY <2>1, <3>1
  <2>3. ASSUME NEW j \in DOMAIN s, j < i, s[j].kind = "listed"
        PROVE  s[i].pane \notin PanesListed(s[j].tabs)
    <3>1. CASE j <= n
      BY <1>3, <1>5, <2>1, <2>3, <3>1
    <3>2. CASE ~ (j <= n)
      <4>1. j # i
        BY <1>2, <2>3
      <4> QED BY <2>2, <2>3, <3>2, <4>1
    <3> QED BY <3>1, <3>2
  <2>4. ASSUME NEW j \in DOMAIN s, IsAnswer(s[j]), s[j].pane = s[i].pane
        PROVE  j = i
    <3>1. CASE j <= n
      BY <1>3, <1>5, <2>1, <2>4, <3>1
    <3>2. CASE ~ (j <= n)
      BY <2>2, <2>4, <3>2 DEF IsAnswer
    <3> QED BY <3>1, <3>2
  <2>5. s[i].pane \notin K
    BY <1>5, <2>1
  <2> QED BY <2>3, <2>4, <2>5
<1>8. AnswersNew(s, K)
  BY <1>6, <1>7 DEF AnswersNew
<1> QED BY <1>1, <1>8

(* An answer that is still under way stays new. *)
LEMMA AnswersLeft ==
  ASSUME NEW q, IsList(q), NEW K, AnswersNew(q, K), NEW i \in DOMAIN q,
         NEW R, \A k \in DOMAIN q : k # i /\ IsAnswer(q[k]) => q[k].pane \notin R,
         NEW L, L \subseteq K \cup R
  PROVE  AnswersNew(RemoveAt(q, i), L)
<1>1. PICK s, n, h :
        /\ s = RemoveAt(q, i) /\ n = Len(q)
        /\ h = [j \in DOMAIN s |-> IF j < i THEN j ELSE j + 1]
  OBVIOUS
<1>2. /\ n \in Nat /\ DOMAIN q = 1 .. n /\ i \in 1 .. n /\ DOMAIN s = 1 .. n - 1
      /\ \A j \in DOMAIN s : s[j] = q[IF j < i THEN j ELSE j + 1]
  BY <1>1, OneTaken
<1>3. \A j \in DOMAIN s : h[j] \in DOMAIN q /\ h[j] # i /\ s[j] = q[h[j]]
  BY <1>1, <1>2
<1>4. \A j, k \in DOMAIN s : (j < k => h[j] < h[k]) /\ (h[j] = h[k] => j = k)
  BY <1>1, <1>2
<1>5. ASSUME NEW k \in DOMAIN s, IsAnswer(s[k])
      PROVE  /\ s[k].pane \notin L
             /\ \A j \in DOMAIN s :
                  j < k /\ s[j].kind = "listed" => s[k].pane \notin PanesListed(s[j].tabs)
             /\ \A j \in DOMAIN s : IsAnswer(s[j]) /\ s[j].pane = s[k].pane => j = k
  <2>1. /\ h[k] \in DOMAIN q /\ h[k] # i /\ s[k] = q[h[k]] /\ IsAnswer(q[h[k]])
    BY <1>3, <1>5
  <2>2. s[k].pane \notin K /\ s[k].pane \notin R
    BY <2>1 DEF AnswersNew
  <2>3. ASSUME NEW j \in DOMAIN s, j < k, s[j].kind = "listed"
        PROVE  s[k].pane \notin PanesListed(s[j].tabs)
    <3>1. h[j] \in DOMAIN q /\ s[j] = q[h[j]] /\ h[j] < h[k]
      BY <1>3, <1>4, <2>3
    <3> QED BY <2>1, <2>3, <3>1 DEF AnswersNew
  <2>4. ASSUME NEW j \in DOMAIN s, IsAnswer(s[j]), s[j].pane = s[k].pane
        PROVE  j = k
    <3>1. h[j] \in DOMAIN q /\ s[j] = q[h[j]]
      BY <1>3
    <3>2. h[j] = h[k]
      BY <2>1, <2>4, <3>1 DEF AnswersNew
    <3> QED BY <1>4, <3>2
  <2> QED BY <2>2, <2>3, <2>4
<1>6. AnswersNew(s, L)
  BY <1>5 DEF AnswersNew
<1> QED BY <1>1, <1>6

-----------------------------------------------------------------------------
(* What every step of the server, and every step of the client, keeps.     *)

LEMMA UpFitsStill ==
  ASSUME NEW N \in Nat, NEW M \in Nat, N <= M, NEW C, NEW I, NEW J,
         J \cap 1 .. N \subseteq I, NEW m, UpFits(m, N, C, I)
  PROVE  UpFits(m, M, C \cap J, J)
<1>1. 1 .. N \subseteq 1 .. M
  OBVIOUS
<1> QED BY <1>1 DEF UpFits

LEMMA DownFitsStill ==
  ASSUME NEW N \in Nat, NEW M \in Nat, N <= M, NEW I, NEW J,
         J \cap 1 .. N \subseteq I, NEW m, DownFits(m, N, I)
  PROVE  DownFits(m, M, J)
<1>1. 1 .. N \subseteq 1 .. M
  OBVIOUS
<1>2. Listing(m.tabs, N) => Listing(m.tabs, M)
  BY <1>1 DEF Listing
<1> QED BY <1>1, <1>2 DEF DownFits

(* What the server tells when it becomes srv, having made N panes before.  *)
NewsFit(pushed, N, srv) ==
  /\ IsList(pushed)
  /\ \A i \in DOMAIN pushed :
       /\ DownFits(pushed[i], srv.made, InTrees(srv))
       /\ IsAnswer(pushed[i]) =>
            pushed[i].pane = N + 1 /\ \A j \in DOMAIN pushed : j = i \/ pushed[j].kind = "tabs"

(* From srv to n, the server has no pane back that it lost. *)
Moves(srv, n) ==
  /\ SoundServer(n) /\ srv.made <= n.made
  /\ InTrees(n) \cap 1 .. srv.made \subseteq InTrees(srv)

LEMMA ServerMoved ==
  ASSUME ClientInv, NEW srv, Moves(server, srv), ServerIs(srv),
         IsList(up'), ToSet(up') \subseteq ToSet(up),
         NEW pushed, NewsFit(pushed, server.made, srv), down' = down \o pushed
  PROVE  ClientInv'
<1>1. PICK N, M, I, J : /\ N = server.made /\ M = srv.made
                        /\ I = InTrees(server) /\ J = InTrees(srv)
  OBVIOUS
<1>2. /\ server' = srv /\ closed' = closed \cap J /\ unplaced' = unplaced \cap J
      /\ mux' = mux /\ client' = client /\ opening' = opening
  BY <1>1 DEF ServerIs, clientVars
<1>3. N \in Nat /\ M \in Nat /\ N <= M /\ J \cap 1 .. N \subseteq I /\ J \subseteq 1 .. M
  BY <1>1, TabsAreMade DEF ClientInv, Moves
<1>4. View' = View
  BY <1>2 DEF View
<1>5. Mirrors(View, N) /\ Exact(View) /\ Wanted(View, closed, I)
  BY <1>1 DEF ClientInv, MirrorInv
<1>6. MirrorInv'
  <2>1. Mirrors(View, M)
    BY <1>3, <1>5, MirrorsMore
  <2>2. Wanted(View, closed \cap J, J)
    BY <1>3, <1>5, WantedStill
  <2>3. Mirrors(View', server'.made) /\ Exact(View') /\ Wanted(View', closed', InTrees(server'))
    BY <1>1, <1>2, <1>4, <1>5, <2>1, <2>2
  <2> QED BY <2>3 DEF MirrorInv
<1>7. HistoryInv'
  <2>1. 1 .. N \subseteq 1 .. M
    BY <1>3
  <2>2. closed' \cup unplaced' \subseteq 1 .. server'.made
    BY <1>1, <1>2, <1>3
  <2> QED BY <1>2, <2>2 DEF ClientInv, HistoryInv
<1>8. UpInv'
  <2>1. \A m \in ToSet(up) : UpFits(m, N, closed, I)
    BY <1>1 DEF ClientInv, UpInv
  <2>2. \A m \in ToSet(up') : UpFits(m, M, closed \cap J, J)
    BY <1>3, <2>1, UpFitsStill
  <2>3. \A m \in ToSet(up') : UpFits(m, server'.made, closed', InTrees(server'))
    BY <1>1, <1>2, <2>2
  <2> QED BY <2>3 DEF UpInv
<1>9. IsList(down) /\ (\A m \in ToSet(down) : DownFits(m, N, I)) /\ AnswersNew(down, Known(View))
  BY <1>1 DEF ClientInv, DownInv
<1>10. /\ IsList(pushed) /\ \A i \in DOMAIN pushed : DownFits(pushed[i], M, J)
       /\ \A i \in DOMAIN pushed : IsAnswer(pushed[i]) =>
            pushed[i].pane = N + 1 /\ \A j \in DOMAIN pushed : j = i \/ pushed[j].kind = "tabs"
  BY <1>1 DEF NewsFit
<1>11. IsList(down') /\ ToSet(down') = ToSet(down) \cup ToSet(pushed)
  BY <1>9, <1>10, Joined
<1>12. \A m \in ToSet(down') : DownFits(m, M, J)
  <2>1. \A m \in ToSet(down) : DownFits(m, M, J)
    BY <1>3, <1>9, DownFitsStill
  <2>2. \A m \in ToSet(pushed) : DownFits(m, M, J)
    BY <1>10 DEF ToSet
  <2> QED BY <1>11, <2>1, <2>2
<1>13. AnswersNew(down', Known(View))
  <2>1. Known(View) \subseteq 1 .. N
    BY <1>5, KnownIsMade
  <2>2. ASSUME NEW i \in DOMAIN down
        PROVE  /\ IsAnswer(down[i]) => down[i].pane \in 1 .. N
               /\ down[i].kind = "listed" => PanesListed(down[i].tabs) \subseteq 1 .. N
    <3>1. DownFits(down[i], N, I)
      BY <1>9 DEF ToSet
    <3>2. IsAnswer(down[i]) => down[i].pane \in 1 .. N
      BY <3>1 DEF DownFits, IsAnswer
    <3>3. down[i].kind = "listed" => PanesListed(down[i].tabs) \subseteq 1 .. N
      BY <3>1 DEF DownFits, Listing, PanesListed
    <3> QED BY <3>2, <3>3
  <2> QED BY <1>3, <1>9, <1>10, <2>1, <2>2, AnswersAppended
<1>14. DownInv'
  <2>1. /\ IsList(down') /\ AnswersNew(down', Known(View'))
        /\ \A m \in ToSet(down') : DownFits(m, server'.made, InTrees(server'))
    BY <1>1, <1>2, <1>4, <1>11, <1>12, <1>13
  <2> QED BY <2>1 DEF DownInv
<1>15. SoundServer(server')
  BY <1>2 DEF Moves
<1> QED BY <1>6, <1>7, <1>8, <1>14, <1>15 DEF ClientInv

(* The view becomes v, and `sent` is sent.                                 *)
LEMMA ClientMoved ==
  ASSUME ClientInv, NEW v, Mirrors(v, server.made), Wanted(v, closed', InTrees(server)),
         NEW sent, Becomes(v, sent), IsList(sent),
         \A m \in ToSet(sent) : UpFits(m, server.made, closed', InTrees(server)),
         closed \subseteq closed', closed' \cup unplaced' \subseteq 1 .. server.made,
         opening' \subseteq Window \cup {None}, IsFiniteSet(opening'),
         IsList(down'), ToSet(down') \subseteq ToSet(down), AnswersNew(down', Known(v))
  PROVE  ClientInv'
<1>1. PICK N, I, k : N = server.made /\ I = InTrees(server) /\ k = Kills(v)
  OBVIOUS
<1>2. N \in Nat
  BY <1>1, TabsAreMade DEF ClientInv
<1>3. server' = server /\ up' = up \o k \o sent /\ Settles(v, mux', client')
  BY <1>1 DEF Becomes, Settles
<1>4. /\ Mirrors(View', N) /\ Exact(View') /\ Known(View') = Known(v)
      /\ Wanted(View', closed', I)
  <2>1. View' = [mux |-> mux', client |-> client']
    BY DEF View
  <2> QED BY <1>1, <1>2, <1>3, <2>1, Settled
<1>5. MirrorInv'
  BY <1>1, <1>3, <1>4 DEF MirrorInv
<1>6. HistoryInv'
  BY <1>3 DEF HistoryInv
<1>7. /\ IsList(k)
      /\ \A m \in ToSet(k) :
           m.kind = "kill" /\ m.pane \in 1 .. N /\ (m.pane \in closed' \/ m.pane \notin I)
  BY <1>1, <1>2, KillsFit
<1>8. IsList(up) /\ \A m \in ToSet(up) : UpFits(m, N, closed, I)
  BY <1>1 DEF ClientInv, UpInv
<1>9. IsList(up') /\ ToSet(up') = ToSet(up) \cup ToSet(k) \cup ToSet(sent)
  <2>1. IsList(up \o k) /\ ToSet(up \o k) = ToSet(up) \cup ToSet(k)
    BY <1>7, <1>8, Joined
  <2>2. /\ IsList((up \o k) \o sent)
        /\ ToSet((up \o k) \o sent) = ToSet(up \o k) \cup ToSet(sent)
    BY <2>1, Joined
  <2> QED BY <1>3, <2>1, <2>2
<1>10. \A m \in ToSet(up') : UpFits(m, N, closed', I)
  <2>1. \A m \in ToSet(up) : UpFits(m, N, closed', I)
    BY <1>8 DEF UpFits
  <2>2. \A m \in ToSet(k) : UpFits(m, N, closed', I)
    BY <1>7 DEF UpFits
  <2> QED BY <1>1, <1>9, <2>1, <2>2
<1>11. UpInv'
  BY <1>1, <1>3, <1>9, <1>10 DEF UpInv
<1>12. DownInv'
  <2>1. \A m \in ToSet(down') : DownFits(m, N, I)
    BY <1>1 DEF ClientInv, DownInv
  <2>2. AnswersNew(down', Known(View'))
    BY <1>4
  <2>3. server'.made = N /\ InTrees(server') = I
    BY <1>1, <1>3
  <2>4. \A m \in ToSet(down') : DownFits(m, server'.made, InTrees(server'))
    BY <2>1, <2>3
  <2> QED BY <2>2, <2>4 DEF DownInv
<1>13. SoundServer(server')
  BY <1>3 DEF ClientInv
<1> QED BY <1>5, <1>6, <1>11, <1>12, <1>13 DEF ClientInv

-----------------------------------------------------------------------------
(* The server's steps.                                                     *)

LEMMA NoNews == ASSUME NEW N, NEW srv PROVE NewsFit(<< >>, N, srv)
<1>1. IsList(<< >>) /\ DOMAIN << >> = {}
  BY ShortLists
<1> QED BY <1>1 DEF NewsFit

LEMMA OneNews ==
  ASSUME NEW N, NEW srv, NEW m, DownFits(m, srv.made, InTrees(srv)),
         IsAnswer(m) => m.pane = N + 1
  PROVE  NewsFit(<<m>>, N, srv)
<1>1. IsList(<<m>>) /\ DOMAIN <<m>> = 1 .. 1 /\ <<m>>[1] = m
  BY ShortLists
<1>2. \A i \in 1 .. 1 : i = 1
  OBVIOUS
<1> QED BY <1>1, <1>2 DEF NewsFit

LEMMA TabsFit ==
  ASSUME NEW N, NEW I
  PROVE  DownFits([kind |-> "tabs"], N, I) /\ ~ IsAnswer([kind |-> "tabs"])
BY DEF DownFits, IsAnswer

LEMMA TabsThen ==
  ASSUME NEW N, NEW srv, NEW m, DownFits(m, srv.made, InTrees(srv)),
         IsAnswer(m) => m.pane = N + 1
  PROVE  NewsFit(TabsPushed \o <<m>>, N, srv)
<1>1. PICK a, b, q : a = TabsPushed /\ b = <<m>> /\ q = a \o b
  OBVIOUS
<1>2. /\ IsList(a) /\ Len(a) = 1 /\ a[1] = [kind |-> "tabs"]
      /\ IsList(b) /\ Len(b) = 1 /\ b[1] = m
  BY <1>1, ShortLists DEF TabsPushed
<1>3. /\ IsList(q) /\ DOMAIN q = 1 .. 1 + 1
      /\ \A i \in 1 .. 1 + 1 : q[i] = IF i <= 1 THEN a[i] ELSE b[i - 1]
  <2>1. /\ IsList(a \o b) /\ DOMAIN (a \o b) = 1 .. Len(a) + Len(b)
        /\ \A i \in 1 .. Len(a) + Len(b) :
             (a \o b)[i] = IF i <= Len(a) THEN a[i] ELSE b[i - Len(a)]
    BY <1>2, Joined
  <2> QED BY <1>1, <1>2, <2>1
<1>4. DOMAIN q = {1, 2} /\ q[1] = [kind |-> "tabs"] /\ q[2] = m
  BY <1>2, <1>3
<1>5. q[1].kind = "tabs" /\ DownFits(q[1], srv.made, InTrees(srv)) /\ ~ IsAnswer(q[1])
  BY <1>4, TabsFit
<1>6. ASSUME NEW i \in DOMAIN q
      PROVE  /\ DownFits(q[i], srv.made, InTrees(srv))
             /\ IsAnswer(q[i]) => q[i].pane = N + 1 /\ \A j \in DOMAIN q : j = i \/ q[j].kind = "tabs"
  <2>1. CASE i = 1
    BY <1>5, <2>1
  <2>2. CASE i = 2
    <3>1. \A j \in DOMAIN q : j = 2 \/ q[j].kind = "tabs"
      BY <1>4, <1>5
    <3> QED BY <1>4, <2>2, <3>1
  <2> QED BY <1>4, <2>1, <2>2
<1> QED BY <1>1, <1>3, <1>6 DEF NewsFit

(* Pushes in a row. *)
LEMMA PushesFit ==
  ASSUME NEW N, NEW srv, NEW a, NewsFit(a, N, srv), \A i \in DOMAIN a : ~ IsAnswer(a[i]),
         NEW b, NewsFit(b, N, srv), \A i \in DOMAIN b : ~ IsAnswer(b[i])
  PROVE  NewsFit(a \o b, N, srv)
<1>1. PICK q : q = a \o b
  OBVIOUS
<1>2. /\ IsList(q) /\ DOMAIN a = 1 .. Len(a) /\ DOMAIN b = 1 .. Len(b)
      /\ DOMAIN q = 1 .. Len(a) + Len(b) /\ Len(a) \in Nat /\ Len(b) \in Nat
      /\ \A i \in 1 .. Len(a) + Len(b) : q[i] = IF i <= Len(a) THEN a[i] ELSE b[i - Len(a)]
  BY <1>1, Joined DEF NewsFit
<1>3. ASSUME NEW i \in DOMAIN q
      PROVE  DownFits(q[i], srv.made, InTrees(srv)) /\ ~ IsAnswer(q[i])
  <2>1. CASE i <= Len(a)
    <3>1. i \in DOMAIN a /\ q[i] = a[i]
      BY <1>2, <2>1
    <3> QED BY <3>1 DEF NewsFit
  <2>2. CASE ~ (i <= Len(a))
    <3>1. i - Len(a) \in DOMAIN b /\ q[i] = b[i - Len(a)]
      BY <1>2, <2>2
    <3> QED BY <3>1 DEF NewsFit
  <2> QED BY <2>1, <2>2
<1> QED BY <1>1, <1>2, <1>3 DEF NewsFit

LEMMA StillMoves ==
  ASSUME NEW srv, SoundServer(srv), NEW n, SoundServer(n), n.made = srv.made,
         InTrees(n) \subseteq InTrees(srv)
  PROVE  Moves(srv, n)
<1>1. srv.made \in Nat
  BY TabsAreMade
<1> QED BY <1>1 DEF Moves

LEMMA MakingMoves ==
  ASSUME NEW srv, SoundServer(srv), NEW n, SoundServer(n), n.made = srv.made + 1,
         InTrees(n) \subseteq InTrees(srv) \cup {srv.made + 1}
  PROVE  Moves(srv, n)
<1>1. srv.made \in Nat
  BY TabsAreMade
<1>2. srv.made <= n.made /\ srv.made + 1 \notin 1 .. srv.made
  BY <1>1
<1> QED BY <1>2 DEF Moves

LEMMA OthersKeep ==
  ASSUME ClientInv, NEW srv, Moves(server, srv), NEW pushed,
         NewsFit(pushed, server.made, srv), Others(srv, pushed)
  PROVE  ClientInv'
<1>1. ServerIs(srv) /\ down' = down \o pushed /\ up' = up
  BY DEF Others
<1>2. IsList(up)
  BY DEF ClientInv, UpInv
<1> QED BY <1>1, <1>2, ServerMoved

LEMMA AnswerKeeps ==
  ASSUME ClientInv, NEW i \in DOMAIN up, NEW srv, Moves(server, srv), NEW pushed,
         NewsFit(pushed, server.made, srv), Answer(i, srv, pushed)
  PROVE  ClientInv'
<1>1. ServerIs(srv) /\ down' = down \o pushed /\ up' = RemoveAt(up, i)
  BY DEF Answer
<1>2. IsList(up') /\ ToSet(up') \subseteq ToSet(up)
  BY <1>1, OneTaken DEF ClientInv, UpInv
<1> QED BY <1>1, <1>2, ServerMoved

LEMMA OtherTabKeeps ==
  ASSUME ClientInv, NEW w \in RemoteWindows(server) \cup {server.made + 1}, OtherTab(w)
  PROVE  ClientInv'
<1>1. PICK N, srv : N = server.made /\ srv = NewTab(server, N + 1, w, N + 1)
  OBVIOUS
<1>2. SoundServer(server) /\ N \in Nat /\ RemoteWindows(server) \subseteq 1 .. N
      /\ server.leaving \subseteq 1 .. N
  BY <1>1, TabsAreMade DEF ClientInv, SoundServer
<1>3. N + 1 \in 1 .. N + 1 /\ N + 1 \notin server.leaving /\ w \in 1 .. N + 1
  BY <1>1, <1>2
<1>4. /\ SoundServer(srv) /\ srv.made = N + 1
      /\ InTrees(srv) \subseteq InTrees(server) \cup {N + 1}
  BY <1>1, <1>2, <1>3, TabMade
<1>5. Moves(server, srv)
  BY <1>1, <1>2, <1>4, MakingMoves
<1>6. NewsFit(TabsPushed, N, srv)
  BY TabsFit, OneNews DEF TabsPushed
<1>7. Others(srv, TabsPushed)
  BY <1>1 DEF OtherTab
<1> QED BY <1>1, <1>5, <1>6, <1>7, OthersKeep

LEMMA OtherMoveKeeps ==
  ASSUME ClientInv, NEW w \in RemoteWindows(server) \cup {server.made + 1},
         NEW r \in InTrees(server), OtherMove(r, w)
  PROVE  ClientInv'
<1>1. PICK N, o, srv : /\ N = server.made /\ o = WithoutPane(server, r)
                       /\ srv = NewTab(o, r, w, N + 1)
  OBVIOUS
<1>2. /\ SoundServer(server) /\ N \in Nat /\ RemoteWindows(server) \subseteq 1 .. N
      /\ InTrees(server) \subseteq 1 .. N /\ server.leaving \cap InTrees(server) = {}
  BY <1>1, TabsAreMade DEF ClientInv, SoundServer
<1>3. /\ SoundServer(o) /\ o.made = N /\ o.leaving = server.leaving
      /\ InTrees(o) \subseteq InTrees(server) \ {r}
  BY <1>1, <1>2, PaneLeaves
<1>4. r \in 1 .. o.made + 1 /\ r \notin o.leaving /\ w \in 1 .. o.made + 1
  <2>1. 1 .. N \subseteq 1 .. N + 1 /\ N + 1 \in 1 .. N + 1
    BY <1>2
  <2> QED BY <1>1, <1>2, <1>3, <2>1
<1>5. srv = NewTab(o, r, w, o.made + 1)
  BY <1>1, <1>3
<1>6. SoundServer(srv) /\ srv.made = o.made + 1 /\ InTrees(srv) \subseteq InTrees(o) \cup {r}
  BY <1>3, <1>4, <1>5, TabMade
<1>7. srv.made = N + 1 /\ InTrees(srv) \subseteq InTrees(server)
  BY <1>3, <1>6
<1>8. Moves(server, srv)
  BY <1>1, <1>2, <1>6, <1>7, MakingMoves
<1>9. NewsFit(TabsPushed, N, srv)
  BY TabsFit, OneNews DEF TabsPushed
<1>10. Others(srv, TabsPushed)
  BY <1>1 DEF OtherMove
<1> QED BY <1>1, <1>8, <1>9, <1>10, OthersKeep

LEMMA OtherSplitKeeps ==
  ASSUME ClientInv, NEW t \in DOMAIN server.tabs, OtherSplit(t)
  PROVE  ClientInv'
<1>1. PICK srv : srv = NewSplit(server, t)
  OBVIOUS
<1>2. SoundServer(server)
  BY DEF ClientInv
<1>3. Moves(server, srv)
  BY <1>1, <1>2, SplitMade, MakingMoves
<1> QED BY <1>1, <1>3, NoNews, OthersKeep DEF OtherSplit

LEMMA OtherResizeKeeps ==
  ASSUME ClientInv, OtherResize PROVE ClientInv'
<1>1. SoundServer(server)
  BY DEF ClientInv
<1>2. Moves(server, server)
  BY <1>1, StillMoves
<1>3. NewsFit(TabsPushed, server.made, server)
  BY TabsFit, OneNews DEF TabsPushed
<1> QED BY <1>2, <1>3, OthersKeep DEF OtherResize

LEMMA OutputKeeps ==
  ASSUME ClientInv, NEW r, Output(r) PROVE ClientInv'
<1>1. PICK srv, m : /\ srv = [server EXCEPT !.silent = @ \ {r}]
                    /\ m = [kind |-> "output", pane |-> r]
  OBVIOUS
<1>2. SoundServer(server)
  BY DEF ClientInv
<1>3. SoundServer(srv) /\ srv.made = server.made /\ InTrees(srv) = InTrees(server)
  BY <1>1, <1>2, SilentSet
<1>4. Moves(server, srv)
  BY <1>2, <1>3, StillMoves
<1>5. DownFits(m, srv.made, InTrees(srv)) /\ ~ IsAnswer(m)
  BY <1>1 DEF DownFits, IsAnswer
<1>6. NewsFit(<<m>>, server.made, srv)
  BY <1>5, OneNews
<1>7. Others(srv, <<m>>)
  BY <1>1 DEF Output, OutputPushed
<1> QED BY <1>4, <1>6, <1>7, OthersKeep

LEMMA ExitKeeps ==
  ASSUME ClientInv, NEW r \in InTrees(server), Exit(r) PROVE ClientInv'
<1>1. PICK o, L, srv : /\ o = WithoutPane(server, r) /\ L = o.leaving \cup {r}
                       /\ srv = [o EXCEPT !.leaving = L]
  OBVIOUS
<1>2. /\ SoundServer(server) /\ InTrees(server) \subseteq 1 .. server.made
      /\ server.leaving \subseteq 1 .. server.made /\ server.leaving \cap InTrees(server) = {}
  BY TabsAreMade DEF ClientInv, SoundServer
<1>3. /\ SoundServer(o) /\ o.made = server.made /\ o.leaving = server.leaving
      /\ InTrees(o) \subseteq InTrees(server) \ {r}
  BY <1>1, <1>2, PaneLeaves
<1>4. L \subseteq 1 .. o.made /\ L \cap InTrees(o) = {}
  BY <1>1, <1>2, <1>3
<1>5. SoundServer(srv) /\ srv.made = o.made /\ InTrees(srv) = InTrees(o)
  BY <1>1, <1>3, <1>4, LeavingSet
<1>6. Moves(server, srv)
  <2>1. srv.made = server.made /\ InTrees(srv) \subseteq InTrees(server)
    BY <1>3, <1>5
  <2> QED BY <1>2, <1>5, <2>1, StillMoves
<1>7. Others(srv, <<>>)
  BY <1>1 DEF Exit
<1> QED BY <1>6, <1>7, NoNews, OthersKeep

(* The push that a pane is gone, and what may come after it.              *)
LEMMA RemovedFits ==
  ASSUME NEW N, NEW srv, NEW r, r \in 1 .. srv.made, r \notin InTrees(srv)
  PROVE  /\ NewsFit(RemovedPushed(r), N, srv)
         /\ \A rest \in {<<>>, OutputPushed(r)} : NewsFit(RemovedPushed(r) \o rest, N, srv)
<1>1. PICK m, n : m = [kind |-> "removed", pane |-> r] /\ n = [kind |-> "output", pane |-> r]
  OBVIOUS
<1>2. /\ DownFits(m, srv.made, InTrees(srv)) /\ ~ IsAnswer(m)
      /\ DownFits(n, srv.made, InTrees(srv)) /\ ~ IsAnswer(n)
  BY <1>1 DEF DownFits, IsAnswer
<1>3. NewsFit(<<m>>, N, srv) /\ NewsFit(<<n>>, N, srv) /\ NewsFit(<<>>, N, srv)
  BY <1>2, OneNews, NoNews
<1>4. /\ \A i \in DOMAIN <<m>> : ~ IsAnswer(<<m>>[i])
      /\ \A i \in DOMAIN <<n>> : ~ IsAnswer(<<n>>[i])
      /\ DOMAIN <<>> = {}
  <2>1. /\ DOMAIN <<m>> = {1} /\ <<m>>[1] = m
        /\ DOMAIN <<n>> = {1} /\ <<n>>[1] = n /\ DOMAIN <<>> = {}
    OBVIOUS
  <2> QED BY <1>2, <2>1
<1>5. NewsFit(<<m>> \o <<>>, N, srv) /\ NewsFit(<<m>> \o <<n>>, N, srv)
  BY <1>3, <1>4, PushesFit
<1> QED BY <1>1, <1>3, <1>5 DEF RemovedPushed, OutputPushed

LEMMA RemoteRemoveKeeps ==
  ASSUME ClientInv, NEW r \in server.leaving, RemoteRemove(r) PROVE ClientInv'
<1>1. PICK L, srv : L = server.leaving \ {r} /\ srv = [server EXCEPT !.leaving = L]
  OBVIOUS
<1>2. /\ SoundServer(server)
      /\ server.leaving \subseteq 1 .. server.made /\ server.leaving \cap InTrees(server) = {}
  BY DEF ClientInv, SoundServer
<1>3. L \subseteq 1 .. server.made /\ L \cap InTrees(server) = {}
  BY <1>1, <1>2
<1>4. SoundServer(srv) /\ srv.made = server.made /\ InTrees(srv) = InTrees(server)
  BY <1>1, <1>2, <1>3, LeavingSet
<1>5. Moves(server, srv)
  BY <1>2, <1>4, StillMoves
<1>6. r \in 1 .. srv.made /\ r \notin InTrees(srv)
  BY <1>2, <1>4
<1>7. NewsFit(RemovedPushed(r), server.made, srv)
  BY <1>6, RemovedFits
<1>8. Others(srv, RemovedPushed(r))
  BY <1>1 DEF RemoteRemove
<1> QED BY <1>5, <1>7, <1>8, OthersKeep

LEMMA ServeListKeeps ==
  ASSUME ClientInv, NEW i \in DOMAIN up, ServeList(i) PROVE ClientInv'
<1>1. PICK m : m = [kind |-> "listed", then |-> up[i].then, tabs |-> server.tabs]
  OBVIOUS
<1>2. SoundServer(server) /\ Moves(server, server)
  BY StillMoves DEF ClientInv
<1>3. UpFits(up[i], server.made, closed, InTrees(server)) /\ up[i].kind = "list"
  BY DEF ClientInv, UpInv, ToSet, ServeList
<1>4. Listing(server.tabs, server.made)
  BY <1>2 DEF SoundServer
<1>5. DownFits(m, server.made, InTrees(server)) /\ ~ IsAnswer(m)
  BY <1>1, <1>3, <1>4 DEF DownFits, UpFits, IsAnswer
<1>6. NewsFit(<<m>>, server.made, server)
  BY <1>5, OneNews
<1>7. Answer(i, server, <<m>>)
  BY <1>1 DEF ServeList
<1> QED BY <1>2, <1>6, <1>7, AnswerKeeps

LEMMA ServeKillKeeps ==
  ASSUME ClientInv, NEW i \in DOMAIN up, ServeKill(i) PROVE ClientInv'
<1>1. PICK r, o, L, srv : /\ r = up[i].pane /\ o = WithoutPane(server, r)
                          /\ L = o.leaving \ {r} /\ srv = [o EXCEPT !.leaving = L]
  OBVIOUS
<1>2. UpFits(up[i], server.made, closed, InTrees(server)) /\ up[i].kind = "kill"
  BY DEF ClientInv, UpInv, ToSet, ServeKill
<1>3. SoundServer(server) /\ r \in 1 .. server.made
  BY <1>1, <1>2 DEF ClientInv, UpFits
<1>4. /\ SoundServer(o) /\ o.made = server.made /\ o.leaving = server.leaving
      /\ InTrees(o) \subseteq InTrees(server) \ {r}
  BY <1>1, <1>3, PaneLeaves
<1>5. L \subseteq 1 .. o.made /\ L \cap InTrees(o) = {}
  BY <1>1, <1>4 DEF SoundServer
<1>6. SoundServer(srv) /\ srv.made = o.made /\ InTrees(srv) = InTrees(o)
  BY <1>1, <1>4, <1>5, LeavingSet
<1>7. CASE r \in InTrees(server) \cup server.leaving
  <2>1. srv.made = server.made /\ InTrees(srv) \subseteq InTrees(server)
        /\ r \notin InTrees(srv) /\ r \in 1 .. srv.made
    BY <1>3, <1>4, <1>6
  <2>2. Moves(server, srv)
    BY <1>3, <1>6, <2>1, StillMoves
  <2>3. PICK rest \in {<<>>, OutputPushed(r)} : Answer(i, srv, RemovedPushed(r) \o rest)
    BY <1>1, <1>7 DEF ServeKill
  <2>4. NewsFit(RemovedPushed(r) \o rest, server.made, srv)
    BY <2>1, RemovedFits
  <2> QED BY <2>2, <2>3, <2>4, AnswerKeeps
<1>8. CASE r \notin InTrees(server) \cup server.leaving
  <2>1. Moves(server, server)
    BY <1>3, StillMoves
  <2>2. Answer(i, server, <<>>)
    BY <1>1, <1>8 DEF ServeKill
  <2> QED BY <2>1, <2>2, NoNews, AnswerKeeps
<1> QED BY <1>7, <1>8

LEMMA FailedKeeps ==
  ASSUME ClientInv, NEW i \in DOMAIN up, Failed(i) PROVE ClientInv'
<1>1. PICK m : m = [kind |-> "failed", into |-> up[i].into]
  OBVIOUS
<1>2. Moves(server, server)
  BY StillMoves DEF ClientInv
<1>3. DownFits(m, server.made, InTrees(server)) /\ ~ IsAnswer(m)
  BY <1>1 DEF DownFits, IsAnswer
<1>4. NewsFit(<<m>>, server.made, server)
  BY <1>3, OneNews
<1>5. Answer(i, server, <<m>>)
  BY <1>1 DEF Failed
<1> QED BY <1>2, <1>4, <1>5, AnswerKeeps

LEMMA ServeSpawnKeeps ==
  ASSUME ClientInv, NEW i \in DOMAIN up, ServeSpawn(i) PROVE ClientInv'
<1>1. PICK N, w, srv, m :
        /\ N = server.made /\ w = IF up[i].window = None THEN N + 1 ELSE up[i].window
        /\ srv = NewTab(server, N + 1, w, N + 1)
        /\ m = [kind |-> "spawned", pane |-> N + 1, tab |-> N + 1, window |-> w,
                into |-> up[i].into]
  OBVIOUS
<1>2. CASE Failed(i)
  BY <1>2, FailedKeeps
<1>3. CASE /\ w \in RemoteWindows(server) \cup {N + 1}
           /\ Answer(i, srv, TabsPushed \o <<m>>)
  <2>1. UpFits(up[i], N, closed, InTrees(server)) /\ up[i].kind = "spawn"
    BY <1>1 DEF ClientInv, UpInv, ToSet, ServeSpawn
  <2>2. up[i].into \in Window
    BY <2>1 DEF UpFits
  <2>3. SoundServer(server) /\ N \in Nat /\ RemoteWindows(server) \subseteq 1 .. N
        /\ server.leaving \subseteq 1 .. N
    BY <1>1, TabsAreMade DEF ClientInv, SoundServer
  <2>4. N + 1 \in 1 .. N + 1 /\ N + 1 \notin server.leaving /\ w \in 1 .. N + 1
    BY <1>3, <2>3
  <2>5. /\ SoundServer(srv) /\ srv.made = N + 1
        /\ InTrees(srv) \subseteq InTrees(server) \cup {N + 1}
    BY <1>1, <2>3, <2>4, TabMade
  <2>6. Moves(server, srv)
    BY <1>1, <2>3, <2>5, MakingMoves
  <2>7. DownFits(m, srv.made, InTrees(srv)) /\ m.pane = N + 1
    BY <1>1, <2>2, <2>4, <2>5 DEF DownFits
  <2>8. NewsFit(TabsPushed \o <<m>>, N, srv)
    BY <2>7, TabsThen
  <2> QED BY <1>1, <1>3, <2>6, <2>8, AnswerKeeps
<1> QED BY <1>1, <1>2, <1>3 DEF ServeSpawn

LEMMA ServeSplitKeeps ==
  ASSUME ClientInv, NEW i \in DOMAIN up, ServeSplit(i) PROVE ClientInv'
<1>1. PICK N, t, srv, m :
        /\ N = server.made /\ t = TabOfPane(server, up[i].pane)
        /\ srv = NewSplit(server, t)
        /\ m = [kind |-> "splitted", pane |-> N + 1, target |-> up[i].target,
                tab |-> up[i].tab, into |-> up[i].into]
  OBVIOUS
<1>2. CASE Failed(i)
  BY <1>2, FailedKeeps
<1>3. CASE up[i].pane \in InTrees(server) /\ Answer(i, srv, <<m>>)
  <2>1. SoundServer(server) /\ N \in Nat
    BY <1>1, TabsAreMade DEF ClientInv
  <2>2. t \in DOMAIN server.tabs
    BY <1>1, <1>3 DEF TabOfPane, InTrees
  <2>3. /\ SoundServer(srv) /\ srv.made = N + 1
        /\ InTrees(srv) \subseteq InTrees(server) \cup {N + 1}
    BY <1>1, <2>1, <2>2, SplitMade
  <2>4. Moves(server, srv)
    BY <1>1, <2>1, <2>3, MakingMoves
  <2>5. N + 1 \in 1 .. N + 1
    BY <2>1
  <2>6. DownFits(m, srv.made, InTrees(srv)) /\ m.pane = N + 1
    BY <1>1, <2>3, <2>5 DEF DownFits
  <2>7. NewsFit(<<m>>, N, srv)
    BY <2>6, OneNews
  <2> QED BY <1>1, <1>3, <2>4, <2>7, AnswerKeeps
<1> QED BY <1>1, <1>2, <1>3 DEF ServeSplit

LEMMA OthersActKeeps ==
  ASSUME ClientInv, OthersAct PROVE ClientInv'
BY OtherTabKeeps, OtherMoveKeeps, OtherSplitKeeps, OtherResizeKeeps, OutputKeeps, ExitKeeps
   DEF OthersAct

LEMMA ServerRunsKeeps ==
  ASSUME ClientInv, ServerRuns PROVE ClientInv'
<1>1. ASSUME NEW i \in Ready(up) PROVE i \in DOMAIN up
  BY DEF Ready
<1> QED BY <1>1, RemoteRemoveKeeps, ServeListKeeps, ServeKillKeeps, ServeSpawnKeeps,
           ServeSplitKeeps DEF ServerRuns

-----------------------------------------------------------------------------
(* What the client hears.                                                  *)

LEMMA ClientFacts ==
  ASSUME ClientInv
  PROVE  /\ server.made \in Nat /\ Mirrors(View, server.made) /\ Exact(View)
         /\ Wanted(View, closed, InTrees(server)) /\ FewUnderWay
         /\ IsList(down) /\ AnswersNew(down, Known(View))
         /\ \A i \in DOMAIN down : DownFits(down[i], server.made, InTrees(server))
         /\ View.mux = mux /\ View.client = client /\ View \in Views
<1>1. IsList(up) /\ IsList(down)
  BY DEF ClientInv, UpInv, DownInv
<1>2. IsFiniteSet(ToSet(up) \cup ToSet(down))
  BY <1>1, ListIsFinite, BothFinite
<1>3. IsFiniteSet(SplitsUnderWay)
  BY <1>2, SmallerIsFinite DEF SplitsUnderWay
<1>4. FewUnderWay
  BY <1>3 DEF FewUnderWay, ClientInv, HistoryInv
<1>5. \A i \in DOMAIN down : DownFits(down[i], server.made, InTrees(server))
  BY DEF ClientInv, DownInv, ToSet
<1>6. View.mux = mux /\ View.client = client
  BY DEF View
<1>7. server.made \in Nat
  BY TabsAreMade DEF ClientInv
<1> QED BY <1>1, <1>4, <1>5, <1>6, <1>7 DEF ClientInv, MirrorInv, DownInv, Mirrors

LEMMA HeardKeeps ==
  ASSUME ClientInv, NEW i \in DOMAIN down, Taken(i),
         NEW v, Mirrors(v, server.made), Wanted(v, closed, InTrees(server)),
         NEW R, Known(v) \subseteq Known(View) \cup R,
         \A k \in DOMAIN down : k # i /\ IsAnswer(down[k]) => down[k].pane \notin R,
         NEW sent, IsList(sent),
         \A m \in ToSet(sent) : UpFits(m, server.made, closed, InTrees(server)),
         Becomes(v, sent), closed' = closed,
         unplaced' \subseteq unplaced \cup 1 .. server.made, opening' \subseteq opening
  PROVE  ClientInv'
<1>1. down' = RemoveAt(down, i)
  BY DEF Taken
<1>2. IsList(down) /\ AnswersNew(down, Known(View))
  BY ClientFacts
<1>3. IsList(down') /\ ToSet(down') \subseteq ToSet(down)
  BY <1>1, <1>2, OneTaken
<1>4. AnswersNew(down', Known(v))
  BY <1>1, <1>2, AnswersLeft
<1>5. /\ closed' \cup unplaced' \subseteq 1 .. server.made
      /\ opening' \subseteq Window \cup {None} /\ IsFiniteSet(opening')
  BY SmallerIsFinite DEF ClientInv, HistoryInv
<1>6. closed \subseteq closed'
  OBVIOUS
<1>7. /\ Wanted(v, closed', InTrees(server))
      /\ \A m \in ToSet(sent) : UpFits(m, server.made, closed', InTrees(server))
  OBVIOUS
<1> QED BY <1>3, <1>4, <1>5, <1>6, <1>7, ClientMoved

LEMMA ResyncFits ==
  ASSUME NEW then, NEW N, NEW C, NEW I, then = None \/ then \in (1 .. N) \ I
  PROVE  IsList(Resync(then)) /\ \A m \in ToSet(Resync(then)) : UpFits(m, N, C, I)
<1>1. UpFits(List(then), N, C, I)
  BY DEF List, UpFits
<1> QED BY <1>1, ShortLists DEF Resync

LEMMA NothingFits ==
  ASSUME NEW N, NEW C, NEW I
  PROVE  IsList(<< >>) /\ \A m \in ToSet(<< >>) : UpFits(m, N, C, I)
BY ShortLists

LEMMA OnTabsKeeps ==
  ASSUME ClientInv, NEW i \in DOMAIN down, OnTabs(i) PROVE ClientInv'
<1>1. PICK sent : sent = Resync(None)
  OBVIOUS
<1>2. /\ IsList(sent)
      /\ \A m \in ToSet(sent) : UpFits(m, server.made, closed, InTrees(server))
  BY <1>1, ResyncFits
<1>3. /\ Taken(i) /\ Becomes(View, sent) /\ closed' = closed
      /\ unplaced' \subseteq unplaced \cup 1 .. server.made /\ opening' \subseteq opening
  BY <1>1 DEF OnTabs
<1>4. PICK R : R = {}
  OBVIOUS
<1>5. /\ Known(View) \subseteq Known(View) \cup R
      /\ \A k \in DOMAIN down : k # i /\ IsAnswer(down[k]) => down[k].pane \notin R
  BY <1>4
<1>6. Mirrors(View, server.made) /\ Wanted(View, closed, InTrees(server))
  BY ClientFacts
<1> QED BY <1>2, <1>3, <1>5, <1>6, HeardKeeps

LEMMA LookedUpIsWanted ==
  ASSUME NEW N \in Nat, NEW v, Mirrors(v, N), NEW C, NEW I, Wanted(v, C, I), NEW r
  PROVE  LET n == LookUp(v, r)
         IN  Mirrors(n, N) /\ Wanted(n, C, I) /\ Known(n) \subseteq Known(v)
<1>1. PICK n : n = LookUp(v, r)
  OBVIOUS
<1>2. /\ Mirrors(n, N) /\ n.mux = v.mux /\ n.client.image = v.client.image
      /\ n.client.attached = v.client.attached /\ DOMAIN n.client.pane \subseteq Known(v)
  BY <1>1, LookedUp
<1>3. Wanted(n, C, I) /\ Known(n) \subseteq Known(v)
  BY <1>2 DEF Wanted, Known
<1> QED BY <1>1, <1>2, <1>3

LEMMA OnPaneKeeps ==
  ASSUME ClientInv, NEW i \in DOMAIN down, OnPane(i) PROVE ClientInv'
<1>1. PICK N, I, r, v :
        /\ N = server.made /\ I = InTrees(server) /\ r = down[i].pane
        /\ v = IF client.attached THEN LookUp(View, r) ELSE View
  OBVIOUS
<1>2. /\ N \in Nat /\ Mirrors(View, N) /\ Wanted(View, closed, I)
      /\ DownFits(down[i], N, I)
  BY <1>1, ClientFacts
<1>3. Mirrors(v, N) /\ Wanted(v, closed, I) /\ Known(v) \subseteq Known(View)
  BY <1>1, <1>2, LookedUpIsWanted
<1>4. PICK n, sent :
        /\ Becomes(n, sent)
        /\ \/ n = v /\ sent = <<>>
           \/ /\ n = v
              /\ sent = Resync(IF down[i].kind = "removed" THEN r ELSE None)
           \/ /\ down[i].kind = "removed" /\ IsMirrored(v, r)
              /\ n \in Died(v, r) /\ sent = <<>>
  BY <1>1 DEF OnPane
<1>5. /\ Taken(i) /\ closed' = closed
      /\ unplaced' \subseteq unplaced \cup 1 .. server.made /\ opening' \subseteq opening
  BY DEF OnPane
<1>6. down[i].kind = "removed" => r \in (1 .. N) \ I
  BY <1>1, <1>2 DEF DownFits
<1>7. Mirrors(n, N) /\ Wanted(n, closed, I) /\ Known(n) \subseteq Known(View)
  <2>1. CASE n = v
    BY <1>3, <2>1
  <2>2. CASE down[i].kind = "removed" /\ IsMirrored(v, r) /\ n \in Died(v, r)
    <3>1. r \notin I
      BY <1>6, <2>2
    <3>2. Mirrors(n, N) /\ Wanted(n, closed, I) /\ Known(n) \subseteq Known(v)
      BY <1>2, <1>3, <2>2, <3>1, PaneDied
    <3> QED BY <1>3, <3>2
  <2> QED BY <1>4, <2>1, <2>2
<1>8. IsList(sent) /\ \A m \in ToSet(sent) : UpFits(m, N, closed, I)
  <2>1. CASE sent = <<>>
    BY <2>1, NothingFits
  <2>2. CASE sent = Resync(IF down[i].kind = "removed" THEN r ELSE None)
    <3>1. PICK then : then = IF down[i].kind = "removed" THEN r ELSE None
      OBVIOUS
    <3>2. then = None \/ then \in (1 .. N) \ I
      BY <1>6, <3>1
    <3> QED BY <2>2, <3>1, <3>2, ResyncFits
  <2> QED BY <1>4, <2>1, <2>2
<1>9. PICK R : R = {}
  OBVIOUS
<1>10. /\ Known(n) \subseteq Known(View) \cup R
       /\ \A k \in DOMAIN down : k # i /\ IsAnswer(down[k]) => down[k].pane \notin R
  BY <1>7, <1>9
<1>11. Becomes(n, sent)
  BY <1>4
<1> QED BY <1>1, <1>5, <1>7, <1>8, <1>10, <1>11, HeardKeeps

LEMMA OnFailedKeeps ==
  ASSUME ClientInv, NEW i \in DOMAIN down, OnFailed(i) PROVE ClientInv'
<1>1. /\ Taken(i) /\ Becomes(View, <<>>) /\ closed' = closed
      /\ unplaced' \subseteq unplaced \cup 1 .. server.made /\ opening' \subseteq opening
  BY DEF OnFailed, Finish
<1>2. PICK R : R = {}
  OBVIOUS
<1>3. /\ Known(View) \subseteq Known(View) \cup R
      /\ \A k \in DOMAIN down : k # i /\ IsAnswer(down[k]) => down[k].pane \notin R
  BY <1>2
<1>4. Mirrors(View, server.made) /\ Wanted(View, closed, InTrees(server))
  BY ClientFacts
<1> QED BY <1>1, <1>3, <1>4, NothingFits, HeardKeeps

(* The maps stay, and the domain is attached or the client panics. *)
LEMMA Reflagged ==
  ASSUME NEW N \in Nat, NEW v, Mirrors(v, N), Exact(v), NEW C, NEW I, Wanted(v, C, I),
         NEW n, n \in Views, n.mux = v.mux, n.client.pane = v.client.pane,
         n.client.tab = v.client.tab, n.client.window = v.client.window,
         n.client.image = v.client.image
  PROVE  /\ Mirrors(n, N) /\ Exact(n) /\ Known(n) = Known(v) /\ Wanted(n, C, I)
<1>1. GivesUp(v.mux, n.mux, {})
  BY NothingGivenUp DEF Mirrors
<1>2. Mirrors(n, N)
  BY <1>1, Lessened
<1>3. Exact(n) /\ Known(n) = Known(v)
  BY DEF Exact, Known
<1>4. Wanted(n, C, I)
  BY <1>3 DEF Exact, Wanted
<1> QED BY <1>2, <1>3, <1>4

(* A message that is read behind others overtakes nothing but pushes about *)
(* panes, so no answer is left in front of a list.                         *)
LEMMA ListComesAfter ==
  ASSUME ClientInv, NEW i \in Ready(down), down[i].kind = "listed",
         NEW k \in DOMAIN down, k # i, IsAnswer(down[k])
  PROVE  down[k].pane \notin PanesListed(down[i].tabs)
<1>1. IsList(down) /\ AnswersNew(down, Known(View))
  BY ClientFacts
<1>2. i \in DOMAIN down /\ \A j \in 1 .. i - 1 : Overtakes(down[i], down[j])
  BY DEF Ready
<1>3. i \in Nat /\ k \in Nat /\ k >= 1
  BY <1>1, <1>2, OneTaken
<1>4. CASE k < i
  <2>1. k \in 1 .. i - 1
    BY <1>3, <1>4
  <2>2. Overtakes(down[i], down[k])
    BY <1>2, <2>1
  <2>3. DownFits(down[k], server.made, InTrees(server))
    BY ClientFacts
  <2> QED BY <2>2, <2>3 DEF Overtakes, DownFits, IsAnswer
<1>5. CASE i < k
  BY <1>1, <1>2, <1>5 DEF AnswersNew
<1> QED BY <1>3, <1>4, <1>5

LEMMA OnListedKeeps ==
  ASSUME EndlessIds, ClientInv, NEW i \in Ready(down), OnListed(i) PROVE ClientInv'
<1>1. PICK N, I, tabs, R, r, a, w, v, n :
        /\ N = server.made /\ I = InTrees(server) /\ tabs = down[i].tabs
        /\ R = PanesListed(tabs) /\ r = down[i].then
        /\ a = (client.attached \/ None \in opening)
        /\ w = [View EXCEPT !.client = [client EXCEPT !.attached = a]]
        /\ v = ProcessPaneList(w, tabs)
        /\ n = IF r # None /\ v.client.attached THEN LookUp(v, r) ELSE v
  OBVIOUS
<1>2. /\ N \in Nat /\ Mirrors(View, N) /\ Exact(View) /\ Wanted(View, closed, I)
      /\ FewUnderWay /\ View \in Views /\ View.mux = mux /\ View.client = client
  BY <1>1, ClientFacts
<1>3. i \in DOMAIN down /\ down[i].kind = "listed"
  BY DEF Ready, OnListed
<1>4. Listing(tabs, N) /\ (r = None \/ r \in (1 .. N) \ I)
  <2>1. DownFits(down[i], N, I)
    BY <1>1, <1>3, ClientFacts
  <2> QED BY <1>1, <1>3, <2>1 DEF DownFits
<1>5. mux \in MuxStates /\ client \in Clients
  BY <1>2, ClientParts
<1>6. /\ w \in Views /\ w.mux = mux /\ w.client.pane = client.pane
      /\ w.client.tab = client.tab /\ w.client.window = client.window
      /\ w.client.image = client.image
  <2>1. PICK c : c = [client EXCEPT !.attached = a]
    OBVIOUS
  <2>2. /\ c \in Clients /\ c.pane = client.pane /\ c.tab = client.tab
        /\ c.window = client.window /\ c.image = client.image
    BY <1>1, <1>5, <2>1 DEF Clients
  <2>3. w = [mux |-> mux, client |-> c]
    BY <1>1, <2>1 DEF View
  <2> QED BY <1>5, <2>2, <2>3, ViewOf
<1>7. Mirrors(w, N) /\ Exact(w) /\ Known(w) = Known(View) /\ Wanted(w, closed, I)
  BY <1>2, <1>6, Reflagged
<1>8. Mirrors(v, N) /\ Exact(v) /\ Grows(w, v, R)
  BY <1>1, <1>2, <1>4, <1>7, ListProcessed
<1>9. Wanted(v, closed, I) /\ Known(v) \subseteq Known(View) \cup R
  BY <1>7, <1>8, GrownIsWanted, KnownGrows
<1>10. Mirrors(n, N) /\ Wanted(n, closed, I) /\ Known(n) \subseteq Known(View) \cup R
  <2>1. CASE n = v
    BY <1>8, <1>9, <2>1
  <2>2. CASE n = LookUp(v, r)
    <3>1. Mirrors(n, N) /\ Wanted(n, closed, I) /\ Known(n) \subseteq Known(v)
      BY <1>2, <1>8, <1>9, <2>2, LookedUpIsWanted
    <3> QED BY <1>9, <3>1
  <2> QED BY <1>1, <2>1, <2>2
<1>11. PICK o :
         /\ Becomes(o, <<>>)
         /\ \/ o = [View EXCEPT !.client = [client EXCEPT !.panicked = TRUE]]
            \/ r # None /\ IsMirrored(n, r) /\ o \in Died(n, r)
            \/ o = n
  <2>1. w = [View EXCEPT !.client.attached = @ \/ None \in opening]
    BY <1>1, <1>2, <1>5 DEF View, Clients
  <2>2. [View EXCEPT !.client = [client EXCEPT !.panicked = TRUE]]
          = [View EXCEPT !.client.panicked = TRUE]
    BY DEF View
  <2> QED BY <1>1, <2>1, <2>2 DEF OnListed
<1>12. Mirrors(o, N) /\ Wanted(o, closed, I) /\ Known(o) \subseteq Known(View) \cup R
  <2>1. CASE o = [View EXCEPT !.client = [client EXCEPT !.panicked = TRUE]]
    <3>1. PICK c : c = [client EXCEPT !.panicked = TRUE]
      OBVIOUS
    <3>2. /\ c \in Clients /\ c.pane = client.pane /\ c.tab = client.tab
          /\ c.window = client.window /\ c.image = client.image
      BY <1>5, <3>1 DEF Clients
    <3>3. o = [mux |-> mux, client |-> c]
      BY <2>1, <3>1 DEF View
    <3>4. o \in Views /\ o.mux = mux /\ o.client = c
      BY <1>5, <3>2, <3>3, ViewOf
    <3>5. Mirrors(o, N) /\ Known(o) = Known(View) /\ Wanted(o, closed, I)
      BY <1>2, <3>2, <3>4, Reflagged
    <3> QED BY <3>5
  <2>2. CASE r # None /\ IsMirrored(n, r) /\ o \in Died(n, r)
    <3>1. r \notin I
      BY <1>4, <2>2
    <3>2. Mirrors(o, N) /\ Wanted(o, closed, I) /\ Known(o) \subseteq Known(n)
      BY <1>2, <1>10, <2>2, <3>1, PaneDied
    <3> QED BY <1>10, <3>2
  <2>3. CASE o = n
    BY <1>10, <2>3
  <2> QED BY <1>11, <2>1, <2>2, <2>3
<1>13. \A k \in DOMAIN down : k # i /\ IsAnswer(down[k]) => down[k].pane \notin R
  BY <1>1, <1>3, ListComesAfter
<1>14. /\ Taken(i) /\ closed' = closed
       /\ unplaced' \subseteq unplaced \cup 1 .. server.made /\ opening' \subseteq opening
  BY DEF OnListed
<1>15. Becomes(o, <<>>)
  BY <1>11
<1> QED BY <1>1, <1>3, <1>12, <1>13, <1>14, <1>15, NothingFits, HeardKeeps

(* A tab joins a window and is shown.                                      *)
LEMMA TabOnTop ==
  ASSUME NEW m, Registered(m), Few(m), NEW w, w \in DOMAIN m.windows,
         NEW t, t \in DOMAIN m.tabs, t \notin TabsOf(m.windows[w])
  PROVE  LET s == AddTabToWindow(m, t, w)
             n == ActivateAt(s, w, PositionIn(s.windows[w].tabs, t))
         IN  Registered(n) /\ Few(n) /\ SamePanes(m, n)
<1>1. PICK s, n : /\ s = AddTabToWindow(m, t, w)
                  /\ n = ActivateAt(s, w, PositionIn(s.windows[w].tabs, t))
  OBVIOUS
<1>2. /\ Registered(s) /\ Few(s) /\ DOMAIN s.windows = DOMAIN m.windows
      /\ TabsOf(s.windows[w]) = TabsOf(m.windows[w]) \cup {t} /\ SamePanes(m, s)
  BY <1>1, TabPlaced
<1>3. w \in DOMAIN s.windows /\ t \in TabsOf(s.windows[w])
  BY <1>2
<1>4. Registered(n) /\ Few(n) /\ SamePanes(s, n)
  BY <1>1, <1>2, <1>3, TabShown
<1> QED BY <1>1, <1>2, <1>4 DEF SamePanes

LEMMA OnSpawnedKeeps ==
  ASSUME EndlessIds, ClientInv, NEW i \in DOMAIN down, OnSpawned(i) PROVE ClientInv'
<1>1. PICK N, I, m, r, p, t, f, g, c, u, v, n, shown, at, last, o :
        /\ N = server.made /\ I = InTrees(server) /\ m = down[i] /\ r = m.pane
        /\ p = FreshPane(View, r) /\ t = FreshTab(View, m.tab)
        /\ f = Mapped(client.window, m.window, m.into) /\ g = Mapped(client.tab, m.tab, t)
        /\ c = [client EXCEPT !.window = f, !.tab = g]
        /\ u = [View EXCEPT !.client = c] /\ v = WithImage(u, p, r)
        /\ n = WithTab(v.mux, t, {p}) /\ shown = AddTabToWindow(n, t, m.into)
        /\ at = PositionIn(shown.windows[m.into].tabs, t)
        /\ last = IF m.into \notin DOMAIN mux.windows THEN n
                  ELSE ActivateAt(shown, m.into, at)
        /\ o = [v EXCEPT !.mux = last]
  OBVIOUS
<1>2. /\ N \in Nat /\ Mirrors(View, N) /\ Exact(View) /\ Wanted(View, closed, I)
      /\ FewUnderWay /\ View \in Views /\ View.mux = mux /\ View.client = client
      /\ AnswersNew(down, Known(View)) /\ DownFits(m, N, I)
  BY <1>1, ClientFacts
<1>3. /\ m.kind = "spawned" /\ Taken(i) /\ closed' = closed /\ Becomes(o, <<>>)
      /\ unplaced' \subseteq unplaced \cup 1 .. N /\ opening' \subseteq opening
  BY <1>1 DEF OnSpawned, Finish
<1>4. /\ r \in 1 .. N /\ m.tab \in 1 .. N /\ m.window \in 1 .. N /\ m.into \in Window
  BY <1>1, <1>2, <1>3 DEF DownFits
<1>5. /\ r \notin Known(View)
      /\ \A k \in DOMAIN down : k # i /\ IsAnswer(down[k]) => down[k].pane \notin {r}
  BY <1>1, <1>2, <1>3 DEF AnswersNew, IsAnswer
<1>6. /\ p \in Pane /\ p \notin mux.panes /\ p \notin mux.removing
      /\ \A s \in DOMAIN client.pane : client.pane[s] # p
  BY <1>1, <1>2, FreshPaneIs
<1>7. t \in Tab /\ t \notin DOMAIN mux.tabs /\ \A s \in DOMAIN client.tab : client.tab[s] # t
  BY <1>1, <1>2, FreshTabIs
<1>8. /\ client \in Clients /\ mux \in MuxStates /\ client.window \in Partial(Nat, Window)
      /\ client.tab \in Partial(Nat, Tab) /\ Registered(mux) /\ Few(mux)
  BY <1>2, ClientParts DEF Mirrors
<1>9. f \in Partial(Nat, Window) /\ g \in Partial(Nat, Tab)
  <2>1. m.window \in Nat /\ m.tab \in Nat
    BY <1>4
  <2> QED BY <1>1, <1>4, <1>7, <1>8, <2>1, MappedIn
<1>10. /\ DOMAIN f = DOMAIN client.window \cup {m.window}
       /\ DOMAIN g = DOMAIN client.tab \cup {m.tab} /\ g[m.tab] = t
       /\ \A s \in DOMAIN client.tab : s # m.tab => g[s] = client.tab[s]
  BY <1>1 DEF Mapped
<1>11. IsInjective(client.tab) /\ DOMAIN client.tab \subseteq 1 .. N
       /\ DOMAIN client.window \subseteq 1 .. N
  BY <1>2 DEF Mirrors
<1>12. IsInjective(g)
  BY <1>7, <1>10, <1>11 DEF IsInjective
<1>13. DOMAIN f \subseteq 1 .. N /\ DOMAIN g \subseteq 1 .. N
  BY <1>4, <1>10, <1>11
<1>14. /\ c \in Clients /\ c.pane = client.pane /\ c.image = client.image
       /\ c.attached = client.attached /\ c.tab = g /\ c.window = f
  BY <1>1, <1>8, <1>9 DEF Clients
<1>15. u \in Views /\ u.mux = mux /\ u.client = c
  <2>1. u = [mux |-> mux, client |-> c]
    BY <1>1 DEF View
  <2> QED BY <1>8, <1>14, <2>1, ViewOf
<1>16. SamePanes(mux, mux)
  BY DEF SamePanes
<1>17. Mirrors(u, N) /\ Exact(u) /\ Grows(View, u, {}) /\ Known(u) = Known(View)
  <2>1. /\ Registered(u.mux) /\ Few(u.mux) /\ SamePanes(View.mux, u.mux)
        /\ u.client.pane = View.client.pane /\ u.client.image = View.client.image
        /\ u.client.attached = View.client.attached /\ IsInjective(u.client.tab)
        /\ DOMAIN u.client.tab \subseteq 1 .. N /\ DOMAIN u.client.window \subseteq 1 .. N
    BY <1>2, <1>8, <1>12, <1>13, <1>14, <1>15, <1>16
  <2> QED BY <1>2, <1>15, <2>1, Reshaped
<1>18. /\ Mirrors(v, N) /\ Exact(v) /\ Grows(u, v, {r}) /\ SameTabs(u, v)
       /\ p \in v.mux.panes
  <2>1. /\ p \notin u.mux.panes /\ p \notin u.mux.removing
        /\ \A s \in DOMAIN u.client.pane : u.client.pane[s] # p
        /\ r \notin Known(u)
    BY <1>5, <1>6, <1>14, <1>15, <1>17
  <2>2. v = WithImage(u, p, r) /\ p \in Pane /\ r \in 1 .. N /\ N \in Nat
    BY <1>1, <1>2, <1>4, <1>6
  <2> QED BY <1>17, <2>1, <2>2, ImageMade
<1>19. /\ Registered(v.mux) /\ Few(v.mux) /\ v \in Views
       /\ v.mux.windows = mux.windows /\ v.mux.tabs = mux.tabs
  BY <1>15, <1>18 DEF Mirrors, SameTabs
<1>20. /\ Registered(n) /\ Few(n) /\ n.windows = mux.windows
       /\ DOMAIN n.tabs = DOMAIN mux.tabs \cup {t} /\ SamePanes(v.mux, n)
  <2>1. IsFiniteSet({p}) /\ {p} \in SUBSET Pane
    BY <1>6, FS_Singleton
  <2>2. PICK P : P = {p}
    OBVIOUS
  <2>3. n = WithTab(v.mux, t, P) /\ IsFiniteSet(P) /\ P \in SUBSET Pane /\ t \in Tab
    BY <1>1, <1>7, <2>1, <2>2
  <2>4. /\ Registered(n) /\ Few(n) /\ n.windows = v.mux.windows
        /\ DOMAIN n.tabs = DOMAIN v.mux.tabs \cup {t} /\ SamePanes(v.mux, n)
    BY <1>19, <2>3, TabRegistered
  <2> QED BY <1>19, <2>4
<1>21. Registered(last) /\ Few(last) /\ SamePanes(v.mux, last)
  <2>1. CASE m.into \notin DOMAIN mux.windows
    BY <1>1, <1>20, <2>1
  <2>2. CASE m.into \in DOMAIN mux.windows
    <3>1. TabsOf(mux.windows[m.into]) \subseteq DOMAIN mux.tabs
      BY <1>8, <2>2 DEF Registered
    <3>2. PICK w : w = m.into
      OBVIOUS
    <3>3. w \in DOMAIN n.windows /\ t \in DOMAIN n.tabs /\ t \notin TabsOf(n.windows[w])
      BY <1>7, <1>20, <2>2, <3>1, <3>2
    <3>4. last = ActivateAt(AddTabToWindow(n, t, w), w,
                            PositionIn(AddTabToWindow(n, t, w).windows[w].tabs, t))
      BY <1>1, <2>2, <3>2
    <3>5. Registered(n) /\ Few(n)
      BY <1>20
    <3>6. Registered(last) /\ Few(last) /\ SamePanes(n, last)
      BY <3>3, <3>4, <3>5, TabOnTop
    <3> QED BY <1>20, <3>6 DEF SamePanes
  <2> QED BY <2>1, <2>2
<1>22. o \in Views /\ o.mux = last /\ o.client = v.client
  <2>1. last \in MuxStates /\ v.client \in Clients
    BY <1>19, <1>21, ClientParts DEF Registered
  <2>2. o = [mux |-> last, client |-> v.client]
    <3>1. o = [v EXCEPT !.mux = last] /\ v = [mux |-> v.mux, client |-> v.client]
      BY <1>1, <1>19, ClientParts
    <3> QED BY <3>1
  <2> QED BY <2>1, <2>2, ViewOf
<1>23. Mirrors(o, N) /\ Exact(o) /\ Grows(v, o, {r})
  <2>1. /\ IsInjective(o.client.tab) /\ DOMAIN o.client.tab \subseteq 1 .. N
        /\ DOMAIN o.client.window \subseteq 1 .. N
    BY <1>18, <1>22 DEF Mirrors
  <2>2. /\ Registered(o.mux) /\ Few(o.mux) /\ SamePanes(v.mux, o.mux)
        /\ o.client.pane = v.client.pane /\ o.client.image = v.client.image
        /\ o.client.attached = v.client.attached
    BY <1>21, <1>22
  <2> QED BY <1>2, <1>18, <1>22, <2>1, <2>2, Reshaped
<1>24. PICK R : R = {r}
  OBVIOUS
<1>25. Grows(View, o, R)
  <2>1. Grows(u, o, {r} \cup {r})
    BY <1>18, <1>23, GrowsMore
  <2>2. Grows(View, o, {} \cup ({r} \cup {r}))
    BY <1>17, <2>1, GrowsMore
  <2>3. {} \cup ({r} \cup {r}) \subseteq R
    BY <1>24
  <2> QED BY <2>2, <2>3, GrowsWithin
<1>26. Wanted(o, closed, I) /\ Known(o) \subseteq Known(View) \cup R
  <2>1. Wanted(o, closed, I)
    BY <1>2, <1>23, <1>25, GrownIsWanted
  <2>2. Known(o) \subseteq Known(View) \cup R
    BY <1>2, <1>23, <1>25, KnownGrows
  <2> QED BY <2>1, <2>2
<1>27. \A k \in DOMAIN down : k # i /\ IsAnswer(down[k]) => down[k].pane \notin R
  BY <1>5, <1>24
<1>28. /\ Mirrors(o, server.made) /\ Wanted(o, closed, InTrees(server))
       /\ unplaced' \subseteq unplaced \cup 1 .. server.made
  <2>1. N = server.made /\ I = InTrees(server)
    BY <1>1
  <2> QED BY <1>3, <1>23, <1>26, <2>1
<1>29. Taken(i) /\ Becomes(o, <<>>) /\ closed' = closed /\ opening' \subseteq opening
  BY <1>3
<1>30. /\ IsList(<<>>)
       /\ \A x \in ToSet(<<>>) : UpFits(x, server.made, closed, InTrees(server))
  BY NothingFits
<1>31. Known(o) \subseteq Known(View) \cup R
  BY <1>26
<1> QED BY <1>27, <1>28, <1>29, <1>30, <1>31, HeardKeeps

LEMMA OnSplitKeeps ==
  ASSUME EndlessIds, ClientInv, NEW i \in DOMAIN down, OnSplit(i) PROVE ClientInv'
<1>1. PICK N, I, m, r, p, v, P, put, s :
        /\ N = server.made /\ I = InTrees(server) /\ m = down[i] /\ r = m.pane
        /\ p = FreshPane(View, r) /\ v = WithImage(View, p, r)
        /\ P = v.mux.tabs[m.tab] \cup {p} /\ put = [v.mux EXCEPT !.tabs[m.tab] = P]
        /\ s = [v EXCEPT !.mux = put]
  OBVIOUS
<1>2. /\ N \in Nat /\ Mirrors(View, N) /\ Exact(View) /\ Wanted(View, closed, I)
      /\ FewUnderWay /\ View \in Views /\ View.mux = mux /\ View.client = client
      /\ AnswersNew(down, Known(View)) /\ DownFits(m, N, I)
  BY <1>1, ClientFacts
<1>3. /\ m.kind = "splitted" /\ Taken(i) /\ closed' = closed /\ opening' \subseteq opening
  BY <1>1 DEF OnSplit, Finish
<1>4. r \in 1 .. N
  BY <1>1, <1>2, <1>3 DEF DownFits
<1>5. /\ r \notin Known(View)
      /\ \A k \in DOMAIN down : k # i /\ IsAnswer(down[k]) => down[k].pane \notin {r}
  BY <1>1, <1>2, <1>3 DEF AnswersNew, IsAnswer
<1>6. /\ p \in Pane /\ p \notin mux.panes /\ p \notin mux.removing
      /\ \A z \in DOMAIN client.pane : client.pane[z] # p
  BY <1>1, <1>2, FreshPaneIs
<1>7. /\ Mirrors(v, N) /\ Exact(v) /\ Grows(View, v, {r}) /\ SameTabs(View, v)
  <2>1. /\ p \notin View.mux.panes /\ p \notin View.mux.removing
        /\ \A z \in DOMAIN View.client.pane : View.client.pane[z] # p
    BY <1>2, <1>6
  <2>2. v = WithImage(View, p, r)
    BY <1>1
  <2> QED BY <1>2, <1>4, <1>5, <1>6, <2>1, <2>2, ImageMade
<1>8. /\ Registered(v.mux) /\ Few(v.mux) /\ v \in Views /\ v.mux.tabs = mux.tabs
  BY <1>2, <1>7 DEF Mirrors, SameTabs
<1>9. PICK o :
        /\ Becomes(o, <<>>)
        /\ \/ o = View
           \/ o = v
           \/ m.tab \in DOMAIN mux.tabs /\ o = s
  <2>1. m.tab \in DOMAIN mux.tabs => s = [v EXCEPT !.mux = PutPane(v.mux, m.tab, p)]
    BY <1>1, <1>8 DEF PutPane
  <2> QED BY <1>1, <2>1 DEF OnSplit
<1>10. PICK R : R = {r}
  OBVIOUS
<1>11. Mirrors(o, N) /\ Exact(o) /\ Grows(View, o, R)
  <2>1. CASE o = View
    BY <1>2, <2>1, GrowsNot
  <2>2. CASE o = v
    BY <1>7, <1>10, <2>2
  <2>3. CASE m.tab \in DOMAIN mux.tabs /\ o = s
    <3>1. PICK t : t = m.tab
      OBVIOUS
    <3>2. t \in DOMAIN v.mux.tabs
      BY <1>8, <2>3, <3>1
    <3>3. P \in SUBSET Pane /\ IsFiniteSet(P)
      <4>1. v.mux.tabs[t] \subseteq InTabs(v.mux) /\ IsFiniteSet(InTabs(v.mux))
        BY <1>8, <3>2 DEF Few, InTabs, PanesInTabs
      <4>2. IsFiniteSet(v.mux.tabs[t]) /\ IsFiniteSet({p})
        BY <4>1, SmallerIsFinite, FS_Singleton
      <4>3. v.mux.tabs[t] \subseteq Pane
        <5>1. v.mux.tabs \in Partial(Tab, SUBSET Pane)
          BY <1>8 DEF Registered, MuxStates
        <5> QED BY <3>2, <5>1 DEF Partial
      <4>4. P = v.mux.tabs[t] \cup {p}
        BY <1>1, <3>1
      <4> QED BY <1>6, <4>2, <4>3, <4>4, BothFinite
    <3>4. /\ Registered(put) /\ Few(put) /\ SamePanes(v.mux, put)
      <4>1. put = [v.mux EXCEPT !.tabs[t] = P]
        BY <1>1, <3>1
      <4> QED BY <1>8, <3>2, <3>3, <4>1, TabReplaced
    <3>5. o \in Views /\ o.mux = put /\ o.client = v.client
      <4>1. put \in MuxStates /\ v.client \in Clients
        BY <1>8, <3>4, ClientParts DEF Registered
      <4>2. o = [mux |-> put, client |-> v.client]
        <5>1. o = [v EXCEPT !.mux = put] /\ v = [mux |-> v.mux, client |-> v.client]
          BY <1>1, <1>8, <2>3, ClientParts
        <5> QED BY <5>1
      <4> QED BY <4>1, <4>2, ViewOf
    <3>6. Mirrors(o, N) /\ Exact(o) /\ Grows(v, o, R)
      <4>1. /\ IsInjective(o.client.tab) /\ DOMAIN o.client.tab \subseteq 1 .. N
            /\ DOMAIN o.client.window \subseteq 1 .. N
        BY <1>7, <3>5 DEF Mirrors
      <4>2. /\ Registered(o.mux) /\ Few(o.mux) /\ SamePanes(v.mux, o.mux)
            /\ o.client.pane = v.client.pane /\ o.client.image = v.client.image
            /\ o.client.attached = v.client.attached
        BY <3>4, <3>5
      <4> QED BY <1>2, <1>7, <3>5, <4>1, <4>2, Reshaped
    <3>7. Grows(View, o, {r} \cup R) /\ {r} \cup R \subseteq R
      BY <1>7, <1>10, <3>6, GrowsMore
    <3> QED BY <3>6, <3>7, GrowsWithin
  <2> QED BY <1>9, <2>1, <2>2, <2>3
<1>12. Wanted(o, closed, I) /\ Known(o) \subseteq Known(View) \cup R
  BY <1>2, <1>11, GrownIsWanted, KnownGrows
<1>13. \A k \in DOMAIN down : k # i /\ IsAnswer(down[k]) => down[k].pane \notin R
  BY <1>5, <1>10
<1>14. unplaced' \subseteq unplaced \cup 1 .. server.made
  BY <1>1, <1>4 DEF OnSplit
<1>15. Mirrors(o, server.made) /\ Wanted(o, closed, InTrees(server)) /\ Becomes(o, <<>>)
  BY <1>1, <1>9, <1>11, <1>12
<1> QED BY <1>3, <1>12, <1>13, <1>14, <1>15, NothingFits, HeardKeeps

LEMMA ClientHearsKeeps ==
  ASSUME EndlessIds, ClientInv, ClientHears PROVE ClientInv'
<1>1. ASSUME NEW i \in Ready(down) PROVE i \in DOMAIN down
  BY DEF Ready
<1> QED BY <1>1, OnTabsKeeps, OnPaneKeeps, OnListedKeeps, OnSpawnedKeeps, OnSplitKeeps,
           OnFailedKeeps DEF ClientHears

-----------------------------------------------------------------------------
(* The user, and what the local mux has queued.                            *)

LEMMA LocalKeeps ==
  ASSUME ClientInv, NEW v, Mirrors(v, server.made), Wanted(v, closed', InTrees(server)),
         Known(v) \subseteq Known(View), NEW sent, IsList(sent),
         \A m \in ToSet(sent) : UpFits(m, server.made, closed', InTrees(server)),
         Local(v, sent), closed \subseteq closed', closed' \subseteq 1 .. server.made,
         opening' \subseteq Window \cup {None}, IsFiniteSet(opening')
  PROVE  ClientInv'
<1>1. Becomes(v, sent) /\ down' = down /\ unplaced' = unplaced
  BY DEF Local
<1>2. IsList(down) /\ AnswersNew(down, Known(View))
  BY ClientFacts
<1>3. AnswersNew(down, Known(v))
  BY <1>2 DEF AnswersNew
<1>4. IsList(down') /\ ToSet(down') \subseteq ToSet(down) /\ AnswersNew(down', Known(v))
  BY <1>1, <1>2, <1>3
<1>5. closed' \cup unplaced' \subseteq 1 .. server.made
  BY <1>1 DEF ClientInv, HistoryInv
<1> QED BY <1>1, <1>4, <1>5, ClientMoved

LEMMA OpeningIs ==
  ASSUME ClientInv, NEW W, W \subseteq Window, IsFiniteSet(W)
  PROVE  opening \cup W \subseteq Window \cup {None} /\ IsFiniteSet(opening \cup W)
<1>1. opening \subseteq Window \cup {None} /\ IsFiniteSet(opening)
  BY DEF ClientInv, HistoryInv
<1> QED BY <1>1, BothFinite

LEMMA WindowsAreIds ==
  ASSUME NEW m, Registered(m)
  PROVE  /\ DOMAIN m.windows \subseteq Window /\ DOMAIN m.tabs \subseteq Tab
         /\ \A t \in DOMAIN m.tabs : m.tabs[t] \subseteq Pane
         /\ m.panes \subseteq Pane /\ m.removing \subseteq Pane
<1>1. /\ m.windows \in Partial(Window, Windows(Tab)) /\ m.tabs \in Partial(Tab, SUBSET Pane)
      /\ m.panes \subseteq Pane /\ m.removing \subseteq Pane
  BY DEF Registered, MuxStates
<1> QED BY <1>1 DEF Partial

LEMMA OneMessage ==
  ASSUME NEW m, NEW N, NEW C, NEW I, UpFits(m, N, C, I)
  PROVE  IsList(<<m>>) /\ \A x \in ToSet(<<m>>) : UpFits(x, N, C, I)
BY ShortLists

LEMMA BeginTabKeeps ==
  ASSUME ClientInv, NEW w \in DOMAIN mux.windows, BeginTab(w) PROVE ClientInv'
<1>1. PICK r, m :
        /\ r = None \/ r \in DOMAIN client.window
        /\ m = [kind |-> "spawn", window |-> r, into |-> w]
        /\ Local(View, <<m>>)
  BY DEF BeginTab
<1>2. opening' = opening \cup {w} /\ closed' = closed
  BY DEF BeginTab
<1>3. /\ Mirrors(View, server.made) /\ Wanted(View, closed, InTrees(server))
      /\ View.mux = mux /\ View.client = client
  BY ClientFacts
<1>4. DOMAIN client.window \subseteq 1 .. server.made /\ Registered(mux)
  BY <1>3 DEF Mirrors
<1>5. w \in Window
  BY <1>4, WindowsAreIds
<1>6. r \in {None} \cup 1 .. server.made
  BY <1>1, <1>4
<1>7. UpFits(m, server.made, closed, InTrees(server))
  BY <1>1, <1>5, <1>6 DEF UpFits
<1>8. /\ IsList(<<m>>)
      /\ \A x \in ToSet(<<m>>) : UpFits(x, server.made, closed', InTrees(server))
  BY <1>2, <1>7, OneMessage
<1>9. opening' \subseteq Window \cup {None} /\ IsFiniteSet(opening')
  BY <1>2, <1>5, FS_Singleton, OpeningIs
<1>10. closed \subseteq closed' /\ closed' \subseteq 1 .. server.made
  BY <1>2 DEF ClientInv, HistoryInv
<1>11. Wanted(View, closed', InTrees(server))
  BY <1>2, <1>3
<1> QED BY <1>1, <1>3, <1>8, <1>9, <1>10, <1>11, LocalKeeps

LEMMA BeginWindowKeeps ==
  ASSUME EndlessIds, ClientInv, BeginWindow PROVE ClientInv'
<1>1. PICK N, w, m, n, v :
        /\ N = server.made /\ w = FreshWindow(View, None)
        /\ m = [kind |-> "spawn", window |-> None, into |-> w]
        /\ n = WithWindow(mux, w) /\ v = [View EXCEPT !.mux = n]
  OBVIOUS
<1>2. /\ Local(v, <<m>>) /\ opening' = opening \cup {w} /\ closed' = closed
  BY <1>1 DEF BeginWindow, View
<1>3. /\ N \in Nat /\ Mirrors(View, N) /\ Wanted(View, closed, InTrees(server))
      /\ Exact(View) /\ FewUnderWay /\ View.mux = mux /\ View.client = client
  BY <1>1, ClientFacts
<1>4. Registered(mux) /\ Few(mux)
  BY <1>3 DEF Mirrors
<1>5. w \in Window /\ w \notin DOMAIN mux.windows
  BY <1>1, <1>3, FreshWindowIs
<1>6. Registered(n) /\ Few(n) /\ SamePanes(mux, n)
  <2>1. n = WithWindow(mux, w) /\ w \in Window \ DOMAIN mux.windows
    BY <1>1, <1>5
  <2> QED BY <1>4, <2>1, WindowRegistered
<1>7. v \in Views /\ v.mux = n /\ v.client = client
  <2>1. n \in MuxStates /\ client \in Clients
    BY <1>3, <1>6, ClientParts DEF Registered, Mirrors
  <2>2. v = [mux |-> n, client |-> client]
    BY <1>1 DEF View
  <2> QED BY <2>1, <2>2, ViewOf
<1>8. Mirrors(v, N) /\ Exact(v) /\ Grows(View, v, {}) /\ Known(v) = Known(View)
  <2>1. /\ IsInjective(v.client.tab) /\ DOMAIN v.client.tab \subseteq 1 .. N
        /\ DOMAIN v.client.window \subseteq 1 .. N
    BY <1>3, <1>7 DEF Mirrors
  <2>2. /\ Registered(v.mux) /\ Few(v.mux) /\ SamePanes(View.mux, v.mux)
        /\ v.client.pane = View.client.pane /\ v.client.image = View.client.image
        /\ v.client.attached = View.client.attached
    BY <1>3, <1>6, <1>7
  <2> QED BY <1>3, <1>7, <2>1, <2>2, Reshaped
<1>9. Wanted(v, closed', InTrees(server))
  BY <1>2, <1>3, <1>8, GrownIsWanted
<1>10. UpFits(m, N, closed', InTrees(server))
  BY <1>1, <1>5 DEF UpFits
<1>11. IsList(<<m>>) /\ \A x \in ToSet(<<m>>) : UpFits(x, N, closed', InTrees(server))
  BY <1>10, OneMessage
<1>12. opening' \subseteq Window \cup {None} /\ IsFiniteSet(opening')
  BY <1>2, <1>5, FS_Singleton, OpeningIs
<1>13. closed \subseteq closed' /\ closed' \subseteq 1 .. server.made
  BY <1>2 DEF ClientInv, HistoryInv
<1>14. Known(v) \subseteq Known(View)
  BY <1>8
<1>15. N = server.made
  BY <1>1
<1> QED BY <1>2, <1>8, <1>9, <1>11, <1>12, <1>13, <1>14, <1>15, LocalKeeps

LEMMA BeginSplitKeeps ==
  ASSUME ClientInv, NEW w \in DOMAIN mux.windows, NEW t, NEW p, BeginSplit(w, t, p)
  PROVE  ClientInv'
<1>1. PICK m : m = [kind |-> "split", pane |-> client.image[p], target |-> p,
                    tab |-> t, into |-> w]
  OBVIOUS
<1>2. /\ Local(View, <<m>>) /\ opening' = opening \cup {w} /\ closed' = closed
      /\ p \in mux.panes
  BY <1>1 DEF BeginSplit
<1>3. /\ Mirrors(View, server.made) /\ Wanted(View, closed, InTrees(server))
      /\ View.mux = mux /\ View.client = client
  BY ClientFacts
<1>4. client.image[p] \in 1 .. server.made /\ Registered(mux)
  BY <1>2, <1>3 DEF Mirrors
<1>5. w \in Window
  BY <1>4, WindowsAreIds
<1>6. UpFits(m, server.made, closed, InTrees(server))
  BY <1>1, <1>4 DEF UpFits
<1>7. /\ IsList(<<m>>)
      /\ \A x \in ToSet(<<m>>) : UpFits(x, server.made, closed', InTrees(server))
  BY <1>2, <1>6, OneMessage
<1>8. opening' \subseteq Window \cup {None} /\ IsFiniteSet(opening')
  BY <1>2, <1>5, FS_Singleton, OpeningIs
<1>9. closed \subseteq closed' /\ closed' \subseteq 1 .. server.made
  BY <1>2 DEF ClientInv, HistoryInv
<1>10. Wanted(View, closed', InTrees(server))
  BY <1>2, <1>3
<1> QED BY <1>2, <1>3, <1>7, <1>8, <1>9, <1>10, LocalKeeps

(* The mux gives up panes of P, and is pruned afterwards or not.           *)
LEMMA LossesKeep ==
  ASSUME ClientInv, NEW P, NEW m, GivesUp(mux, m, P), NEW c, c \in Clients,
         c.pane = client.pane, c.tab = client.tab, c.window = client.window,
         c.image = client.image, c.attached => client.attached,
         closed \subseteq closed', closed' \subseteq 1 .. server.made, opening' = opening,
         \A p \in P \cap mux.panes :
           p \in m.panes \/ c.attached =>
             client.image[p] \in closed' \/ client.image[p] \notin InTrees(server),
         NEW v, \/ v = [mux |-> m, client |-> c]
                \/ \E o \in Pruned(m, opening) : v = [mux |-> o, client |-> c],
         Local(v, <<>>)
  PROVE  ClientInv'
<1>1. PICK N, I, n : N = server.made /\ I = InTrees(server) /\ n = [mux |-> m, client |-> c]
  OBVIOUS
<1>2. /\ N \in Nat /\ Mirrors(View, N) /\ Wanted(View, closed, I)
      /\ View.mux = mux /\ View.client = client
  BY <1>1, ClientFacts
<1>3. m \in MuxStates
  BY DEF GivesUp, Registered
<1>4. n \in Views /\ n.mux = m /\ n.client = c
  BY <1>1, <1>3, ViewOf
<1>5. Mirrors(n, N) /\ Known(n) \subseteq Known(View)
  <2>1. /\ GivesUp(View.mux, n.mux, P) /\ n.client.pane = View.client.pane
        /\ n.client.tab = View.client.tab /\ n.client.window = View.client.window
        /\ n.client.image = View.client.image
    BY <1>2, <1>4
  <2> QED BY <1>2, <1>4, <2>1, Lessened
<1>6. Wanted(n, closed', I)
  <2>1. /\ GivesUp(View.mux, n.mux, P) /\ n.client.image = View.client.image
        /\ n.client.attached => View.client.attached
        /\ \A p \in P \cap View.mux.panes :
             p \in n.mux.panes \/ n.client.attached =>
               View.client.image[p] \in closed' \/ View.client.image[p] \notin I
    BY <1>1, <1>2, <1>4
  <2>2. View.mux.panes \subseteq DOMAIN View.client.image
    BY <1>2 DEF Mirrors
  <2> QED BY <1>2, <2>1, <2>2, LessenedIsWanted
<1>7. Mirrors(v, N) /\ Wanted(v, closed', I) /\ Known(v) \subseteq Known(View)
  <2>1. CASE v = n
    BY <1>5, <1>6, <2>1
  <2>2. ASSUME NEW o \in Pruned(m, opening), v = [mux |-> o, client |-> c]
        PROVE  Mirrors(v, N) /\ Wanted(v, closed', I) /\ Known(v) \subseteq Known(View)
    <3>1. o \in MuxStates
      <4>1. Registered(m)
        BY DEF GivesUp
      <4> QED BY <4>1, PrunedGivesUp DEF GivesUp, Registered
    <3>2. v \in Views /\ v.mux \in Pruned(n.mux, opening) /\ v.client = n.client
      BY <1>4, <2>2, <3>1, ViewOf
    <3>3. Mirrors(v, N) /\ Wanted(v, closed', I) /\ Known(v) \subseteq Known(n)
      BY <1>2, <1>5, <1>6, <3>2, PrunedIsWanted
    <3> QED BY <1>5, <3>3
  <2> QED BY <1>1, <2>1, <2>2
<1>8. opening' \subseteq Window \cup {None} /\ IsFiniteSet(opening')
  BY DEF ClientInv, HistoryInv
<1> QED BY <1>1, <1>7, <1>8, NothingFits, LocalKeeps

(* What Closes makes of the history. *)
LEMMA ClosedGrows ==
  ASSUME ClientInv, NEW P, Closes(P)
  PROVE  /\ closed \subseteq closed' /\ closed' \subseteq 1 .. server.made
         /\ opening' = opening
         /\ \A p \in P \cap mux.panes :
              client.image[p] \in closed' \/ client.image[p] \notin InTrees(server)
<1>1. closed \subseteq 1 .. server.made /\ InTrees(server) \subseteq 1 .. server.made
  BY TabsAreMade DEF ClientInv, HistoryInv
<1>2. closed' = closed \cup ({client.image[p] : p \in P \cap mux.panes} \cap InTrees(server))
  BY DEF Closes
<1> QED BY <1>1, <1>2 DEF Closes

LEMMA LocalParts ==
  ASSUME ClientInv
  PROVE  /\ Registered(mux) /\ mux \in MuxStates /\ client \in Clients
         /\ \A m : [View EXCEPT !.mux = m] = [mux |-> m, client |-> client]
<1>1. Mirrors(View, server.made) /\ View \in Views /\ View.mux = mux /\ View.client = client
  BY ClientFacts
<1>2. \A m : [View EXCEPT !.mux = m] = [mux |-> m, client |-> client]
  BY DEF View
<1>3. View.client \in Clients
  BY <1>1, ClientParts
<1> QED BY <1>1, <1>2, <1>3 DEF Mirrors, Registered

LEMMA KillFromTabKeeps ==
  ASSUME ClientInv, NEW w \in DOMAIN mux.windows, NEW t \in TabsOf(mux.windows[w]),
         NEW p \in mux.tabs[t], KillFromTab(t, p)
  PROVE  ClientInv'
<1>1. PICK Q, o, R, m : /\ Q = mux.tabs[t] \ {p} /\ o = [mux EXCEPT !.tabs[t] = Q]
                        /\ R = mux.removing \cup {p} /\ m = [o EXCEPT !.removing = R]
  OBVIOUS
<1>2. /\ Registered(mux) /\ mux \in MuxStates /\ client \in Clients
      /\ [View EXCEPT !.mux = m] = [mux |-> m, client |-> client]
  BY LocalParts
<1>3. t \in DOMAIN mux.tabs /\ mux.tabs[t] \subseteq Pane /\ mux.removing \subseteq Pane
  <2>1. t \in DOMAIN mux.tabs
    BY <1>2 DEF Registered
  <2> QED BY <1>2, <2>1, WindowsAreIds
<1>4. Q \in SUBSET Pane
  BY <1>1, <1>3
<1>5. /\ Registered(o) /\ o.windows = mux.windows /\ DOMAIN o.tabs = DOMAIN mux.tabs
      /\ SamePanes(mux, o)
  <2>1. o = [mux EXCEPT !.tabs[t] = Q] /\ Registered(mux) /\ t \in DOMAIN mux.tabs
    BY <1>1, <1>2, <1>3
  <2> QED BY <1>4, <2>1, TabReplaced
<1>6. \A x \in DOMAIN o.tabs : o.tabs[x] \subseteq mux.tabs[x]
  <2>1. o.tabs = [mux.tabs EXCEPT ![t] = Q]
    BY <1>1, <1>2 DEF MuxStates
  <2> QED BY <1>1, <1>3, <1>5, <2>1
<1>7. InTabs(o) \subseteq InTabs(mux)
  BY <1>5, <1>6, InFewerTabs
<1>8. /\ m \in MuxStates /\ m.windows = o.windows /\ m.tabs = o.tabs /\ m.panes = o.panes
      /\ m.process = o.process /\ m.removing = R
  <2>1. o \in MuxStates /\ R \in SUBSET Pane
    BY <1>1, <1>3, <1>5 DEF Registered
  <2> QED BY <1>1, <2>1 DEF MuxStates
<1>9. Registered(m)
  BY <1>5, <1>8 DEF Registered
<1>10. p \in InTabs(mux)
  BY <1>3 DEF InTabs, PanesInTabs
<1>11. PICK P : P = {p}
  OBVIOUS
<1>12. GivesUp(mux, m, P)
  <2>1. InTabs(m) \subseteq InTabs(mux)
    BY <1>7, <1>8 DEF InTabs, PanesInTabs
  <2>2. /\ m.process = mux.process /\ DOMAIN m.windows \subseteq DOMAIN mux.windows
        /\ DOMAIN m.tabs \subseteq DOMAIN mux.tabs /\ m.panes = mux.panes
    BY <1>5, <1>8 DEF SamePanes
  <2>3. m.removing \subseteq mux.removing \cup InTabs(mux)
        /\ m.removing \subseteq mux.removing \cup P
    BY <1>1, <1>8, <1>10, <1>11
  <2> QED BY <1>9, <2>1, <2>2, <2>3 DEF GivesUp
<1>13. Local([View EXCEPT !.mux = m], <<>>)
  <2>1. m = [TakePane(mux, t, p) EXCEPT !.removing = @ \cup {p}]
    <3>1. TakePane(mux, t, p) = o /\ o.removing = mux.removing
      BY <1>1, <1>2, <1>3, <1>5 DEF TakePane, SamePanes
    <3> QED BY <1>1, <3>1
  <2> QED BY <2>1 DEF KillFromTab
<1>14. Closes(P)
  BY <1>11 DEF KillFromTab
<1>15. /\ closed \subseteq closed' /\ closed' \subseteq 1 .. server.made
       /\ opening' = opening
       /\ \A x \in P \cap mux.panes :
            client.image[x] \in closed' \/ client.image[x] \notin InTrees(server)
  BY <1>14, ClosedGrows
<1>16. PICK v : v = [mux |-> m, client |-> client]
  OBVIOUS
<1>17. Local(v, <<>>)
  BY <1>2, <1>13, <1>16
<1> QED BY <1>2, <1>12, <1>15, <1>16, <1>17, LossesKeep

LEMMA CloseTabKeeps ==
  ASSUME ClientInv, NEW w \in DOMAIN mux.windows, NEW t \in TabsOf(mux.windows[w]),
         CloseTab(t)
  PROVE  ClientInv'
<1>1. PICK m, P : m = RemoveTab(mux, t) /\ P = mux.tabs[t]
  OBVIOUS
<1>2. Registered(mux) /\ client \in Clients
  BY LocalParts
<1>3. t \in DOMAIN mux.tabs
  BY <1>2 DEF Registered
<1>4. GivesUp(mux, m, P)
  <2>1. GivesUp(mux, m, PanesInTabs(mux, {t} \cap DOMAIN mux.tabs))
    BY <1>1, <1>2, TabsGivenUp DEF RemoveTab
  <2>2. PanesInTabs(mux, {t} \cap DOMAIN mux.tabs) = P
    <3>1. {t} \cap DOMAIN mux.tabs = {t}
      BY <1>3
    <3>2. PanesInTabs(mux, {t}) = P
      BY <1>1 DEF PanesInTabs
    <3> QED BY <3>1, <3>2
  <2> QED BY <2>1, <2>2
<1>5. PICK o, v : /\ o \in Pruned(m, opening) /\ v = [mux |-> o, client |-> client]
                   /\ Local(v, <<>>)
  <2>1. PICK o \in Pruned(m, opening) : Local([View EXCEPT !.mux = o], <<>>)
    BY <1>1 DEF CloseTab
  <2>2. [View EXCEPT !.mux = o] = [mux |-> o, client |-> client]
    BY LocalParts
  <2> QED BY <2>1, <2>2
<1>6. /\ closed \subseteq closed' /\ closed' \subseteq 1 .. server.made
      /\ opening' = opening
      /\ \A p \in P \cap mux.panes :
           client.image[p] \in closed' \/ client.image[p] \notin InTrees(server)
  <2>1. Closes(P)
    BY <1>1 DEF CloseTab
  <2> QED BY <2>1, ClosedGrows
<1> QED BY <1>2, <1>4, <1>5, <1>6, LossesKeep

LEMMA CloseWindowKeeps ==
  ASSUME ClientInv, NEW w \in DOMAIN mux.windows, CloseWindow(w) PROVE ClientInv'
<1>1. PICK inside, P, c :
        /\ inside = PanesInTabs(mux, TabsOf(mux.windows[w]))
        /\ P = inside \cup IF inside = {} THEN {} ELSE Pane
        /\ c = [client EXCEPT !.attached = (client.attached /\ inside = {})]
  OBVIOUS
<1>2. PICK m \in RemoveWindow(mux, w, opening) :
         \E o \in Pruned(m, opening) : Local([mux |-> o, client |-> c], <<>>)
  BY <1>1 DEF CloseWindow
<1>3. PICK o, v : /\ o \in Pruned(m, opening) /\ v = [mux |-> o, client |-> c]
                   /\ Local(v, <<>>)
  BY <1>2
<1>4. Registered(mux) /\ client \in Clients
  BY LocalParts
<1>5. GivesUp(mux, m, P) /\ (inside # {} => m.panes = {})
  BY <1>1, <1>4, WindowGivenUp
<1>6. client.attached \in BOOLEAN
  BY <1>4 DEF Clients
<1>7. /\ c \in Clients /\ c.pane = client.pane /\ c.tab = client.tab
      /\ c.window = client.window /\ c.image = client.image
      /\ c.attached = (client.attached /\ inside = {})
  BY <1>1, <1>4, <1>6 DEF Clients
<1>8. /\ closed \subseteq closed' /\ closed' \subseteq 1 .. server.made
      /\ opening' = opening
  BY ClosedGrows DEF CloseWindow
<1>9. \A p \in P \cap mux.panes : ~ (p \in m.panes \/ c.attached)
  <2>1. CASE inside = {}
    BY <1>1, <2>1
  <2>2. CASE inside # {}
    BY <1>5, <1>7, <2>2
  <2> QED BY <2>1, <2>2
<1>10. c.attached => client.attached
  BY <1>7
<1>11. /\ GivesUp(mux, m, P) /\ c \in Clients /\ c.pane = client.pane /\ c.tab = client.tab
       /\ c.window = client.window /\ c.image = client.image
  BY <1>5, <1>7
<1> QED BY <1>3, <1>8, <1>9, <1>10, <1>11, LossesKeep

LEMMA DetachKeeps ==
  ASSUME ClientInv, Detach PROVE ClientInv'
<1>1. PICK c : c = [client EXCEPT !.attached = FALSE]
  OBVIOUS
<1>2. PICK m, v : /\ m \in Detached(mux, opening) /\ v = [mux |-> m, client |-> c]
                   /\ Local(v, <<>>)
  BY <1>1 DEF Detach
<1>3. Registered(mux) /\ client \in Clients
  BY LocalParts
<1>4. GivesUp(mux, m, Pane) /\ m.panes = {}
  BY <1>2, <1>3, DetachedGivesUp
<1>5. /\ c \in Clients /\ c.pane = client.pane /\ c.tab = client.tab
      /\ c.window = client.window /\ c.image = client.image /\ ~ c.attached
  BY <1>1, <1>3 DEF Clients
<1>6. /\ closed \subseteq closed' /\ closed' \subseteq 1 .. server.made
      /\ opening' = opening
  BY ClosedGrows DEF Detach
<1>7. \A p \in Pane \cap mux.panes : ~ (p \in m.panes \/ c.attached)
  BY <1>4, <1>5
<1>8. GivesUp(mux, m, Pane)
  BY <1>4
<1> QED BY <1>2, <1>5, <1>6, <1>7, <1>8, LossesKeep

LEMMA RunRemoveKeeps ==
  ASSUME ClientInv, NEW p \in mux.removing, RunRemove(p) PROVE ClientInv'
<1>1. PICK R, o, P, m :
        /\ R = mux.removing \ {p} /\ o = [mux EXCEPT !.removing = R] /\ P = {p}
        /\ m = RemovePanes(o, P)
  OBVIOUS
<1>2. Registered(mux) /\ mux \in MuxStates /\ client \in Clients
  BY LocalParts
<1>3. R \in SUBSET Pane
  BY <1>1, <1>2, WindowsAreIds
<1>4. /\ o \in MuxStates /\ o.windows = mux.windows /\ o.tabs = mux.tabs
      /\ o.panes = mux.panes /\ o.process = mux.process /\ o.removing = R
  BY <1>1, <1>2, <1>3 DEF MuxStates
<1>5. Registered(o)
  BY <1>2, <1>4 DEF Registered
<1>6. GivesUp(mux, o, {})
  <2>1. InTabs(o) = InTabs(mux)
    BY <1>4 DEF InTabs, PanesInTabs
  <2> QED BY <1>1, <1>4, <1>5, <2>1 DEF GivesUp
<1>7. GivesUp(o, m, P)
  BY <1>1, <1>5, PanesGivenUp
<1>8. GivesUp(mux, m, P)
  <2>1. GivesUp(mux, m, {} \cup P)
    BY <1>6, <1>7, GivenUpInTurn
  <2>2. {} \cup P = P
    OBVIOUS
  <2> QED BY <2>1, <2>2
<1>9. PICK q, v : /\ q \in Pruned(m, opening) /\ v = [mux |-> q, client |-> client]
                   /\ Local(v, <<>>)
  <2>1. PICK q \in Pruned(m, opening) : Local([View EXCEPT !.mux = q], <<>>)
    BY <1>1 DEF RunRemove
  <2>2. [View EXCEPT !.mux = q] = [mux |-> q, client |-> client]
    BY LocalParts
  <2> QED BY <2>1, <2>2
<1>10. opening' = opening /\ closed' = closed
  BY DEF RunRemove
<1>11. Wanted(View, closed, InTrees(server)) /\ View.mux = mux /\ View.client = client
  BY ClientFacts
<1>12. \A x \in P \cap mux.panes :
         client.image[x] \in closed' \/ client.image[x] \notin InTrees(server)
  BY <1>1, <1>10, <1>11 DEF Wanted
<1>13. closed \subseteq closed' /\ closed' \subseteq 1 .. server.made
  BY <1>10 DEF ClientInv, HistoryInv
<1> QED BY <1>2, <1>8, <1>9, <1>10, <1>12, <1>13, LossesKeep

LEMMA RunPruneKeeps ==
  ASSUME ClientInv, RunPrune PROVE ClientInv'
<1>1. PICK P : P = {}
  OBVIOUS
<1>2. Registered(mux) /\ client \in Clients
  BY LocalParts
<1>3. GivesUp(mux, mux, P)
  BY <1>1, <1>2, NothingGivenUp
<1>4. PICK q, v : /\ q \in Pruned(mux, opening) /\ v = [mux |-> q, client |-> client]
                   /\ Local(v, <<>>)
  <2>1. PICK q \in Pruned(mux, opening) : Local([View EXCEPT !.mux = q], <<>>)
    BY DEF RunPrune
  <2>2. [View EXCEPT !.mux = q] = [mux |-> q, client |-> client]
    BY LocalParts
  <2> QED BY <2>1, <2>2
<1>5. opening' = opening /\ closed' = closed
  BY DEF RunPrune
<1>6. closed \subseteq closed' /\ closed' \subseteq 1 .. server.made
  BY <1>5 DEF ClientInv, HistoryInv
<1>7. \A p \in P \cap mux.panes :
        client.image[p] \in closed' \/ client.image[p] \notin InTrees(server)
  BY <1>1
<1> QED BY <1>2, <1>3, <1>4, <1>5, <1>6, <1>7, LossesKeep

LEMMA UserActsKeeps ==
  ASSUME EndlessIds, ClientInv, UserActs PROVE ClientInv'
BY BeginTabKeeps, BeginWindowKeeps, BeginSplitKeeps, KillFromTabKeeps, CloseTabKeeps,
   CloseWindowKeeps, DetachKeeps DEF UserActs

-----------------------------------------------------------------------------
(* Everything together.                                                    *)

LEMMA ClientStarts == Init => ClientInv
<1> SUFFICES ASSUME Init PROVE ClientInv
  OBVIOUS
<1>1. PICK nothing : nothing = << >>
  OBVIOUS
<1>2. DOMAIN nothing = {} /\ nothing = [x \in {} |-> x]
  BY <1>1
<1>3. \A S, T : nothing \in Partial(S, T)
  <2>1. ASSUME NEW S, NEW T PROVE nothing \in Partial(S, T)
    <3>1. {} \in SUBSET S /\ nothing \in [{} -> T]
      BY <1>2
    <3> QED BY <3>1 DEF Partial
  <2> QED BY <2>1
<1>4. /\ mux = [windows |-> nothing, tabs |-> nothing, panes |-> {},
                process |-> [p \in Pane |-> "dead"], removing |-> {}, told |-> FALSE]
      /\ opening = {None} /\ down = <<>> /\ closed = {} /\ unplaced = {}
      /\ client = [attached |-> FALSE, window |-> nothing, tab |-> nothing,
                   pane |-> nothing, image |-> nothing, panicked |-> FALSE]
      /\ up = <<List(None)>>
  BY <1>1 DEF Init
<1>5. mux \in MuxStates
  BY <1>3, <1>4 DEF MuxStates
<1>6. client \in Clients
  BY <1>3, <1>4 DEF Clients
<1>7. Registered(mux)
  BY <1>2, <1>4, <1>5 DEF Registered
<1>8. Few(mux)
  <2>1. InTabs(mux) = {}
    BY <1>2, <1>4 DEF InTabs, PanesInTabs
  <2> QED BY <1>2, <1>4, <2>1, FS_EmptySet DEF Few
<1>9. View \in Views /\ View.mux = mux /\ View.client = client
  BY <1>5, <1>6, ViewOf DEF View
<1>10. IsInjective(nothing)
  BY <1>2 DEF IsInjective
<1>11. PICK x, tabs : x = RemoteTab(1, {1}) /\ tabs = Mapped(nothing, 1, x)
  OBVIOUS
<1>12. x \in [window : Nat, panes : SUBSET Nat] /\ x.window = 1 /\ x.panes = {1}
  BY <1>11 DEF RemoteTab
<1>13. server = [tabs |-> tabs, leaving |-> {}, silent |-> {}, made |-> 1]
  BY <1>1, <1>11 DEF Init
<1>14. tabs \in RemoteTabs /\ DOMAIN tabs = {1} /\ tabs[1] = x
  <2>1. DOMAIN tabs = {1} /\ tabs[1] = x
    BY <1>2, <1>11 DEF Mapped
  <2>2. tabs \in RemoteTabs
    BY <1>3, <1>11, <1>12, MappedIn DEF RemoteTabs
  <2> QED BY <2>1, <2>2
<1>15. Listing(tabs, 1)
  BY <1>12, <1>14 DEF Listing
<1>16. SoundServer(server) /\ server.made = 1
  BY <1>13, <1>14, <1>15 DEF SoundServer, Servers
<1>17. MirrorInv
  <2>1. Mirrors(View, 1)
    BY <1>2, <1>4, <1>7, <1>8, <1>9, <1>10 DEF Mirrors
  <2>2. Exact(View)
    BY <1>2, <1>4, <1>9 DEF Exact
  <2>3. Wanted(View, closed, InTrees(server))
    BY <1>4, <1>9 DEF Wanted
  <2> QED BY <1>16, <2>1, <2>2, <2>3 DEF MirrorInv
<1>18. HistoryInv
  BY <1>4, FS_Singleton DEF HistoryInv
<1>19. UpInv
  <2>1. UpFits(List(None), server.made, closed, InTrees(server))
    BY DEF List, UpFits
  <2> QED BY <1>4, <2>1, OneMessage DEF UpInv
<1>20. DownInv
  <2>1. IsList(down) /\ ToSet(down) = {} /\ DOMAIN down = {}
    BY <1>4, ShortLists
  <2> QED BY <2>1 DEF DownInv, AnswersNew
<1> QED BY <1>16, <1>17, <1>18, <1>19, <1>20 DEF ClientInv

LEMMA ClientPreserved ==
  ASSUME EndlessIds PROVE ClientInv /\ [Next]_vars => ClientInv'
<1> SUFFICES ASSUME ClientInv, [Next]_vars PROVE ClientInv'
  OBVIOUS
<1>1. CASE UNCHANGED vars
  BY <1>1 DEF vars, ClientInv, MirrorInv, HistoryInv, UpInv, DownInv, View
<1>2. CASE Next
  BY <1>2, OthersActKeeps, ServerRunsKeeps, ClientHearsKeeps, UserActsKeeps, RunPruneKeeps,
     RunRemoveKeeps DEF Next
<1> QED BY <1>1, <1>2

LEMMA ClientInvariant ==
  ASSUME EndlessIds PROVE Spec => []ClientInv
BY ClientStarts, ClientPreserved, PTL DEF Spec

(* The local mux registers a pane for every image and for nothing else,    *)
(* and every map, request and history is about ids that were given out, as *)
(* long as the program (terminaler-client/src/domain.rs) has ids left.     *)
THEOREM MirrorTypeCorrect ==
  ASSUME EndlessIds PROVE Spec => []TypeOK
<1>1. ASSUME ClientInv PROVE TypeOK
  <2>1. /\ Mirrors(View, server.made) /\ Exact(View) /\ View.mux = mux
        /\ View.client = client /\ View \in Views
    BY <1>1, ClientFacts
  <2>2. Registered(mux) /\ mux.panes \subseteq Pane /\ mux.removing \subseteq Pane
    BY <1>1, LocalParts, WindowsAreIds
  <2>3. DOMAIN client.image = mux.panes
    BY <2>1 DEF Exact
  <2>4. /\ Range(client.pane) \subseteq Pane /\ Range(client.tab) \subseteq Tab
        /\ Range(client.window) \subseteq Window
    BY <2>1, ClientParts DEF Range
  <2>5. opening \ {None} \subseteq Window /\ closed \cup unplaced \subseteq 1 .. server.made
    BY <1>1 DEF ClientInv, HistoryInv
  <2>6. /\ DOMAIN client.pane \subseteq 1 .. server.made
        /\ DOMAIN client.tab \subseteq 1 .. server.made
        /\ DOMAIN client.window \subseteq 1 .. server.made
        /\ Range(client.image) \subseteq 1 .. server.made
    BY <2>1 DEF Mirrors, Range
  <2>7. UNION {DOMAIN f : f \in {client.pane, client.tab, client.window}}
          \subseteq 1 .. server.made
    BY <2>6
  <2>8. \A m \in ToSet(up) :
          /\ m.kind \in {"kill", "split"} => m.pane \in 1 .. server.made
          /\ m.kind = "spawn" => m.window \in {None} \cup 1 .. server.made
    BY <1>1 DEF ClientInv, UpInv, UpFits
  <2>9. (UNION {DOMAIN f : f \in {client.pane, client.tab, client.window}})
          \cup Range(client.image) \cup closed \cup unplaced \subseteq 1 .. server.made
    BY <2>5, <2>6, <2>7
  <2>10. /\ mux.panes \cup mux.removing \subseteq Pane
         /\ Range(client.window) \cup (opening \ {None}) \subseteq Window
    BY <2>2, <2>4, <2>5
  <2> QED BY <2>3, <2>4, <2>8, <2>9, <2>10 DEF TypeOK
<1> QED BY <1>1, ClientInvariant, PTL

(* No remote pane or tab has two images, and the map leads to the one it   *)
(* has (process_pane_list, remote_to_local_pane_id and the answers to      *)
(* spawns and splits, in every order).                                     *)
THEOREM EveryPaneOnce ==
  ASSUME EndlessIds PROVE Spec => []OneImageEach
<1>1. ASSUME ClientInv PROVE OneImageEach
  <2>1. Mirrors(View, server.made) /\ View.mux = mux /\ View.client = client
    BY <1>1, ClientFacts
  <2> QED BY <2>1 DEF Mirrors, OneImageEach
<1> QED BY <1>1, ClientInvariant, PTL

(* A pane that is in a tab of the server is asked to be killed only if the *)
(* user closed it: neither pruning nor detaching nor a list asks for it    *)
(* (ClientPane::kill).                                                     *)
THEOREM OnlyClosedPanesAreKilled ==
  ASSUME EndlessIds PROVE Spec => []KillsAreWanted
<1>1. ASSUME ClientInv PROVE KillsAreWanted
  BY <1>1 DEF ClientInv, UpInv, UpFits, KillsAreWanted
<1> QED BY <1>1, ClientInvariant, PTL
=============================================================================

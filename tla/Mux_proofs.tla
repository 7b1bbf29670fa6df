------------------------------ MODULE Mux_proofs ------------------------------
(***************************************************************************)
(* For any windows, tabs and panes: the registries stay consistent, and    *)
(* what is dead is on show only as long as a sweep is still to come.       *)
(***************************************************************************)
EXTENDS Mux, MuxState_proofs

(* Nothing is left to do, or something that will do it is on its way.  (A  *)
(* move that fails may leave a tab without panes.)                         *)
Settled == SweepAhead \/ ((ResizeFails \/ Clean(mux)) /\ Told(mux))

(* No two splits hold the same Activity.                                   *)
SplitsFit(splits, held) ==
  /\ splits \subseteq [tab : Tab, beside : Pane, into : held \cup {None}]
  /\ \A r, s \in splits : r = s \/ r.into # s.into \/ r.into = None

Threads ==
  /\ pruning \in BOOLEAN /\ reading \subseteq Pane \ Remote /\ opening \subseteq Window
  /\ SplitsFit(splitting, opening)

IInv == Consistent(mux) /\ Threads /\ Settled

-----------------------------------------------------------------------------
(* Lists of tabs.                                                          *)

(* A window's list is replaced by one of the same tabs. *)
LEMMA SameTabs ==
  ASSUME NEW m, Consistent(m), NEW w \in DOMAIN m.windows,
         NEW list \in Windows(Tab), Sound(list),
         TabsOf(list) = TabsOf(m.windows[w]),
         NEW n, n = [m EXCEPT !.windows[w] = list]
  PROVE  /\ Consistent(n) /\ n.removing = m.removing
         /\ Clean(m) => Clean(n)
         /\ Told(m) => Told(n)
<1>1. /\ m.windows[w] \in Windows(Tab)
      /\ TabsOf(list) \subseteq DOMAIN m.tabs
      /\ \A v \in DOMAIN m.windows \ {w} :
           TabsOf(m.windows[v]) \cap TabsOf(list) = {}
  BY Parts DEF Consistent, Homes
<1>2. /\ Consistent(n) /\ DOMAIN n.windows = DOMAIN m.windows
      /\ \A v \in DOMAIN m.windows :
           n.windows[v] = IF v = w THEN list ELSE m.windows[v]
      /\ n.tabs = m.tabs /\ SamePanes(m, n)
  BY <1>1, ListChanged
<1>3. list.tabs = <<>> <=> m.windows[w].tabs = <<>>
  BY <1>1, SetOfSeq DEF TabsOf, Windows
<1>4. \A v \in DOMAIN m.windows :
        /\ TabsOf(n.windows[v]) = TabsOf(m.windows[v])
        /\ n.windows[v].tabs = <<>> <=> m.windows[v].tabs = <<>>
  BY <1>2, <1>3
<1>5. ASSUME Clean(m) PROVE Clean(n)
  BY <1>2, <1>4, <1>5 DEF Clean, SamePanes, IsDead
<1> QED BY <1>2, <1>5 DEF Told, SamePanes

LEMMA TabOfWindowActivated ==
  ASSUME NEW m, Consistent(m), NEW w \in DOMAIN m.windows,
         NEW i \in 0 .. Len(m.windows[w].tabs) - 1
  PROVE  LET n == ActivateAt(m, w, i)
         IN  /\ Consistent(n) /\ n.removing = m.removing
             /\ Clean(m) => Clean(n)
             /\ Told(m) => Told(n)
<1> DEFINE list == SaveThenActivate(m.windows[w], i)
           n == ActivateAt(m, w, i)
<1>1. m.windows[w] \in Windows(Tab) /\ Sound(m.windows[w])
  BY Parts DEF Consistent, Homes
<1>2. /\ list \in Windows(Tab) /\ Sound(list)
      /\ TabsOf(list) = TabsOf(m.windows[w])
  BY <1>1, TabActivated, MuxAssumption DEF TabsOf
<1>3. n = [m EXCEPT !.windows[w] = list]
  BY DEF ActivateAt
<1> HIDE DEF list, n
<1>4. /\ Consistent(n) /\ n.removing = m.removing
      /\ Clean(m) => Clean(n)
      /\ Told(m) => Told(n)
  BY <1>2, <1>3, SameTabs
<1> QED BY <1>4 DEF n

LEMMA TabOfWindowMoved ==
  ASSUME NEW m, Consistent(m), NEW w \in DOMAIN m.windows,
         NEW i \in 0 .. Len(m.windows[w].tabs) - 1
  PROVE  LET n == MoveTabTo(m, w, i)
         IN  /\ Consistent(n) /\ n.removing = m.removing
             /\ Clean(m) => Clean(n)
             /\ Told(m) => Told(n)
<1> DEFINE list == MoveActive(m.windows[w], i)
           n == MoveTabTo(m, w, i)
<1>1. m.windows[w] \in Windows(Tab) /\ Sound(m.windows[w])
  BY Parts DEF Consistent, Homes
<1>2. /\ list \in Windows(Tab) /\ Sound(list)
      /\ TabsOf(list) = TabsOf(m.windows[w])
  BY <1>1, ActiveMoved, MuxAssumption
<1>3. n = [m EXCEPT !.windows[w] = list]
  BY DEF MoveTabTo
<1> HIDE DEF list, n
<1>4. /\ Consistent(n) /\ n.removing = m.removing
      /\ Clean(m) => Clean(n)
      /\ Told(m) => Told(n)
  BY <1>2, <1>3, SameTabs
<1> QED BY <1>4 DEF n

(* A registered tab that is in no window joins one. *)
LEMMA TabJoins ==
  ASSUME NEW m, Consistent(m), NEW w \in DOMAIN m.windows,
         NEW t \in DOMAIN m.tabs, t \notin TabsInWindows(m)
  PROVE  LET n == AddTabToWindow(m, t, w)
         IN  /\ Consistent(n) /\ DOMAIN n.windows = DOMAIN m.windows
             /\ t \in TabsOf(n.windows[w])
             /\ n.windows[w].tabs # <<>>
             /\ \A v \in DOMAIN m.windows :
                  /\ TabsOf(n.windows[v]) \subseteq TabsOf(m.windows[v]) \cup {t}
                  /\ v # w => n.windows[v] = m.windows[v]
             /\ n.tabs = m.tabs /\ SamePanes(m, n)
<1> DEFINE list == Push(m.windows[w], t)
           n == AddTabToWindow(m, t, w)
<1>1. /\ m.windows[w] \in Windows(Tab) /\ Sound(m.windows[w])
      /\ TabsOf(m.windows[w]) \subseteq DOMAIN m.tabs
      /\ t \in Tab /\ \A v \in DOMAIN m.windows : t \notin TabsOf(m.windows[v])
  BY Parts DEF Consistent, Homes, TabsInWindows
<1>2. /\ list \in Windows(Tab) /\ Sound(list)
      /\ TabsOf(list) = TabsOf(m.windows[w]) \cup {t}
  BY <1>1, TabPushed, MuxAssumption
<1>3. n = [m EXCEPT !.windows[w] = list]
  BY DEF AddTabToWindow
<1> HIDE DEF list, n
<1>4. \A v \in DOMAIN m.windows \ {w} :
        TabsOf(m.windows[v]) \cap TabsOf(list) = {}
  BY <1>1, <1>2 DEF Consistent, Homes
<1>5. /\ Consistent(n) /\ DOMAIN n.windows = DOMAIN m.windows
      /\ \A v \in DOMAIN m.windows :
           n.windows[v] = IF v = w THEN list ELSE m.windows[v]
      /\ n.tabs = m.tabs /\ SamePanes(m, n)
  BY <1>1, <1>2, <1>3, <1>4, ListChanged
<1>6. list.tabs # <<>>
  BY <1>2, SetOfSeq DEF TabsOf, Windows
<1> QED BY <1>2, <1>5, <1>6 DEF n

-----------------------------------------------------------------------------
(* Panes.                                                                  *)

(* Removals are queued.                                                    *)
LEMMA RemovalQueued ==
  ASSUME NEW m, Consistent(m), NEW p \in Pane,
         NEW n, n = [m EXCEPT !.removing = m.removing \cup {p}]
  PROVE  Consistent(n) /\ n.removing = m.removing \cup {p}
<1>1. m \in MuxStates /\ Homes(m)
  BY DEF Consistent
<1>2. /\ n \in MuxStates /\ n.removing = m.removing \cup {p}
      /\ n.windows = m.windows /\ n.tabs = m.tabs
  BY <1>1 DEF MuxStates
<1> QED BY <1>1, <1>2 DEF Consistent, Homes

(* A queued removal is taken up.                                           *)
LEMMA RemovalTaken ==
  ASSUME NEW m, Consistent(m), NEW p,
         NEW n, n = [m EXCEPT !.removing = m.removing \ {p}]
  PROVE  Consistent(n)
<1>1. m \in MuxStates /\ Homes(m)
  BY DEF Consistent
<1>2. n \in MuxStates /\ n.windows = m.windows /\ n.tabs = m.tabs
  BY <1>1 DEF MuxStates
<1> QED BY <1>1, <1>2 DEF Consistent, Homes

(* A child exits.                                                          *)
LEMMA ChildExited ==
  ASSUME NEW m, Consistent(m), NEW p \in Pane, NEW how \in {"held", "dead"},
         NEW n, n = [m EXCEPT !.process[p] = how]
  PROVE  Consistent(n)
<1>1. m \in MuxStates /\ Homes(m)
  BY DEF Consistent
<1>2. n \in MuxStates /\ n.windows = m.windows /\ n.tabs = m.tabs
  BY <1>1 DEF MuxStates
<1> QED BY <1>1, <1>2 DEF Consistent, Homes

(* A pane that is in no tab is put into one.                               *)
LEMMA PanePutClean ==
  ASSUME NEW m, Consistent(m), Clean(m), NEW t \in DOMAIN m.tabs, NEW p \in m.panes,
         ~ IsDead(m, p), \A u \in DOMAIN m.tabs : p \notin m.tabs[u]
  PROVE  LET n == PutPane(m, t, p) IN Clean(n)
<1> DEFINE n == PutPane(m, t, p)
<1>1. p \in Pane
  BY Parts DEF Consistent
<1>2. /\ n.windows = m.windows /\ DOMAIN n.tabs = DOMAIN m.tabs
      /\ \A u \in DOMAIN m.tabs :
           n.tabs[u] = IF u = t THEN m.tabs[t] \cup {p} ELSE m.tabs[u]
      /\ SamePanes(m, n)
  <2>1. \A u \in DOMAIN m.tabs \ {t} : p \notin m.tabs[u]
    OBVIOUS
  <2> QED BY <1>1, <2>1, PanePut, SMTT(30)
<1> HIDE DEF n
<1>3. \A w \in DOMAIN m.windows : TabsOf(m.windows[w]) \subseteq DOMAIN m.tabs
  BY DEF Consistent, Homes
<1>4. \A q : IsDead(n, q) <=> IsDead(m, q)
  BY <1>2 DEF IsDead, SamePanes
<1>5. Clean(n)
  BY <1>2, <1>3, <1>4 DEF Clean, SamePanes
<1> QED BY <1>5 DEF n

(* Taking a pane out of its tab closes the tab if nothing in it lives.     *)
LEMMA PaneTakenFromTab ==
  ASSUME NEW m, Consistent(m), NEW t \in DOMAIN m.tabs, NEW p \in m.tabs[t],
         NEW held, NEW n \in TakeFromTab(m, t, p, held)
  PROVE  /\ Consistent(n) /\ m.removing \subseteq n.removing
         /\ \A u \in DOMAIN n.tabs : p \notin n.tabs[u]
         /\ p \in m.panes => p \in n.panes
         /\ IsDead(n, p) <=> IsDead(m, p)
         /\ held = {} => /\ n.removing # {} \/ (Clean(m) => Clean(n))
                         /\ Told(m) => Told(n)
<1> DEFINE o == TakePane(m, t, p)
           r == RemoveTab(o, t)
           X == Pruned(r, held)
<1>1. /\ Consistent(o) /\ o.windows = m.windows
      /\ DOMAIN o.tabs = DOMAIN m.tabs
      /\ \A u \in DOMAIN m.tabs :
           o.tabs[u] = IF u = t THEN m.tabs[t] \ {p} ELSE m.tabs[u]
      /\ SamePanes(m, o)
  BY PaneTaken
<1>2. p \in Pane
  BY Parts DEF Consistent
<1>3. \/ n \in X
      \/ n = o /\ \E q \in o.tabs[t] : ~ IsDead(o, q)
  BY DEF TakeFromTab
<1> HIDE DEF o
<1>4. \A u \in DOMAIN o.tabs : p \notin o.tabs[u]
  BY <1>1 DEF Consistent, Homes
<1>5. \A q : IsDead(o, q) <=> IsDead(m, q)
  BY <1>1 DEF IsDead, SamePanes
<1>6. /\ Consistent(r) /\ r.removing = o.removing
      /\ DOMAIN r.tabs \subseteq DOMAIN o.tabs
      /\ \A u \in DOMAIN r.tabs : r.tabs[u] = o.tabs[u]
      /\ p \in o.panes => p \in r.panes
      /\ IsDead(r, p) <=> IsDead(o, p)
  <2> DEFINE P == PanesInTabs(o, {t} \cap DOMAIN o.tabs)
  <2>1. p \in Pane \ P
    BY <1>2, <1>4 DEF PanesInTabs
  <2>2. /\ r = RemoveEachTab(o, {t})
        /\ P = PanesInTabs(o, {t} \cap DOMAIN o.tabs)
    BY DEF RemoveTab
  <2> HIDE DEF r, P
  <2>3. /\ Consistent(r) /\ r.removing = o.removing
        /\ DOMAIN r.tabs = DOMAIN o.tabs \ {t}
        /\ \A u \in DOMAIN r.tabs : r.tabs[u] = o.tabs[u]
        /\ r.panes = o.panes \ P
        /\ \A q \in Pane \ P : IsDead(r, q) <=> IsDead(o, q)
    BY <1>1, <2>2, TabsUnregistered
  <2> QED BY <2>1, <2>3
<1> HIDE DEF r
<1>7. p \notin PanesInTabs(r, DOMAIN r.tabs)
  BY <1>4, <1>6 DEF PanesInTabs
<1>8. o.removing = m.removing /\ o.panes = m.panes /\ (Told(o) <=> Told(m))
  BY <1>1 DEF SamePanes, Told
<1>9. CASE n \in X
  <2>1. /\ Consistent(n) /\ Remains(r, n)
        /\ held = {} => (Clean(n) \/ n.removing # {}) /\ Told(n)
    BY <1>6, <1>9, IsPruned
  <2>2. /\ r.removing \subseteq n.removing
        /\ \A u \in DOMAIN n.tabs : u \in DOMAIN r.tabs /\ n.tabs[u] \subseteq r.tabs[u]
        /\ p \in r.panes => p \in n.panes
        /\ IsDead(n, p) <=> IsDead(r, p)
    BY <1>2, <1>7, <2>1 DEF Remains
  <2> QED BY <1>4, <1>5, <1>6, <1>8, <2>1, <2>2
<1>10. CASE n = o /\ \E q \in o.tabs[t] : ~ IsDead(o, q)
  <2>1. PICK q \in o.tabs[t] : ~ IsDead(o, q)
    BY <1>10
  <2>2. ASSUME Clean(m) PROVE Clean(o)
    <3>1. \A w \in DOMAIN m.windows : TabsOf(m.windows[w]) \subseteq DOMAIN m.tabs
      BY DEF Consistent, Homes
    <3> QED BY <1>1, <1>5, <1>8, <2>1, <2>2, <3>1 DEF Clean
  <2> QED BY <1>1, <1>4, <1>5, <1>8, <1>10, <2>2
<1> QED BY <1>3, <1>9, <1>10

-----------------------------------------------------------------------------
(* The actions.                                                            *)

(* What queues or holds a sweep settles the rest later. *)
LEMMA SweepSettles ==
  ASSUME Consistent(mux'), Threads', SweepAhead'
  PROVE  IInv'
BY DEF IInv, Settled

(* A sweep now, or one held back by a spawn. *)
LEMMA PruneSettles ==
  ASSUME Threads', NEW m, Consistent(m), mux' \in Pruned(m, opening')
  PROVE  IInv'
<1>1. /\ Consistent(mux')
      /\ opening' = {} => (Clean(mux)' \/ mux'.removing # {}) /\ Told(mux)'
  <2> DEFINE held == opening'
  <2>1. PICK n : n = mux'
    OBVIOUS
  <2>2. n \in Pruned(m, held)
    BY <2>1
  <2> HIDE DEF held
  <2>3. Consistent(n) /\ (held = {} => (Clean(n) \/ n.removing # {}) /\ Told(n))
    BY <2>2, IsPruned
  <2>4. Consistent(mux')
        /\ (held = {} => (Clean(mux') \/ mux'.removing # {}) /\ Told(mux'))
    BY <2>1, <2>3
  <2>5. (Clean(mux') <=> Clean(mux)') /\ (Told(mux') <=> Told(mux)')
    BY DEF Clean, Told, TabsOf, IsDead
  <2> QED BY <2>4, <2>5 DEF held
<1> QED BY <1>1 DEF IInv, Settled, SweepAhead

LEMMA Ids ==
  ASSUME IInv
  PROVE  /\ Consistent(mux) /\ Threads
         /\ mux.removing \subseteq Pane
         /\ TabsInWindows(mux) \subseteq DOMAIN mux.tabs
         /\ \A t \in DOMAIN mux.tabs : mux.tabs[t] \subseteq Pane
         /\ DOMAIN mux.windows \subseteq Window /\ None \notin opening
         /\ \A p \in Pane : ReadersWith(p) \subseteq Pane \ Remote
         /\ \A p \in FreshPanes :
              p \in Pane /\ \A t \in DOMAIN mux.tabs : p \notin mux.tabs[t]
         /\ FreshTabs \subseteq Tab \ DOMAIN mux.tabs
         /\ FreshWindows \subseteq Window \ DOMAIN mux.windows
<1>1. Consistent(mux) /\ Threads
  BY DEF IInv
<1>2. TabsInWindows(mux) \subseteq DOMAIN mux.tabs
  BY <1>1 DEF Consistent, Homes, TabsInWindows
<1>3. \A p \in FreshPanes :
        p \in Pane /\ \A t \in DOMAIN mux.tabs : p \notin mux.tabs[t]
  BY DEF FreshPanes, PanesInTabs
<1> QED
  BY <1>1, <1>2, <1>3, Parts, PlatformAssumption
  DEF Consistent, Threads, ReadersWith, FreshTabs, FreshWindows

(* An Activity is taken, or one that no split holds is dropped.            *)
LEMMA MoreHeld ==
  ASSUME NEW splits, NEW held, SplitsFit(splits, held), NEW w
  PROVE  SplitsFit(splits, held \cup {w})
BY DEF SplitsFit

LEMMA LessHeld ==
  ASSUME NEW splits, NEW held, SplitsFit(splits, held),
         NEW w \in held \ {s.into : s \in splits}
  PROVE  SplitsFit(splits, held \ {w})
<1>1. \A s \in splits : s.into # w
  OBVIOUS
<1>2. \A s \in splits : s \in [tab : Tab, beside : Pane, into : (held \ {w}) \cup {None}]
  BY <1>1 DEF SplitsFit
<1> QED BY <1>2 DEF SplitsFit

LEMMA BeginWindowKeeps ==
  ASSUME IInv, NEW w \in FreshWindows, BeginWindow(w)
  PROVE  IInv'
<1> DEFINE n == WithWindow(mux, w)
<1>1. Consistent(n)
  BY Ids, WindowAdded
<1>2. n = mux'
  BY DEF BeginWindow
<1> HIDE DEF n
<1>3. Consistent(mux') /\ Threads' /\ SweepAhead'
  BY <1>1, <1>2, Ids, MoreHeld DEF BeginWindow, Threads, SweepAhead
<1> QED BY <1>3, SweepSettles

LEMMA BeginTabKeeps ==
  ASSUME IInv, NEW w \in DOMAIN mux.windows, BeginTab(w)
  PROVE  IInv'
<1>1. Consistent(mux') /\ Threads' /\ SweepAhead'
  BY Ids, MoreHeld DEF BeginTab, Threads, SweepAhead
<1> QED BY <1>1, SweepSettles

LEMMA FailSpawnKeeps ==
  ASSUME IInv, NEW w \in opening \ {s.into : s \in splitting}, FailSpawn(w)
  PROVE  IInv'
<1>1. Consistent(mux') /\ Threads' /\ SweepAhead'
  BY Ids, LessHeld DEF FailSpawn, Threads, SweepAhead
<1> QED BY <1>1, SweepSettles

LEMMA FinishSpawnKeeps ==
  ASSUME IInv, NEW w \in opening \ {s.into : s \in splitting},
         NEW t \in FreshTabs, NEW p \in FreshPanes, FinishSpawn(w, t, p)
  PROVE  IInv'
<1> DEFINE c == WithChild(mux, p)
           n == WithTab(c, t, {p})
           m == AddTabToWindow(n, t, w)
           a == ActivateAt(m, w, PositionIn(m.windows[w].tabs, t))
<1>1. /\ Consistent(mux) /\ p \in Pane /\ t \in Tab \ DOMAIN mux.tabs
      /\ \A u \in DOMAIN mux.tabs : p \notin mux.tabs[u]
      /\ TabsInWindows(mux) \subseteq DOMAIN mux.tabs
  BY Ids
<1>2. Consistent(c) /\ c.windows = mux.windows /\ c.tabs = mux.tabs
  BY <1>1, ChildAdded
<1>3. mux' = IF w \notin DOMAIN mux.windows THEN n ELSE a
  BY DEF FinishSpawn
<1> HIDE DEF c
<1>4. /\ Consistent(n) /\ n.windows = c.windows
      /\ t \in DOMAIN n.tabs
  <2>1. \A u \in DOMAIN c.tabs : c.tabs[u] \cap {p} = {}
    BY <1>1, <1>2
  <2>2. {p} \in SUBSET Pane /\ t \in Tab \ DOMAIN c.tabs
    BY <1>1, <1>2
  <2> QED BY <1>2, <2>1, <2>2, TabAdded
<1> HIDE DEF n
<1>5. ASSUME w \in DOMAIN mux.windows PROVE Consistent(a)
  <2>1. w \in DOMAIN n.windows /\ t \notin TabsInWindows(n)
    BY <1>1, <1>2, <1>4, <1>5 DEF TabsInWindows
  <2>2. /\ Consistent(m) /\ DOMAIN m.windows = DOMAIN n.windows
        /\ t \in TabsOf(m.windows[w])
    BY <1>4, <2>1, TabJoins
  <2> HIDE DEF m
  <2>3. m.windows[w].tabs \in Seq(Tab)
    BY <2>1, <2>2, Parts DEF Consistent, Windows
  <2>4. PositionIn(m.windows[w].tabs, t) \in 0 .. Len(m.windows[w].tabs) - 1
    BY <2>2, <2>3, Found DEF TabsOf
  <2> QED BY <2>1, <2>2, <2>4, TabOfWindowActivated
<1> HIDE DEF a
<1>6. Consistent(mux')
  BY <1>3, <1>4, <1>5
<1>7. Threads' /\ SweepAhead'
  BY <1>1, Ids, LessHeld DEF FinishSpawn, Threads, SweepAhead
<1> QED BY <1>6, <1>7, SweepSettles

LEMMA BeginSplitKeeps ==
  ASSUME IInv, NEW w \in DOMAIN mux.windows, NEW t \in TabsOf(mux.windows[w]),
         NEW q \in mux.tabs[t], BeginSplit(w, t, q)
  PROVE  IInv'
<1>1. PICK into \in {None} \cup ({w} \ opening) :
        /\ splitting' = splitting \cup {[tab |-> t, beside |-> q, into |-> into]}
        /\ opening' = opening \cup ({into} \ {None})
  BY DEF BeginSplit
<1>2. mux' = mux /\ reading' = reading /\ pruning' = pruning
  BY DEF BeginSplit
<1>3. Consistent(mux) /\ Threads /\ w \in Window /\ t \in Tab /\ q \in Pane
  <2>1. t \in DOMAIN mux.tabs
    BY Ids DEF TabsInWindows
  <2>2. Consistent(mux) /\ DOMAIN mux.tabs \subseteq Tab
    BY Ids, Parts DEF Consistent
  <2> QED BY Ids, <2>1, <2>2
<1>4. SplitsFit(splitting', opening')
  <2>1. \A s \in splitting : s.into \in opening \cup {None}
    BY <1>3 DEF Threads, SplitsFit
  <2>2. splitting' \subseteq [tab : Tab, beside : Pane, into : opening' \cup {None}]
    BY <1>1, <1>3 DEF Threads, SplitsFit
  <2>3. into = None \/ into \notin opening \cup {None}
    BY <1>1
  <2>4. \A s \in splitting : s.into # into \/ into = None
    BY <2>1, <2>3
  <2>5. \A r, s \in splitting : r = s \/ r.into # s.into \/ r.into = None
    BY <1>3 DEF Threads, SplitsFit
  <2>6. \A r, s \in splitting' : r = s \/ r.into # s.into \/ r.into = None
    BY <1>1, <2>4, <2>5
  <2> QED BY <2>2, <2>6 DEF SplitsFit
<1>5. Threads'
  BY <1>1, <1>2, <1>3, <1>4 DEF Threads
<1>6. SweepAhead => SweepAhead'
  BY <1>1, <1>2 DEF SweepAhead
<1>7. Consistent(mux') /\ (Clean(mux) => Clean(mux)') /\ (Told(mux) => Told(mux)')
  BY <1>2, <1>3 DEF Clean, Told, TabsOf, IsDead
<1> QED BY <1>5, <1>6, <1>7 DEF IInv, Settled

(* The end of a split drops its Activity, if it has one, for a prune.      *)
LEMMA SplitEnds ==
  ASSUME IInv, NEW s \in splitting, EndSplit(s)
  PROVE  /\ pruning' \in BOOLEAN /\ opening' \subseteq Window
         /\ SplitsFit(splitting', opening')
         /\ \/ pruning' = TRUE
            \/ pruning' = pruning /\ opening' = opening
<1>1. Threads /\ None \notin opening
  BY Ids
<1>2. /\ splitting' = splitting \ {s} /\ opening' = opening \ {s.into}
      /\ pruning' = (pruning \/ s.into # None)
  BY DEF EndSplit
<1>3. \A r \in splitting \ {s} : r.into = None \/ r.into # s.into
  BY <1>1 DEF Threads, SplitsFit
<1>4. \A r \in splitting \ {s} :
        r \in [tab : Tab, beside : Pane, into : (opening \ {s.into}) \cup {None}]
  BY <1>1, <1>3 DEF Threads, SplitsFit
<1>5. SplitsFit(splitting', opening')
  BY <1>1, <1>2, <1>4 DEF Threads, SplitsFit
<1>6. pruning' \in BOOLEAN /\ opening' \subseteq Window
  BY <1>1, <1>2 DEF Threads
<1>7. s.into = None => opening' = opening
  BY <1>1, <1>2
<1>8. CASE s.into = None
  <2>1. pruning' = pruning
    BY <1>1, <1>2, <1>8 DEF Threads
  <2> QED BY <1>5, <1>6, <1>7, <1>8, <2>1
<1>9. CASE s.into # None
  <2>1. pruning' = TRUE
    BY <1>2, <1>9
  <2> QED BY <1>5, <1>6, <2>1
<1> QED BY <1>8, <1>9

LEMMA FailSplitKeeps ==
  ASSUME IInv, NEW s \in splitting, FailSplit(s)
  PROVE  IInv'
<1>1. EndSplit(s) /\ mux' = mux /\ reading' = reading
  BY DEF FailSplit
<1>2. /\ pruning' \in BOOLEAN /\ opening' \subseteq Window
      /\ SplitsFit(splitting', opening')
      /\ \/ pruning' = TRUE
         \/ pruning' = pruning /\ opening' = opening
  BY <1>1, SplitEnds
<1>3. Threads' /\ Consistent(mux')
  BY <1>1, <1>2, Ids DEF Threads
<1>4. SweepAhead => SweepAhead'
  BY <1>1, <1>2 DEF SweepAhead
<1>5. (Clean(mux) => Clean(mux)') /\ (Told(mux) => Told(mux)')
  BY <1>1 DEF Clean, Told, TabsOf, IsDead
<1> QED BY <1>3, <1>4, <1>5 DEF IInv, Settled

LEMMA FinishSplitKeeps ==
  ASSUME IInv, NEW s \in splitting, NEW p \in FreshPanes, FinishSplit(s, p)
  PROVE  IInv'
<1>1. PICK t : t = s.tab
  OBVIOUS
<1> DEFINE c == WithChild(mux, p)
           n == PutPane(c, t, p)
<1>2. /\ Consistent(mux) /\ p \in Pane
      /\ \A u \in DOMAIN mux.tabs : p \notin mux.tabs[u]
      /\ \A u \in DOMAIN mux.tabs : mux.tabs[u] \subseteq Pane
      /\ \A w \in DOMAIN mux.windows : TabsOf(mux.windows[w]) \subseteq DOMAIN mux.tabs
  BY Ids DEF TabsInWindows
<1>3. /\ Consistent(c) /\ c.windows = mux.windows /\ c.tabs = mux.tabs
      /\ c.panes = mux.panes \cup {p} /\ c.removing = mux.removing
      /\ \A q \in Pane : IsDead(c, q) <=> q # p /\ IsDead(mux, q)
  BY <1>2, ChildAdded
<1>4. /\ mux' = c \/ (t \in DOMAIN mux.tabs /\ mux' = n)
      /\ reading' = ReadersWith(p) /\ EndSplit(s)
  BY <1>1 DEF FinishSplit
<1> HIDE DEF c
<1>5. ASSUME Clean(mux) PROVE Clean(c)
  <2>1. \A u \in DOMAIN mux.tabs : \A q \in mux.tabs[u] : q \in Pane
    BY <1>2
  <2> QED BY <1>2, <1>3, <1>5, <2>1 DEF Clean
<1>6. ASSUME t \in DOMAIN mux.tabs PROVE Consistent(n) /\ SamePanes(c, n)
  BY <1>2, <1>3, <1>6, PanePut
<1>7. ASSUME t \in DOMAIN mux.tabs, Clean(mux) PROVE Clean(n)
  <2>1. /\ t \in DOMAIN c.tabs /\ p \in c.panes /\ ~ IsDead(c, p)
        /\ \A u \in DOMAIN c.tabs : p \notin c.tabs[u]
    BY <1>2, <1>3, <1>7
  <2>2. Clean(c)
    BY <1>5, <1>7
  <2> QED BY <1>3, <2>1, <2>2, PanePutClean
<1> HIDE DEF n
<1>8. /\ Consistent(mux') /\ mux'.removing = mux.removing
      /\ mux'.panes # {}
      /\ Clean(mux) => Clean(mux')
  BY <1>3, <1>4, <1>5, <1>6, <1>7 DEF SamePanes
<1>9. /\ pruning' \in BOOLEAN /\ opening' \subseteq Window
      /\ SplitsFit(splitting', opening')
      /\ \/ pruning' = TRUE
         \/ pruning' = pruning /\ opening' = opening
  BY <1>4, SplitEnds
<1>10. Threads'
  BY <1>2, <1>4, <1>9, Ids DEF Threads
<1>11. Clean(mux') => Clean(mux)'
  BY DEF Clean, TabsOf, IsDead
<1>12. SweepAhead => SweepAhead'
  BY <1>8, <1>9 DEF SweepAhead
<1>13. Told(mux)'
  BY <1>8 DEF Told
<1> QED BY <1>8, <1>10, <1>11, <1>12, <1>13 DEF IInv, Settled

LEMMA MovePaneKeeps ==
  ASSUME IInv, NEW t \in TabsInWindows(mux), NEW p \in mux.tabs[t],
         NEW u, NEW q, MovePane(t, p, u, q)
  PROVE  IInv'
<1>1. /\ Consistent(mux) /\ p \in Pane /\ t \in DOMAIN mux.tabs
  BY Ids
<1>2. PICK n \in TakeFromTab(mux, t, p, opening) :
        mux' = n \/ (u \in DOMAIN n.tabs /\ mux' = PutPane(n, u, p))
  BY DEF MovePane
<1>3. /\ Consistent(n) /\ mux.removing \subseteq n.removing
      /\ \A x \in DOMAIN n.tabs : p \notin n.tabs[x]
      /\ p \in mux.panes => p \in n.panes
      /\ IsDead(n, p) <=> IsDead(mux, p)
      /\ opening = {} => /\ n.removing # {} \/ (Clean(mux) => Clean(n))
                         /\ Told(mux) => Told(n)
  BY <1>1, PaneTakenFromTab
<1> DEFINE i == PutPane(n, u, p)
<1>4. /\ mux' = n \/ (u \in DOMAIN n.tabs /\ mux' = i)
      /\ reading' = reading /\ pruning' = pruning /\ opening' = opening
      /\ splitting' = splitting
  BY <1>2 DEF MovePane
<1>5. Threads'
  BY <1>4, Ids DEF Threads
<1>6. ASSUME u \in DOMAIN n.tabs
      PROVE  /\ Consistent(i) /\ SamePanes(n, i)
             /\ Clean(mux) /\ Clean(n) => Clean(i)
  <2>1. Consistent(i) /\ SamePanes(n, i)
    BY <1>1, <1>3, <1>6, PanePut
  <2>2. ASSUME Clean(mux), Clean(n) PROVE Clean(i)
    <3>1. p \in mux.panes /\ ~ IsDead(mux, p)
      BY <2>2 DEF Clean, TabsInWindows
    <3> QED BY <1>3, <1>6, <2>2, <3>1, PanePutClean
  <2> QED BY <2>1, <2>2
<1> HIDE DEF i
<1>7. /\ Consistent(mux') /\ mux.removing \subseteq mux'.removing
      /\ opening = {} => /\ mux'.removing # {} \/ (Clean(mux) => Clean(mux'))
                         /\ Told(mux) => Told(mux')
  BY <1>3, <1>4, <1>6 DEF SamePanes, Told
<1>8. (Clean(mux') => Clean(mux)') /\ (Told(mux') => Told(mux)')
  BY DEF Clean, Told, TabsOf, IsDead
<1> QED BY <1>4, <1>5, <1>7, <1>8 DEF IInv, Settled, SweepAhead

(* The pane is registered, taken out of its tab, and put into a new one in *)
(* window w of o.                                                          *)
LEMMA PaneMovedOut ==
  ASSUME NEW o, Consistent(o), NEW t \in DOMAIN o.tabs, NEW p \in o.tabs[t],
         NEW w \in DOMAIN o.windows, NEW new \in Tab \ DOMAIN o.tabs
  PROVE  LET m == AddTabToWindow(WithTab(TakePane(o, t, p), new, {p}), new, w)
         IN  /\ Consistent(m) /\ SamePanes(o, m)
             /\ p \in o.panes /\ Clean(o) /\ (\E q \in m.tabs[t] : ~ IsDead(m, q))
                  /\ ~ IsDead(o, p)
                => Clean(m)
<1> DEFINE x == TakePane(o, t, p)
           n == WithTab(x, new, {p})
           m == AddTabToWindow(n, new, w)
<1>1. /\ p \in Pane
      /\ \A v \in DOMAIN o.windows : TabsOf(o.windows[v]) \subseteq DOMAIN o.tabs
  BY Parts DEF Consistent, Homes
<1>2. /\ Consistent(x) /\ x.windows = o.windows
      /\ DOMAIN x.tabs = DOMAIN o.tabs
      /\ \A u \in DOMAIN o.tabs :
           x.tabs[u] = IF u = t THEN o.tabs[t] \ {p} ELSE o.tabs[u]
      /\ SamePanes(o, x)
  BY PaneTaken
<1> HIDE DEF x
<1>3. \A u \in DOMAIN x.tabs : x.tabs[u] \cap {p} = {}
  BY <1>2 DEF Consistent, Homes
<1>4. /\ Consistent(n) /\ n.windows = x.windows
      /\ DOMAIN n.tabs = DOMAIN x.tabs \cup {new}
      /\ n.tabs[new] = {p}
      /\ \A u \in DOMAIN x.tabs : n.tabs[u] = x.tabs[u]
      /\ SamePanes(x, n)
  <2>1. {p} \in SUBSET Pane /\ new \in Tab \ DOMAIN x.tabs
    BY <1>1, <1>2
  <2> QED BY <1>2, <1>3, <2>1, TabAdded
<1> HIDE DEF n
<1>5. /\ w \in DOMAIN n.windows /\ new \in DOMAIN n.tabs
      /\ new \notin TabsInWindows(n)
  BY <1>1, <1>2, <1>4 DEF TabsInWindows
<1>6. /\ Consistent(m) /\ DOMAIN m.windows = DOMAIN n.windows
      /\ m.windows[w].tabs # <<>>
      /\ \A v \in DOMAIN n.windows :
           /\ TabsOf(m.windows[v]) \subseteq TabsOf(n.windows[v]) \cup {new}
           /\ v # w => m.windows[v] = n.windows[v]
      /\ m.tabs = n.tabs /\ SamePanes(n, m)
  BY <1>4, <1>5, TabJoins, ZenonT(30)
<1> HIDE DEF m
<1>7. SamePanes(o, m)
  BY <1>2, <1>4, <1>6 DEF SamePanes
<1>8. ASSUME p \in o.panes, Clean(o), \E q \in m.tabs[t] : ~ IsDead(m, q),
             ~ IsDead(o, p)
      PROVE  Clean(m)
  <2>1. \A q : IsDead(m, q) <=> IsDead(o, q)
    BY <1>7 DEF SamePanes, IsDead
  <2>2. /\ m.tabs[new] = {p} /\ m.tabs[t] # {}
        /\ \A u \in DOMAIN o.tabs :
             /\ m.tabs[u] \subseteq o.tabs[u]
             /\ u # t => m.tabs[u] = o.tabs[u]
    BY <1>2, <1>4, <1>6, <1>8
  <2>3. m.panes = o.panes
    BY <1>7 DEF SamePanes
  <2>4. \A v \in DOMAIN m.windows :
          /\ v \in DOMAIN o.windows
          /\ TabsOf(m.windows[v]) \subseteq TabsOf(o.windows[v]) \cup {new}
          /\ m.windows[v].tabs # <<>>
    BY <1>2, <1>4, <1>6, <1>8 DEF Clean
  <2>5. ASSUME NEW v \in DOMAIN o.windows, NEW u \in TabsOf(o.windows[v]) \cup {new}
        PROVE  /\ m.tabs[u] # {} /\ m.tabs[u] \subseteq m.panes
               /\ \A q \in m.tabs[u] : ~ IsDead(m, q)
    <3>1. CASE u = new
      BY <1>8, <2>1, <2>2, <2>3, <3>1
    <3>2. CASE u \in TabsOf(o.windows[v])
      <4>1. /\ u \in DOMAIN o.tabs
            /\ o.tabs[u] # {} /\ o.tabs[u] \subseteq o.panes
            /\ \A q \in o.tabs[u] : ~ IsDead(o, q)
        BY <1>1, <1>8, <3>2 DEF Clean
      <4> QED BY <2>1, <2>2, <2>3, <4>1
    <3> QED BY <3>1, <3>2
  <2> QED BY <2>4, <2>5 DEF Clean
<1> QED BY <1>6, <1>7, <1>8 DEF m, n, x

LEMMA MoveToNewTabKeeps ==
  ASSUME IInv, NEW t \in TabsInWindows(mux), NEW p \in mux.tabs[t],
         NEW w \in DOMAIN mux.windows, NEW new \in FreshTabs,
         MoveToNewTab(t, p, w, new)
  PROVE  IInv'
<1> DEFINE o == WithPane(mux, p)
           m == AddTabToWindow(WithTab(TakePane(o, t, p), new, {p}), new, w)
           r == RemoveTab(m, t)
           lost == TakePane(mux, t, p)
<1>1. /\ Consistent(mux) /\ p \in Pane /\ t \in DOMAIN mux.tabs
      /\ new \in Tab \ DOMAIN mux.tabs
  BY Ids
<1>2. /\ Consistent(o) /\ o.windows = mux.windows /\ o.tabs = mux.tabs
      /\ o.panes = mux.panes \cup {p} /\ o.process = mux.process
      /\ o.removing = mux.removing
  BY <1>1, PaneAdded
<1>3. /\ \/ mux' \in Pruned(r, opening)
         \/ mux' = m /\ \E q \in m.tabs[t] : ~ IsDead(m, q)
         \/ ResizeFails /\ mux' = lost
      /\ reading' \in {ReadersWith(p), reading}
      /\ pruning' = pruning /\ opening' = opening /\ splitting' = splitting
  BY PlatformAssumption DEF MoveToNewTab, Resizes
<1>4. Threads'
  BY <1>1, <1>3, Ids DEF Threads
<1> HIDE DEF o
<1>5. /\ Consistent(m) /\ SamePanes(o, m)
      /\ p \in o.panes /\ Clean(o) /\ (\E q \in m.tabs[t] : ~ IsDead(m, q))
           /\ ~ IsDead(o, p)
         => Clean(m)
  BY <1>1, <1>2, PaneMovedOut
<1> HIDE DEF m
<1>6. Consistent(r)
  <2>1. r = RemoveEachTab(m, {t})
    BY DEF RemoveTab
  <2> HIDE DEF r
  <2> QED BY <1>5, <2>1, TabsUnregistered
<1> HIDE DEF r
<1>7. CASE mux' \in Pruned(r, opening)
  BY <1>3, <1>4, <1>6, <1>7, PruneSettles
<1>9. CASE ResizeFails /\ mux' = lost
  <2>1. Consistent(lost) /\ SamePanes(mux, lost)
    BY <1>1, PaneTaken
  <2> HIDE DEF lost
  <2>2. Consistent(mux') /\ mux'.removing = mux.removing /\ (Told(mux) => Told(mux)')
    BY <1>9, <2>1 DEF SamePanes, Told
  <2> QED BY <1>3, <1>4, <1>9, <2>2 DEF IInv, Settled, SweepAhead
<1>8. CASE mux' = m /\ \E q \in m.tabs[t] : ~ IsDead(m, q)
  <2>1. /\ Consistent(mux') /\ mux'.removing = mux.removing
        /\ mux'.panes # {}
    BY <1>2, <1>5, <1>8 DEF SamePanes
  <2>2. ASSUME Clean(mux) PROVE Clean(mux')
    <3>1. p \in mux.panes /\ ~ IsDead(mux, p)
      BY <2>2 DEF Clean, TabsInWindows
    <3>2. \A q : IsDead(o, q) <=> IsDead(mux, q)
      BY <1>2 DEF IsDead
    <3>3. Clean(o)
      BY <1>2, <2>2, <3>2 DEF Clean
    <3> QED BY <1>2, <1>5, <1>8, <3>1, <3>2, <3>3
  <2>3. Clean(mux') => Clean(mux)'
    BY DEF Clean, TabsOf, IsDead
  <2> QED BY <1>3, <1>4, <2>1, <2>2, <2>3 DEF IInv, Settled, SweepAhead, Told
<1> QED BY <1>3, <1>7, <1>8, <1>9

LEMMA MoveToNewWindowKeeps ==
  ASSUME IInv, NEW t \in TabsInWindows(mux), NEW p \in mux.tabs[t],
         NEW w \in FreshWindows, NEW new \in FreshTabs,
         MoveToNewWindow(t, p, w, new)
  PROVE  IInv'
<1> DEFINE a == WithPane(mux, p)
           o == WithWindow(a, w)
           m == AddTabToWindow(WithTab(TakePane(o, t, p), new, {p}), new, w)
           r == RemoveTab(m, t)
           e == WithWindow(mux, w)
           lost == TakePane(e, t, p)
<1>1. /\ Consistent(mux) /\ p \in Pane /\ t \in DOMAIN mux.tabs
      /\ new \in Tab \ DOMAIN mux.tabs
      /\ w \in Window \ DOMAIN mux.windows
  BY Ids
<1>2. /\ Consistent(a) /\ a.windows = mux.windows /\ a.tabs = mux.tabs
  BY <1>1, PaneAdded
<1>3. /\ mux' = r \/ mux' = m \/ mux' = lost
      /\ reading' \in {ReadersWith(p), reading}
      /\ pruning' = TRUE /\ opening' = opening /\ splitting' = splitting
  BY DEF MoveToNewWindow
<1>8. Consistent(e) /\ t \in DOMAIN e.tabs
  BY <1>1, WindowAdded
<1> HIDE DEF e
<1>9. Consistent(lost)
  BY <1>8, PaneTaken
<1> HIDE DEF lost
<1> HIDE DEF a
<1>4. /\ Consistent(o) /\ w \in DOMAIN o.windows /\ o.tabs = a.tabs
  BY <1>1, <1>2, WindowAdded
<1> HIDE DEF o
<1>5. Consistent(m)
  BY <1>1, <1>2, <1>4, PaneMovedOut
<1> HIDE DEF m
<1>6. Consistent(r)
  <2>1. r = RemoveEachTab(m, {t})
    BY DEF RemoveTab
  <2> HIDE DEF r
  <2> QED BY <1>5, <2>1, TabsUnregistered
<1> HIDE DEF r
<1>7. Consistent(mux') /\ Threads' /\ SweepAhead'
  BY <1>1, <1>3, <1>5, <1>6, <1>9, Ids DEF Threads, SweepAhead
<1> QED BY <1>7, SweepSettles

LEMMA ClosePaneKeeps ==
  ASSUME IInv, NEW p, ClosePane(p)
  PROVE  IInv'
<1> DEFINE n == RemovePanes(mux, {p})
<1>1. Consistent(n)
  BY Ids, PanesRemoved
<1>2. mux' \in Pruned(n, opening') /\ Threads'
  BY Ids DEF ClosePane, Threads
<1> HIDE DEF n
<1> QED BY <1>1, <1>2, PruneSettles

LEMMA KillFromTabKeeps ==
  ASSUME IInv, NEW t \in TabsInWindows(mux), NEW p \in mux.tabs[t],
         KillFromTab(t, p)
  PROVE  IInv'
<1> DEFINE o == TakePane(mux, t, p)
           n == [o EXCEPT !.removing = o.removing \cup {p}]
<1>1. /\ Consistent(mux) /\ p \in Pane /\ t \in DOMAIN mux.tabs
  BY Ids
<1>2. Consistent(o)
  BY <1>1, PaneTaken
<1>3. mux' = n
  BY DEF KillFromTab
<1> HIDE DEF o
<1>4. Consistent(n) /\ p \in n.removing
  BY <1>1, <1>2, RemovalQueued
<1> HIDE DEF n
<1>5. Consistent(mux') /\ Threads' /\ SweepAhead'
  BY <1>3, <1>4, Ids DEF KillFromTab, Threads, SweepAhead
<1> QED BY <1>5, SweepSettles

LEMMA CloseTabKeeps ==
  ASSUME IInv, NEW t, CloseTab(t)
  PROVE  IInv'
<1> DEFINE n == RemoveTab(mux, t)
<1>1. Consistent(n)
  <2>1. n = RemoveEachTab(mux, {t})
    BY DEF RemoveTab
  <2> HIDE DEF n
  <2> QED BY <2>1, Ids, TabsUnregistered
<1>2. mux' \in Pruned(n, opening') /\ Threads'
  BY Ids DEF CloseTab, Threads
<1> HIDE DEF n
<1> QED BY <1>1, <1>2, PruneSettles

LEMMA CloseWindowKeeps ==
  ASSUME IInv, NEW w \in DOMAIN mux.windows, CloseWindow(w)
  PROVE  IInv'
<1>1. PICK n \in RemoveWindow(mux, w, opening) : mux' \in Pruned(n, opening)
  BY DEF CloseWindow
<1>2. Consistent(n)
  BY Ids, WindowRemoved
<1>3. mux' \in Pruned(n, opening') /\ Threads'
  BY <1>1, Ids DEF CloseWindow, Threads
<1> QED BY <1>2, <1>3, PruneSettles

LEMMA LoseDomainKeeps ==
  ASSUME IInv, LoseDomain
  PROVE  IInv'
<1>1. PICK o \in TakeOut(mux, Remote) :
        mux' \in Pruned(RemovePanes(o, mux.panes \cap Remote), opening)
  BY DEF LoseDomain, Detached
<1> DEFINE n == RemovePanes(o, mux.panes \cap Remote)
<1>2. Consistent(o)
  BY Ids, SomeTakenOut
<1>3. Consistent(n)
  BY <1>2, PanesRemoved
<1>4. mux' \in Pruned(n, opening') /\ Threads'
  BY <1>1, Ids DEF LoseDomain, Threads
<1> HIDE DEF n
<1> QED BY <1>3, <1>4, PruneSettles

(* A window shows the same tabs in another order, or another one of them. *)
LEMMA OrderKeeps ==
  ASSUME IInv, Consistent(mux'), mux'.removing = mux.removing,
         Clean(mux) => Clean(mux'), Told(mux) => Told(mux'),
         UNCHANGED <<reading, pruning, opening, splitting>>
  PROVE  IInv'
<1>1. (Clean(mux') => Clean(mux)') /\ (Told(mux') => Told(mux)')
  BY DEF Clean, Told, TabsOf, IsDead
<1>2. Threads'
  BY DEF IInv, Threads
<1> QED BY <1>1, <1>2 DEF IInv, Settled, SweepAhead

LEMMA ActivateKeeps ==
  ASSUME IInv, NEW w \in DOMAIN mux.windows,
         NEW i \in 0 .. Len(mux.windows[w].tabs) - 1, Activate(w, i)
  PROVE  IInv'
<1> DEFINE n == ActivateAt(mux, w, i)
<1>1. /\ Consistent(n) /\ n.removing = mux.removing
      /\ Clean(mux) => Clean(n)
      /\ Told(mux) => Told(n)
  BY Ids, TabOfWindowActivated
<1>2. mux' = n /\ UNCHANGED <<reading, pruning, opening, splitting>>
  BY DEF Activate
<1> HIDE DEF n
<1> QED BY <1>1, <1>2, OrderKeeps

LEMMA MoveTabKeeps ==
  ASSUME IInv, NEW w \in DOMAIN mux.windows,
         NEW i \in 0 .. Len(mux.windows[w].tabs) - 1, MoveTab(w, i)
  PROVE  IInv'
<1> DEFINE n == MoveTabTo(mux, w, i)
<1>1. /\ Consistent(n) /\ n.removing = mux.removing
      /\ Clean(mux) => Clean(n)
      /\ Told(mux) => Told(n)
  BY Ids, TabOfWindowMoved
<1>2. mux' = n /\ UNCHANGED <<reading, pruning, opening, splitting>>
  BY DEF MoveTab
<1> HIDE DEF n
<1> QED BY <1>1, <1>2, OrderKeeps

LEMMA ExitKeeps ==
  ASSUME IInv, NEW p \in Pane, Exit(p)
  PROVE  IInv'
<1>1. PICK how \in {"held", "dead"} : mux' = [mux EXCEPT !.process[p] = how]
  BY DEF Exit
<1>2. Consistent(mux')
  BY <1>1, Ids, ChildExited
<1>3. Threads' /\ SweepAhead'
  BY Ids DEF Exit, Threads, SweepAhead
<1> QED BY <1>2, <1>3, SweepSettles

LEMMA EofKeeps ==
  ASSUME IInv, NEW p \in reading, Eof(p)
  PROVE  IInv'
<1>1. p \in Pane /\ Consistent(mux)
  BY Ids DEF Threads
<1>2. CASE pruning' = TRUE /\ mux' = mux
  BY <1>1, <1>2, Ids, SweepSettles DEF Eof, Threads, SweepAhead
<1>3. CASE pruning' = pruning /\ mux' = [mux EXCEPT !.removing = @ \cup {p}]
  <2> DEFINE n == [mux EXCEPT !.removing = mux.removing \cup {p}]
  <2>1. Consistent(n) /\ p \in n.removing
    BY <1>1, RemovalQueued
  <2>2. mux' = n
    BY <1>3
  <2> HIDE DEF n
  <2>3. Consistent(mux') /\ Threads' /\ SweepAhead'
    BY <1>3, <2>1, <2>2, Ids DEF Eof, Threads, SweepAhead
  <2> QED BY <2>3, SweepSettles
<1> QED BY <1>2, <1>3 DEF Eof

LEMMA RunRemoveKeeps ==
  ASSUME IInv, NEW p \in mux.removing, RunRemove(p)
  PROVE  IInv'
<1> DEFINE o == [mux EXCEPT !.removing = mux.removing \ {p}]
           n == RemovePanes(o, {p})
<1>1. Consistent(o)
  BY Ids, RemovalTaken
<1>2. mux' \in Pruned(n, opening') /\ Threads'
  BY Ids DEF RunRemove, Threads
<1> HIDE DEF o
<1>3. Consistent(n)
  BY <1>1, PanesRemoved
<1> HIDE DEF n
<1> QED BY <1>2, <1>3, PruneSettles

LEMMA RunPruneKeeps ==
  ASSUME IInv, RunPrune
  PROVE  IInv'
<1>1. Consistent(mux) /\ mux' \in Pruned(mux, opening') /\ Threads'
  BY Ids DEF RunPrune, Threads
<1> QED BY <1>1, PruneSettles

-----------------------------------------------------------------------------
(* The invariant.                                                          *)

LEMMA Starts == Init => IInv
<1> SUFFICES ASSUME Init PROVE IInv
  OBVIOUS
<1>1. PICK w \in Window :
        /\ mux = [windows |-> [x \in {w} |-> EmptyWindow],
                  tabs |-> [t \in {} |-> {}], panes |-> {},
                  process |-> [p \in Pane |-> "dead"], removing |-> {},
                  told |-> FALSE]
        /\ reading = {} /\ pruning = FALSE /\ opening = {w} /\ splitting = {}
  BY DEF Init
<1> DEFINE windows == [x \in {w} |-> EmptyWindow]
           tabs == [t \in {} |-> {}]
<1>2. EmptyWindow \in Windows(Tab) /\ Sound(EmptyWindow) /\ TabsOf(EmptyWindow) = {}
  <2>1. <<>> \in Seq(Tab) /\ IsInjective(<<>>)
    BY EmptySeq DEF IsInjective
  <2>2. ToSet(<<>>) = {}
    BY <2>1, SetOfSeq
  <2> QED BY <2>1, <2>2 DEF EmptyWindow, Windows, Sound, TabsOf
<1> HIDE DEF EmptyWindow
<1>3. DOMAIN windows = {w} /\ windows[w] = EmptyWindow /\ DOMAIN tabs = {}
  OBVIOUS
<1>4. windows \in Partial(Window, Windows(Tab))
  <2>1. windows = [x \in DOMAIN windows |-> windows[x]]
    OBVIOUS
  <2>2. windows \in [DOMAIN windows -> Windows(Tab)]
    BY <1>2
  <2> HIDE DEF windows
  <2> QED BY <1>3, <2>2, PartialFunctions
<1>5. tabs \in Partial(Tab, SUBSET Pane)
  BY ZenonT(30) DEF Partial
<1>6. /\ mux.windows = windows /\ mux.tabs = tabs
      /\ mux = [windows |-> windows, tabs |-> tabs, panes |-> {},
                process |-> [p \in Pane |-> "dead"], removing |-> {},
                told |-> FALSE]
  BY <1>1
<1> HIDE DEF windows, tabs
<1>7. mux \in MuxStates
  BY <1>4, <1>5, <1>6 DEF MuxStates
<1>8. Homes(mux)
  BY <1>2, <1>3, <1>6 DEF Homes
<1> QED BY <1>1, <1>7, <1>8 DEF IInv, Consistent, Threads, SplitsFit, Settled, SweepAhead

LEMMA Preserved == IInv /\ [Next]_vars => IInv'
<1> SUFFICES ASSUME IInv, [Next]_vars PROVE IInv'
  OBVIOUS
<1>1. ASSUME NEW w \in FreshWindows, BeginWindow(w) PROVE IInv'
  BY <1>1, BeginWindowKeeps
<1>2. ASSUME NEW w \in DOMAIN mux.windows, BeginTab(w) \/ CloseWindow(w) PROVE IInv'
  BY <1>2, BeginTabKeeps, CloseWindowKeeps
<1>3. ASSUME NEW w \in opening \ {s.into : s \in splitting}, FailSpawn(w) PROVE IInv'
  BY <1>3, FailSpawnKeeps
<1>4. ASSUME NEW w \in opening \ {s.into : s \in splitting},
             NEW t \in FreshTabs, NEW p \in FreshPanes, FinishSpawn(w, t, p)
      PROVE  IInv'
  BY <1>4, FinishSpawnKeeps
<1>5. ASSUME NEW t \in TabsInWindows(mux), CloseTab(t) PROVE IInv'
  BY <1>5, CloseTabKeeps
<1>6. ASSUME NEW w \in DOMAIN mux.windows, NEW t \in TabsOf(mux.windows[w]),
             NEW q \in mux.tabs[t], BeginSplit(w, t, q)
      PROVE  IInv'
  BY <1>6, BeginSplitKeeps
<1>19. ASSUME NEW s \in splitting, FailSplit(s) PROVE IInv'
  BY <1>19, FailSplitKeeps
<1>20. ASSUME NEW s \in splitting, NEW p \in FreshPanes, FinishSplit(s, p) PROVE IInv'
  BY <1>20, FinishSplitKeeps
<1>7. ASSUME NEW t \in TabsInWindows(mux), NEW p \in mux.tabs[t], KillFromTab(t, p)
      PROVE  IInv'
  BY <1>7, KillFromTabKeeps
<1>8. ASSUME NEW t \in TabsInWindows(mux), NEW p \in mux.tabs[t],
             NEW u \in TabsInWindows(mux), NEW q \in mux.tabs[u], MovePane(t, p, u, q)
      PROVE  IInv'
  BY <1>8, MovePaneKeeps
<1>9. ASSUME NEW t \in TabsInWindows(mux), NEW p \in mux.tabs[t],
             NEW new \in FreshTabs, NEW w \in DOMAIN mux.windows,
             MoveToNewTab(t, p, w, new)
      PROVE  IInv'
  BY <1>9, MoveToNewTabKeeps
<1>10. ASSUME NEW t \in TabsInWindows(mux), NEW p \in mux.tabs[t],
              NEW new \in FreshTabs, NEW w \in FreshWindows,
              MoveToNewWindow(t, p, w, new)
       PROVE  IInv'
  BY <1>10, MoveToNewWindowKeeps
<1>11. ASSUME NEW w \in DOMAIN mux.windows,
              NEW i \in 0 .. Len(mux.windows[w].tabs) - 1,
              Activate(w, i) \/ MoveTab(w, i)
       PROVE  IInv'
  BY <1>11, ActivateKeeps, MoveTabKeeps
<1>12. ASSUME NEW p \in mux.panes, ClosePane(p) PROVE IInv'
  BY <1>12, ClosePaneKeeps
<1>13. CASE LoseDomain
  BY <1>13, LoseDomainKeeps
<1>14. ASSUME NEW p \in Pane, Exit(p) PROVE IInv'
  BY <1>14, ExitKeeps
<1>15. ASSUME NEW p \in reading, Eof(p) PROVE IInv'
  BY <1>15, EofKeeps
<1>16. ASSUME NEW p \in mux.removing, RunRemove(p) PROVE IInv'
  BY <1>16, RunRemoveKeeps
<1>17. CASE RunPrune
  BY <1>17, RunPruneKeeps
<1>18. CASE UNCHANGED vars
  <2>1. /\ mux' = mux /\ reading' = reading /\ pruning' = pruning /\ opening' = opening
        /\ splitting' = splitting
    BY <1>18 DEF vars
  <2>2. IInv' = IInv
    BY <2>1 DEF IInv, Threads, SplitsFit, Settled, SweepAhead, Consistent, Homes, MuxStates,
                Clean, Told, TabsOf, Sound, IsDead
  <2> QED BY <2>2
<1> QED
  BY <1>1, <1>2, <1>3, <1>4, <1>5, <1>6, <1>7, <1>8, <1>9, <1>10, <1>11, <1>12,
     <1>13, <1>14, <1>15, <1>16, <1>17, <1>18, <1>19, <1>20 DEF Next

LEMMA Invariant == Spec => []IInv
BY Starts, Preserved, PTL DEF Spec

-----------------------------------------------------------------------------

(* The registries hold ids and states of the right kind, and the position  *)
(* of the active tab of every window is that of a tab.                     *)
THEOREM TypeCorrect == Spec => []TypeOK
<1>1. IInv => TypeOK
  <2> SUFFICES ASSUME IInv PROVE TypeOK
    OBVIOUS
  <2>1. \A w \in DOMAIN mux.windows :
          mux.windows[w] \in Windows(Tab) /\ Sound(mux.windows[w])
    BY Parts DEF IInv, Consistent, Homes
  <2>2. \A w \in DOMAIN mux.windows :
          LET win == mux.windows[w]
          IN  /\ win.tabs \in Seq(Tab) /\ win.last \in Tab \cup {None}
              /\ win.active \in Nat
              /\ win.tabs # <<>> => win.active < Len(win.tabs)
    BY <2>1 DEF Windows, Sound
  <2> QED BY <2>2, Parts DEF IInv, Consistent, Threads, SplitsFit, TypeOK
<1> QED BY <1>1, Invariant, PTL

(* Every tab of a window is registered and is in that window once and in   *)
(* no other, and no pane is in two tabs.                                   *)
THEOREM OneHome == Spec => []OneHomeEach
<1>1. IInv => OneHomeEach
  BY DEF IInv, Consistent, Homes, Sound, OneHomeEach
<1> QED BY <1>1, Invariant, PTL

(* Whatever is dead or empty and on show, a sweep is still to come: one    *)
(* that an Activity held back is made up for.  (Unless a pane that was to  *)
(* move to a tab of its own was lost.)                                     *)
THEOREM NoCleanupLost == ResizeFails = FALSE => (Spec => []CleanupNotLost)
<1> SUFFICES ASSUME ResizeFails = FALSE PROVE Spec => []CleanupNotLost
  OBVIOUS
<1>1. IInv => CleanupNotLost
  BY DEF IInv, Settled, Clean, CleanupNotLost
<1> QED BY <1>1, Invariant, PTL

(* A mux without panes has told the frontend so, or will.                  *)
THEOREM EmptyTold == Spec => []EmptyIsTold
<1>1. IInv => EmptyIsTold
  BY DEF IInv, Settled, Told, EmptyIsTold
<1> QED BY <1>1, Invariant, PTL
=============================================================================

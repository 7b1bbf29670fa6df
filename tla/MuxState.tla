------------------------------ MODULE MuxState ------------------------------
(***************************************************************************)
(* The registries of mux::Mux as a value, and the calls that change them   *)
(* without waiting for anything.  Mux puts them under the actions of users *)
(* and child processes, ClientDomain under those of a remote server.       *)
(*                                                                         *)
(* They are a record                                                       *)
(*   windows   the windows, by id (module WindowTabs)                      *)
(*   tabs      the registered tabs, by id: the panes in the tab's tree     *)
(*   panes     the registered panes                                        *)
(*   process   what became of a pane's child                               *)
(*   removing  the panes for which a remove_pane call is queued            *)
(*   told      MuxNotification::Empty was sent since the last pane         *)
(***************************************************************************)
EXTENDS WindowTabs, FiniteSets

CONSTANTS
  Window, Pane,       \* ids
  Remote              \* panes of a domain that can detach

ASSUME MuxAssumption ==
  /\ None \notin Tab
  /\ Remote \subseteq Pane
  /\ SwitchToLastActive \in BOOLEAN

-----------------------------------------------------------------------------
(* Pane::is_dead *)
IsDead(m, p) == m.process[p] = "dead"

TabsInWindows(m) == UNION {TabsOf(m.windows[w]) : w \in DOMAIN m.windows}

PanesInTabs(m, T) == UNION {m.tabs[t] : t \in T}

Without(f, S) == [x \in DOMAIN f \ S |-> f[x]]

WithoutWindows(m, W) == [m EXCEPT !.windows = Without(@, W)]

(* remove_pane_internal, for each pane of P.  A child that was held is     *)
(* killed; one that runs gets the signal and exits later.                  *)
RemovePanes(m, P) ==
  [m EXCEPT !.panes = @ \ P,
            !.process = [p \in Pane |->
               IF p \in P \cap m.panes /\ @[p] = "held" THEN "dead" ELSE @[p]]]

(* remove_tab_internal, for each tab of T.  (When they are several, they   *)
(* are in no window any more.)                                             *)
RemoveEachTab(m, T) ==
  LET known == T \cap DOMAIN m.tabs
  IN  RemovePanes([m EXCEPT
                     !.tabs = Without(@, known),
                     !.windows = [w \in DOMAIN @ |-> RemoveTabs(@[w], known)]],
                  PanesInTabs(m, known))

RemoveTab(m, t) == RemoveEachTab(m, {t})

(* What a call may leave of the panes P it is after: any of them, but from *)
(* the tree of every tab that has some at least one goes (module           *)
(* PaneRemoval).                                                           *)
Missed(m, P) ==
  LET T == TabsInWindows(m)
  IN  {L \in SUBSET (P \cap PanesInTabs(m, T)) :
         \A t \in T : P \cap m.tabs[t] # {} => ~(P \cap m.tabs[t] \subseteq L)}

(* Takes panes P out of the trees of the windows' tabs and queues their    *)
(* removal.                                                                *)
WithoutPanes(m, P) ==
  LET T == TabsInWindows(m)
  IN  [m EXCEPT !.tabs = [t \in DOMAIN @ |-> @[t] \ IF t \in T THEN P ELSE {}],
                !.removing = @ \cup (P \cap PanesInTabs(m, T))]

(* Tab::prune_dead_panes, Tab::kill_panes_in_domain: how much goes at once *)
(* depends on the trees, so this and what is built on it is a set of       *)
(* outcomes.                                                               *)
TakeOut(m, P) == {WithoutPanes(m, P \ L) : L \in Missed(m, P)}

(* The loop of prune_dead_windows over the windows.                        *)
PruneWindows(m) ==
  {LET gone(t) == t \notin DOMAIN n.tabs \/ \A p \in n.tabs[t] : IsDead(n, p)
   IN  [n EXCEPT !.windows = [w \in DOMAIN @ |->
          RemoveTabs(@[w], {t \in TabsOf(@[w]) : gone(t)})]]
   : n \in TakeOut(m, {p \in Pane : IsDead(m, p) \/ p \notin m.panes})}

(* MuxNotification::Empty *)
Announce(m) == IF m.panes = {} THEN [m EXCEPT !.told = TRUE] ELSE m

(* The end of prune_dead_windows: the tabs without a living pane and the   *)
(* windows without a tab go.                                               *)
WithoutDeadTabs(m) ==
  RemoveEachTab(m, {t \in DOMAIN m.tabs : \A p \in m.tabs[t] : IsDead(m, p)})

WithoutBareWindows(m, n) ==
  WithoutWindows(m, {w \in DOMAIN n.windows : n.windows[w].tabs = <<>>})

(* A bug to catch: whether the mux is empty is decided before the dead     *)
(* tabs take their panes along.                                            *)
SweepAnnouncingEarly(m) ==
  {WithoutBareWindows(WithoutDeadTabs(Announce(n)), n) : n \in PruneWindows(m)}

(* prune_dead_windows *)
Sweep(m) ==
  {Announce(WithoutBareWindows(WithoutDeadTabs(n), n)) : n \in PruneWindows(m)}

(* ... which does nothing as long as any Activity is held.                 *)
Pruned(m, held) == IF held # {} THEN {m} ELSE Sweep(m)

(* domain_was_detached *)
Detached(m, held) ==
  UNION {Pruned(RemovePanes(n, m.panes \cap Remote), held)
         : n \in TakeOut(m, Remote)}

(* remove_window_internal: closing a window detaches the domains of its    *)
(* panes.                                                                  *)
RemoveWindow(m, w, held) ==
  LET inside == ToSet(m.windows[w].tabs)
      n == WithoutWindows(m, {w})
      isLocal == PanesInTabs(m, inside) \cap Remote = {}
  IN  {RemoveEachTab(o, inside) : o \in IF isLocal THEN {n} ELSE Detached(n, held)}

-----------------------------------------------------------------------------
(* add_pane *)
WithPane(m, p) == [m EXCEPT !.panes = @ \cup {p}, !.told = FALSE]

(* spawn_pane *)
WithChild(m, p) == [WithPane(m, p) EXCEPT !.process[p] = "running"]

WithTab(m, t, P) ==
  [m EXCEPT !.tabs = [x \in DOMAIN @ \cup {t} |-> IF x = t THEN P ELSE @[x]]]

WithWindow(m, w) ==
  [m EXCEPT !.windows = [x \in DOMAIN @ \cup {w} |->
                           IF x = w THEN EmptyWindow ELSE @[x]]]

(* Tab::remove_pane *)
TakePane(m, t, p) == [m EXCEPT !.tabs[t] = @ \ {p}]

(* Tab::split_and_insert, if there is room *)
PutPane(m, t, p) == [m EXCEPT !.tabs[t] = @ \cup {p}]

(* add_tab_to_window *)
AddTabToWindow(m, t, w) == [m EXCEPT !.windows[w] = Push(@, t)]

ActivateAt(m, w, i) == [m EXCEPT !.windows[w] = SaveThenActivate(@, i)]

MoveTabTo(m, w, i) == [m EXCEPT !.windows[w] = MoveActive(@, i)]
=============================================================================

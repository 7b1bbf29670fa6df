-------------------------------- MODULE Mux --------------------------------
(***************************************************************************)
(* The registries of mux::Mux: windows, tabs and panes, and how the dead   *)
(* ones are swept out.  The main thread runs all of the actions except     *)
(* Exit (the thread that waits for a child) and Eof (the thread that reads *)
(* a pty), which queue work for it.  Opening a window or a tab and         *)
(* splitting a pane span two steps: the domain answers later, and most     *)
(* callers hold an Activity until it does.                                 *)
(*                                                                         *)
(* Ids are never reused by the code; here an id may be used again once     *)
(* nothing refers to it.                                                   *)
(***************************************************************************)
EXTENDS MuxState

CONSTANTS
  ResizeFails,  \* Pane::resize may fail (as that of a pseudo console does)
  MaxSplits,    \* bound: splits in progress
  SplitsAlone   \* bound: no spawn is in progress while a split is

ASSUME PlatformAssumption ==
  /\ ResizeFails \in BOOLEAN /\ SplitsAlone \in BOOLEAN
  /\ MaxSplits \in Nat /\ None \notin Window

VARIABLES
  mux,
  reading,  \* panes with a thread that still reads from the pty
  pruning,  \* a prune_dead_windows call is queued
  opening,  \* windows that a spawn or a split in progress, which holds an
            \*   Activity, is for
  splitting \* splits in progress: the pane to split and its tab, and the
            \*   window in opening (None: no Activity)

vars == <<mux, reading, pruning, opening, splitting>>

-----------------------------------------------------------------------------
(* Ids that nothing refers to.                                             *)

FreshPanes ==
  {p \in Pane : /\ p \notin mux.panes \cup mux.removing \cup reading
                /\ p \notin PanesInTabs(mux, DOMAIN mux.tabs)
                /\ p \notin {s.beside : s \in splitting}
                /\ mux.process[p] # "running"}

FreshTabs == Tab \ (DOMAIN mux.tabs \cup {s.tab : s \in splitting}
                      \cup {mux.windows[w].last : w \in DOMAIN mux.windows})

FreshWindows == Window \ (DOMAIN mux.windows \cup opening)

(* add_pane: a pane with a pty gets a reader thread.                       *)
ReadersWith(p) == reading \cup ({p} \ (Remote \cup mux.panes))

-----------------------------------------------------------------------------
(* Opening windows and tabs.                                               *)

(* At start the program opens its first window. *)
Init == \E w \in Window :
  /\ mux = [windows |-> [x \in {w} |-> EmptyWindow],
            tabs |-> [t \in {} |-> {}], panes |-> {},
            process |-> [p \in Pane |-> "dead"], removing |-> {},
            told |-> FALSE]
  /\ reading = {} /\ pruning = FALSE /\ opening = {w} /\ splitting = {}

(* spawn_tab_or_window without a window: new_empty_window. *)
BeginWindow(w) ==
  /\ SplitsAlone => splitting = {}
  /\ mux' = WithWindow(mux, w)
  /\ opening' = opening \cup {w}
  /\ UNCHANGED <<reading, pruning, splitting>>

(* spawn_tab_or_window for a window whose active tab has a pane.  It       *)
(* leaves the Activity to its callers: those of the GUI hold one, and for  *)
(* those of the mux server the domain is local and answers at once.        *)
BeginTab(w) ==
  /\ w \notin opening /\ (SplitsAlone => splitting = {})
  /\ ActiveTab(mux.windows[w]) # None
  /\ mux.tabs[ActiveTab(mux.windows[w])] # {}
  /\ opening' = opening \cup {w}
  /\ UNCHANGED <<mux, reading, pruning, splitting>>

(* Domain::spawn answers: the tab is registered, and joins its window and  *)
(* is made active if the window is still there.  Then the Activity is      *)
(* dropped.                                                                *)
FinishSpawn(w, t, p) ==
  LET n == WithTab(WithChild(mux, p), t, {p})
      m == AddTabToWindow(n, t, w)
  IN  /\ mux' = IF w \notin DOMAIN mux.windows THEN n
                ELSE ActivateAt(m, w, PositionIn(m.windows[w].tabs, t))
      /\ reading' = ReadersWith(p)
      /\ opening' = opening \ {w} /\ pruning' = TRUE
      /\ UNCHANGED splitting

(* A bug to catch: the Activity is dropped and no prune is queued.         *)
FailSpawnQuietly(w) ==
  /\ opening' = opening \ {w}
  /\ UNCHANGED <<mux, reading, pruning, splitting>>

FailSpawn(w) ==
  /\ opening' = opening \ {w} /\ pruning' = TRUE
  /\ UNCHANGED <<mux, reading, splitting>>

-----------------------------------------------------------------------------
(* Panes come, move and go, in tabs that are in a window: resolve_pane_id  *)
(* and the frontend find no other.                                         *)

(* Mux::split_pane with SplitSource::Spawn.  The frontend's own splits     *)
(* hold an Activity (spawn_command_internal); those of a session that is   *)
(* restored, of a layout and of a client of the server hold none.  Bounds: *)
(* one split of a pane, and one Activity for a window, at a time.          *)
BeginSplit(w, t, q) ==
  /\ Cardinality(splitting) < MaxSplits
  /\ SplitsAlone => opening \subseteq {s.into : s \in splitting}
  /\ q \in mux.panes /\ \A s \in splitting : s.beside # q
  /\ \E into \in {None} \cup ({w} \ opening) :
       /\ splitting' = splitting \cup {[tab |-> t, beside |-> q, into |-> into]}
       /\ opening' = opening \cup ({into} \ {None})
  /\ UNCHANGED <<mux, reading, pruning>>

(* The split is over, and an Activity for it is dropped.                   *)
EndSplit(s) ==
  /\ splitting' = splitting \ {s} /\ opening' = opening \ {s.into}
  /\ pruning' = (pruning \/ s.into # None)

(* Domain::spawn_pane answers, and the pane is registered before the tab   *)
(* is looked at: the pane to split may have left it by now, there may be   *)
(* no room, or the tab was removed and is split where nobody sees it.      *)
FinishSplit(s, p) ==
  /\ \/ /\ s.tab \in DOMAIN mux.tabs /\ s.beside \in mux.tabs[s.tab]
        /\ mux' = PutPane(WithChild(mux, p), s.tab, p)
     \/ mux' = WithChild(mux, p)
  /\ reading' = ReadersWith(p)
  /\ EndSplit(s)

FailSplit(s) == EndSplit(s) /\ UNCHANGED <<mux, reading>>

(* Tab::remove_pane, then remove_tab if nothing is left alive in the tab.  *)
TakeFromTab(m, t, p, held) ==
  LET n == TakePane(m, t, p)
  IN  IF \A q \in n.tabs[t] : IsDead(n, q)
      THEN Pruned(RemoveTab(n, t), held) ELSE {n}

(* Domain::split_pane with SplitSource::MovePane: p goes beside q, if q is *)
(* still there and there is room.                                          *)
MovePane(t, p, u, q) ==
  /\ \E n \in TakeFromTab(mux, t, p, opening) :
       \/ /\ u \in DOMAIN n.tabs /\ q \in n.tabs[u]
          /\ mux' = PutPane(n, u, p)
       \/ mux' = n
  /\ UNCHANGED <<reading, pruning, opening, splitting>>

(* A bug to catch: the pane is looked up in its tab and not taken out.     *)
MoveToNewTabByReference(t, p, w, new) ==
  LET n == WithTab(WithPane(mux, p), new, {p})
  IN  /\ ActiveTab(mux.windows[w]) # None
      /\ mux' = AddTabToWindow(n, new, w)
      /\ reading' = ReadersWith(p)
      /\ UNCHANGED <<pruning, opening, splitting>>

(* The call below ends early, with the pane in no tab, if the pane cannot  *)
(* be given the size of its new tab.                                       *)
Resizes == IF ResizeFails THEN BOOLEAN ELSE {TRUE}

(* move_pane_to_new_tab within the windows there are.  A pane that was     *)
(* removed, but not swept yet, is registered again.                        *)
MoveToNewTab(t, p, w, new) ==
  LET n == WithTab(TakePane(WithPane(mux, p), t, p), new, {p})
      m == AddTabToWindow(n, new, w)
  IN  /\ ActiveTab(mux.windows[w]) # None
      /\ \E resized \in Resizes :
           /\ mux' \in IF ~resized THEN {TakePane(mux, t, p)}
                       ELSE IF \A q \in m.tabs[t] : IsDead(m, q)
                       THEN Pruned(RemoveTab(m, t), opening) ELSE {m}
           /\ reading' = IF resized THEN ReadersWith(p) ELSE reading
      /\ UNCHANGED <<pruning, opening, splitting>>

(* move_pane_to_new_tab into a new window, under the builder's Activity. *)
MoveToNewWindow(t, p, w, new) ==
  LET o == WithWindow(WithPane(mux, p), w)
      n == WithTab(TakePane(o, t, p), new, {p})
      m == AddTabToWindow(n, new, w)
  IN  /\ \E resized \in Resizes :
           /\ mux' = IF ~resized THEN TakePane(WithWindow(mux, w), t, p)
                     ELSE IF \A q \in m.tabs[t] : IsDead(m, q)
                     THEN RemoveTab(m, t) ELSE m
           /\ reading' = IF resized THEN ReadersWith(p) ELSE reading
      /\ pruning' = TRUE
      /\ UNCHANGED <<opening, splitting>>

(* Mux::remove_pane *)
ClosePane(p) ==
  /\ mux' \in Pruned(RemovePanes(mux, {p}), opening)
  /\ UNCHANGED <<reading, pruning, opening, splitting>>

(* Tab::kill_pane *)
KillFromTab(t, p) ==
  /\ mux' = [TakePane(mux, t, p) EXCEPT !.removing = @ \cup {p}]
  /\ UNCHANGED <<reading, pruning, opening, splitting>>

(* Mux::remove_tab *)
CloseTab(t) ==
  /\ mux' \in Pruned(RemoveTab(mux, t), opening)
  /\ UNCHANGED <<reading, pruning, opening, splitting>>

(* kill_window *)
CloseWindow(w) ==
  /\ \E n \in RemoveWindow(mux, w, opening) : mux' \in Pruned(n, opening)
  /\ UNCHANGED <<reading, pruning, opening, splitting>>

(* The connection to the remote domain is lost: perform_detach. *)
LoseDomain ==
  /\ mux.panes \cap Remote # {}
  /\ mux' \in Detached(mux, opening)
  /\ UNCHANGED <<reading, pruning, opening, splitting>>

-----------------------------------------------------------------------------
(* The order of a window's tabs.                                           *)

(* TermWindow::activate_tab *)
Activate(w, i) ==
  /\ mux' = ActivateAt(mux, w, i)
  /\ UNCHANGED <<reading, pruning, opening, splitting>>

(* TermWindow::move_tab *)
MoveTab(w, i) ==
  /\ mux' = MoveTabTo(mux, w, i)
  /\ UNCHANGED <<reading, pruning, opening, splitting>>

-----------------------------------------------------------------------------
(* Threads, and what they queue for the main thread.                       *)

(* split_child: the child of p exits, and a prune is queued.  The pane may *)
(* be held open, as exit_behavior says at the time (LocalPane::is_dead;    *)
(* CloseOnCleanExit holds a killed pane too).  A pane of a remote domain   *)
(* exits when the server says so (Pdu::PaneRemoved).                       *)
Exit(p) ==
  /\ \E how \in IF p \notin Remote THEN {"held", "dead"} ELSE {"dead"} :
       mux' = [mux EXCEPT !.process[p] = how]
  /\ pruning' = TRUE
  /\ UNCHANGED <<reading, opening, splitting>>

(* The end of read_from_pane_pty: exit_behavior Close removes the pane,    *)
(* the others have the dead looked for.                                    *)
Eof(p) ==
  /\ reading' = reading \ {p}
  /\ \/ pruning' = TRUE /\ mux' = mux
     \/ pruning' = pruning /\ mux' = [mux EXCEPT !.removing = @ \cup {p}]
  /\ UNCHANGED <<opening, splitting>>

(* A queued remove_pane call. *)
RunRemove(p) ==
  /\ mux' \in Pruned(RemovePanes([mux EXCEPT !.removing = @ \ {p}], {p}), opening)
  /\ UNCHANGED <<reading, pruning, opening, splitting>>

(* A queued prune_dead_windows call. *)
RunPrune ==
  /\ pruning /\ pruning' = FALSE
  /\ mux' \in Pruned(mux, opening)
  /\ UNCHANGED <<reading, opening, splitting>>

Next ==
  \/ \E w \in FreshWindows : BeginWindow(w)
  \/ \E w \in DOMAIN mux.windows : BeginTab(w) \/ CloseWindow(w)
  \/ \E w \in opening \ {s.into : s \in splitting} :
       \/ FailSpawn(w)
       \/ \E t \in FreshTabs, p \in FreshPanes : FinishSpawn(w, t, p)
  \/ \E w \in DOMAIN mux.windows : \E t \in TabsOf(mux.windows[w]) :
       \E q \in mux.tabs[t] : BeginSplit(w, t, q)
  \/ \E s \in splitting :
       \/ FailSplit(s)
       \/ \E p \in FreshPanes : FinishSplit(s, p)
  \/ \E t \in TabsInWindows(mux) :
       \/ CloseTab(t)
       \/ \E p \in mux.tabs[t] :
            \/ KillFromTab(t, p)
            \/ \E u \in TabsInWindows(mux) : \E q \in mux.tabs[u] :
                 MovePane(t, p, u, q)
            \/ \E new \in FreshTabs :
                 \/ \E w \in DOMAIN mux.windows : MoveToNewTab(t, p, w, new)
                 \/ \E w \in FreshWindows : MoveToNewWindow(t, p, w, new)
  \/ \E w \in DOMAIN mux.windows : \E i \in 0 .. Len(mux.windows[w].tabs) - 1 :
       Activate(w, i) \/ MoveTab(w, i)
  \/ \E p \in mux.panes : ClosePane(p)
  \/ LoseDomain
  \/ \E p \in Pane : mux.process[p] = "running" /\ Exit(p)
  \/ \E p \in reading : Eof(p)
  \/ \E p \in mux.removing : RunRemove(p)
  \/ RunPrune

Spec == Init /\ [][Next]_vars

-----------------------------------------------------------------------------

(* The registries hold what they name, and an active position and a list   *)
(* of tabs make sense of each other: the position of a window with tabs is *)
(* that of a tab.                                                          *)
TypeOK ==
  /\ DOMAIN mux.windows \subseteq Window /\ DOMAIN mux.tabs \subseteq Tab
  /\ \A w \in DOMAIN mux.windows :
       LET win == mux.windows[w]
       IN  /\ win.tabs \in Seq(Tab) /\ win.last \in Tab \cup {None}
           /\ win.active \in Nat
           /\ win.tabs # <<>> => win.active < Len(win.tabs)
  /\ \A t \in DOMAIN mux.tabs : mux.tabs[t] \subseteq Pane
  /\ mux.panes \subseteq Pane /\ mux.removing \subseteq Pane
  /\ mux.process \in [Pane -> {"running", "held", "dead"}]
  /\ mux.told \in BOOLEAN /\ pruning \in BOOLEAN
  /\ reading \subseteq Pane \ Remote /\ opening \subseteq Window
  /\ splitting \subseteq
       [tab : Tab, beside : Pane, into : opening \cup {None}]

(* Every tab of a window is registered and is in that window once and in   *)
(* no other, and no pane is in two tabs: what closing, moving and pruning  *)
(* rely on when they look a tab or a pane up by id.                        *)
OneHomeEach ==
  /\ \A w \in DOMAIN mux.windows :
       /\ TabsOf(mux.windows[w]) \subseteq DOMAIN mux.tabs
       /\ IsInjective(mux.windows[w].tabs)
  /\ \A v, w \in DOMAIN mux.windows :
       v = w \/ TabsOf(mux.windows[v]) \cap TabsOf(mux.windows[w]) = {}
  /\ \A t, u \in DOMAIN mux.tabs : t = u \/ mux.tabs[t] \cap mux.tabs[u] = {}

(* Something will call prune_dead_windows: a call is queued, or a spawn in *)
(* progress will queue one when its Activity is dropped.                   *)
SweepAhead == pruning \/ mux.removing # {} \/ opening # {}

(* No clean-up is lost: as long as a window is empty, or shows a tab with  *)
(* no panes, a dead pane or a pane the mux no longer knows, a sweep is     *)
(* still to come (skipping it while an Activity is held loses nothing).    *)
CleanupNotLost ==
  \A w \in DOMAIN mux.windows :
    \/ SweepAhead
    \/ /\ mux.windows[w].tabs # <<>>
       /\ \A t \in TabsOf(mux.windows[w]) :
            /\ mux.tabs[t] # {} /\ mux.tabs[t] \subseteq mux.panes
            /\ \A p \in mux.tabs[t] : ~IsDead(mux, p)

(* The frontend is told when the last pane is gone, or will be: a mux      *)
(* without panes and with nothing in progress has sent Empty.              *)
EmptyIsTold == mux.panes # {} \/ SweepAhead \/ mux.told
=============================================================================

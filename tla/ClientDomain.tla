---------------------------- MODULE ClientDomain ----------------------------
(***************************************************************************)
(* A remote domain: the local mux mirrors the windows, tabs and panes of a *)
(* mux server (terminaler-client/src/domain.rs).  The server tells of what *)
(* its other clients and its programs do; the client answers most of that  *)
(* by asking for the list of all panes, and brings its mirror up to date   *)
(* when the list arrives.  Meanwhile the user closes, opens and splits.    *)
(*                                                                         *)
(* The domain is attached once, with no window of its own (as for a domain *)
(* that connects automatically), and at most detached once.  All local     *)
(* panes mirror one of the server; zoom, titles and workspaces, and moves  *)
(* of the only pane of a remote tab, are left out.  The program goes on    *)
(* without any of them: it has windows of its own (Empty is left out).     *)
(*                                                                         *)
(* Remote ids are numbers that the server hands out once each: a tab or a  *)
(* window has the number of the pane it was made with or moved for.  A     *)
(* local id may be used again once nothing refers to it.                   *)
(***************************************************************************)
EXTENDS MuxState

CONSTANTS
  MaxMade,      \* bound: remote ids handed out when a pane is made
  MaxMoves,     \* bound: more of them handed out when one is moved
  MaxInFlight   \* bound: messages under way when someone starts something

ASSUME ClientDomainAssumption ==
  /\ Remote = Pane
  /\ Pane \cup Tab \cup Window \subseteq Nat
  /\ MaxMade \in Nat \ {0} /\ MaxMoves \in Nat /\ MaxInFlight \in Nat \ {0}

VARIABLES
  mux,       \* the local mux
  pruning,   \* a local prune_dead_windows call is queued
  opening,   \* the windows of spawns and splits in progress, which hold an
             \*   Activity; None while the domain attaches
  client,    \* [attached, window, tab, pane: the three maps from remote to
             \*   local ids, image: the remote id of every local pane in the
             \*   mux, panicked]
  server,    \* [tabs: the window and the panes of each tab, leaving: panes
             \*   with a queued remove_pane, silent: panes split off that had
             \*   no output yet, made: remote ids handed out]
  up, down,  \* messages to the server and to the client
  closed,    \* history: remote panes (of those there are) the user closed
  unplaced   \* history: remote panes whose local split found no room

vars == <<mux, pruning, opening, client, server, up, down, closed, unplaced>>

clientVars == <<mux, pruning, opening, client>>

-----------------------------------------------------------------------------
(* Messages.  A list carries the removal to look at once it is there; an   *)
(* answer carries what its request was for.                                *)

List(then) == [kind |-> "list", then |-> then]

(* Messages are read in order, but on their way to the code that handles   *)
(* them a kill (in the client), a spawn or a split (in the server) and a   *)
(* push about a pane (in the client) go through the main thread's queue    *)
(* once more than the others.                                              *)
Overtakes(late, early) ==
  \/ early.kind = "kill" /\ late.kind # "kill"
  \/ early.kind \in {"spawn", "split"} /\ late.kind \in {"list", "kill"}
  \/ /\ early.kind \in {"removed", "output"}
     /\ late.kind \notin {"removed", "output"}

Ready(q) == {i \in DOMAIN q : \A j \in 1 .. i - 1 : Overtakes(q[i], q[j])}

InFlight == Len(up) + Len(down)

-----------------------------------------------------------------------------
(* The server.  It has windows and tabs only as long as they have panes.   *)

InTrees(srv) == UNION {srv.tabs[t].panes : t \in DOMAIN srv.tabs}

RemoteWindows(srv) == {srv.tabs[t].window : t \in DOMAIN srv.tabs}

TabOfPane(srv, r) == CHOOSE t \in DOMAIN srv.tabs : r \in srv.tabs[t].panes

(* Map f, in which x now leads to y. *)
Mapped(f, x, y) ==
  [z \in DOMAIN f \cup {x} |-> IF z = x THEN y ELSE f[z]]

RemoteTab(w, panes) == [window |-> w, panes |-> panes]

WithoutPane(srv, r) ==
  LET rest == {t \in DOMAIN srv.tabs : srv.tabs[t].panes # {r}}
  IN  [srv EXCEPT !.tabs = [t \in rest |->
                    RemoteTab(@[t].window, @[t].panes \ {r})],
                  !.silent = @ \ {r}]

(* A new tab for pane r, in window w. *)
NewTab(srv, r, w, id) ==
  [srv EXCEPT !.tabs = Mapped(@, id, RemoteTab(w, {r})), !.made = id]

NewSplit(srv, t) ==
  LET r == srv.made + 1
      tab == srv.tabs[t]
  IN  [srv EXCEPT
         !.tabs = Mapped(@, t, RemoteTab(tab.window, tab.panes \cup {r})),
         !.silent = @ \cup {r}, !.made = r]

(* TabAddedToWindow, or TabResized, which the client treats alike.         *)
TabsPushed == <<[kind |-> "tabs"]>>

RemovedPushed(r) == <<[kind |-> "removed", pane |-> r]>>

(* GetPaneRenderChangesResponse, SetPalette or NotifyAlert *)
OutputPushed(r) == <<[kind |-> "output", pane |-> r]>>

(* The server becomes srv, and the history forgets the panes it lost.      *)
ServerIs(srv) ==
  /\ server' = srv
  /\ closed' = closed \cap InTrees(srv)
  /\ unplaced' = unplaced \cap InTrees(srv)
  /\ UNCHANGED clientVars

(* What other clients and the programs in the panes do.                    *)
Others(srv, pushed) == ServerIs(srv) /\ down' = down \o pushed /\ UNCHANGED up

OtherTab(w) ==
  LET r == server.made + 1 IN Others(NewTab(server, r, w, r), TabsPushed)

OtherSplit(t) == Others(NewSplit(server, t), <<>>)

(* move_pane_to_new_tab, when the pane is not the only one of its tab.     *)
OtherMove(r, w) ==
  /\ server.tabs[TabOfPane(server, r)].panes # {r}
  /\ Others(NewTab(WithoutPane(server, r), r, w, server.made + 1), TabsPushed)

OtherResize == Others(server, TabsPushed)

(* The first output of a pane.  (Later ones ask for no more than a resize  *)
(* does.)                                                                  *)
Output(r) == Others([server EXCEPT !.silent = @ \ {r}], OutputPushed(r))

(* The program in a pane ends: the pane leaves its tab, and its removal is *)
(* queued.                                                                 *)
Exit(r) == Others([WithoutPane(server, r) EXCEPT !.leaving = @ \cup {r}], <<>>)

RemoteRemove(r) == Others([server EXCEPT !.leaving = @ \ {r}], RemovedPushed(r))

(* The session answers request i.                                          *)
Answer(i, srv, answer) ==
  /\ ServerIs(srv) /\ down' = down \o answer /\ up' = RemoveAt(up, i)

ServeList(i) ==
  /\ up[i].kind = "list"
  /\ Answer(i, server, <<[kind |-> "listed", then |-> up[i].then,
                          tabs |-> server.tabs]>>)

(* KillPane.  What the pane still had to show, if anything, is pushed      *)
(* last.  (remove_pane prunes at once: no Activity lasts from one task of  *)
(* the server to the next once its first pane is there, since its domains  *)
(* are local.)                                                             *)
ServeKill(i) ==
  LET r == up[i].pane
  IN  /\ up[i].kind = "kill"
      /\ IF r \in InTrees(server) \cup server.leaving
         THEN \E rest \in {<<>>, OutputPushed(r)} :
                Answer(i, [WithoutPane(server, r) EXCEPT !.leaving = @ \ {r}],
                       RemovedPushed(r) \o rest)
         ELSE Answer(i, server, <<>>)

Failed(i) == Answer(i, server, <<[kind |-> "failed", into |-> up[i].into]>>)

(* domain_spawn_v2.  The new tab is pushed before the answer.              *)
ServeSpawn(i) ==
  LET r == server.made + 1
      w == IF up[i].window = None THEN r ELSE up[i].window
  IN  /\ up[i].kind = "spawn"
      /\ \/ /\ server.made < MaxMade /\ w \in RemoteWindows(server) \cup {r}
            /\ Answer(i, NewTab(server, r, w, r),
                      TabsPushed \o
                        <<[kind |-> "spawned", pane |-> r, tab |-> r,
                           window |-> w, into |-> up[i].into]>>)
         \/ Failed(i)

ServeSplit(i) ==
  /\ up[i].kind = "split"
  /\ \/ /\ server.made < MaxMade /\ up[i].pane \in InTrees(server)
        /\ Answer(i, NewSplit(server, TabOfPane(server, up[i].pane)),
                  <<[kind |-> "splitted", pane |-> server.made + 1,
                     target |-> up[i].target, tab |-> up[i].tab,
                     into |-> up[i].into]>>)
     \/ Failed(i)

-----------------------------------------------------------------------------
(* The client's view v: the local mux and the maps.                        *)

View == [mux |-> mux, client |-> client]

SplitsUnderWay ==
  {m \in ToSet(up) \cup ToSet(down) : m.kind \in {"split", "splitted"}}

(* A local id that nothing refers to, the number of the remote one if that *)
(* is free.                                                                *)
Fresh(free, wish) == IF wish \in free THEN wish ELSE CHOOSE id \in free : TRUE

FreshPane(v, r) ==
  Fresh(Pane \ (v.mux.panes \cup v.mux.removing \cup Range(v.client.pane)
                  \cup PanesInTabs(v.mux, DOMAIN v.mux.tabs)
                  \cup {m.target : m \in SplitsUnderWay}), r)

FreshTab(v, rt) ==
  Fresh(Tab \ (DOMAIN v.mux.tabs \cup Range(v.client.tab)
                 \cup {v.mux.windows[w].last : w \in DOMAIN v.mux.windows}
                 \cup {m.tab : m \in SplitsUnderWay}),
        rt)

FreshWindow(v, rw) ==
  Fresh(Window \ (DOMAIN v.mux.windows \cup Range(v.client.window)
                    \cup opening), rw)

(* ClientPane::new, then add_pane, for the image p of remote pane r.       *)
WithImage(v, p, r) ==
  [mux |-> WithChild(v.mux, p),
   client |-> [v.client EXCEPT !.image = Mapped(@, p, r)]]

(* A bug to catch: only the map is consulted.                              *)
LookUpInMap(v, r) == v

(* remote_to_local_pane_id: the map, or else the panes of the mux, and     *)
(* then the map learns of it.                                              *)
LookUp(v, r) ==
  LET images == {p \in v.mux.panes : v.client.image[p] = r}
  IN  IF r \in DOMAIN v.client.pane \/ images = {} THEN v
      ELSE [v EXCEPT !.client.pane = Mapped(@, r, Min(images))]

IsMirrored(v, r) ==
  r \in DOMAIN v.client.pane /\ v.client.pane[r] \in v.mux.panes

(* expire_stale_mappings *)
Expired(v) ==
  LET m == v.mux
      isShown(t) == t \in DOMAIN m.tabs /\ m.tabs[t] # {}
      hasTabs(w) == w \in DOMAIN m.windows /\ \E t \in TabsOf(m.windows[w]) : isShown(t)
  IN  [v EXCEPT
         !.client.pane = Restrict(@, {r \in DOMAIN @ : @[r] \in m.panes}),
         !.client.tab = Restrict(@, {rt \in DOMAIN @ : isShown(@[rt])}),
         !.client.window = Restrict(@, {rw \in DOMAIN @ : hasTabs(@[rw])})]

(* Pdu::PaneRemoved for a pane with an image: what it may leave of view v. *)
Died(v, r) ==
  LET m == [v.mux EXCEPT !.process[v.client.pane[r]] = "dead"]
  IN  {Expired([v EXCEPT !.mux = n]) : n \in Pruned(m, opening)}

(* The KillPanes of a step to view v: a pane that leaves the mux is killed *)
(* unless the domain is detached by then.                                  *)
Kills(v) ==
  LET gone == {v.client.image[p] : p \in DOMAIN v.client.image \ v.mux.panes}
  IN  IF v.client.attached
      THEN SetToSeq({[kind |-> "kill", pane |-> r] : r \in gone}) ELSE <<>>

(* A list request, as long as there is a client to send it with.           *)
Resync(then) == IF client.attached THEN <<List(then)>> ELSE <<>>

(* The local mux and the maps become those of v, and `sent` is sent.  What *)
(* became of a pane that is in no place, and Empty, are not kept.          *)
Becomes(v, sent) ==
  /\ mux' = [v.mux EXCEPT !.process = [p \in Pane |->
       IF p \in v.mux.panes \cup PanesInTabs(v.mux, DOMAIN v.mux.tabs)
       THEN @[p] ELSE "dead"], !.told = FALSE]
  /\ client' = [v.client EXCEPT !.image =
                   Restrict(@, v.mux.panes \cap DOMAIN @)]
  /\ up' = up \o Kills(v) \o sent
  /\ UNCHANGED server

Taken(i) == down' = RemoveAt(down, i)

-----------------------------------------------------------------------------
(* process_pane_list, one tab of the list at a time.                       *)

MirrorPane(v, r) ==
  LET known == LookUp(v, r)
      n == [known EXCEPT !.client.pane = Restrict(@, DOMAIN @ \ {r})]
  IN  IF IsMirrored(known, r) THEN known ELSE WithImage(n, FreshPane(n, r), r)

(* The image of remote pane r, which v has.                                *)
ImageOf(v, r) == CHOOSE p \in v.mux.panes : v.client.image[p] = r

MirrorTab(v, rt) ==
  IF rt \in DOMAIN v.client.tab /\ v.client.tab[rt] \in DOMAIN v.mux.tabs THEN v
  ELSE LET n == [v EXCEPT !.client.tab = Restrict(@, DOMAIN @ \ {rt})]
           t == FreshTab(n, rt)
       IN  [mux |-> WithTab(v.mux, t, {}),
            client |-> [v.client EXCEPT !.tab = Mapped(@, rt, t)]]

(* A bug to catch: a tab is shown only if its window is new.               *)
PlaceInNewWindowOnly(v, t, rw) ==
  IF rw \notin DOMAIN v.client.window
  THEN LET w == FreshWindow(v, rw)
       IN  [mux |-> AddTabToWindow(WithWindow(v.mux, w), t, w),
            client |-> [v.client EXCEPT !.window = Mapped(@, rw, w)]]
  ELSE [v EXCEPT !.client.panicked =
          v.client.window[rw] \notin DOMAIN v.mux.windows]

(* The local tab t joins the image of remote window rw.  (The same look-up *)
(* for the titles, afterwards, cannot fail if this one does not.)          *)
Place(v, t, rw) ==
  IF rw \notin DOMAIN v.client.window
  THEN LET w == FreshWindow(v, rw)
       IN  [mux |-> AddTabToWindow(WithWindow(v.mux, w), t, w),
            client |-> [v.client EXCEPT !.window = Mapped(@, rw, w)]]
  ELSE LET w == v.client.window[rw]
       IN  IF w \notin DOMAIN v.mux.windows
           THEN [v EXCEPT !.client.panicked = TRUE]
           ELSE IF t \in TabsOf(v.mux.windows[w]) THEN v
           ELSE [v EXCEPT !.mux = AddTabToWindow(@, t, w)]

(* sync_with_pane_tree, and the window of the tab.                         *)
MirrorPanes(v, list) ==
  LET upTo[i \in 0 .. Len(list)] ==
        IF i = 0 THEN v ELSE MirrorPane(upTo[i - 1], list[i])
  IN  upTo[Len(list)]

Mirror(v, rt, listed) ==
  LET n == MirrorPanes(MirrorTab(v, rt), SetToSeq(listed[rt].panes))
      t == n.client.tab[rt]
      images == {ImageOf(n, r) : r \in listed[rt].panes}
  IN  IF v.client.panicked THEN v
      ELSE Place([n EXCEPT !.mux = WithTab(@, t, images)], t, listed[rt].window)

MirrorTabs(v, list, listed) ==
  LET upTo[i \in 0 .. Len(list)] ==
        IF i = 0 THEN v ELSE Mirror(upTo[i - 1], list[i], listed)
  IN  upTo[Len(list)]

(* The maps forget what is not listed any more.                            *)
Swept(v, listed) ==
  LET windows == {listed[rt].window : rt \in DOMAIN listed}
      panes == UNION {listed[rt].panes : rt \in DOMAIN listed}
  IN  [v EXCEPT !.client.window = Restrict(@, DOMAIN @ \cap windows),
                !.client.tab = Restrict(@, DOMAIN @ \cap DOMAIN listed),
                !.client.pane = Restrict(@, DOMAIN @ \cap panes)]

ProcessPaneList(v, listed) ==
  Swept(MirrorTabs(v, SetToSeq(DOMAIN listed), listed), listed)

-----------------------------------------------------------------------------
(* What arrives at the client.                                             *)

(* Pdu::TabAddedToWindow and Pdu::TabResized. *)
OnTabs(i) ==
  /\ down[i].kind = "tabs" /\ Taken(i)
  /\ Becomes(View, Resync(None))
  /\ UNCHANGED <<pruning, opening, closed, unplaced>>

(* A push about a pane the client has no image of makes it resync, once:   *)
(* after a list the map leads to panes of the mux only, so what is not     *)
(* found then is given up, and there is no second resync.                  *)
OnPane(i) ==
  LET r == down[i].pane
      gone == down[i].kind = "removed"
      v == IF client.attached THEN LookUp(View, r) ELSE View
  IN  /\ down[i].kind \in {"removed", "output"} /\ Taken(i)
      /\ IF ~client.attached THEN Becomes(v, <<>>)
         ELSE IF ~IsMirrored(v, r)
              THEN Becomes(v, Resync(IF gone THEN r ELSE None))
         ELSE \E n \in IF gone THEN Died(v, r) ELSE {v} : Becomes(n, <<>>)
      /\ UNCHANGED <<pruning, opening, closed, unplaced>>

(* The list arrives, whatever became of the domain meanwhile; the first    *)
(* one attaches it.  Then the removal it was asked for is looked at again. *)
OnListed(i) ==
  LET attaching == None \in opening
      v == ProcessPaneList([View EXCEPT !.client.attached = @ \/ attaching],
                           down[i].tabs)
      r == down[i].then
      again == r # None /\ v.client.attached
      n == IF again THEN LookUp(v, r) ELSE v
  IN  /\ down[i].kind = "listed" /\ Taken(i)
      /\ \E o \in IF v.client.panicked
                 THEN {[View EXCEPT !.client.panicked = TRUE]}
                 ELSE IF again /\ IsMirrored(n, r) THEN Died(n, r)
                 ELSE {n} : Becomes(o, <<>>)
      /\ opening' = opening \ {None}
      /\ pruning' = (pruning \/ attaching
                       \/ DOMAIN v.mux.windows # DOMAIN mux.windows)
      /\ UNCHANGED <<closed, unplaced>>

(* The Activity of a spawn or a split is dropped.                          *)
Finish(into) ==
  /\ opening' = opening \ {into} /\ pruning' = TRUE /\ UNCHANGED closed

(* ClientDomain::spawn goes on: the answer is mapped to the window it was  *)
(* asked for, which may be gone by now.                                    *)
OnSpawned(i) ==
  LET m == down[i]
      p == FreshPane(View, m.pane)
      t == FreshTab(View, m.tab)
      c == [client EXCEPT !.window = Mapped(@, m.window, m.into),
                          !.tab = Mapped(@, m.tab, t)]
      v == WithImage([View EXCEPT !.client = c], p, m.pane)
      n == WithTab(v.mux, t, {p})
      shown == AddTabToWindow(n, t, m.into)
      at == PositionIn(shown.windows[m.into].tabs, t)
  IN  /\ m.kind = "spawned" /\ Taken(i)
      /\ Becomes([v EXCEPT !.mux =
                    IF m.into \notin DOMAIN mux.windows THEN n
                    ELSE ActivateAt(shown, m.into, at)],
                 <<>>)
      /\ Finish(m.into) /\ UNCHANGED unplaced

(* ClientDomain::split_pane goes on.  A tab that was closed meanwhile is   *)
(* still split, where nobody sees it; the tab on show may have lost the    *)
(* pane, and then the answer is dropped, or may have no room, which is     *)
(* ignored.                                                                *)
OnSplit(i) ==
  LET m == down[i]
      p == FreshPane(View, m.pane)
      v == WithImage(View, p, m.pane)
      fits == m.tab \in DOMAIN mux.tabs /\ m.target \in mux.tabs[m.tab]
  IN  /\ m.kind = "splitted" /\ Taken(i) /\ Finish(m.into)
      /\ \/ /\ fits
            /\ Becomes([v EXCEPT !.mux = PutPane(@, m.tab, p)], <<>>)
            /\ UNCHANGED unplaced
         \/ /\ fits \/ m.tab \notin DOMAIN mux.tabs
            /\ Becomes(v, <<>>)
            /\ unplaced' = unplaced \cup ({m.pane} \cap InTrees(server))
         \/ /\ ~fits
            /\ Becomes(View, <<>>) /\ UNCHANGED unplaced

OnFailed(i) ==
  /\ down[i].kind = "failed" /\ Taken(i)
  /\ Becomes(View, <<>>) /\ Finish(down[i].into) /\ UNCHANGED unplaced

-----------------------------------------------------------------------------
(* The user, and what the local mux has queued.                            *)

Local(v, sent) == Becomes(v, sent) /\ UNCHANGED <<down, unplaced>>

(* Bound: one spawn or split at a time, and not before an earlier window   *)
(* without tabs is pruned.                                                 *)
MayBegin ==
  /\ server.made < MaxMade /\ client.attached /\ opening = {}
  /\ \A w \in DOMAIN mux.windows : mux.windows[w].tabs # <<>>

(* A bug to catch: the window is named by its local id.                    *)
BeginTabUntranslated(w) ==
  /\ MayBegin /\ ActiveTab(mux.windows[w]) # None
  /\ Local(View, <<[kind |-> "spawn", window |-> w, into |-> w]>>)
  /\ opening' = opening \cup {w} /\ UNCHANGED <<pruning, closed>>

BeginTab(w) ==
  LET remote == {r \in DOMAIN client.window : client.window[r] = w}
  IN  /\ MayBegin
      /\ ActiveTab(mux.windows[w]) # None
      /\ mux.tabs[ActiveTab(mux.windows[w])] # {}
      /\ \E r \in IF remote = {} THEN {None} ELSE remote :
           Local(View, <<[kind |-> "spawn", window |-> r, into |-> w]>>)
      /\ opening' = opening \cup {w} /\ UNCHANGED <<pruning, closed>>

BeginWindow ==
  LET w == FreshWindow(View, None)
  IN  /\ MayBegin
      /\ Local([View EXCEPT !.mux = WithWindow(@, w)],
               <<[kind |-> "spawn", window |-> None, into |-> w]>>)
      /\ opening' = opening \cup {w} /\ UNCHANGED <<pruning, closed>>

BeginSplit(w, t, p) ==
  /\ MayBegin /\ p \in mux.panes
  /\ Local(View, <<[kind |-> "split", pane |-> client.image[p], target |-> p,
                    tab |-> t, into |-> w]>>)
  /\ opening' = opening \cup {w} /\ UNCHANGED <<pruning, closed>>

Closes(P) ==
  /\ closed' = closed \cup
       ({client.image[p] : p \in P \cap mux.panes} \cap InTrees(server))
  /\ UNCHANGED <<pruning, opening>>

KillFromTab(t, p) ==
  /\ LET m == [TakePane(mux, t, p) EXCEPT !.removing = @ \cup {p}]
     IN  Local([View EXCEPT !.mux = m], <<>>)
  /\ Closes({p})

CloseTab(t) ==
  /\ \E m \in Pruned(RemoveTab(mux, t), opening) :
       Local([View EXCEPT !.mux = m], <<>>)
  /\ Closes(mux.tabs[t])

(* kill_window detaches the domain if the window has panes of it.          *)
CloseWindow(w) ==
  LET inside == PanesInTabs(mux, TabsOf(mux.windows[w]))
  IN  /\ \E n \in RemoveWindow(mux, w, opening) : \E m \in Pruned(n, opening) :
           Local([mux |-> m,
                  client |-> [client EXCEPT !.attached = @ /\ inside = {}]],
                 <<>>)
      /\ Closes({})

(* A bug to catch: the panes are removed before the domain is detached.    *)
DetachAfterwards ==
  /\ client.attached
  /\ mux' \in Detached(mux, opening)
  /\ client' = [client EXCEPT !.attached = FALSE,
                              !.image = Restrict(@, mux'.panes)]
  /\ up' = up \o Kills([View EXCEPT !.mux = mux'])
  /\ Closes({}) /\ UNCHANGED <<server, down, unplaced>>

(* perform_detach *)
Detach ==
  /\ client.attached
  /\ \E m \in Detached(mux, opening) :
       Local([mux |-> m, client |-> [client EXCEPT !.attached = FALSE]], <<>>)
  /\ Closes({})

RunRemove(p) ==
  /\ \E m \in Pruned(RemovePanes([mux EXCEPT !.removing = @ \ {p}], {p}),
                    opening) :
       Local([View EXCEPT !.mux = m], <<>>)
  /\ UNCHANGED <<pruning, opening, closed>>

RunPrune ==
  /\ pruning /\ pruning' = FALSE
  /\ \E m \in Pruned(mux, opening) : Local([View EXCEPT !.mux = m], <<>>)
  /\ UNCHANGED <<opening, closed>>

-----------------------------------------------------------------------------

(* The server has a pane, and the client asks for the list. *)
Init ==
  /\ mux = [windows |-> <<>>, tabs |-> <<>>, panes |-> {},
            process |-> [p \in Pane |-> "dead"], removing |-> {},
            told |-> FALSE]
  /\ pruning = FALSE /\ opening = {None}
  /\ client = [attached |-> FALSE, window |-> <<>>, tab |-> <<>>, pane |-> <<>>,
               image |-> <<>>, panicked |-> FALSE]
  /\ server = [tabs |-> Mapped(<<>>, 1, RemoteTab(1, {1})), leaving |-> {},
               silent |-> {}, made |-> 1]
  /\ up = <<List(None)>> /\ down = <<>>
  /\ closed = {} /\ unplaced = {}

(* Bound: something new starts only while the domain is attached or being  *)
(* attached, the server has panes, few messages are under way, and no      *)
(* removal is queued here.                                                 *)
MayStart ==
  /\ client.attached \/ None \in opening
  /\ server.tabs # <<>> /\ InFlight < MaxInFlight /\ mux.removing = {}

OthersAct ==
  /\ MayStart
  /\ \/ \E w \in RemoteWindows(server) \cup {server.made + 1} :
          \/ server.made < MaxMade /\ OtherTab(w)
          \/ /\ server.made < MaxMade + MaxMoves
             /\ \E r \in InTrees(server) : OtherMove(r, w)
     \/ server.made < MaxMade /\ \E t \in DOMAIN server.tabs : OtherSplit(t)
     \/ OtherResize
     \/ \E r \in server.silent : Output(r)
     \/ \E r \in InTrees(server) : Exit(r)

ServerRuns ==
  \/ \E r \in server.leaving : RemoteRemove(r)
  \/ \E i \in Ready(up) :
       ServeList(i) \/ ServeKill(i) \/ ServeSpawn(i) \/ ServeSplit(i)

ClientHears ==
  \E i \in Ready(down) :
    \/ OnTabs(i) \/ OnPane(i) \/ OnListed(i)
    \/ OnSpawned(i) \/ OnSplit(i) \/ OnFailed(i)

(* The user is slower than the main thread's queue.                        *)
UserActs ==
  /\ InFlight < MaxInFlight /\ ~pruning /\ mux.removing = {}
  /\ \/ MayStart /\ (BeginWindow \/ Detach)
     \/ \E w \in DOMAIN mux.windows :
          \/ MayStart /\ BeginTab(w)
          \/ mux.windows[w].tabs # <<>> /\ CloseWindow(w)
          \/ \E t \in TabsOf(mux.windows[w]) :
               \/ CloseTab(t)
               \/ \E p \in mux.tabs[t] :
                    KillFromTab(t, p) \/ (MayStart /\ BeginSplit(w, t, p))

(* A panic of the main thread is the end of the client.                    *)
Next ==
  /\ ~client.panicked
  /\ \/ OthersAct \/ ServerRuns \/ ClientHears \/ UserActs \/ RunPrune
     \/ \E p \in mux.removing : RunRemove(p)

Spec == Init /\ [][Next]_vars

-----------------------------------------------------------------------------

(* Every pane of the mux is the image of a pane the server has made, and   *)
(* requests name windows and panes by the ids the server gave them.        *)
TypeOK ==
  /\ DOMAIN client.image = mux.panes
  /\ mux.panes \cup mux.removing \subseteq Pane
  /\ Range(client.pane) \subseteq Pane /\ Range(client.tab) \subseteq Tab
  /\ Range(client.window) \cup (opening \ {None}) \subseteq Window
  /\ (UNION {DOMAIN f : f \in {client.pane, client.tab, client.window}})
       \cup Range(client.image) \cup closed \cup unplaced
       \subseteq 1 .. server.made
  /\ \A m \in ToSet(up) :
       /\ m.kind \in {"kill", "split"} => m.pane \in 1 .. server.made
       /\ m.kind = "spawn" => m.window \in {None} \cup 1 .. server.made

(* A remote pane or tab has at most one image, and the map leads to it, in *)
(* whatever order lists, answers and removals arrive: otherwise a pane     *)
(* would be on show twice, and its removal would take away one of them.    *)
OneImageEach ==
  /\ IsInjective(client.image) /\ IsInjective(client.tab)
  /\ \A r \in DOMAIN client.pane :
       client.pane[r] \in mux.panes => client.image[client.pane[r]] = r

(* "We only want to ask the server to kill the pane if the user explicitly *)
(* requested it to die" (clientpane.rs, kill): a pane the server is asked  *)
(* to kill was closed by the user or is gone there already, whatever made  *)
(* the local pane go.                                                      *)
KillsAreWanted ==
  \A m \in ToSet(up) :
    m.kind = "kill" => m.pane \in closed \/ m.pane \notin InTrees(server)

(* Nothing is under way and the domain is attached.                        *)
Quiet ==
  /\ up = <<>> /\ down = <<>> /\ server.leaving = {}
  /\ mux.removing = {} /\ ~pruning /\ opening = {}
  /\ client.attached /\ ~client.panicked

(* The mirror catches up: once nothing is under way, what is on show is    *)
(* what the server has.  Every pane of the server (but one split off that  *)
(* had no output yet, and one whose local split failed) is in the image of *)
(* its tab, in the image of its window, and no other pane is on show.      *)
QuietMirrors ==
  Quiet =>
    /\ \A rt \in DOMAIN server.tabs :
         LET rw == server.tabs[rt].window
             due == server.tabs[rt].panes \ (server.silent \cup unplaced)
         IN  due # {} =>
               /\ rt \in DOMAIN client.tab
               /\ rw \in DOMAIN client.window
               /\ client.tab[rt] \in TabsOf(mux.windows[client.window[rw]])
               /\ due \subseteq
                    {client.image[p] : p \in mux.tabs[client.tab[rt]]}
    /\ \A t \in TabsInWindows(mux) :
         {client.image[p] : p \in mux.tabs[t]} \subseteq InTrees(server)

(* process_pane_list expects the window of a known remote window to exist  *)
(* ("no such window!?").                                                   *)
NeverPanics == ~client.panicked
=============================================================================

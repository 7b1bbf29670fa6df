# Terminaler: specification and verification

This directory holds TLA+ specifications of Terminaler, the TLC configurations
that model-check them on small instances, and proofs that TLAPS checks for
instances of every size. Everything is read from the source of the repository;
line numbers refer to it.

- [Inventory](#inventory): the parts of the system and what is hard about them
- [Modules](#modules): what is modelled, and how it corresponds to the code
- [Runs](#runs): what TLC checks, on which bounds
- [Findings](#findings): where the code differs from what its comments and documents say
- [Proofs](#proofs): what is proved and along which argument
- [Limits](#limits): what is only model-checked, and what is not modelled
- [Plan](#plan)

Running a check, in this directory:

    tlc -config MCTab.cfg MCTab.tla
    tlapm PaneGroups_proofs.tla
    tlapm RemoteLines_proofs.tla
    tlapm MainThread_proofs.tla
    tlapm MuxState_proofs.tla
    tlapm Mux_proofs.tla
    tlapm ClientDomain_proofs.tla
    tlapm Tab_proofs.tla
    tlapm TabPromise_proofs.tla

## Inventory

Terminaler is a terminal multiplexer derived from WezTerm. One process (the GUI,
or the mux server) owns a `Mux`: registries of windows, tabs and panes. A window
has an ordered list of tabs; a tab has a binary tree whose leaves are panes; a
pane is a terminal with a child process behind it, or the local image of a pane
of another process. Threads read from ptys and wait for children, and queue
closures for the main thread, which does all changes to the registries.

| Part | State | Operations | What is hard | What makes it correct |
|---|---|---|---|---|
| Split tree (`bintree`, used by `mux/src/tab.rs`) | a binary tree with panes at its leaves, edited through a zipper | split a leaf or the root, unsplit, walk in preorder | the tree changes under the cursor that walks it | the loop ends, no pane is lost, positions stay meaningful |
| Tab (`mux/src/tab.rs`) | tree, active index, zoomed pane, hidden set, groups and stacks | split, remove, prune, focus by pane, index or direction, zoom, hide, rotate, swap, dock, focus layout, group, stack, cycle | five overlapping rules for "which pane has the input" | the focus names a pane, closing one does not move it to another |
| Groups and stacks (`mux/src/pane_group.rs`) | groups of panes, stacks of units, both by id | create, dissolve, adopt, remove, show, cycle | an overlay on a tree that other operations rearrange | a group or stack is one subtree, a stack shows one unit |
| Window (`mux/src/window.rs`) | tabs in order, active position, last active tab | push, insert, remove one or many, activate, move | a position that names a tab while the list shifts | the active tab stays, an old one can be gone back to |
| Mux (`mux/src/lib.rs`, `activity.rs`) | windows, tabs, panes by id; Activity count | spawn, split, move, close, detach, sweep | calls queued by threads, sweeps skipped during a spawn | one home for every pane and tab, no clean-up is lost |
| Local pane (`mux/src/localpane.rs`) | process state, terminal | kill, look whether it is dead | exit and end of output come from two threads, in any order | a dead pane is swept, a held one is not |
| Domains (`mux/src/domain.rs`) | how to make panes | spawn, split, move | half of the work is done before the part that may fail | see Mux |
| Session (`mux/src/session_state.rs`, `terminaler-gui/src/session.rs`) | a JSON snapshot | save, restore | restore is a long chain of spawns, any of which may fail | the restored layout is the saved one |
| Client domain (`terminaler-client`) | remote-to-local ids of windows, tabs and panes; calls awaiting an answer | attach, resync, detach, spawn, split, fetch lines | the two sides change while a call is on its way | the mappings are one to one, the mirror catches up, only what the user closes is killed |
| Lines of a remote pane (`terminaler-client/src/pane`) | cached lines, each up to date, outdated, being fetched | apply pushes and answers, paint, resize | answers cross pushes; lines with images are applied late | a line that is taken for up to date is, or will be reported |
| Server session (`terminaler-mux-server-impl`) | per client and pane: last sequence number sent | answer requests, push changes | output comes between the steps of a push | every change reaches the client |
| Codec (`codec`) | none | encode, decode | a data format | round trip |
| Promises and the main thread's queue (`promise`, `window/src/spawn.rs`) | task queues, wake-up pipe, wakers | spawn into the main thread or a new one, keep a promise, wait for events | hand-over between threads, sleeping while work arrives | no task is lost or run twice, the main thread wakes up, every result is delivered |
| Blob leases (`terminaler-blob-leases`) | reference counts of files | store, lease, release | counts shared by threads | a leased file exists |
| tmux control mode (`mux/src/tmux*.rs`) | a command queue, a mirror of tmux windows | send, match replies | replies come in order of commands but events in between | the mirror follows |
| GUI (`terminaler-gui`) | windows on screen, overlays, drags | all of the user's commands | drags of tabs and panes across windows | asks of the mux only what exists |
| Web access (`terminaler-web`) | browser sessions | attach, input, render | slow readers | sessions see a consistent screen |
| Terminal, parser, surface (`term`, `vtparse`, `terminaler-escape-parser`, `terminaler-surface`, `terminaler-cell`, `termwiz`) | screen contents | apply output | size of the protocol | the emulated screen |
| Layout presets, configuration, windowing, fonts, ptys, command line, support crates | | | pure data or platform I/O | |

How they interact. The GUI, the server session and the command line call the
mux on the main thread. The mux calls domains to make panes (asynchronously) and
tabs to place them. Threads of a local pane (`split_child`, `read_from_pane_pty`)
never touch the registries: they queue `prune_dead_windows` or `remove_pane` for
the main thread. A tab that takes panes out queues `remove_pane` for them, too.
The client domain applies the server's view to local windows and tabs. Changes
are announced to subscribers (`MuxNotification`).

`PROJECT.json` lists each hazard at its line, with the properties that cover it.

## Modules

    PaneTree        operators on split trees
      PaneRemoval   the loop of remove_pane_if, step by step
      Tab           a tab with its groups and stacks  --implements-->  PaneGroups
        Tab_proofs  (of PaneRemoval, too)
          TabPromise_proofs  (that Tab implements PaneGroups)
    PaneGroups      what groups and stacks promise
      PaneGroups_proofs
    WindowTabs      operators on the tab list of a window
      WindowOrder   one window
      MuxState      operators on the registries of the mux
        MuxState_proofs  (of WindowOrder, too)
        Mux           windows, tabs, panes, and how the dead are swept out
          Mux_proofs
        ClientDomain  a remote domain: the mirror of a server in the local mux
          ClientDomain_proofs
    RemoteLines     the lines of a remote pane: terminal, session, messages, cache
      RemoteLines_proofs
      RemoteScreens   the same with the alternate screen
    MainThread      spawn queue, message loop, promises, threads
      MainThread_proofs

Each `MC...` module gives one of these its constants and symmetry; several
configurations may use the same one.

**PaneTree** (`bintree/src/lib.rs`, tree helpers of `mux/src/tab.rs`). A tree is
seen through the two views the code works with: the leaf set of every subtree
(the code's own `subtree_leaf_sets`) and the leaves in preorder, which pane
indices count. `IsTree` says that the two belong to one binary tree. Sizes and
split directions are left out. `Walk` is the loop of `remove_pane_if`: visiting a
pane that is to go collapses its parent, leaves the cursor on the sibling
(`unsplit_leaf`) and moves on from there (`preorder_next`), which steps over a
sibling that is a leaf and into one that is a node.

**PaneRemoval** runs that loop one cursor position per step, from every tree of
up to five panes, every active index and every set of victims (up to `MaxNamed`). Its
definitions are named `Walk...`, so that one module can prove things of it and of `Tab`.

**Tab** is `TabInner` with `GroupState`. Each public method of `Tab` that changes
them is one action: `dock_pane` takes the tab's mutex more than once, but all calls that
change a tab are made on the main thread, where nothing comes in between. Only a split is
two, because the new pane is spawned between `compute_split_size` (which unzooms)
and `split_and_insert` (which fails if the tab was zoomed since). Where the code
picks a pane by geometry, the model allows every pane that could be picked. A
call that finds no room leaves the tab alone, which is a stuttering step.

| Tab | Code |
|---|---|
| `tab.tree`, `.active`, `.zoomed`, `.hidden` | `TabInner` fields `pane`, `active`, `zoomed`, `hidden` |
| `tab.groups`, `.stacks`, `.next_id` | `GroupState` |
| `RemovePanes` | `kill_pane`, `remove_pane`, `prune_dead_panes`, `kill_panes_in_domain` through `remove_pane_if` and `prune_removed_panes` |
| `FocusPane`, `FocusIndex` | `set_active_pane`, `set_active_idx`: the one minds zoom, the other does not |
| `GroupWith`, `StackWith`, `StackCycle`, `UngroupActive` | `group_units`, `stack_units`, `stack_cycle`, `ungroup_active` |
| `DockPane` | `dock_pane`, and its end when the target cannot be split after all and the pane is put back beside another |
| `SwapPanes`, `SwapActiveWithIndex`, `Rotate`, `FocusLayout` | the methods of these names |
| `ShowStackedPane`, `UnhidePane`, `HidePane` | `toggle_pane_hidden` |

**PaneGroups** states what groups and stacks promise, without indices, ids or
sequences: a unit is the set of its panes. `Tab` implements it under the mapping
`GroupLayout` (property `KeepsPromise`), as long as panes are hidden only by stacks
and one pane is removed at a time. Both conditions are constants of `Tab`.

**WindowTabs** and **WindowOrder** are `mux::window::Window` with the two callers
that change the order or the active tab from outside (`activate_tab`, `move_tab`).
The loop of `prune_dead_tabs` (`RemoveTabs`) is a recursive function over the
positions of the list, and `remove_tab_internal` takes a set of tabs
(`RemoveEachTab`), as the order in which several are removed makes no difference.

**MuxState** has the operators on the registries that `Mux` and `ClientDomain` share:
adding and removing panes, tabs and windows, and the sweep. Taking several panes out of
a tab may leave some of them to the next call (as `PaneRemoval` shows of the loop that does
it: one at least goes), so a sweep and all that is built on it are sets of outcomes.

**Mux** composes window operators with the registries. A tab is the set of its
panes here (its inner workings are module `Tab`). The main thread's calls are
actions; `Exit` and `Eof` belong to the threads of a pane and only queue work
(`pruning`, `mux.removing`). A spawn is two actions, `BeginWindow` or `BeginTab` and
`FinishSpawn` or `FailSpawn`, and so is a split, `BeginSplit` and `FinishSplit` or `FailSplit`;
in between the domain works, and the tab or the pane that is split may go. A spawn of the
frontend holds an `Activity` meanwhile, which makes every `prune_dead_windows` a no-op; a
split may hold one (`spawn_command_internal` does) or not (layouts, a restored session, a
client of the server). Moving a pane to a new tab ends early, with the pane in no tab, if the
pane cannot be resized (`ResizeFails`: a pseudo console of Windows can refuse). `told` remembers that
`MuxNotification::Empty` was sent since the last pane was added.

| Mux | Code |
|---|---|
| `mux.windows`, `.tabs`, `.panes` | the maps of `Mux`; a tab is the set of panes of its tree |
| `mux.process[p]` | `ProcessState`: running, `DeadPendingClose` ("held"), dead |
| `mux.removing`, `pruning` | closures queued for the main thread |
| `opening` | windows that a spawn or a split with an `Activity` is in progress for |
| `splitting` | splits in progress: the pane, its tab, and the window in `opening`, if any |
| `Sweep`, `Pruned` | what `prune_dead_windows` may come to, without and with its Activity check |
| `Detached` | `domain_was_detached`, for a domain whose panes are `Remote` |

**RemoteLines** is one remote pane from end to end: the terminal on the server, the
session that looks at it, the two directions of the connection, and the client's
cache of lines. A text is the screen a line is on and the number of the change
that wrote it, which is what the protocol goes by. `compute_changes` takes and
releases the terminal's lock several times, so a push is five actions
(`StartPush` to `SendDelta`) between which output, switches of the screen and so on
may happen; other requests of the client wait, since all of them run on the main
thread. Both directions keep their order, which is the order of the socket. The
client's tasks that wait for image data do not: `Hold` and `ApplyHeld`, for the kinds
of message in `Late`.

| RemoteLines | Code |
|---|---|
| `term` | `TerminalState` and its two `Screen`s: `seqno`, the `seqno` of each line, `alt_screen_is_active`, the first row on show, the cursor's row |
| `sess`, `push` | `PerPane`; the local variables of `compute_changes` |
| `up`, `down` | `GetLines` and `Resize`; `GetPaneRenderChangesResponse` and `GetLinesResponse` |
| `held` | tasks in `hydrate_lines` |
| `client.entries[r]` | `LineEntry`: "line", "stale", "both" (`LineAndFetching`), "fetching", or "none" if it is not cached; `tag` is the `Instant` |
| `Poll`, `StartPush` | `poll`, key input and `schedule_pane_push` ask for a push; several requests at once have the effect of one |
| `ApplyDelta`, `ApplyLines`, `Paint`, `Resize` | `apply_changes_to_surface`, `apply_lines` with `put_line`, `get_lines`, `make_all_stale` |

Abstractions: instants of different calls differ (they are nanoseconds apart); the
throttle of fetches may refuse at any time; what else a delta carries (title,
directory, palette) is the free choice `other`; a delta's lines are read in one
step, while the code reads the lines on show and the cursor's line one after the
other; predicted echo is left out. Programs stay on the primary screen;
**RemoteScreens** adds the alternate one, with output there and the switches.

**ClientDomain** is a remote domain from the user's window to the server's registries.
The local mux is the one of `MuxState`; the server is the set of its tabs, each with
its window and its panes. Other clients and the programs in the panes change the
server at any time; the server announces that (`TabAddedToWindow`, `TabResized`,
`PaneRemoved`, output), and the client answers by asking for the list of all panes
and bringing its mirror up to date when the list arrives. In between, the user
opens, splits and closes, and the client's maps from remote to local ids are read
and written by all of them.

| ClientDomain | Code |
|---|---|
| `client.window`, `.tab`, `.pane` | `remote_to_local_window`, `_tab`, `_pane` of `ClientInner` |
| `client.image` | `remote_pane_id` of the `ClientPane`s in the mux |
| `client.attached` | whether the domain has a `ClientInner` |
| `LookUp`, `Expired`, `Resync`, `ProcessPaneList` | `remote_to_local_pane_id`, `expire_stale_mappings`, `resync`, `process_pane_list` |
| `BeginTab`, `BeginWindow`, `OnSpawned`; `BeginSplit`, `OnSplit` | `ClientDomain::spawn`, `split_pane` before and after their `await` |
| `OnTabs`, `OnPane`, `OnListed` | `process_unilateral`, `process_unilateral_inner_async`, the rest of `resync`, `attach` and of a push that had to resync first |
| `Kills` | `ClientPane::kill`, for every pane that leaves the local mux |
| `ServeList`, `ServeKill`, `ServeSpawn`, `ServeSplit` | `ListPanes`, `KillPane` (what the pane still had to show may follow its removal), `SpawnV2`, `SplitPane` of the session |
| `Overtakes` | on the way to its handler a kill passes the client's queue once more (`promise::spawn::spawn`), a spawn or a split the server's (`schedule_domain_spawn_v2`, `schedule_split_pane`), a push about a pane the client's (`process_unilateral_inner`) |

A list keeps its `ClientInner` over the `await`, so it is processed even if the domain
was detached meanwhile; and a panic of the main thread ends the client
(`client.panicked`). The domain is attached once, without a window of its own
(`attach(None)`, as `connect_automatically` does), and detached at most once. Remote
ids are never used again; local ids may be, but only when nothing refers to them.

**MainThread** is what runs all the closures the other modules speak of: the GUI's
spawn queue with its two priorities and its wake-up pipe, the message loop of X11
around it, promises, and threads whose result a task waits for. A task is in one of
the states of `async_task`; the main thread goes through `run_impl` step by step, as
the two queues and the pipe each have a lock of their own and other threads come in
between. The pipe is polled with edge triggering, as `mio` does.

| MainThread | Code |
|---|---|
| `high`, `low` | `spawned_funcs`, `spawned_funcs_low_pri` |
| `pipe`, `edge` | bytes in the wake-up pipe; whether it was written to since `poll` last returned for it |
| `at` | where `run_message_loop` and `run_impl` are: "top" and "low" (`pop_func`), "poll", "store" and "leave" (a task is polled), "drain", "check" and "check low" (`has_any_queued`), "dispatch" (`dispatch_pending_events`), "asleep" |
| `state` | scheduled, running, woken while it runs, idle: the state of an `async_task` |
| `result`, `waker` | of `Core`, for a promise; of the channel and the `WakerHolder`, for a thread |
| `helper` | the holder of the promise, or the thread: at work, "sent" (between `tx.send` and the lock), "signal" (between `queue_func` and the write to the pipe) |

A task waits for one promise, one thread, or nothing; one that is done may be
spawned anew, so tasks come without end. A promise may be dropped, a thread may
panic, a write to a full pipe fails.

## Runs

All runs use a complete search. Symmetry is over interchangeable ids, and only in
runs without liveness. Deadlock is checked in all of them but those of
`PaneRemoval`, where the loop ends, of `RemoteLines`, where the last change of an
instance comes to rest, and of `ClientDomain`, where all panes may be gone and
every remote id handed out. (A tab whose last pane is closed is dropped by the
mux; in `Tab` only calls that do nothing are left then.)

| Run | Instance | Shows |
|---|---|---|
| `pane_groups` | 5 panes | groups and stacks stay subtrees, one unit of a stack on show, only stacks hide |
| `pane_removal` | all trees of up to 5 panes, up to 5 victims | the loop ends and loses nothing; exact for one victim; never leaves all victims |
| `tab` | 4 panes, 2 groups, 1 victim per call | `GroupState::validate` holds after every call, and every call is a step of `PaneGroups` or leaves the layout alone |
| `tab_hide` | 3 panes, 2 groups, hiding and index swaps, no unzoom on focus | focus always names a pane, closing others does not move it, a group focuses a member |
| `window_order` | 6 tabs, switching to the last active one | the active tab stays while others go; a move only reorders; the last active tab is gone back to, where it stands before the one that is closed |
| `mux` | 2 windows, 2 tabs, 2 panes, one of them remote, 1 split in progress, resizes succeed | one home for every tab and pane; no clean-up lost; Empty is sent |
| `remote_lines` | 2 rows that scroll by 1, 2 changes, 2 deltas and 2 fetches in flight, answers may be late | an outdated line is about to be reported; rows go forward; fetches are answered; the client ends up with the screen |
| `remote_screens` | the same, 3 changes, both screens | violation |
| `client_domain` | 2 remote ids made with panes and 1 by a move, 2 messages under way when something starts | nothing is mirrored twice; the server is asked to kill only what the user closed; once all is quiet the mirror is right |
| `client_domain_window` | the same | violation |
| `main_thread` | one task of each kind (promise, thread, neither, low priority), a pipe of 3 bytes drained 2 at a time, 1 more spawning thread | schedules are neither lost nor doubled; no sleep with work queued; queued tasks run, kept promises arrive |
| `thread_result` | the same | violation |

Bounds, and why they are enough. Four panes are the fewest that give two groups,
or a stack with a group in it and a pane beside it, and a split of a pane before
the active one; two groups that one is dissolved while another exists. Ids of
groups are never reused by the code, so `MaxGroups` bounds the groups ever created
and with it the length of a history that creates them; all other operations may
repeat without end. Ids of removed panes are used again, which the code does not
do; nothing in a tab refers to a removed pane, and `TypeOK` would show it if
something did. Five panes in `pane_removal` give every shape in which a removed
leaf has a sibling that is a node on either side. Six tabs in `window_order` leave
room for tabs before, between and after the active and the last active one. In
`mux` two of each kind are the fewest that let a pane move between tabs and windows
while a spawn or a split is in progress; one split at a time (`MaxSplits`) is enough for
its tab or its pane to go meanwhile. That no spawn is in progress while a split is
(`SplitsAlone`) keeps the run short; without this bound (1.0 million states) the
instance was searched as well, without an error. With `ResizeFails` the clean-up is known to be
incomplete (see the findings), so it is off here. The proofs hold for all values of these.

In `remote_lines` a change is a batch of output on any of the rows, with or without
scrolling, or a resize; the state starts with a terminal that was written to once.
Two rows that scroll by one give rows that stay, come and go from view; two fetches
make the older of two answers arrive at a row that waits for the younger; a push and
a change between any two of its steps need one delta each. The proofs hold for
every size.

In `client_domain` two remote panes give two tabs in one window or in two, or one tab
with two panes; a third id lets a pane move between them. Two messages may be under
way when someone starts something; those that follow from it come on top, so that a
list, an answer and pushes about two panes can be under way together. `MayBegin`
allows one spawn or split at a time, and the user acts when no sweep and no removal
is queued: the main thread's queue is shorter than a keystroke. In `main_thread` a pipe
of three bytes drained by two can be full, and can keep a byte when it is drained;
the code's pipe holds 65536 and is drained by 64. One task of each kind and one more
spawning thread let a queue hold several tasks, and a thread write its byte long
after its task has run.

Fairness. `PaneRemoval` assumes weak fairness of its one step, a turn of a plain loop.
`RemoteLines` assumes, for `Converges` only: that a push that was begun goes on and one
that is due begins (weak: its closure is in the main thread's queue); that the
server gets to a request (strong, because the model lets a due push go first any
number of times, while the queue of the main thread is first in, first out); that
messages are taken from the socket and image data comes (weak); and that the
frontend paints and polls (weak: applying a message asks for a paint, painting polls
with an interval of at most a few seconds). Nothing is assumed of the terminal:
`Converges` speaks of behaviours with at most `MaxSeqno` changes, that is, of a
terminal that falls silent. `CleanupNotLost` and `EmptyIsTold` say that a sweep is still queued or
will be queued, instead of that it eventually runs: that a closure queued for the
main thread runs is shown in `MainThread` (`HighRuns`).

`MainThread` assumes that the message loop goes on unless `poll` has nothing to return
(weak fairness of the main thread's steps: polls of tasks return), and that a thread
which has queued a task or sent a result goes on to write its byte or to take the
waker (weak, each for itself). Nothing is assumed of events of the window system, of
new tasks, of promises being kept or of threads ending: `HighRuns` holds although tasks
come without end, `LowRuns` only under the condition it states.

Every property of a passing run comes with a mutant: a variant of a modelled
definition with a plausible mistake (`...Unclamped`, `...Quietly`, ...; marked in the
modules) that makes the property fail on the run's own instance.

## Findings

- **`remote_screens`**: `dirty_top_phys_rows` marks rows of the primary screen, also
  when the alternate one is switched to (`terminalstate/mod.rs:219`). With modes 47 and
  1047, which do not clear it, the client goes on showing the primary's text.
- **`client_domain_window`**: closing a window or detaching leaves the window's entry in
  `remote_to_local_window`, and a list that was asked for before that is still
  processed; it expects the window to exist (`domain.rs:609`) and panics in the
  client's main thread.
- **`thread_result`**: `spawn_into_new_thread` looks for the result and stores the waker
  in two steps (`promise/src/spawn.rs:100-104`); a thread that sends its result and
  looks for a waker in between wakes nobody, and the task waits for ever.

Also met, without a run of their own:

- A split of a pane that is not active, with the new pane on its left, does not
  shift the active index (`tab.rs:3690`). The index can come to name a pane hidden
  behind a stack, against "focus movement ignores hidden panes"
  (`docs/superpowers/specs/2026-10-30-pane-groups-design.md:102-104`).
- Closing, in one call, the pane on show of a stack and a member of the group that
  would be revealed next leaves a stack (or a lone pane) hidden with nothing on show
  (`tab.rs:1608-1620`): the group's id is kept for the reveal and has no panes any
  more. `MaxVictims = 2` in `MCTab.cfg` shows it.
- Closing the active tab is meant to go back to the previously active one
  (`window.rs:157`), but its position is taken before the list shifts: if that tab
  stands behind the closed one, the tab after it becomes active. `GoesBack` states
  the half that holds.
- A delta whose lines hold images the client has not seen is applied when they have
  come, possibly after a later delta (`clientpane.rs:144`); it puts old lines back as
  up to date, and nobody asks for them again. `Late = {"delta", "lines"}` in
  `MCRemoteLines.cfg` shows it.
- When one call removes two panes, the indices `remove_pane_if` records do not count
  leaves of the original tree after the first removal, so the active index is shifted
  by too much or too little (`tab.rs:3312-3317`). A single removal is exact
  (`OneVictimIsExact`). With three victims among four panes the index can even end
  beyond the last pane, so that the tab has panes and none of them is active
  (`MaxVictims = 3` in `MCTabHide.cfg` with four panes shows it).
- A list, a spawn or a split that is answered after the domain was detached makes
  panes of the detached domain anew; nothing removes them.
- If the push of a pane's removal comes after a list without it, the map and the tab
  have forgotten the pane while the mux has not. `remote_to_local_pane_id` finds it
  among the panes of the mux and it is marked dead, but as it is on no tab no sweep
  takes it out of the registry: it stays, and `Empty` is never sent.
- `move_pane_to_new_tab` ends early if the pane cannot be resized (`lib.rs:1306`): it was
  taken out of its tab, is in no other, and a tab it leaves empty stays on show with no
  sweep queued. `ResizeFails = TRUE` in `MCMux.cfg` shows it. `split_and_insert` takes the
  tree out of the tab before the two resizes that may fail (`tab.rs:3670-3671`), so that such
  an error loses all panes of the tab. `Tab` assumes that these succeed.
- When the only pane of a remote tab is moved to another, the old local tab keeps
  its image until the pane goes; `ClientDomain::split_pane` with `MovePane` sends the
  local id of the pane to move (`domain.rs:875-888`). Both are outside the model.
- A split whose answer finds no room (`domain.rs:908`, `.ok()`) leaves its pane in the
  mux and on no tab until a list comes (`unplaced`).
- A promise that is dropped, and a function that panics in its thread, wake nobody:
  `BrokenPromise` is never made (`promise/src/lib.rs:9-11`), and the result of a closed
  channel is only seen by a later poll. `PromisesKept` speaks of promises that are kept.
- `SimpleExecutor` (`promise/src/spawn.rs:190-225`) puts both priorities into one
  channel, so in the server low-priority tasks are not held back.

## Proofs

`PaneGroups_proofs` proves, for every set `Pane` and with no other assumption:

- `LayoutIsTyped`: `Spec => []TypeOK`
- `GroupsStaySubtrees`: `Spec => []GroupsAreSubtrees`
- `StacksStayExclusive`: `Spec => []StacksShowOneUnit`
- `HiddenAreStacked`: `Spec => []OnlyStacksHide`

None of the first three is inductive by itself. A group stays a subtree when another
unit is docked beside it only if the two are disjoint; stacking a unit keeps other
stacks intact only if stacks are disjoint subtrees whose units are whole groups or
lone panes; a closed pane can take a whole unit out of a stack only if hidden panes
belong to the tree. The inductive invariant is their conjunction,
`Fit(s) == WellFormed(s) /\ GroupsFit(s) /\ StacksFit(s)`, an operator on layouts. The
argument has three layers:

1. units (`UnitsAre`, `UnitsDisjoint`, `UnitOfPane`): the units of a fitting layout
   are its groups and its lone panes, they are subtrees and pairwise disjoint;
2. one lemma per operation on layouts (insert, shrink, leave, dock, group, stack,
   show, relabel): it maps a fitting layout to a fitting one;
3. `InitFits`, `NextFits` with one step per action, and the three theorems by
   temporal reasoning from `AlwaysFit`.

`HiddenAreStacked` comes on top: in a layout that fits, no operation leaves a pane hidden
that is in no stack (`ClosingsHide`, `NextHides`).

`RemoteLines_proofs` proves, for every height, scrollback, number of changes, deltas and
tags, and for answers that may be late, under the one assumption `DeltasOnTime` (deltas
are applied in order; see the findings for what becomes of it otherwise):

- `TypeCorrect`: `Spec => []TypeOK`
- `StaleLinesAreKnown`: `Spec => []StaleIsKnown`
- `FetchesHaveAnswers`: `Spec => []FetchesAreAnswered`
- `RowsGoForward`: `Spec => RowsNeverGoBack`

`StaleIsKnown` speaks of entries that are taken for up to date; to keep it, one must
know what becomes of an answer that is still on its way. The invariant that is
inductive is `IInv == Typed /\ InBounds /\ Known /\ FetchesAreAnswered /\ NewsIsRight`:

- `InBounds`: the session's number is not ahead of the terminal's, and what a push
  under way has read of the screen was true once: its first row is not below the
  present one, since the primary screen only moves on;
- `Known`: no entry, request or message is about a row below the range the push
  under way looks at. This is why it does no harm that a push reads the dimensions
  before the number of the last change: a row it misses is one the client has
  never heard of;
- `NewsIsRight`: for every row no push will name, the last delta on its way that names
  it has its present text, and if there is none, so has the entry, and so has the
  answer the entry waits for.

`RowsGoForward` needs the order of the messages. `OrderInv == Numbered /\ InOrder` says
that the texts of a row on their way come in the order in which they were written,
that none is newer than the terminal's, and that none which may still be put in the
cache is older than the one there. There is one lemma per action for each part;
`InvariantHolds` and the theorems follow by temporal reasoning.

`MainThread_proofs` proves, for any set of tasks of any kinds, any number of spawning
threads, and a pipe of any capacity drained by any number of bytes, under the
module's own assumption on its constants:

- `TypeCorrect`: `Spec => []TypeOK`, by which one task runs at a time
- `SchedulesOnce`: `Spec => []QueuedOnce`
- `NeverSleepsThroughWork`: `Spec => []NoMissedWakeup`

The last one speaks only of the moment the main thread sleeps; to reach it, one must
follow the signal from the moment a queue is seen to be empty. The invariant that is
inductive is `IInv == TypeOK /\ QueuedOnce /\ PolledUnstored /\ SeenEmptyIsSignalled /\
DrainedHasRoom`:

- `PolledUnstored`: a task that is about to be polled has no waker stored and was not
  woken, so that storing one cannot meet a task that will be queued anyway;
- `SeenEmptyIsSignalled`: once a queue is seen to be empty, a task that joins it leaves
  a signal: a byte that `poll` will see, or a thread that has yet to write one;
- `DrainedHasRoom`: since the pipe was drained it has room, or was written to. This is
  why a write that fails because the pipe is full does no harm, and why the drain may
  come after the task was run, but not after the queues were looked at (mutant
  `CheckThenDrain`).

`QueuedJoins`, `WrittenSignals` and `NewJoins` say what the steps shared by several
actions do; then there is one lemma per kind of action (`LoopKeeps` to `KeepHereKeeps`),
`Preserved` with one step for each, and the theorems by temporal reasoning.

`MuxState_proofs` begins with one lemma for each operator on the tab list of a window, which
the proofs of `WindowOrder`, `Mux` and `ClientDomain` all use. The loop
of `prune_dead_tabs` needs induction over the positions of the list. An induction
theorem that takes a predicate is out of reach, but one about a set is not:
`Everything` says that a set of numbers with 0 and every successor is `Nat`, from the
library's `NatLessThanWellFounded` and `WFMin`, and `RemovedInSteps` and `TabsRemoved` apply
it to the set of positions up to which the loop is right. `Sound` is what each
operator keeps: no tab twice, and a position that is a tab's, or 0 if there is none.

Of `WindowOrder` it then proves, for any set of tabs and a list of any length, under that
module's own assumption on its constants (`None` is no tab):

- `WindowTypeCorrect`: `WindowSpec => []WindowTypeOK`
- `ActiveStays`: `WindowSpec => OthersGoActiveStays`
- `MovesReorder`: `WindowSpec => MoveOnlyReorders`
- `ClosingGoesBack`: `WindowSpec => GoesBack`

The inductive invariant is `window \in Windows(Tab) /\ Sound(window)`. One lemma per action
says what it does to the set of tabs, the active tab and the last one; the action
properties follow from those. A prune of several tabs that happens to remove only
the active one is the case that takes work in `ClosingGoesBack`; `OneRemoved` says that
it is the same as closing that tab.

The rest of it has one lemma for each call on the registries; `Mux_proofs` has the actions on
top of them. They prove, for any windows, tabs and panes, any of them remote, and any
number of spawns and splits in progress, under the modules' own assumptions (`None` is no
tab and no window, remote panes are panes, `ResizeFails` and the bounds are of their kind):

- `TypeCorrect`: `Spec => []TypeOK`
- `OneHome`: `Spec => []OneHomeEach`
- `NoCleanupLost`: `ResizeFails = FALSE => (Spec => []CleanupNotLost)`; with resizes that fail
  it is false (see the findings)
- `EmptyTold`: `Spec => []EmptyIsTold`

The inductive invariant is `IInv == Consistent(mux) /\ Threads /\ Settled`:

- `Consistent`: the registries have the right type and `Homes` holds. It is kept by
  every single call (`PanesRemoved` to `ListChanged`), in whatever state the call finds the
  registries: no call relies on a sweep having happened;
- `Threads`: what is in progress fits: no two splits hold the same Activity (`SplitsFit`), so
  that the end of one never takes away another's;
- `Settled == SweepAhead \/ ((ResizeFails \/ Clean(mux)) /\ Told(mux))`: a sweep is still to
  come, or every window shows tabs with panes that are alive and known (if resizes
  succeed), and the frontend was told if there are no panes. `Clean` speaks of all windows
  at once, which `CleanupNotLost` leaves open.

`IsSwept` is the heart of it: a sweep makes any consistent registries clean, whatever
they were before, unless it has queued the removal of a pane, which ends in another
sweep. It takes the steps of `prune_dead_windows` in order: after the
windows are pruned, no tab in a window is dead, so removing the dead tabs takes no
pane from a tab on show. Actions that end with `prune_dead_windows` are settled by that
alone (`PruneSettles`): either it sweeps, or an Activity holds it back and will queue
another. Actions that queue a prune or a removal are settled by the queue
(`SweepSettles`). What is left are splits without an Activity and moves that queue nothing; there the pane
that moves is alive and known since its window was clean, and stays so if the tab it
leaves is removed and a sweep runs before it arrives (`Remains`, `PaneTakenFromTab`).

`ClientDomain_proofs` proves, for any number of panes, tabs and windows on either side, of changes
by other clients and of messages in flight:

- `MirrorTypeCorrect`: `EndlessIds => (Spec => []TypeOK)`
- `EveryPaneOnce`: `EndlessIds => (Spec => []OneImageEach)`
- `OnlyClosedPanesAreKilled`: `EndlessIds => (Spec => []KillsAreWanted)`

`EndlessIds` says that the sets of local ids are infinite. The code counts them up
(`static PANE_ID` and the like) and never runs out of them; the model, which takes any id
that nothing refers to, needs to find one each time. The run has finite sets, large
enough for its bounds: a search that ran out of them would end in an error. What the
theorems need of finiteness, that only finitely many ids are in use, is part of the
invariant (`Few`) and comes from the initial state.

The inductive invariant is `ClientInv`, of five parts:

- `SoundServer`: the server lists only ids it has handed out, and a pane that is leaving is
  in no tab;
- `MirrorInv`: `Mirrors` and `Exact` say that local panes and their images match one to one and
  that a map entry leads to the pane's image or, if that pane is gone, that there is no other image.
  `Registered` is what is left of `Mux`'s `Consistent` here: until the next list comes, a pane may
  be in two tabs. `Wanted` is the reason for `KillsAreWanted`: a pane that looks dead, or
  that is about to be removed, was closed by the user or is gone at the server, so that
  whatever sweep takes it out, the kill it causes is a wanted one;
- `HistoryInv`: what the user closed, and which windows are being opened;
- `UpInv`: every request on its way fits the server (`UpFits`); a kill names a pane that was closed or
  is gone, and stays so whatever the server does, as its ids are never used again (`Moves`,
  `WantedStill`);
- `DownInv`: every message on its way to the client fits it (`DownFits`), and answers are new
  (`AnswersNew`): the pane of an answer to a spawn or a split is not known to the client, and is
  on no list that will be applied before it. This is what makes it right for `OnSpawned` and
  `OnSplit` to make a pane without asking the map. It holds because on their way to the
  client lists and answers overtake only pushes about panes (`Overtakes`), so that a list
  computed after the spawn is applied after the answer (`ListComesAfter`).

`process_pane_list` is two loops, over tabs and over the panes of each, written as recursive
functions over positions; `PanesInSteps` and `TabsMirrored` go through them with
`Everything`. What a list, an answer or a push may do to the mirror is said by one relation
for steps that add (`Grows`: new panes are alive and are images of remote panes in a given set),
which are composed (`GrowsMore`), one for map entries that go (`Forgets`), and one for
calls on the registries that take away (`GivesUp`: which panes they give up, each of which a
kill may be sent for). Each keeps `Wanted` (`GrownIsWanted`, `LessKnown`,
`LessenedIsWanted`). Then there is one lemma per action
(`OtherTabKeeps` to `RunPruneKeeps`), on three that are shared: `ServerMoved` for steps of the
server, `HeardKeeps` for messages that arrive, `LocalKeeps` for what the user does and the
queue runs.

`Tab_proofs` proves, for any panes and any number of groups and of calls, under the
modules' own assumptions (panes are finitely many, `None` is none of them, bounds are
numbers), first about the loop of `remove_pane_if`:

- `WalkTypes`: `WalkSpec => []WalkTypeOK`
- `WalkLosesNothing`: `WalkSpec => []NothingLost`
- `OneVictimGoes`: `WalkSpec => []OneVictimIsExact`
- `EachCallTakesSome`: `WalkSpec => []EachCallRemovesSome`

and then about the tab:

- `TabTypes`: `Spec => []TypeOK`
- `GroupsFocusMembers`: `Spec => []GroupFocusIsMember`
- `StacksNameLiveUnits`: `Spec => []StacksNameUnits`
- `GroupsStaySubtrees`: `SwapByIndex = FALSE => (Spec => []GroupsAreSubtrees)`: the pane
  selector's swap exchanges two leaves without a look at the groups
- `FocusStays`: `Spec => FocusSurvivesClose`
- `InputHasAPane`: `MaxVictims = 1 => (Spec => []ActiveNamesPane)`; with several victims in
  one call it is false (see the findings)

Trees are the two views of `PaneTree`, so that nothing about them needs an induction
over their structure: `RemoveLeaf`, `PairWith` and `Relabel` of a proper tree are shown to be
proper trees from what `IsTree` says (`LeafRemoved`, `PairGrows`, `Relabeled`). The loop's
invariant is `WalkInv`, of two parts: `Sane` says that the tree is a proper one with the
leaves of the first tree that were not taken out; `Exact` says two more: until the first
removal the tree is the first one, the count is the cursor's place in it and no leaf left
behind is a victim (`Untouched`); and when one pane is named, what its removal leaves is the
first tree without that leaf, and the one index recorded is the pane's place (`TookOnly`).
That a whole call ends, as `Tab` needs it, is shown on a sequence of
turns (`WalkEnds`), by induction over the set of turns up to which the invariant holds.

The inductive invariant of the tab is `TabInv`: `Fits(tab, Leaves(tab.tree))` and ids within the
bound. `Fits(s, L)` says that hidden panes, groups and stacks are made of panes of `L`: groups
are disjoint lists of two panes or more, stacks are disjoint lists of units, and every unit
in a stack is the unit of some pane of `L` (`StacksNamed`). `L` is a parameter, and not the
leaves of the tree, because the tree and the groups change one after the other: panes leave
the tree before the groups forget them (`AllForgotten`), and `dock_unit` takes panes
out and puts them back without telling the groups at all (`TakenInTurn`). Zooming, focusing,
showing and hiding keep the units as they are (`SameUnits`). There is one lemma per operator
(`PaneFocused`, `PaneForgotten`, `Adopted`, `UnitDocked`, `UnitsGrouped`, ...), which says what
the result is made of, and one per method (`SplitPaneLeads` to `StackWithLeads`).
`ActiveNamesPane` is not inductive: a zoomed tab may have any index. `InRange` is, and it is
carried along by `Leads`. `FocusSurvivesClose` rests on `OneVictimGoes`, through `OneTakenOut`:
the index `ActiveAfter` names the same pane in the tree that is left.

`GroupsAreSubtrees` needs, besides `TabInv`, that the members of each group are the leaves of a
subtree (`InPlace`; `LayoutInv` is the two together). Calls are sorted by what they do to the
tree: those that leave it alone, those that add or take out panes (a pane that goes leaves every
subtree, `Sane`; one that comes joins the groups its neighbour is in, `Gathers`), those
that rearrange a tab without groups, the exchange of two panes that are in none, and `dock_unit`:
a subtree stays one when a unit is docked that it contains, is part of, or has nothing to do
with, and any two units are such (`DockedInPlace`, `UnitsJoinInPlace`).

`TabPromise_proofs` proves, on top of the lemmas of both, that `Tab` implements `PaneGroups`. Its
theorems hold for any panes and any number of groups and of calls, under the conditions the
promise is made on, which are those of the run `tab`: panes are hidden by stacks only
(`HidePanes = FALSE`), removed one at a time (`MaxVictims = 1`) and exchanged only by
`swap_panes` (`SwapByIndex = FALSE`):

- `TabKeepsPromise`: `Spec => KeepsPromise`
- `StacksStayExclusive`: `Spec => []StacksShowOneUnit`
- `HiddenCanBeShown`: `Spec => []Promise!OnlyStacksHide`

None of the three conditions can be dropped: a pane hidden by itself may be the active one,
and stacking it shows a hidden unit; two removals in one call reveal a unit by an id that is gone
(see the findings); the selector's swap moves panes out of their groups.

The mapping is `View(s)`, which is `GroupLayout` for the tab and makes sense for the states a
method goes through, too: a unit is `Held(s, u)`, the panes `u` is the unit of. While a tab fits
(`Sound`), different units that have panes hold different ones (`HeldApart`), so that what the code says of
units (this one is stacked, that one is on show) the layout says of sets of panes (`UnitsSeen`,
`StacksSeen`). The helpers come first: what focusing may do to stacks (`FocusTurns`: nothing, or
it turns the one stack the pane is hidden in), a unit that gets another name (`StacksRelabeled`),
a pane that is forgotten (`ForgottenCloses`, by cases: one of several members, one of two, alone,
or alone in a stack, which then turns), a unit docked (`DockSeen`), two fused (`UnitsFused`) or put on
one stack (`StackOnSeen`). Then one lemma per method names the step of `PaneGroups` it is, from
`SetActivePaneShows` to `StackWithStacks`; `CallsKeepPromise` puts them together.

What the methods do at their end needs what the layout promises at their start: that
`group_units` and `stack_units` focus the active pane without turning a stack, and that the target
of the focus after a removal is on show, holds because only stacks hide and each stack has one
unit on show. So the inductive invariant is `PromiseInv`, the tab's `TabInv` with `Fit` and
`HiddenFits` of `GroupLayout`; the latter two are kept because every call is a step of
`PaneGroups` (`PromiseKept`), by the lemmas `NextFits` and `NextHides` of `PaneGroups_proofs`.
`StacksShowOneUnit` is then what `StacksFit` says of the layout, said of the tab.

## Limits

Only model-checked: `QuietMirrors`, that the mirror is right once nothing is under way. It speaks
of every way in which a mirror may be wrong for a while and of the message that will set it
right, which is a larger invariant than `ClientInv`. Out of the prover's reach is liveness
(`LoopEnds`, `Converges`, `HighRuns`, `LowRuns`, `PromisesKept`), which needs ENABLED. `NeverPanics`,
`ResultsArrive` and `SwitchIsReported` are false (see the findings).

Not modelled, by decision: sizes and resizing of splits (a module of its own is
planned), titles, workspaces and clients, notifications other than Empty, locks
below the level of a call on the main thread. `Tab` does
not model `sync_with_pane_tree`, which replaces the tree wholesale for the client
domain, nor `restore_groups`, which rebuilds groups from a saved session.
`Mux` does not model a second Activity for the same window, nor GUI drags of tabs (`mouseevent.rs:1640-1717`). `RemoteLines` does not
model failed fetches, predicted echo, or rows that leave the scrollback.

`ClientDomain` leaves out zoom, titles, workspaces and focus, a domain that is attached to
a window of its own (`primary_window_id`), reattaching after a lost connection, moves of
the only pane of a remote tab, and `Empty`: the program has windows of its own. The server
prunes at once: its domains are local and answer without waiting, so that no Activity
lasts from one of its tasks to the next once its first pane is there.
`MainThread` leaves out `SimpleExecutor` and `ScopedExecutor`, cancelled tasks, and the loops
of other platforms (that of Windows runs tasks until none is left, those of macOS and
Wayland have their own way to wake up). Saving and restoring a session, the count of
panes per workspace (`lib.rs:469`) and deadlocks by locks that are held across
callbacks (`lib.rs:703`) are not modelled.

## Plan

Done, in this order: `PaneTree`, `PaneRemoval`, `PaneGroups` with proofs, `Tab` and its
refinement, `WindowTabs`, `WindowOrder`, `Mux`, `RemoteLines` with proofs, `RemoteScreens`,
`ClientDomain` on the operators of `MuxState`, `MainThread` with proofs, the proofs of
`WindowOrder`, `Mux` and `Tab`, the proof that `Tab` implements `PaneGroups`, the proofs of
`ClientDomain`.

Next, by importance:

1. **SplitSizes**: `adjust_x_size`, `adjust_y_size`, `compute_min_size`,
   `resize_split_by` on trees with directions and sizes. Properties: the sizes of the
   two sides and the divider add up to the parent's, a resize ends, none goes below
   the minimum. Bounds: trees of up to 4 panes, sizes up to 8. Hazard: nested splits
   at their minimum.
2. **ClientDomain**, continued: reattaching, a primary window, moves between remote tabs.
3. **ClientCalls**: requests by serial number over a connection that can be lost and
   made again (`client.rs`), with the server session's unilateral messages. Liveness:
   every call is answered or fails.
4. **OutputPipeline**: `read_from_pane_pty` and `parse_buffered_data`: order, holding,
   the deadline, nothing left behind at the end.
5. **Leases** and session restore.

Theorems worth proving: `QuietMirrors`, on top of `ClientInv`.

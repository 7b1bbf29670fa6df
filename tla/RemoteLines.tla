---------------------------- MODULE RemoteLines ----------------------------
(***************************************************************************)
(* The lines of one remote pane: the terminal and the session of the mux   *)
(* server (PerPane of sessionhandler.rs), the lines the client keeps       *)
(* (RenderableInner of renderable.rs), and the messages between them.      *)
(*                                                                         *)
(* What a line says is the screen it is on and the number of the change    *)
(* that wrote it.  The terminal numbers its changes; the server sends the  *)
(* rows changed since the number it last sent, those on show with their    *)
(* text (bonus), the others by their row alone (dirty).  The client asks   *)
(* for the text of dirty rows, and keeps with a row the instant (tag) of   *)
(* the request it waits for.                                               *)
(*                                                                         *)
(* Programs stay on the primary screen here; module RemoteScreens adds the *)
(* alternate one.                                                          *)
(***************************************************************************)
EXTENDS Integers, Sequences, SequencesExt

CONSTANTS
  Height,     \* rows on show
  MaxTop,     \* bound: how far the screen scrolls
  MaxSeqno,   \* bound: the last change of the terminal
  MaxDeltas,  \* bound: deltas on their way
  Tag,        \* bound: instants of the fetches in flight
  None,       \* no instant
  Late        \* the kinds of message that may wait for the data of an image

ASSUME RemoteLinesAssumption ==
  /\ Height \in Nat \ {0} /\ MaxTop \in Nat /\ MaxSeqno \in Nat /\ MaxDeltas \in Nat
  /\ None \notin Tag
  /\ Late \subseteq {"delta", "lines"}

VARIABLES
  term,    \* the terminal: seqno, lines of both screens, alt, top, cursor
  sess,    \* the session's memory of the pane, and whether a push is due
  push,    \* compute_changes, as far as it got
  up,      \* requests to the server, in order
  down,    \* messages to the client, in order
  held,    \* messages that wait for the data of their images
  client   \* seqno, top, cursor, entries

vars == <<term, sess, push, up, down, held, client>>

Row == 0 .. MaxTop + Height - 1

View(top) == top .. top + Height - 1

(* The rows of the screen on show.  The alternate one has no scrollback.   *)
Existing == 0 .. (IF term.alt THEN 0 ELSE term.top) + Height - 1

LastChange(r) == term.lines[term.alt][r]

Text(r) == <<term.alt, LastChange(r)>>

Read(rows) == [r \in rows \cap Existing |-> Text(r)]

ChangedSince(rows, seqno) == {r \in rows \cap Existing : LastChange(r) > seqno}

(* The top of what is on show. *)
ShownTop == IF term.alt THEN 0 ELSE term.top

Idle == [phase |-> "idle", top |-> 0, cursor |-> 0, since |-> 0, dirty |-> {}]

Absent == [kind |-> "none", text |-> <<FALSE, 0>>, seqno |-> 0, tag |-> None]

Init ==
  /\ term = [seqno |-> 1, lines |-> [s \in BOOLEAN |-> [r \in Row |-> 1]],
             alt |-> FALSE, top |-> 0, cursor |-> 0]
  /\ sess = [seqno |-> 0, top |-> 0, cursor |-> 0, due |-> FALSE]
  /\ push = Idle
  /\ up = <<>> /\ down = <<>> /\ held = {}
  /\ client = [seqno |-> 0, top |-> 0, cursor |-> 0, entries |-> [r \in Row |-> Absent]]

-----------------------------------------------------------------------------
(* The terminal: one batch of output under its lock.  It writes to rows    *)
(* and may scroll; rows that scroll into view are written.                 *)

Resizes == SelectSeq(up, LAMBDA m : m.kind = "resize")

(* The bound on changes, those that are asked for included.                *)
MayChange == term.seqno + Len(Resizes) < MaxSeqno

Write(s, rows, lines) == [lines EXCEPT ![s] = [r \in Row |-> IF r \in rows THEN term.seqno + 1 ELSE @[r]]]

Output(rows, top, cursor) ==
  /\ MayChange
  /\ ~term.alt /\ rows \subseteq term.top .. top + Height - 1
  /\ View(top) \ View(term.top) \subseteq rows
  /\ cursor \in View(top)
  /\ term' = [term EXCEPT !.seqno = @ + 1, !.top = top, !.cursor = cursor,
                          !.lines = Write(FALSE, rows, @)]
  /\ sess' = [sess EXCEPT !.due = TRUE]
  /\ UNCHANGED <<push, up, down, held, client>>

-----------------------------------------------------------------------------
(* The server.  Its main thread looks at the pane in steps, each of which  *)
(* takes the lock of the terminal: output may come in between.             *)

(* A bug to catch: the client only polls until the first delta came.       *)
PollUntilKnown ==
  /\ ~sess.due /\ client.seqno = 0
  /\ sess' = [sess EXCEPT !.due = TRUE]
  /\ UNCHANGED <<term, push, up, down, held, client>>

(* A poll by the client, or a key it sends, asks for a push as well.       *)
Poll ==
  /\ ~sess.due
  /\ sess' = [sess EXCEPT !.due = TRUE]
  /\ UNCHANGED <<term, push, up, down, held, client>>

Deltas == SelectSeq(down, LAMBDA m : m.kind = "delta")

StartPush ==
  /\ push.phase = "idle" /\ sess.due /\ Len(Deltas) < MaxDeltas
  /\ push' = [push EXCEPT !.phase = "cursor", !.top = ShownTop]
  /\ sess' = [sess EXCEPT !.due = FALSE]
  /\ UNCHANGED <<term, up, down, held, client>>

LookAtCursor ==
  /\ push.phase = "cursor"
  /\ push' = [push EXCEPT !.phase = "seqno", !.cursor = term.cursor]
  /\ UNCHANGED <<term, sess, up, down, held, client>>

TakeSeqno ==
  /\ push.phase = "seqno"
  /\ push' = [push EXCEPT !.phase = "scan", !.since = sess.seqno]
  /\ sess' = [sess EXCEPT !.seqno = term.seqno]
  /\ UNCHANGED <<term, up, down, held, client>>

ScanRows ==
  /\ push.phase = "scan"
  /\ push' = [push EXCEPT !.phase = "send",
                !.dirty = ChangedSince(0 .. push.top + Height - 1, push.since)]
  /\ UNCHANGED <<term, sess, up, down, held, client>>

(* A bug to catch: rows that are sent with their text are listed as well.  *)
DeltaListingAll ==
  [kind |-> "delta", seqno |-> sess.seqno, top |-> push.top, cursor |-> push.cursor,
   bonus |-> Read((push.dirty \cap View(push.top)) \cup {push.cursor}), dirty |-> push.dirty]

Delta ==
  LET bonus == Read((push.dirty \cap View(push.top)) \cup {push.cursor})
  IN  [kind |-> "delta", seqno |-> sess.seqno, top |-> push.top, cursor |-> push.cursor,
       bonus |-> bonus, dirty |-> push.dirty \ (View(push.top) \cap Existing)]

(* A bug to catch: the number that is kept is taken after the lines were   *)
(* read.                                                                   *)
SendDeltaThenSeqno(other) ==
  /\ push.phase = "send"
  /\ push' = Idle
  /\ down' = Append(down, Delta)
  /\ sess' = [sess EXCEPT !.seqno = term.seqno, !.top = push.top, !.cursor = push.cursor]
  /\ UNCHANGED <<term, up, held, client>>

(* Anything else that is sent along may have changed: title, directory.    *)
SendDelta(other) ==
  /\ push.phase = "send"
  /\ push' = Idle
  /\ IF \/ other
        \/ push.dirty # {} \/ push.top # sess.top \/ push.cursor # sess.cursor
     THEN /\ down' = Append(down, Delta)
          /\ sess' = [sess EXCEPT !.top = push.top, !.cursor = push.cursor]
     ELSE UNCHANGED <<down, sess>>
  /\ UNCHANGED <<term, up, held, client>>

(* A bug to catch: only rows on show are looked up.                        *)
AnswerFetchOnShow ==
  /\ push.phase = "idle" /\ up # <<>> /\ Head(up).kind = "fetch"
  /\ up' = Tail(up)
  /\ down' = Append(down, [kind |-> "lines", tag |-> Head(up).tag,
                          lines |-> Read(Head(up).rows \cap View(ShownTop))])
  /\ UNCHANGED <<term, sess, push, held, client>>

(* GetLines: rows that are not on the screen any more are not in the answer. *)
AnswerFetch ==
  /\ push.phase = "idle" /\ up # <<>> /\ Head(up).kind = "fetch"
  /\ up' = Tail(up)
  /\ down' = Append(down, [kind |-> "lines", tag |-> Head(up).tag, lines |-> Read(Head(up).rows)])
  /\ UNCHANGED <<term, sess, push, held, client>>

(* Resize: every line is wrapped anew; nobody is told.                     *)
ResizeTerminal ==
  /\ push.phase = "idle" /\ up # <<>> /\ Head(up).kind = "resize"
  /\ up' = Tail(up)
  /\ term' = [term EXCEPT !.seqno = @ + 1,
                !.lines = Write(FALSE, 0 .. term.top + Height - 1, Write(TRUE, View(0), @))]
  /\ UNCHANGED <<sess, push, down, held, client>>

-----------------------------------------------------------------------------
(* The client.                                                             *)

HasText(e) == e.kind \in {"line", "both", "stale"}

LineEntry(text, seqno) == [kind |-> "line", text |-> text, seqno |-> seqno, tag |-> None]

StaleEntry(e) == IF HasText(e) THEN [e EXCEPT !.kind = "stale", !.tag = None] ELSE Absent

FetchingEntry(e, t) ==
  IF HasText(e) THEN [e EXCEPT !.kind = "both", !.tag = t]
                ELSE [Absent EXCEPT !.kind = "fetching", !.tag = t]

InFlight ==
  {q.tag : q \in {p \in Range(up) : p.kind = "fetch"}}
    \cup {m.tag : m \in {n \in held \cup Range(down) : n.kind = "lines"}}

FreshTags == Tag \ InFlight

FreshTag == CHOOSE t \in FreshTags : TRUE

FetchMsg(t, rows) == [kind |-> "fetch", tag |-> t, rows |-> rows]

LargerOf(a, b) == IF a > b THEN a ELSE b

(* A bug to catch: an answer is taken whatever happened since the request. *)
PutFetchedAnyway(m, e, r) ==
  IF r \in DOMAIN m.lines
  THEN LineEntry(m.lines[r], LargerOf(m.lines[r][2], client.seqno))
  ELSE e

(* put_line at the end of a fetch: only a row that still waits for it.     *)
PutFetched(m, e, r) ==
  IF r \in DOMAIN m.lines /\ e.tag = m.tag
  THEN LineEntry(m.lines[r], LargerOf(m.lines[r][2], client.seqno))
  ELSE e

ApplyLines(m) ==
  /\ client' = [client EXCEPT !.entries = [r \in Row |-> PutFetched(m, @[r], r)]]
  /\ UNCHANGED up

(* The rows of a delta whose text is not in it. *)
Unsent(d) ==
  (d.dirty \cup (IF d.cursor # client.cursor THEN {d.cursor, client.cursor} ELSE {}))
    \ DOMAIN d.bonus

(* The rows to fetch; those above the view are forgotten instead.          *)
ToFetch(d) == {r \in Unsent(d) : r >= d.top}

EntryAfter(d, t, r) ==
  CASE r \in DOMAIN d.bonus -> LineEntry(d.bonus[r], d.bonus[r][2])
    [] r \in Unsent(d) \ ToFetch(d) -> Absent
    [] r \in ToFetch(d) /\ t = None -> StaleEntry(client.entries[r])
    [] r \in ToFetch(d) /\ t # None -> FetchingEntry(client.entries[r], t)
    [] OTHER -> client.entries[r]

Applied(d, t) ==
  [seqno |-> d.seqno, top |-> d.top, cursor |-> d.cursor,
   entries |-> [r \in Row |-> EntryAfter(d, t, r)]]

(* apply_changes_to_surface.  No request is sent if there is nothing to    *)
(* fetch, or if there were too many requests of late.                      *)
ApplyDelta(d) ==
  \/ client' = Applied(d, None) /\ UNCHANGED up
  \/ /\ ToFetch(d) # {} /\ FreshTags # {}
     /\ client' = Applied(d, FreshTag)
     /\ up' = Append(up, FetchMsg(FreshTag, ToFetch(d)))

Apply(m) == IF m.kind = "delta" THEN ApplyDelta(m) ELSE ApplyLines(m)

(* process_unilateral and schedule_fetch_lines: hydrate_lines may wait for *)
(* the images the lines refer to.                                          *)
Receive ==
  /\ down # <<>>
  /\ down' = Tail(down)
  /\ Apply(Head(down))
  /\ UNCHANGED <<term, sess, push, held>>

Hold ==
  /\ down # <<>> /\ Head(down).kind \in Late
  /\ down' = Tail(down)
  /\ held' = held \cup {Head(down)}
  /\ UNCHANGED <<term, sess, push, up, client>>

ApplyHeld(m) ==
  /\ m \in held
  /\ held' = held \ {m}
  /\ Apply(m)
  /\ UNCHANGED <<term, sess, push, down>>

(* A line newer than what the server said last. *)
Unconfirmed(r) == client.entries[r].kind = "line" /\ client.entries[r].seqno > client.seqno

Wanted(r) == client.entries[r].kind \in {"stale", "none"}

ToPaint(top) == {r \in View(top) : Unconfirmed(r) \/ Wanted(r)}

PaintedEntry(top, t, r) ==
  CASE r \in ToPaint(top) /\ Wanted(r) -> FetchingEntry(client.entries[r], t)
    [] r \in ToPaint(top) /\ ~Wanted(r) -> StaleEntry(client.entries[r])
    [] OTHER -> client.entries[r]

(* get_lines: the frontend paints some rows.                               *)
Paint(top) ==
  /\ ToPaint(top) # {} /\ FreshTags # {}
  /\ client' = [client EXCEPT !.entries = [r \in Row |-> PaintedEntry(top, FreshTag, r)]]
  /\ up' = Append(up, FetchMsg(FreshTag, ToPaint(top)))
  /\ UNCHANGED <<term, sess, push, down, held>>

(* make_all_stale on a resize (or zoom) of the pane.                       *)
Resize ==
  /\ MayChange
  /\ client' = [client EXCEPT !.entries = [r \in Row |->
       IF @[r].kind = "line" THEN StaleEntry(@[r]) ELSE @[r]]]
  /\ up' = Append(up, [kind |-> "resize"])
  /\ UNCHANGED <<term, sess, push, down, held>>

-----------------------------------------------------------------------------
Terminal ==
  \E top \in term.top .. MaxTop, cursor \in Row :
    \E rows \in SUBSET (term.top .. top + Height - 1) : Output(rows, top, cursor)

Push == StartPush \/ LookAtCursor \/ TakeSeqno \/ ScanRows \/ \E other \in BOOLEAN : SendDelta(other)

Next ==
  \/ Terminal
  \/ Poll \/ Push \/ AnswerFetch \/ ResizeTerminal
  \/ Receive \/ Hold \/ \E m \in held : ApplyHeld(m)
  \/ \E top \in 0 .. client.top : Paint(top)
  \/ Resize

Spec == Init /\ [][Next]_vars

(* The main thread runs what is queued for it in order, so an answer is    *)
(* not put off for ever by pushes; every message applied asks for a paint, *)
(* and a paint polls the server when it has not done so for a while.       *)
Fairness ==
  /\ WF_vars(Push) /\ SF_vars(AnswerFetch \/ ResizeTerminal)
  /\ WF_vars(Receive \/ Hold)
  /\ \A t \in Tag : WF_vars(\E m \in held : m.kind = "lines" /\ m.tag = t /\ ApplyHeld(m))
  /\ WF_vars(Paint(client.top))
  /\ WF_vars(Poll)

FairSpec == Spec /\ Fairness

-----------------------------------------------------------------------------
IsLines(f) == DOMAIN f \subseteq Row /\ \A r \in DOMAIN f : f[r] \in BOOLEAN \X Nat

IsMessage(m) ==
  \/ /\ m.kind = "delta"
     /\ m.seqno \in Nat /\ m.top \in 0 .. MaxTop /\ m.cursor \in Row
     /\ IsLines(m.bonus) /\ m.dirty \subseteq Row /\ m.dirty \cap DOMAIN m.bonus = {}
  \/ m.kind = "lines" /\ m.tag \in Tag /\ IsLines(m.lines)

Request == [kind : {"resize"}] \cup [kind : {"fetch"}, tag : Tag, rows : SUBSET Row]

Entry ==
  [kind : {"none", "line", "fetching", "both", "stale"},
   text : BOOLEAN \X Nat, seqno : Nat, tag : Tag \cup {None}]

TerminalOK ==
  term \in [seqno : Nat, lines : [BOOLEAN -> [Row -> Nat]], alt : BOOLEAN, top : 0 .. MaxTop, cursor : Row]

SessionOK ==
  /\ sess \in [seqno : Nat, top : 0 .. MaxTop, cursor : Row, due : BOOLEAN]
  /\ push \in [phase : {"idle", "cursor", "seqno", "scan", "send"}, top : 0 .. MaxTop, cursor : Row,
               since : Nat, dirty : SUBSET Row]

MessagesOK ==
  /\ up \in Seq(Request)
  /\ \A m \in held \cup Range(down) : IsMessage(m)
  /\ \A m \in held : m.kind \in Late

ClientOK ==
  /\ client \in [seqno : Nat, top : 0 .. MaxTop, cursor : Row, entries : [Row -> Entry]]
  /\ \A r \in Row : client.entries[r].tag # None <=> client.entries[r].kind \in {"fetching", "both"}

(* Messages, entries and the push have the shapes the code gives them: an  *)
(* entry has a tag exactly while it waits for lines, and a delta does not  *)
(* list the rows it has the text of.                                       *)
TypeOK == TerminalOK /\ SessionOK /\ MessagesOK /\ ClientOK

(* The next push, or the one at work, will report row r.                   *)
Pending(r) ==
  \/ LastChange(r) > sess.seqno
  \/ push.phase = "scan" /\ r \in ChangedSince(0 .. push.top + Height - 1, push.since)
  \/ push.phase = "send" /\ r \in push.dirty

Names(m, r) == m.kind = "delta" /\ r \in m.dirty \cup DOMAIN m.bonus

(* renderable.rs:32: an entry of kind Line is "Up to date wrt. server".    *)
(* Where it is not, the change is on its way: the session has yet to look  *)
(* at it, or a delta that names the row has yet to be applied.             *)
StaleIsKnown ==
  \A r \in Row \cap Existing :
    client.entries[r].kind = "line" /\ client.entries[r].text # Text(r)
      => Pending(r) \/ \E m \in held \cup Range(down) : Names(m, r)

(* The text of row r, asked for at instant t, is asked for or on its way.  *)
Coming(t, r) ==
  \/ \E q \in Range(up) : q.kind = "fetch" /\ q.tag = t /\ r \in q.rows
  \/ \E m \in held \cup Range(down) : m.kind = "lines" /\ m.tag = t /\ r \in DOMAIN m.lines

(* A row that waits for its text has it coming: the entry would otherwise  *)
(* wait for ever, since nobody asks for a row that is being fetched.       *)
FetchesAreAnswered ==
  \A r \in Row : client.entries[r].tag # None => Coming(client.entries[r].tag, r)

(* renderable.rs:459: "If they are now longer tagged that way, then        *)
(* someone came along after us and changed the state": no row goes back    *)
(* to an older text, however late the answer to a fetch is applied.        *)
(* (Deltas are applied in the order they were sent, Late = {"lines"}.)     *)
RowsNeverGoBack ==
  [][\A r \in Row : HasText(client.entries[r]) /\ HasText(client'.entries[r])
       => client'.entries[r].text[2] >= client.entries[r].text[2]]_vars

(* Once the terminal is quiet, the client shows what is on its screen.     *)
Converges ==
  <>[](\A r \in View(term.top) : client.entries[r].kind = "line" /\ client.entries[r].text = Text(r))
=============================================================================

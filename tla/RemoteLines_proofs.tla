------------------------- MODULE RemoteLines_proofs -------------------------
(***************************************************************************)
(* What the client keeps of a remote pane is right or known not to be, for *)
(* every size of screen, any number of changes and of messages on their    *)
(* way.  One thing is assumed: deltas are applied in the order in which    *)
(* they were sent.  Without it the claims are false (see the README).      *)
(***************************************************************************)
EXTENDS RemoteLines, SequenceTheorems, TLAPS

DeltasOnTime == "delta" \notin Late

-----------------------------------------------------------------------------
(* The inductive invariant.                                                *)

Lines == UNION {[rows -> BOOLEAN \X Nat] : rows \in SUBSET Row}

DeltaMessage ==
  [kind : {"delta"}, seqno : Nat, top : 0 .. MaxTop, cursor : Row, bonus : Lines, dirty : SUBSET Row]

AnswerMessage == [kind : {"lines"}, tag : Tag, lines : Lines]

Message == {m \in DeltaMessage : m.dirty \cap DOMAIN m.bonus = {}} \cup AnswerMessage

(* Stronger than TypeOK in that the messages form a sequence.              *)
Typed == TypeOK /\ down \in Seq(Message) /\ \A m \in held : m \in AnswerMessage

(* The parts of a push under way were true of the terminal once, and the   *)
(* primary screen only ever moves on.                                      *)
InBounds ==
  /\ ~term.alt
  /\ sess.seqno <= term.seqno
  /\ term.cursor \in View(term.top)
  /\ push.phase # "idle" => push.top <= term.top
  /\ push.phase \in {"seqno", "scan", "send"} =>
       push.cursor >= push.top /\ push.cursor <= term.top + Height - 1
  /\ push.phase = "send" => \A r \in push.dirty : r <= push.top + Height - 1

(* The last row a push under way may name.                                 *)
Bottom == (IF push.phase = "idle" THEN term.top ELSE push.top) + Height - 1

KnownMessage(m) ==
  IF m.kind = "delta"
  THEN m.top + Height - 1 <= Bottom /\ m.cursor <= Bottom
       /\ \A r \in m.dirty \cup DOMAIN m.bonus : r <= Bottom
  ELSE \A r \in DOMAIN m.lines : r <= Bottom

(* No message and no entry is about a row below it: a push never misses a  *)
(* row that the client has, although it looks at the size of the screen    *)
(* before it looks at the number of the last change.                       *)
KnownClient ==
  /\ client.cursor <= Bottom /\ client.top + Height - 1 <= Bottom
  /\ \A r \in Row : client.entries[r].kind # "none" => r <= Bottom

KnownRequests == \A q \in Range(up) : q.kind = "fetch" => \A r \in q.rows : r <= Bottom

KnownMessages == \A m \in held \cup Range(down) : KnownMessage(m)

Known == KnownClient /\ KnownRequests /\ KnownMessages

NotNamedAfter(i, r) == \A j \in 1 .. Len(down) : j > i => ~Names(down[j], r)

EntryIsRight(r) == client.entries[r].kind = "line" => client.entries[r].text = Text(r)

AnswerIsRight(m, r) ==
  m.kind = "lines" /\ m.tag = client.entries[r].tag /\ r \in DOMAIN m.lines => m.lines[r] = Text(r)

LastDeltaIsRight(r) ==
  \A i \in 1 .. Len(down) :
    Names(down[i], r) /\ NotNamedAfter(i, r) /\ r \in DOMAIN down[i].bonus => down[i].bonus[r] = Text(r)

(* Unless a later push will report row r, the last delta that names it has *)
(* the text it has now; if there is none, so does the entry, and so does   *)
(* the answer the entry waits for.                                         *)
NewsOf(r) ==
  /\ LastDeltaIsRight(r)
  /\ NotNamedAfter(0, r) =>
       EntryIsRight(r) /\ \A m \in held \cup Range(down) : AnswerIsRight(m, r)

NewsIsRight == \A r \in Row : ~Pending(r) => NewsOf(r)

-----------------------------------------------------------------------------
(* Facts about the operators of the model.                                 *)

(* A row of a screen is a row, and what is read of a screen are lines.     *)
LEMMA ExistingRows ==
  ASSUME TerminalOK
  PROVE  /\ Existing \subseteq Row
         /\ \A r \in Row : LastChange(r) \in Nat /\ Text(r) \in BOOLEAN \X Nat
<1>1. \A s \in BOOLEAN, r \in Row : term.lines[s][r] \in Nat
  BY DEF TerminalOK
<1>2. term.alt \in BOOLEAN /\ term.top \in 0 .. MaxTop
  BY DEF TerminalOK
<1>3. Existing \subseteq Row
  BY <1>2, RemoteLinesAssumption DEF Existing, Row
<1>4. ASSUME NEW r \in Row
      PROVE  LastChange(r) \in Nat /\ Text(r) \in BOOLEAN \X Nat
  <2>1. LastChange(r) \in Nat
    BY <1>1, <1>2 DEF LastChange
  <2>. QED
    BY <2>1, <1>2 DEF Text
<1>. QED
  BY <1>3, <1>4

LEMMA ReadLines ==
  ASSUME TerminalOK, NEW rows
  PROVE  /\ Read(rows) \in Lines
         /\ DOMAIN Read(rows) = rows \cap Existing
         /\ \A r \in rows \cap Existing : Read(rows)[r] = Text(r)
<1>1. Read(rows) \in [rows \cap Existing -> BOOLEAN \X Nat]
  BY ExistingRows DEF Read
<1>2. rows \cap Existing \in SUBSET Row
  BY ExistingRows
<1>. QED
  BY <1>1, <1>2 DEF Read, Lines

(* What kind of message a message is.                                      *)
LEMMA MessageKinds ==
  ASSUME NEW m \in Message
  PROVE  /\ m.kind \in {"delta", "lines"}
         /\ m.kind = "delta" => m \in DeltaMessage /\ m.dirty \cap DOMAIN m.bonus = {}
         /\ m.kind = "lines" => m \in AnswerMessage
BY DEF Message, DeltaMessage, AnswerMessage

(* Lines are a function on some rows.                                      *)
LEMMA LinesAreFunctions ==
  ASSUME NEW f \in Lines
  PROVE  DOMAIN f \subseteq Row /\ \A r \in DOMAIN f : f[r] \in BOOLEAN \X Nat
BY DEF Lines

LEMMA MessagesAreMessages ==
  ASSUME NEW m \in Message
  PROVE  IsMessage(m)
<1>1. CASE m.kind = "delta"
  <2>1. m \in DeltaMessage /\ m.dirty \cap DOMAIN m.bonus = {}
    BY <1>1, MessageKinds
  <2>2. m.bonus \in Lines
    BY <2>1 DEF DeltaMessage
  <2>3. IsLines(m.bonus)
    BY <2>2, LinesAreFunctions DEF IsLines
  <2>. QED
    BY <1>1, <2>1, <2>3 DEF IsMessage, DeltaMessage
<1>2. CASE m.kind = "lines"
  <2>1. m \in AnswerMessage
    BY <1>2, MessageKinds
  <2>2. m.lines \in Lines
    BY <2>1 DEF AnswerMessage
  <2>3. IsLines(m.lines)
    BY <2>2, LinesAreFunctions DEF IsLines
  <2>. QED
    BY <1>2, <2>1, <2>3 DEF IsMessage, AnswerMessage
<1>. QED
  BY <1>1, <1>2, MessageKinds

LEMMA RangeMembers ==
  ASSUME NEW S, NEW s \in Seq(S)
  PROVE  Range(s) = {s[i] : i \in 1 .. Len(s)} /\ Range(s) \subseteq S
BY DEF Range


WellTagged(e) == e \in Entry /\ (e.tag # None <=> e.kind \in {"fetching", "both"})

LEMMA NoneIsNoTag == None \notin Tag
BY RemoteLinesAssumption

LEMMA EntryShapes ==
  ASSUME NEW e, WellTagged(e), NEW t \in Tag, NEW text \in BOOLEAN \X Nat, NEW n \in Nat
  PROVE  /\ WellTagged(Absent) /\ WellTagged(LineEntry(text, n))
         /\ WellTagged(StaleEntry(e)) /\ WellTagged(FetchingEntry(e, t))
<1>1. WellTagged(Absent) /\ WellTagged(LineEntry(text, n))
  BY DEF WellTagged, Absent, LineEntry, Entry
<1>2. WellTagged(StaleEntry(e))
  BY <1>1 DEF WellTagged, StaleEntry, Entry, HasText
<1>3. WellTagged(FetchingEntry(e, t))
  BY NoneIsNoTag DEF WellTagged, FetchingEntry, Entry, HasText, Absent
<1>. QED
  BY <1>1, <1>2, <1>3

LEMMA EntriesAreTagged ==
  ASSUME ClientOK, NEW r \in Row
  PROVE  WellTagged(client.entries[r])
BY DEF ClientOK, WellTagged

LEMMA TextSeqno ==
  ASSUME NEW text \in BOOLEAN \X Nat
  PROVE  text[2] \in Nat
OBVIOUS

(* A tag is found as long as there is one.                                 *)
LEMMA FreshTagIsTag ==
  ASSUME FreshTags # {}
  PROVE  FreshTag \in Tag /\ FreshTag \notin InFlight
<1>1. FreshTag \in FreshTags
  BY DEF FreshTag
<1>. QED
  BY <1>1 DEF FreshTags

(* Whatever a message does to an entry, it stays one.                      *)
LEMMA PutFetchedTyped ==
  ASSUME ClientOK, NEW m \in AnswerMessage, NEW r \in Row
  PROVE  WellTagged(PutFetched(m, client.entries[r], r))
<1>. DEFINE e == client.entries[r]
<1>1. WellTagged(e)
  BY EntriesAreTagged
<1>2. CASE r \in DOMAIN m.lines /\ e.tag = m.tag
  <2>1. m.lines \in Lines
    BY DEF AnswerMessage
  <2>2. m.lines[r] \in BOOLEAN \X Nat
    BY <2>1, <1>2, LinesAreFunctions
  <2>3. LargerOf(m.lines[r][2], client.seqno) \in Nat
    BY <2>2, TextSeqno DEF LargerOf, ClientOK
  <2>4. WellTagged(LineEntry(m.lines[r], LargerOf(m.lines[r][2], client.seqno)))
    BY <2>2, <2>3 DEF WellTagged, LineEntry, Entry
  <2>. QED
    BY <1>2, <2>4 DEF PutFetched
<1>3. CASE ~(r \in DOMAIN m.lines /\ e.tag = m.tag)
  BY <1>1, <1>3 DEF PutFetched
<1>. QED
  BY <1>2, <1>3

LEMMA EntryAfterTyped ==
  ASSUME ClientOK, NEW d \in DeltaMessage, NEW t \in Tag \cup {None}, NEW r \in Row
  PROVE  WellTagged(EntryAfter(d, t, r))
<1>1. WellTagged(client.entries[r])
  BY EntriesAreTagged
<1>2. WellTagged(Absent)
  BY DEF WellTagged, Absent, Entry
<1>3. CASE r \in DOMAIN d.bonus
  <2>1. d.bonus \in Lines
    BY DEF DeltaMessage
  <2>2. d.bonus[r] \in BOOLEAN \X Nat
    BY <2>1, <1>3, LinesAreFunctions
  <2>3. WellTagged(LineEntry(d.bonus[r], d.bonus[r][2]))
    BY <2>2, TextSeqno DEF WellTagged, LineEntry, Entry
  <2>. QED
    BY <1>3, <2>3 DEF EntryAfter, Unsent, ToFetch
<1>4. CASE r \notin DOMAIN d.bonus
  <2>1. WellTagged(StaleEntry(client.entries[r]))
    BY <1>1, <1>2 DEF WellTagged, StaleEntry, Entry, HasText
  <2>2. t # None => WellTagged(FetchingEntry(client.entries[r], t))
    BY <1>1, NoneIsNoTag DEF WellTagged, FetchingEntry, Entry, HasText, Absent
  <2>. QED
    BY <1>1, <1>2, <1>4, <2>1, <2>2 DEF EntryAfter
<1>. QED
  BY <1>3, <1>4

LEMMA PaintedEntryTyped ==
  ASSUME ClientOK, NEW top, NEW t \in Tag, NEW r \in Row
  PROVE  WellTagged(PaintedEntry(top, t, r))
<1>1. WellTagged(client.entries[r])
  BY EntriesAreTagged
<1>2. WellTagged(StaleEntry(client.entries[r])) /\ WellTagged(FetchingEntry(client.entries[r], t))
  BY <1>1, NoneIsNoTag DEF WellTagged, StaleEntry, FetchingEntry, Entry, HasText, Absent
<1>. QED
  BY <1>1, <1>2 DEF PaintedEntry

-----------------------------------------------------------------------------
(* Types and bounds.                                                       *)

LEMMA TypedInit ==
  ASSUME Init
  PROVE  Typed /\ InBounds
<1>1. 0 \in Row /\ 0 \in 0 .. MaxTop
  BY RemoteLinesAssumption DEF Row
<1>2. WellTagged(Absent)
  BY DEF WellTagged, Absent, Entry
<1>3. down \in Seq(Message) /\ up \in Seq(Request) /\ held = {} /\ Range(down) = {}
  BY DEF Init, Range
<1>4. client \in [seqno : Nat, top : 0 .. MaxTop, cursor : Row, entries : [Row -> Entry]]
  BY <1>1, <1>2 DEF Init, WellTagged
<1>5. \A r \in Row : client.entries[r].tag # None <=> client.entries[r].kind \in {"fetching", "both"}
  BY <1>2 DEF Init, WellTagged
<1>6. TypeOK
  <2>1. TerminalOK
    BY <1>1 DEF Init, TerminalOK
  <2>2. SessionOK
    BY <1>1 DEF Init, SessionOK, Idle
  <2>. QED
    BY <1>3, <1>4, <1>5, <2>1, <2>2 DEF TypeOK, MessagesOK, ClientOK
<1>7. InBounds
  BY RemoteLinesAssumption DEF Init, InBounds, Idle, View
<1>. QED
  BY <1>3, <1>6, <1>7 DEF Typed

(* Nobody writes but to lines.                                             *)
LEMMA WriteTyped ==
  ASSUME TerminalOK, NEW s \in BOOLEAN, NEW rows, NEW lines \in [BOOLEAN -> [Row -> Nat]]
  PROVE  /\ Write(s, rows, lines) \in [BOOLEAN -> [Row -> Nat]]
         /\ \A r \in Row : Write(s, rows, lines)[s][r] =
                             IF r \in rows THEN term.seqno + 1 ELSE lines[s][r]
         /\ \A z \in BOOLEAN : z # s => Write(s, rows, lines)[z] = lines[z]
<1>1. term.seqno + 1 \in Nat
  BY DEF TerminalOK
<1>. QED
  BY <1>1 DEF Write

(* The messages that stay are messages.                                    *)
LEMMA TypedMessages ==
  ASSUME down \in Seq(Message), \A m \in held : m \in AnswerMessage
  PROVE  \A m \in held \cup Range(down) : m \in Message /\ IsMessage(m)
<1>1. \A m \in held : m \in Message
  BY DEF Message
<1>2. Range(down) \subseteq Message
  BY RangeMembers
<1>. QED
  BY <1>1, <1>2, MessagesAreMessages

LEMMA DeltaTyped ==
  ASSUME Typed, InBounds, push.phase = "send"
  PROVE  Delta \in Message
<1>1. push.top \in 0 .. MaxTop /\ push.cursor \in Row /\ push.dirty \subseteq Row /\ sess.seqno \in Nat
  BY DEF Typed, TypeOK, SessionOK
<1>. DEFINE rows == (push.dirty \cap View(push.top)) \cup {push.cursor}
<1>2. Read(rows) \in Lines /\ DOMAIN Read(rows) = rows \cap Existing
  BY ReadLines DEF Typed, TypeOK
<1>3. (push.dirty \ (View(push.top) \cap Existing)) \cap (rows \cap Existing) = {}
  <2>1. push.cursor \in push.dirty => push.cursor \in View(push.top)
    BY <1>1, RemoteLinesAssumption DEF InBounds, View, Row
  <2>. QED
    BY <2>1
<1>4. Delta \in DeltaMessage
  BY <1>1, <1>2 DEF Delta, DeltaMessage
<1>5. Delta.dirty \cap DOMAIN Delta.bonus = {}
  BY <1>2, <1>3 DEF Delta
<1>. QED
  BY <1>4, <1>5 DEF Message

(* A push that has ended has the type of a push.                           *)
LEMMA IdleTyped ==
  Idle \in [phase : {"idle", "cursor", "seqno", "scan", "send"}, top : 0 .. MaxTop, cursor : Row,
            since : Nat, dirty : SUBSET Row]
<1>1. 0 \in Row /\ 0 \in 0 .. MaxTop
  BY RemoteLinesAssumption DEF Row
<1>. QED
  BY <1>1 DEF Idle

(* What each kind of step leaves to be shown.                              *)
LEMMA TypedTerminalStep ==
  ASSUME Typed, InBounds, Terminal \/ ResizeTerminal
  PROVE  Typed' /\ InBounds'
<1>1. TerminalOK /\ SessionOK /\ MessagesOK /\ ClientOK /\ ~term.alt
  BY DEF Typed, TypeOK, InBounds
<1>2. /\ term.seqno \in Nat /\ term.lines \in [BOOLEAN -> [Row -> Nat]]
      /\ term.top \in 0 .. MaxTop /\ term.cursor \in Row /\ sess.seqno \in Nat
      /\ push.top \in 0 .. MaxTop /\ push.cursor \in Row
  BY <1>1 DEF TerminalOK, SessionOK
<1>3. CASE \E top \in term.top .. MaxTop, cursor \in Row :
             \E rows \in SUBSET (term.top .. top + Height - 1) : Output(rows, top, cursor)
  <2>1. PICK top \in term.top .. MaxTop, cursor \in Row :
               \E rows \in SUBSET (term.top .. top + Height - 1) : Output(rows, top, cursor)
    BY <1>3
  <2>2. PICK rows \in SUBSET (term.top .. top + Height - 1) : Output(rows, top, cursor)
    BY <2>1
  <2>3. Write(FALSE, rows, term.lines) \in [BOOLEAN -> [Row -> Nat]]
    BY <1>1, <1>2, WriteTyped
  <2>4. TerminalOK'
    <3>1. term.seqno + 1 \in Nat /\ top \in 0 .. MaxTop
      BY <1>2, RemoteLinesAssumption
    <3>2. term' = [term EXCEPT !.seqno = @ + 1, !.top = top, !.cursor = cursor,
                               !.lines = Write(FALSE, rows, @)]
      BY <2>2 DEF Output
    <3>. QED
      BY <1>1, <2>3, <3>1, <3>2 DEF TerminalOK
  <2>5. SessionOK' /\ MessagesOK' /\ ClientOK'
    BY <1>1, <2>2 DEF Output, SessionOK, MessagesOK, ClientOK
  <2>6. InBounds'
    <3>1. /\ term'.seqno = term.seqno + 1 /\ term'.alt = term.alt /\ term'.top = top
          /\ term'.cursor = cursor /\ cursor \in View(top)
          /\ sess'.seqno = sess.seqno /\ UNCHANGED push
      BY <1>1, <2>2 DEF Output, TerminalOK, SessionOK
    <3>2. top >= term.top /\ term.top \in Int /\ top \in Int
      BY <1>2, <2>1, RemoteLinesAssumption
    <3>3. ~term'.alt /\ sess'.seqno <= term'.seqno
      BY <1>2, <3>1 DEF InBounds
    <3>4. term'.cursor \in View(term'.top)
      BY <3>1
    <3>5. push.phase # "idle" => push.top <= top
      BY <1>2, <3>2 DEF InBounds
    <3>6. push.phase \in {"seqno", "scan", "send"} => push.cursor <= top + Height - 1
      BY <1>2, <3>2, RemoteLinesAssumption DEF InBounds, Row
    <3>. QED
      BY <3>1, <3>3, <3>4, <3>5, <3>6 DEF InBounds, View
  <2>. QED
    BY <2>2, <2>4, <2>5, <2>6 DEF Output, Typed, TypeOK
<1>6. CASE ResizeTerminal
  <2>. DEFINE lines == Write(FALSE, 0 .. term.top + Height - 1, Write(TRUE, View(0), term.lines))
  <2>1. Write(TRUE, View(0), term.lines) \in [BOOLEAN -> [Row -> Nat]]
    BY <1>1, <1>2, WriteTyped
  <2>2. lines \in [BOOLEAN -> [Row -> Nat]]
    BY <1>1, <2>1, WriteTyped
  <2>3. term' = [term EXCEPT !.seqno = @ + 1, !.lines = lines]
    BY <1>6 DEF ResizeTerminal
  <2>. HIDE DEF lines
  <2>4. /\ term'.seqno = term.seqno + 1 /\ term'.alt = term.alt
        /\ term'.top = term.top /\ term'.cursor = term.cursor
    BY <1>1, <2>3 DEF TerminalOK
  <2>5. TerminalOK'
    <3>1. term.seqno + 1 \in Nat
      BY <1>2
    <3>. QED
      BY <1>1, <2>2, <2>3, <3>1 DEF TerminalOK
  <2>6. SessionOK' /\ ClientOK' /\ UNCHANGED <<sess, push, down, held>>
    BY <1>1, <1>6 DEF ResizeTerminal, SessionOK, ClientOK
  <2>7. up' \in Seq(Request)
    BY <1>1, <1>6, HeadTailProperties DEF ResizeTerminal, MessagesOK
  <2>8. MessagesOK'
    BY <1>1, <2>6, <2>7 DEF MessagesOK
  <2>9. InBounds'
    BY <1>2, <2>4, <2>6 DEF InBounds, View
  <2>. QED
    BY <2>5, <2>6, <2>8, <2>9 DEF Typed, TypeOK
<1>. QED
  BY <1>3, <1>6 DEF Terminal

LEMMA TypedPushStep ==
  ASSUME DeltasOnTime, Typed, InBounds, Poll \/ Push
  PROVE  Typed' /\ InBounds'
<1>1. TerminalOK /\ SessionOK /\ MessagesOK /\ ClientOK /\ ~term.alt
  BY DEF Typed, TypeOK, InBounds
<1>2. /\ term.seqno \in Nat /\ term.top \in 0 .. MaxTop /\ term.cursor \in Row
      /\ sess.seqno \in Nat /\ push.top \in 0 .. MaxTop /\ push.cursor \in Row
      /\ push.dirty \subseteq Row
  BY <1>1 DEF TerminalOK, SessionOK
<1>3. TerminalOK' /\ ClientOK' /\ UNCHANGED <<term, up, held, client>>
  BY <1>1 DEF Poll, Push, StartPush, LookAtCursor, TakeSeqno, ScanRows, SendDelta, TerminalOK, ClientOK
<1>4. CASE UNCHANGED down
  <2>1. MessagesOK' /\ down' \in Seq(Message) /\ \A m \in held' : m \in AnswerMessage
    BY <1>1, <1>3, <1>4 DEF MessagesOK, Typed
  <2>2. SessionOK' /\ InBounds'
    <3>1. CASE Poll
      BY <1>1, <1>3, <3>1 DEF Poll, SessionOK, InBounds
    <3>2. CASE StartPush
      <4>1. push' = [push EXCEPT !.phase = "cursor", !.top = term.top] /\ sess' = [sess EXCEPT !.due = FALSE]
        BY <1>1, <3>2 DEF StartPush, ShownTop
      <4>2. SessionOK'
        BY <1>1, <1>2, <4>1 DEF SessionOK
      <4>3. /\ push'.phase = "cursor" /\ push'.top = term.top /\ sess'.seqno = sess.seqno
        BY <1>1, <4>1 DEF SessionOK
      <4>4. InBounds'
        BY <1>2, <1>3, <4>3 DEF InBounds
      <4>. QED
        BY <4>2, <4>4
    <3>3. CASE LookAtCursor
      <4>1. /\ push.phase = "cursor" /\ push'.phase = "seqno" /\ push'.top = push.top
            /\ push'.cursor = term.cursor /\ UNCHANGED sess
        BY <1>1, <3>3 DEF LookAtCursor, SessionOK
      <4>2. SessionOK'
        BY <1>1, <1>2, <3>3 DEF LookAtCursor, SessionOK
      <4>3. InBounds'
        BY <1>2, <1>3, <4>1, RemoteLinesAssumption DEF InBounds, View
      <4>. QED
        BY <4>2, <4>3
    <3>4. CASE TakeSeqno
      <4>1. /\ push.phase = "seqno" /\ push'.phase = "scan" /\ push'.top = push.top
            /\ push'.cursor = push.cursor /\ sess'.seqno = term.seqno
        BY <1>1, <3>4 DEF TakeSeqno, SessionOK
      <4>2. SessionOK'
        BY <1>1, <1>2, <3>4 DEF TakeSeqno, SessionOK
      <4>3. InBounds'
        BY <1>2, <1>3, <4>1 DEF InBounds
      <4>. QED
        BY <4>2, <4>3
    <3>5. CASE ScanRows
      <4>. DEFINE found == ChangedSince(0 .. push.top + Height - 1, push.since)
      <4>1. found \subseteq Row /\ \A r \in found : r <= push.top + Height - 1
        BY <1>1, <1>2, ExistingRows DEF ChangedSince
      <4>. HIDE DEF found
      <4>2. push' = [push EXCEPT !.phase = "send", !.dirty = found] /\ UNCHANGED sess /\ push.phase = "scan"
        BY <3>5 DEF ScanRows, found
      <4>. QED
        BY <1>1, <1>2, <1>3, <4>1, <4>2 DEF SessionOK, InBounds
    <3>6. CASE \E other \in BOOLEAN : SendDelta(other)
      <4>1. push' = Idle /\ (UNCHANGED sess \/ sess' = [sess EXCEPT !.top = push.top, !.cursor = push.cursor])
        BY <3>6 DEF SendDelta
      <4>2. SessionOK'
        BY <1>1, <1>2, <4>1, IdleTyped DEF SessionOK
      <4>3. push'.phase = "idle" /\ sess'.seqno = sess.seqno
        BY <1>1, <4>1 DEF Idle, SessionOK
      <4>4. InBounds'
        BY <1>2, <1>3, <4>3 DEF InBounds
      <4>. QED
        BY <4>2, <4>4
    <3>. QED
      BY <3>1, <3>2, <3>3, <3>4, <3>5, <3>6 DEF Push
  <2>. QED
    BY <1>3, <2>1, <2>2 DEF Typed, TypeOK
<1>5. CASE ~UNCHANGED down
  <2>1. PICK other \in BOOLEAN : SendDelta(other)
    BY <1>5 DEF Poll, Push, StartPush, LookAtCursor, TakeSeqno, ScanRows
  <2>2. /\ push.phase = "send" /\ push' = Idle /\ down' = Append(down, Delta)
        /\ sess' = [sess EXCEPT !.top = push.top, !.cursor = push.cursor]
    BY <1>5, <2>1 DEF SendDelta
  <2>3. SessionOK' /\ InBounds'
    <3>1. SessionOK'
      BY <1>1, <1>2, <2>2, IdleTyped DEF SessionOK
    <3>2. push'.phase = "idle" /\ sess'.seqno = sess.seqno
      BY <1>1, <2>2 DEF Idle, SessionOK
    <3>3. InBounds'
      BY <1>2, <1>3, <3>2 DEF InBounds
    <3>. QED
      BY <3>1, <3>3
  <2>4. down' \in Seq(Message)
    BY <2>2, DeltaTyped, AppendProperties DEF Typed
  <2>5. \A m \in held' : m \in AnswerMessage
    BY <1>3 DEF Typed
  <2>6. \A m \in held' \cup Range(down') : IsMessage(m)
    BY <2>4, <2>5, TypedMessages, RangeMembers, MessagesAreMessages DEF Message
  <2>7. MessagesOK'
    BY <1>1, <1>3, <2>6 DEF MessagesOK
  <2>. QED
    BY <1>3, <2>3, <2>4, <2>5, <2>7 DEF Typed, TypeOK
<1>. QED
  BY <1>4, <1>5

(* A request for a set of rows is a request. *)
LEMMA FetchIsRequest ==
  ASSUME NEW t \in Tag, NEW rows \in SUBSET Row
  PROVE  FetchMsg(t, rows) \in Request
BY DEF FetchMsg, Request

(* The rows a delta or a paint asks for are rows.                          *)
LEMMA AskedRows ==
  ASSUME ClientOK
  PROVE  /\ \A d \in DeltaMessage : ToFetch(d) \subseteq Row
         /\ \A top \in 0 .. MaxTop : ToPaint(top) \subseteq Row
<1>1. client.cursor \in Row
  BY DEF ClientOK
<1>2. ASSUME NEW d \in DeltaMessage
      PROVE  ToFetch(d) \subseteq Row
  BY <1>1, <1>2 DEF DeltaMessage, ToFetch, Unsent
<1>3. ASSUME NEW top \in 0 .. MaxTop
      PROVE  ToPaint(top) \subseteq Row
  BY RemoteLinesAssumption DEF ToPaint, View, Row
<1>. QED
  BY <1>2, <1>3

(* The client after entries were replaced. *)
LEMMA ClientEntriesTyped ==
  ASSUME ClientOK, NEW f, \A r \in Row : WellTagged(f[r]), f = [r \in Row |-> f[r]],
         client'.seqno \in Nat, client'.top \in 0 .. MaxTop, client'.cursor \in Row,
         client' = [seqno |-> client'.seqno, top |-> client'.top, cursor |-> client'.cursor, entries |-> f]
  PROVE  ClientOK'
<1>1. f \in [Row -> Entry]
  BY DEF WellTagged
<1>2. client'.entries = f
  OBVIOUS
<1>3. client' \in [seqno : Nat, top : 0 .. MaxTop, cursor : Row, entries : [Row -> Entry]]
  BY <1>1
<1>. QED
  BY <1>2, <1>3 DEF ClientOK, WellTagged

LEMMA ApplyTyped ==
  ASSUME ClientOK, up \in Seq(Request), NEW m \in Message, Apply(m)
  PROVE  ClientOK' /\ up' \in Seq(Request)
<1>1. client.seqno \in Nat /\ client.top \in 0 .. MaxTop /\ client.cursor \in Row
      /\ client = [seqno |-> client.seqno, top |-> client.top, cursor |-> client.cursor,
                   entries |-> client.entries]
  BY DEF ClientOK
<1>2. CASE m.kind = "delta"
  <2>1. m \in DeltaMessage
    BY <1>2, MessageKinds
  <2>2. m.seqno \in Nat /\ m.top \in 0 .. MaxTop /\ m.cursor \in Row
    BY <2>1 DEF DeltaMessage
  <2>3. \A t \in Tag \cup {None} : client' = Applied(m, t) => ClientOK'
    <3>1. SUFFICES ASSUME NEW t \in Tag \cup {None}, client' = Applied(m, t)
                   PROVE  ClientOK'
      OBVIOUS
    <3>. DEFINE f == [r \in Row |-> EntryAfter(m, t, r)]
    <3>2. \A r \in Row : WellTagged(f[r])
      BY <2>1, EntryAfterTyped
    <3>3. client' = [seqno |-> m.seqno, top |-> m.top, cursor |-> m.cursor, entries |-> f]
      BY <3>1 DEF Applied
    <3>4. f = [r \in Row |-> f[r]]
      OBVIOUS
    <3>. HIDE DEF f
    <3>. QED
      BY <2>2, <3>2, <3>3, <3>4, ClientEntriesTyped
  <2>4. CASE client' = Applied(m, None) /\ UNCHANGED up
    BY <2>3, <2>4
  <2>5. CASE /\ ToFetch(m) # {} /\ FreshTags # {}
             /\ client' = Applied(m, FreshTag)
             /\ up' = Append(up, FetchMsg(FreshTag, ToFetch(m)))
    <3>1. FreshTag \in Tag
      BY <2>5, FreshTagIsTag
    <3>2. FetchMsg(FreshTag, ToFetch(m)) \in Request
      BY <2>1, <3>1, AskedRows, FetchIsRequest
    <3>. QED
      BY <2>3, <2>5, <3>1, <3>2, AppendProperties
  <2>. QED
    BY <1>2, <2>4, <2>5 DEF Apply, ApplyDelta
<1>3. CASE m.kind = "lines"
  <2>1. m \in AnswerMessage
    BY <1>3, MessageKinds
  <2>. DEFINE f == [r \in Row |-> PutFetched(m, client.entries[r], r)]
  <2>2. \A r \in Row : WellTagged(f[r])
    BY <2>1, PutFetchedTyped
  <2>3. f = [r \in Row |-> f[r]]
    OBVIOUS
  <2>4. client' = [client EXCEPT !.entries = f] /\ UNCHANGED up
    BY <1>3 DEF Apply, ApplyLines
  <2>. HIDE DEF f
  <2>5. client' = [seqno |-> client.seqno, top |-> client.top, cursor |-> client.cursor, entries |-> f]
    BY <1>1, <2>4
  <2>. QED
    BY <1>1, <2>2, <2>3, <2>4, <2>5, ClientEntriesTyped
<1>. QED
  BY <1>2, <1>3, MessageKinds

LEMMA TypedClientStep ==
  ASSUME DeltasOnTime, Typed, InBounds,
         \/ AnswerFetch \/ Receive \/ Hold \/ \E m \in held : ApplyHeld(m)
         \/ \E top \in 0 .. client.top : Paint(top)
         \/ Resize
  PROVE  Typed' /\ InBounds'
<1>1. /\ TerminalOK /\ SessionOK /\ MessagesOK /\ ClientOK
      /\ down \in Seq(Message) /\ up \in Seq(Request)
      /\ \A m \in held : m \in AnswerMessage /\ m.kind \in Late
  BY DEF Typed, TypeOK, MessagesOK
<1>2. UNCHANGED <<term, sess, push>>
  BY DEF AnswerFetch, Receive, Hold, ApplyHeld, Paint, Resize
<1>3. TerminalOK' /\ SessionOK' /\ InBounds'
  BY <1>1, <1>2 DEF TerminalOK, SessionOK, InBounds
<1>4. SUFFICES /\ ClientOK' /\ up' \in Seq(Request) /\ down' \in Seq(Message)
               /\ \A m \in held' : m \in AnswerMessage /\ m.kind \in Late
  <2>1. SUFFICES ASSUME ClientOK', up' \in Seq(Request), down' \in Seq(Message),
                        \A m \in held' : m \in AnswerMessage /\ m.kind \in Late
                 PROVE  Typed'
    BY <1>3, <1>4
  <2>2. \A m \in held' \cup Range(down') : IsMessage(m)
    BY <2>1, RangeMembers, MessagesAreMessages DEF Message
  <2>. QED
    BY <1>3, <2>1, <2>2 DEF Typed, TypeOK, MessagesOK
<1>5. CASE AnswerFetch
  <2>1. /\ up # <<>> /\ up' = Tail(up) /\ Head(up).kind = "fetch"
        /\ down' = Append(down, [kind |-> "lines", tag |-> Head(up).tag, lines |-> Read(Head(up).rows)])
        /\ UNCHANGED <<held, client>>
    BY <1>5 DEF AnswerFetch
  <2>2. Head(up) \in Request /\ up' \in Seq(Request)
    BY <1>1, <2>1, HeadTailProperties
  <2>3. Head(up).tag \in Tag
    BY <2>1, <2>2 DEF Request
  <2>4. [kind |-> "lines", tag |-> Head(up).tag, lines |-> Read(Head(up).rows)] \in Message
    BY <1>1, <2>3, ReadLines DEF Message, AnswerMessage
  <2>5. down' \in Seq(Message)
    BY <1>1, <2>1, <2>4, AppendProperties
  <2>. QED
    BY <1>1, <2>1, <2>2, <2>5 DEF ClientOK
<1>6. CASE Receive
  <2>1. down # <<>> /\ down' = Tail(down) /\ Apply(Head(down)) /\ UNCHANGED held
    BY <1>6 DEF Receive
  <2>2. Head(down) \in Message /\ down' \in Seq(Message)
    BY <1>1, <2>1, HeadTailProperties
  <2>. QED
    BY <1>1, <2>1, <2>2, ApplyTyped
<1>7. CASE Hold
  <2>1. /\ down # <<>> /\ down' = Tail(down) /\ Head(down).kind \in Late
        /\ held' = held \cup {Head(down)} /\ UNCHANGED <<up, client>>
    BY <1>7 DEF Hold
  <2>2. Head(down) \in Message /\ down' \in Seq(Message)
    BY <1>1, <2>1, HeadTailProperties
  <2>3. Head(down) \in AnswerMessage
    BY <2>1, <2>2, MessageKinds DEF DeltasOnTime
  <2>. QED
    BY <1>1, <2>1, <2>2, <2>3 DEF ClientOK
<1>8. CASE \E m \in held : ApplyHeld(m)
  <2>1. PICK m \in held : Apply(m) /\ held' = held \ {m} /\ UNCHANGED down
    BY <1>8 DEF ApplyHeld
  <2>2. m \in Message
    BY <1>1 DEF Message
  <2>. QED
    BY <1>1, <2>1, <2>2, ApplyTyped
<1>9. CASE \E top \in 0 .. client.top : Paint(top)
  <2>1. PICK top \in 0 .. client.top : Paint(top)
    BY <1>9
  <2>2. top \in 0 .. MaxTop
    BY <1>1, <2>1, RemoteLinesAssumption DEF ClientOK
  <2>3. FreshTag \in Tag
    BY <2>1, FreshTagIsTag DEF Paint
  <2>. DEFINE f == [r \in Row |-> PaintedEntry(top, FreshTag, r)]
  <2>4. (\A r \in Row : WellTagged(f[r])) /\ f = [r \in Row |-> f[r]]
    BY <1>1, <2>3, PaintedEntryTyped
  <2>5. /\ client' = [client EXCEPT !.entries = f] /\ UNCHANGED <<down, held>>
        /\ up' = Append(up, FetchMsg(FreshTag, ToPaint(top)))
    BY <2>1 DEF Paint
  <2>. HIDE DEF f
  <2>6. client' = [seqno |-> client.seqno, top |-> client.top, cursor |-> client.cursor, entries |-> f]
        /\ client.seqno \in Nat /\ client.top \in 0 .. MaxTop /\ client.cursor \in Row
    BY <1>1, <2>5 DEF ClientOK
  <2>7. ClientOK'
    BY <1>1, <2>4, <2>6, ClientEntriesTyped
  <2>8. FetchMsg(FreshTag, ToPaint(top)) \in Request
    BY <1>1, <2>2, <2>3, AskedRows, FetchIsRequest
  <2>. QED
    BY <1>1, <2>5, <2>7, <2>8, AppendProperties
<1>10. CASE Resize
  <2>. DEFINE f == [r \in Row |-> IF client.entries[r].kind = "line" THEN StaleEntry(client.entries[r])
                                                                    ELSE client.entries[r]]
  <2>1. /\ client' = [client EXCEPT !.entries = f] /\ UNCHANGED <<down, held>>
        /\ up' = Append(up, [kind |-> "resize"])
    BY <1>10 DEF Resize
  <2>2. (\A r \in Row : WellTagged(f[r])) /\ f = [r \in Row |-> f[r]]
    <3>1. WellTagged(Absent)
      BY DEF WellTagged, Absent, Entry
    <3>2. \A r \in Row : WellTagged(client.entries[r])
      BY <1>1, EntriesAreTagged
    <3>3. \A r \in Row : WellTagged(StaleEntry(client.entries[r]))
      BY <3>1, <3>2 DEF WellTagged, StaleEntry, Entry, HasText
    <3>. QED
      BY <3>2, <3>3
  <2>. HIDE DEF f
  <2>3. client' = [seqno |-> client.seqno, top |-> client.top, cursor |-> client.cursor, entries |-> f]
        /\ client.seqno \in Nat /\ client.top \in 0 .. MaxTop /\ client.cursor \in Row
    BY <1>1, <2>1 DEF ClientOK
  <2>4. ClientOK'
    BY <1>1, <2>2, <2>3, ClientEntriesTyped
  <2>5. [kind |-> "resize"] \in Request
    BY DEF Request
  <2>. QED
    BY <1>1, <2>1, <2>4, <2>5, AppendProperties
<1>. QED
  BY <1>5, <1>6, <1>7, <1>8, <1>9, <1>10

-----------------------------------------------------------------------------
(* No row is known before its time.                                        *)

LEMMA RangeAppend ==
  ASSUME NEW S, NEW s \in Seq(S), NEW x \in S
  PROVE  Range(Append(s, x)) = Range(s) \cup {x}
<1>1. Len(s) \in Nat
  BY LenProperties
<1>2. 1 .. Len(s) + 1 = 1 .. Len(s) \cup {Len(s) + 1}
  BY <1>1
<1>3. /\ Append(s, x) \in Seq(S) /\ Len(Append(s, x)) = Len(s) + 1
      /\ \A i \in 1 .. Len(s) : Append(s, x)[i] = s[i]
      /\ Append(s, x)[Len(s) + 1] = x
  BY AppendProperties
<1>4. Range(Append(s, x)) = {Append(s, x)[i] : i \in 1 .. Len(s) + 1}
  BY <1>3, RangeMembers
<1>5. Range(s) = {s[i] : i \in 1 .. Len(s)}
  BY RangeMembers
<1>. HIDE DEF Range
<1>. QED
  BY <1>2, <1>3, <1>4, <1>5

LEMMA RangeTail ==
  ASSUME NEW S, NEW s \in Seq(S), s # <<>>
  PROVE  /\ Range(Tail(s)) \subseteq Range(s) /\ Head(s) \in Range(s)
         /\ \A x \in Range(s) : x = Head(s) \/ x \in Range(Tail(s))
<1>1. Len(s) \in Nat \ {0} /\ Head(s) = s[1]
  BY EmptySeq
<1>2. /\ Tail(s) \in Seq(S) /\ Len(Tail(s)) = Len(s) - 1
      /\ \A i \in 1 .. Len(s) - 1 : Tail(s)[i] = s[i + 1]
  BY HeadTailProperties
<1>3. Range(s) = {s[i] : i \in 1 .. Len(s)}
  BY RangeMembers
<1>4. Range(Tail(s)) = {Tail(s)[i] : i \in 1 .. Len(s) - 1}
  BY <1>2, RangeMembers
<1>5. ASSUME NEW i \in 1 .. Len(s)
      PROVE  s[i] = Head(s) \/ s[i] \in Range(Tail(s))
  <2>1. CASE i = 1
    BY <1>1, <2>1
  <2>2. CASE i # 1
    <3>1. i - 1 \in 1 .. Len(s) - 1 /\ (i - 1) + 1 = i
      BY <1>1, <2>2
    <3>2. Tail(s)[i - 1] = s[i]
      BY <1>2, <3>1
    <3>. QED
      BY <1>4, <3>1, <3>2
  <2>. QED
    BY <2>1, <2>2
<1>6. \A i \in 1 .. Len(s) - 1 : i + 1 \in 1 .. Len(s)
  BY <1>1
<1>7. 1 \in 1 .. Len(s)
  BY <1>1
<1>. QED
  BY <1>1, <1>2, <1>3, <1>4, <1>5, <1>6, <1>7

LEMMA BottomGrows ==
  ASSUME DeltasOnTime, Typed, InBounds, Next
  PROVE  Bottom \in Int /\ Bottom' \in Int /\ Bottom <= Bottom'
<1>1. /\ TerminalOK /\ SessionOK /\ Height \in Nat
      /\ term.top \in 0 .. MaxTop /\ push.top \in 0 .. MaxTop
  BY RemoteLinesAssumption DEF Typed, TypeOK, TerminalOK, SessionOK
<1>2. CASE UNCHANGED <<term, push>>
  BY <1>1, <1>2 DEF Bottom
<1>3. CASE UNCHANGED push /\ term'.top \in term.top .. MaxTop
  BY <1>1, <1>3 DEF Bottom
<1>4. CASE Terminal \/ ResizeTerminal
  <2>1. ASSUME NEW top \in term.top .. MaxTop, NEW cursor \in Row,
               NEW rows \in SUBSET (term.top .. top + Height - 1), Output(rows, top, cursor)
        PROVE  UNCHANGED push /\ term'.top \in term.top .. MaxTop
    BY <1>1, <2>1 DEF Output, TerminalOK
  <2>2. ASSUME ResizeTerminal
        PROVE  UNCHANGED push /\ term'.top \in term.top .. MaxTop
    BY <1>1, <2>2 DEF ResizeTerminal, TerminalOK
  <2>. QED
    BY <1>3, <1>4, <2>1, <2>2 DEF Terminal
<1>5. CASE StartPush
  <2>1. /\ push.phase = "idle" /\ push'.phase = "cursor" /\ push'.top = term.top /\ UNCHANGED term
    BY <1>1, <1>5 DEF StartPush, ShownTop, InBounds, SessionOK
  <2>. QED
    BY <1>1, <2>1 DEF Bottom
<1>6. CASE LookAtCursor \/ TakeSeqno \/ ScanRows
  <2>1. /\ push.phase # "idle" /\ push'.phase # "idle" /\ push'.top = push.top /\ UNCHANGED term
    BY <1>1, <1>6 DEF LookAtCursor, TakeSeqno, ScanRows, SessionOK
  <2>. QED
    BY <1>1, <2>1 DEF Bottom
<1>7. CASE \E other \in BOOLEAN : SendDelta(other)
  <2>1. push.phase # "idle" /\ push'.phase = "idle" /\ UNCHANGED term
    BY <1>7 DEF SendDelta, Idle
  <2>. QED
    BY <1>1, <2>1 DEF Bottom, InBounds
<1>8. CASE Poll \/ AnswerFetch \/ Receive \/ Hold \/ Resize \/ (\E m \in held : ApplyHeld(m))
           \/ (\E top \in 0 .. client.top : Paint(top))
  BY <1>2, <1>8 DEF Poll, AnswerFetch, Receive, Hold, Resize, ApplyHeld, Paint
<1>. QED
  BY <1>4, <1>5, <1>6, <1>7, <1>8 DEF Next, Push

LEMMA KnownKeepsMessages ==
  ASSUME Typed, NEW m \in Message, KnownMessage(m), Bottom \in Int, Bottom' \in Int, Bottom <= Bottom'
  PROVE  KnownMessage(m)'
<1>1. CASE m.kind = "delta"
  <2>1. /\ m \in DeltaMessage /\ m.bonus \in Lines
    BY <1>1, MessageKinds DEF DeltaMessage
  <2>2. /\ m.top \in Int /\ m.cursor \in Int /\ m.dirty \cup DOMAIN m.bonus \subseteq Int
    BY <2>1, LinesAreFunctions DEF DeltaMessage, Row
  <2>3. m.top + Height - 1 <= Bottom' /\ m.cursor <= Bottom'
    BY <1>1, <2>2, RemoteLinesAssumption DEF KnownMessage
  <2>4. \A r \in m.dirty \cup DOMAIN m.bonus : r <= Bottom'
    BY <1>1, <2>2 DEF KnownMessage
  <2>. QED
    BY <1>1, <2>3, <2>4 DEF KnownMessage
<1>2. CASE m.kind = "lines"
  <2>1. m.lines \in Lines
    BY <1>2, MessageKinds DEF AnswerMessage
  <2>2. DOMAIN m.lines \subseteq Int
    BY <2>1, LinesAreFunctions DEF Row
  <2>. QED
    BY <1>2, <2>2 DEF KnownMessage
<1>. QED
  BY <1>1, <1>2, MessageKinds

(* Applying a message makes no row known that was not.                     *)
LEMMA KnownApply ==
  ASSUME Typed, Known, NEW m \in Message, KnownMessage(m), Apply(m), UNCHANGED <<term, push>>
  PROVE  KnownClient' /\ KnownRequests'
<1>1. Bottom' = Bottom /\ ClientOK /\ up \in Seq(Request)
  BY DEF Bottom, Typed, TypeOK, MessagesOK
<1>2. CASE m.kind = "delta"
  <2>1. m \in DeltaMessage
    BY <1>2, MessageKinds
  <2>2. m.cursor <= Bottom /\ m.top + Height - 1 <= Bottom /\ \A r \in m.dirty \cup DOMAIN m.bonus : r <= Bottom
    BY <1>2 DEF KnownMessage
  <2>3. \A r \in Unsent(m) : r <= Bottom
    BY <2>2 DEF Unsent, Known, KnownClient
  <2>4. \A r \in ToFetch(m) : r <= Bottom
    BY <2>3 DEF ToFetch
  <2>5. \A t, r : EntryAfter(m, t, r).kind # "none" =>
          r \in DOMAIN m.bonus \/ r \in ToFetch(m) \/ EntryAfter(m, t, r) = client.entries[r]
    BY DEF EntryAfter, Absent
  <2>6. \A t : client' = Applied(m, t) => KnownClient'
    <3>1. SUFFICES ASSUME NEW t, client' = Applied(m, t) PROVE KnownClient'
      OBVIOUS
    <3>2. client'.cursor = m.cursor /\ client'.top = m.top
          /\ \A r \in Row : client'.entries[r] = EntryAfter(m, t, r)
      BY <3>1 DEF Applied
    <3>3. \A r \in Row : client'.entries[r].kind # "none" => r <= Bottom
      BY <2>2, <2>4, <2>5, <3>2 DEF Known, KnownClient
    <3>. QED
      BY <1>1, <2>2, <3>2, <3>3 DEF KnownClient
  <2>7. CASE client' = Applied(m, None) /\ UNCHANGED up
    BY <1>1, <2>6, <2>7 DEF Known, KnownRequests
  <2>8. CASE /\ ToFetch(m) # {} /\ FreshTags # {}
             /\ client' = Applied(m, FreshTag)
             /\ up' = Append(up, FetchMsg(FreshTag, ToFetch(m)))
    <3>1. FetchMsg(FreshTag, ToFetch(m)) \in Request
      BY <1>1, <2>1, <2>8, FreshTagIsTag, AskedRows, FetchIsRequest
    <3>2. Range(up') = Range(up) \cup {FetchMsg(FreshTag, ToFetch(m))}
      BY <1>1, <2>8, <3>1, RangeAppend
    <3>3. KnownRequests'
      BY <1>1, <2>4, <3>2 DEF Known, KnownRequests, FetchMsg
    <3>. QED
      BY <2>6, <2>8, <3>3
  <2>. QED
    BY <1>2, <2>7, <2>8 DEF Apply, ApplyDelta
<1>3. CASE m.kind = "lines"
  <2>1. UNCHANGED up /\ client'.cursor = client.cursor /\ client'.top = client.top
        /\ \A r \in Row : client'.entries[r] = PutFetched(m, client.entries[r], r)
    BY <1>1, <1>3 DEF Apply, ApplyLines, ClientOK
  <2>2. \A r \in DOMAIN m.lines : r <= Bottom
    BY <1>3 DEF KnownMessage
  <2>3. \A r \in Row : client'.entries[r].kind # "none" => r <= Bottom
    BY <2>1, <2>2 DEF Known, KnownClient, PutFetched
  <2>. QED
    BY <1>1, <2>1, <2>3 DEF Known, KnownClient, KnownRequests
<1>. QED
  BY <1>2, <1>3, MessageKinds

LEMMA KnownInit ==
  ASSUME Init
  PROVE  Known
<1>1. Range(up) = {} /\ Range(down) = {} /\ held = {}
  BY DEF Init, Range
<1>2. Bottom \in Nat /\ Bottom = Height - 1
  BY RemoteLinesAssumption DEF Init, Bottom, Idle
<1>3. client.cursor = 0 /\ client.top = 0 /\ \A r \in Row : client.entries[r].kind = "none"
  BY DEF Init, Absent
<1>. QED
  BY <1>1, <1>2, <1>3, RemoteLinesAssumption DEF Known, KnownClient, KnownRequests, KnownMessages

LEMMA KnownDelta ==
  ASSUME DeltasOnTime, Typed, InBounds, push.phase = "send", push'.phase = "idle", UNCHANGED term,
         NEW m, m = Delta
  PROVE  KnownMessage(m)'
<1>1. /\ TerminalOK /\ term.top \in 0 .. MaxTop /\ push.top \in 0 .. MaxTop /\ push.cursor \in Row
      /\ push.dirty \subseteq Row
  BY DEF Typed, TypeOK, TerminalOK, SessionOK
<1>2. Bottom' = term.top + Height - 1
  BY DEF Bottom
<1>3. push.top <= term.top /\ push.cursor <= Bottom' /\ \A r \in push.dirty : r <= push.top + Height - 1
  BY <1>2 DEF InBounds
<1>4. push.top + Height - 1 <= Bottom' /\ \A r \in push.dirty : r <= Bottom'
  BY <1>1, <1>2, <1>3, RemoteLinesAssumption DEF Row
<1>. DEFINE rows == (push.dirty \cap View(push.top)) \cup {push.cursor}
<1>5. DOMAIN Read(rows) = rows \cap Existing
  BY <1>1, ReadLines
<1>6. DOMAIN m.bonus \subseteq push.dirty \cup {push.cursor}
  BY <1>5 DEF Delta
<1>7. /\ m.kind = "delta" /\ m.top = push.top /\ m.cursor = push.cursor
      /\ m.dirty \subseteq push.dirty
  BY DEF Delta
<1>. QED
  BY <1>3, <1>4, <1>6, <1>7 DEF KnownMessage

LEMMA KnownStep ==
  ASSUME DeltasOnTime, Typed, InBounds, Known, Next
  PROVE  Known'
<1>1. /\ TerminalOK /\ ClientOK /\ up \in Seq(Request) /\ down \in Seq(Message)
      /\ \A m \in held : m \in Message
  BY DEF Typed, TypeOK, MessagesOK, Message
<1>2. Bottom \in Int /\ Bottom' \in Int /\ Bottom <= Bottom'
  BY BottomGrows
<1>3. \A m \in Message : KnownMessage(m) => KnownMessage(m)'
  BY <1>2, KnownKeepsMessages
<1>4. \A m \in held \cup Range(down) : m \in Message /\ KnownMessage(m) /\ KnownMessage(m)'
  BY <1>1, <1>3, RangeMembers DEF Known, KnownMessages
<1>5. UNCHANGED client => KnownClient'
  <2>1. client.cursor \in Int /\ client.top \in Int /\ Row \subseteq Int
    BY <1>1 DEF ClientOK, Row
  <2>2. client.cursor <= Bottom' /\ client.top + Height - 1 <= Bottom'
    BY <1>2, <2>1, RemoteLinesAssumption DEF Known, KnownClient
  <2>3. \A r \in Row : client.entries[r].kind # "none" => r <= Bottom'
    BY <1>2, <2>1 DEF Known, KnownClient
  <2>. QED
    BY <2>2, <2>3 DEF KnownClient
<1>6. \A q \in Range(up) : q.kind = "fetch" => \A r \in q.rows : r <= Bottom'
  <2>1. \A q \in Range(up) : q.kind = "fetch" => q.rows \subseteq Int
    BY <1>1, RangeMembers DEF Request, Row
  <2>. QED
    BY <1>2, <2>1 DEF Known, KnownRequests
<1>7. UNCHANGED up => KnownRequests'
  BY <1>6 DEF KnownRequests
<1>8. UNCHANGED <<held, down>> => KnownMessages'
  BY <1>4 DEF KnownMessages
<1>9. CASE Terminal \/ Poll \/ StartPush \/ LookAtCursor \/ TakeSeqno \/ ScanRows
  <2>1. UNCHANGED <<up, down, held, client>>
    BY <1>9 DEF Terminal, Output, Poll, StartPush, LookAtCursor, TakeSeqno, ScanRows
  <2>. QED
    BY <2>1, <1>5, <1>7, <1>8 DEF Known
<1>10. CASE \E other \in BOOLEAN : SendDelta(other)
  <2>1. /\ UNCHANGED <<term, up, held, client>> /\ push.phase = "send" /\ push'.phase = "idle"
        /\ UNCHANGED down \/ down' = Append(down, Delta)
    BY <1>10 DEF SendDelta, Idle
  <2>2. CASE down' = Append(down, Delta)
    <3>1. Delta \in Message
      BY <2>1, DeltaTyped
    <3>2. Range(down') = Range(down) \cup {Delta}
      BY <1>1, <2>2, <3>1, RangeAppend
    <3>3. \A m : m = Delta => KnownMessage(m)'
      BY <2>1, KnownDelta
    <3>4. KnownMessages'
      BY <1>4, <2>1, <3>2, <3>3 DEF KnownMessages
    <3>. QED
      BY <1>5, <1>7, <2>1, <3>4 DEF Known
  <2>. QED
    BY <1>5, <1>7, <1>8, <2>1, <2>2 DEF Known
<1>11. CASE AnswerFetch
  <2>1. /\ UNCHANGED <<term, push, held, client>> /\ push.phase = "idle" /\ up # <<>> /\ up' = Tail(up)
        /\ Head(up).kind = "fetch"
        /\ down' = Append(down, [kind |-> "lines", tag |-> Head(up).tag, lines |-> Read(Head(up).rows)])
    BY <1>11 DEF AnswerFetch
  <2>2. PICK m : m = [kind |-> "lines", tag |-> Head(up).tag, lines |-> Read(Head(up).rows)]
    OBVIOUS
  <2>3. Head(up) \in Request
    BY <1>1, <2>1, HeadTailProperties
  <2>4. Head(up).tag \in Tag
    BY <2>1, <2>3 DEF Request
  <2>5. m \in Message
    BY <1>1, <2>2, <2>4, ReadLines DEF Message, AnswerMessage
  <2>6. DOMAIN m.lines \subseteq Existing
    BY <1>1, <2>2, ReadLines
  <2>7. KnownMessage(m)'
    <3>1. \A r \in Existing : r <= Bottom'
      BY <1>1, <2>1 DEF InBounds, Existing, Bottom, TerminalOK
    <3>. QED
      BY <2>2, <2>6, <3>1 DEF KnownMessage
  <2>8. Range(down') = Range(down) \cup {m}
    BY <1>1, <2>1, <2>2, <2>5, RangeAppend
  <2>9. KnownMessages'
    BY <1>4, <2>1, <2>7, <2>8 DEF KnownMessages
  <2>10. Range(up') \subseteq Range(up)
    BY <1>1, <2>1, RangeTail
  <2>11. KnownRequests'
    BY <1>6, <2>10 DEF KnownRequests
  <2>. QED
    BY <1>5, <2>1, <2>9, <2>11 DEF Known
<1>12. CASE ResizeTerminal
  <2>1. /\ UNCHANGED <<push, held, client, down>> /\ up # <<>> /\ up' = Tail(up)
    BY <1>12 DEF ResizeTerminal
  <2>2. Range(up') \subseteq Range(up)
    BY <1>1, <2>1, RangeTail
  <2>3. KnownRequests'
    BY <1>6, <2>2 DEF KnownRequests
  <2>. QED
    BY <1>5, <1>8, <2>1, <2>3 DEF Known
<1>13. CASE Receive
  <2>1. /\ down # <<>> /\ down' = Tail(down) /\ Apply(Head(down)) /\ UNCHANGED <<term, push, held>>
    BY <1>13 DEF Receive
  <2>2. Range(down') \subseteq Range(down) /\ Head(down) \in Range(down)
    BY <1>1, <2>1, RangeTail
  <2>3. KnownClient' /\ KnownRequests'
    BY <1>4, <2>1, <2>2, KnownApply
  <2>4. KnownMessages'
    BY <1>4, <2>1, <2>2 DEF KnownMessages
  <2>. QED
    BY <2>3, <2>4 DEF Known
<1>14. CASE Hold
  <2>1. /\ down # <<>> /\ down' = Tail(down) /\ held' = held \cup {Head(down)}
        /\ UNCHANGED <<up, client>>
    BY <1>14 DEF Hold
  <2>2. Range(down') \subseteq Range(down) /\ Head(down) \in Range(down)
    BY <1>1, <2>1, RangeTail
  <2>3. KnownMessages'
    BY <1>4, <2>1, <2>2 DEF KnownMessages
  <2>. QED
    BY <1>5, <1>7, <2>1, <2>3 DEF Known
<1>15. CASE \E m \in held : ApplyHeld(m)
  <2>1. PICK m \in held : Apply(m) /\ held' = held \ {m} /\ UNCHANGED <<term, push, down>>
    BY <1>15 DEF ApplyHeld
  <2>2. KnownClient' /\ KnownRequests'
    BY <1>4, <2>1, KnownApply
  <2>3. KnownMessages'
    BY <1>4, <2>1 DEF KnownMessages
  <2>. QED
    BY <2>2, <2>3 DEF Known
<1>16. CASE \E top \in 0 .. client.top : Paint(top)
  <2>1. PICK top \in 0 .. client.top : Paint(top)
    BY <1>16
  <2>2. client.top \in 0 .. MaxTop /\ client.cursor \in Row
    BY <1>1 DEF ClientOK
  <2>3. top \in 0 .. MaxTop
    BY <2>2, RemoteLinesAssumption
  <2>4. \A r \in ToPaint(top) : r \in Row /\ r <= Bottom
    BY <1>2, <2>2, RemoteLinesAssumption DEF ToPaint, View, Row, Known, KnownClient
  <2>5. /\ \A r \in Row : client'.entries[r] = PaintedEntry(top, FreshTag, r)
        /\ client'.top = client.top /\ client'.cursor = client.cursor
        /\ UNCHANGED <<term, push, down, held>>
        /\ up' = Append(up, FetchMsg(FreshTag, ToPaint(top)))
    BY <1>1, <2>1 DEF Paint, ClientOK
  <2>6. Bottom' = Bottom
    BY <2>5 DEF Bottom
  <2>7. \A r \in Row : client'.entries[r].kind # "none" => r <= Bottom
    BY <2>4, <2>5 DEF PaintedEntry, Known, KnownClient
  <2>8. KnownClient'
    BY <2>5, <2>6, <2>7 DEF Known, KnownClient
  <2>9. FetchMsg(FreshTag, ToPaint(top)) \in Request
    BY <2>1, <2>4, FreshTagIsTag, FetchIsRequest DEF Paint
  <2>10. Range(up') = Range(up) \cup {FetchMsg(FreshTag, ToPaint(top))}
    BY <1>1, <2>5, <2>9, RangeAppend
  <2>11. KnownRequests'
    BY <1>6, <2>4, <2>6, <2>10 DEF KnownRequests, FetchMsg
  <2>. QED
    BY <1>8, <2>5, <2>8, <2>11 DEF Known
<1>17. CASE Resize
  <2>1. /\ \A r \in Row : client'.entries[r].kind # "none" => client.entries[r].kind # "none"
        /\ client'.top = client.top /\ client'.cursor = client.cursor
        /\ UNCHANGED <<term, push, down, held>>
        /\ up' = Append(up, [kind |-> "resize"])
    BY <1>1, <1>17 DEF Resize, ClientOK
  <2>2. Bottom' = Bottom
    BY <2>1 DEF Bottom
  <2>3. KnownClient'
    BY <2>1, <2>2 DEF Known, KnownClient
  <2>4. [kind |-> "resize"] \in Request
    BY DEF Request
  <2>5. Range(up') = Range(up) \cup {[kind |-> "resize"]}
    BY <1>1, <2>1, <2>4, RangeAppend
  <2>6. KnownRequests'
    BY <1>6, <2>5 DEF KnownRequests
  <2>. QED
    BY <1>8, <2>1, <2>3, <2>6 DEF Known
<1>. QED
  BY <1>9, <1>10, <1>11, <1>12, <1>13, <1>14, <1>15, <1>16, <1>17 DEF Next, Push

-----------------------------------------------------------------------------
(* Whatever is waited for is coming.                                       *)

(* The tags of entries that were changed. *)
LEMMA TagsOfEntries ==
  ASSUME ClientOK, NEW r \in Row, NEW t
  PROVE  /\ StaleEntry(client.entries[r]).tag = None
         /\ FetchingEntry(client.entries[r], t).tag = t
         /\ Absent.tag = None
         /\ \A text, n : LineEntry(text, n).tag = None
         /\ StaleEntry(client.entries[r]).kind # "line"
         /\ FetchingEntry(client.entries[r], t).kind # "line"
         /\ Absent.kind # "line"
<1>1. client.entries[r] \in Entry
  BY DEF ClientOK
<1>2. Absent.tag = None /\ Absent.kind = "none"
  BY DEF Absent
<1>3. StaleEntry(client.entries[r]).tag = None
  BY <1>1 DEF StaleEntry, Absent, Entry
<1>4. FetchingEntry(client.entries[r], t).tag = t
  BY <1>1 DEF FetchingEntry, Absent, Entry
<1>5. StaleEntry(client.entries[r]).kind # "line"
  BY <1>1 DEF StaleEntry, Absent, Entry
<1>6. FetchingEntry(client.entries[r], t).kind # "line"
  BY <1>1 DEF FetchingEntry, Absent, Entry
<1>. QED
  BY <1>2, <1>3, <1>4, <1>5, <1>6 DEF LineEntry

(* Applying a message: an entry that waits afterwards waited before, and   *)
(* not for that message, or waits for the request that is sent.            *)
LEMMA FetchesApply ==
  ASSUME Typed, NEW m \in Message, Apply(m), NEW r \in Row, client'.entries[r].tag # None
  PROVE  /\ Range(up) \subseteq Range(up')
         /\ \/ /\ client'.entries[r].tag = client.entries[r].tag
               /\ ~(m.kind = "lines" /\ m.tag = client.entries[r].tag /\ r \in DOMAIN m.lines)
            \/ \E q \in Range(up') : q.kind = "fetch" /\ q.tag = client'.entries[r].tag /\ r \in q.rows
<1>1. ClientOK /\ up \in Seq(Request)
  BY DEF Typed, TypeOK, MessagesOK
<1>2. CASE m.kind = "delta"
  <2>1. m \in DeltaMessage
    BY <1>2, MessageKinds
  <2>2. \A t : \/ EntryAfter(m, t, r).tag = None
               \/ EntryAfter(m, t, r).tag = t /\ r \in ToFetch(m) /\ t # None
               \/ EntryAfter(m, t, r) = client.entries[r]
    <3>1. SUFFICES ASSUME NEW t PROVE \/ EntryAfter(m, t, r).tag = None
                                      \/ EntryAfter(m, t, r).tag = t /\ r \in ToFetch(m) /\ t # None
                                      \/ EntryAfter(m, t, r) = client.entries[r]
      OBVIOUS
    <3>2. CASE r \in DOMAIN m.bonus
      <4>1. r \notin Unsent(m)
        BY <3>2 DEF Unsent
      <4>2. EntryAfter(m, t, r) = LineEntry(m.bonus[r], m.bonus[r][2])
        BY <3>2, <4>1 DEF EntryAfter, ToFetch
      <4>. QED
        BY <1>1, <4>2, TagsOfEntries
    <3>3. CASE r \notin DOMAIN m.bonus
      <4>1. EntryAfter(m, t, r) \in
              {Absent, client.entries[r]} \/ (r \in ToFetch(m) /\
                EntryAfter(m, t, r) = IF t = None THEN StaleEntry(client.entries[r])
                                                  ELSE FetchingEntry(client.entries[r], t))
        BY <3>3 DEF EntryAfter
      <4>2. /\ Absent.tag = None /\ StaleEntry(client.entries[r]).tag = None
            /\ FetchingEntry(client.entries[r], t).tag = t
        BY <1>1, TagsOfEntries
      <4>. QED
        BY <4>1, <4>2
    <3>. QED
      BY <3>2, <3>3
  <2>3. CASE client' = Applied(m, None) /\ UNCHANGED up
    BY <1>2, <2>2, <2>3 DEF Applied
  <2>4. CASE /\ ToFetch(m) # {} /\ FreshTags # {}
             /\ client' = Applied(m, FreshTag)
             /\ up' = Append(up, FetchMsg(FreshTag, ToFetch(m)))
    <3>1. FetchMsg(FreshTag, ToFetch(m)) \in Request
      BY <1>1, <2>1, <2>4, FreshTagIsTag, AskedRows, FetchIsRequest
    <3>2. Range(up') = Range(up) \cup {FetchMsg(FreshTag, ToFetch(m))}
      BY <1>1, <2>4, <3>1, RangeAppend
    <3>3. client'.entries[r] = EntryAfter(m, FreshTag, r)
      BY <2>4 DEF Applied
    <3>4. PICK q : q = FetchMsg(FreshTag, ToFetch(m))
      OBVIOUS
    <3>5. q.kind = "fetch" /\ q.tag = FreshTag /\ q.rows = ToFetch(m)
      BY <3>4 DEF FetchMsg
    <3>. QED
      BY <1>2, <2>2, <3>2, <3>3, <3>4, <3>5
  <2>. QED
    BY <1>2, <2>3, <2>4 DEF Apply, ApplyDelta
<1>3. CASE m.kind = "lines"
  <2>1. UNCHANGED up /\ client'.entries[r] = PutFetched(m, client.entries[r], r)
    BY <1>1, <1>3 DEF Apply, ApplyLines, ClientOK
  <2>2. client'.entries[r] = client.entries[r] /\ ~(r \in DOMAIN m.lines /\ client.entries[r].tag = m.tag)
    BY <1>1, <2>1, TagsOfEntries DEF PutFetched
  <2>. QED
    BY <2>1, <2>2
<1>. QED
  BY <1>2, <1>3, MessageKinds

LEMMA FetchesStep ==
  ASSUME DeltasOnTime, Typed, InBounds, Known, FetchesAreAnswered, Next
  PROVE  FetchesAreAnswered'
<1>1. /\ TerminalOK /\ ClientOK /\ up \in Seq(Request) /\ down \in Seq(Message)
      /\ \A m \in held : m \in Message
  BY DEF Typed, TypeOK, MessagesOK, Message
<1>2. \A m \in held \cup Range(down) : m \in Message
  BY <1>1, RangeMembers
<1>3. SUFFICES ASSUME NEW r \in Row, client'.entries[r].tag # None
               PROVE  Coming(client.entries[r].tag, r)'
  BY DEF FetchesAreAnswered
<1>4. client.entries[r].tag # None => Coming(client.entries[r].tag, r)
  BY DEF FetchesAreAnswered
<1>5. ASSUME client'.entries[r].tag = client.entries[r].tag, Range(up) \subseteq Range(up'),
             held \cup Range(down) \subseteq held' \cup Range(down')
      PROVE  Coming(client.entries[r].tag, r)'
  BY <1>3, <1>4, <1>5 DEF Coming
<1>6. CASE Terminal \/ Poll \/ StartPush \/ LookAtCursor \/ TakeSeqno \/ ScanRows
  <2>1. UNCHANGED <<up, down, held, client>>
    BY <1>6 DEF Terminal, Output, Poll, StartPush, LookAtCursor, TakeSeqno, ScanRows
  <2>. QED
    BY <2>1, <1>5
<1>7. CASE \E other \in BOOLEAN : SendDelta(other)
  <2>1. /\ UNCHANGED <<up, held, client>> /\ push.phase = "send"
        /\ UNCHANGED down \/ down' = Append(down, Delta)
    BY <1>7 DEF SendDelta
  <2>2. down' = Append(down, Delta) => Range(down') = Range(down) \cup {Delta}
    BY <1>1, <2>1, DeltaTyped, RangeAppend
  <2>. QED
    BY <1>5, <2>1, <2>2
<1>8. CASE AnswerFetch
  <2>1. /\ UNCHANGED <<held, client>> /\ push.phase = "idle" /\ up # <<>> /\ up' = Tail(up)
        /\ Head(up).kind = "fetch"
        /\ down' = Append(down, [kind |-> "lines", tag |-> Head(up).tag, lines |-> Read(Head(up).rows)])
    BY <1>8 DEF AnswerFetch
  <2>2. PICK m : m = [kind |-> "lines", tag |-> Head(up).tag, lines |-> Read(Head(up).rows)]
    OBVIOUS
  <2>3. Head(up) \in Request /\ Head(up) \in Range(up)
        /\ \A q \in Range(up) : q = Head(up) \/ q \in Range(up')
    BY <1>1, <2>1, HeadTailProperties, RangeTail
  <2>4. Head(up).tag \in Tag /\ Head(up).rows \subseteq Row
    BY <2>1, <2>3 DEF Request
  <2>5. m \in Message
    BY <1>1, <2>2, <2>4, ReadLines DEF Message, AnswerMessage
  <2>6. Range(down') = Range(down) \cup {m}
    BY <1>1, <2>1, <2>2, <2>5, RangeAppend
  <2>7. Head(up).rows \subseteq Existing
    BY <1>1, <2>1, <2>3, <2>4 DEF Known, KnownRequests, Bottom, Existing, InBounds, Row, TerminalOK
  <2>8. DOMAIN m.lines = Head(up).rows
    <3>1. DOMAIN Read(Head(up).rows) = Head(up).rows \cap Existing
      BY <1>1, ReadLines
    <3>. QED
      BY <2>2, <2>7, <3>1
  <2>9. m.kind = "lines" /\ m.tag = Head(up).tag /\ m \in Range(down')
    BY <2>2, <2>6
  <2>. QED
    BY <1>3, <1>4, <2>1, <2>3, <2>6, <2>8, <2>9 DEF Coming
<1>9. CASE ResizeTerminal
  <2>1. /\ UNCHANGED <<held, client, down>> /\ up # <<>> /\ up' = Tail(up) /\ Head(up).kind = "resize"
    BY <1>9 DEF ResizeTerminal
  <2>2. \A q \in Range(up) : q = Head(up) \/ q \in Range(up')
    BY <1>1, <2>1, RangeTail
  <2>. QED
    BY <1>3, <1>4, <2>1, <2>2 DEF Coming
<1>10. CASE Receive
  <2>1. /\ down # <<>> /\ down' = Tail(down) /\ Apply(Head(down)) /\ UNCHANGED held
    BY <1>10 DEF Receive
  <2>2. /\ Head(down) \in Message
        /\ \A m \in Range(down) : m = Head(down) \/ m \in Range(down')
    BY <1>1, <2>1, RangeTail, HeadTailProperties
  <2>. QED
    BY <1>3, <1>4, <2>1, <2>2, FetchesApply DEF Coming
<1>11. CASE Hold
  <2>1. /\ down # <<>> /\ down' = Tail(down) /\ held' = held \cup {Head(down)} /\ UNCHANGED <<up, client>>
    BY <1>11 DEF Hold
  <2>2. \A m \in Range(down) : m = Head(down) \/ m \in Range(down')
    BY <1>1, <2>1, RangeTail
  <2>. QED
    BY <1>5, <2>1, <2>2
<1>12. CASE \E m \in held : ApplyHeld(m)
  <2>1. PICK m \in held : Apply(m) /\ held' = held \ {m} /\ UNCHANGED down
    BY <1>12 DEF ApplyHeld
  <2>. QED
    BY <1>2, <1>3, <1>4, <2>1, FetchesApply DEF Coming
<1>13. CASE \E top \in 0 .. client.top : Paint(top)
  <2>1. PICK top \in 0 .. client.top : Paint(top)
    BY <1>13
  <2>2. top \in 0 .. MaxTop
    BY <1>1, <2>1, RemoteLinesAssumption DEF ClientOK
  <2>3. /\ client'.entries[r] = PaintedEntry(top, FreshTag, r) /\ UNCHANGED <<down, held>>
        /\ up' = Append(up, FetchMsg(FreshTag, ToPaint(top)))
    BY <1>1, <2>1 DEF Paint, ClientOK
  <2>4. FetchMsg(FreshTag, ToPaint(top)) \in Request
    BY <1>1, <2>1, <2>2, FreshTagIsTag, AskedRows, FetchIsRequest DEF Paint
  <2>5. Range(up') = Range(up) \cup {FetchMsg(FreshTag, ToPaint(top))}
    BY <1>1, <2>3, <2>4, RangeAppend
  <2>6. \/ client'.entries[r].tag = client.entries[r].tag
        \/ client'.entries[r].tag = FreshTag /\ r \in ToPaint(top)
    BY <1>1, <1>3, <2>3, TagsOfEntries DEF PaintedEntry
  <2>7. CASE client'.entries[r].tag = client.entries[r].tag
    BY <1>5, <2>3, <2>5, <2>7
  <2>8. CASE client'.entries[r].tag = FreshTag /\ r \in ToPaint(top)
    <3>1. PICK q : q = FetchMsg(FreshTag, ToPaint(top))
      OBVIOUS
    <3>2. q.kind = "fetch" /\ q.tag = FreshTag /\ q.rows = ToPaint(top)
      BY <3>1 DEF FetchMsg
    <3>. QED
      BY <2>5, <2>8, <3>1, <3>2 DEF Coming
  <2>. QED
    BY <2>6, <2>7, <2>8
<1>14. CASE Resize
  <2>1. /\ client'.entries[r] = IF client.entries[r].kind = "line" THEN StaleEntry(client.entries[r])
                                                                   ELSE client.entries[r]
        /\ UNCHANGED <<down, held>> /\ up' = Append(up, [kind |-> "resize"])
    BY <1>1, <1>14 DEF Resize, ClientOK
  <2>2. Range(up') = Range(up) \cup {[kind |-> "resize"]}
    <3>1. [kind |-> "resize"] \in Request
      BY DEF Request
    <3>. QED
      BY <1>1, <2>1, <3>1, RangeAppend
  <2>. QED
    BY <1>1, <1>3, <1>5, <2>1, <2>2, TagsOfEntries
<1>. QED
  BY <1>6, <1>7, <1>8, <1>9, <1>10, <1>11, <1>12, <1>13, <1>14 DEF Next, Push

-----------------------------------------------------------------------------
(* What is not news is right.                                              *)

(* Nothing is said of a row that is not known.                             *)
UnknownIsNoNews ==
  Typed /\ Known /\ Bottom \in Int => \A r \in Row : r > Bottom => NewsOf(r)

LEMMA NewsUnknown == UnknownIsNoNews
<1>. SUFFICES ASSUME Typed, Known, Bottom \in Int, NEW r \in Row, r > Bottom
              PROVE  NewsOf(r)
  BY DEF UnknownIsNoNews
<1>1. r \in Int /\ ~(r <= Bottom)
  BY DEF Row
<1>2. \A m \in held \cup Range(down) : m.kind \in {"delta", "lines"} /\ KnownMessage(m)
  <2>1. \A m \in held \cup Range(down) : m \in Message
    BY RangeMembers DEF Typed, Message
  <2>. QED
    BY <2>1, MessageKinds DEF Known, KnownMessages
<1>3. \A m \in held \cup Range(down) : ~Names(m, r)
  BY <1>1, <1>2 DEF KnownMessage, Names
<1>4. \A i \in 1 .. Len(down) : down[i] \in Range(down)
  BY RangeMembers DEF Typed
<1>5. LastDeltaIsRight(r)
  BY <1>3, <1>4 DEF LastDeltaIsRight
<1>6. EntryIsRight(r)
  BY <1>1 DEF EntryIsRight, Known, KnownClient
<1>7. \A m \in held \cup Range(down) : AnswerIsRight(m, r)
  BY <1>1, <1>2 DEF AnswerIsRight, KnownMessage
<1>. QED
  BY <1>5, <1>6, <1>7 DEF NewsOf

(* A step of the server that sends nothing.                                *)
LEMMA NewsQuiet ==
  ASSUME NEW r \in Row, UNCHANGED <<down, held, client>>, Text(r)' = Text(r), NewsOf(r)
  PROVE  NewsOf(r)'
<1>1. LastDeltaIsRight(r)'
  BY DEF NewsOf, LastDeltaIsRight, NotNamedAfter
<1>2. NotNamedAfter(0, r)' => NotNamedAfter(0, r)
  BY DEF NotNamedAfter
<1>3. EntryIsRight(r) => EntryIsRight(r)'
  BY DEF EntryIsRight
<1>4. \A m : AnswerIsRight(m, r) => AnswerIsRight(m, r)'
  BY DEF AnswerIsRight
<1>. QED
  BY <1>1, <1>2, <1>3, <1>4 DEF NewsOf

(* A message is sent: it has the text of the row, or does not name it.     *)
LEMMA NewsAppend ==
  ASSUME Typed, NEW r \in Row, NEW m \in Message,
         down' = Append(down, m), UNCHANGED <<held, client>>, Text(r)' = Text(r),
         Names(m, r) /\ r \in DOMAIN m.bonus => m.bonus[r] = Text(r),
         ~Names(m, r) => NewsOf(r) /\ AnswerIsRight(m, r)
  PROVE  NewsOf(r)'
<1>. DEFINE n == Len(down)
<1>1. /\ n \in Nat /\ Len(down') = n + 1 /\ down'[n + 1] = m
      /\ \A i \in 1 .. n : down'[i] = down[i]
  BY AppendProperties, LenProperties DEF Typed
<1>. HIDE DEF n
<1>2. \A i \in 1 .. n + 1 : i = n + 1 \/ i \in 1 .. n
  BY <1>1
<1>3. n + 1 \in 1 .. n + 1 /\ \A i \in 0 .. n : n + 1 > i
  BY <1>1
<1>4. CASE Names(m, r)
  <2>1. \A i \in 0 .. n : ~NotNamedAfter(i, r)'
    BY <1>1, <1>3, <1>4 DEF NotNamedAfter
  <2>2. 0 \in 0 .. n /\ \A i \in 1 .. n : i \in 0 .. n
    BY <1>1
  <2>3. LastDeltaIsRight(r)'
    BY <1>1, <1>2, <1>4, <2>1, <2>2 DEF LastDeltaIsRight
  <2>. QED
    BY <2>1, <2>2, <2>3 DEF NewsOf
<1>5. CASE ~Names(m, r)
  <2>1. \A i \in 0 .. n : NotNamedAfter(i, r)' => NotNamedAfter(i, r)
    <3>1. \A j \in 1 .. n : j \in 1 .. n + 1
      BY <1>1
    <3>. QED
      BY <1>1, <3>1 DEF NotNamedAfter, n
  <2>2. 0 \in 0 .. n /\ \A i \in 1 .. n : i \in 0 .. n
    BY <1>1
  <2>3. LastDeltaIsRight(r)'
    BY <1>1, <1>2, <1>5, <2>1, <2>2 DEF LastDeltaIsRight, NewsOf, n
  <2>4. EntryIsRight(r) => EntryIsRight(r)'
    BY DEF EntryIsRight
  <2>5. \A k : AnswerIsRight(k, r) => AnswerIsRight(k, r)'
    BY DEF AnswerIsRight
  <2>6. Range(down') = Range(down) \cup {m}
    BY RangeAppend DEF Typed
  <2>. QED
    BY <1>5, <2>1, <2>2, <2>3, <2>4, <2>5, <2>6 DEF NewsOf
<1>. QED
  BY <1>4, <1>5

(* The first message is taken. *)
LEMMA NewsTail ==
  ASSUME Typed, NEW r \in Row, down # <<>>, down' = Tail(down), UNCHANGED term, NewsOf(r)
  PROVE  /\ LastDeltaIsRight(r)'
         /\ NotNamedAfter(0, r)' =>
              IF Names(Head(down), r)
              THEN r \in DOMAIN Head(down).bonus => Head(down).bonus[r] = Text(r)
              ELSE NotNamedAfter(0, r)
<1>. DEFINE n == Len(down)
<1>1. n \in Nat \ {0} /\ Head(down) = down[1] /\ 1 \in 1 .. n
  BY EmptySeq DEF Typed
<1>2. Len(down') = n - 1 /\ \A i \in 1 .. n - 1 : down'[i] = down[i + 1]
  BY HeadTailProperties DEF Typed
<1>. HIDE DEF n
<1>3. \A i \in 0 .. n - 1 : NotNamedAfter(i, r)' => NotNamedAfter(i + 1, r)
  <2>1. SUFFICES ASSUME NEW i \in 0 .. n - 1, NotNamedAfter(i, r)', NEW j \in 1 .. n, j > i + 1
                 PROVE  ~Names(down[j], r)
    BY <1>1 DEF NotNamedAfter, n
  <2>2. j - 1 \in 1 .. n - 1 /\ j - 1 > i /\ (j - 1) + 1 = j
    BY <1>1, <2>1
  <2>3. down'[j - 1] = down[j]
    BY <1>2, <2>2
  <2>. QED
    BY <1>2, <2>1, <2>2, <2>3 DEF NotNamedAfter
<1>4. Text(r)' = Text(r)
  BY DEF Text, LastChange
<1>5. LastDeltaIsRight(r)'
  <2>1. SUFFICES ASSUME NEW i \in 1 .. n - 1, Names(down'[i], r), NotNamedAfter(i, r)', r \in DOMAIN down'[i].bonus
                 PROVE  down'[i].bonus[r] = Text(r)
    BY <1>2, <1>4 DEF LastDeltaIsRight
  <2>2. i \in 0 .. n - 1 /\ i + 1 \in 1 .. n /\ down'[i] = down[i + 1]
    BY <1>1, <1>2
  <2>. QED
    BY <1>3, <2>1, <2>2 DEF NewsOf, LastDeltaIsRight, n
<1>6. ASSUME NotNamedAfter(0, r)'
      PROVE  NotNamedAfter(1, r)
  <2>1. 0 \in 0 .. n - 1 /\ 0 + 1 = 1
    BY <1>1
  <2>. QED
    BY <1>3, <1>6, <2>1
<1>7. NotNamedAfter(1, r) /\ ~Names(down[1], r) => NotNamedAfter(0, r)
  <2>1. \A j \in 1 .. n : j = 1 \/ j > 1
    BY <1>1
  <2>. QED
    BY <2>1 DEF NotNamedAfter, n
<1>8. NotNamedAfter(1, r) /\ Names(down[1], r) /\ r \in DOMAIN down[1].bonus => down[1].bonus[r] = Text(r)
  BY <1>1 DEF NewsOf, LastDeltaIsRight, n
<1>. QED
  BY <1>1, <1>5, <1>6, <1>7, <1>8

(* A message is applied: the entry it leaves is right, or waits for an     *)
(* answer to a request that was just sent.                                 *)
LEMMA NewsApply ==
  ASSUME Typed, NEW r \in Row, NEW m \in held \cup Range(down), Apply(m),
         Text(r)' = Text(r),
         held' \cup Range(down') \subseteq held \cup Range(down),
         Names(m, r) /\ r \in DOMAIN m.bonus => m.bonus[r] = Text(r),
         ~Names(m, r) => /\ EntryIsRight(r)
                         /\ \A n \in held \cup Range(down) : AnswerIsRight(n, r)
  PROVE  EntryIsRight(r)' /\ \A n \in held' \cup Range(down') : AnswerIsRight(n, r)'
<1>1. /\ ClientOK /\ m \in Message /\ client.entries[r] \in Entry
      /\ \A n \in held \cup Range(down) : n.kind = "lines" => n.tag \in InFlight /\ n.tag # None
  <2>1. \A n \in held \cup Range(down) : n \in Message
    BY RangeMembers DEF Typed, Message
  <2>2. \A n \in held \cup Range(down) : n.kind = "lines" => n.tag # None
    BY <2>1, MessageKinds, NoneIsNoTag DEF AnswerMessage
  <2>. QED
    BY <2>1, <2>2 DEF Typed, TypeOK, ClientOK, InFlight
<1>2. ASSUME client'.entries[r].tag = None \/ client'.entries[r].tag \notin InFlight
      PROVE  \A n \in held' \cup Range(down') : AnswerIsRight(n, r)'
  BY <1>1, <1>2 DEF AnswerIsRight
<1>3. ASSUME UNCHANGED client.entries[r], ~Names(m, r)
      PROVE  EntryIsRight(r)' /\ \A n \in held' \cup Range(down') : AnswerIsRight(n, r)'
  BY <1>3 DEF EntryIsRight, AnswerIsRight
<1>4. CASE m.kind = "delta"
  <2>1. m \in DeltaMessage
    BY <1>1, <1>4, MessageKinds
  <2>2. ASSUME NEW t, t = None \/ t \notin InFlight, client' = Applied(m, t)
        PROVE  EntryIsRight(r)' /\ \A n \in held' \cup Range(down') : AnswerIsRight(n, r)'
    <3>1. client'.entries[r] = EntryAfter(m, t, r)
      BY <2>2 DEF Applied
    <3>2. CASE r \in DOMAIN m.bonus
      <4>1. client'.entries[r] = LineEntry(m.bonus[r], m.bonus[r][2])
        BY <3>1, <3>2 DEF EntryAfter, Unsent, ToFetch
      <4>2. m.bonus[r] = Text(r)
        BY <1>4, <3>2 DEF Names
      <4>3. client'.entries[r].text = Text(r) /\ client'.entries[r].tag = None
        BY <4>1, <4>2 DEF LineEntry
      <4>. QED
        BY <1>2, <4>3 DEF EntryIsRight
    <3>3. CASE r \notin DOMAIN m.bonus /\ r \in Unsent(m)
      <4>0. /\ StaleEntry(client.entries[r]).tag = None /\ StaleEntry(client.entries[r]).kind # "line"
            /\ FetchingEntry(client.entries[r], t).tag = t /\ FetchingEntry(client.entries[r], t).kind # "line"
            /\ Absent.tag = None /\ Absent.kind # "line"
        BY <1>1, TagsOfEntries
      <4>1. \/ client'.entries[r] = Absent
            \/ client'.entries[r] = StaleEntry(client.entries[r])
            \/ client'.entries[r] = FetchingEntry(client.entries[r], t)
        BY <3>1, <3>3 DEF EntryAfter
      <4>2. client'.entries[r].tag \in {None, t}
        BY <4>0, <4>1
      <4>3. client'.entries[r].kind # "line"
        BY <4>0, <4>1
      <4>. QED
        BY <1>2, <2>2, <4>2, <4>3 DEF EntryIsRight
    <3>4. CASE r \notin DOMAIN m.bonus /\ r \notin Unsent(m)
      <4>1. client'.entries[r] = client.entries[r]
        BY <3>1, <3>4 DEF EntryAfter, ToFetch
      <4>2. ~Names(m, r)
        BY <3>4 DEF Names, Unsent
      <4>. QED
        BY <1>3, <4>1, <4>2
    <3>. QED
      BY <3>2, <3>3, <3>4
  <2>3. client' = Applied(m, None) \/ (client' = Applied(m, FreshTag) /\ FreshTag \notin InFlight)
    BY <1>4, FreshTagIsTag DEF Apply, ApplyDelta
  <2>. QED
    BY <2>2, <2>3
<1>5. CASE m.kind = "lines"
  <2>1. ~Names(m, r)
    BY <1>5 DEF Names
  <2>2. client'.entries[r] = PutFetched(m, client.entries[r], r)
    BY <1>1, <1>5 DEF Apply, ApplyLines, ClientOK
  <2>3. CASE r \in DOMAIN m.lines /\ client.entries[r].tag = m.tag
    <3>1. m.lines[r] = Text(r)
      BY <1>5, <2>1, <2>3 DEF AnswerIsRight
    <3>2. client'.entries[r].text = Text(r) /\ client'.entries[r].tag = None
      BY <2>2, <2>3, <3>1 DEF PutFetched, LineEntry
    <3>. QED
      BY <1>2, <3>2 DEF EntryIsRight
  <2>4. CASE ~(r \in DOMAIN m.lines /\ client.entries[r].tag = m.tag)
    BY <1>3, <2>1, <2>2, <2>4 DEF PutFetched
  <2>. QED
    BY <2>3, <2>4
<1>. QED
  BY <1>1, <1>4, <1>5, MessageKinds

(* The entry is made stale or waits for a request that was just sent.      *)
LEMMA NewsOfStale ==
  ASSUME Typed, NEW r \in Row, NewsOf(r), UNCHANGED <<term, down, held>>,
         \/ client'.entries[r] = client.entries[r]
         \/ client'.entries[r] = StaleEntry(client.entries[r])
         \/ \E t \in Tag : t \notin InFlight /\ client'.entries[r] = FetchingEntry(client.entries[r], t)
  PROVE  NewsOf(r)'
<1>1. /\ ClientOK /\ client.entries[r] \in Entry
      /\ \A n \in held \cup Range(down) : n.kind = "lines" => n.tag \in InFlight /\ n.tag # None
  <2>1. \A n \in held \cup Range(down) : n \in Message
    BY RangeMembers DEF Typed, Message
  <2>2. \A n \in held \cup Range(down) : n.kind = "lines" => n.tag # None
    BY <2>1, MessageKinds, NoneIsNoTag DEF AnswerMessage
  <2>. QED
    BY <2>1, <2>2 DEF Typed, TypeOK, ClientOK, InFlight
<1>2. Text(r)' = Text(r)
  BY DEF Text, LastChange
<1>3. LastDeltaIsRight(r)'
  BY <1>2 DEF NewsOf, LastDeltaIsRight, NotNamedAfter
<1>4. NotNamedAfter(0, r)' => NotNamedAfter(0, r)
  BY DEF NotNamedAfter
<1>5. CASE client'.entries[r] = client.entries[r]
  BY <1>2, <1>3, <1>4, <1>5 DEF NewsOf, EntryIsRight, AnswerIsRight
<1>6. CASE client'.entries[r] # client.entries[r]
  <2>1. client'.entries[r].tag = None \/ client'.entries[r].tag \notin InFlight
    BY <1>1, <1>6, TagsOfEntries
  <2>2. client'.entries[r].kind # "line"
    BY <1>1, <1>6, TagsOfEntries
  <2>3. \A n \in held' \cup Range(down') : AnswerIsRight(n, r)'
    BY <1>1, <2>1 DEF AnswerIsRight
  <2>. QED
    BY <1>3, <2>2, <2>3 DEF NewsOf, EntryIsRight
<1>. QED
  BY <1>5, <1>6

(* What a step of the terminal or of a push does to what is pending.       *)
LEMMA NewsServerStep ==
  ASSUME DeltasOnTime, Typed, InBounds, Known, NewsIsRight, Typed', Known', Bottom' \in Int,
         Terminal \/ ResizeTerminal \/ Poll \/ StartPush \/ LookAtCursor \/ TakeSeqno \/ ScanRows
  PROVE  NewsIsRight'
<1>1. /\ TerminalOK /\ SessionOK /\ term.seqno \in Nat /\ sess.seqno \in Nat /\ ~term.alt
      /\ term.top \in 0 .. MaxTop /\ push.top \in 0 .. MaxTop /\ sess.seqno <= term.seqno
      /\ term.lines \in [BOOLEAN -> [Row -> Nat]]
  BY DEF Typed, TypeOK, InBounds, TerminalOK, SessionOK
<1>2. SUFFICES ASSUME NEW r \in Row, ~Pending(r)'
               PROVE  NewsOf(r)'
  BY DEF NewsIsRight
<1>3. LastChange(r) \in Nat
  BY <1>1, ExistingRows
<1>4. UNCHANGED <<down, held, client>>
  BY DEF Terminal, Output, ResizeTerminal, Poll, StartPush, LookAtCursor, TakeSeqno, ScanRows
<1>5. SUFFICES \/ Text(r)' = Text(r) /\ ~Pending(r)
               \/ r > Bottom'
  <2>1. CASE Text(r)' = Text(r) /\ ~Pending(r)
    BY <1>4, <2>1, NewsQuiet DEF NewsIsRight
  <2>2. CASE r > Bottom'
    <3>1. UnknownIsNoNews'
      BY NewsUnknown, PTL
    <3>. QED
      BY <2>2, <3>1 DEF UnknownIsNoNews
  <2>. QED
    BY <1>5, <2>1, <2>2
<1>6. ASSUME NEW rows, sess'.seqno = sess.seqno, push' = push, term'.alt = FALSE,
             term'.top \in Int, term'.top >= term.top,
             term'.lines[FALSE][r] = IF r \in rows THEN term.seqno + 1 ELSE term.lines[FALSE][r]
      PROVE  Text(r)' = Text(r) /\ ~Pending(r)
  <2>1. LastChange(r)' = term'.lines[FALSE][r] /\ LastChange(r) = term.lines[FALSE][r] /\ term.alt = FALSE
    BY <1>1, <1>6 DEF LastChange, TerminalOK
  <2>2. ~(LastChange(r)' > sess.seqno)
    BY <1>2, <1>6 DEF Pending
  <2>3. r \notin rows
    <3>1. term.seqno \in Nat /\ sess.seqno \in Nat /\ sess.seqno <= term.seqno
      BY <1>1
    <3>2. term.seqno + 1 > sess.seqno
      BY <3>1
    <3>. QED
      BY <1>6, <2>1, <2>2, <3>2
  <2>4. LastChange(r)' = LastChange(r)
    BY <1>6, <2>1, <2>3
  <2>5. Text(r)' = Text(r)
    BY <1>6, <2>1, <2>4 DEF Text
  <2>6. Existing = 0 .. term.top + Height - 1 /\ Existing' = 0 .. term'.top + Height - 1
    BY <1>6, <2>1 DEF Existing
  <2>7. r \in Existing => r \in Existing'
    BY <1>1, <1>6, <2>6, RemoteLinesAssumption DEF Row
  <2>8. Pending(r) => Pending(r)'
    BY <1>6, <2>4, <2>7 DEF Pending, ChangedSince
  <2>. QED
    BY <1>2, <2>5, <2>8
<1>7. CASE Terminal
  <2>1. PICK top \in term.top .. MaxTop, cursor \in Row :
               \E rows \in SUBSET (term.top .. top + Height - 1) : Output(rows, top, cursor)
    BY <1>1, <1>7 DEF Terminal
  <2>2. PICK rows \in SUBSET (term.top .. top + Height - 1) : Output(rows, top, cursor)
    BY <2>1
  <2>3. /\ term'.alt = term.alt /\ term'.top = top /\ sess'.seqno = sess.seqno /\ UNCHANGED push
        /\ term'.lines = Write(FALSE, rows, term.lines)
    BY <1>1, <2>2 DEF Output, TerminalOK, SessionOK
  <2>4. term'.lines[FALSE][r] = IF r \in rows THEN term.seqno + 1 ELSE term.lines[FALSE][r]
    BY <1>1, <2>3 DEF Write
  <2>5. term'.top >= term.top /\ term'.top \in Int
    BY <1>1, <2>1, <2>3, RemoteLinesAssumption
  <2>6. term'.alt = FALSE
    BY <1>1, <2>3 DEF TerminalOK
  <2>. QED
    BY <1>6, <2>3, <2>4, <2>5, <2>6
<1>8. CASE ResizeTerminal
  <2>. DEFINE alternate == Write(TRUE, View(0), term.lines)
              rows == 0 .. term.top + Height - 1
  <2>1. /\ term'.alt = term.alt /\ term'.top = term.top /\ UNCHANGED <<sess, push>>
        /\ term'.lines = Write(FALSE, rows, alternate)
    BY <1>1, <1>8 DEF ResizeTerminal, TerminalOK
  <2>2. alternate \in [BOOLEAN -> [Row -> Nat]]
    BY <1>1, WriteTyped
  <2>3. alternate[FALSE][r] = term.lines[FALSE][r]
    BY <1>1 DEF Write
  <2>. HIDE DEF alternate, rows
  <2>4. term'.lines[FALSE][r] = IF r \in rows THEN term.seqno + 1 ELSE alternate[FALSE][r]
    BY <2>1, <2>2 DEF Write
  <2>5. term'.top >= term.top /\ term'.top \in Int
    BY <1>1, <2>1
  <2>6. term'.alt = FALSE
    BY <1>1, <2>1 DEF TerminalOK
  <2>. QED
    BY <1>6, <2>1, <2>3, <2>4, <2>5, <2>6
<1>9. CASE Poll \/ StartPush \/ LookAtCursor \/ TakeSeqno \/ ScanRows
  <2>1. UNCHANGED term
    BY <1>9 DEF Poll, StartPush, LookAtCursor, TakeSeqno, ScanRows
  <2>2. LastChange(r)' = LastChange(r) /\ Text(r)' = Text(r) /\ Existing' = Existing
    BY <2>1 DEF LastChange, Text, Existing
  <2>3. CASE Poll
    <3>1. sess'.seqno = sess.seqno /\ UNCHANGED push
      BY <1>1, <2>3 DEF Poll, SessionOK
    <3>. QED
      BY <1>2, <2>2, <3>1 DEF Pending, ChangedSince
  <2>4. CASE StartPush \/ LookAtCursor
    <3>1. sess'.seqno = sess.seqno /\ push.phase \notin {"scan", "send"}
      BY <1>1, <2>4 DEF StartPush, LookAtCursor, SessionOK
    <3>. QED
      BY <1>2, <2>2, <3>1 DEF Pending
  <2>5. CASE TakeSeqno
    <3>1. /\ push.phase = "seqno" /\ push'.phase = "scan" /\ push'.top = push.top
          /\ push'.since = sess.seqno /\ UNCHANGED term
      BY <1>1, <2>5 DEF TakeSeqno, SessionOK
    <3>2. Bottom' = push.top + Height - 1 /\ push.top <= term.top
      BY <3>1 DEF Bottom, InBounds
    <3>3. r <= Bottom' => r \in 0 .. push.top + Height - 1 /\ r \in Existing
      BY <1>1, <3>2, RemoteLinesAssumption DEF Existing, Row
    <3>4. r \in 0 .. push.top + Height - 1 /\ r \in Existing => ~(LastChange(r) > sess.seqno)
      BY <1>2, <2>2, <3>1 DEF Pending, ChangedSince
    <3>5. r <= Bottom' => ~Pending(r)
      BY <3>1, <3>3, <3>4 DEF Pending
    <3>6. r > Bottom' \/ r <= Bottom'
      BY DEF Row
    <3>. QED
      BY <2>2, <3>5, <3>6
  <2>6. CASE ScanRows
    <3>1. /\ push.phase = "scan" /\ push'.phase = "send" /\ UNCHANGED sess
          /\ push'.dirty = ChangedSince(0 .. push.top + Height - 1, push.since)
      BY <1>1, <2>6 DEF ScanRows, SessionOK
    <3>. QED
      BY <1>2, <2>2, <3>1 DEF Pending
  <2>. QED
    BY <1>9, <2>3, <2>4, <2>5, <2>6
<1>. QED
  BY <1>7, <1>8, <1>9

(* A push ends.  A row it found is named by what it sends.                 *)
LEMMA NewsSendDelta ==
  ASSUME DeltasOnTime, Typed, InBounds, NewsIsRight, NEW other \in BOOLEAN, SendDelta(other)
  PROVE  NewsIsRight'
<1>1. /\ TerminalOK /\ SessionOK /\ push.phase = "send" /\ push'.phase = "idle"
      /\ UNCHANGED <<term, held, client>> /\ sess'.seqno = sess.seqno
      /\ UNCHANGED down \/ down' = Append(down, Delta)
      /\ push.dirty # {} => down' = Append(down, Delta)
  BY DEF Typed, TypeOK, SendDelta, Idle, SessionOK
<1>2. SUFFICES ASSUME NEW r \in Row, ~Pending(r)'
               PROVE  NewsOf(r)'
  BY DEF NewsIsRight
<1>3. LastChange(r)' = LastChange(r) /\ Text(r)' = Text(r)
  BY <1>1 DEF LastChange, Text
<1>4. ~(LastChange(r) > sess.seqno)
  BY <1>1, <1>2, <1>3 DEF Pending
<1>5. r \notin push.dirty => NewsOf(r)
  BY <1>1, <1>4 DEF NewsIsRight, Pending
<1>6. CASE down' = Append(down, Delta)
  <2>. DEFINE rows == (push.dirty \cap View(push.top)) \cup {push.cursor}
  <2>1. PICK m : m = Delta
    OBVIOUS
  <2>2. m \in Message /\ m.kind = "delta"
    BY <1>1, <2>1, DeltaTyped DEF Delta
  <2>3. /\ DOMAIN Read(rows) = rows \cap Existing
        /\ \A q \in rows \cap Existing : Read(rows)[q] = Text(q)
    BY <1>1, ReadLines
  <2>4. m.bonus = Read(rows) /\ m.dirty = push.dirty \ (View(push.top) \cap Existing)
    BY <2>1 DEF Delta
  <2>5. r \in DOMAIN m.bonus => m.bonus[r] = Text(r)
    BY <2>3, <2>4
  <2>6. r \in push.dirty => Names(m, r)
    BY <2>2, <2>3, <2>4 DEF Names
  <2>7. AnswerIsRight(m, r)
    BY <2>2 DEF AnswerIsRight
  <2>. QED
    BY <1>1, <1>3, <1>5, <1>6, <2>1, <2>2, <2>5, <2>6, <2>7, NewsAppend
<1>7. CASE UNCHANGED down /\ push.dirty = {}
  BY <1>1, <1>3, <1>5, <1>7, NewsQuiet
<1>. QED
  BY <1>1, <1>6, <1>7

LEMMA NewsAnswerFetch ==
  ASSUME Typed, NewsIsRight, AnswerFetch
  PROVE  NewsIsRight'
<1>1. /\ TerminalOK /\ UNCHANGED <<term, sess, push, held, client>> /\ up # <<>> /\ Head(up).kind = "fetch"
      /\ down' = Append(down, [kind |-> "lines", tag |-> Head(up).tag, lines |-> Read(Head(up).rows)])
  BY DEF Typed, TypeOK, AnswerFetch
<1>2. SUFFICES ASSUME NEW r \in Row, ~Pending(r)'
               PROVE  NewsOf(r)'
  BY DEF NewsIsRight
<1>3. Text(r)' = Text(r) /\ NewsOf(r)
  BY <1>1, <1>2 DEF NewsIsRight, Text, LastChange, Pending, ChangedSince, Existing
<1>4. PICK m : m = [kind |-> "lines", tag |-> Head(up).tag, lines |-> Read(Head(up).rows)]
  OBVIOUS
<1>5. Head(up) \in Request
  BY <1>1, HeadTailProperties DEF Typed, TypeOK, MessagesOK
<1>6. Head(up).tag \in Tag
  BY <1>1, <1>5 DEF Request
<1>7. m \in Message
  BY <1>1, <1>4, <1>6, ReadLines DEF Message, AnswerMessage
<1>8. m.kind = "lines" /\ ~Names(m, r)
  BY <1>4 DEF Names
<1>9. AnswerIsRight(m, r)
  <2>1. \A rows : r \in DOMAIN Read(rows) => Read(rows)[r] = Text(r)
    BY <1>1, ReadLines
  <2>. QED
    BY <1>4, <2>1 DEF AnswerIsRight
<1>. QED
  BY <1>1, <1>3, <1>4, <1>7, <1>8, <1>9, NewsAppend

LEMMA NewsClientStep ==
  ASSUME DeltasOnTime, Typed, NewsIsRight,
         \/ Receive \/ Hold \/ \E m \in held : ApplyHeld(m)
         \/ \E top \in 0 .. client.top : Paint(top)
         \/ Resize
  PROVE  NewsIsRight'
<1>1. /\ UNCHANGED <<term, sess, push>> /\ ClientOK /\ down \in Seq(Message)
      /\ \A m \in held : m \in AnswerMessage
  BY DEF Receive, Hold, ApplyHeld, Paint, Resize, Typed, TypeOK
<1>2. SUFFICES ASSUME NEW r \in Row, ~Pending(r)'
               PROVE  NewsOf(r)'
  BY DEF NewsIsRight
<1>3. Text(r)' = Text(r) /\ NewsOf(r)
  BY <1>1, <1>2 DEF NewsIsRight, Text, LastChange, Pending, ChangedSince, Existing
<1>4. CASE Receive
  <2>1. down # <<>> /\ down' = Tail(down) /\ Apply(Head(down)) /\ UNCHANGED held
    BY <1>4 DEF Receive
  <2>2. Head(down) \in Range(down) /\ Range(down') \subseteq Range(down)
    BY <1>1, <2>1, RangeTail
  <2>3. LastDeltaIsRight(r)'
    BY <1>1, <1>3, <2>1, NewsTail
  <2>4. ASSUME NotNamedAfter(0, r)'
        PROVE  EntryIsRight(r)' /\ \A n \in held' \cup Range(down') : AnswerIsRight(n, r)'
    <3>1. IF Names(Head(down), r)
          THEN r \in DOMAIN Head(down).bonus => Head(down).bonus[r] = Text(r)
          ELSE NotNamedAfter(0, r)
      BY <1>1, <1>3, <2>1, <2>4, NewsTail
    <3>2. ~Names(Head(down), r) => EntryIsRight(r) /\ \A n \in held \cup Range(down) : AnswerIsRight(n, r)
      BY <1>3, <3>1 DEF NewsOf
    <3>3. held' \cup Range(down') \subseteq held \cup Range(down)
      BY <2>1, <2>2
    <3>4. Names(Head(down), r) /\ r \in DOMAIN Head(down).bonus => Head(down).bonus[r] = Text(r)
      BY <3>1
    <3>5. Head(down) \in held \cup Range(down)
      BY <2>2
    <3>. QED
      BY <1>3, <2>1, <3>2, <3>3, <3>4, <3>5, NewsApply
  <2>. QED
    BY <2>3, <2>4 DEF NewsOf
<1>5. CASE Hold
  <2>1. down # <<>> /\ down' = Tail(down) /\ held' = held \cup {Head(down)} /\ UNCHANGED client
        /\ Head(down).kind # "delta"
    BY <1>5 DEF Hold, DeltasOnTime
  <2>2. Head(down) \in Range(down) /\ Range(down') \subseteq Range(down)
    BY <1>1, <2>1, RangeTail
  <2>3. LastDeltaIsRight(r)' /\ (NotNamedAfter(0, r)' => NotNamedAfter(0, r))
    BY <1>1, <1>3, <2>1, NewsTail DEF Names
  <2>4. EntryIsRight(r) => EntryIsRight(r)'
    BY <1>3, <2>1 DEF EntryIsRight
  <2>5. \A m : AnswerIsRight(m, r) => AnswerIsRight(m, r)'
    BY <1>3, <2>1 DEF AnswerIsRight
  <2>. QED
    BY <1>3, <2>1, <2>2, <2>3, <2>4, <2>5 DEF NewsOf
<1>6. CASE \E m \in held : ApplyHeld(m)
  <2>1. PICK m \in held : Apply(m) /\ held' = held \ {m} /\ UNCHANGED down
    BY <1>6 DEF ApplyHeld
  <2>2. ~Names(m, r)
    BY <1>1 DEF Names, AnswerMessage
  <2>3. LastDeltaIsRight(r)'
    BY <1>3, <2>1 DEF NewsOf, LastDeltaIsRight, NotNamedAfter
  <2>4. NotNamedAfter(0, r)' => NotNamedAfter(0, r)
    BY <2>1 DEF NotNamedAfter
  <2>5. ASSUME NotNamedAfter(0, r)
        PROVE  EntryIsRight(r)' /\ \A n \in held' \cup Range(down') : AnswerIsRight(n, r)'
    <3>1. EntryIsRight(r) /\ \A n \in held \cup Range(down) : AnswerIsRight(n, r)
      BY <1>3, <2>5 DEF NewsOf
    <3>2. held' \cup Range(down') \subseteq held \cup Range(down) /\ m \in held \cup Range(down)
      BY <2>1
    <3>. QED
      BY <1>3, <2>1, <2>2, <3>1, <3>2, NewsApply
  <2>. QED
    BY <2>3, <2>4, <2>5 DEF NewsOf
<1>7. CASE \E top \in 0 .. client.top : Paint(top)
  <2>1. PICK top \in 0 .. client.top : Paint(top)
    BY <1>7
  <2>2. FreshTag \in Tag /\ FreshTag \notin InFlight
    BY <2>1, FreshTagIsTag DEF Paint
  <2>3. client'.entries[r] = PaintedEntry(top, FreshTag, r) /\ UNCHANGED <<down, held>>
    BY <1>1, <2>1 DEF Paint, ClientOK
  <2>4. \/ client'.entries[r] = client.entries[r]
        \/ client'.entries[r] = StaleEntry(client.entries[r])
        \/ client'.entries[r] = FetchingEntry(client.entries[r], FreshTag)
    BY <2>3 DEF PaintedEntry
  <2>. QED
    BY <1>1, <1>3, <2>2, <2>3, <2>4, NewsOfStale
<1>8. CASE Resize
  <2>1. /\ client'.entries[r] = IF client.entries[r].kind = "line" THEN StaleEntry(client.entries[r])
                                                                   ELSE client.entries[r]
        /\ UNCHANGED <<down, held>>
    BY <1>1, <1>8 DEF Resize, ClientOK
  <2>. QED
    BY <1>1, <1>3, <2>1, NewsOfStale
<1>. QED
  BY <1>4, <1>5, <1>6, <1>7, <1>8

-----------------------------------------------------------------------------
(* The theorems.                                                           *)

IInv == Typed /\ InBounds /\ Known /\ FetchesAreAnswered /\ NewsIsRight

LEMMA InvariantInit ==
  ASSUME DeltasOnTime, Init
  PROVE  IInv
<1>1. Typed /\ InBounds /\ Known
  BY TypedInit, KnownInit
<1>2. FetchesAreAnswered
  BY DEF Init, FetchesAreAnswered, Absent
<1>3. NewsIsRight
  <2>1. down = <<>> /\ Len(down) = 0 /\ held = {} /\ Range(down) = {}
        /\ \A r \in Row : client.entries[r].kind = "none"
    BY DEF Init, Range, Absent
  <2>. QED
    BY <2>1 DEF NewsIsRight, NewsOf, LastDeltaIsRight, EntryIsRight
<1>. QED
  BY <1>1, <1>2, <1>3 DEF IInv

LEMMA InvariantStep ==
  ASSUME DeltasOnTime, IInv, Next
  PROVE  IInv'
<1>1. Typed /\ InBounds /\ Known /\ FetchesAreAnswered /\ NewsIsRight
  BY DEF IInv
<1>2. Typed' /\ InBounds'
  BY <1>1, TypedTerminalStep, TypedPushStep, TypedClientStep DEF Next
<1>3. Known' /\ FetchesAreAnswered' /\ Bottom' \in Int
  BY <1>1, KnownStep, FetchesStep, BottomGrows
<1>4. NewsIsRight'
  <2>1. CASE Terminal \/ ResizeTerminal \/ Poll \/ StartPush \/ LookAtCursor \/ TakeSeqno \/ ScanRows
    BY <1>1, <1>2, <1>3, <2>1, NewsServerStep
  <2>2. CASE \E other \in BOOLEAN : SendDelta(other)
    BY <1>1, <2>2, NewsSendDelta
  <2>3. CASE AnswerFetch
    BY <1>1, <2>3, NewsAnswerFetch
  <2>4. CASE \/ Receive \/ Hold \/ \E m \in held : ApplyHeld(m)
             \/ \E top \in 0 .. client.top : Paint(top)
             \/ Resize
    BY <1>1, <2>4, NewsClientStep
  <2>. QED
    BY <2>1, <2>2, <2>3, <2>4 DEF Next, Push
<1>. QED
  BY <1>2, <1>3, <1>4 DEF IInv

LEMMA InvariantStutter ==
  ASSUME IInv, UNCHANGED vars
  PROVE  IInv'
<1>1. UNCHANGED <<term, sess, push, up, down, held, client>>
  BY DEF vars
<1>2. Typed' /\ InBounds'
  BY <1>1 DEF IInv, Typed, TypeOK, TerminalOK, SessionOK, MessagesOK, ClientOK, InBounds
<1>3. Known'
  BY <1>1 DEF IInv, Known, KnownClient, KnownRequests, KnownMessages, KnownMessage, Bottom
<1>4. FetchesAreAnswered'
  BY <1>1 DEF IInv, FetchesAreAnswered, Coming
<1>5. NewsIsRight'
  <2>1. SUFFICES ASSUME NEW r \in Row, ~Pending(r)'
                 PROVE  NewsOf(r)'
    BY DEF NewsIsRight
  <2>2. Text(r)' = Text(r) /\ NewsOf(r)
    BY <1>1, <2>1 DEF IInv, NewsIsRight, Text, LastChange, Pending, ChangedSince, Existing
  <2>. QED
    BY <1>1, <2>2, NewsQuiet
<1>. QED
  BY <1>2, <1>3, <1>4, <1>5 DEF IInv

LEMMA InvariantHolds ==
  ASSUME DeltasOnTime
  PROVE  Spec => []IInv
<1>1. Init => IInv
  BY InvariantInit
<1>2. IInv /\ [Next]_vars => IInv'
  BY InvariantStep, InvariantStutter
<1>. QED
  BY <1>1, <1>2, PTL DEF Spec

(* Messages and entries keep their shapes whatever the sizes and however   *)
(* the messages cross.                                                     *)
THEOREM TypeCorrect ==
  ASSUME DeltasOnTime
  PROVE  Spec => []TypeOK
<1>1. IInv => TypeOK
  BY DEF IInv, Typed
<1>. QED
  BY <1>1, InvariantHolds, PTL

(* A line the client shows as up to date is, or the server has yet to look *)
(* at the change, or a message that names the row has yet to be applied.   *)
THEOREM StaleLinesAreKnown ==
  ASSUME DeltasOnTime
  PROVE  Spec => []StaleIsKnown
<1>1. IInv => StaleIsKnown
  <2>1. SUFFICES ASSUME IInv, NEW r \in Row, ~Pending(r),
                        client.entries[r].kind = "line", client.entries[r].text # Text(r)
                 PROVE  \E m \in held \cup Range(down) : Names(m, r)
    BY DEF StaleIsKnown
  <2>2. ~NotNamedAfter(0, r)
    BY <2>1 DEF IInv, NewsIsRight, NewsOf, EntryIsRight
  <2>3. PICK i \in 1 .. Len(down) : Names(down[i], r)
    BY <2>2 DEF NotNamedAfter
  <2>4. down[i] \in Range(down)
    BY <2>1, RangeMembers DEF IInv, Typed
  <2>. QED
    BY <2>3, <2>4
<1>. QED
  BY <1>1, InvariantHolds, PTL

(* A row that waits for its text has the text asked for or on its way: no  *)
(* entry waits for ever.                                                   *)
THEOREM FetchesHaveAnswers ==
  ASSUME DeltasOnTime
  PROVE  Spec => []FetchesAreAnswered
<1>1. IInv => FetchesAreAnswered
  BY DEF IInv
<1>. QED
  BY <1>1, InvariantHolds, PTL

-----------------------------------------------------------------------------
(* No row goes back: the texts of a row that are on their way are in the   *)
(* order in which the terminal wrote them, and none that may still be put  *)
(* is older than the one the client has.                                   *)

Content(m) == IF m.kind = "delta" THEN m.bonus ELSE m.lines

WrittenOf(r) ==
  \A m \in held \cup Range(down) : r \in DOMAIN Content(m) => Content(m)[r][2] <= LastChange(r)

(* Answers that are held came before all that is in the queue.             *)
SentInOrder(r) ==
  \A j \in 1 .. Len(down) : r \in DOMAIN Content(down[j]) =>
    /\ \A i \in 1 .. Len(down) : i < j /\ r \in DOMAIN Content(down[i]) =>
         Content(down[i])[r][2] <= Content(down[j])[r][2]
    /\ \A m \in held : r \in DOMAIN Content(m) => Content(m)[r][2] <= Content(down[j])[r][2]

MayBePut(m, r) ==
  r \in DOMAIN Content(m) /\ (m.kind = "lines" => m.tag = client.entries[r].tag)

EntryBefore(r) ==
  HasText(client.entries[r]) =>
    /\ client.entries[r].text[2] <= LastChange(r)
    /\ \A m \in held \cup Range(down) :
         MayBePut(m, r) => client.entries[r].text[2] <= Content(m)[r][2]

InOrderOf(r) == WrittenOf(r) /\ SentInOrder(r) /\ EntryBefore(r)

InOrder == \A r \in Row : InOrderOf(r)

LEMMA ContentTyped ==
  ASSUME NEW m \in Message, NEW r \in DOMAIN Content(m)
  PROVE  Content(m)[r][2] \in Nat
<1>1. CASE m.kind = "delta"
  <2>1. m.bonus \in Lines
    BY <1>1, MessageKinds DEF DeltaMessage
  <2>. QED
    BY <1>1, <2>1, LinesAreFunctions, TextSeqno DEF Content
<1>2. CASE m.kind = "lines"
  <2>1. m.lines \in Lines
    BY <1>2, MessageKinds DEF AnswerMessage
  <2>. QED
    BY <1>2, <2>1, LinesAreFunctions, TextSeqno DEF Content
<1>. QED
  BY <1>1, <1>2, MessageKinds

LEMMA EntryTextTyped ==
  ASSUME ClientOK, NEW r \in Row
  PROVE  client.entries[r].text[2] \in Nat
<1>1. client.entries[r].text \in BOOLEAN \X Nat
  BY DEF ClientOK, Entry
<1>. QED
  BY <1>1, TextSeqno

(* What entries that are not up to date keep of the text they had.         *)
LEMMA TextsOfEntries ==
  ASSUME ClientOK, NEW r \in Row, NEW t, NEW e,
         \/ e = Absent \/ e = StaleEntry(client.entries[r]) \/ e = FetchingEntry(client.entries[r], t)
  PROVE  /\ HasText(e) => HasText(client.entries[r]) /\ e.text = client.entries[r].text
         /\ e.tag = None \/ e.tag = t
<1>1. client.entries[r] \in Entry
  BY DEF ClientOK
<1>2. CASE e = Absent
  BY <1>2 DEF Absent, HasText
<1>3. CASE e = StaleEntry(client.entries[r])
  BY <1>1, <1>3 DEF StaleEntry, Absent, HasText, Entry
<1>4. CASE e = FetchingEntry(client.entries[r], t)
  <2>1. CASE HasText(client.entries[r])
    BY <1>1, <1>4, <2>1 DEF FetchingEntry, Entry
  <2>2. CASE ~HasText(client.entries[r])
    BY <1>4, <2>2 DEF FetchingEntry, Absent, HasText
  <2>. QED
    BY <2>1, <2>2
<1>. QED
  BY <1>2, <1>3, <1>4

(* What applying a message does to an entry: nothing, its text is put, or  *)
(* the text stays and no answer on its way will be put.                    *)
LEMMA ApplyEffect ==
  ASSUME Typed, NEW r \in Row, NEW m \in Message, Apply(m)
  PROVE  \/ client'.entries[r] = client.entries[r]
         \/ /\ MayBePut(m, r)
            /\ client'.entries[r].text = Content(m)[r] /\ client'.entries[r].tag = None
         \/ /\ HasText(client'.entries[r]) =>
                 HasText(client.entries[r]) /\ client'.entries[r].text = client.entries[r].text
            /\ client'.entries[r].tag = None \/ client'.entries[r].tag \notin InFlight
<1>1. ClientOK /\ client.entries[r] \in Entry
  BY DEF Typed, TypeOK, ClientOK
<1>2. CASE m.kind = "delta"
  <2>1. PICK t : (t = None \/ t \notin InFlight) /\ client' = Applied(m, t)
    BY <1>2, FreshTagIsTag DEF Apply, ApplyDelta
  <2>2. client'.entries[r] = EntryAfter(m, t, r)
    BY <2>1 DEF Applied
  <2>3. CASE r \in DOMAIN m.bonus
    <3>1. client'.entries[r] = LineEntry(m.bonus[r], m.bonus[r][2])
      BY <2>2, <2>3 DEF EntryAfter, Unsent, ToFetch
    <3>2. client'.entries[r].text = m.bonus[r] /\ client'.entries[r].tag = None
      BY <3>1 DEF LineEntry
    <3>. QED
      BY <1>2, <2>3, <3>2 DEF MayBePut, Content
  <2>4. CASE r \notin DOMAIN m.bonus /\ r \in Unsent(m)
    <3>1. \/ client'.entries[r] = Absent
          \/ client'.entries[r] = StaleEntry(client.entries[r])
          \/ client'.entries[r] = FetchingEntry(client.entries[r], t)
      BY <2>2, <2>4 DEF EntryAfter
    <3>. QED
      BY <1>1, <2>1, <3>1, TextsOfEntries
  <2>5. CASE r \notin DOMAIN m.bonus /\ r \notin Unsent(m)
    BY <2>2, <2>5 DEF EntryAfter, ToFetch
  <2>. QED
    BY <2>3, <2>4, <2>5
<1>3. CASE m.kind = "lines"
  <2>1. client'.entries[r] = PutFetched(m, client.entries[r], r)
    BY <1>1, <1>3 DEF Apply, ApplyLines, ClientOK
  <2>2. CASE r \in DOMAIN m.lines /\ client.entries[r].tag = m.tag
    <3>1. client'.entries[r].text = m.lines[r] /\ client'.entries[r].tag = None
      BY <2>1, <2>2 DEF PutFetched, LineEntry
    <3>. QED
      BY <1>3, <2>2, <3>1 DEF MayBePut, Content
  <2>3. CASE ~(r \in DOMAIN m.lines /\ client.entries[r].tag = m.tag)
    BY <2>1, <2>3 DEF PutFetched
  <2>. QED
    BY <2>2, <2>3
<1>. QED
  BY <1>2, <1>3, MessageKinds

(* The text of the entry stays, and no answer on its way will be put.      *)
LEMMA OrderKeepsText ==
  ASSUME Typed, NEW r \in Row, InOrderOf(r), held' \cup Range(down') \subseteq held \cup Range(down),
         UNCHANGED term,
         \/ client'.entries[r] = client.entries[r]
         \/ /\ HasText(client'.entries[r]) =>
                 HasText(client.entries[r]) /\ client'.entries[r].text = client.entries[r].text
            /\ client'.entries[r].tag = None \/ client'.entries[r].tag \notin InFlight
  PROVE  EntryBefore(r)'
<1>1. \A n \in held \cup Range(down) :
         n.kind \in {"delta", "lines"} /\ (n.kind = "lines" => n.tag \in InFlight /\ n.tag # None)
  <2>1. \A n \in held \cup Range(down) : n \in Message
    BY RangeMembers DEF Typed, Message
  <2>2. \A n \in held \cup Range(down) : n.kind = "lines" => n.tag # None
    BY <2>1, MessageKinds, NoneIsNoTag DEF AnswerMessage
  <2>. QED
    BY <2>1, <2>2, MessageKinds DEF InFlight
<1>2. LastChange(r)' = LastChange(r)
  BY DEF LastChange
<1>3. SUFFICES ASSUME HasText(client'.entries[r])
               PROVE  /\ client'.entries[r].text[2] <= LastChange(r)
                      /\ \A n \in held' \cup Range(down') :
                           MayBePut(n, r)' => client'.entries[r].text[2] <= Content(n)[r][2]
  BY <1>2 DEF EntryBefore
<1>4. HasText(client.entries[r]) /\ client'.entries[r].text = client.entries[r].text
  BY <1>3
<1>5. \A n \in held' \cup Range(down') : MayBePut(n, r)' => MayBePut(n, r)
  BY <1>1 DEF MayBePut
<1>. QED
  BY <1>4, <1>5 DEF InOrderOf, EntryBefore

(* A message is applied; what is left in the queue was sent after it.      *)
LEMMA OrderApply ==
  ASSUME Typed, NEW r \in Row, InOrderOf(r), NEW m \in held \cup Range(down), Apply(m), UNCHANGED term,
         held' \cup Range(down') \subseteq held \cup Range(down), held' \subseteq held,
         \A n \in Range(down') :
           r \in DOMAIN Content(m) /\ r \in DOMAIN Content(n) => Content(m)[r][2] <= Content(n)[r][2]
  PROVE  /\ EntryBefore(r)'
         /\ HasText(client.entries[r]) /\ HasText(client'.entries[r]) =>
              client'.entries[r].text[2] >= client.entries[r].text[2]
<1>1. ClientOK /\ m \in Message /\ (\A n \in held : n.kind = "lines" /\ n.tag # None)
      /\ \A n \in Range(down) : n.kind = "lines" => n.tag # None
  <2>1. \A n \in held \cup Range(down) : n \in Message
    BY RangeMembers DEF Typed, Message
  <2>2. \A n \in held \cup Range(down) : n.kind = "lines" => n.tag # None
    BY <2>1, MessageKinds, NoneIsNoTag DEF AnswerMessage
  <2>3. \A n \in held : n.kind = "lines"
    BY DEF Typed, AnswerMessage
  <2>. QED
    BY <2>1, <2>2, <2>3 DEF Typed, TypeOK
<1>2. client.entries[r].text[2] \in Nat
  BY <1>1, EntryTextTyped
<1>3. CASE /\ MayBePut(m, r)
           /\ client'.entries[r].text = Content(m)[r] /\ client'.entries[r].tag = None
  <2>1. Content(m)[r][2] \in Nat /\ Content(m)[r][2] <= LastChange(r)
    BY <1>1, <1>3, ContentTyped DEF MayBePut, InOrderOf, WrittenOf
  <2>2. HasText(client.entries[r]) => client.entries[r].text[2] <= Content(m)[r][2]
    BY <1>3 DEF InOrderOf, EntryBefore
  <2>3. LastChange(r)' = LastChange(r)
    BY DEF LastChange
  <2>4. \A n \in held' \cup Range(down') : MayBePut(n, r)' => n \in Range(down') /\ r \in DOMAIN Content(n)
    BY <1>1, <1>3 DEF MayBePut
  <2>5. EntryBefore(r)'
    BY <1>3, <2>1, <2>3, <2>4 DEF EntryBefore, MayBePut
  <2>. QED
    BY <1>2, <1>3, <2>1, <2>2, <2>5
<1>4. CASE client'.entries[r] = client.entries[r]
  BY <1>2, <1>4, OrderKeepsText
<1>5. CASE /\ HasText(client'.entries[r]) =>
                HasText(client.entries[r]) /\ client'.entries[r].text = client.entries[r].text
           /\ client'.entries[r].tag = None \/ client'.entries[r].tag \notin InFlight
  BY <1>2, <1>5, OrderKeepsText
<1>. QED
  BY <1>1, <1>3, <1>4, <1>5, ApplyEffect

LEMMA TextsTyped ==
  ASSUME Typed, NEW r \in Row
  PROVE  /\ LastChange(r) \in Nat /\ client.entries[r].text[2] \in Nat
         /\ \A m \in held \cup Range(down) : r \in DOMAIN Content(m) => Content(m)[r][2] \in Nat
<1>1. \A m \in held \cup Range(down) : m \in Message
  BY RangeMembers DEF Typed, Message
<1>2. LastChange(r) \in Nat
  BY ExistingRows DEF Typed, TypeOK
<1>. QED
  BY <1>1, <1>2, ContentTyped, EntryTextTyped DEF Typed, TypeOK

(* The terminal writes on. *)
LEMMA OrderQuiet ==
  ASSUME Typed, NEW r \in Row, InOrderOf(r), UNCHANGED <<down, held, client>>,
         LastChange(r)' \in Nat, LastChange(r) <= LastChange(r)'
  PROVE  InOrderOf(r)'
<1>1. /\ LastChange(r) \in Nat /\ client.entries[r].text[2] \in Nat
      /\ \A m \in held \cup Range(down) : r \in DOMAIN Content(m) => Content(m)[r][2] \in Nat
  BY TextsTyped
<1>2. WrittenOf(r)'
  BY <1>1 DEF InOrderOf, WrittenOf
<1>3. SentInOrder(r)'
  BY DEF InOrderOf, SentInOrder
<1>4. \A m : MayBePut(m, r)' => MayBePut(m, r)
  BY DEF MayBePut
<1>5. EntryBefore(r)'
  BY <1>1, <1>4 DEF InOrderOf, EntryBefore
<1>. QED
  BY <1>2, <1>3, <1>5 DEF InOrderOf

(* A message with the text that the row has now is sent.                   *)
LEMMA OrderAppend ==
  ASSUME Typed, NEW r \in Row, InOrderOf(r), NEW m \in Message, down' = Append(down, m),
         UNCHANGED <<term, held, client>>,
         r \in DOMAIN Content(m) => Content(m)[r][2] = LastChange(r)
  PROVE  InOrderOf(r)'
<1>. DEFINE n == Len(down)
<1>1. /\ n \in Nat /\ Len(down') = n + 1 /\ down'[n + 1] = m
      /\ \A i \in 1 .. n : down'[i] = down[i]
  BY AppendProperties, LenProperties DEF Typed
<1>2. Range(down') = Range(down) \cup {m} /\ \A i \in 1 .. n : down[i] \in Range(down)
  BY RangeAppend, RangeMembers DEF Typed
<1>. HIDE DEF n
<1>3. \A i \in 1 .. n + 1 : i = n + 1 \/ i \in 1 .. n
  BY <1>1
<1>4. LastChange(r)' = LastChange(r) /\ LastChange(r) \in Nat
  BY TextsTyped DEF LastChange
<1>5. WrittenOf(r)'
  BY <1>2, <1>4 DEF InOrderOf, WrittenOf
<1>6. SentInOrder(r)'
  <2>1. SUFFICES ASSUME NEW j \in 1 .. n + 1, r \in DOMAIN Content(down'[j])
                 PROVE  /\ \A i \in 1 .. n + 1 : i < j /\ r \in DOMAIN Content(down'[i]) =>
                             Content(down'[i])[r][2] <= Content(down'[j])[r][2]
                        /\ \A k \in held : r \in DOMAIN Content(k) =>
                             Content(k)[r][2] <= Content(down'[j])[r][2]
    BY <1>1 DEF SentInOrder
  <2>2. CASE j = n + 1
    <3>1. Content(down'[j])[r][2] = LastChange(r)
      BY <1>1, <2>1, <2>2
    <3>2. \A i \in 1 .. n + 1 : i < j => i \in 1 .. n /\ down'[i] \in Range(down)
      BY <1>1, <1>2, <2>2
    <3>. QED
      BY <3>1, <3>2 DEF InOrderOf, WrittenOf
  <2>3. CASE j \in 1 .. n
    <3>1. \A i \in 1 .. n + 1 : i < j => i \in 1 .. n
      BY <1>1, <2>3
    <3>. QED
      BY <1>1, <2>1, <2>3, <3>1 DEF InOrderOf, SentInOrder, n
  <2>. QED
    BY <1>3, <2>2, <2>3
<1>7. \A k : MayBePut(k, r)' => MayBePut(k, r)
  BY DEF MayBePut
<1>8. MayBePut(m, r) => Content(m)[r][2] = LastChange(r)
  BY DEF MayBePut
<1>9. EntryBefore(r)'
  BY <1>2, <1>4, <1>7, <1>8 DEF InOrderOf, EntryBefore
<1>. QED
  BY <1>5, <1>6, <1>9 DEF InOrderOf

(* The first message is taken, and put aside or applied.                   *)
LEMMA OrderTail ==
  ASSUME Typed, NEW r \in Row, InOrderOf(r), down # <<>>, down' = Tail(down),
         held' \subseteq held \cup {Head(down)}, UNCHANGED term
  PROVE  /\ WrittenOf(r)' /\ SentInOrder(r)'
         /\ \A k \in Range(down') : r \in DOMAIN Content(Head(down)) /\ r \in DOMAIN Content(k) =>
              Content(Head(down))[r][2] <= Content(k)[r][2]
<1>. DEFINE n == Len(down)
<1>1. n \in Nat \ {0} /\ Head(down) = down[1] /\ 1 \in 1 .. n
  BY EmptySeq DEF Typed
<1>2. down' \in Seq(Message) /\ Len(down') = n - 1 /\ \A i \in 1 .. n - 1 : down'[i] = down[i + 1]
  BY HeadTailProperties DEF Typed
<1>3. Range(down') = {down'[i] : i \in 1 .. n - 1}
  <2>1. \A s \in Seq(Message) : Range(s) = {s[i] : i \in 1 .. Len(s)}
    BY RangeMembers
  <2>. QED
    BY <1>2, <2>1
<1>4. Range(down') \subseteq Range(down) /\ Head(down) \in Range(down)
  BY RangeTail DEF Typed
<1>. HIDE DEF n
<1>5. LastChange(r)' = LastChange(r)
  BY DEF LastChange
<1>6. WrittenOf(r)'
  BY <1>4, <1>5 DEF InOrderOf, WrittenOf
<1>7. ASSUME NEW j \in 1 .. n - 1, r \in DOMAIN Content(down'[j])
      PROVE  /\ r \in DOMAIN Content(Head(down)) =>
                  Content(Head(down))[r][2] <= Content(down'[j])[r][2]
             /\ \A i \in 1 .. n - 1 : i < j /\ r \in DOMAIN Content(down'[i]) =>
                  Content(down'[i])[r][2] <= Content(down'[j])[r][2]
             /\ \A k \in held : r \in DOMAIN Content(k) => Content(k)[r][2] <= Content(down'[j])[r][2]
  <2>1. down'[j] = down[j + 1] /\ j + 1 \in 1 .. n /\ 1 < j + 1
    BY <1>1, <1>2
  <2>2. \A i \in 1 .. n - 1 : i < j => down'[i] = down[i + 1] /\ i + 1 \in 1 .. n /\ i + 1 < j + 1
    BY <1>1, <1>2
  <2>. QED
    BY <1>1, <1>7, <2>1, <2>2 DEF InOrderOf, SentInOrder, n
<1>8. SentInOrder(r)'
  BY <1>2, <1>7 DEF SentInOrder
<1>9. \A k \in Range(down') : r \in DOMAIN Content(Head(down)) /\ r \in DOMAIN Content(k) =>
        Content(Head(down))[r][2] <= Content(k)[r][2]
  BY <1>3, <1>7
<1>. QED
  BY <1>6, <1>8, <1>9

Numbered == \A r \in Row : LastChange(r) <= term.seqno

(* The terminal numbers its changes upwards.                               *)
LEMMA NumberedStep ==
  ASSUME DeltasOnTime, Typed, InBounds, Numbered, Next
  PROVE  Numbered' /\ \A r \in Row : LastChange(r)' \in Nat /\ LastChange(r) <= LastChange(r)'
<1>1. /\ TerminalOK /\ term.seqno \in Nat /\ term.alt = FALSE
      /\ term.lines \in [BOOLEAN -> [Row -> Nat]]
  BY DEF Typed, TypeOK, InBounds, TerminalOK
<1>2. \A r \in Row : term.lines[FALSE][r] \in Nat /\ LastChange(r) = term.lines[FALSE][r]
                     /\ term.lines[FALSE][r] <= term.seqno
  BY <1>1 DEF Numbered, LastChange
<1>3. ASSUME NEW rows, term'.alt = FALSE, term'.seqno = term.seqno + 1,
             \A r \in Row : term'.lines[FALSE][r] = IF r \in rows THEN term.seqno + 1 ELSE term.lines[FALSE][r]
      PROVE  Numbered' /\ \A r \in Row : LastChange(r)' \in Nat /\ LastChange(r) <= LastChange(r)'
  <2>1. \A r \in Row : LastChange(r)' = term'.lines[FALSE][r]
    BY <1>3 DEF LastChange
  <2>2. \A r \in Row : /\ term'.lines[FALSE][r] \in Nat /\ term'.lines[FALSE][r] <= term.seqno + 1
                       /\ term.lines[FALSE][r] <= term'.lines[FALSE][r]
    <3>1. SUFFICES ASSUME NEW r \in Row
                   PROVE  /\ term'.lines[FALSE][r] \in Nat /\ term'.lines[FALSE][r] <= term.seqno + 1
                          /\ term.lines[FALSE][r] <= term'.lines[FALSE][r]
      OBVIOUS
    <3>2. term.lines[FALSE][r] \in Nat /\ term.lines[FALSE][r] <= term.seqno /\ term.seqno \in Nat
      BY <1>1, <1>2
    <3>3. term'.lines[FALSE][r] = term.seqno + 1 \/ term'.lines[FALSE][r] = term.lines[FALSE][r]
      BY <1>3
    <3>4. \A a, b, c : a \in Nat /\ c \in Nat /\ a <= c /\ (b = c + 1 \/ b = a) =>
            b \in Nat /\ b <= c + 1 /\ a <= b
      OBVIOUS
    <3>. QED
      BY <3>2, <3>3, <3>4
  <2>. QED
    BY <1>2, <1>3, <2>1, <2>2 DEF Numbered
<1>4. CASE UNCHANGED term
  <2>1. \A r \in Row : LastChange(r)' = LastChange(r) /\ LastChange(r) \in Nat
    BY <1>2, <1>4 DEF LastChange
  <2>2. term'.seqno = term.seqno
    BY <1>4
  <2>. QED
    BY <2>1, <2>2 DEF Numbered
<1>5. CASE Terminal
  <2>1. PICK top \in term.top .. MaxTop, cursor \in Row :
               \E rows \in SUBSET (term.top .. top + Height - 1) : Output(rows, top, cursor)
    BY <1>1, <1>5 DEF Terminal
  <2>2. PICK rows \in SUBSET (term.top .. top + Height - 1) : Output(rows, top, cursor)
    BY <2>1
  <2>3. /\ term'.alt = FALSE /\ term'.seqno = term.seqno + 1
        /\ term'.lines = Write(FALSE, rows, term.lines)
    BY <1>1, <2>2 DEF Output, TerminalOK
  <2>4. \A r \in Row : term'.lines[FALSE][r] = IF r \in rows THEN term.seqno + 1 ELSE term.lines[FALSE][r]
    BY <1>1, <2>3 DEF Write
  <2>. QED
    BY <1>3, <2>3, <2>4
<1>6. CASE ResizeTerminal
  <2>. DEFINE alternate == Write(TRUE, View(0), term.lines)
              rows == 0 .. term.top + Height - 1
  <2>1. /\ term'.alt = FALSE /\ term'.seqno = term.seqno + 1
        /\ term'.lines = Write(FALSE, rows, alternate)
    BY <1>1, <1>6 DEF ResizeTerminal, TerminalOK
  <2>2. alternate \in [BOOLEAN -> [Row -> Nat]]
    BY <1>1, WriteTyped
  <2>3. \A r \in Row : alternate[FALSE][r] = term.lines[FALSE][r]
    BY <1>1 DEF Write
  <2>. HIDE DEF alternate, rows
  <2>4. \A r \in Row : term'.lines[FALSE][r] = IF r \in rows THEN term.seqno + 1 ELSE alternate[FALSE][r]
    BY <2>1, <2>2 DEF Write
  <2>. QED
    BY <1>3, <2>1, <2>3, <2>4
<1>. QED
  BY <1>4, <1>5, <1>6 DEF Next, Push, Poll, StartPush, LookAtCursor, TakeSeqno, ScanRows, SendDelta,
                          AnswerFetch, Receive, Hold, ApplyHeld, Paint, Resize

NeverBack(r) ==
  HasText(client.entries[r]) /\ HasText(client'.entries[r]) =>
    client'.entries[r].text[2] >= client.entries[r].text[2]

LEMMA OrderStep ==
  ASSUME DeltasOnTime, Typed, InBounds, Numbered, InOrder, Next, NEW r \in Row
  PROVE  InOrderOf(r)' /\ NeverBack(r)
<1>1. /\ TerminalOK /\ ClientOK /\ down \in Seq(Message) /\ InOrderOf(r)
      /\ (\A m \in held : m \in Message /\ m.kind = "lines")
      /\ client.entries[r].text[2] \in Nat
  BY TextsTyped DEF Typed, TypeOK, Message, AnswerMessage, InOrder
<1>2. LastChange(r)' \in Nat /\ LastChange(r) <= LastChange(r)'
  BY NumberedStep
<1>3. CASE Terminal \/ ResizeTerminal \/ Poll \/ StartPush \/ LookAtCursor \/ TakeSeqno \/ ScanRows
  <2>1. UNCHANGED <<down, held, client>>
    BY <1>3 DEF Terminal, Output, ResizeTerminal, Poll, StartPush, LookAtCursor,
                TakeSeqno, ScanRows
  <2>. QED
    BY <1>1, <1>2, <2>1, OrderQuiet DEF NeverBack
<1>4. CASE \E other \in BOOLEAN : SendDelta(other)
  <2>1. /\ UNCHANGED <<term, held, client>> /\ push.phase = "send"
        /\ UNCHANGED down \/ down' = Append(down, Delta)
    BY <1>4 DEF SendDelta
  <2>2. PICK m : m = Delta
    OBVIOUS
  <2>. DEFINE rows == (push.dirty \cap View(push.top)) \cup {push.cursor}
  <2>3. m \in Message /\ Content(m) = Read(rows)
    BY <2>1, <2>2, DeltaTyped DEF Delta, Content
  <2>4. r \in DOMAIN Read(rows) => Read(rows)[r] = Text(r)
    BY <1>1, ReadLines
  <2>5. r \in DOMAIN Content(m) => Content(m)[r][2] = LastChange(r)
    BY <2>3, <2>4 DEF Text
  <2>. QED
    BY <1>1, <1>2, <2>1, <2>2, <2>3, <2>5, OrderAppend, OrderQuiet DEF NeverBack
<1>5. CASE AnswerFetch
  <2>1. /\ UNCHANGED <<term, held, client>> /\ up # <<>> /\ Head(up).kind = "fetch"
        /\ down' = Append(down, [kind |-> "lines", tag |-> Head(up).tag, lines |-> Read(Head(up).rows)])
    BY <1>5 DEF AnswerFetch
  <2>2. PICK m : m = [kind |-> "lines", tag |-> Head(up).tag, lines |-> Read(Head(up).rows)]
    OBVIOUS
  <2>3. Head(up) \in Request
    BY <2>1, HeadTailProperties DEF Typed, TypeOK, MessagesOK
  <2>4. Head(up).tag \in Tag
    BY <2>1, <2>3 DEF Request
  <2>5. m \in Message /\ Content(m) = Read(Head(up).rows)
    BY <1>1, <2>2, <2>4, ReadLines DEF Message, AnswerMessage, Content
  <2>6. \A rows : r \in DOMAIN Read(rows) => Read(rows)[r] = Text(r)
    BY <1>1, ReadLines
  <2>7. r \in DOMAIN Content(m) => Content(m)[r][2] = LastChange(r)
    BY <2>5, <2>6 DEF Text
  <2>. QED
    BY <1>1, <2>1, <2>2, <2>5, <2>7, OrderAppend DEF NeverBack
<1>6. CASE Receive
  <2>1. down # <<>> /\ down' = Tail(down) /\ Apply(Head(down)) /\ UNCHANGED <<term, held>>
    BY <1>6 DEF Receive
  <2>2. Head(down) \in Range(down) /\ Range(down') \subseteq Range(down)
    BY <1>1, <2>1, RangeTail
  <2>3. /\ WrittenOf(r)' /\ SentInOrder(r)'
        /\ \A k \in Range(down') : r \in DOMAIN Content(Head(down)) /\ r \in DOMAIN Content(k) =>
             Content(Head(down))[r][2] <= Content(k)[r][2]
    BY <1>1, <2>1, OrderTail
  <2>4. EntryBefore(r)' /\ NeverBack(r)
    BY <1>1, <2>1, <2>2, <2>3, OrderApply DEF NeverBack
  <2>. QED
    BY <2>3, <2>4 DEF InOrderOf
<1>7. CASE Hold
  <2>1. down # <<>> /\ down' = Tail(down) /\ held' = held \cup {Head(down)} /\ UNCHANGED <<term, client>>
    BY <1>7 DEF Hold
  <2>2. Head(down) \in Range(down) /\ Range(down') \subseteq Range(down)
    BY <1>1, <2>1, RangeTail
  <2>3. WrittenOf(r)' /\ SentInOrder(r)'
    BY <1>1, <2>1, OrderTail
  <2>4. EntryBefore(r)'
    BY <1>1, <2>1, <2>2, OrderKeepsText
  <2>. QED
    BY <1>1, <2>1, <2>3, <2>4 DEF InOrderOf, NeverBack
<1>8. CASE \E m \in held : ApplyHeld(m)
  <2>1. PICK m \in held : Apply(m) /\ held' = held \ {m} /\ UNCHANGED <<term, down>>
    BY <1>8 DEF ApplyHeld
  <2>2. WrittenOf(r)' /\ SentInOrder(r)'
    <3>1. LastChange(r)' = LastChange(r)
      BY <2>1 DEF LastChange
    <3>. QED
      BY <1>1, <2>1, <3>1 DEF InOrderOf, WrittenOf, SentInOrder
  <2>3. \A k \in Range(down') : r \in DOMAIN Content(m) /\ r \in DOMAIN Content(k) =>
          Content(m)[r][2] <= Content(k)[r][2]
    BY <1>1, <2>1, RangeMembers DEF InOrderOf, SentInOrder
  <2>4. EntryBefore(r)' /\ NeverBack(r)
    BY <1>1, <2>1, <2>3, OrderApply DEF NeverBack
  <2>. QED
    BY <2>2, <2>4 DEF InOrderOf
<1>9. CASE (\E top \in 0 .. client.top : Paint(top)) \/ Resize
  <2>1. /\ UNCHANGED <<term, down, held>>
        /\ \/ client'.entries[r] = client.entries[r]
           \/ /\ HasText(client'.entries[r]) =>
                   HasText(client.entries[r]) /\ client'.entries[r].text = client.entries[r].text
              /\ client'.entries[r].tag = None \/ client'.entries[r].tag \notin InFlight
    <3>1. CASE Resize
      <4>1. client'.entries[r] = client.entries[r] \/ client'.entries[r] = StaleEntry(client.entries[r])
        BY <1>1, <3>1 DEF Resize, ClientOK
      <4>2. \A e : e = StaleEntry(client.entries[r]) =>
              (HasText(e) => HasText(client.entries[r]) /\ e.text = client.entries[r].text) /\ e.tag = None
        BY <1>1, TextsOfEntries, TagsOfEntries
      <4>. QED
        BY <3>1, <4>1, <4>2 DEF Resize
    <3>2. CASE \E top \in 0 .. client.top : Paint(top)
      <4>1. PICK top \in 0 .. client.top : Paint(top)
        BY <3>2
      <4>2. FreshTag \notin InFlight
        BY <4>1, FreshTagIsTag DEF Paint
      <4>3. client'.entries[r] = PaintedEntry(top, FreshTag, r) /\ UNCHANGED <<term, down, held>>
        BY <1>1, <4>1 DEF Paint, ClientOK
      <4>4. \/ client'.entries[r] = client.entries[r]
            \/ client'.entries[r] = StaleEntry(client.entries[r])
            \/ client'.entries[r] = FetchingEntry(client.entries[r], FreshTag)
        BY <4>3 DEF PaintedEntry
      <4>5. \/ client'.entries[r] = client.entries[r]
            \/ /\ HasText(client'.entries[r]) =>
                    HasText(client.entries[r]) /\ client'.entries[r].text = client.entries[r].text
               /\ client'.entries[r].tag = None \/ client'.entries[r].tag = FreshTag
        BY <1>1, <4>4, TextsOfEntries
      <4>. QED
        BY <4>2, <4>3, <4>5
    <3>. QED
      BY <1>9, <3>1, <3>2
  <2>2. EntryBefore(r)'
    BY <1>1, <2>1, OrderKeepsText
  <2>3. WrittenOf(r)' /\ SentInOrder(r)'
    <3>1. LastChange(r)' = LastChange(r)
      BY <2>1 DEF LastChange
    <3>. QED
      BY <1>1, <2>1, <3>1 DEF InOrderOf, WrittenOf, SentInOrder
  <2>4. NeverBack(r)
    BY <1>1, <2>1 DEF NeverBack
  <2>. QED
    BY <2>2, <2>3, <2>4 DEF InOrderOf
<1>. QED
  BY <1>3, <1>4, <1>5, <1>6, <1>7, <1>8, <1>9 DEF Next, Push

OrderInv == Numbered /\ InOrder

LEMMA OrderInit ==
  ASSUME Init
  PROVE  OrderInv
<1>1. /\ Len(down) = 0 /\ held = {} /\ Range(down) = {}
      /\ \A r \in Row : LastChange(r) = 1 /\ ~HasText(client.entries[r])
      /\ term.seqno = 1
  BY DEF Init, Range, Absent, HasText, LastChange
<1>2. Numbered
  BY <1>1 DEF Numbered
<1>3. InOrder
  BY <1>1 DEF InOrder, InOrderOf, WrittenOf, SentInOrder, EntryBefore
<1>. QED
  BY <1>2, <1>3 DEF OrderInv

LEMMA OrderPreserved ==
  ASSUME DeltasOnTime, IInv, OrderInv, [Next]_vars
  PROVE  OrderInv' /\ \A r \in Row : NeverBack(r)
<1>1. CASE Next
  BY <1>1, NumberedStep, OrderStep DEF IInv, OrderInv, InOrder
<1>2. CASE UNCHANGED vars
  <2>1. UNCHANGED <<term, down, held, client>>
    BY <1>2 DEF vars
  <2>2. \A r \in Row : LastChange(r)' = LastChange(r) /\ LastChange(r) \in Nat
    BY <2>1, ExistingRows DEF LastChange, IInv, Typed, TypeOK
  <2>3. Numbered'
    BY <2>1, <2>2 DEF Numbered, OrderInv
  <2>4. InOrder'
    BY <2>1, <2>2, OrderQuiet DEF InOrder, OrderInv, IInv
  <2>5. \A r \in Row : client.entries[r].text[2] \in Nat
    BY TextsTyped DEF IInv
  <2>. QED
    BY <2>1, <2>3, <2>4, <2>5 DEF OrderInv, NeverBack
<1>. QED
  BY <1>1, <1>2

(* In whichever order deltas and answers are applied, the text the client  *)
(* has of a row is never replaced by an older one.                         *)
THEOREM RowsGoForward ==
  ASSUME DeltasOnTime
  PROVE  Spec => RowsNeverGoBack
<1>. DEFINE Forward == \A r \in Row : NeverBack(r)
<1>1. Init => OrderInv
  BY OrderInit
<1>2. IInv /\ OrderInv /\ [Next]_vars => OrderInv' /\ Forward
  BY OrderPreserved
<1>3. Forward => [\A r \in Row : HasText(client.entries[r]) /\ HasText(client'.entries[r])
                    => client'.entries[r].text[2] >= client.entries[r].text[2]]_vars
  BY DEF NeverBack
<1>. QED
  BY <1>1, <1>2, <1>3, InvariantHolds, PTL DEF Spec, RowsNeverGoBack

=============================================================================

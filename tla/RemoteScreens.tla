--------------------------- MODULE RemoteScreens ---------------------------
(***************************************************************************)
(* A remote pane whose programs use the alternate screen as well: output   *)
(* there, and the switches between the two screens.                        *)
(***************************************************************************)
EXTENDS RemoteLines

(* Output on the alternate screen, which does not scroll.                  *)
OutputAlt(rows, cursor) ==
  /\ MayChange
  /\ term.alt
  /\ rows \cup {cursor} \subseteq View(0)
  /\ term' = [term EXCEPT !.seqno = @ + 1, !.cursor = cursor, !.lines = Write(TRUE, rows, @)]
  /\ sess' = [sess EXCEPT !.due = TRUE]
  /\ UNCHANGED <<push, up, down, held, client>>

(* activate_alt_screen, activate_primary_screen: either way the topmost    *)
(* rows of the primary screen are marked.  Mode 1049 clears the alternate  *)
(* screen on the way in, mode 1047 on the way out, mode 47 never.          *)
Switch(cleared, cursor) ==
  /\ MayChange
  /\ cursor \in View(IF term.alt THEN term.top ELSE 0)
  /\ term' = [term EXCEPT !.seqno = @ + 1, !.alt = ~@, !.cursor = cursor,
                !.lines = Write(FALSE, View(0), IF cleared THEN Write(TRUE, View(0), @) ELSE @)]
  /\ sess' = [sess EXCEPT !.due = TRUE]
  /\ UNCHANGED <<push, up, down, held, client>>

NextScreen ==
  \/ Next
  \/ \E rows \in SUBSET View(0), cursor \in View(0) : OutputAlt(rows, cursor)
  \/ \E cleared \in BOOLEAN, cursor \in Row : Switch(cleared, cursor)

SpecScreens == Init /\ [][NextScreen]_vars

(* terminalstate/mod.rs:215: "When switching between alt and primary       *)
(* screen, we implicitly change the content associated with                *)
(* StableRowIndex 0..num_rows.  The muxer use case needs to know to        *)
(* invalidate its cache, so we mark those rows as dirty."                  *)
SwitchIsReported ==
  [][term'.alt # term.alt => \A r \in View(0) : (LastChange(r))' > sess.seqno]_vars
=============================================================================

------------------------------ MODULE SimSession ------------------------------
(***************************************************************************)
(* What the SIM access state machine promises to the rest of the stack   *)
(* (spec 4.4, 4.5, 6): one session per card insertion; a cursor that      *)
(* walks the file table in order, one entry per step, passing a mandatory *)
(* entry only once it has been decoded from the card; the PIN wait that   *)
(* re-issues the same entry; the abort on a mandatory entry; and the      *)
(* SIM_ATTACHED / SIM_DETACHED signals, which are published only at the   *)
(* points the state machine names.                                        *)
(*                                                                         *)
(* Stopping is not excluded: this is a safety specification, and a reader *)
(* that stops (spec 5: no timeouts) implements it by stuttering. Removal  *)
(* publishes SIM_DETACHED and, as subscriber.c does, leaves the session   *)
(* valid; see the finding of NoAttachAfterDetach.                         *)
(***************************************************************************)
EXTENDS Integers, Sequences

CONSTANTS
  Files,       \* the table entries 1 .. n
  Mandatory,   \* the mandatory entries
  Terminator   \* n + 1, where the table ends

VARIABLES
  valid,       \* a card is inserted and usable
  cursor,      \* the table entry being read
  decoded,     \* the entries decoded from the card in this session
  pinWait,     \* reading waits for the PIN
  session,     \* number of insertions so far
  published    \* the signals: [ev, gen, valid]

svars == <<valid, cursor, decoded, pinWait, session, published>>

Signal(ev, v) == published' = Append(published, [ev |-> ev, gen |-> session', valid |-> v])

\* A card is inserted while none is valid: the session starts at the
\* first entry; a test card is valid or not and attaches at once; a
\* relay whose session cannot be opened publishes SIM_DETACHED.
Insert ==
  /\ ~valid
  /\ session' = session + 1
  /\ cursor' = 1 /\ decoded' = {} /\ pinWait' = FALSE
  /\ \/ valid' = TRUE /\ UNCHANGED published
     \/ valid' = FALSE /\ UNCHANGED published
     \/ valid' = FALSE /\ Signal("detached", FALSE)
     \/ valid' = TRUE /\ Signal("attached", TRUE)

\* The entry under the cursor is passed: decoded from the card, or skipped
\* if it is optional. Passing the last entry publishes SIM_ATTACHED.
Advance ==
  /\ cursor < Terminator
  /\ UNCHANGED <<valid, pinWait, session>>
  /\ \/ decoded' = decoded \cup {cursor}
     \/ cursor \notin Mandatory /\ UNCHANGED decoded
  /\ cursor' = cursor + 1
  /\ IF cursor + 1 = Terminator THEN Signal("attached", valid) ELSE UNCHANGED published

\* The card asks for the PIN.
PinRequired ==
  /\ pinWait' = TRUE
  /\ UNCHANGED <<valid, cursor, decoded, session, published>>

\* The PIN was accepted: the same entry is issued again, which at the end
\* of the table publishes SIM_ATTACHED.
PinAccepted ==
  /\ pinWait
  /\ pinWait' = FALSE
  /\ UNCHANGED <<valid, cursor, decoded, session>>
  /\ IF cursor = Terminator THEN Signal("attached", valid) ELSE UNCHANGED published

\* A card error on a mandatory entry (or at the end) invalidates the card.
Abort ==
  /\ valid
  /\ cursor \in Mandatory \cup {Terminator}
  /\ valid' = FALSE
  /\ UNCHANGED <<cursor, decoded, pinWait, session>>
  /\ Signal("detached", FALSE)

\* The card is removed: SIM_DETACHED is published.
Remove ==
  /\ valid
  /\ UNCHANGED <<valid, cursor, decoded, pinWait, session>>
  /\ Signal("detached", TRUE)

SInit ==
  /\ valid = FALSE /\ cursor = 1 /\ decoded = {} /\ pinWait = FALSE
  /\ session = 0 /\ published = <<>>

SNext == Insert \/ Advance \/ PinRequired \/ PinAccepted \/ Abort \/ Remove

SSpec == SInit /\ [][SNext]_svars
=============================================================================

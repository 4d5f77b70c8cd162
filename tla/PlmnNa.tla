------------------------------- MODULE PlmnNa -------------------------------
(***************************************************************************)
(* The list of forbidden PLMNs ("PLMN not allowed", subscr->plmn_na) of   *)
(* src/host/layer23/src/common/subscriber.c and its copy in the card's    *)
(* EF_FPLMN (7F20/6F7B): gsm_subscr_add_forbidden_plmn,                   *)
(* gsm_subscr_del_forbidden_plmn, the write-back                          *)
(* subscr_write_plmn_na_simcard over the "update" job handle, and the     *)
(* read subscr_sim_fplmn done at each insertion of a reader card, and the  *)
(* preferred-PLMN list subscr->plmn_list that subscr_sim_plmnsel reads    *)
(* from EF_PLMNsel (7F20/6F30) at the same insertion.                     *)
(*                                                                         *)
(* A PLMN is a model value; the card file holds four triplets, each a     *)
(* PLMN or the all-ones sentinel FF. Every list entry is allocated with   *)
(* talloc_zero, which may return NULL.                                    *)
(***************************************************************************)
EXTENDS Integers, Sequences, SequencesExt

CONSTANTS
  Plmns,        \* PLMNs the network may forbid (model values)
  Home,         \* the PLMN gsm_match_mnc matches against the IMSI
  PlmnZero,     \* the PLMN 000-00 of a zeroed struct osmo_plmn_id
  FF,           \* the sentinel triplet ff ff ff
  NoPlmn,       \* the NULL argument of gsm_subscr_del_forbidden_plmn
  RejectCauses, \* cause values gsm_subscr_add_forbidden_plmn is called with
  CardInit,     \* EF_FPLMN contents the card may hold when inserted
  WriteFails,   \* TRUE: the card may refuse an UPDATE BINARY
  SelCardInit,  \* EF_PLMNsel contents the card may hold (sequences of triplets)
  Talloc,       \* the allocator linked: "reliable", "may_fail" or "stub"
  MaxOps,       \* bound on list operations per insertion
  MaxInserts    \* bound on insertions

ASSUME Home \in Plmns /\ PlmnZero \notin Plmns /\ FF \notin Plmns
ASSUME RejectCauses \subseteq 0 .. 255
ASSUME WriteFails \in BOOLEAN
ASSUME Talloc \in {"reliable", "may_fail", "stub"}

Triplets == Plmns \cup {PlmnZero, FF}
Images == [1 .. 4 -> Triplets]
Entry == [plmn : Plmns \cup {PlmnZero}, cause : {-1} \cup 1 .. 255]

VARIABLES
  plmnNa,   \* subscr->plmn_na, oldest entry first
  updateQ,  \* EF_FPLMN images pending on subscr->sim_handle_update
  card,     \* the card's EF_FPLMN
  synced,   \* a write-back was submitted since the list was read
  refused,  \* the card refused the last write it executed (history)
  ops,      \* list operations in this insertion
  inserts,  \* insertions so far
  selCard,  \* the card's EF_PLMNsel
  plmnSel,  \* subscr->plmn_list, in file order
  rejected  \* PLMNs the network forbade since they were last deleted (history)

vars == <<plmnNa, updateQ, card, synced, refused, ops, inserts, selCard, plmnSel, rejected>>

TypeOK ==
  /\ plmnNa \in Seq(Entry)
  /\ updateQ \in Seq(Images)
  /\ card \in Images
  /\ synced \in BOOLEAN /\ refused \in BOOLEAN
  /\ ops \in 0 .. MaxOps /\ inserts \in 0 .. MaxInserts
  /\ selCard \in Seq(Triplets) /\ plmnSel \in Seq(Plmns \cup {PlmnZero})
  /\ rejected \subseteq Plmns

PlmnsOf(l) == [i \in DOMAIN l |-> l[i].plmn]

-----------------------------------------------------------------------------
\* Whether a talloc_zero call returns memory: libtalloc may fail, the
\* talloc_zero of stubs_no_gprs.c always returns 0.
TallocZero == CASE Talloc = "reliable" -> {TRUE}
                [] Talloc = "may_fail" -> BOOLEAN
                [] Talloc = "stub"     -> {FALSE}

\* The triplets the read loop consumes: while length >= 3, up to the first
\* ff ff ff.
Consumed(img) ==
  LET stop == SelectInSeq(img, LAMBDA t : t = FF)
  IN  IF stop = 0 THEN img ELSE SubSeq(img, 1, stop - 1)

\* The lists a read loop may leave: one entry e per consumed triplet, or,
\* when talloc_zero fails for entry k + 1, the k entries before it (the
\* decoder returns -ENOMEM, which the reader ignores for these optional
\* files).
ReadLists(img, e) ==
  LET n == Len(Consumed(img)) IN
  {[i \in 1 .. k |-> e] :
     k \in {k \in 0 .. n : /\ k = n \/ FALSE \in TallocZero
                           /\ k = 0 \/ TRUE \in TallocZero}}

(***************************************************************************)
(* subscr_sim_fplmn: the list is flushed, then every triplet up to the    *)
(* first sentinel adds an entry with cause -1. The entry's PLMN is filled *)
(* by osmo_plmn_to_bcd(&data[0], &na->plmn), which encodes the zeroed     *)
(* na->plmn into the buffer: every entry read is the PLMN 000-00.         *)
(***************************************************************************)
SimFplmn(img) == ReadLists(img, [plmn |-> PlmnZero, cause |-> -1])

\* subscr_sim_plmnsel: the same loop over EF_PLMNsel, with the same
\* osmo_plmn_to_bcd call (line 933): every preferred PLMN read is 000-00.
SimPlmnsel(img) == ReadLists(img, PlmnZero)

(***************************************************************************)
(* The encoding loop of subscr_write_plmn_na_simcard: nas[] collects the  *)
(* first four entries, then every further entry shifts nas[] down by one  *)
(* and takes the last slot; empty slots are written as ff ff ff.          *)
(***************************************************************************)
\* Mutation of NasStep: a further entry overwrites nas[3] without shifting.
NasStepNoShift(nas, p) ==
  IF Len(nas) < 4 THEN Append(nas, p) ELSE Append(SubSeq(nas, 1, 3), p)

NasStep(nas, p) ==
  IF Len(nas) < 4 THEN Append(nas, p) ELSE Append(Tail(nas), p)

FplmnImage(l) ==
  LET nas == FoldLeft(NasStep, <<>>, PlmnsOf(l))
  IN  [i \in 1 .. 4 |-> IF i <= Len(nas) THEN nas[i] ELSE FF]

\* subscr_write_plmn_na for the list l (a valid reader card): one UPDATE
\* BINARY job on the update handle.
WritePlmnNa(l) == <<FplmnImage(l)>>

(***************************************************************************)
(* gsm_subscr_del_forbidden_plmn(subscr, p) on list l: NoPlmn flushes the *)
(* list, a PLMN removes its first entry; the result and the write-backs   *)
(* it submits (one if anything was deleted).                              *)
(***************************************************************************)
DelResult(l, p) ==
  IF p = NoPlmn THEN <<>>
  ELSE RemoveFirstMatch(l, LAMBDA e : e.plmn = p)

\* Mutation of DelWrites: a deletion is not written back to the card.
DelWritesNone(l, p) == <<>>

DelWrites(l, p) == IF DelResult(l, p) # l THEN WritePlmnNa(DelResult(l, p)) ELSE <<>>

\* Mutation of AddResult: cause 0 is stored as it is.
AddResultRawCause(l, p, cause) ==
  Append(DelResult(l, p), [plmn |-> p, cause |-> cause])

\* Mutation of AddResult: the PLMN is appended without removing its old entry.
AddResultNoDel(l, p, cause) ==
  Append(l, [plmn |-> p, cause |-> IF cause = 0 THEN -1 ELSE cause])

(***************************************************************************)
(* gsm_subscr_add_forbidden_plmn(subscr, p, cause): delete p (with its    *)
(* write-back), append it with cause 0 replaced by -1, and write the list *)
(* back unless p is the home PLMN of a valid card. When talloc_zero fails *)
(* it returns -ENOMEM after the deletion and its write-back.              *)
(***************************************************************************)
AddResult(l, p, cause) ==
  Append(DelResult(l, p), [plmn |-> p, cause |-> IF cause = 0 THEN -1 ELSE cause])

AddWrites(l, p, cause) ==
  DelWrites(l, p) \o (IF p = Home THEN <<>> ELSE WritePlmnNa(AddResult(l, p, cause)))

Operate(newList, writes) ==
  /\ ops < MaxOps
  /\ ops' = ops + 1
  /\ plmnNa' = newList
  /\ updateQ' = updateQ \o writes
  /\ synced' = (synced \/ writes # <<>>)
  /\ UNCHANGED <<card, refused, inserts, selCard, plmnSel>>

GsmSubscrAddForbiddenPlmn(p, cause) ==
  /\ rejected' = rejected \cup {p}
  /\ \E allocated \in TallocZero :
       IF allocated THEN Operate(AddResult(plmnNa, p, cause), AddWrites(plmnNa, p, cause))
       ELSE Operate(DelResult(plmnNa, p), DelWrites(plmnNa, p))

GsmSubscrDelForbiddenPlmn(p) ==
  /\ rejected' = IF p = NoPlmn THEN {} ELSE rejected \ {p}
  /\ Operate(DelResult(plmnNa, p), DelWrites(plmnNa, p))

\* The card executes the oldest UPDATE BINARY; subscr_sim_update_cb only
\* logs a failure.
CardUpdate ==
  /\ updateQ # <<>>
  /\ \/ card' = Head(updateQ) /\ refused' = FALSE
     \/ WriteFails /\ refused' = TRUE /\ UNCHANGED card
  /\ updateQ' = Tail(updateQ)
  /\ UNCHANGED <<plmnNa, synced, ops, inserts, selCard, plmnSel, rejected>>

\* The card is inserted again: gsm_subscr_exit / gsm_subscr_init close the
\* update handle (its pending jobs are lost) and flush both lists, and the
\* reader reads EF_PLMNsel (entry 6) and EF_FPLMN (entry 10) anew.
Reinsert ==
  /\ inserts < MaxInserts
  /\ inserts' = inserts + 1
  /\ updateQ' = <<>>
  /\ plmnSel' \in SimPlmnsel(selCard)
  /\ plmnNa' \in SimFplmn(card)
  /\ synced' = FALSE
  /\ ops' = 0
  /\ rejected' = {}
  /\ UNCHANGED <<card, refused, selCard>>

Init ==
  /\ card \in CardInit /\ selCard \in SelCardInit
  /\ plmnSel \in SimPlmnsel(selCard)
  /\ plmnNa \in SimFplmn(card)
  /\ updateQ = <<>>
  /\ synced = FALSE /\ refused = FALSE
  /\ ops = 0 /\ inserts = 0 /\ rejected = {}

Next ==
  \/ \E p \in Plmns, c \in RejectCauses : GsmSubscrAddForbiddenPlmn(p, c)
  \/ \E p \in Plmns \cup {NoPlmn} : GsmSubscrDelForbiddenPlmn(p)
  \/ CardUpdate
  \/ Reinsert

Spec == Init /\ [][Next]_vars /\ WF_vars(CardUpdate)

-----------------------------------------------------------------------------
(***************************************************************************)
(* Properties.                                                             *)
(***************************************************************************)

CardPlmns == {card[i] : i \in 1 .. 4} \ {FF}
Forbidden(p) == \E i \in DOMAIN plmnNa : plmnNa[i].plmn = p

\* The image subscr_write_plmn_na_simcard builds holds the four most
\* recently added entries in list order, padded with ff ff ff (spec 4.3).
ImageIsLastFour ==
  LET l == PlmnsOf(plmnNa)
      n == Len(l)
      recent == SubSeq(l, IF n > 4 THEN n - 3 ELSE 1, n)
  IN  FplmnImage(plmnNa) = [i \in 1 .. 4 |-> IF i <= Len(recent) THEN recent[i] ELSE FF]

\* Once this list has been written back and the card has executed every
\* pending update, the last one successfully, each PLMN in the card's
\* EF_FPLMN is forbidden in memory: no deletion is lost on the way to the
\* card, and a refused write is repaired by the next accepted one.
RemovalReachesCard ==
  synced /\ updateQ = <<>> /\ ~refused => \A p \in CardPlmns : Forbidden(p)

\* The card's lists are what subscr_sim_fplmn and subscr_sim_plmnsel
\* decoded (spec 4.3): a PLMN that EF_FPLMN lists is forbidden in memory
\* whenever no update is pending, in particular right after the read, and
\* the preferred list holds EF_PLMNsel's PLMNs in file order.
CardListsRead ==
  /\ updateQ = <<>> => \A p \in CardPlmns : Forbidden(p)
  /\ plmnSel = Consumed(selCard)

\* A PLMN the network forbade in this insertion, and nobody deleted since,
\* is still forbidden: gsm_subscr_add_forbidden_plmn deletes the old entry
\* of p before it allocates the new one, and a deletion of another PLMN
\* removes only that one. No run checks it: it holds only while talloc_zero
\* succeeds, and fails after one add with Talloc = "may_fail" or "stub"
\* (line 401; README, section 4).
RejectedStaysForbidden ==
  \A p \in rejected : Forbidden(p)

\* The home PLMN is never stored in the card's EF_FPLMN (spec 3).
HomeNeverPersisted ==
  Home \notin CardPlmns

\* gsm_subscr_add_forbidden_plmn deletes an entry of the PLMN before it
\* appends one, so no PLMN the network forbids is listed twice (spec 8).
\* The entries 000-00 read from the card are left out: see CardListsRead.
NoDuplicateEntries ==
  \A i, j \in DOMAIN plmnNa :
    i # j /\ plmnNa[i].plmn # PlmnZero => plmnNa[i].plmn # plmnNa[j].plmn
=============================================================================

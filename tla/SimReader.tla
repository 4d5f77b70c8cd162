------------------------------ MODULE SimReader ------------------------------
(***************************************************************************)
(* The SIM access state machine of src/host/layer23/src/common/           *)
(* subscriber.c: card insertion and removal for the three backends         *)
(* (L1PHY reader, test card, SAP relay), the table-driven reader           *)
(* subscr_sim_request / subscr_sim_query_cb over the "query" job handle,   *)
(* the PIN commands sent on that handle, and the SAP relay callback.       *)
(*                                                                         *)
(* The SIM job layer (sim_open / sim_job / sim_close, not under src/) is   *)
(* modelled from the spec: one FIFO of jobs per handle, answered in order  *)
(* by the card; closing a handle drops its pending jobs.                   *)
(*                                                                         *)
(* The record's data is abstracted to where each field came from: rec[f]   *)
(* is "unset", "card" (decoded from a response to a read of file f) or     *)
(* "wrong" (decoded by f's decoder from some other response). The bytes   *)
(* of EF_ICCID, EF_IMSI and EF_MSISDN are kept: their decoders share the   *)
(* static buffer of sim_decode_bcd (module SimBcd).                        *)
(***************************************************************************)
EXTENDS Integers, Sequences, FiniteSets, SimBcd

CONSTANTS
  SimTypes,      \* values settings.sim_type may have: subset of {"L1PHY","TEST","SAP"}
  PinModes,      \* PIN commands the user may issue: subset of PinModeSet
  CardPinInit,   \* PIN states an inserted card may be in
  PatientUser,   \* TRUE: the user types a PIN command only when prompted or when
                 \* the table has been read, and no query job is pending
  MaxInserts,    \* bound on card insertions
  MaxPin,        \* bound on PIN commands per insertion
  MaxAtr,        \* bound on SAP ATR responses per insertion
  MaxRemoves,    \* bound on gsm_subscr_remove calls per insertion
  Cards          \* [iccid, imsi, msisdn] payloads a reader or SAP card may hold

\* The PIN commands of gsm_subscr_sim_pin_simcard, named after their job.
PinModeSet == {"unlock", "enable", "disable", "change", "unblock"}

ASSUME SimTypes \subseteq {"L1PHY", "TEST", "SAP"} /\ SimTypes # {}
ASSUME PinModes \subseteq PinModeSet
ASSUME CardPinInit \subseteq {"open", "locked", "blocked"} /\ CardPinInit # {}
ASSUME PatientUser \in BOOLEAN
ASSUME {MaxInserts, MaxPin, MaxAtr, MaxRemoves} \subseteq Nat

(***************************************************************************)
(* The file table subscr_sim_files[]: entries 1..NFiles, entry NFiles+1 is *)
(* the terminator whose func is NULL.                                      *)
(***************************************************************************)
NFiles == 12
Files == 1 .. NFiles
Terminator == NFiles + 1
\* ICCID, IMSI, LOCI, LOCIGPRS carry mandatory = 1.
Mandatory == 1 .. 4
\* Every file but the ICCID (in the MF) is under a PIN-protected DF.
PinProtected == Files \ {1}
\* Decoders that reject a payload by its length or content; subscr_sim_iccid,
\* subscr_sim_plmnsel (6) and subscr_sim_fplmn (10) accept any payload.
LengthChecked == Files \ {1, 6, 10}
ICCID == 1
IMSI == 2
LOCI == 3
MSISDN == 11
\* The IMSI of the test_sim settings: any string osmo_imsi_str_valid takes.
TestImsi == <<0, 0, 1, 0, 1, 0, 0, 0, 0, 0, 0, 0, 0, 0, 1>>

PinCauses == {"PIN1_REQUIRED", "PIN1_BLOCKED", "PUC_BLOCKED"}
Causes == PinCauses \cup {"OTHER"}
\* The error cause a card in PIN state s answers to a protected read.
PinCause(s) == CASE s = "locked"  -> "PIN1_REQUIRED"
                 [] s = "blocked" -> "PIN1_BLOCKED"
                 [] s = "puc"     -> "PUC_BLOCKED"

ReadJob(f) == [kind |-> "read", file |-> f]
PinJob(m) == [kind |-> "pin", mode |-> m]
Jobs == {ReadJob(f) : f \in Files} \cup {PinJob(m) : m \in PinModeSet}

USTATES == {"U0_NULL", "U1_UPDATED", "U2_NOT_UPDATED", "U3_ROAMING_NA"}
Events == [ev : {"attached", "detached"}, gen : 0 .. MaxInserts, valid : BOOLEAN]

VARIABLES
  simValid,      \* subscr->sim_valid
  simType,       \* subscr->sim_type ("NONE" after gsm_subscr_init)
  fileIndex,     \* subscr->sim_file_index + 1
  pinRequired,   \* subscr->sim_pin_required
  rec,           \* origin of each record field read from file f
  laiValid,      \* subscr->lai.lac in (0x0000, 0xfffe)
  plmnValid,     \* subscr->plmn_valid
  ustate,        \* subscr->ustate
  imsiAttached,  \* subscr->imsi_attached
  queryQ,        \* jobs pending on subscr->sim_handle_query
  cardPin,       \* PIN state of the inserted card
  sapOpen,       \* the SAP connection is open
  gen,           \* number of insertions so far
  pins,          \* PIN commands issued in this insertion
  atrs,          \* SAP ATR responses received in this insertion
  removes,       \* gsm_subscr_remove calls in this insertion
  events,        \* signals published on SS_L23_SUBSCR (history)
  cardFiles,     \* EF_ICCID, EF_IMSI and EF_MSISDN of the inserted card
  result,        \* the static result[] of sim_decode_bcd
  iccid,         \* subscr->iccid
  imsi           \* subscr->imsi

vars == <<simValid, simType, fileIndex, pinRequired, rec, laiValid, plmnValid,
          ustate, imsiAttached, queryQ, cardPin, sapOpen, gen, pins, atrs,
          removes, events, cardFiles, result, iccid, imsi>>
bcdVars == <<cardFiles, result, iccid, imsi>>

TypeOK ==
  /\ simValid \in BOOLEAN
  /\ simType \in {"NONE"} \cup SimTypes
  /\ fileIndex \in 1 .. Terminator
  /\ pinRequired \in BOOLEAN
  /\ rec \in [Files -> {"unset", "card", "wrong"}]
  /\ {laiValid, plmnValid, imsiAttached, sapOpen} \subseteq BOOLEAN
  /\ ustate \in USTATES
  /\ queryQ \in Seq(Jobs)
  /\ cardPin \in {"open", "locked", "blocked", "puc"}
  /\ gen \in 0 .. MaxInserts /\ pins \in 0 .. MaxPin /\ atrs \in 0 .. MaxAtr
  /\ removes \in 0 .. MaxRemoves
  /\ events \in Seq(Events)
  /\ cardFiles \in Cards
  /\ result \in [0 .. ResultSize - 1 -> BufChars]
  /\ iccid \in Seq(0 .. 15) /\ imsi \in Seq(0 .. 15)

\* osmo_signal_dispatch(SS_L23_SUBSCR, ev, ms) of insertion g;
\* valid is sim_valid at that moment.
Publish(ev, g, valid) ==
  events' = Append(events, [ev |-> ev, gen |-> g, valid |-> valid])

Attached(g) == \E i \in DOMAIN events : events[i].ev = "attached" /\ events[i].gen = g

-----------------------------------------------------------------------------
\* Mutation of SimRequest: the end-of-table test is one entry late, so a
\* read of the terminator entry is submitted.
SimRequestPastEnd(i, q) ==
  IF i > Terminator
  THEN /\ plmnValid' = (laiValid \/ plmnValid)
       /\ Publish("attached", gen, simValid)
       /\ queryQ' = q
  ELSE /\ queryQ' = Append(q, ReadJob(i))
       /\ UNCHANGED <<plmnValid, events>>

\* Mutation of SimRequest: the end of the table is reached without
\* publishing SIM_ATTACHED.
SimRequestNoAttach(i, q) ==
  IF i = Terminator
  THEN /\ plmnValid' = (laiValid \/ plmnValid)
       /\ UNCHANGED events
       /\ queryQ' = q
  ELSE /\ queryQ' = Append(q, ReadJob(i))
       /\ UNCHANGED <<plmnValid, events>>

(***************************************************************************)
(* subscr_sim_request, with q the query queue it submits to: at the        *)
(* terminator set the RPLMN from a valid LAI and publish SIM_ATTACHED,     *)
(* else submit a read job for entry i.                                     *)
(***************************************************************************)
SimRequest(i, q) ==
  IF i = Terminator
  THEN /\ plmnValid' = (laiValid \/ plmnValid)
       /\ Publish("attached", gen, simValid)
       /\ queryQ' = q
  ELSE /\ queryQ' = Append(q, ReadJob(i))
       /\ UNCHANGED <<plmnValid, events>>

\* Mutation of NextFile: the next request is built before the index is
\* incremented, so it reads the entry just decoded.
NextFileStale(q) ==
  /\ fileIndex' = fileIndex + 1
  /\ SimRequest(fileIndex, q)

\* The "ignore:" label of subscr_sim_query_cb: advance, request the next file.
NextFile(q) ==
  /\ fileIndex' = fileIndex + 1
  /\ SimRequest(fileIndex + 1, q)

\* Mutation of QueryError: a mandatory read error fails the card and then
\* requests the same entry again.
QueryErrorRetry(cause, q) ==
  \/ /\ cause \in PinCauses
     /\ pinRequired' = TRUE
     /\ queryQ' = q
     /\ UNCHANGED <<simValid, fileIndex, plmnValid, events>>
  \/ /\ cause \notin PinCauses
     /\ fileIndex # Terminator /\ fileIndex \notin Mandatory
     /\ NextFile(q)
     /\ UNCHANGED <<simValid, pinRequired>>
  \/ /\ cause \notin PinCauses
     /\ fileIndex \in Mandatory
     /\ simValid' = FALSE
     /\ queryQ' = Append(q, ReadJob(fileIndex))
     /\ Publish("detached", gen, FALSE)
     /\ UNCHANGED <<fileIndex, pinRequired, plmnValid>>
  \/ /\ cause \notin PinCauses
     /\ fileIndex = Terminator
     /\ simValid' = FALSE
     /\ Publish("detached", gen, FALSE)
     /\ queryQ' = q
     /\ UNCHANGED <<fileIndex, pinRequired, plmnValid>>

\* The SIM_JOB_ERROR branch of subscr_sim_query_cb.
QueryError(cause, q) ==
  \/ /\ cause \in PinCauses
     /\ pinRequired' = TRUE
     /\ queryQ' = q
     /\ UNCHANGED <<simValid, fileIndex, plmnValid, events>>
  \/ /\ cause \notin PinCauses
     /\ fileIndex # Terminator /\ fileIndex \notin Mandatory
     /\ NextFile(q)
     /\ UNCHANGED <<simValid, pinRequired>>
  \/ /\ cause \notin PinCauses
     /\ fileIndex = Terminator \/ fileIndex \in Mandatory
     /\ simValid' = FALSE
     /\ Publish("detached", gen, FALSE)
     /\ queryQ' = q
     /\ UNCHANGED <<fileIndex, pinRequired, plmnValid>>

\* rc of sf->func is non-zero: a mandatory file stops the reader
\* ("SIM failed, data invalid"), an optional one is skipped.
DecodeFailure(q) ==
  IF fileIndex \in Mandatory
  THEN /\ queryQ' = q
       /\ UNCHANGED <<fileIndex, plmnValid, events>>
  ELSE NextFile(q)

(***************************************************************************)
(* Whether the decoder of file f accepts the payload of a response to job  *)
(* j; wf says whether a read's payload is well formed for its own file.   *)
(***************************************************************************)
DecodeResults(f, j, wf) ==
  IF f \notin LengthChecked THEN {TRUE}
  ELSE IF j = ReadJob(f) THEN {wf}
  ELSE IF j.kind = "pin" THEN {FALSE}     \* empty payload
  ELSE BOOLEAN                            \* another file's bytes

(***************************************************************************)
(* The decoder of entry f run on the answer to job j: whether it accepts,  *)
(* and sim_decode_bcd's buffer, the ICCID and the IMSI afterwards. The     *)
(* decoders that call sim_decode_bcd run on the card's own bytes; on       *)
(* another file's answer only acceptance is modelled, and the buffer and  *)
(* the fields are left as they were.                                      *)
(***************************************************************************)
Decode(f, j, wf) ==
  LET own == j = ReadJob(f)
      Out(ok, buf, ic, im) == [ok |-> ok, buf |-> buf, iccid |-> ic, imsi |-> im]
  IN  CASE own /\ f = ICCID ->
             LET r == SubscrSimIccid(result, cardFiles.iccid) IN
             {Out(TRUE, r.buf, r.iccid, imsi)}
        [] own /\ f = IMSI ->
             LET r == SubscrSimImsi(result, cardFiles.imsi) IN
             {Out(r.rc = "OK", r.buf, iccid, IF r.rc = "OK" THEN r.imsi ELSE imsi)}
        [] own /\ f = MSISDN ->
             {Out(wf, IF wf THEN SubscrSimMsisdn(result, cardFiles.msisdn) ELSE result,
                  iccid, imsi)}
        [] OTHER -> {Out(ok, result, iccid, imsi) : ok \in DecodeResults(f, j, wf)}

\* sf->func succeeded on the payload of job j: the field is filled in;
\* subscr_sim_loci also sets the TMSI, the LAI and the U state.
DecodeFile(j) ==
  /\ rec' = [rec EXCEPT ![fileIndex] = IF j = ReadJob(fileIndex) THEN "card" ELSE "wrong"]
  /\ IF fileIndex = LOCI
     THEN \E lai \in BOOLEAN, us \in USTATES \ {"U0_NULL"} :
            laiValid' = lai /\ ustate' = us
     ELSE UNCHANGED <<laiValid, ustate>>

\* A successful response to job j reaching subscr_sim_query_cb.
QueryOk(j, wf, q) ==
  \/ /\ pinRequired
     /\ pinRequired' = FALSE
     /\ SimRequest(fileIndex, q)
     /\ UNCHANGED <<fileIndex, rec, laiValid, ustate, result, iccid, imsi>>
  \/ /\ ~pinRequired /\ fileIndex = Terminator
     /\ queryQ' = q
     /\ UNCHANGED <<fileIndex, pinRequired, rec, laiValid, plmnValid, ustate, events,
                    result, iccid, imsi>>
  \/ /\ ~pinRequired /\ fileIndex # Terminator
     /\ \E d \in Decode(fileIndex, j, wf) :
          /\ result' = d.buf /\ iccid' = d.iccid /\ imsi' = d.imsi
          /\ IF d.ok THEN DecodeFile(j) /\ NextFile(q)
                    ELSE DecodeFailure(q) /\ UNCHANGED <<rec, laiValid, ustate>>
     /\ UNCHANGED pinRequired

\* subscr_sim_query_cb(ms, msg) for the answer r to job j, q the rest of the queue.
SimQueryCb(j, r, q) ==
  IF r.err
  THEN QueryError(r.cause, q) /\ UNCHANGED <<rec, laiValid, ustate, result, iccid, imsi>>
  ELSE QueryOk(j, r.wf, q) /\ UNCHANGED simValid

-----------------------------------------------------------------------------
(***************************************************************************)
(* The card (spec-modelled): its answers to a read and to a PIN command,   *)
(* each with the card's PIN state afterwards.                              *)
(***************************************************************************)
Ok(wf, p) == [err |-> FALSE, cause |-> "NONE", wf |-> wf, pin |-> p]
Err(c, p) == [err |-> TRUE, cause |-> c, wf |-> FALSE, pin |-> p]

ReadReplies(f) ==
  IF f \in PinProtected /\ cardPin # "open"
  THEN {Err(PinCause(cardPin), cardPin)}
  ELSE {Err("OTHER", cardPin)} \cup
       {Ok(wf, cardPin) : wf \in IF f \in LengthChecked THEN BOOLEAN ELSE {TRUE}}

PinReplies(m) ==
  CASE cardPin = "puc" -> {Err("PUC_BLOCKED", "puc")}
    [] cardPin = "blocked" /\ m = "unblock" ->
         {Ok(TRUE, "open"), Err("PIN1_BLOCKED", "blocked"), Err("PUC_BLOCKED", "puc")}
    [] cardPin = "blocked" -> {Err("PIN1_BLOCKED", "blocked")}
    [] OTHER -> {Ok(TRUE, "open"), Err("PIN1_REQUIRED", cardPin),
                 Err("PIN1_BLOCKED", "blocked")}

Replies(j) == IF j.kind = "read" THEN ReadReplies(j.file) ELSE PinReplies(j.mode)

\* The card answers the oldest job of the query handle (over the SAP link
\* for a SAP card: gsm_subscr_sap_rsp_cb, SAP_TRANSFER_APDU_RESP).
CardAnswer ==
  /\ queryQ # <<>>
  /\ simType = "SAP" => sapOpen
  /\ \E r \in Replies(Head(queryQ)) :
       /\ cardPin' = r.pin
       /\ SimQueryCb(Head(queryQ), r, Tail(queryQ))
  /\ UNCHANGED <<simType, sapOpen, gen, pins, atrs, removes, imsiAttached, cardFiles>>

-----------------------------------------------------------------------------
(***************************************************************************)
(* gsm_subscr_insert: refused while a card is valid; gsm_subscr_exit and   *)
(* gsm_subscr_init reset the record and reopen the three handles (the     *)
(* query handle's pending jobs are dropped), then the backend is started. *)
(***************************************************************************)
\* gsm_subscr_insert_simcard: start reading at the first table entry.
InsertSimcard(g) ==
  /\ simType' = "L1PHY" /\ ustate' = "U2_NOT_UPDATED" /\ simValid' = TRUE
  /\ \E p \in CardPinInit : cardPin' = p
  /\ queryQ' = <<ReadJob(1)>>
  /\ UNCHANGED <<sapOpen, events>>

\* gsm_subscr_insert_testcard with the test_sim settings: the record is
\* filled in from the settings and SIM_ATTACHED published at once.
InsertTestcard(g) ==
  /\ queryQ' = <<>>
  /\ UNCHANGED <<cardPin, sapOpen>>
  /\ \E imsiOk, attached, rplmn, lac, gprsAttached, raiValid \in BOOLEAN :
       IF ~imsiOk
       THEN /\ simValid' = FALSE /\ simType' = "NONE" /\ ustate' = "U0_NULL"
            /\ plmnValid' = FALSE /\ imsiAttached' = FALSE /\ laiValid' = FALSE
            /\ imsi' = <<>>
            /\ UNCHANGED events
       ELSE /\ simValid' = TRUE /\ simType' = "TEST"
            /\ imsi' = TestImsi
            /\ imsiAttached' = attached
            /\ plmnValid' = rplmn
            /\ laiValid' = lac
            /\ ustate' = IF gprsAttached /\ raiValid THEN "U1_UPDATED" ELSE "U2_NOT_UPDATED"
            /\ Publish("attached", g, TRUE)

\* gsm_subscr_insert_sapcard: sap_open either fails (SIM_DETACHED, the
\* card is invalid) or opens the link; reading starts on the ATR.
InsertSapcard(g) ==
  /\ simType' = "SAP" /\ queryQ' = <<>> /\ ustate' = "U0_NULL"
  /\ \E p \in CardPinInit : cardPin' = p
  /\ \/ /\ sapOpen' = TRUE /\ simValid' = TRUE /\ UNCHANGED events
     \/ /\ sapOpen' = FALSE /\ simValid' = FALSE /\ Publish("detached", g, FALSE)

GsmSubscrInsert ==
  /\ ~simValid
  /\ gen < MaxInserts
  /\ gen' = gen + 1 /\ pins' = 0 /\ atrs' = 0 /\ removes' = 0
  /\ rec' = [f \in Files |-> "unset"]
  /\ pinRequired' = FALSE /\ fileIndex' = 1
  /\ iccid' = <<>> /\ UNCHANGED result
  /\ \E st \in SimTypes :
       \/ /\ st \in {"L1PHY", "SAP"}
          /\ laiValid' = FALSE /\ plmnValid' = FALSE /\ imsiAttached' = FALSE
          /\ imsi' = <<>> /\ \E c \in Cards : cardFiles' = c
          /\ IF st = "L1PHY" THEN InsertSimcard(gen + 1) ELSE InsertSapcard(gen + 1)
       \/ st = "TEST" /\ InsertTestcard(gen + 1) /\ UNCHANGED cardFiles

\* gsm_subscr_remove: the SAP link is closed and SIM_DETACHED published;
\* sim_valid is left as it is.
GsmSubscrRemove ==
  /\ simValid
  /\ removes < MaxRemoves
  /\ removes' = removes + 1
  /\ sapOpen' = IF simType = "SAP" THEN FALSE ELSE sapOpen
  /\ Publish("detached", gen, simValid)
  /\ UNCHANGED <<simValid, simType, fileIndex, pinRequired, rec, laiValid,
                 plmnValid, ustate, imsiAttached, queryQ, cardPin, gen, pins, atrs,
                 bcdVars>>

\* gsm_subscr_sim_pin for a reader or SAP card: gsm_subscr_sim_pin_simcard
\* submits the PIN job on the query handle; plain PIN entry ("unlock")
\* only while a PIN is required.
GsmSubscrSimPin(m) ==
  /\ simValid /\ simType \in {"L1PHY", "SAP"}
  /\ pins < MaxPin
  /\ PatientUser => queryQ = <<>> /\ (pinRequired \/ fileIndex = Terminator)
  /\ m = "unlock" => pinRequired
  /\ pins' = pins + 1
  /\ queryQ' = Append(queryQ, PinJob(m))
  /\ UNCHANGED <<simValid, simType, fileIndex, pinRequired, rec, laiValid,
                 plmnValid, ustate, imsiAttached, cardPin, sapOpen, gen, atrs,
                 removes, events, bcdVars>>

\* gsm_subscr_sap_rsp_cb, SAP_TRANSFER_ATR_RESP: the relay's card is
\* ready; subscr_sim_request for the current table entry.
SapAtrResp ==
  /\ simType = "SAP" /\ sapOpen
  /\ atrs < MaxAtr
  /\ atrs' = atrs + 1
  /\ SimRequest(fileIndex, queryQ)
  /\ UNCHANGED <<simValid, simType, fileIndex, pinRequired, rec, laiValid,
                 ustate, imsiAttached, cardPin, sapOpen, gen, pins, removes, bcdVars>>

-----------------------------------------------------------------------------
Init ==
  /\ simValid = FALSE /\ simType = "NONE" /\ fileIndex = 1
  /\ pinRequired = FALSE /\ rec = [f \in Files |-> "unset"]
  /\ laiValid = FALSE /\ plmnValid = FALSE /\ ustate = "U0_NULL"
  /\ imsiAttached = FALSE /\ queryQ = <<>> /\ cardPin = "open"
  /\ sapOpen = FALSE /\ gen = 0 /\ pins = 0 /\ atrs = 0 /\ removes = 0
  /\ events = <<>>
  \* No card yet: cardFiles is read only after an insertion sets it.
  /\ cardFiles = CHOOSE c \in Cards : TRUE
  /\ result = [k \in 0 .. ResultSize - 1 |-> NUL] /\ iccid = <<>> /\ imsi = <<>>

Next ==
  \/ GsmSubscrInsert
  \/ GsmSubscrRemove
  \/ CardAnswer
  \/ SapAtrResp
  \/ \E m \in PinModes : GsmSubscrSimPin(m)

\* The card and the job layer answer every job; the relay sends its first
\* ATR. The user and the application owe nothing.
Fairness ==
  /\ WF_vars(CardAnswer)
  /\ WF_vars(SapAtrResp /\ atrs = 0)

Spec == Init /\ [][Next]_vars /\ Fairness

-----------------------------------------------------------------------------
(***************************************************************************)
(* Properties.                                                             *)
(***************************************************************************)

\* Every field subscr_sim_query_cb decoded came from a response to a read
\* of that very file: no answer to another read or to a PIN command is
\* handed to the decoder of the entry under the cursor.
RecordFromOwnFile ==
  \A f \in Files : rec[f] # "wrong"

\* SIM_ATTACHED is only published while sim_valid is set: once the reader
\* has failed the card on a mandatory error, nothing attaches it.
NoAttachWhileInvalid ==
  \A i \in DOMAIN events : events[i].ev = "attached" => events[i].valid

\* One insertion publishes SIM_ATTACHED at most once.
AttachOnce ==
  \A i, j \in DOMAIN events :
    /\ i < j /\ events[i].gen = events[j].gen
    => ~(events[i].ev = "attached" /\ events[j].ev = "attached")

\* Within one insertion no SIM_ATTACHED follows a SIM_DETACHED.
NoAttachAfterDetach ==
  \A i, j \in DOMAIN events :
    /\ i < j /\ events[i].gen = events[j].gen /\ events[i].ev = "detached"
    => events[j].ev # "attached"

\* A reader card that is inserted is eventually attached, failed, or
\* waiting for the user's PIN: reading never stops silently.
ReadingResolves ==
  (simValid /\ simType = "L1PHY") ~> (~simValid \/ pinRequired \/ Attached(gen))

\* The ICCID subscr_sim_iccid leaves is the BCD decoding spec 4.3 gives
\* for the card's EF_ICCID (low nibble first, up to the 0xf filler, at most
\* 31 digits), whatever earlier decodes left in sim_decode_bcd's static
\* buffer, this card's or the previous one's.
IccidFromOwnFile ==
  rec[ICCID] = "card" => iccid = BcdDigits(cardFiles.iccid, Len(cardFiles.iccid))

\* An IMSI the reader accepted from the card is the card's own, of 6 to 15
\* digits (spec 2), although subscr_sim_imsi decodes it into the buffer
\* that still holds the ICCID decoded just before. No run checks it: the
\* cards of MCCards decode correctly, and with an erased EF_IMSI added the
\* size_t check of line 749 lets ICCID digits through (README, section 4).
ImsiFromOwnFile ==
  rec[IMSI] = "card" => imsi = ImsiDigits(cardFiles.imsi) /\ Len(imsi) \in 6 .. 15

(***************************************************************************)
(* Refinement: the reader implements the session of SimSession under the  *)
(* mapping below; a field decoded from another file's answer does not    *)
(* count as decoded.                                                       *)
(***************************************************************************)
Session == INSTANCE SimSession WITH
  Files <- Files, Mandatory <- Mandatory, Terminator <- Terminator,
  valid <- simValid, cursor <- fileIndex,
  decoded <- {f \in Files : rec[f] = "card"},
  pinWait <- pinRequired, session <- gen, published <- events

\* Every step of subscriber.c's reader is a step of the session that
\* spec 4.4 describes, or leaves it unchanged: the cursor moves one entry
\* at a time, passes a mandatory entry only once it is decoded from the
\* card, and SIM_ATTACHED / SIM_DETACHED appear only where the session
\* publishes them.
ImplementsSimSession == Session!SSpec
=============================================================================

# TLA+ models of the layer-23 subscriber (SIM) subsystem

This directory holds TLA+ models of the SIM access code of osmocom-bb's
layer 23. Most of that code is in `src/host/layer23/src/common/subscriber.c`,
with the GPRS modem application in `src/host/layer23/src/modem/app_modem.c`.
It also holds the TLC configurations that check the models. Paths below are
relative to `src/src/` of this repository.

## 1. The system

### Parts and how they interact

| Part | Code | State | Operations |
|---|---|---|---|
| Subscriber record and lifecycle | `gsm_subscr_init`, `_exit`, `_insert`, `_remove` (110-228) | `sim_valid`, `sim_type`, the record fields, the three job handles | insert (refused while `sim_valid`), remove, reset |
| SIM reader: the table-driven state machine | `subscr_sim_files[]`, `subscr_sim_request`, `subscr_sim_query_cb` (1042-1211) | `sim_file_index`, `sim_pin_required`, the record fields each decoder fills | request entry *i*; answer OK → decode → next; answer error → PIN wait / skip / fail |
| Decoders | `subscr_sim_iccid` … `subscr_sim_fplmn` (720-1040) | the record fields (IMSI, LAI, TMSI, U state, lists, …) | decode one payload, rejecting it by length or content |
| PIN commands | `gsm_subscr_sim_pin`, `gsm_subscr_sim_pin_simcard` (241-260, 1214-1255) | none of their own; the job goes on the **query** handle | unlock, enable, disable, change, unblock |
| Backends | `gsm_subscr_insert_simcard` (reader, 1258), `gsm_subscr_insert_testcard` (565), `gsm_subscr_insert_sapcard` / `gsm_subscr_sap_rsp_cb` (1513-1592) | SAP link state | reader: read index 0 at once; test card: fill the record from the settings and attach at once; SAP: open the link, start reading on the ATR |
| Forbidden-PLMN list | `gsm_subscr_add/del_forbidden_plmn`, `subscr_write_plmn_na(_simcard)`, `subscr_sim_update_cb` (342-415, 1272-1322, 1415-1426) | `plmn_na`: an unbounded list of (PLMN, cause); the card file EF_FPLMN of 4 triplets | add (move to tail), delete one or all, write the last four entries back on the **update** handle |
| Preferred-PLMN list | `subscr_sim_plmnsel` (911-941), flushed by `gsm_subscr_exit` | `plmn_list`: the PLMNs of EF_PLMNsel in file order | rebuilt at every read; nothing else changes it |
| Authentication | `gsm_subscr_generate_kc*`, `subscr_sim_key_cb` (262-294, 635-664, 1428-1505) | `key`, `key_seq`; the **key** handle | RUN GSM ALGORITHM, then store Kc and write EF_Kc back |
| Location write-back | `gsm_subscr_write_loci*`, `_locigprs*` (296-339, 667-714, 1325-1413); read back by `subscr_sim_loci`/`_locigprs` (762-826) | the LOCI / LOCIGPRS encodings | one UPDATE BINARY on the update handle, behind EF_FPLMN and EF_Kc writes |
| Modem application | `app_modem.c` (65-83, 86-151, 153-261) | `modem_state`, `ms->started`, `cellsel.sync_pending` | signal handlers: SIM attached → GPRS attach; L1CTL reset/FBSB → start-up and cell sync; tun → SNDCP |

The system interacts through asynchronous jobs. Each operation that needs
the card submits a job on one of three handles (query, update, key) and
returns at once. The SIM job layer later calls the handle's callback with the
answer. That layer (`sim_open`, `sim_job`, `sim_close`) is not under `src/`.
The model follows the spec for it: one FIFO of jobs per handle, answered in
order, and a closed handle drops its pending jobs.

The reader publishes `S_L23_SUBSCR_SIM_ATTACHED` when it reaches the
terminator entry. It publishes `S_L23_SUBSCR_SIM_DETACHED` on a card error
and on removal. The modem application reacts to these signals.

### Hard behaviours

These behaviours are hard to test:
- Answers on the query handle are matched to the cursor, not to the job they
  answer. Any extra job on that handle misaligns the reader: a PIN command,
  or a second SAP ATR re-issuing the current read.
- `sim_pin_required` is shared between reading and PIN commands, and it
  survives the end of the table.
- Removal publishes a detach but does not stop the reader.
- The in-memory forbidden list and the card's copy are kept in step by
  fire-and-forget writes. The card may refuse a write, and writes queue
  behind each other on one handle.
- There are no timeouts anywhere (spec 5). A lost answer stalls the path
  that waits for it.

## 2. Modules

### `SimReader` (with `MCSimReader`): the SIM access state machine

State: each variable is the C field its comment names.
- `simValid`, `simType`, `fileIndex` (= `sim_file_index + 1`), `pinRequired`.
- `laiValid`, `plmnValid`, `ustate`, `imsiAttached`.
- `queryQ`: the jobs pending on the query handle.
- `cardPin`: the card's PIN state.
- `sapOpen`: the SAP link is open.
- `events`: the history of published signals, each tagged with the
  insertion number `gen`.
- `cardFiles`: the bytes of the inserted card's EF_ICCID, EF_IMSI and
  EF_MSISDN, drawn from the constant `Cards` at each reader or SAP
  insertion.
- `result`: the static `result[32]` of `sim_decode_bcd`. It is never reset:
  `gsm_subscr_init` clears the record, not the buffer.
- `iccid`, `imsi`: `subscr->iccid` and `subscr->imsi`.

Data abstraction: `rec[f]` records where the field of table entry *f* came
from.
- `"card"` means it was decoded from the answer to a read of *f*.
- `"wrong"` means it was decoded by *f*'s decoder from some other answer.

That abstraction is exactly what the misalignment hazards need. For most
files the bytes themselves are not modelled. A decoder either accepts or
rejects the payload (`DecodeResults`): the length-checked decoders may
reject, and the ICCID, PLMNsel and FPLMN decoders accept anything.

The exceptions are the three decoders that call `sim_decode_bcd`. On the
card's own answer, `Decode` runs `SimBcd`'s `SubscrSimIccid`,
`SubscrSimImsi` or `SubscrSimMsisdn` on `cardFiles`. The IMSI decoder's
verdict then comes from the bytes, and the buffer is carried forward. On
another file's answer, only acceptance is modelled, and the buffer is
left alone.

Actions:

| Action | Code |
|---|---|
| `GsmSubscrInsert` (with `InsertSimcard`, `InsertTestcard`, `InsertSapcard`) | `gsm_subscr_insert` and the three backends |
| `GsmSubscrRemove` | `gsm_subscr_remove` |
| `GsmSubscrSimPin(m)` | `gsm_subscr_sim_pin_simcard` |
| `SapAtrResp` | SAP_TRANSFER_ATR_RESP |
| `CardAnswer` | the job layer delivering the oldest answer to `subscr_sim_query_cb`, whose three branches are `QueryError`, `QueryOk` and `DecodeFailure`, with `NextFile` for the `ignore:` label |

`SimRequest` is `subscr_sim_request`. At the terminator it sets the RPLMN
and publishes ATTACHED; otherwise it submits the read.

The card's answers (`ReadReplies`, `PinReplies`) come from the spec and
follow ETSI behaviour:
- a protected read on a locked card fails with the PIN cause;
- a PIN command may succeed, fail with PIN1_REQUIRED, or block the card;
- unblock works on a blocked card, or blocks the PUC.

### `SimBcd`: the BCD decoder and its static buffer

These are pure operators. `SimReader` applies them to its state.
- `DecodeFrom` is the loop of `sim_decode_bcd`, written as a RECURSIVE
  operator over the buffer, the nibble index and the output index. It stops
  at a 0xf nibble, at the end of `length` bytes, or one character short of
  the buffer.
- `SubscrSimIccid`, `SubscrSimImsi` and `SubscrSimMsisdn` are the three
  callers. `SubscrSimImsi` keeps the two early returns in their order. It
  computes `strlen(imsi) - 1` in `size_t` (`SizeT`) and copies from
  `imsi + 1` with `OSMO_STRLCPY_ARRAY` (`Strlcpy`).
- `BcdDigits` and `ImsiDigits` are the reference definitions the properties
  compare against. `BcdDigits` follows spec 4.3: low nibble first, stop at
  the filler, truncate to the buffer. It is written over the flattened
  nibble sequence, not as a loop. `ImsiDigits` gives the digits after the
  parity nibble of the bytes the length byte names.

Characters are their digit values and NUL is -1. `OSMO_IMSI_BUF_SIZE` is
libosmocore's 17.

### `SimSession`: what the reader promises

An abstract specification of the session spec 4.4 describes, written from
the spec, not from the code. State: `valid`, `cursor`, `decoded` (the
entries decoded from the card), `pinWait`, `session`, `published` (the
signals). Actions: `Insert` (reading starts, the test card attaches at once,
or a relay that cannot open publishes SIM_DETACHED), `Advance` (the cursor
passes one entry, decoded, or skipped if optional; passing the last one
publishes SIM_ATTACHED), `PinRequired`, `PinAccepted` (the same entry again),
`Abort` (a mandatory entry or the end, SIM_DETACHED) and `Remove`.

It is a safety specification: a reader that stops implements it by
stuttering, so the stall that `ReadingResolves` reports is not excluded
here. `Remove` leaves the session valid, as `gsm_subscr_remove` does.

`SimReader` instantiates it as `Session` with the refinement mapping
`valid <- simValid`, `cursor <- fileIndex`,
`decoded <- {f : rec[f] = "card"}`, `pinWait <- pinRequired`,
`session <- gen`, `published <- events`. `ImplementsSimSession`
(`Session!SSpec`) is checked as a property of `reader_core`. A field decoded
from another file's answer does not count as decoded, so a reader that
passes a mandatory entry with the wrong bytes does not implement the session.

`ModemApp` also instantiates it, as the SIM the modem application talks to
(see below). The two uses compose: the reader refines the session, and the
modem is checked against the session.

### `PlmnNa` (with `MCPlmnNa`): the forbidden and preferred PLMN lists

State:
- `plmnNa`: the list, oldest first.
- `updateQ`: the EF_FPLMN images pending on the update handle.
- `card`: the card's 4-triplet file.
- `synced`: a write-back was submitted since the list was read.
- `selCard` and `plmnSel`: the card's EF_PLMNsel (a sequence of triplets)
  and `subscr->plmn_list`.
- `rejected`: a history variable. It holds the PLMNs added since the card
  was read and not deleted since.

Operators:
- `DelResult` / `DelWrites` and `AddResult` / `AddWrites` are the two list
  functions and the write-backs they submit. `Operate` is the shared step.
- `FplmnImage` is the encoding loop of `subscr_write_plmn_na_simcard`. It is
  written as a left fold of the `nas[]` shift step `NasStep`.
- `SimFplmn` is the read of EF_FPLMN at insertion. It models what
  `osmo_plmn_to_bcd(&data[0], &na->plmn)` really does: it encodes the zeroed
  struct into the buffer, so every entry read is 000-00 (`PlmnZero`).
  `SimPlmnsel` is the read of EF_PLMNsel. It runs the same loop and makes
  the same call (line 933). Both are written over `Consumed`, the triplets
  before the first sentinel, and `ReadLists`, the lists the loop can leave.
- `TallocZero` is the allocator the build links (`Talloc`):
  - `"reliable"`: every allocation succeeds;
  - `"may_fail"`: libtalloc, which may return NULL;
  - `"stub"`: the `talloc_zero` of `stubs_no_gprs.c`, which always returns 0.

  A failed allocation makes a read stop with `-ENOMEM`. The entries before
  it are kept, and the reader ignores the error for these optional files. A
  failed allocation in an add comes after the deletion and its write-back.

Actions:
- `GsmSubscrAddForbiddenPlmn(p, cause)` and `GsmSubscrDelForbiddenPlmn(p)`.
  `p = NoPlmn` is the NULL flush.
- `CardUpdate`: the card executes the oldest write, or refuses it when
  `WriteFails`; `subscr_sim_update_cb` only logs.
- `Reinsert`: `gsm_subscr_exit`/`init` drop the queue and flush both lists.
  Then both files are read again: EF_PLMNsel as entry 6 of the table,
  EF_FPLMN as entry 10. No other table entry touches these lists, so the
  reads are one step here.

The card is valid throughout: the list is only written while `sim_valid` is
set, and `gsm_match_mnc` picks out `Home`. `refused` is a history variable:
the last write the card executed was refused.

### `SimStore` (with `MCSimStore`): the key Kc and the location files

State:
- `key` (`subscr->key`) and `keySeq` (`subscr->key_seq`).
- `keyQ`: authentications pending on the key handle.
- `updateQ`: the UPDATE BINARY jobs pending on the update handle, each a
  file (`KC`, `LOCI`, `LOCIGPRS`) with its image, in `sim_job` order.
- `ef`: the card's three files. EF_Kc is a key and byte 9. EF_LOCI is a
  location identifier (TMSI and LAI) and its status byte. EF_LOCIGPRS is a
  P-TMSI, a signature, and a status byte.
- `loc` and `gloc`: `subscr->tmsi`/`lai`/`ustate` and
  `gprs.ptmsi`/`ptmsi_sig`/`gu_state`. `settings`: the test card's
  settings.
- `simType`.

History variables:
- `issued`: the CKSN of each authentication.
- `cksn0`: the card's byte 9 at the start.
- `responses`: the AUTH_RESP signals.
- `refused`: the files whose last executed write the card refused.
- `locUpds` and `inserts` count the bounded environment steps.

A Kc is named by its origin. `NoKey` is the zeroed key of
`gsm_subscr_init`, whose sequence number is 7; `0` is the card's original
key; `n` is the key of the n-th authentication. `CksnOf(k)` is the
sequence number that belongs to key `k`.

Actions:
- `GsmSubscrGenerateKc(s, noSim)`: the placeholder SRES without a card;
  `GenerateKcTestcard` (computes at once, or fails); or
  `GenerateKcSimcard`, which stores `key_seq` and submits the job.
- `SubscrSimKeyCb`: an error or a short answer is dropped. Otherwise the key
  is stored, EF_Kc is written with the current `key_seq`, and SRES is
  signalled. With `MsgbFails`, the UPDATE BINARY job may fail to allocate
  (line 1490). The callback then returns with the key stored, with no
  EF_Kc write and no SRES.
- `MmLocationUpdate(l, u)` and `GmmRoutingUpdate(g, s, gu)`: MM and GMM
  (not under `src/`) finish an update and call `gsm_subscr_write_loci` or
  `gsm_subscr_write_locigprs`. A reader card gets an UPDATE BINARY built by
  `LociImage` or `LocigprsImage`, through the status switches `LupdStatus`
  and `RauStatus`. A test card gets nothing: LOCI is "not implemented", and
  `gsm_subscr_write_locigprs_testcard` returns at once because its
  `GSM_SIM_IS_READER` check is inverted. The dispatch and the testcard
  function are separate operators (`GsmSubscrWriteLocigprs`,
  `GsmSubscrWriteLocigprsTestcard`), sharing the job of
  `WriteLocigprsJob`, so the inverted check is visible in the model as the
  branch that would build the job only for a reader card.
- `CardUpdate`: the card executes or refuses the oldest write.
- `Reinsert`: the handles are closed and the key is zeroed. EF_Kc is read
  back through `SubscrSimKc`, which masks byte 9 with 7. A reader card's
  location comes back through `SubscrSimLoci` and `SubscrSimLocigprs`,
  which keep the low three status bits. A test card's location comes from
  its settings (`TestcardSettings`).

Identifiers (TMSI with LAI, P-TMSI) are model values. `htonl`/`ntohl` and
the `gsm48` LAI/RAI codecs are inverse pairs, so the identifiers are
copied. The status bytes are kept. A signature is either one the network
assigned (`NetSig`) or the bytes of a P-TMSI (`PtmsiBytes`). The code
writes the second kind (lines 1391-1393), so `LocationRestored` leaves the
signature out. With the signature included, TLC reports the property
violated after one routing area update. The hazard list records the
defect.

`MaxPending` bounds the jobs pending on the key handle. The caller, MM, is
not under `src/` and waits for each answer, so the passing run uses 1.

### `ModemApp` (with `MCModemApp`): the GPRS modem application

State:
- `started` (`ms->started`), `syncPending` (`cellsel.sync_pending`) and
  `modemState` (`app_data.modem_state`): the application's own state.
- `toL1` and `fromL1`: the L1CTL requests and answers in flight, each in
  order. `l1Busy`: L1 runs an FBSB search.
- `grrReady`: the GRR FSM is past PACKET_NOT_READY.
- `simType` (`settings.sim_type`) and the variables of `SimSession`
  (`valid`, `cursor`, `decoded`, `pinWait`, `session`, `published`): the SIM,
  as the abstract session specification describes it.
- `gmmAttach`, `gmmDetach`: the procedures GMM runs on the modem's request.
- `sndcpTx`: history of (PDP type, IP version) pairs passed to SNDCP.

The application's actions:

| Action | Code |
|---|---|
| `L1ctlReset` | `global_signal_cb`, S_L1CTL_RESET: ignored once started; the first one runs `layer3_app_reset` (`Layer3AppReset`), inserts the SIM, sets `started` and sends an FBSB request without setting `sync_pending` |
| `L1ctlFbsbResp` / `L1ctlFbsbErr` | S_L1CTL_FBSB_RESP clears `sync_pending`; S_L1CTL_FBSB_ERR clears it and retries through `modem_sync_to_cell` |
| `ModemL23SubscrSignalCb(e)` | `modem_l23_subscr_signal_cb` for a published SIM signal: SIM_ATTACHED runs `modem_gprs_attach_if_needed` (`ModemGprsAttachIfNeeded`) with the signal's `sim_valid`; SIM_DETACHED sends GMMREG-DETACH.req |
| `SubscrSimAuthResp` | the SRES passed to GMM; GMM keeps no state the model tells apart, so the step changes nothing |
| `ModemTunDataIndCb(v, short, pdp)` | `modem_tun_data_ind_cb`: the version switch (`TunForwards`) and the PDP address-type filter (`PdpAllows`) |

`ModemSyncToCell` is `modem_sync_to_cell`, called from the FBSB error path
and by GRR. `GsmSubscrInsert` is the insertion on the first reset: a reader
card makes `Sim!Insert` with `sim_valid` set and nothing published. `ModemStart` is `_modem_start`, and `Init` is `l23_app_init`.

L1, GRR and GMM are not in the repository. They are environment actions:
- `L1Execute` runs the oldest request; a reset aborts a running search.
- `L1FbsbDone` ends a search with RESP or ERR.
- `L1Restart` is a firmware restart: the requests in flight and the search
  are lost, and L1CTL_RESET is indicated.
- `GrrStateChange` and `GrrSyncToCell`.
- `GmmAttachDone` ends an attach, accepted or not, and `GmmDetachDone` ends
  a detach; both set `modem_state`, as GMM does.

The SIM is composed, not invented: `Sim == INSTANCE SimSession`, with a
file table of `SimFiles` entries. After the insertion every `SimSession`
action is a step of the SIM (`SimAdvance`, `SimPinRequired`,
`SimPinAccepted`, `SimAbort`, `SimRemove`). A signal the step publishes is
handed to `ModemL23SubscrSignalCb` in the same step (`SimDispatch`), as
`osmo_signal_dispatch` calls the handler directly. Run `reader_core` checks
that `SimReader` implements `SimSession`, so the modem is checked against
every signal order the reader can produce, and more. These include
SIM_ATTACHED published again after a PIN unlock (see
`reader_pin_after_attach`), SIM_DETACHED from a removal that leaves
`sim_valid` set (see `reader_remove`), and a SIM_ATTACHED after an abort,
carrying `sim_valid` = 0.

## 3. Runs

| Run | cfg | Expect | What it shows |
|---|---|---|---|
| reader_core | `SimReader_core.cfg` | pass | Setup: all backends, all PIN commands, cards open, locked or blocked, a patient user (PIN commands only when prompted or once the table is read, never with a read pending), one SAP ATR, two cards' ICCID/IMSI/MSISDN bytes. Result: every field comes from its own file (`RecordFromOwnFile`); no attach while invalid (`NoAttachWhileInvalid`); the ICCID read is the spec's BCD decoding of the card's EF_ICCID, up to the 31 digits the static buffer holds (`IccidFromOwnFile`); every step is a step of `SimSession` (`ImplementsSimSession`). That mandatory files are read before the cursor passes them is a `SimSession` invariant, so `ImplementsSimSession` covers it. About 3.3 M states, 1 min 30 s. |
| reader_stall | `SimReader_stall.cfg` | violation | `ReadingResolves`: a mandatory decode failure leaves a valid, unattached reader card with nothing pending. |
| reader_impatient | `SimReader_impatient.cfg` | violation | `RecordFromOwnFile`: a PIN command sent during reading is answered in place of a read. |
| reader_pin_after_attach | `SimReader_pin_after_attach.cfg` | violation | `AttachOnce`: PIN1_REQUIRED after attach, then unlock, attaches again. |
| reader_remove | `SimReader_remove.cfg` | violation | `NoAttachAfterDetach`: removal during reading is followed by ATTACHED. |
| fplmn_list | `PlmnNa_list.cfg` | pass | Setup: the card may refuse writes. Result: no PLMN is listed twice (`NoDuplicateEntries`); the image is the last four entries in order (`ImageIsLastFour`); once the queue drains with the last write accepted, the card lists no PLMN that memory no longer forbids (`RemovalReachesCard`). The allocator is reliable. With `Talloc = "may_fail"`, all three still hold (5.2 M states, 2 min 21 s). |
| fplmn_home | `PlmnNa_home.cfg` | violation | `HomeNeverPersisted`: the home PLMN reaches EF_FPLMN through the next add (spec 3 forbids it). |
| fplmn_read | `PlmnNa_fplmn_read.cfg` | violation | `CardListsRead`: reading EF_FPLMN and EF_PLMNsel loses every PLMN (000-00), where spec 4.3 says each triplet decodes to a PLMN. |
| auth_reader | `SimStore_reader.cfg` | pass | Setup: reader and test cards; card errors, short answers, failed job allocations, refused writes, two location or routing area updates, and re-insertion. Result: every EF_Kc image, written or pending, pairs a key with its own sequence number (`CardKcConsistent`). A re-insertion of a reader card whose last LOCI (LOCIGPRS) write was executed, with none pending, restores the location: identifier and U state, with U0 read back as U2 (P-TMSI and GU state) (`LocationRestored`). About 7.6 M states, 1 min. |
| auth_reader_pair | `SimStore_reader_pair.cfg` | violation | `KeyPairConsistent`: a failed RUN GSM ALGORITHM leaves the new `key_seq` with the old key; spec 4.2 stores both on success. |
| modem_app | `ModemApp_app.cfg` | pass | Setup: both SIM settings, every PDP type, IP versions 4, 6 and 5, one L1 restart, two GRR synchronisations, the SIM as `SimSession` over a one-entry table with three published signals. Result: `modem_state` is ATTACHING exactly while GMM runs the one attach the modem asked for, even when SIM_ATTACHED comes again or GMM refuses the request (`AttachTracksGmm`); while ATTACHING, the SIM's last signal is a SIM_ATTACHED of a valid card, or a detach is pending at GMM (`AttachingHasSim`). The tun callback's version switch runs in every state but is not a property: what it forwards is its own condition. About 1.9 M states, 45 s. |
| modem_restart | `ModemApp_restart.cfg` | violation | `SyncAnswered`: an L1 restart during a synchronisation loses the search; the following L1CTL_RESET is ignored once started, so `sync_pending` stays set and GRR's next `modem_sync_to_cell` is refused for good. The SIM publishes nothing and GRR asks once, so the whole lasso (about 10 states) fits in TLC's trace: start-up, GRR's call, the restart, the ignored reset, then GRR and the tun device stepping forever with `sync_pending` set. With no restart (`MaxRestarts` = 0) the property holds. |

Each passing property has a mutant in `PROJECT.json` that TLC catches:
- an end-of-table off-by-one;
- the index incremented after the request is built;
- a failed mandatory read that is retried;
- cause 0 stored raw;
- the `key_seq` store dropped;
- byte 9 of EF_Kc read without the mask;
- U3 written to EF_LOCI as "not updated";
- an add that does not delete first;
- a `nas[]` overwrite without the shift;
- a delete that is not written back;
- the end of the table reached without SIM_ATTACHED (`ImplementsSimSession`);
- `modem_gprs_attach_if_needed` without its `modem_state` check, without
  its `sim_valid` check, and without the reset to IDLE after a refused
  request;
- `sim_decode_bcd` taking the high nibble first.

The SAP ATR defect (a second ATR re-issues the pending read, line 1579) is
acknowledged by the code's TODO at line 1577. The model has it
(`SapAtrResp`): with `MaxAtr` = 2, `RecordFromOwnFile` fails. No run is
kept for it.

### Bounds

Reader:
- 12 table entries, as in the code.
- `MaxInserts` = 2: re-insertion and events of two generations.
- `MaxPin` = 2: a failing PIN command followed by a second one.
- `MaxAtr` = 1: one ATR per insertion, as the relay sends it.
- `MaxRemoves` = 1.
- Two cards (`MCCards`), each one insertion away from the other. The first
  has a 16-byte EF_ICCID of digits, which reaches the buffer's limit of 31
  characters, a 15-digit IMSI, and a 20-digit MSISDN. The second has an
  erased EF_ICCID, which writes only `result[0]`, a 14-digit IMSI, and no
  MSISDN. Between them, every decode starts on a buffer that holds longer
  leftovers than it writes. With four cards the run takes over four
  minutes and reaches no new order of decodes.

Authentication:
- CKSN values {0, 1}.
- Card bytes {2, 15}; 15 has bits above the sequence.
- Three authentications and one re-insertion: this reaches a failure
  followed by a success, and a read of a written EF_Kc.
- One location identifier, one P-TMSI, one network signature, and a card
  status byte of 11. The status byte has bits above the low three, and its
  low bits decode as "not updated". `MaxLocUpd` = 2: two updates can queue
  on the update handle before the card runs them, with an EF_Kc write
  between them. Every U and GU state is reachable. The card's status
  decoding is covered by the reads of written images, which use the
  status values 0, 1 and 3. A second identifier quadruples the state space (25.7 M
  states, 4.5 min) and adds no order that one identifier misses: a stale
  image differs from the current one in its status byte.

List:
- Three PLMNs, one of them home.
- Cards holding zero, one, or four entries in EF_FPLMN. EF_PLMNsel holds
  either two PLMNs, which the loop leaves by its length test, or one PLMN
  then the sentinel then a PLMN that must not be read.
- `MaxOps` = 4 per insertion, one re-insertion. Four operations on a full
  card reach a five-entry list, so the shift loop and the drop of the oldest
  entry both happen.

Modem:
- One L1 restart and two GRR synchronisations. The SIM is `SimSession`
  over one mandatory file with three published signals. This covers a
  repeated SIM_ATTACHED during an attach, a detach during an attach, an
  abort followed by a SIM_ATTACHED of an invalid card, a restart during a
  search, and a synchronisation requested during the start-up search. A
  two-entry table adds only an optional file to skip; the modem sees the same
  signals, and the run would take over five minutes.
- IP versions 4, 6 and one other; all three PDP types.

All passing runs finish within a minute, except `reader_core` (about 1 min 30 s) and `auth_reader` (about 1 min).

### Fairness

Only the job layer is assumed fair. `WF(CardAnswer)`, and in `SimStore` and
`PlmnNa` weak fairness of the key callback and of the card's updates: every submitted job is
eventually answered, which is the contract the spec gives the job layer. The
first SAP ATR is also fair. The user, the network and the application owe
nothing: PIN entry, removal and list operations get no fairness.
`ReadingResolves` therefore names `pinRequired` as an acceptable end.

In `ModemApp` the fair actions are the following:
- the event loop's dispatch of every L1CTL message;
- L1's execution of its requests, and the end of every search (the FBSB
  request carries a timeout of 100 frames);
- GMM's end of its procedures (GMM's attach and detach timers).

The SIM, GRR, the tun device and L1 restarts owe nothing.

## 4. Not modelled yet, and the plan

1. Four defects are modelled
   but have no violation run. The hazard list records how TLC reproduces
   each:
   - the LOCIGPRS signature (line 1392), in `SimStore`;
   - an erased EF_IMSI, which is accepted as ICCID digits (line 749).
     `ImsiFromOwnFile` (in `SimReader`) states the claim. It fails once
     such a card is added to `MCCards`. The run's cards decode correctly,
     and on them the claim says nothing the static buffer could break, so
     no run checks it;
   - the inverted IMSI length check (line 741), in `SimBcd`;
   - the add that deletes before it allocates (line 401).
     `RejectedStaysForbidden` (in `PlmnNa`) states the claim: a PLMN the
     network rejected stays forbidden until it is deleted. It holds only
     while `talloc_zero` succeeds. With `Talloc = "may_fail"` it fails
     after one add, and with `"stub"` (the repository's own
     `stubs_no_gprs.c`) at the first add. So no run checks it.
2. A lost SAP answer (line 1553) and allocation failure in
   `subscr_sim_request` (line 1099). Both are stalls that `ReadingResolves`
   would report. Allocation failure is modelled only in the list code
   (`PlmnNa`'s `Talloc`). A positive liveness property for all three
   backends ("every insertion of a valid card ends in a signal, a PIN
   request or a data-invalid notice") holds on the `reader_core` bounds.
   It took 4 minutes there against 1 min 40 s without it, so it is not part
   of a run.
3. In the modem: the stale FBSB_RESP of the start-up search. `L1ctlReset`
   sends it without `sync_pending` (line 239), and the model reaches it. No
   property states it yet.

These parts are out of reach and are not planned:
- the FreeRTOS socket shims, which are pure I/O;
- the link stubs other than `talloc_zero`: they return constants to calls
  that no module makes;
- `apn.h`, which holds declarations;
- the dump functions, which only produce output;
- the tun callback's byte-level parsing and buffer ownership: the IPv4
  short-packet return at line 100 leaks the buffer, and IPv6 has no length
  check (line 112);
- GMM, GRR and L1 themselves, which are not in the repository.

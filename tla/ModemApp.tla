------------------------------- MODULE ModemApp -------------------------------
(***************************************************************************)
(* The GPRS modem application src/host/layer23/src/modem/app_modem.c:     *)
(* its start-up on the first L1CTL reset, cell synchronisation            *)
(* (modem_sync_to_cell and the FBSB answers of global_signal_cb), the     *)
(* reaction to the SIM's signals (modem_l23_subscr_signal_cb and          *)
(* modem_gprs_attach_if_needed), and the address-family filter of the     *)
(* tun callback.                                                           *)
(*                                                                         *)
(* Layer 1, the SIM, GRR and GMM are collaborators outside this file and  *)
(* are modelled by what they do to the application: L1 consumes requests  *)
(* in order and answers them, and may restart; GRR changes state and asks *)
(* for synchronisation; GMM finishes the attach and detach procedures and *)
(* sets modem_state. The SIM is the abstract SimSession: every step it    *)
(* allows, and every signal it publishes is dispatched to the modem's     *)
(* handler in the same step (osmo_signal_dispatch is a direct call).      *)
(* SimReader implements SimSession (run reader_core), so what holds here  *)
(* for every SimSession behaviour holds for the reader.                   *)
(***************************************************************************)
EXTENDS Integers, Sequences, FiniteSets

CONSTANTS
  SimTypes,      \* settings.sim_type: subset of {"NONE", "CARD"}
  PdpTypes,      \* address types of the APN's PDP context
  Versions,      \* IP versions of packets from the tun device (4, 6, other)
  MaxRestarts,   \* bound on L1 restarts
  MaxSyncCalls,  \* bound on GRR's calls of modem_sync_to_cell
  MaxSignals,    \* bound on the SIM's published signals
  SimFiles,      \* the SIM file table entries 1 .. n
  SimMandatory   \* its mandatory entries

ASSUME SimTypes \subseteq {"NONE", "CARD"} /\ SimTypes # {}
ASSUME PdpTypes \subseteq {"IPV4", "IPV6", "IPV4V6"}
ASSUME {4, 6} \subseteq Versions

ModemStates == {"IDLE", "ATTACHING", "ATTACHED"}

VARIABLES
  started,     \* ms->started
  syncPending, \* ms->cellsel.sync_pending
  toL1,        \* L1CTL requests sent and not yet executed by L1
  l1Busy,      \* L1 runs an FBSB search
  fromL1,      \* L1CTL answers not yet dispatched: RESET, RESP, ERR
  restarts,    \* L1 restarts so far
  syncCalls,   \* GRR's calls of modem_sync_to_cell so far
  modemState,  \* app_data.modem_state
  grrReady,    \* ms->grr_fi->state # GRR_ST_PACKET_NOT_READY
  simType,     \* ms->settings.sim_type
  valid, cursor, decoded, pinWait, session, published, \* the SimSession
  gmmAttach,   \* attach procedures GMM runs on the modem's request
  gmmDetach,   \* a detach request is pending at GMM
  sndcpTx      \* <<PDP type, IP version>> of packets passed to SNDCP (history)

vars == <<started, syncPending, toL1, l1Busy, fromL1, restarts, syncCalls,
          modemState, grrReady, simType, valid, cursor, decoded, pinWait,
          session, published, gmmAttach, gmmDetach, sndcpTx>>
l1Vars == <<toL1, l1Busy, fromL1, restarts>>
simVars == <<simType, valid, cursor, decoded, pinWait, session, published>>

SimTerminator == Cardinality(SimFiles) + 1

Sim == INSTANCE SimSession WITH Files <- SimFiles, Mandatory <- SimMandatory,
                                Terminator <- SimTerminator

SimSignals == [ev : {"attached", "detached"}, gen : {1}, valid : BOOLEAN]

TypeOK ==
  /\ started \in BOOLEAN /\ syncPending \in BOOLEAN
  /\ toL1 \in Seq({"RESET", "FBSB"}) /\ l1Busy \in BOOLEAN
  /\ fromL1 \in Seq({"RESET", "RESP", "ERR"})
  /\ restarts \in 0 .. MaxRestarts /\ syncCalls \in 0 .. MaxSyncCalls
  /\ modemState \in ModemStates /\ grrReady \in BOOLEAN
  /\ simType \in SimTypes /\ valid \in BOOLEAN /\ pinWait \in BOOLEAN
  /\ cursor \in 1 .. SimTerminator /\ decoded \subseteq SimFiles
  /\ session \in 0 .. 1
  /\ published \in Seq(SimSignals) /\ Len(published) <= MaxSignals
  /\ gmmAttach \in 0 .. 1 /\ gmmDetach \in BOOLEAN
  /\ sndcpTx \subseteq PdpTypes \X Versions

-----------------------------------------------------------------------------
(***************************************************************************)
(* The application's operations.                                           *)
(***************************************************************************)

\* Mutation of ModemGprsAttachIfNeeded: modem_state is not checked.
ModemGprsAttachIfNeededNoStateCheck(simValid) ==
  IF grrReady /\ simValid
  THEN \/ modemState' = "ATTACHING" /\ gmmAttach' = gmmAttach + 1
       \/ UNCHANGED <<modemState, gmmAttach>>
  ELSE UNCHANGED <<modemState, gmmAttach>>

\* Mutation of ModemGprsAttachIfNeeded: sim_valid is not checked.
ModemGprsAttachIfNeededNoSimCheck(simValid) ==
  IF modemState = "IDLE" /\ grrReady
  THEN \/ modemState' = "ATTACHING" /\ gmmAttach' = gmmAttach + 1
       \/ UNCHANGED <<modemState, gmmAttach>>
  ELSE UNCHANGED <<modemState, gmmAttach>>

\* Mutation of ModemGprsAttachIfNeeded: a refused request leaves ATTACHING.
ModemGprsAttachIfNeededNoReset(simValid) ==
  IF modemState = "IDLE" /\ grrReady /\ simValid
  THEN \/ modemState' = "ATTACHING" /\ gmmAttach' = gmmAttach + 1
       \/ modemState' = "ATTACHING" /\ UNCHANGED gmmAttach
  ELSE UNCHANGED <<modemState, gmmAttach>>

(***************************************************************************)
(* modem_gprs_attach_if_needed: nothing unless the modem is IDLE, GRR is  *)
(* past PACKET_NOT_READY and the SIM is valid; then modem_state becomes   *)
(* ATTACHING and GMMREG-ATTACH.req is sent, which either starts GMM's     *)
(* attach (rc >= 0) or fails, and modem_state is set back to IDLE.        *)
(* simValid is ms->subscr.sim_valid when the function runs.               *)
(***************************************************************************)
ModemGprsAttachIfNeeded(simValid) ==
  IF modemState = "IDLE" /\ grrReady /\ simValid
  THEN \/ modemState' = "ATTACHING" /\ gmmAttach' = gmmAttach + 1
       \/ UNCHANGED <<modemState, gmmAttach>>
  ELSE UNCHANGED <<modemState, gmmAttach>>

\* modem_sync_to_cell: refused while a synchronisation is pending, else
\* sync_pending is set and a full L1 reset and an FBSB request are sent.
ModemSyncToCell ==
  IF syncPending
  THEN UNCHANGED <<syncPending, toL1>>
  ELSE syncPending' = TRUE /\ toL1' = toL1 \o <<"RESET", "FBSB">>

\* layer3_app_reset: app_data is zeroed, modem_state is IDLE.
Layer3AppReset == modemState' = "IDLE"

(***************************************************************************)
(* global_signal_cb, S_L1CTL_RESET: once started, only the ARFCN is set.  *)
(* The first reset zeroes app_data, inserts the SIM unless sim_type is    *)
(* NONE (gsm_subscr_insert of a reader card sets sim_valid and starts     *)
(* reading, publishing nothing yet), marks the station started and sends  *)
(* an FBSB request, without sync_pending.                                 *)
(***************************************************************************)
GsmSubscrInsert ==
  IF simType # "NONE"
  THEN valid' = TRUE /\ published' = published /\ Sim!Insert
  ELSE UNCHANGED <<valid, cursor, decoded, pinWait, session, published>>

L1ctlReset ==
  /\ fromL1 # <<>> /\ Head(fromL1) = "RESET"
  /\ fromL1' = Tail(fromL1)
  /\ IF started
     THEN UNCHANGED <<started, toL1, modemState, valid, cursor, decoded,
                      pinWait, session, published>>
     ELSE /\ Layer3AppReset
          /\ GsmSubscrInsert
          /\ started' = TRUE
          /\ toL1' = Append(toL1, "FBSB")
  /\ UNCHANGED <<syncPending, l1Busy, restarts, syncCalls, grrReady, simType,
                 gmmAttach, gmmDetach, sndcpTx>>

\* S_L1CTL_FBSB_RESP: the synchronisation is over.
L1ctlFbsbResp ==
  /\ fromL1 # <<>> /\ Head(fromL1) = "RESP"
  /\ fromL1' = Tail(fromL1)
  /\ syncPending' = FALSE
  /\ UNCHANGED <<started, toL1, l1Busy, restarts, syncCalls, modemState,
                 grrReady, gmmAttach, gmmDetach, sndcpTx>>
  /\ UNCHANGED simVars

\* S_L1CTL_FBSB_ERR: sync_pending is cleared and modem_sync_to_cell
\* retries at once.
L1ctlFbsbErr ==
  /\ fromL1 # <<>> /\ Head(fromL1) = "ERR"
  /\ fromL1' = Tail(fromL1)
  /\ syncPending' = TRUE
  /\ toL1' = toL1 \o <<"RESET", "FBSB">>
  /\ UNCHANGED <<started, l1Busy, restarts, syncCalls, modemState,
                 grrReady, gmmAttach, gmmDetach, sndcpTx>>
  /\ UNCHANGED simVars

(***************************************************************************)
(* modem_l23_subscr_signal_cb for a published signal e.                   *)
(* S_L23_SUBSCR_SIM_ATTACHED (after the card has been read, and again     *)
(* after a PIN unlock at the end of the table) calls                      *)
(* modem_gprs_attach_if_needed; SIM_DETACHED (also from gsm_subscr_remove,*)
(* which leaves sim_valid set) sends GMMREG-DETACH.req.                   *)
(***************************************************************************)
ModemL23SubscrSignalCb(e) ==
  IF e.ev = "attached"
  THEN ModemGprsAttachIfNeeded(e.valid) /\ UNCHANGED gmmDetach
  ELSE gmmDetach' = TRUE /\ UNCHANGED <<modemState, gmmAttach>>

\* S_L23_SUBSCR_SIM_AUTH_RESP passes SRES and subscr.key to GMM, which
\* answers the network and keeps no state the model tells apart.
SubscrSimAuthResp ==
  /\ started /\ valid
  /\ UNCHANGED vars

(***************************************************************************)
(* modem_tun_data_ind_cb for a packet of IP version v (short: shorter     *)
(* than its IPv4 header) on a PDP context of address type pdp: a short    *)
(* IPv4 packet or one of another version is refused, a packet of the      *)
(* wrong family for the context is discarded, the rest goes to SNDCP.     *)
(* IPv6 packets are not length-checked.                                   *)
(***************************************************************************)
PdpAllows(pdp, v) ==
  CASE pdp = "IPV4" -> v = 4
    [] pdp = "IPV6" -> v = 6
    [] OTHER        -> TRUE

TunForwards(v, short, pdp) ==
  /\ v \in {4, 6}
  /\ ~(v = 4 /\ short)
  /\ PdpAllows(pdp, v)

ModemTunDataIndCb(v, short, pdp) ==
  /\ sndcpTx' = IF TunForwards(v, short, pdp) THEN sndcpTx \cup {<<pdp, v>>} ELSE sndcpTx
  /\ UNCHANGED <<started, syncPending, syncCalls, modemState, grrReady,
                 gmmAttach, gmmDetach>>
  /\ UNCHANGED l1Vars
  /\ UNCHANGED simVars

-----------------------------------------------------------------------------
(***************************************************************************)
(* The collaborators.                                                      *)
(***************************************************************************)

\* L1 executes the oldest request: a full reset aborts the FBSB search
\* and is confirmed with L1CTL_RESET; an FBSB request starts a search.
L1Execute ==
  /\ toL1 # <<>>
  /\ toL1' = Tail(toL1)
  /\ IF Head(toL1) = "RESET"
     THEN l1Busy' = FALSE /\ fromL1' = Append(fromL1, "RESET")
     ELSE l1Busy' = TRUE /\ UNCHANGED fromL1
  /\ UNCHANGED <<started, syncPending, restarts, syncCalls, modemState,
                 grrReady, gmmAttach, gmmDetach, sndcpTx>>
  /\ UNCHANGED simVars

\* The FBSB search ends: the cell is found or not.
L1FbsbDone ==
  /\ l1Busy
  /\ l1Busy' = FALSE
  /\ \E r \in {"RESP", "ERR"} : fromL1' = Append(fromL1, r)
  /\ UNCHANGED <<started, syncPending, toL1, restarts, syncCalls, modemState,
                 grrReady, gmmAttach, gmmDetach, sndcpTx>>
  /\ UNCHANGED simVars

\* L1 restarts: requests not yet executed and the running search are
\* lost, and L1CTL_RESET is indicated.
L1Restart ==
  /\ started /\ restarts < MaxRestarts
  /\ restarts' = restarts + 1
  /\ toL1' = <<>> /\ l1Busy' = FALSE
  /\ fromL1' = Append(fromL1, "RESET")
  /\ UNCHANGED <<started, syncPending, syncCalls, modemState, grrReady,
                 gmmAttach, gmmDetach, sndcpTx>>
  /\ UNCHANGED simVars

\* The steps of the inserted SIM (SimSession's actions); a signal a step
\* publishes is dispatched to modem_l23_subscr_signal_cb within the step.
SimInserted == session > 0 /\ Len(published) < MaxSignals

SimDispatch ==
  /\ IF Len(published') > Len(published)
     THEN ModemL23SubscrSignalCb(published'[Len(published')])
     ELSE UNCHANGED <<modemState, gmmAttach, gmmDetach>>
  /\ UNCHANGED <<started, syncPending, syncCalls, grrReady, simType, sndcpTx>>
  /\ UNCHANGED l1Vars

SimAdvance     == SimInserted /\ Sim!Advance /\ SimDispatch
SimPinRequired == SimInserted /\ Sim!PinRequired /\ SimDispatch
SimPinAccepted == SimInserted /\ Sim!PinAccepted /\ SimDispatch
SimAbort       == SimInserted /\ Sim!Abort /\ SimDispatch
SimRemove      == SimInserted /\ Sim!Remove /\ SimDispatch

\* GRR leaves or re-enters PACKET_NOT_READY.
GrrStateChange ==
  /\ started
  /\ grrReady' = ~grrReady
  /\ UNCHANGED <<started, syncPending, syncCalls, modemState, gmmAttach,
                 gmmDetach, sndcpTx>>
  /\ UNCHANGED l1Vars
  /\ UNCHANGED simVars

\* GRR asks for synchronisation to the cell.
GrrSyncToCell ==
  /\ started /\ syncCalls < MaxSyncCalls
  /\ syncCalls' = syncCalls + 1
  /\ ModemSyncToCell
  /\ UNCHANGED <<started, l1Busy, fromL1, restarts, modemState, grrReady,
                 gmmAttach, gmmDetach, sndcpTx>>
  /\ UNCHANGED simVars

\* GMM ends an attach procedure, accepted or not, and sets modem_state.
GmmAttachDone ==
  /\ gmmAttach > 0
  /\ gmmAttach' = gmmAttach - 1
  /\ modemState' \in {"ATTACHED", "IDLE"}
  /\ UNCHANGED <<started, syncPending, syncCalls, grrReady, gmmDetach, sndcpTx>>
  /\ UNCHANGED l1Vars
  /\ UNCHANGED simVars

\* GMM detaches, aborting an attach in progress; modem_state is IDLE.
GmmDetachDone ==
  /\ gmmDetach
  /\ gmmDetach' = FALSE /\ gmmAttach' = 0
  /\ modemState' = "IDLE"
  /\ UNCHANGED <<started, syncPending, syncCalls, grrReady, sndcpTx>>
  /\ UNCHANGED l1Vars
  /\ UNCHANGED simVars

-----------------------------------------------------------------------------
\* _modem_start: layer2 is open and a full L1 reset has been sent.
ModemStart == toL1 = <<"RESET">>

\* After l23_app_init and _modem_start: the station is allocated, the GRR
\* FSM starts in PACKET_NOT_READY, the signal handlers are registered.
Init ==
  /\ started = FALSE /\ syncPending = FALSE
  /\ ModemStart /\ l1Busy = FALSE /\ fromL1 = <<>>
  /\ restarts = 0 /\ syncCalls = 0
  /\ modemState = "IDLE" /\ grrReady = FALSE
  /\ simType \in SimTypes /\ Sim!SInit
  /\ gmmAttach = 0 /\ gmmDetach = FALSE
  /\ sndcpTx = {}

Next ==
  \/ L1ctlReset \/ L1ctlFbsbResp \/ L1ctlFbsbErr
  \/ SubscrSimAuthResp
  \/ SimAdvance \/ SimPinRequired \/ SimPinAccepted \/ SimAbort \/ SimRemove
  \/ \E v \in Versions, short \in BOOLEAN, pdp \in PdpTypes :
       ModemTunDataIndCb(v, short, pdp)
  \/ L1Execute \/ L1FbsbDone \/ L1Restart
  \/ GrrStateChange \/ GrrSyncToCell
  \/ GmmAttachDone \/ GmmDetachDone

(***************************************************************************)
(* The event loop dispatches every L1CTL message (osmo_select_main), L1   *)
(* executes its requests and ends every search (the FBSB request has a    *)
(* timeout of 100 frames), and GMM ends its procedures (T3310, T3321).    *)
(***************************************************************************)
Fairness ==
  /\ WF_vars(L1ctlReset) /\ WF_vars(L1ctlFbsbResp) /\ WF_vars(L1ctlFbsbErr)
  /\ WF_vars(L1Execute) /\ WF_vars(L1FbsbDone)
  /\ WF_vars(GmmAttachDone) /\ WF_vars(GmmDetachDone)

Spec == Init /\ [][Next]_vars /\ Fairness

-----------------------------------------------------------------------------
(***************************************************************************)
(* Properties.                                                             *)
(***************************************************************************)

\* modem_state tells the truth about GMM: it is ATTACHING exactly while
\* GMM runs one attach the modem requested, so a SIM_ATTACHED published
\* again during an attach does not start a second one, and a request GMM
\* refused does not leave the modem ATTACHING.
AttachTracksGmm ==
  (modemState = "ATTACHING") = (gmmAttach = 1)

\* GMM runs an attach only for a card the SIM has declared usable: while
\* the modem is ATTACHING, the last signal the SIM published is a
\* SIM_ATTACHED with sim_valid set, or a SIM_DETACHED has since asked GMM
\* to detach. A SIM_ATTACHED published after the card became invalid
\* (SimSession allows one after an abort) must not start an attach.
AttachingHasSim ==
  modemState = "ATTACHING" =>
    \/ gmmDetach
    \/ published # <<>> /\ published[Len(published)].ev = "attached"
                        /\ published[Len(published)].valid

\* A synchronisation modem_sync_to_cell started is answered: while
\* sync_pending is set, an FBSB answer eventually reaches global_signal_cb
\* (otherwise every later modem_sync_to_cell is refused).
SyncAnswered ==
  syncPending ~> (fromL1 # <<>> /\ Head(fromL1) \in {"RESP", "ERR"})
=============================================================================

------------------------------- MODULE SimStore -------------------------------
(***************************************************************************)
(* What src/host/layer23/src/common/subscriber.c keeps on the card for the *)
(* record: the session key Kc and the location files.                      *)
(*                                                                         *)
(* Authentication: gsm_subscr_generate_kc with its test-card and reader    *)
(* variants, subscr_sim_key_cb on the "key" job handle, and the           *)
(* write-back of EF_Kc (7F20/6F20).                                        *)
(*                                                                         *)
(* Location: gsm_subscr_write_loci and gsm_subscr_write_locigprs, called  *)
(* by MM and GMM after a location or routing area update, and their       *)
(* encodings of EF_LOCI (6F7E) and EF_LOCIGPRS (6F53).                     *)
(*                                                                         *)
(* All three files are written on the one "update" handle and read back   *)
(* (subscr_sim_kc, subscr_sim_loci, subscr_sim_locigprs) when the card is *)
(* inserted again.                                                         *)
(*                                                                         *)
(* A Kc is named by where it came from: NoKey is the zeroed key of        *)
(* gsm_subscr_init, 0 the key the card held at the start, n > 0 the key   *)
(* the n-th authentication computed. A location is a (TMSI, LAI) pair of  *)
(* Locs with its U state; a GPRS location a (P-TMSI, RAI) pair of GIds,   *)
(* its P-TMSI signature and its GU state.                                 *)
(***************************************************************************)
EXTENDS Integers, Sequences

CONSTANTS
  SimTypes,        \* sim_type of the inserted card: subset of {"L1PHY", "TEST"}
  Cksns,           \* key sequence numbers the network sends (CKSN)
  CardSeqBytes,    \* byte 9 of EF_Kc the card may hold at the start
  NoKey,           \* the zeroed key of a fresh record
  Dummy,           \* the placeholder SRES 12 34 56 78
  MaxAuth,         \* bound on authentication requests
  MaxPending,      \* bound on RUN GSM ALGORITHM jobs pending at once
  MaxInserts,      \* bound on re-insertions
  Locs,            \* (TMSI, LAI) pairs MM may be given
  GIds,            \* (P-TMSI, RAI) pairs GMM may be given
  Sigs,            \* P-TMSI signatures the network may issue
  CardStatusBytes, \* status byte of EF_LOCI / EF_LOCIGPRS at the start
  MaxLocUpd,       \* bound on location and routing area updates
  MsgbFails        \* gsm_sim_msgb_alloc may return NULL

ASSUME SimTypes \subseteq {"L1PHY", "TEST"} /\ SimTypes # {}
ASSUME Cksns \subseteq 0 .. 6 /\ CardSeqBytes \subseteq 0 .. 255
ASSUME CardStatusBytes \subseteq 0 .. 255 /\ MsgbFails \in BOOLEAN

Kcs == {NoKey} \cup 0 .. MaxAuth
UStates == {"U0", "U1", "U2", "U3"}      \* GSM_SIM_U0_NULL .. U3_ROAMING_NA
GuStates == {"GU0", "GU1", "GU2", "GU3"} \* GSM_SIM_GU0_NULL .. GU3_ROAMING_NA
Files == {"KC", "LOCI", "LOCIGPRS"}

\* A P-TMSI signature field: one the network issued, or the three bytes
\* of htonl(ptmsi) that the write-back stores in its place.
NetSig(s) == [src |-> "network", n |-> s]
PtmsiBytes(g) == [src |-> "ptmsi", n |-> g]
SigFields == {NetSig(s) : s \in Sigs} \cup {PtmsiBytes(g) : g \in GIds}

KcImages == [kc : Kcs, seq : 0 .. 255]
LociImages == [id : Locs, status : 0 .. 255]
LocigprsImages == [gid : GIds, sig : SigFields, status : 0 .. 255]
UpdateJobs == [file : {"KC"}, img : KcImages]
                \cup [file : {"LOCI"}, img : LociImages]
                \cup [file : {"LOCIGPRS"}, img : LocigprsImages]

VARIABLES
  simType,   \* subscr->sim_type
  key,       \* subscr->key
  keySeq,    \* subscr->key_seq
  loc,       \* subscr->tmsi, lai and ustate
  gloc,      \* subscr->gprs.ptmsi, rai, ptmsi_sig and gu_state
  keyQ,      \* authentications pending on subscr->sim_handle_key
  updateQ,   \* UPDATE BINARY jobs pending on subscr->sim_handle_update
  ef,        \* the card's EF_Kc, EF_LOCI and EF_LOCIGPRS
  settings,  \* the test card's location settings (set->test_sim); unused
             \* with a reader card
  issued,    \* CKSN of every authentication so far (history)
  cksn0,     \* byte 9 of EF_Kc at the start (history)
  responses, \* S_L23_SUBSCR_SIM_AUTH_RESP signals: authentication or Dummy
  refused,   \* files whose last executed UPDATE BINARY was refused (history)
  locUpds,   \* location and routing area updates so far
  inserts

vars == <<simType, key, keySeq, loc, gloc, keyQ, updateQ, ef, settings,
          issued, cksn0, responses, refused, locUpds, inserts>>
locVars == <<loc, gloc, settings, refused, locUpds>>

TypeOK ==
  /\ simType \in SimTypes
  /\ key \in Kcs
  /\ keySeq \in 0 .. 7
  /\ loc \in [id : Locs, u : UStates]
  /\ gloc \in [gid : GIds, sig : SigFields, gu : GuStates]
  /\ keyQ \in Seq(1 .. MaxAuth)
  /\ updateQ \in Seq(UpdateJobs)
  /\ ef \in [KC : KcImages, LOCI : LociImages, LOCIGPRS : LocigprsImages]
  /\ issued \in Seq(Cksns) /\ Len(issued) <= MaxAuth
  /\ cksn0 \in CardSeqBytes
  /\ responses \in Seq({Dummy} \cup 1 .. MaxAuth)
  /\ refused \subseteq Files
  /\ locUpds \in 0 .. MaxLocUpd
  /\ inserts \in 0 .. MaxInserts

\* The key sequence number that belongs to Kc k.
CksnOf(k) == CASE k = NoKey -> 7
               [] k = 0     -> cksn0 % 8
               [] OTHER     -> issued[k]

-----------------------------------------------------------------------------
\* Mutation of GenerateKcSimcard: the sequence number is not stored.
GenerateKcSimcardNoSeq(n, s) ==
  /\ Len(keyQ) < MaxPending
  /\ keyQ' = Append(keyQ, n)
  /\ UNCHANGED <<key, keySeq, responses>>

(***************************************************************************)
(* gsm_subscr_generate_kc_simcard: submit RUN GSM ALGORITHM with the RAND *)
(* on the key handle and store the caller's sequence number at once.      *)
(***************************************************************************)
GenerateKcSimcard(n, s) ==
  /\ Len(keyQ) < MaxPending
  /\ keyQ' = Append(keyQ, n)
  /\ keySeq' = s
  /\ UNCHANGED <<key, responses>>

\* gsm_subscr_generate_kc_testcard: osmo_auth_gen_vec2 computes SRES and
\* Kc from the Ki of the settings, or fails for an unusable algorithm.
GenerateKcTestcard(n, s) ==
  /\ UNCHANGED keyQ
  /\ \/ /\ keySeq' = s /\ key' = n
        /\ responses' = Append(responses, n)
     \/ UNCHANGED <<key, keySeq, responses>>

(***************************************************************************)
(* gsm_subscr_generate_kc(ms, s, rand, no_sim) for the n-th request: a    *)
(* dummy SRES without a valid card, else the backend's computation.       *)
(***************************************************************************)
GsmSubscrGenerateKc(s, noSim) ==
  LET n == Len(issued) + 1 IN
  /\ n <= MaxAuth
  /\ issued' = Append(issued, s)
  /\ IF noSim
     THEN /\ responses' = Append(responses, Dummy)
          /\ UNCHANGED <<key, keySeq, keyQ>>
     ELSE IF simType = "TEST" THEN GenerateKcTestcard(n, s)
     ELSE GenerateKcSimcard(n, s)
  /\ UNCHANGED <<simType, updateQ, ef, cksn0, inserts>>
  /\ UNCHANGED locVars

(***************************************************************************)
(* subscr_sim_key_cb for the oldest pending authentication n: an error or *)
(* a response shorter than 12 bytes is dropped; otherwise Kc is stored,   *)
(* written to EF_Kc with the current key_seq, and SRES is signalled. When *)
(* the UPDATE BINARY job cannot be allocated, the callback returns after  *)
(* storing Kc: no write, no SRES.                                          *)
(***************************************************************************)
SubscrSimKeyCb ==
  /\ keyQ # <<>>
  /\ keyQ' = Tail(keyQ)
  /\ \/ UNCHANGED <<key, updateQ, responses>>
     \/ /\ key' = Head(keyQ)
        /\ updateQ' = Append(updateQ, [file |-> "KC",
                                       img |-> [kc |-> Head(keyQ), seq |-> keySeq]])
        /\ responses' = Append(responses, Head(keyQ))
     \/ /\ MsgbFails
        /\ key' = Head(keyQ)
        /\ UNCHANGED <<updateQ, responses>>
  /\ UNCHANGED <<simType, keySeq, ef, issued, cksn0, inserts>>
  /\ UNCHANGED locVars

-----------------------------------------------------------------------------
(***************************************************************************)
(* The location files. Status bytes (3GPP TS 51.011): EF_LOCI 0 updated,  *)
(* 1 not updated, 2 PLMN not allowed, 3 LA not allowed; EF_LOCIGPRS the   *)
(* same with RA for LA. TMSI, LAI, P-TMSI and RAI are copied through      *)
(* htonl/ntohl and the gsm48 LAI/RAI codecs, which are inverse pairs.     *)
(***************************************************************************)

\* Mutation of LupdStatus: U3 is written as "not updated".
LupdStatusNoU3(u) == IF u = "U1" THEN 0 ELSE 1

\* gsm_subscr_write_loci_simcard's switch on subscr->ustate.
LupdStatus(u) == CASE u = "U1" -> 0
                   [] u = "U3" -> 3
                   [] OTHER    -> 1

\* gsm_subscr_write_locigprs_simcard's switch on gprs.gu_state.
RauStatus(gu) == CASE gu = "GU1" -> 0
                    [] gu = "GU3" -> 3
                    [] OTHER     -> 1

\* The UPDATE BINARY payloads: P-TMSI signature from the P-TMSI's bytes.
LociImage(l) == [id |-> l.id, status |-> LupdStatus(l.u)]
LocigprsImage(g) == [gid |-> g.gid, sig |-> PtmsiBytes(g.gid),
                     status |-> RauStatus(g.gu)]

\* subscr_sim_loci and subscr_sim_locigprs: the low three status bits.
SubscrSimLoci(c) ==
  [id |-> c.id,
   u |-> CASE c.status % 8 = 0        -> "U1"
           [] c.status % 8 \in {2, 3} -> "U3"
           [] OTHER                   -> "U2"]
SubscrSimLocigprs(c) ==
  [gid |-> c.gid, sig |-> c.sig,
   gu |-> CASE c.status % 8 = 0        -> "GU1"
            [] c.status % 8 \in {2, 3} -> "GU3"
            [] OTHER                   -> "GU2"]

\* gsm_subscr_write_loci: a reader card gets the UPDATE BINARY; on a test
\* card the write is "not implemented".
GsmSubscrWriteLoci(l) ==
  IF simType = "L1PHY"
  THEN updateQ' = Append(updateQ, [file |-> "LOCI", img |-> LociImage(l)])
  ELSE UNCHANGED updateQ

\* The UPDATE BINARY of EF_LOCIGPRS that gsm_subscr_write_locigprs_simcard
\* submits.
WriteLocigprsJob(g) ==
  updateQ' = Append(updateQ, [file |-> "LOCIGPRS", img |-> LocigprsImage(g)])

\* gsm_subscr_write_locigprs_testcard: a copy of the reader's write behind
\* a GSM_SIM_IS_READER check, which returns at once for the test card it
\* is called for.
GsmSubscrWriteLocigprsTestcard(g) ==
  IF simType = "L1PHY" THEN WriteLocigprsJob(g) ELSE UNCHANGED updateQ

\* gsm_subscr_write_locigprs: a reader card gets the UPDATE BINARY, a test
\* card goes to gsm_subscr_write_locigprs_testcard.
GsmSubscrWriteLocigprs(g) ==
  IF simType = "L1PHY" THEN WriteLocigprsJob(g) ELSE GsmSubscrWriteLocigprsTestcard(g)

\* MM completes a location update (new TMSI, LAI, U state) and calls
\* gsm_subscr_write_loci.
MmLocationUpdate(l, u) ==
  /\ locUpds < MaxLocUpd
  /\ locUpds' = locUpds + 1
  /\ loc' = [id |-> l, u |-> u]
  /\ GsmSubscrWriteLoci(loc')
  /\ UNCHANGED <<simType, key, keySeq, gloc, keyQ, ef, settings, issued,
                 cksn0, responses, refused, inserts>>

\* GMM completes a routing area update and calls gsm_subscr_write_locigprs.
GmmRoutingUpdate(g, s, gu) ==
  /\ locUpds < MaxLocUpd
  /\ locUpds' = locUpds + 1
  /\ gloc' = [gid |-> g, sig |-> NetSig(s), gu |-> gu]
  /\ GsmSubscrWriteLocigprs(gloc')
  /\ UNCHANGED <<simType, key, keySeq, loc, keyQ, ef, settings, issued,
                 cksn0, responses, refused, inserts>>

-----------------------------------------------------------------------------
\* The card executes the oldest UPDATE BINARY, or refuses it;
\* subscr_sim_update_cb only logs.
CardUpdate ==
  LET j == Head(updateQ) IN
  /\ updateQ # <<>>
  /\ updateQ' = Tail(updateQ)
  /\ \/ ef' = [ef EXCEPT ![j.file] = j.img] /\ refused' = refused \ {j.file}
     \/ UNCHANGED ef /\ refused' = refused \cup {j.file}
  /\ UNCHANGED <<simType, key, keySeq, loc, gloc, keyQ, settings, issued,
                 cksn0, responses, locUpds, inserts>>

\* Mutation of SubscrSimKc: byte 9 is stored without masking.
SubscrSimKcNoMask(c) == key' = c.kc /\ keySeq' = c.seq

\* subscr_sim_kc: EF_Kc of at least 9 bytes gives the key and the low
\* three bits of byte 9.
SubscrSimKc(c) == key' = c.kc /\ keySeq' = c.seq % 8

(***************************************************************************)
(* The card is inserted again: gsm_subscr_exit closes the handles          *)
(* (pending jobs are lost), gsm_subscr_init zeroes the key and sets        *)
(* key_seq to 7. A reader card's EF_LOCI and EF_LOCIGPRS (mandatory) are   *)
(* read, and its EF_Kc, or that optional read fails and is skipped; a test *)
(* card is filled from the settings again.                                 *)
(***************************************************************************)
Reinsert ==
  /\ inserts < MaxInserts
  /\ inserts' = inserts + 1
  /\ keyQ' = <<>> /\ updateQ' = <<>>
  /\ \/ simType = "L1PHY" /\ SubscrSimKc(ef.KC)
     \/ key' = NoKey /\ keySeq' = 7
  /\ IF simType = "L1PHY"
     THEN loc' = SubscrSimLoci(ef.LOCI) /\ gloc' = SubscrSimLocigprs(ef.LOCIGPRS)
     ELSE loc' = settings.loc /\ gloc' = settings.gloc
  /\ refused' = {}
  /\ UNCHANGED <<simType, ef, settings, issued, cksn0, responses, locUpds>>

(***************************************************************************)
(* gsm_subscr_insert_testcard's location: TMSI and LAI, P-TMSI, signature *)
(* and RAI from the settings; the U state ends as U1 only for a           *)
(* GPRS-attached card with a valid RAI (the second assignment, line 601), *)
(* and gu_state keeps the zero of gsm_subscr_init.                        *)
(***************************************************************************)
TestcardSettings ==
  [loc : [id : Locs, u : {"U1", "U2"}],
   gloc : [gid : GIds, sig : SigFields, gu : {"GU0"}]]

\* The first insertion: a reader card's record is read from the card, a
\* test card's comes from the settings.
Init ==
  /\ simType \in SimTypes
  /\ cksn0 \in CardSeqBytes
  /\ \E l \in [id : Locs, status : CardStatusBytes],
       g \in [gid : GIds, sig : SigFields, status : CardStatusBytes],
       t \in TestcardSettings :
       /\ ef = [KC |-> [kc |-> 0, seq |-> cksn0], LOCI |-> l, LOCIGPRS |-> g]
       /\ IF simType = "L1PHY"
          THEN /\ key = 0 /\ keySeq = cksn0 % 8
               /\ loc = SubscrSimLoci(l) /\ gloc = SubscrSimLocigprs(g)
               /\ settings = [loc |-> loc, gloc |-> gloc]
          ELSE /\ key = NoKey /\ keySeq = 7
               /\ loc = t.loc /\ gloc = t.gloc /\ settings = t
               /\ l = CHOOSE x \in [id : Locs, status : CardStatusBytes] : TRUE
               /\ g = CHOOSE x \in [gid : GIds, sig : SigFields, status : CardStatusBytes] : TRUE
  /\ keyQ = <<>> /\ updateQ = <<>>
  /\ issued = <<>> /\ responses = <<>> /\ refused = {}
  /\ locUpds = 0 /\ inserts = 0

Next ==
  \/ \E s \in Cksns, noSim \in BOOLEAN : GsmSubscrGenerateKc(s, noSim)
  \/ SubscrSimKeyCb
  \/ \E l \in Locs, u \in UStates : MmLocationUpdate(l, u)
  \/ \E g \in GIds, s \in Sigs, gu \in GuStates : GmmRoutingUpdate(g, s, gu)
  \/ CardUpdate
  \/ Reinsert

Spec == Init /\ [][Next]_vars /\ WF_vars(SubscrSimKeyCb) /\ WF_vars(CardUpdate)

-----------------------------------------------------------------------------
(***************************************************************************)
(* Properties.                                                             *)
(***************************************************************************)

\* Every EF_Kc image written to the card, pending or executed, pairs a Kc
\* with the sequence number of the authentication that computed it: a
\* later read (subscr_sim_kc) restores a usable key.
CardKcConsistent ==
  \A c \in {ef.KC} \cup {updateQ[i].img : i \in {i \in DOMAIN updateQ : updateQ[i].file = "KC"}} :
    c.seq % 8 = CksnOf(c.kc)

\* With no authentication pending, subscr->key_seq is the sequence number
\* of subscr->key (spec 4.2: the key and the caller's sequence number are
\* stored on success).
KeyPairConsistent ==
  keyQ = <<>> => keySeq = CksnOf(key)

\* The card holds the last write of file f: none is pending and the last
\* one executed was not refused.
Persisted(f) ==
  /\ f \notin refused
  /\ \A i \in DOMAIN updateQ : updateQ[i].file # f

\* The U and GU states as they are meant to survive on the card: NULL is
\* not a card state and is kept as "not updated".
CanonU(u) == IF u = "U0" THEN "U2" ELSE u
CanonGu(gu) == IF gu = "GU0" THEN "GU2" ELSE gu

\* A reader card inserted again gives MM and GMM back the location they
\* last stored, when the card executed that write (the update handle's
\* jobs in order, none refused, none dropped by gsm_subscr_exit): TMSI,
\* LAI and U state from EF_LOCI, P-TMSI, RAI and GU state from
\* EF_LOCIGPRS. The P-TMSI signature is left out: the code writes the
\* P-TMSI's bytes in its place (line 1392).
LocationRestored ==
  [][simType = "L1PHY" /\ inserts' = inserts + 1 =>
       /\ Persisted("LOCI") => loc' = [loc EXCEPT !.u = CanonU(loc.u)]
       /\ Persisted("LOCIGPRS") =>
            /\ gloc'.gid = gloc.gid
            /\ gloc'.gu = CanonGu(gloc.gu)]_vars
=============================================================================

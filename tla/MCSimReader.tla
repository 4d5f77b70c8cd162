---------------------------- MODULE MCSimReader ----------------------------
(* Model-checking instance of SimReader: the bounds are given in the .cfg  *)
(* files; this module names the property sets the runs share, and the     *)
(* cards whose payloads the decoders of SimBcd read.                      *)
EXTENDS SimReader, SimBcd

\* Upper bound on the history, so that every run is finite.
EventsBound == Len(events) <= 3 * MaxInserts + MaxPin + MaxRemoves

\* Payload builders (TS 51.011): digits packed low nibble first, 0xf filler.
PadF(nibs, n) == nibs \o [k \in 1 .. n - Len(nibs) |-> 15]
Packed(nibs) == [k \in 1 .. Len(nibs) \div 2 |-> nibs[2 * k - 1] + 16 * nibs[2 * k]]
DigitRun(n) == [k \in 1 .. n |-> (7 * k) % 10]
\* A 9-byte EF_IMSI: the length byte counts the bytes used by the parity
\* nibble (9 odd, 1 even) and the digits.
ImsiFileOf(ds) ==
  LET nibs == <<IF Len(ds) % 2 = 1 THEN 9 ELSE 1>> \o ds
  IN  [len |-> 9, bytes |-> <<(Len(nibs) + 1) \div 2>> \o Packed(PadF(nibs, 16))]

\* EF_MSISDN's ADN: a 20-digit number, and an empty one.
MsisdnOf(ds) == [lenBcd |-> 1 + Len(ds) \div 2, number |-> Packed(PadF(ds, 20))]
NoMsisdn == [lenBcd |-> 0, number |-> [k \in 1 .. 10 |-> 255]]

(***************************************************************************)
(* The cards. One has a 16-byte EF_ICCID of digits, which fills the       *)
(* buffer up to its limit of 31 characters, a 15-digit IMSI and a         *)
(* 20-digit MSISDN. The other has an erased EF_ICCID, which leaves all but *)
(* result[0] as the previous decode wrote it, a 14-digit IMSI and no      *)
(* MSISDN. Two insertions in a row see what the first card left.          *)
(***************************************************************************)
MCCards ==
  {[iccid |-> Packed(DigitRun(32)), imsi |-> ImsiFileOf(DigitRun(15)),
    msisdn |-> MsisdnOf(DigitRun(20))],
   [iccid |-> [k \in 1 .. 10 |-> 255], imsi |-> ImsiFileOf(DigitRun(14)),
    msisdn |-> NoMsisdn]}
=============================================================================

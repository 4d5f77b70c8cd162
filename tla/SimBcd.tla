------------------------------- MODULE SimBcd -------------------------------
(***************************************************************************)
(* The BCD digit decoder sim_decode_bcd of src/host/layer23/src/common/   *)
(* subscriber.c and the decoders of the reader table that call it:        *)
(* subscr_sim_iccid (entry 0), subscr_sim_imsi (entry 1) and              *)
(* subscr_sim_msisdn (entry 10). sim_decode_bcd fills a static char       *)
(* result[32] and returns it, so the buffer outlives the call: what one   *)
(* call does not overwrite is still there from an earlier one. SimReader  *)
(* keeps the buffer as state.                                             *)
(*                                                                         *)
(* A byte is an integer 0 .. 255. The character c + '0' is written as the  *)
(* nibble value c, and NUL as -1, so a buffer is a function from 0 .. 31. *)
(* An EF_IMSI read is [len |-> received length, bytes |-> the payload and *)
(* the bytes the message buffer holds after it]; an EF_MSISDN record is   *)
(* [lenBcd |-> the ADN's len_bcd, number |-> its ten number bytes].       *)
(***************************************************************************)
EXTENDS Integers, Sequences, SequencesExt

ResultSize == 32   \* sizeof(result)
NUL == -1
BufChars == {NUL} \cup 0 .. 15
\* OSMO_IMSI_BUF_SIZE and sizeof(subscr->imsi) (libosmocore, not under src/):
\* 15 digits, the terminator, one spare.
ImsiBufSize == 17
\* size_t arithmetic: only the wrap of 0 - 1 to a value above 6 matters, which
\* any modulus larger than the buffer reproduces.
SizeT(x) == x % 2^30

\* Nibble i (from 0) of data: the low half of byte i >> 1 when i is even.
Nibble(data, i) ==
  IF i % 2 = 1 THEN data[i \div 2 + 1] \div 16 ELSE data[i \div 2 + 1] % 16

(***************************************************************************)
(* The for loop of sim_decode_bcd from nibble i, output index j: a 0xf    *)
(* nibble or the end of the input terminates, and the output stops one    *)
(* short of the buffer's end.                                             *)
(***************************************************************************)
\* Mutation of DecodeFrom: the high nibble of each byte is taken first.
RECURSIVE DecodeFromHiFirst(_, _, _, _, _)
DecodeFromHiFirst(buf, data, n, i, j) ==
  LET c == Nibble(data, IF i % 2 = 0 THEN i + 1 ELSE i - 1) IN
  IF i >= n \/ c = 15 THEN [buf EXCEPT ![j] = NUL]
  ELSE IF j + 1 = ResultSize - 1 THEN [buf EXCEPT ![j] = c, ![j + 1] = NUL]
  ELSE DecodeFromHiFirst([buf EXCEPT ![j] = c], data, n, i + 1, j + 1)

RECURSIVE DecodeFrom(_, _, _, _, _)
DecodeFrom(buf, data, n, i, j) ==
  IF i >= n \/ Nibble(data, i) = 15 THEN [buf EXCEPT ![j] = NUL]
  ELSE IF j + 1 = ResultSize - 1
       THEN [buf EXCEPT ![j] = Nibble(data, i), ![j + 1] = NUL]
  ELSE DecodeFrom([buf EXCEPT ![j] = Nibble(data, i)], data, n, i + 1, j + 1)

\* sim_decode_bcd(data, length): length is a byte count.
SimDecodeBcd(buf, data, length) == DecodeFrom(buf, data, 2 * length, 0, 0)

\* The C string at buf + from, and strlen.
Str(buf, from) ==
  LET e == CHOOSE k \in from .. ResultSize - 1 :
             buf[k] = NUL /\ \A m \in from .. k - 1 : buf[m] # NUL
  IN  [m \in 1 .. e - from |-> buf[from + m - 1]]
StrLen(buf) == Len(Str(buf, 0))

\* OSMO_STRLCPY_ARRAY: at most size - 1 characters.
Strlcpy(s, size) == SubSeq(s, 1, IF Len(s) < size THEN Len(s) ELSE size - 1)

\* subscr_sim_iccid: the whole payload; the ICCID is the decoded string.
SubscrSimIccid(buf, data) ==
  LET r == SimDecodeBcd(buf, data, Len(data)) IN [buf |-> r, iccid |-> Str(r, 0)]

(***************************************************************************)
(* subscr_sim_imsi: data[0] is the length byte. The decoded string starts *)
(* with the parity digit, which OSMO_STRLCPY_ARRAY(subscr->imsi, imsi + 1) *)
(* skips.                                                                 *)
(***************************************************************************)
SubscrSimImsi(buf, f) ==
  LET data == f.bytes
      r == SimDecodeBcd(buf, Tail(data), data[1])
  IN  IF f.len < 1 \/ data[1] + 1 < f.len
      THEN [rc |-> "EINVAL", buf |-> buf, imsi |-> <<>>]
      ELSE IF StrLen(r) >= ImsiBufSize \/ SizeT(StrLen(r) - 1) < 6
      THEN [rc |-> "EINVAL", buf |-> r, imsi |-> <<>>]
      ELSE [rc |-> "OK", buf |-> r, imsi |-> Strlcpy(Str(r, 1), ImsiBufSize)]

\* subscr_sim_msisdn past its length check: an ADN with len_bcd <= 1 is an
\* empty number; otherwise len_bcd - 1 number bytes are decoded.
SubscrSimMsisdn(buf, m) ==
  IF m.lenBcd <= 1 THEN buf ELSE SimDecodeBcd(buf, m.number, m.lenBcd - 1)

-----------------------------------------------------------------------------
(***************************************************************************)
(* Reference definitions, from the spec (4.3) and TS 51.011's EF_IMSI.    *)
(***************************************************************************)
\* The digits of n bytes: low nibble first, up to the first 0xf filler, at
\* most 31 of them (the "fixed small buffer").
BcdDigits(data, n) ==
  LET nibs == FlattenSeq([k \in 1 .. n |-> <<data[k] % 16, data[k] \div 16>>])
      stop == SelectInSeq(nibs, LAMBDA c : c = 15)
      ds == IF stop = 0 THEN nibs ELSE SubSeq(nibs, 1, stop - 1)
  IN  SubSeq(ds, 1, IF Len(ds) < ResultSize THEN Len(ds) ELSE ResultSize - 1)

\* The IMSI an EF_IMSI read holds: the digits after the parity nibble of the
\* bytes the length byte names, within the payload received.
ImsiDigits(f) ==
  LET n == IF f.bytes[1] < f.len - 1 THEN f.bytes[1] ELSE f.len - 1
      ds == BcdDigits(Tail(f.bytes), n)
  IN  IF ds = <<>> THEN <<>> ELSE Tail(ds)
=============================================================================

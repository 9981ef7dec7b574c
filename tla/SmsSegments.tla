----------------------------- MODULE SmsSegments -----------------------------
(***************************************************************************)
(* The datagrams of text messages with a port on Windows CE                *)
(* (src/implementation/wince/jsr120_wma/sms.cpp): how a message is cut     *)
(* into segments, how zero bytes are taken out of a datagram and put back, *)
(* and what of a segment is decoded before they are.                       *)
(***************************************************************************)
EXTENDS Integers, Sequences

CONSTANTS
  Msgs,
  MsgLen,       \* MsgLen[m]: msgBufferLen
  MsgType,      \* MsgType[m]: msgType, ASCII is 0
  NextZero,     \* NextZero[m][s]: the position of the next zero byte after the
                \* type byte in segment s of m, or 255
  DestPort,     \* DestPort[m]
  DataPayload,  \* SMS_MAX_DATA_PAYLOAD
  SegmPayload,  \* SMS_MAX_MULTISEGMDATA_PAYLOAD
  MaxSegm,      \* MAX_SEGM_NUMBER
  RefSpan       \* reference numbers that two hexadecimal digits tell apart

ASSUME SegmentsAssumption ==
  /\ MsgLen \in [Msgs -> Nat]
  /\ DestPort \in [Msgs -> Nat]
  /\ DataPayload \in Nat \ {0}
  /\ SegmPayload \in Nat \ {0}
  /\ MaxSegm \in Nat \ {0}
  /\ RefSpan \in Nat \ {0}

ASSUME TypesAssumption ==
  /\ MsgType \in [Msgs -> 0..127]
  /\ NextZero \in [Msgs -> [0..(MaxSegm - 1) -> 1..255]]

(* A datagram: what the header says of it, and its share of the message,   *)
(* which in a segment is not empty.  It is wma if it has the header, which *)
(* a message to port 0 has not.                                            *)
Datagrams == {d \in [msg : Msgs, wma : BOOLEAN, type : 0..255,
                     ref : 0..(RefSpan - 1), total : 1..MaxSegm,
                     segm : 0..(MaxSegm - 1), len : Nat] :
                d.total > 1 => d.len > 0}
NoDatagram == [msg |-> "none"]

(* calc_segments_num *)
Segments(len) ==
  IF len < DataPayload THEN 1 ELSE (len - 1) \div SegmPayload + 1

(* cdma_sms_mulstisegm_encode: the share of segment s.                     *)
ShareOf(len, s) ==
  IF len - s * SegmPayload > SegmPayload THEN SegmPayload
                                         ELSE len - s * SegmPayload

(* The header up to the byte for the zeros; SmsSendMessage fails if the    *)
(* number of bytes is odd, so another byte may follow, and SMS_SEND_ODDITY *)
(* in the type byte tells of it.                                           *)
SingleHeader == 5 + 4 + 4 + 1 + 1 + 1 + 1
MultiHeader  == 5 + 4 + 4 + 2 + 2 + 2 + 1 + 1 + 1 + 1
OddityBit    == 128

TypeByte(type, size) == type + (IF size % 2 = 1 THEN OddityBit ELSE 0)

(* cdma_sms_encode *)
Single(m) == [msg |-> m, wma |-> DestPort[m] # 0,
              type |-> TypeByte(MsgType[m], SingleHeader + MsgLen[m]),
              ref |-> 0, total |-> 1, segm |-> 0, len |-> MsgLen[m]]

(* cdma_sms_mulstisegm_encode *)
Segment(m, r, s) ==
  LET share == ShareOf(MsgLen[m], s)
  IN  [msg |-> m, wma |-> TRUE,
       type |-> TypeByte(MsgType[m], MultiHeader + share),
       ref |-> r % RefSpan, total |-> Segments(MsgLen[m]), segm |-> s,
       len |-> share]

(* cdma_sms_decode: the type byte of a segment is read before              *)
(* fix_zero_back, so where it is zero the link of fix_zero's chain is      *)
(* taken for it; unless the chain has been undone by a reading before,     *)
(* which leaves the datagram decoded in its place.                         *)
TypeRead(d, decoded) ==
  IF d.total > 1 /\ d.type = 0 /\ ~decoded THEN NextZero[d.msg][d.segm]
                                           ELSE d.type

HasOddity(type) == IF type >= OddityBit THEN 1 ELSE 0

(* What cdma_sms_decode makes of the length and the type.                  *)
DecodedLen(d, decoded) ==
  d.len + HasOddity(d.type) - HasOddity(TypeRead(d, decoded))
DecodedType(d, decoded) == TypeRead(d, decoded) % OddityBit

-----------------------------------------------------------------------------
(* fix_zero and fix_zero_back, on a datagram as a sequence of bytes whose  *)
(* first is not zero and whose byte fix is free.  The code counts bytes    *)
(* from 0 and ends the chain with 255; here they count from 1, and the     *)
(* chain ends with EndOfChain.                                             *)
EndOfChain == 255

ZerosAfter(buf, i) == {j \in (i + 1)..Len(buf) : buf[j] = 0}

FirstOf(S) ==
  IF S = {} THEN EndOfChain ELSE CHOOSE j \in S : \A k \in S : j <= k

(* Every zero becomes the position of the next, the byte fix that of the   *)
(* first.                                                                  *)
FixZero(buf, fix) ==
  LET b == [buf EXCEPT ![fix] = EndOfChain]
  IN  [i \in 1..Len(buf) |->
         IF i = fix THEN FirstOf(ZerosAfter(b, 0))
         ELSE IF b[i] = 0 THEN FirstOf(ZerosAfter(b, i))
         ELSE b[i]]

(* The positions the chain goes through: Chain(buf, fix)[n] in n steps.    *)
Chain(buf, fix) ==
  LET C[n \in 0..Len(buf)] ==
        IF n = 0 THEN {buf[fix]}
        ELSE C[n - 1] \cup {buf[i] : i \in C[n - 1] \cap 1..Len(buf)}
  IN  C

FixZeroBack(buf, fix) ==
  LET Zeros == Chain(buf, fix)[Len(buf)]
  IN  [i \in 1..Len(buf) |-> IF i \in Zeros THEN 0 ELSE buf[i]]

=============================================================================

----------------------------- MODULE WmaSmsProofs -----------------------------
(***************************************************************************)
(* Proofs about WmaSms for any messages, cut into segments of any size,    *)
(* and any network.                                                        *)
(***************************************************************************)
EXTENDS WmaSms, FiniteSetTheorems, WellFoundedInduction, TLAPS

-----------------------------------------------------------------------------
(* The segments of a message.                                              *)

(* Before the last segment comes a byte of the message that is in none of  *)
(* the segments before it.                                                 *)
LEMMA SegmentStarts ==
  ASSUME NEW len \in Nat, NEW s \in Nat, s < Segments(len), s > 0
  PROVE  s * SegmPayload < len
<1>1. /\ (len - 1) \div SegmPayload \in Int
      /\ s <= (len - 1) \div SegmPayload
      /\ len >= 1
  BY SegmentsAssumption DEF Segments
<1> DEFINE q == (len - 1) \div SegmPayload
           r == (len - 1) % SegmPayload
<1>2. /\ len - 1 = SegmPayload * q + r
      /\ r \in 0..(SegmPayload - 1)
  BY <1>1, SegmentsAssumption
<1>3. q \in Int /\ s <= q
  BY <1>1
<1> HIDE DEF q, r
<1>4. SegmPayload * s <= SegmPayload * q
  BY <1>3, SegmentsAssumption
<1> QED
  BY <1>2, <1>3, <1>4, SegmentsAssumption

(* A type byte keeps the type in its lower bits.                           *)
LEMMA TypeByteKeeps ==
  ASSUME NEW type \in 0..127, NEW size \in Int
  PROVE  /\ TypeByte(type, size) \in 0..255
         /\ TypeByte(type, size) % OddityBit = type
<1>1. type % 128 = type /\ (type + 128) % 128 = type
  OBVIOUS
<1> QED
  BY <1>1 DEF TypeByte, OddityBit

LEMMA HeadersAreInt ==
  \A n \in Nat : SingleHeader + n \in Int /\ MultiHeader + n \in Int
  BY DEF SingleHeader, MultiHeader

(* What javacall_sms_send gives the network is a datagram.                 *)
LEMMA SegmentIsDatagram ==
  ASSUME NEW m \in Msgs, NEW ref \in Nat, NEW s \in Nat,
         Segments(MsgLen[m]) \in 2..MaxSegm, s < Segments(MsgLen[m])
  PROVE  Segment(m, ref, s) \in Datagrams
<1>1. MsgLen[m] \in Nat /\ MsgType[m] \in 0..127
  BY SegmentsAssumption, TypesAssumption
<1>2. s * SegmPayload \in Nat /\ s * SegmPayload < MsgLen[m]
  <2>1. CASE s = 0
    <3>1. Segments(MsgLen[m]) # 1
      OBVIOUS
    <3>2. ~(MsgLen[m] < DataPayload)
      BY <3>1 DEF Segments
    <3> QED
      BY <1>1, <2>1, <3>2, SegmentsAssumption
  <2>2. CASE s # 0
    BY <1>1, <2>2, SegmentStarts, SegmentsAssumption
  <2> QED
    BY <2>1, <2>2
<1>3. ShareOf(MsgLen[m], s) \in Nat \ {0}
  BY <1>1, <1>2, SegmentsAssumption DEF ShareOf
<1>4. ref % RefSpan \in 0..(RefSpan - 1)
  BY SegmentsAssumption
<1>5. TypeByte(MsgType[m], MultiHeader + ShareOf(MsgLen[m], s)) \in 0..255
  BY <1>1, <1>3, HeadersAreInt, TypeByteKeeps
<1> QED
  BY <1>3, <1>4, <1>5, SegmentsAssumption DEF Segment, Datagrams

LEMMA SingleIsDatagram == \A m \in Msgs : Single(m) \in Datagrams
<1> TAKE m \in Msgs
<1>1. MsgLen[m] \in Nat /\ MsgType[m] \in 0..127
  BY SegmentsAssumption, TypesAssumption
<1>2. TypeByte(MsgType[m], SingleHeader + MsgLen[m]) \in 0..255
  BY <1>1, HeadersAreInt, TypeByteKeeps
<1> QED
  BY <1>1, <1>2, SegmentsAssumption DEF Single, Datagrams

(* Whatever is taken for the type byte, a length is decoded.               *)
LEMMA DecodedIsLen ==
  ASSUME NEW d \in Datagrams, NEW decoded
  PROVE  DecodedLen(d, decoded) \in Nat /\ DecodedType(d, decoded) \in Nat
<1>1. /\ d.type \in 0..255 /\ d.len \in Nat /\ d.msg \in Msgs
      /\ d.segm \in 0..(MaxSegm - 1)
      /\ d.total > 1 => d.len > 0
  BY DEF Datagrams
<1>2. NextZero[d.msg][d.segm] \in 1..255
  BY <1>1, TypesAssumption
<1>5. \A t \in 0..255 : HasOddity(t) \in 0..1 /\ t % OddityBit \in Nat
  BY DEF HasOddity, OddityBit
<1>3. CASE d.total > 1 /\ d.type = 0 /\ ~decoded
  <2>0. TypeRead(d, decoded) = NextZero[d.msg][d.segm]
    BY <1>3, Zenon DEF TypeRead
  <2>1. TypeRead(d, decoded) \in 0..255
    <3>1. \A z \in 1..255 : z \in 0..255
      OBVIOUS
    <3> QED
      BY <1>2, <2>0, <3>1, Zenon
  <2>2. HasOddity(d.type) = 0 /\ HasOddity(TypeRead(d, decoded)) \in 0..1
    BY <1>3, <1>5, <2>1 DEF HasOddity, OddityBit
  <2> QED
    BY <1>1, <1>3, <1>5, <2>1, <2>2 DEF DecodedLen, DecodedType
<1>4. CASE ~(d.total > 1 /\ d.type = 0 /\ ~decoded)
  <2>1. TypeRead(d, decoded) = d.type
    BY <1>4, Zenon DEF TypeRead
  <2>2. HasOddity(d.type) \in 0..1
    BY <1>1, <1>5
  <2> QED
    BY <1>1, <1>5, <2>1, <2>2 DEF DecodedLen, DecodedType
<1> QED
  BY <1>3, <1>4

-----------------------------------------------------------------------------
(* The mailbox.  The mutex is with the side that is inside its section.    *)
Sections ==
  /\ mutex = "dll" <=> writer.pc = "write"
  /\ mutex = "vm" <=> reader \in {"read", "unlock"}

(* What both sides do keeps the mailbox well-formed and strands nothing.   *)
MailboxInv == MailboxTypeOK /\ Sections /\ NotStranded

WriterStep == Writer \/ \E d \in Datagrams : ProcessMessage(d)
ReaderStep == Reader \/ StartReader \/ ReaderRead

LEMMA WriterKeeps == MailboxInv /\ WriterStep => MailboxInv'
<1> SUFFICES ASSUME MailboxInv, WriterStep PROVE MailboxInv'
  OBVIOUS
<1> USE DEF MailboxInv, MailboxTypeOK, Writers, Sections, NotStranded,
            SignalPending, NoWriter
<1>1. ASSUME NEW d \in Datagrams, ProcessMessage(d) PROVE MailboxInv'
  BY <1>1 DEF ProcessMessage
<1>2. CASE WriterLock
  BY <1>2 DEF WriterLock
<1>3. CASE WriterTimeout
  BY <1>3 DEF WriterTimeout
<1>4. CASE WriterWrite
  BY <1>4 DEF WriterWrite, Mapped
<1>5. CASE WriterSignal
  BY <1>5 DEF WriterSignal, Listening
<1> QED
  BY <1>1, <1>2, <1>3, <1>4, <1>5 DEF WriterStep, Writer

LEMMA ReaderKeeps == MailboxInv /\ ReaderStep => MailboxInv'
<1> SUFFICES ASSUME MailboxInv, ReaderStep PROVE MailboxInv'
  OBVIOUS
<1> USE DEF MailboxInv, MailboxTypeOK, Sections, NotStranded, SignalPending,
            Then
<1>1. CASE StartReader \/ ReaderMap \/ ReaderCreateEvent
  BY <1>1 DEF StartReader, ReaderMap, ReaderCreateEvent
<1>2. CASE ReaderWake
  BY <1>2 DEF ReaderWake
(* The second reset: the thread is on its way to read.                     *)
<1>3. CASE ReaderReset
  BY <1>3 DEF ReaderReset
<1>4. CASE ReaderLock
  BY <1>4 DEF ReaderLock
<1>5. CASE ReaderRead
  BY <1>5 DEF ReaderRead
<1>6. CASE ReaderUnlock
  BY <1>6 DEF ReaderUnlock
<1> QED
  BY <1>1, <1>2, <1>3, <1>4, <1>5, <1>6 DEF ReaderStep, Reader

LEMMA MailboxQuiet ==
  MailboxInv /\ UNCHANGED mailboxVars => MailboxInv'
  BY DEF MailboxInv, MailboxTypeOK, Sections, NotStranded, SignalPending,
         mailboxVars

(* What a step of the whole does to the mailbox.                           *)
LEMMA MailboxSteps ==
  ASSUME air \subseteq Datagrams, [Next]_vars
  PROVE  WriterStep \/ ReaderStep \/ UNCHANGED mailboxVars
<1>1. ASSUME NEW m \in Msgs, SendWhole(m) \/ SendSegments(m)
      PROVE  UNCHANGED mailboxVars
  BY <1>1 DEF SendWhole, SendSegments
<1>2. ASSUME SendSegment PROVE UNCHANGED mailboxVars
  BY <1>2 DEF SendSegment
<1>3. ASSUME NEW d \in air, Arrive(d) PROVE WriterStep
  BY <1>3 DEF Arrive, WriterStep
<1>4. ASSUME NEW d \in air, LeftInInbox(d) PROVE UNCHANGED mailboxVars
  BY <1>4 DEF LeftInInbox
<1>5. ASSUME Mailbox PROVE WriterStep \/ ReaderStep
  BY <1>5 DEF Mailbox, WriterStep, ReaderStep
<1>6. ASSUME ReaderDecode PROVE ReaderStep
  BY <1>6 DEF ReaderDecode, ReaderStep
<1>7. ASSUME UNCHANGED vars PROVE UNCHANGED mailboxVars
  BY <1>7 DEF vars
<1> QED
  BY <1>1, <1>2, <1>3, <1>4, <1>5, <1>6, <1>7 DEF Next

-----------------------------------------------------------------------------
(* The sender and the message being put together.  A message is begun with *)
(* the segments it still lacks, at least one of them; the loop of a send   *)
(* is at a segment the message has.                                        *)
SenderOK ==
  /\ static_reference_number \in Nat
  /\ asked \subseteq Msgs
  /\ sending \in {NotSending}
       \cup [busy : {TRUE}, msg : Msgs, ref : Nat, segm : 0..(MaxSegm - 1)]
  /\ sending.busy =>
       /\ Segments(MsgLen[sending.msg]) \in 2..MaxSegm
       /\ sending.segm < Segments(MsgLen[sending.msg])
  /\ air \subseteq Datagrams

Buffers == [0..(MaxSegm - 1) -> Datagrams \cup {NoDatagram}]
Parts == [ref : -1..(RefSpan - 1), count : -1..(MaxSegm - 1), len : Nat,
          buf : Buffers]
Notices == [buf : Buffers, len : Nat, type : Nat]

ReceiverOK ==
  /\ fullMsg \in Parts
  /\ fullMsg.ref # -1 => fullMsg.count > 0
  /\ got \in Seq(Datagrams)
  /\ notified \in Seq(Notices)

Inv == MailboxInv /\ SenderOK /\ ReceiverOK

LEMMA InitInv == Init => Inv
<1> SUFFICES ASSUME Init PROVE Inv
  OBVIOUS
<1>1. MailboxInv
  BY DEF Init, MailboxInit, MailboxInv, MailboxTypeOK, Sections, NotStranded,
         Writers, NoWriter
<1>2. SenderOK
  BY DEF Init, SenderOK, NotSending
<1>3. ReceiverOK
  BY SegmentsAssumption DEF Init, ReceiverOK, NoMessage, Parts, Buffers
<1> QED
  BY <1>1, <1>2, <1>3 DEF Inv

LEMMA SenderKeeps == SenderOK /\ [Next]_vars => SenderOK'
<1> SUFFICES ASSUME SenderOK, [Next]_vars PROVE SenderOK'
  OBVIOUS
<1>1. ASSUME NEW m \in Msgs, SendWhole(m) PROVE SenderOK'
  BY <1>1, SingleIsDatagram DEF SendWhole, SenderOK
<1>2. ASSUME NEW m \in Msgs, SendSegments(m) PROVE SenderOK'
  <2>1. sending' = [busy |-> TRUE, msg |-> m, ref |-> static_reference_number,
                    segm |-> 0]
    BY <1>2 DEF SendSegments
  <2>2. Segments(MsgLen[m]) \in 2..MaxSegm
    BY <1>2 DEF SendSegments
  <2>3. /\ static_reference_number' \in Nat
        /\ asked' \subseteq Msgs
        /\ air' \subseteq Datagrams
    BY <1>2 DEF SendSegments, SenderOK
  <2>4. sending' \in [busy : {TRUE}, msg : Msgs, ref : Nat,
                      segm : 0..(MaxSegm - 1)]
    BY <2>1, SegmentsAssumption DEF SenderOK
  <2> QED
    BY <2>1, <2>2, <2>3, <2>4 DEF SenderOK
<1>3. ASSUME SendSegment PROVE SenderOK'
  <2>1. /\ sending \in [busy : {TRUE}, msg : Msgs, ref : Nat,
                        segm : 0..(MaxSegm - 1)]
        /\ Segments(MsgLen[sending.msg]) \in 2..MaxSegm
        /\ sending.segm < Segments(MsgLen[sending.msg])
    <3>1. sending.busy
      BY <1>3 DEF SendSegment
    <3>2. sending # NotSending
      BY <3>1 DEF NotSending
    <3> QED
      BY <3>1, <3>2 DEF SenderOK
  <2>2. Segment(sending.msg, sending.ref, sending.segm) \in Datagrams
    BY <2>1, SegmentIsDatagram
  <2>3. air' \subseteq Datagrams
    BY <1>3, <2>2 DEF SendSegment, SenderOK
  <2>4. CASE sending' = NotSending
    BY <1>3, <2>3, <2>4 DEF SendSegment, SenderOK, NotSending
  <2>5. CASE MoreSegments /\ sending' = [sending EXCEPT !.segm = @ + 1]
    <3>0. sending.segm + 1 \in 0..(MaxSegm - 1)
      BY <2>1, <2>5, SegmentsAssumption DEF MoreSegments
    <3>1. /\ sending' \in [busy : {TRUE}, msg : Msgs, ref : Nat,
                           segm : 0..(MaxSegm - 1)]
          /\ sending'.msg = sending.msg
          /\ sending'.segm = sending.segm + 1
      BY <2>1, <2>5, <3>0
    <3> QED
      BY <1>3, <2>1, <2>3, <2>5, <3>1 DEF SendSegment, SenderOK, MoreSegments
  <2> QED
    BY <1>3, <2>4, <2>5 DEF SendSegment
<1>4. ASSUME NEW d \in air, Arrive(d) \/ LeftInInbox(d) PROVE SenderOK'
  BY <1>4 DEF Arrive, LeftInInbox, SenderOK, senderVars
<1>5. CASE Mailbox \/ ReaderDecode
  BY <1>5 DEF Mailbox, ReaderDecode, SenderOK, senderVars
<1>6. CASE UNCHANGED vars
  BY <1>6 DEF vars, SenderOK, senderVars
<1> QED
  BY <1>1, <1>2, <1>3, <1>4, <1>5, <1>6 DEF Next

(* Adding a segment to the message in hand.                                *)
LEMMA AddSegmentType ==
  ASSUME ReceiverOK, NEW d \in Datagrams, NEW len \in Nat, d.total > 1
  PROVE  /\ AddSegment(d, len) \in Parts
         /\ AddSegment(d, len).ref # -1
         /\ AddSegment(d, len).count >= 0
<1>0. /\ d.ref \in 0..(RefSpan - 1) /\ d.total - 1 \in 1..(MaxSegm - 1)
      /\ d.segm \in 0..(MaxSegm - 1)
  BY SegmentsAssumption DEF Datagrams
<1>1. /\ fullMsg.ref \in -1..(RefSpan - 1)
      /\ fullMsg.count \in -1..(MaxSegm - 1)
      /\ fullMsg.len \in Nat /\ fullMsg.buf \in Buffers
  BY DEF ReceiverOK, Parts
<1> DEFINE buf == [fullMsg.buf EXCEPT ![d.segm] = d]
<1>2. buf \in Buffers
  BY <1>1 DEF Buffers
<1> HIDE DEF buf
<1>3. CASE fullMsg.ref = -1
  <2>1. AddSegment(d, len) = [ref |-> d.ref, count |-> d.total - 1,
                              len |-> len, buf |-> buf]
    BY <1>3 DEF AddSegment, buf
  <2> QED
    BY <1>0, <1>2, <2>1, SegmentsAssumption DEF Parts
<1>4. CASE fullMsg.ref # -1 /\ fullMsg.ref # d.ref
  BY <1>1, <1>4, SegmentsAssumption DEF AddSegment, ReceiverOK
<1>5. CASE fullMsg.ref # -1 /\ fullMsg.ref = d.ref
  <2>1. AddSegment(d, len) = [ref |-> fullMsg.ref, count |-> fullMsg.count - 1,
                              len |-> fullMsg.len + len, buf |-> buf]
    BY <1>5 DEF AddSegment, ReceiverOK, Parts, buf
  <2>2. fullMsg.count - 1 \in 0..(MaxSegm - 1) /\ fullMsg.len + len \in Nat
    BY SMTT(60), <1>0, <1>1, <1>5, SegmentsAssumption DEF ReceiverOK
  <2> QED
    BY <1>1, <1>2, <1>5, <2>1, <2>2, SegmentsAssumption DEF Parts
<1> QED
  BY <1>3, <1>4, <1>5

LEMMA SegmentInitType ==
  ASSUME NEW f \in Parts
  PROVE  SegmentInit(f) \in Parts /\ SegmentInit(f).ref = -1
<1>1. -1 \in -1..(RefSpan - 1) /\ -1 \in -1..(MaxSegm - 1) /\ 0 \in Nat
  BY SegmentsAssumption
<1>2. PICK r \in -1..(RefSpan - 1), c \in -1..(MaxSegm - 1), l \in Nat,
           b \in Buffers : f = [ref |-> r, count |-> c, len |-> l, buf |-> b]
  <2> f = [ref |-> f.ref, count |-> f.count, len |-> f.len, buf |-> f.buf]
    BY DEF Parts
  <2> QED
    BY DEF Parts
<1>3. SegmentInit(f) = [ref |-> -1, count |-> -1, len |-> 0, buf |-> b]
  <2>1. [f EXCEPT !.ref = -1] = [ref |-> -1, count |-> c, len |-> l, buf |-> b]
    BY <1>2
  <2>2. SegmentInit(f) = [[[f EXCEPT !.ref = -1] EXCEPT !.count = -1]
                            EXCEPT !.len = 0]
    BY DEF SegmentInit
  <2> QED
    BY <2>1, <2>2
<1> QED
  BY <1>1, <1>3 DEF Parts

LEMMA ReceiverKeeps == Inv /\ [Next]_vars => ReceiverOK'
<1> SUFFICES ASSUME Inv, [Next]_vars PROVE ReceiverOK'
  OBVIOUS
<1>0. ReceiverOK /\ (slot \in Datagrams \/ slot = NoDatagram)
  BY DEF Inv, MailboxInv, MailboxTypeOK
<1>1. ASSUME UNCHANGED receiverVars PROVE ReceiverOK'
  BY <1>0, <1>1 DEF receiverVars, ReceiverOK
<1>2. ASSUME NEW d \in Datagrams, NEW decoded, DecodeAndNotify(d, decoded),
             got' = Append(got, d)
      PROVE  ReceiverOK'
  <2>1. got' \in Seq(Datagrams)
    BY <1>0, <1>2 DEF ReceiverOK
  <2> DEFINE len == DecodedLen(d, decoded)
             type == DecodedType(d, decoded)
  <2>4. len \in Nat /\ type \in Nat
    BY DecodedIsLen
  <2>2. CASE d.total > 1
    <3> DEFINE f == AddSegment(d, len)
    <3>2. \/ /\ f.count = 0
             /\ notified' = Append(notified, Message(f, type))
             /\ fullMsg' = SegmentInit(f)
          \/ /\ f.count # 0
             /\ fullMsg' = f /\ UNCHANGED notified
      BY <1>2, <2>2 DEF DecodeAndNotify
    <3> HIDE DEF len, type
    <3>1. f \in Parts /\ f.ref # -1 /\ f.count >= 0
      BY <1>0, <2>2, <2>4, AddSegmentType
    <3> HIDE DEF f
    <3>3. Message(f, type) \in Notices
      BY <2>4, <3>1 DEF Message, Parts, Notices
    <3>4. SegmentInit(f) \in Parts /\ SegmentInit(f).ref = -1
      BY <3>1, SegmentInitType
    <3>5. notified' \in Seq(Notices)
      BY <1>0, <3>2, <3>3 DEF ReceiverOK
    <3>6. fullMsg' \in Parts /\ (fullMsg'.ref # -1 => fullMsg'.count > 0)
      BY <3>1, <3>2, <3>4 DEF Parts
    <3> QED
      BY <2>1, <3>5, <3>6 DEF ReceiverOK
  <2>3. CASE ~(d.total > 1)
    <3> DEFINE n == Message([buf |-> [NoMessage.buf EXCEPT ![0] = d],
                             len |-> len], type)
    <3>1. notified' = Append(notified, n) /\ UNCHANGED fullMsg
      BY <1>2, <2>3 DEF DecodeAndNotify
    <3>2. [NoMessage.buf EXCEPT ![0] = d] \in Buffers
      BY SegmentsAssumption DEF NoMessage, Buffers
    <3> HIDE DEF len, type
    <3>3. n \in Notices
      BY <2>4, <3>2 DEF Message, Notices
    <3> HIDE DEF n
    <3> QED
      BY <1>0, <2>1, <3>1, <3>3 DEF ReceiverOK
  <2> QED
    BY <2>2, <2>3
<1>3. ASSUME ReaderDecode PROVE ReceiverOK'
  BY <1>0, <1>1, <1>2, <1>3 DEF ReaderDecode
<1>4. ASSUME ~ReaderDecode PROVE UNCHANGED receiverVars
  BY <1>4 DEF Next, SendWhole, SendSegments, SendSegment, Arrive, LeftInInbox,
              Mailbox, vars, receiverVars
<1> QED
  BY <1>1, <1>3, <1>4

LEMMA InvStep == Inv /\ [Next]_vars => Inv'
<1> SUFFICES ASSUME Inv, [Next]_vars PROVE Inv'
  OBVIOUS
<1>1. MailboxInv'
  BY MailboxSteps, WriterKeeps, ReaderKeeps, MailboxQuiet DEF Inv, SenderOK
<1>2. SenderOK' /\ ReceiverOK'
  BY SenderKeeps, ReceiverKeeps DEF Inv
<1> QED
  BY <1>1, <1>2 DEF Inv

LEMMA Invariant == Spec => []Inv
  BY InitInv, InvStep, PTL DEF Spec

(* The state stays well-formed for any messages: the segment count of the  *)
(* message in hand never runs below zero, and no segment is sent or kept   *)
(* beyond the last.                                                        *)
THEOREM TypeCorrect == Spec => []TypeOK
<1>1. Inv => TypeOK
  <2> SUFFICES ASSUME Inv PROVE TypeOK
    OBVIOUS
  <2>1. \A i \in DOMAIN notified : notified[i].len \in Nat
    <3>1. notified \in Seq(Notices)
      BY DEF Inv, ReceiverOK
    <3>2. \A i \in DOMAIN notified : notified[i] \in Notices
      BY <3>1
    <3> QED
      BY <3>2 DEF Notices
  <2> QED
    BY <2>1 DEF Inv, MailboxInv, SenderOK, ReceiverOK, Parts, Buffers, TypeOK
<1> QED
  BY <1>1, Invariant, PTL

(* A datagram that has been signaled is read, or about to be: the second   *)
(* reset of the event loses nothing, whatever messages and network do.     *)
THEOREM SignaledIsRead == Spec => []NotStranded
<1>1. Inv => NotStranded
  BY DEF Inv, MailboxInv
<1> QED
  BY <1>1, Invariant, PTL

(* The rule client and the receiving thread are never both inside the      *)
(* section of the mailbox's mutex: no datagram is decoded half written.    *)
THEOREM OneInSection ==
  Spec => [](writer.pc = "write" => reader \notin {"read", "unlock"})
<1>1. Inv => (writer.pc = "write" => reader \notin {"read", "unlock"})
  BY DEF Inv, MailboxInv, Sections
<1> QED
  BY <1>1, Invariant, PTL

-----------------------------------------------------------------------------
(* Where a datagram can be, and what is known of it there.                 *)
Seen    == {got[i] : i \in 1..Len(got)}
Hand    == IF writer.pc \in {"lock", "write"} THEN {writer.dg} ELSE {}
Shelf   == IF unread THEN {slot} ELSE {}
Handled == Hand \cup Shelf \cup Seen
Around  == air \cup Handled

(* A datagram is all of a message, or one of its segments.                 *)
Shape(d) ==
  /\ d \in Datagrams /\ d.msg \in asked
  /\ d.total = 1 => d = Single(d.msg)
                      /\ (d.wma => Segments(MsgLen[d.msg]) = 1)
  /\ d.total > 1 => /\ d.total = Segments(MsgLen[d.msg])
                    /\ d.segm < d.total
                    /\ d.len = ShareOf(MsgLen[d.msg], d.segm)
                    /\ d.type = TypeByte(MsgType[d.msg], MultiHeader + d.len)

Shapes == (\A d \in Around : Shape(d)) /\ (\A d \in Handled : d.wma)

(* The loop of a send is ahead of the segments it has sent.                *)
Ahead ==
  sending.busy =>
    /\ sending.msg \in asked /\ sending.ref < static_reference_number
    /\ \A d \in Around : d.msg = sending.msg =>
         d.ref = sending.ref % RefSpan /\ d.segm < sending.segm

(* The segments of a message have one reference number, and as long as     *)
(* these have not come round, no other message has it.                     *)
OneRef == \A d, e \in Around : d.msg = e.msg => d.ref = e.ref
OwnRef ==
  RefsDiffer =>
    \A d \in Around : d.total > 1 =>
      /\ d.ref < static_reference_number
      /\ sending.busy /\ d.ref = sending.ref => d.msg = sending.msg
      /\ \A e \in Around : e.total > 1 /\ d.ref = e.ref => d.msg = e.msg

(* What stays in the slot has been read.                                   *)
Stays == ~unread => slot \in Seen \cup {NoDatagram}

(* Until the mailbox is overrun, a datagram is in one place, and the       *)
(* thread is woken for one it has not read.                                *)
Once ==
  ~overrun =>
    /\ SignalPending => writer.pc # "signal"
    /\ SignalPending \/ writer.pc = "signal" => slot = NoDatagram \/ unread
    /\ event => reader \notin {"reset", "lock", "read"}
    /\ air \cap Handled = {}
    /\ Hand \cap (Shelf \cup Seen) = {}
    /\ Shelf \cap Seen = {}

Travel == Shapes /\ Ahead /\ OneRef /\ OwnRef /\ Stays /\ Once

LEMMA SeenGrows ==
  ASSUME ReceiverOK, NEW d, got' = Append(got, d)
  PROVE  Seen' = Seen \cup {d}
<1>1. got \in Seq(Datagrams)
  BY DEF ReceiverOK
<1>2. /\ Len(got') = Len(got) + 1 /\ got'[Len(got) + 1] = d
      /\ \A i \in 1..Len(got) : got'[i] = got[i]
  BY <1>1
<1>3. Len(got) \in Nat
  BY <1>1
<1> QED
  BY <1>2, <1>3 DEF Seen

(* Steps of the sending phone leave alone what has been handled.           *)
LEMMA HandledStays ==
  ASSUME UNCHANGED <<mailboxVars, receiverVars>>
  PROVE  /\ Handled' = Handled
         /\ overrun' = overrun /\ SignalPending' = SignalPending
         /\ UNCHANGED <<slot, writer, reader, unread, event>>
  BY DEF mailboxVars, receiverVars, Handled, Hand, Shelf, Seen, SignalPending

(* A datagram under way with air' is what was on air, or new.              *)
LEMMA SentTravels ==
  ASSUME Travel, UNCHANGED <<mailboxVars, receiverVars>>, NEW d,
         air' \subseteq air \cup {d}, d \notin Around
  PROVE  /\ Once' /\ Stays'
         /\ Around' \subseteq Around \cup {d} /\ Handled' = Handled
<1>1. /\ Handled' = Handled /\ overrun' = overrun
      /\ SignalPending' = SignalPending
      /\ UNCHANGED <<slot, writer, reader, unread, event>>
  BY HandledStays
<1>2. Hand' = Hand /\ Shelf' = Shelf /\ Seen' = Seen
  BY <1>1 DEF Hand, Shelf, Seen, receiverVars
<1>3. Around' \subseteq Around \cup {d}
  BY <1>1 DEF Around
<1>4. Once' /\ Stays'
  BY <1>1, <1>2 DEF Travel, Once, Stays, Around
<1> QED
  BY <1>1, <1>3, <1>4

LEMMA WholeTravels ==
  ASSUME Inv, Travel, NEW m \in Msgs, SendWhole(m)
  PROVE  Travel'
<1> DEFINE x == Single(m)
<1>1. /\ ~sending.busy /\ m \notin asked /\ asked' = asked \cup {m}
      /\ air' \subseteq air \cup {x}
      /\ UNCHANGED <<mailboxVars, receiverVars>>
      /\ UNCHANGED <<static_reference_number, sending>>
      /\ air' = air \/ (DestPort[m] = 0 \/ Segments(MsgLen[m]) = 1)
  BY DEF SendWhole, MayAsk
<1>2. /\ x \in Datagrams /\ x.msg = m /\ x.total = 1
      /\ x.wma => DestPort[m] # 0
  BY SingleIsDatagram DEF Single
<1>3. \A d \in Around : Shape(d) /\ d.msg # m
  BY <1>1 DEF Travel, Shapes, Shape
<1>4. x \notin Around
  BY <1>2, <1>3
<1> HIDE DEF x
<1>5. /\ Once' /\ Stays'
      /\ Around' \subseteq Around \cup {x} /\ Handled' = Handled
  BY <1>1, <1>4, SentTravels
<1>6. \A d \in Around' : Shape(d)'
  <2>1. \A d : Shape(d) => Shape(d)'
    BY <1>1 DEF Shape
  <2>2. CASE air' = air
    BY <1>3, <1>5, <2>1, <2>2 DEF Around
  <2>3. CASE DestPort[m] = 0 \/ Segments(MsgLen[m]) = 1
    <3>1. Shape(x)'
      BY <1>1, <1>2, <2>3, SegmentsAssumption DEF Shape, x
    <3> QED
      BY <1>3, <1>5, <2>1, <3>1
  <2> QED
    BY <1>1, <2>2, <2>3
<1>7. Shapes'
  BY <1>5, <1>6 DEF Travel, Shapes
<1>8. Ahead'
  BY <1>1 DEF Ahead
<1>9. OneRef'
  BY <1>2, <1>3, <1>5 DEF Travel, OneRef
<1>10. OwnRef'
  BY <1>1, <1>2, <1>5, SegmentsAssumption
     DEF Travel, OwnRef, RefsDiffer, Datagrams
<1> QED
  BY <1>5, <1>7, <1>8, <1>9, <1>10 DEF Travel

LEMMA LoopTravels ==
  ASSUME Inv, Travel, NEW m \in Msgs, SendSegments(m)
  PROVE  Travel'
<1>1. /\ m \notin asked /\ asked' = asked \cup {m}
      /\ static_reference_number' = static_reference_number + 1
      /\ air' = air /\ UNCHANGED <<mailboxVars, receiverVars>>
  BY DEF SendSegments, MayAsk
<1>2. sending' = [busy |-> TRUE, msg |-> m, ref |-> static_reference_number,
                  segm |-> 0]
  BY DEF SendSegments
<1>3. \A d \in Around : Shape(d) /\ d.msg # m
  BY <1>1 DEF Travel, Shapes, Shape
<1>4. Handled' = Handled /\ Around' = Around
  BY <1>1, HandledStays DEF Around
<1>5. Shapes'
  BY <1>1, <1>3, <1>4 DEF Travel, Shapes, Shape
<1>6. static_reference_number \in Nat
  BY DEF Inv, SenderOK
<1>7. Ahead'
  BY <1>1, <1>2, <1>3, <1>4, <1>6 DEF Ahead
<1>8. OneRef'
  BY <1>4 DEF Travel, OneRef
<1>9. OwnRef'
  <2> SUFFICES ASSUME RefsDiffer' PROVE OwnRef'
    BY DEF OwnRef
  <2>1. RefsDiffer
    BY <1>1, <1>6, SegmentsAssumption DEF RefsDiffer
  <2>2. \A d \in Around : d.ref \in Int
    BY <1>3, SegmentsAssumption DEF Shape, Datagrams
  <2> QED
    BY <1>1, <1>2, <1>4, <1>6, <2>1, <2>2 DEF Travel, OwnRef
<1>10. Once' /\ Stays'
  BY <1>1, <1>4, HandledStays
     DEF Travel, Once, Stays, Hand, Shelf, Seen, receiverVars
<1> QED
  BY <1>5, <1>7, <1>8, <1>9, <1>10 DEF Travel

LEMMA SegmentTravels ==
  ASSUME Inv, Travel, SendSegment
  PROVE  Travel'
<1> DEFINE m == sending.msg
           r == sending.ref
           s == sending.segm
<1> PICK x : x = Segment(m, r, s)
  OBVIOUS
<1>0. /\ sending.busy
      /\ UNCHANGED <<static_reference_number, asked>>
      /\ UNCHANGED <<mailboxVars, receiverVars>>
      /\ \/ /\ air' = air \cup {x}
            /\ \/ sending' = NotSending
               \/ sending' = [sending EXCEPT !.segm = @ + 1]
         \/ air' = air /\ sending' = NotSending
  BY DEF SendSegment
<1>1. /\ sending \in [busy : {TRUE}, msg : Msgs, ref : Nat,
                      segm : 0..(MaxSegm - 1)]
      /\ m \in Msgs /\ r \in Nat /\ s \in Nat
      /\ Segments(MsgLen[m]) \in 2..MaxSegm
      /\ s < Segments(MsgLen[m])
  <2>1. sending # NotSending
    BY <1>0 DEF NotSending
  <2>2. /\ sending \in [busy : {TRUE}, msg : Msgs, ref : Nat,
                        segm : 0..(MaxSegm - 1)]
        /\ Segments(MsgLen[m]) \in 2..MaxSegm
        /\ s < Segments(MsgLen[m])
    BY <1>0, <2>1 DEF Inv, SenderOK
  <2>3. m \in Msgs /\ r \in Nat /\ s \in Nat
    BY <2>2, SegmentsAssumption
  <2> QED
    BY <2>2, <2>3
<1>2. x \in Datagrams
  BY <1>1, SegmentIsDatagram
<1>3. /\ x.msg = m /\ x.wma /\ x.ref = r % RefSpan /\ x.segm = s
      /\ x.total = Segments(MsgLen[m]) /\ x.len = ShareOf(MsgLen[m], s)
      /\ x.type = TypeByte(MsgType[m], MultiHeader + x.len)
  BY DEF Segment
<1>4. /\ m \in asked /\ r < static_reference_number
      /\ \A d \in Around : d.msg = m => d.ref = r % RefSpan /\ d.segm < s
  BY <1>0 DEF Travel, Ahead
<1>5. static_reference_number \in Nat
  BY DEF Inv, SenderOK
<1>6. /\ sending'.busy \in BOOLEAN
      /\ sending'.busy => /\ sending'.msg = m /\ sending'.ref = r
                          /\ sending'.segm = s + 1 /\ air' = air \cup {x}
  <2>1. CASE sending' = NotSending
    BY <2>1 DEF NotSending
  <2>2. CASE sending' = [sending EXCEPT !.segm = @ + 1]
             /\ air' = air \cup {x}
    BY <1>1, <2>2
  <2> QED
    BY <1>0, <2>1, <2>2
<1> HIDE DEF m, r, s
<1>7. x \notin Around
  BY <1>1, <1>3, <1>4
<1>8. /\ Once' /\ Stays'
      /\ Around' \subseteq Around \cup {x} /\ Handled' = Handled
  BY <1>0, <1>7, SentTravels
<1>9. Shapes'
  <2>1. x.total # 1 /\ x.segm < x.total
    BY <1>1, <1>3
  <2>2. Shape(x)'
    BY <1>0, <1>2, <1>3, <1>4, <2>1 DEF Shape
  <2>3. \A d : Shape(d) => Shape(d)'
    BY <1>0 DEF Shape
  <2> QED
    BY <1>8, <2>2, <2>3 DEF Travel, Shapes
<1>10. Ahead'
  <2>1. \A d \in Around : d.msg = m => d.segm \in Int
    BY SegmentsAssumption DEF Travel, Shapes, Shape, Datagrams
  <2> SUFFICES ASSUME sending'.busy PROVE Ahead'
    BY DEF Ahead
  <2>2. ASSUME NEW d \in Around', d.msg = m
        PROVE  d.ref = r % RefSpan /\ d.segm < s + 1
    BY <1>1, <1>3, <1>4, <1>8, <2>1, <2>2
  <2> QED
    BY <1>0, <1>4, <1>6, <2>2 DEF Ahead
<1>11. OneRef'
  BY <1>3, <1>4, <1>8 DEF Travel, OneRef
<1>12. OwnRef'
  <2> SUFFICES ASSUME RefsDiffer' PROVE OwnRef'
    BY DEF OwnRef
  <2>1. RefsDiffer
    BY <1>0 DEF RefsDiffer
  <2>2. x.ref = r
    <3>1. r \in 0..(RefSpan - 1)
      BY <1>1, <1>4, <1>5, <2>1, SegmentsAssumption DEF RefsDiffer
    <3>2. r % RefSpan = r
      BY <3>1, SegmentsAssumption
    <3> QED
      BY <1>3, <3>2
  <2>3. ASSUME NEW d \in Around, d.total > 1
        PROVE  /\ d.ref < static_reference_number
               /\ d.ref = r => d.msg = m
               /\ \A e \in Around : e.total > 1 /\ d.ref = e.ref
                                      => d.msg = e.msg
    BY <1>0, <2>1, <2>3 DEF Travel, OwnRef, m, r
  <2>4. ASSUME NEW d \in Around', d.total > 1
        PROVE  /\ d.ref < static_reference_number'
               /\ sending'.busy /\ d.ref = sending'.ref => d.msg = sending'.msg
               /\ \A e \in Around' : e.total > 1 /\ d.ref = e.ref
                                       => d.msg = e.msg
    BY <1>0, <1>3, <1>4, <1>6, <1>8, <2>2, <2>3, <2>4
  <2> QED
    BY <2>4 DEF OwnRef
<1> QED
  BY <1>8, <1>9, <1>10, <1>11, <1>12 DEF Travel

(* The other steps move a datagram on, or lose it.                         *)
LEMMA MovedTravels ==
  ASSUME Travel, UNCHANGED senderVars,
         Around' \subseteq Around, \A d \in Handled' : d.wma
  PROVE  Shapes' /\ Ahead' /\ OneRef' /\ OwnRef'
<1>1. Shapes'
  BY DEF Travel, Shapes, Shape, senderVars
<1>2. Ahead'
  BY DEF Travel, Ahead, senderVars
<1>3. OneRef' /\ OwnRef'
  BY DEF Travel, OneRef, OwnRef, RefsDiffer, senderVars
<1> QED
  BY <1>1, <1>2, <1>3

(* A step of the mailbox alone: between the phones or within the section.  *)
LEMMA ArrivalTravels ==
  ASSUME Inv, Travel, NEW d \in air, Arrive(d) \/ LeftInInbox(d)
  PROVE  Travel'
<1>1. /\ UNCHANGED senderVars /\ air' = air \ {d} /\ writer.pc = "idle"
      /\ UNCHANGED <<slot, reader, unread, event, overrun, got>>
  BY DEF Arrive, ProcessMessage, LeftInInbox, mailboxVars, receiverVars
<1>2. Shelf' = Shelf /\ Seen' = Seen /\ SignalPending' = SignalPending
  BY <1>1 DEF Shelf, Seen, SignalPending
<1>3. \/ /\ d.wma /\ Hand' = {d} /\ writer'.pc = "lock"
      \/ Hand' = Hand /\ writer' = writer
  BY DEF Arrive, ProcessMessage, LeftInInbox, mailboxVars, Hand
<1>4. Around' \subseteq Around
  BY <1>1, <1>2, <1>3 DEF Around, Handled
<1>5. \A e \in Handled' : e.wma
  BY <1>2, <1>3 DEF Handled, Travel, Shapes
<1>6. Once'
  <2> SUFFICES ASSUME ~overrun PROVE Once'
    BY <1>1 DEF Once
  <2>1. air \cap Handled = {} /\ d \notin Handled
    BY DEF Travel, Once
  <2>2. writer'.pc # "signal"
    BY <1>1, <1>3
  <2>3. /\ air' \cap Handled' = {}
        /\ Hand' \cap (Shelf' \cup Seen') = {}
    BY <1>1, <1>2, <1>3, <2>1 DEF Handled, Travel, Once
  <2> QED
    BY <1>1, <1>2, <2>2, <2>3 DEF Travel, Once
<1>7. Stays'
  BY <1>1, <1>2 DEF Travel, Stays
<1> QED
  BY <1>1, <1>4, <1>5, <1>6, <1>7, MovedTravels DEF Travel

LEMMA MailboxTravels ==
  ASSUME Inv, Travel, Mailbox
  PROVE  Travel'
<1>1. UNCHANGED senderVars /\ UNCHANGED <<air, got>> /\ Seen' = Seen
  BY DEF Mailbox, receiverVars, Seen
<1>2. WriterWrite \/ (Hand' \subseteq Hand /\ Shelf' = Shelf)
  BY DEF Mailbox, Writer, Reader, WriterLock, WriterTimeout, WriterSignal,
         ReaderMap, ReaderCreateEvent, ReaderWake, ReaderReset, ReaderLock,
         ReaderUnlock, StartReader, Hand, Shelf, NoWriter, Inv, MailboxInv,
         MailboxTypeOK, Writers
<1>3. WriterWrite => Hand' = {} /\ Shelf' \subseteq Hand
  BY DEF WriterWrite, Hand, Shelf, Inv, MailboxInv, MailboxTypeOK, Writers
<1>4. Handled' \subseteq Handled /\ Around' \subseteq Around
  BY <1>1, <1>2, <1>3 DEF Handled, Around
<1>5. \A d \in Handled' : d.wma
  BY <1>4 DEF Travel, Shapes
<1>6. Once'
  <2> SUFFICES ASSUME ~overrun' PROVE Once'
    BY DEF Once
  <2>0. overrun \in BOOLEAN
    BY DEF Inv, MailboxInv, MailboxTypeOK
  <2>1. ~overrun
    <3>1. CASE Writer
      BY <2>0, <3>1 DEF Writer, WriterLock, WriterTimeout, WriterWrite,
                        WriterSignal
    <3>2. CASE Reader \/ StartReader
      BY <3>2 DEF Reader, ReaderMap, ReaderCreateEvent, ReaderWake,
                  ReaderReset, ReaderLock, ReaderUnlock, StartReader
    <3> QED
      BY <3>1, <3>2 DEF Mailbox
  <2>2. /\ air' \cap Handled' = {}
        /\ Hand' \cap (Shelf' \cup Seen') = {}
        /\ Shelf' \cap Seen' = {}
    BY <1>1, <1>2, <1>3, <1>4, <2>1 DEF Travel, Once
  <2>3. /\ SignalPending' => writer'.pc # "signal"
        /\ SignalPending' \/ writer'.pc = "signal"
             => slot' = NoDatagram \/ unread'
        /\ event' => reader' \notin {"reset", "lock", "read"}
    <3> USE <2>1 DEF Travel, Once, SignalPending
    <3>0. writer \in Writers
      BY DEF Inv, MailboxInv, MailboxTypeOK
    <3>1. CASE WriterLock \/ WriterTimeout
      BY <3>0, <3>1 DEF WriterLock, WriterTimeout, NoWriter, Writers
    <3>6. CASE WriterWrite
      <4>1. ~event /\ reader \notin {"reset", "lock", "read"}
        BY <2>0, <3>6 DEF WriterWrite
      <4>2. event' = event /\ reader' = reader
        BY <3>6 DEF WriterWrite
      <4>3. slot' = NoDatagram \/ unread'
        BY <3>6 DEF WriterWrite, Mapped
      <4> QED
        BY <4>1, <4>2, <4>3
    <3>2. CASE WriterSignal
      BY <3>2 DEF WriterSignal, NoWriter
    <3>3. CASE StartReader \/ ReaderMap \/ ReaderCreateEvent
      BY <3>3 DEF StartReader, ReaderMap, ReaderCreateEvent
    <3>4. CASE ReaderWake \/ ReaderReset
      BY <3>4 DEF ReaderWake, ReaderReset, Then
    <3>5. CASE ReaderLock \/ ReaderUnlock
      BY <3>5 DEF ReaderLock, ReaderUnlock, Then
    <3> QED
      BY <3>1, <3>2, <3>3, <3>4, <3>5, <3>6 DEF Mailbox, Writer, Reader
  <2> QED
    BY <2>2, <2>3 DEF Once
<1>7. Stays'
  <2>1. CASE WriterWrite
    BY <1>1, <2>1 DEF WriterWrite, Stays
  <2>2. CASE ~WriterWrite
    <3>1. slot' = slot /\ unread' = unread
      BY <2>2 DEF Mailbox, Writer, Reader, WriterLock, WriterTimeout,
                  WriterSignal, ReaderMap, ReaderCreateEvent, ReaderWake,
                  ReaderReset, ReaderLock, ReaderUnlock, StartReader
    <3> QED
      BY <1>1, <3>1 DEF Travel, Stays
  <2> QED
    BY <2>1, <2>2
<1> QED
  BY <1>1, <1>4, <1>5, <1>6, <1>7, MovedTravels DEF Travel

(* Until the mailbox is overrun, the thread reads what it has not read.    *)
LEMMA ReadsOnce ==
  ASSUME Travel, ReaderDecode, ~overrun, slot # NoDatagram
  PROVE  unread /\ slot \notin Seen
<1>1. SignalPending
  BY DEF ReaderDecode, ReaderRead, SignalPending
<1>2. unread /\ Shelf = {slot} /\ Shelf \cap Seen = {}
  BY <1>1 DEF Travel, Once, Shelf
<1> QED
  BY <1>2


LEMMA ReadTravels ==
  ASSUME Inv, Travel, ReaderDecode
  PROVE  Travel'
<1>1. /\ UNCHANGED <<senderVars, air, slot, writer, event, overrun>>
      /\ reader = "read" /\ reader' = "unlock" /\ unread' = FALSE
  BY DEF ReaderDecode, ReaderRead
<1>2. Hand' = Hand /\ Shelf' = {}
  BY <1>1 DEF Hand, Shelf
<1>3. Seen' = Seen \cup ({slot} \ {NoDatagram})
  <2>1. CASE slot = NoDatagram
    BY <2>1 DEF ReaderDecode, receiverVars, Seen
  <2>2. CASE slot # NoDatagram /\ got' = Append(got, slot)
    BY <2>2, SeenGrows DEF Inv
  <2> QED
    BY <2>1, <2>2 DEF ReaderDecode
<1>4. {slot} \ {NoDatagram} \subseteq Shelf \cup Seen
  BY DEF Travel, Stays, Shelf
<1>5. Handled' \subseteq Handled /\ Around' \subseteq Around
  BY <1>1, <1>2, <1>3, <1>4 DEF Handled, Around
<1>6. \A d \in Handled' : d.wma
  BY <1>5 DEF Travel, Shapes
<1>7. Stays'
  BY <1>1, <1>3 DEF Stays
<1>8. Once'
  <2> SUFFICES ASSUME ~overrun PROVE Once'
    BY <1>1 DEF Once
  <2>1. SignalPending /\ ~event /\ writer.pc # "signal"
    BY <1>1 DEF SignalPending, Travel, Once
  <2>2. ~SignalPending' /\ writer'.pc # "signal"
    BY <1>1, <2>1 DEF SignalPending
  <2>3. /\ air' \cap Handled' = {}
        /\ Hand' \cap (Shelf' \cup Seen') = {}
        /\ Shelf' \cap Seen' = {}
    BY <1>1, <1>2, <1>3, <1>4, <1>5 DEF Travel, Once
  <2> QED
    BY <1>1, <2>2, <2>3 DEF Once
<1> QED
  BY <1>1, <1>5, <1>6, <1>7, <1>8, MovedTravels DEF Travel

LEMMA TravelStep == Inv /\ Travel /\ [Next]_vars => Travel'
<1> SUFFICES ASSUME Inv, Travel, [Next]_vars PROVE Travel'
  OBVIOUS
<1>1. CASE UNCHANGED vars
  <2>1. /\ UNCHANGED <<static_reference_number, asked, sending, air>>
        /\ UNCHANGED <<mailboxVars, receiverVars>>
    BY <1>1 DEF vars, senderVars, receiverVars
  <2>2. UNCHANGED <<Hand, Shelf, Seen, Handled, Around, SignalPending>>
    BY <2>1, HandledStays
       DEF Hand, Shelf, Seen, Around, mailboxVars, receiverVars
  <2>3. Once' /\ Stays'
    BY <2>1, <2>2 DEF Travel, Once, Stays, mailboxVars
  <2>4. \A d \in Handled' : d.wma
    BY <2>2 DEF Travel, Shapes
  <2> QED
    BY <2>1, <2>2, <2>3, <2>4, MovedTravels DEF Travel, senderVars
<1> QED
  BY <1>1, WholeTravels, LoopTravels, SegmentTravels, ArrivalTravels,
     MailboxTravels, ReadTravels DEF Next

LEMMA TravelStarts == Init => Travel
<1> SUFFICES ASSUME Init PROVE Travel
  OBVIOUS
<1>1. Hand = {} /\ Shelf = {} /\ Seen = {} /\ air = {}
  BY DEF Init, MailboxInit, NoWriter, Hand, Shelf, Seen
<1>2. Around = {} /\ Handled = {}
  BY <1>1 DEF Around, Handled
<1>3. Shapes /\ Ahead /\ OneRef /\ OwnRef
  BY <1>2 DEF Init, NotSending, Shapes, Ahead, OneRef, OwnRef
<1>4. Stays /\ Once
  BY <1>1 DEF Init, MailboxInit, NoWriter, Stays, Once, SignalPending
<1> QED
  BY <1>3, <1>4 DEF Travel

-----------------------------------------------------------------------------
(* What has been read of a message, kept of it and handed up.              *)
Slots == 0..(MaxSegm - 1)
Parcels(m) == 0..(Segments(MsgLen[m]) - 1)

AllRead(m) == \A s \in Parcels(m) : \E d \in Seen : d.msg = m /\ d.segm = s

Reads(m) == ReadOf(m, Len(got))

Kept(s) == fullMsg.buf[s] # NoDatagram
Mine(m) == {s \in Slots : Kept(s) /\ fullMsg.buf[s].msg = m}

Owner(n) == n.buf[0].msg
Whole(m) == \E i \in 1..Len(notified) : IsWhole(notified[i], m)

(* The buffer keeps segments that have been read, each in its place.       *)
Buffer ==
  \A s \in Slots : Kept(s) =>
    /\ fullMsg.buf[s] \in Seen
    /\ fullMsg.buf[s].segm = s /\ fullMsg.buf[s].total > 1

(* Of the messages outside S, the buffer keeps only what has been read in  *)
(* all, and what has been read of them has been handed up.                 *)
Others(S) ==
  \A k \in Msgs \ S :
    /\ Mine(k) # {} => AllRead(k)
    /\ InTurn /\ Reads(k) # {} => Whole(k)

(* No message is in hand.                                                  *)
Closed == fullMsg.ref = -1 /\ Others({})

(* The length of k segments of message m, those of places S: only the last *)
(* segment of the message is not of full size.                             *)
LenOf(m, S, k) ==
  LET last == Segments(MsgLen[m]) - 1
  IN  IF last \in S THEN SegmPayload * (k - 1) + ShareOf(MsgLen[m], last)
                    ELSE SegmPayload * k

(* The lengths come out right, unless a type byte is zero.                 *)
LenKept(d, len) == TypeKept(d.msg) => len = d.len
LenRight(m, len, S, k) == TypeKept(m) => len = LenOf(m, S, k)

(* Message m is in hand: the segments kept of it are those counted, and    *)
(* their length has been counted, unless one has a type byte of zero.      *)
Begun(m) ==
  LET k == Segments(MsgLen[m]) - fullMsg.count
  IN  /\ fullMsg.ref # -1 /\ Segments(MsgLen[m]) \in 2..MaxSegm
      /\ Mine(m) # {} /\ Cardinality(Mine(m)) = k
      /\ \A s \in Mine(m) : fullMsg.buf[s].ref = fullMsg.ref
      /\ LenRight(m, fullMsg.len, Mine(m), k)
      /\ InTurn => Cardinality(Reads(m)) = k

Open(m) == Begun(m) /\ Others({m})

(* Every message handed up is whole, and has been read in all.             *)
Notified ==
  /\ \A i \in 1..Len(notified) :
       \E m \in Msgs : /\ Owner(notified[i]) = m
                       /\ IsWhole(notified[i], m) /\ AllRead(m)
  /\ \A i, j \in 1..Len(notified) :
       Owner(notified[i]) = Owner(notified[j]) => i = j

Received ==
  ~overrun /\ (RefsDiffer \/ InTurn) =>
    Buffer /\ Notified /\ (Closed \/ \E m \in Msgs : Open(m))

-----------------------------------------------------------------------------
(* Arithmetic of segments.                                                 *)
LEMMA SegmentsPositive == \A len \in Nat : Segments(len) \in Nat \ {0}
<1> TAKE len \in Nat
<1>1. CASE len < DataPayload
  BY <1>1 DEF Segments
<1>2. CASE ~(len < DataPayload)
  <2>1. len - 1 \in Nat
    BY <1>2, SegmentsAssumption
  <2>2. (len - 1) \div SegmPayload \in Nat
    BY <2>1, SegmentsAssumption
  <2> QED
    BY <1>2, <2>2 DEF Segments
<1> QED
  BY <1>1, <1>2

(* Every segment but the last is of full size.                             *)
LEMMA FullShare ==
  ASSUME NEW len \in Nat, NEW s \in Nat, s + 1 < Segments(len)
  PROVE  ShareOf(len, s) = SegmPayload
<1>1. (s + 1) * SegmPayload < len
  BY SegmentStarts
<1>2. (s + 1) * SegmPayload = s * SegmPayload + SegmPayload
  BY SegmentsAssumption
<1>3. s * SegmPayload \in Nat
  BY SegmentsAssumption
<1> QED
  BY <1>1, <1>2, <1>3, SegmentsAssumption DEF ShareOf

(* The last takes the rest.                                                *)
LEMMA LastShare ==
  ASSUME NEW len \in Nat, Segments(len) > 1
  PROVE  SegmPayload * (Segments(len) - 1) + ShareOf(len, Segments(len) - 1)
           = len
<1> DEFINE q == (len - 1) \div SegmPayload
           r == (len - 1) % SegmPayload
<1>1. Segments(len) = q + 1 /\ len >= 1
  BY SegmentsAssumption DEF Segments
<1>2. /\ len - 1 = SegmPayload * q + r
      /\ r \in 0..(SegmPayload - 1) /\ q \in Nat
  BY <1>1, SegmentsAssumption
<1> HIDE DEF q, r
<1>3. q * SegmPayload = SegmPayload * q /\ SegmPayload * q \in Nat
  BY <1>2, SegmentsAssumption
<1>4. ShareOf(len, q) = len - q * SegmPayload
  BY <1>2, <1>3, SegmentsAssumption DEF ShareOf
<1> QED
  BY <1>1, <1>2, <1>3, <1>4

LEMMA NothingIsNoDatagram == NoDatagram \notin Datagrams
<1>1. "wma" \notin DOMAIN NoDatagram
  BY DEF NoDatagram
<1>2. \A d \in Datagrams : "wma" \in DOMAIN d
  BY DEF Datagrams
<1> QED
  BY <1>1, <1>2

-----------------------------------------------------------------------------
(* A datagram is known by its message and its place in it.                 *)
LEMMA SameDatagram ==
  ASSUME Travel, NEW d \in Handled, NEW e \in Handled,
         d.msg = e.msg, d.segm = e.segm
  PROVE  d = e
<1>1. /\ d \in Datagrams /\ e \in Datagrams /\ d.wma /\ e.wma
      /\ Shape(d) /\ Shape(e) /\ d.ref = e.ref
  BY DEF Travel, Shapes, Shape, OneRef, Around
<1>2. d.total \in 1..MaxSegm /\ e.total \in 1..MaxSegm
  BY <1>1 DEF Datagrams
<1>3. d.total = Segments(MsgLen[d.msg]) /\ e.total = Segments(MsgLen[e.msg])
  <2>1. d.total = 1 => Segments(MsgLen[d.msg]) = 1
    BY <1>1 DEF Shape
  <2>2. e.total = 1 => Segments(MsgLen[e.msg]) = 1
    BY <1>1 DEF Shape
  <2> QED
    BY <1>1, <1>2, <2>1, <2>2, SegmentsAssumption DEF Shape
<1>4. CASE d.total = 1
  BY <1>1, <1>3, <1>4 DEF Shape
<1>5. CASE d.total # 1
  <2>1. d.len = e.len /\ d.total = e.total /\ d.type = e.type
    BY <1>1, <1>2, <1>3, <1>5, SegmentsAssumption DEF Shape
  <2> QED
    BY <1>1, <2>1 DEF Datagrams
<1> QED
  BY <1>4, <1>5

(* The datagram that is read: what is known of it.                         *)
LEMMA ReadShape ==
  ASSUME Travel, NEW d \in Handled
  PROVE  /\ d \in Datagrams /\ Shape(d) /\ d.msg \in Msgs
         /\ d.total \in 1..MaxSegm /\ d.segm \in Parcels(d.msg)
         /\ d.total = Segments(MsgLen[d.msg])
<1>1. d \in Datagrams /\ d.wma /\ Shape(d)
  BY DEF Travel, Shapes, Shape, Around
<1>2. /\ d.total \in 1..MaxSegm /\ d.msg \in Msgs /\ d.segm \in Nat
  BY <1>1, SegmentsAssumption DEF Datagrams
<1>3. CASE d.total = 1
  <2>1. d = Single(d.msg) /\ Segments(MsgLen[d.msg]) = 1
    BY <1>1, <1>3 DEF Shape
  <2>2. d.segm = 0
    BY <2>1 DEF Single
  <2> QED
    BY <1>1, <1>2, <1>3, <2>1, <2>2 DEF Parcels
<1>4. CASE d.total # 1
  BY <1>1, <1>2, <1>4, SegmentsAssumption DEF Shape, Parcels
<1> QED
  BY <1>3, <1>4

(* The length and the type of a datagram are decoded as they were encoded, *)
(* unless it is a segment of a message with a type byte of zero.           *)
LEMMA DecodedAsSent ==
  ASSUME Travel, NEW d \in Handled, NEW decoded,
         d.total > 1 => TypeKept(d.msg)
  PROVE  /\ DecodedLen(d, decoded) = d.len
         /\ DecodedType(d, decoded) = MsgType[d.msg]
<1>1. /\ d \in Datagrams /\ Shape(d) /\ d.msg \in Msgs
      /\ d.total \in 1..MaxSegm /\ d.segm \in Parcels(d.msg)
      /\ d.total = Segments(MsgLen[d.msg])
  BY ReadShape
<1>2. /\ MsgType[d.msg] \in 0..127 /\ MsgLen[d.msg] \in Nat
      /\ d.len \in Nat /\ d.type \in 0..255
  BY <1>1, SegmentsAssumption, TypesAssumption DEF Datagrams
<1>3. /\ TypeRead(d, decoded) = d.type
      /\ d.type % OddityBit = MsgType[d.msg]
  <2>1. CASE d.total = 1
    <3>1. d = Single(d.msg)
      BY <1>1, <2>1 DEF Shape
    <3>2. d.type = TypeByte(MsgType[d.msg], SingleHeader + MsgLen[d.msg])
      BY <3>1 DEF Single
    <3>3. d.type % OddityBit = MsgType[d.msg]
      <4>1. SingleHeader + MsgLen[d.msg] \in Int
        BY <1>2, HeadersAreInt
      <4>2. TypeByte(MsgType[d.msg], SingleHeader + MsgLen[d.msg]) % OddityBit
              = MsgType[d.msg]
        BY <1>2, <4>1, TypeByteKeeps
      <4> QED
        BY <3>2, <4>2
    <3>4. TypeRead(d, decoded) = d.type
      <4>1. ~(d.total > 1)
        BY <2>1
      <4> QED
        BY <4>1, Zenon DEF TypeRead
    <3> QED
      BY <3>3, <3>4
  <2>2. CASE d.total # 1
    <3>1. /\ d.total > 1 /\ d.len = ShareOf(MsgLen[d.msg], d.segm)
          /\ d.type = TypeByte(MsgType[d.msg], MultiHeader + d.len)
      BY <1>1, <2>2, SegmentsAssumption DEF Shape
    <3>2. d.type = Segment(d.msg, 0, d.segm).type
      BY <3>1 DEF Segment
    <3>3. d.type # 0
      BY <1>1, <3>1, <3>2 DEF TypeKept, Parcels
    <3>4. d.type % OddityBit = MsgType[d.msg]
      <4>1. MultiHeader + d.len \in Int
        BY <1>2, HeadersAreInt
      <4>2. TypeByte(MsgType[d.msg], MultiHeader + d.len) % OddityBit
              = MsgType[d.msg]
        BY <1>2, <4>1, TypeByteKeeps
      <4> QED
        BY <3>1, <4>2
    <3>5. TypeRead(d, decoded) = d.type
      BY <3>3, Zenon DEF TypeRead
    <3> QED
      BY <3>4, <3>5
  <2> QED
    BY <2>1, <2>2
<1>4. HasOddity(d.type) \in Int
  BY DEF HasOddity
<1> QED
  BY <1>2, <1>3, <1>4 DEF DecodedLen, DecodedType

(* Of a message with a datagram that has not been read, not all has.       *)
LEMMA NotAllRead ==
  ASSUME Travel, NEW d \in Handled, d \notin Seen
  PROVE  ~AllRead(d.msg)
<1>1. Seen \subseteq Handled
  BY DEF Handled
<1> QED
  BY <1>1, ReadShape, SameDatagram DEF AllRead

LEMMA FiniteParts ==
  ASSUME ReceiverOK, NEW m
  PROVE  /\ IsFiniteSet(Mine(m)) /\ Cardinality(Mine(m)) \in Nat
         /\ IsFiniteSet(Reads(m)) /\ Cardinality(Reads(m)) \in Nat
         /\ Reads(m) \subseteq 1..Len(got)
<1>1. IsFiniteSet(Slots)
  BY SegmentsAssumption, FS_Interval DEF Slots
<1>2. Len(got) \in Nat /\ IsFiniteSet(1..Len(got))
  BY FS_Interval DEF ReceiverOK
<1>3. Mine(m) \subseteq Slots /\ Reads(m) \subseteq 1..Len(got)
  BY DEF Mine, Reads, ReadOf
<1> QED
  BY <1>1, <1>2, <1>3, FS_Subset, FS_CardinalityType

(* What reading d adds to the readings.                                    *)
LEMMA ReadsGrow ==
  ASSUME ReceiverOK, NEW d, got' = Append(got, d)
  PROVE  /\ \A k : d.msg # k => Reads(k)' = Reads(k)
         /\ Reads(d.msg)' = Reads(d.msg) \cup {Len(got) + 1}
         /\ Len(got) + 1 \notin Reads(d.msg)
<1>1. got \in Seq(Datagrams) /\ Len(got) \in Nat
  BY DEF ReceiverOK
<1>2. /\ Len(got') = Len(got) + 1 /\ got'[Len(got) + 1] = d
      /\ \A i \in 1..Len(got) : got'[i] = got[i]
  BY <1>1
<1>3. 1..Len(got') = (1..Len(got)) \cup {Len(got) + 1}
  BY <1>1, <1>2
<1>4. \A k : Reads(k)' = {i \in 1..Len(got') : got'[i].msg = k}
  BY DEF Reads, ReadOf
<1>5. \A k : Reads(k) = {i \in 1..Len(got) : got[i].msg = k}
  BY DEF Reads, ReadOf
<1>6. Len(got) + 1 \notin 1..Len(got)
  BY <1>1
<1> QED
  BY <1>2, <1>3, <1>4, <1>5, <1>6

(* Messages read one at a time have been so before.                        *)
LEMMA TurnsSoFar ==
  ASSUME ReceiverOK, NEW d, got' = Append(got, d), InTurn'
  PROVE  /\ InTurn
         /\ \A e \in Seen : e.total > 1 /\ d.total > 1 /\ e.msg # d.msg =>
              Cardinality(Reads(e.msg)) = e.total
<1>1. got \in Seq(Datagrams) /\ Len(got) \in Nat
  BY DEF ReceiverOK
<1>2. /\ Len(got') = Len(got) + 1 /\ got'[Len(got) + 1] = d
      /\ \A i \in 1..Len(got) : got'[i] = got[i]
      /\ DOMAIN got = 1..Len(got) /\ DOMAIN got' = 1..Len(got')
  BY <1>1
<1>3. \A n \in 0..Len(got) : \A k :
        {i \in 1..n : got'[i].msg = k} = {i \in 1..n : got[i].msg = k}
  BY <1>1, <1>2
<1>4. ASSUME NEW i \in DOMAIN got', NEW j \in DOMAIN got',
             i < j, got'[i].total > 1, got'[j].total > 1,
             got'[i].msg # got'[j].msg
      PROVE  Cardinality({k \in 1..(j - 1) : got'[k].msg = got'[i].msg})
               = got'[i].total
  BY <1>4 DEF InTurn, ReadOf
<1>5. ASSUME NEW i \in DOMAIN got, NEW j \in DOMAIN got,
             i < j, got[i].total > 1, got[j].total > 1,
             got[i].msg # got[j].msg
      PROVE  Cardinality(ReadOf(got[i].msg, j - 1)) = got[i].total
  <2>1. /\ i \in DOMAIN got' /\ j \in DOMAIN got' /\ j - 1 \in 0..Len(got)
        /\ got'[i] = got[i] /\ got'[j] = got[j]
    BY <1>1, <1>2
  <2>2. Cardinality({k \in 1..(j - 1) : got'[k].msg = got[i].msg})
          = got[i].total
    BY <1>4, <1>5, <2>1
  <2> QED
    BY <1>3, <2>1, <2>2 DEF ReadOf
<1>6. ASSUME NEW e \in Seen, e.total > 1, d.total > 1, e.msg # d.msg
      PROVE  Cardinality(Reads(e.msg)) = e.total
  <2>1. PICK i \in 1..Len(got) : got[i] = e
    BY DEF Seen
  <2>2. /\ i \in DOMAIN got' /\ Len(got) + 1 \in DOMAIN got'
        /\ i < Len(got) + 1 /\ got'[i] = e /\ got'[Len(got) + 1] = d
        /\ (Len(got) + 1) - 1 = Len(got) /\ Len(got) \in 0..Len(got)
    BY <1>1, <1>2, <2>1
  <2>3. Cardinality({k \in 1..Len(got) : got'[k].msg = e.msg}) = e.total
    BY <1>4, <1>6, <2>2
  <2> QED
    BY <1>3, <2>2, <2>3 DEF Reads, ReadOf
<1> QED
  BY <1>5, <1>6 DEF InTurn

-----------------------------------------------------------------------------
(* A datagram is read that has not been read before.                       *)
Reading(d) ==
  /\ Inv /\ Travel /\ Buffer /\ Notified
  /\ d \in Handled /\ d \notin Seen /\ got' = Append(got, d)

LEMMA ReadingFacts ==
  ASSUME NEW d, Reading(d)
  PROVE  /\ Seen' = Seen \cup {d} /\ ReceiverOK /\ ~AllRead(d.msg)
         /\ \A k : AllRead(k) => AllRead(k)'
         /\ \A e \in Seen : Shape(e) /\ e.total = Segments(MsgLen[e.msg])
         /\ Seen \subseteq Handled
<1>1. Seen' = Seen \cup {d} /\ ReceiverOK
  BY SeenGrows DEF Reading, Inv
<1>2. ~AllRead(d.msg)
  BY NotAllRead DEF Reading
<1>3. Seen \subseteq Handled
  BY DEF Handled
<1>4. \A e \in Seen : Shape(e) /\ e.total = Segments(MsgLen[e.msg])
  BY <1>3, ReadShape DEF Reading
<1>5. \A k : AllRead(k) => AllRead(k)'
  BY <1>1 DEF AllRead, Parcels
<1> QED
  BY <1>1, <1>2, <1>3, <1>4, <1>5

(* What is handed up stays handed up, and the next is another.             *)
LEMMA NoticesStay ==
  ASSUME NEW d, Reading(d), notified' = notified
  PROVE  Notified' /\ \A k : Whole(k) => Whole(k)'
<1>1. \A k : AllRead(k) => AllRead(k)'
  BY ReadingFacts
<1>2. Notified'
  BY <1>1 DEF Reading, Notified, IsWhole, HasAll, AsSent, Owner
<1>3. \A k : Whole(k) => Whole(k)'
  BY DEF Whole, IsWhole, HasAll, AsSent
<1> QED
  BY <1>2, <1>3

LEMMA NoticesGrow ==
  ASSUME NEW d, Reading(d), NEW n, NEW m \in Msgs,
         notified' = Append(notified, n),
         Owner(n) = m, IsWhole(n, m), ~AllRead(m), AllRead(m)'
  PROVE  /\ Notified' /\ Whole(m)'
         /\ \A k : Whole(k) => Whole(k)'
<1>1. notified \in Seq(Notices) /\ Len(notified) \in Nat
  BY DEF Reading, Inv, ReceiverOK
<1>2. /\ Len(notified') = Len(notified) + 1
      /\ notified'[Len(notified) + 1] = n
      /\ \A i \in 1..Len(notified) : notified'[i] = notified[i]
  BY <1>1
<1>3. 1..Len(notified') = (1..Len(notified)) \cup {Len(notified) + 1}
  BY <1>1, <1>2
<1>4. /\ \A k : AllRead(k) => AllRead(k)'
      /\ \A i \in 1..Len(notified) :
           \E k \in Msgs : /\ Owner(notified[i]) = k
                           /\ IsWhole(notified[i], k) /\ AllRead(k)
      /\ \A i, j \in 1..Len(notified) :
           Owner(notified[i]) = Owner(notified[j]) => i = j
  BY ReadingFacts DEF Reading, Notified
<1>5. \A i \in 1..Len(notified') :
        \E k \in Msgs : /\ Owner(notified'[i]) = k
                        /\ IsWhole(notified'[i], k) /\ AllRead(k)'
  BY <1>2, <1>3, <1>4
<1>6. \A i, j \in 1..Len(notified') :
        Owner(notified'[i]) = Owner(notified'[j]) => i = j
  <2>1. \A i \in 1..Len(notified) : Owner(notified[i]) # m
    BY <1>4
  <2> QED
    BY <1>2, <1>3, <1>4, <2>1
<1>7. Notified'
  BY <1>5, <1>6 DEF Notified, Owner, IsWhole, HasAll, AsSent
<1>8. Whole(m)' /\ \A k : Whole(k) => Whole(k)'
  BY <1>2, <1>3 DEF Whole, IsWhole, HasAll, AsSent
<1> QED
  BY <1>7, <1>8

(* The other messages.                                                     *)
LEMMA OthersKeep ==
  ASSUME NEW d, Reading(d), NEW S, NEW T, Others(S),
         NEW k \in Msgs \ T,
         AllRead(k)' \/ (k \notin S /\ Mine(k)' \subseteq Mine(k)),
         InTurn' => \/ Whole(k)'
                    \/ k \notin S /\ k # d.msg /\ (Whole(k) => Whole(k)')
  PROVE  /\ Mine(k)' # {} => AllRead(k)'
         /\ InTurn' /\ Reads(k)' # {} => Whole(k)'
<1>1. /\ AllRead(k) => AllRead(k)'
      /\ ReceiverOK /\ got' = Append(got, d)
  BY ReadingFacts DEF Reading
<1>2. /\ InTurn' => InTurn
      /\ d.msg # k => Reads(k)' = Reads(k)
  BY <1>1, TurnsSoFar, ReadsGrow
<1>3. k \notin S => /\ Mine(k) # {} => AllRead(k)
                    /\ InTurn /\ Reads(k) # {} => Whole(k)
  BY DEF Others
<1> QED
  BY <1>1, <1>2, <1>3

LEMMA BufferStays ==
  ASSUME NEW d, Reading(d), fullMsg' = fullMsg
  PROVE  Buffer' /\ \A m : Mine(m)' = Mine(m)
  BY ReadingFacts DEF Reading, Buffer, Mine, Kept

LEMMA BufferAdds ==
  ASSUME NEW d, Reading(d), d.total > 1,
         fullMsg'.buf = [fullMsg.buf EXCEPT ![d.segm] = d]
  PROVE  /\ Buffer' /\ d.segm \in Slots
         /\ Mine(d.msg)' = Mine(d.msg) \cup {d.segm}
         /\ d.segm \notin Mine(d.msg)
         /\ fullMsg'.buf[d.segm] = d
         /\ \A s \in Slots : s # d.segm => fullMsg'.buf[s] = fullMsg.buf[s]
         /\ \A k : k # d.msg => Mine(k)' \subseteq Mine(k)
<1>1. /\ Seen' = Seen \cup {d} /\ ReceiverOK /\ Seen \subseteq Handled
      /\ d \notin Seen
  BY ReadingFacts DEF Reading
<1>2. d \in Datagrams /\ d.segm \in Slots
  BY ReadShape DEF Reading, Datagrams, Slots
<1>3. d # NoDatagram
  BY <1>2, NothingIsNoDatagram
<1>4. DOMAIN fullMsg.buf = Slots
  BY <1>1 DEF ReceiverOK, Parts, Buffers, Slots
<1>5. /\ fullMsg'.buf[d.segm] = d
      /\ \A s \in Slots : s # d.segm => fullMsg'.buf[s] = fullMsg.buf[s]
  BY <1>2, <1>4
<1>6. Buffer'
  BY <1>1, <1>2, <1>5 DEF Reading, Buffer, Kept
<1>7. d.segm \notin Mine(d.msg)
  <2> SUFFICES ASSUME d.segm \in Mine(d.msg) PROVE FALSE
    OBVIOUS
  <2>1. /\ fullMsg.buf[d.segm] \in Seen
        /\ fullMsg.buf[d.segm].msg = d.msg
        /\ fullMsg.buf[d.segm].segm = d.segm
    BY DEF Mine, Reading, Buffer
  <2>2. fullMsg.buf[d.segm] = d
    BY <1>1, <2>1, SameDatagram DEF Reading
  <2> QED
    BY <1>1, <2>1, <2>2
<1>8. Mine(d.msg)' = Mine(d.msg) \cup {d.segm}
  BY <1>2, <1>3, <1>5 DEF Mine, Kept
<1>9. \A k : k # d.msg => Mine(k)' \subseteq Mine(k)
  BY <1>2, <1>5 DEF Mine, Kept
<1> QED
  BY <1>2, <1>5, <1>6, <1>7, <1>8, <1>9

-----------------------------------------------------------------------------
(* Of the message in hand a segment has been read, but not all have.       *)
LEMMA InHand ==
  ASSUME NEW d, Reading(d), NEW m \in Msgs, Begun(m)
  PROVE  /\ \E e \in Seen : e.msg = m /\ e.total > 1 /\ e.ref = fullMsg.ref
         /\ Segments(MsgLen[m]) \in 2..MaxSegm
         /\ fullMsg.count > 0 /\ fullMsg.count \in Int
<1>1. /\ fullMsg.count > 0 /\ fullMsg.count \in Int
  BY SegmentsAssumption DEF Begun, Reading, Inv, ReceiverOK, Parts
<1>2. PICK s \in Mine(m) : TRUE
  BY DEF Begun
<1> DEFINE e == fullMsg.buf[s]
<1>3. e \in Seen /\ e.msg = m /\ e.total > 1 /\ e.ref = fullMsg.ref
  BY DEF Reading, Buffer, Mine, Begun
<1> QED
  BY <1>1, <1>3 DEF Begun

(* With its reference number comes a segment of the message in hand; one   *)
(* with another breaks into it.                                            *)
LEMMA RightMessage ==
  ASSUME NEW d, Reading(d), NEW m \in Msgs, Begun(m), d.total > 1
  PROVE  /\ d.ref = fullMsg.ref /\ (RefsDiffer \/ InTurn') => d.msg = m
         /\ d.ref # fullMsg.ref => d.msg # m
         /\ d.msg # m => ~InTurn'
<1>1. PICK e \in Seen : e.msg = m /\ e.total > 1 /\ e.ref = fullMsg.ref
  BY InHand
<1>2. e \in Around /\ d \in Around
  BY ReadingFacts DEF Reading, Around
<1>3. d.ref # fullMsg.ref => d.msg # m
  BY <1>1, <1>2 DEF Reading, Travel, OneRef
<1>4. d.msg # m => ~InTurn'
  <2> SUFFICES ASSUME d.msg # m, InTurn' PROVE FALSE
    OBVIOUS
  <2>1. InTurn /\ Cardinality(Reads(m)) = e.total
    BY <1>1, TurnsSoFar DEF Reading, Inv
  <2>2. e.total = Segments(MsgLen[m])
    BY <1>1, ReadingFacts
  <2>3. Cardinality(Reads(m)) = Segments(MsgLen[m]) - fullMsg.count
    BY <2>1 DEF Begun
  <2> QED
    BY <2>1, <2>2, <2>3, InHand
<1>5. ASSUME d.ref = fullMsg.ref, RefsDiffer PROVE d.msg = m
  BY <1>1, <1>2, <1>5 DEF Reading, Travel, OwnRef
<1> QED
  BY <1>3, <1>4, <1>5

(* The message of one datagram.                                            *)
LEMMA ReadSingle ==
  ASSUME NEW d, Reading(d), d.total = 1, NEW len, NEW type,
         len = d.len, type = MsgType[d.msg],
         NEW n, n = Message([buf |-> [NoMessage.buf EXCEPT ![0] = d],
                             len |-> len], type),
         notified' = Append(notified, n), fullMsg' = fullMsg,
         Closed \/ \E m \in Msgs : Open(m)
  PROVE  Buffer' /\ Notified' /\ (Closed' \/ \E m \in Msgs : Open(m)')
<1>1. got' = Append(got, d)
  BY DEF Reading
<1>2. /\ d \in Datagrams /\ d.msg \in Msgs /\ Segments(MsgLen[d.msg]) = 1
      /\ d = Single(d.msg)
  BY ReadShape DEF Reading, Shape
<1>3. /\ d.len = MsgLen[d.msg] /\ d.segm = 0
  BY <1>2 DEF Single
<1>4. n.len = MsgLen[d.msg] /\ n.type = MsgType[d.msg] /\ n.buf[0] = d
  BY <1>3, SegmentsAssumption DEF Message, NoMessage
<1>5. Owner(n) = d.msg /\ IsWhole(n, d.msg)
  BY <1>2, <1>3, <1>4 DEF Owner, IsWhole, HasAll, AsSent
<1>6. ~AllRead(d.msg) /\ Seen' = Seen \cup {d} /\ ReceiverOK
  BY ReadingFacts
<1>7. AllRead(d.msg)'
  BY <1>2, <1>3, <1>6 DEF AllRead, Parcels
<1>8. Notified' /\ Whole(d.msg)' /\ \A k : Whole(k) => Whole(k)'
  BY <1>1, <1>2, <1>5, <1>6, <1>7, NoticesGrow
<1>9. Buffer' /\ \A k : Mine(k)' = Mine(k)
  BY <1>1, BufferStays
<1>10. ASSUME NEW S, Others(S) PROVE Others(S)'
  <2>1. ASSUME NEW k \in Msgs \ S
        PROVE  /\ Mine(k)' # {} => AllRead(k)'
               /\ InTurn' /\ Reads(k)' # {} => Whole(k)'
    BY <1>7, <1>8, <1>9, <1>10, OthersKeep
  <2> QED
    BY <2>1 DEF Others
<1>11. ASSUME NEW m \in Msgs, Open(m) PROVE Open(m)'
  <2>1. Begun(m) /\ Others({m})
    BY <1>11 DEF Open
  <2>2. m # d.msg
    BY <1>2, <2>1, InHand
  <2>3. Reads(m)' = Reads(m) /\ (InTurn' => InTurn)
    BY <1>1, <1>6, <2>2, ReadsGrow, TurnsSoFar
  <2>4. Begun(m)'
    BY <1>1, <1>9, <2>1, <2>3 DEF Begun
  <2> QED
    BY <1>10, <2>1, <2>4 DEF Open
<1>12. Closed => Closed'
  BY <1>1, <1>10 DEF Closed
<1> QED
  BY <1>8, <1>9, <1>11, <1>12

(* A segment of another message than the one in hand is dropped.           *)
LEMMA ReadDropped ==
  ASSUME NEW d, Reading(d), d.total > 1, got' = Append(got, d),
         fullMsg' = fullMsg, notified' = notified,
         NEW m \in Msgs, Open(m), d.ref # fullMsg.ref
  PROVE  Buffer' /\ Notified' /\ Open(m)'
<1>1. ~InTurn' /\ Begun(m) /\ Others({m})
  BY RightMessage DEF Open
<1>2. Buffer' /\ \A k : Mine(k)' = Mine(k)
  BY BufferStays
<1>3. Notified' /\ \A k : Whole(k) => Whole(k)'
  BY NoticesStay
<1>4. Begun(m)'
  BY <1>1, <1>2 DEF Begun
<1>5. Others({m})'
  <2>1. \A k : AllRead(k) => AllRead(k)'
    BY ReadingFacts
  <2> QED
    BY <1>1, <1>2, <2>1 DEF Others
<1> QED
  BY <1>2, <1>3, <1>4, <1>5 DEF Open

-----------------------------------------------------------------------------
(* A segment adds its length.                                              *)
LEMMA LenGrows ==
  ASSUME NEW m \in Msgs, NEW S, NEW k \in Nat, NEW s \in Parcels(m), s \notin S,
         Segments(MsgLen[m]) \in 2..MaxSegm
  PROVE  LenOf(m, S \cup {s}, k + 1) = LenOf(m, S, k) + ShareOf(MsgLen[m], s)
<1> DEFINE last == Segments(MsgLen[m]) - 1
           share == ShareOf(MsgLen[m], last)
<1>1. /\ MsgLen[m] \in Nat /\ s \in Nat /\ s <= last /\ last \in Nat
  BY SegmentsAssumption DEF Parcels
<1>2. s # last => ShareOf(MsgLen[m], s) = SegmPayload
  BY <1>1, FullShare
<1>3. share \in Int
  <2>1. last * SegmPayload \in Int
    BY <1>1, SegmentsAssumption
  <2> QED
    BY <1>1, <2>1, SegmentsAssumption DEF ShareOf
<1>4. /\ SegmPayload * (k + 1) = SegmPayload * k + SegmPayload
      /\ SegmPayload * (k - 1) = SegmPayload * k - SegmPayload
      /\ SegmPayload * k \in Int /\ SegmPayload \in Int
      /\ (k + 1) - 1 = k
  BY SegmentsAssumption
<1>5. \A T, j : LenOf(m, T, j) =
        IF last \in T THEN SegmPayload * (j - 1) + share ELSE SegmPayload * j
  BY DEF LenOf
<1> HIDE DEF last, share
<1>6. CASE s = last
  <2>1. LenOf(m, S \cup {s}, k + 1) = SegmPayload * k + share
    BY <1>4, <1>5, <1>6
  <2>2. LenOf(m, S, k) = SegmPayload * k
    BY <1>5, <1>6
  <2> QED
    BY <1>6, <2>1, <2>2 DEF share
<1>7. CASE s # last /\ last \in S
  <2>1. LenOf(m, S \cup {s}, k + 1) = SegmPayload * k + share
    BY <1>4, <1>5, <1>7
  <2>2. LenOf(m, S, k) = SegmPayload * (k - 1) + share
    BY <1>5, <1>7
  <2> QED
    BY <1>2, <1>3, <1>4, <1>7, <2>1, <2>2
<1>8. CASE s # last /\ last \notin S
  <2>1. LenOf(m, S \cup {s}, k + 1) = SegmPayload * (k + 1)
    BY <1>5, <1>8
  <2>2. LenOf(m, S, k) = SegmPayload * k
    BY <1>5, <1>8
  <2> QED
    BY <1>2, <1>4, <1>8, <2>1, <2>2
<1> QED
  BY <1>6, <1>7, <1>8

(* A message that has been handed up has been read in all.                 *)
LEMMA WholeIsRead ==
  ASSUME Notified, NEW m \in Msgs, Whole(m)
  PROVE  AllRead(m)
<1>1. PICK i \in 1..Len(notified) : IsWhole(notified[i], m)
  BY DEF Whole
<1>2. PICK k \in Msgs : Owner(notified[i]) = k /\ AllRead(k)
  BY DEF Notified
<1>3. 0 \in 0..(Segments(MsgLen[m]) - 1)
  <2>1. MsgLen[m] \in Nat
    BY SegmentsAssumption
  <2>2. Segments(MsgLen[m]) \in Nat \ {0}
    BY <2>1, SegmentsPositive
  <2> QED
    BY <2>2
<1>4. Owner(notified[i]) = m
  BY <1>1, <1>3 DEF IsWhole, HasAll, Owner
<1> QED
  BY <1>2, <1>4

(* The first segment of a message opens it.                                *)
LEMMA ReadFirst ==
  ASSUME NEW d, Reading(d), d.total > 1, notified' = notified, Closed,
         NEW len, LenKept(d, len),
         fullMsg' = [ref |-> d.ref, count |-> d.total - 1, len |-> len,
                     buf |-> [fullMsg.buf EXCEPT ![d.segm] = d]]
  PROVE  Buffer' /\ Notified' /\ Open(d.msg)'
<1> DEFINE m == d.msg
           n == Segments(MsgLen[d.msg])
<1>1. /\ d \in Datagrams /\ m \in Msgs /\ d.total = n /\ d.total \in 1..MaxSegm
      /\ d.segm \in Parcels(m) /\ d.len = ShareOf(MsgLen[m], d.segm)
      /\ got' = Append(got, d)
  BY ReadShape DEF Reading, Shape
<1>2. /\ ReceiverOK /\ ~AllRead(m)
      /\ \A k : AllRead(k) => AllRead(k)'
  BY ReadingFacts
<1>3. fullMsg'.buf = [fullMsg.buf EXCEPT ![d.segm] = d]
  OBVIOUS
<1>4. /\ Buffer' /\ d.segm \in Slots
      /\ Mine(m)' = Mine(m) \cup {d.segm}
      /\ fullMsg'.buf[d.segm] = d
      /\ \A k : k # m => Mine(k)' \subseteq Mine(k)
  BY <1>3, BufferAdds
<1>5. Notified' /\ \A k : Whole(k) => Whole(k)'
  BY NoticesStay
<1>6. Mine(m) = {} /\ (InTurn => Reads(m) = {})
  <2>1. /\ Mine(m) # {} => AllRead(m)
        /\ InTurn /\ Reads(m) # {} => Whole(m)
    BY <1>1 DEF Closed, Others
  <2> QED
    BY <1>1, <1>2, <2>1, WholeIsRead DEF Reading
<1>7. Begun(m)'
  <2>1. n \in 2..MaxSegm /\ d.ref # -1
    BY <1>1, SegmentsAssumption DEF Datagrams
  <2>2. Mine(m)' = {d.segm} /\ Cardinality(Mine(m)') = 1
    <3>1. Mine(m)' = {d.segm}
      BY <1>4, <1>6
    <3> QED
      BY <3>1, FS_Singleton
  <2>3. InTurn' => Cardinality(Reads(m)') = 1
    <3> SUFFICES ASSUME InTurn' PROVE Cardinality(Reads(m)') = 1
      OBVIOUS
    <3>1. Reads(m)' = {Len(got) + 1}
      BY <1>1, <1>2, <1>6, TurnsSoFar, ReadsGrow
    <3> QED
      BY <3>1, FS_Singleton
  <2>4. LenRight(m, len, {d.segm}, 1)
    <3>1. LenOf(m, {} \cup {d.segm}, 0 + 1)
            = LenOf(m, {}, 0) + ShareOf(MsgLen[m], d.segm)
      <4>1. 0 \in Nat /\ d.segm \notin {}
        OBVIOUS
      <4>2. /\ d.msg \in Msgs /\ d.segm \in Parcels(d.msg)
            /\ Segments(MsgLen[d.msg]) \in 2..MaxSegm
        BY <1>1, <2>1
      <4> QED
        BY <4>1, <4>2, LenGrows
    <3>2. LenOf(m, {}, 0) = 0
      BY SegmentsAssumption DEF LenOf
    <3>3. d.len \in Nat /\ {} \cup {d.segm} = {d.segm} /\ 0 + 1 = 1
      BY <1>1 DEF Datagrams
    <3> QED
      BY <1>1, <3>1, <3>2, <3>3 DEF LenKept, LenRight
  <2>5. /\ fullMsg'.ref = d.ref /\ fullMsg'.len = len
        /\ n - fullMsg'.count = 1
    BY <1>1, <2>1
  <2> QED
    BY <1>4, <2>1, <2>2, <2>3, <2>4, <2>5 DEF Begun
<1>8. Others({m})'
  <2>1. ASSUME NEW k \in Msgs \ {m}
        PROVE  /\ Mine(k)' # {} => AllRead(k)'
               /\ InTurn' /\ Reads(k)' # {} => Whole(k)'
    BY <1>4, <1>5, OthersKeep DEF Closed
  <2> QED
    BY <2>1 DEF Others
<1> QED
  BY <1>4, <1>5, <1>7, <1>8 DEF Open

(* A set with one more element.                                            *)
LEMMA AddOne ==
  ASSUME NEW S, NEW x, NEW n, IsFiniteSet(S), Cardinality(S) = n, x \notin S
  PROVE  Cardinality(S \cup {x}) = n + 1
<1>1. Cardinality(S \cup {x}) = IF x \in S THEN Cardinality(S)
                                ELSE Cardinality(S) + 1
  BY FS_AddElement
<1> QED
  BY <1>1

(* The next segment of the message in hand is one more of it.              *)
LEMMA OneMore ==
  ASSUME NEW d, Reading(d), d.total > 1, NEW m \in Msgs, Begun(m), d.msg = m,
         fullMsg'.buf = [fullMsg.buf EXCEPT ![d.segm] = d],
         NEW len, LenKept(d, len),
         NEW k \in Nat, k = Segments(MsgLen[m]) - fullMsg.count
  PROVE  /\ Cardinality(Mine(m)') = k + 1 /\ Mine(m)' # {}
         /\ Mine(m)' \subseteq Parcels(m)
         /\ InTurn' => Cardinality(Reads(m)') = k + 1
         /\ LenRight(m, fullMsg.len + len, Mine(m)', k + 1)
         /\ \A s \in Mine(m)' : /\ fullMsg'.buf[s] \in Seen'
                                /\ fullMsg'.buf[s].msg = m
                                /\ fullMsg'.buf[s].segm = s
<1>1. /\ d \in Datagrams /\ got' = Append(got, d)
      /\ d.segm \in Parcels(m) /\ d.len = ShareOf(MsgLen[m], d.segm)
  BY ReadShape DEF Reading, Shape
<1>2. /\ Buffer' /\ d.segm \in Slots
      /\ Mine(m)' = Mine(m) \cup {d.segm} /\ d.segm \notin Mine(m)
  BY BufferAdds
<1>3. ReceiverOK /\ \A e \in Seen' : e.segm \in Parcels(e.msg)
  <2>1. Seen' \subseteq Handled /\ ReceiverOK
    BY ReadingFacts DEF Reading
  <2> QED
    BY <2>1, ReadShape DEF Reading
<1>4. Cardinality(Mine(m)') = k + 1
  <2>1. IsFiniteSet(Mine(m)) /\ Cardinality(Mine(m)) = k
    BY <1>3, FiniteParts DEF Begun
  <2>2. Cardinality(Mine(m) \cup {d.segm}) = k + 1
    BY <1>2, <2>1, AddOne
  <2> QED
    BY <1>2, <2>2
<1>5. InTurn' => Cardinality(Reads(m)') = k + 1
  <2> SUFFICES ASSUME InTurn' PROVE Cardinality(Reads(m)') = k + 1
    OBVIOUS
  <2>1. InTurn /\ Cardinality(Reads(m)) = k
    BY <1>1, <1>3, TurnsSoFar DEF Begun
  <2>2. Reads(m)' = Reads(m) \cup {Len(got) + 1} /\ Len(got) + 1 \notin Reads(m)
    BY <1>1, <1>3, ReadsGrow
  <2>3. IsFiniteSet(Reads(m))
    BY <1>3, FiniteParts
  <2>4. Cardinality(Reads(m) \cup {Len(got) + 1}) = k + 1
    BY <2>1, <2>2, <2>3, AddOne
  <2> QED
    BY <2>2, <2>4
<1>6. LenRight(m, fullMsg.len + len, Mine(m)', k + 1)
  BY <1>1, <1>2, LenGrows DEF Begun, LenKept, LenRight
<1>7. \A s \in Mine(m)' : /\ fullMsg'.buf[s] \in Seen'
                          /\ fullMsg'.buf[s].msg = m
                          /\ fullMsg'.buf[s].segm = s
  BY <1>2 DEF Buffer, Mine
<1>8. Mine(m)' \subseteq Parcels(m)
  BY <1>3, <1>7
<1> QED
  BY <1>2, <1>4, <1>5, <1>6, <1>7, <1>8

LEMMA ReadNext ==
  ASSUME NEW d, Reading(d), d.total > 1, NEW m \in Msgs, Open(m), d.msg = m,
         notified' = notified, fullMsg.count # 1,
         NEW len, LenKept(d, len),
         d.ref = fullMsg.ref, fullMsg'.ref = fullMsg.ref,
         fullMsg'.count = fullMsg.count - 1,
         fullMsg'.len = fullMsg.len + len,
         fullMsg'.buf = [fullMsg.buf EXCEPT ![d.segm] = d]
  PROVE  Buffer' /\ Notified' /\ Open(m)'
<1> DEFINE k == Segments(MsgLen[m]) - fullMsg.count
<1>1. ReceiverOK /\ Begun(m) /\ Others({m})
  BY DEF Reading, Inv, Open
<1>2. fullMsg'.buf = [fullMsg.buf EXCEPT ![d.segm] = d]
  OBVIOUS
<1>3. Segments(MsgLen[m]) \in 2..MaxSegm /\ fullMsg.count \in Int
  BY <1>1, InHand
<1>4. k \in Nat /\ Segments(MsgLen[m]) - fullMsg'.count = k + 1
  <2>1. k = Cardinality(Mine(m)) /\ Cardinality(Mine(m)) \in Nat
    BY <1>1, FiniteParts DEF Begun
  <2> QED
    BY <1>2, <1>3, <2>1, SegmentsAssumption
<1>5. /\ Buffer' /\ Mine(m)' = Mine(m) \cup {d.segm}
      /\ fullMsg'.buf[d.segm] = d
      /\ \A s \in Slots : s # d.segm => fullMsg'.buf[s] = fullMsg.buf[s]
      /\ \A j : j # m => Mine(j)' \subseteq Mine(j)
  BY <1>2, BufferAdds
<1>6. Notified' /\ \A j : Whole(j) => Whole(j)'
  BY NoticesStay
<1>7. Begun(m)'
  <2>1. /\ Cardinality(Mine(m)') = k + 1 /\ Mine(m)' # {}
        /\ InTurn' => Cardinality(Reads(m)') = k + 1
        /\ LenRight(m, fullMsg.len + len, Mine(m)', k + 1)
    <3> HIDE DEF k
    <3>1. k = Segments(MsgLen[m]) - fullMsg.count
      BY DEF k
    <3> QED
      BY <1>1, <1>2, <1>4, <3>1, OneMore
  <2>2. \A s \in Mine(m)' : fullMsg'.buf[s].ref = fullMsg'.ref
    <3> TAKE s \in Mine(m)'
    <3>1. CASE s = d.segm
      BY <1>2, <1>5, <3>1
    <3>2. CASE s # d.segm
      BY <1>1, <1>2, <1>5, <3>2 DEF Begun, Mine
    <3> QED
      BY <3>1, <3>2
  <2> HIDE DEF k
  <2> QED
    BY <1>1, <1>2, <1>3, <1>4, <2>1, <2>2 DEF Begun
<1>8. Others({m})'
  <2>1. ASSUME NEW j \in Msgs \ {m}
        PROVE  /\ Mine(j)' # {} => AllRead(j)'
               /\ InTurn' /\ Reads(j)' # {} => Whole(j)'
    BY <1>1, <1>5, <1>6, OthersKeep
  <2> QED
    BY <2>1 DEF Others
<1> QED
  BY <1>5, <1>6, <1>7, <1>8 DEF Open

LEMMA LastOne ==
  ASSUME NEW d, Reading(d), d.total > 1, NEW m \in Msgs, Begun(m), d.msg = m,
         fullMsg'.buf = [fullMsg.buf EXCEPT ![d.segm] = d],
         NEW len, LenKept(d, len), fullMsg.count = 1
  PROVE  /\ Cardinality(Mine(m)') = Segments(MsgLen[m])
         /\ Mine(m)' \subseteq Parcels(m)
         /\ LenRight(m, fullMsg.len + len, Mine(m)', Segments(MsgLen[m]))
         /\ \A s \in Mine(m)' : /\ fullMsg'.buf[s] \in Seen'
                                /\ fullMsg'.buf[s].msg = m
                                /\ fullMsg'.buf[s].segm = s
<1>1. Segments(MsgLen[m]) \in 2..MaxSegm
  BY InHand
<1>2. PICK k \in Nat : k = Segments(MsgLen[m]) - fullMsg.count
  BY <1>1, SegmentsAssumption
<1>3. k + 1 = Segments(MsgLen[m])
  BY <1>1, <1>2, SegmentsAssumption
<1>4. /\ Cardinality(Mine(m)') = k + 1 /\ Mine(m)' # {}
      /\ Mine(m)' \subseteq Parcels(m)
      /\ InTurn' => Cardinality(Reads(m)') = k + 1
      /\ LenRight(m, fullMsg.len + len, Mine(m)', k + 1)
      /\ \A s \in Mine(m)' : /\ fullMsg'.buf[s] \in Seen'
                             /\ fullMsg'.buf[s].msg = m
                             /\ fullMsg'.buf[s].segm = s
  BY <1>2, OneMore
<1> QED
  BY <1>3, <1>4

(* The last segment read of the message in hand closes it: all places are  *)
(* taken, and the lengths make up the message.                             *)
LEMMA ReadLast ==
  ASSUME NEW d, Reading(d), d.total > 1, NEW m \in Msgs, Open(m), d.msg = m,
         fullMsg.count = 1, fullMsg'.ref = -1,
         fullMsg'.buf = [fullMsg.buf EXCEPT ![d.segm] = d],
         NEW len, LenKept(d, len),
         NEW type, TypeKept(m) => type = MsgType[m],
         NEW f, f.buf = fullMsg'.buf, f.len = fullMsg.len + len,
         notified' = Append(notified, Message(f, type))
  PROVE  Buffer' /\ Notified' /\ Closed'
<1> DEFINE n == Segments(MsgLen[m])
<1>1. /\ ReceiverOK /\ Begun(m) /\ Others({m}) /\ ~AllRead(m)
  BY ReadingFacts DEF Open
<1>2. n \in 2..MaxSegm /\ n - 1 \in Nat /\ MsgLen[m] \in Nat
  BY <1>1, InHand, SegmentsAssumption
<1>3. /\ Buffer'
      /\ \A j : j # m => Mine(j)' \subseteq Mine(j)
  BY BufferAdds
<1>4. /\ Cardinality(Mine(m)') = n /\ Mine(m)' \subseteq Parcels(m)
      /\ LenRight(m, f.len, Mine(m)', n)
      /\ \A s \in Mine(m)' : /\ f.buf[s] \in Seen'
                             /\ f.buf[s].msg = m /\ f.buf[s].segm = s
  <2>1. /\ Cardinality(Mine(m)') = Segments(MsgLen[m])
        /\ Mine(m)' \subseteq Parcels(m)
        /\ LenRight(m, fullMsg.len + len, Mine(m)', Segments(MsgLen[m]))
        /\ \A s \in Mine(m)' : /\ fullMsg'.buf[s] \in Seen'
                               /\ fullMsg'.buf[s].msg = m
                               /\ fullMsg'.buf[s].segm = s
    BY <1>1, LastOne
  <2> QED
    BY <2>1
<1>5. Mine(m)' = Parcels(m)
  <2>1. IsFiniteSet(Parcels(m)) /\ Cardinality(Parcels(m)) = n
    <3>1. Parcels(m) = 0..(n - 1)
      BY DEF Parcels
    <3> HIDE DEF n
    <3>2. 0 \in Int /\ n - 1 \in Int /\ ~(0 > n - 1) /\ n - 1 - 0 + 1 = n
      BY <1>2
    <3> QED
      BY <3>1, <3>2, FS_Interval
  <2>2. PICK S : S = Mine(m)'
    OBVIOUS
  <2>3. S = Parcels(m)
    BY <1>4, <2>1, <2>2, FS_Subset
  <2> QED
    BY <2>2, <2>3
<1>6. TypeKept(m) => f.len = MsgLen[m]
  <2>1. n - 1 \in Mine(m)'
    BY <1>2, <1>5 DEF Parcels
  <2>2. TypeKept(m) =>
          f.len = SegmPayload * (n - 1) + ShareOf(MsgLen[m], n - 1)
    BY <1>4, <2>1 DEF LenRight, LenOf
  <2> QED
    BY <1>2, <2>2, LastShare
<1>7. /\ IsWhole(Message(f, type), m) /\ AllRead(m)' /\ Owner(Message(f, type)) = m
  <2>1. \A s \in Parcels(m) : /\ f.buf[s] \in Seen'
                              /\ f.buf[s].msg = m /\ f.buf[s].segm = s
    BY <1>4, <1>5
  <2>2. /\ Message(f, type).len = f.len /\ Message(f, type).buf = f.buf
        /\ Message(f, type).type = type
    BY DEF Message
  <2>3. 0 \in Parcels(m)
    BY <1>2 DEF Parcels
  <2>4. AllRead(m)'
    BY <2>1 DEF AllRead, Parcels
  <2> QED
    BY <1>6, <2>1, <2>2, <2>3, <2>4 DEF IsWhole, HasAll, AsSent, Owner, Parcels
<1>8. Notified' /\ Whole(m)' /\ \A j : Whole(j) => Whole(j)'
  BY <1>1, <1>7, NoticesGrow
<1>9. Others({})'
  <2>1. ASSUME NEW j \in Msgs \ {}
        PROVE  /\ Mine(j)' # {} => AllRead(j)'
               /\ InTurn' /\ Reads(j)' # {} => Whole(j)'
    <3>1. AllRead(j)' \/ (j \notin {m} /\ Mine(j)' \subseteq Mine(j))
      BY <1>3, <1>7
    <3>2. \/ Whole(j)'
          \/ j \notin {m} /\ j # d.msg /\ (Whole(j) => Whole(j)')
      BY <1>8
    <3> QED
      BY <1>1, <3>1, <3>2, OthersKeep
  <2> QED
    BY <2>1 DEF Others
<1> QED
  BY <1>3, <1>8, <1>9 DEF Closed

(* Whatever is read, nothing is mixed up.                                  *)
LEMMA ReadReceives ==
  ASSUME NEW d, Reading(d), NEW decoded, DecodeAndNotify(d, decoded),
         RefsDiffer \/ InTurn',
         Closed \/ \E m \in Msgs : Open(m)
  PROVE  Buffer' /\ Notified' /\ (Closed' \/ \E m \in Msgs : Open(m)')
<1> DEFINE len == DecodedLen(d, decoded)
           type == DecodedType(d, decoded)
<1>1. /\ d.total \in 1..MaxSegm /\ d.msg \in Msgs /\ d \in Datagrams
      /\ fullMsg \in Parts /\ got' = Append(got, d)
  BY ReadShape DEF Reading, Inv, ReceiverOK
<1>4. /\ len \in Nat
      /\ d.total = 1 \/ TypeKept(d.msg) =>
           len = d.len /\ type = MsgType[d.msg]
      /\ LenKept(d, len)
  <2>1. d.total = 1 => ~(d.total > 1)
    OBVIOUS
  <2> QED
    BY <1>1, <2>1, DecodedIsLen, DecodedAsSent DEF Reading, LenKept
<1>2. CASE d.total = 1
  <2>1. /\ notified' = Append(notified,
                      Message([buf |-> [NoMessage.buf EXCEPT ![0] = d],
                               len |-> len], type))
        /\ fullMsg' = fullMsg
    BY <1>2 DEF DecodeAndNotify
  <2> HIDE DEF len, type
  <2> QED
    BY <1>2, <1>4, <2>1, ReadSingle
<1>3. CASE d.total # 1
  <2> DEFINE f == AddSegment(d, len)
  <2>1. /\ d.total > 1 /\ d.total - 1 # 0
        /\ \/ /\ f.count = 0
              /\ notified' = Append(notified, Message(f, type))
              /\ fullMsg' = SegmentInit(f)
           \/ f.count # 0 /\ fullMsg' = f /\ notified' = notified
    BY <1>1, <1>3, SegmentsAssumption DEF DecodeAndNotify
  <2> HIDE DEF len, type
  <2>2. CASE Closed
    <3>1. f = [ref |-> d.ref, count |-> d.total - 1, len |-> len,
               buf |-> [fullMsg.buf EXCEPT ![d.segm] = d]]
      BY <2>2 DEF AddSegment, Closed
    <3>2. fullMsg' = f /\ notified' = notified
      BY <2>1, <3>1
    <3>3. Buffer' /\ Notified' /\ Open(d.msg)'
      BY <1>4, <2>1, <2>2, <3>1, <3>2, ReadFirst
    <3> QED
      BY <1>1, <3>3
  <2>3. ASSUME NEW m \in Msgs, Open(m)
        PROVE  Buffer' /\ Notified' /\ (Closed' \/ Open(m)')
    <3>1. Begun(m) /\ fullMsg.ref # -1 /\ fullMsg.count > 0
          /\ fullMsg.count \in Int
      BY <2>3, InHand DEF Open, Begun
    <3>2. CASE d.ref # fullMsg.ref
      <4>1. f = fullMsg
        BY <3>1, <3>2 DEF AddSegment
      <4>2. fullMsg' = fullMsg /\ notified' = notified
        BY <2>1, <3>1, <4>1
      <4> QED
        BY <1>1, <2>1, <2>3, <3>2, <4>2, ReadDropped
    <3>3. CASE d.ref = fullMsg.ref
      <4>1. d.msg = m
        BY <2>1, <3>1, <3>3, RightMessage
      <4>2. f = [fullMsg EXCEPT !.count = @ - 1, !.len = @ + len,
                                !.buf = [@ EXCEPT ![d.segm] = d]]
        BY <3>1, <3>3 DEF AddSegment
      <4>3. /\ f.count = fullMsg.count - 1 /\ f.len = fullMsg.len + len
            /\ f.buf = [fullMsg.buf EXCEPT ![d.segm] = d]
            /\ f.ref = fullMsg.ref
        BY <1>1, <4>2 DEF Parts
      <4>4. CASE fullMsg.count # 1
        <5>1. f.count # 0
          BY <3>1, <4>3, <4>4
        <5>2. fullMsg' = f /\ notified' = notified
          BY <2>1, <5>1
        <5> HIDE DEF f
        <5> QED
          BY <1>4, <2>1, <2>3, <3>3, <4>1, <4>3, <4>4, <5>2, ReadNext
      <4>5. CASE fullMsg.count = 1
        <5>1. f.count = 0
          BY <4>3, <4>5
        <5>2. /\ notified' = Append(notified, Message(f, type))
              /\ fullMsg' = SegmentInit(f)
          BY <2>1, <5>1
        <5>3. f \in Parts
          BY <1>1, <1>4, <2>1, AddSegmentType DEF Reading, Inv
        <5> HIDE DEF f
        <5>4. fullMsg'.ref = -1 /\ fullMsg'.buf = f.buf
          BY <5>2, <5>3 DEF SegmentInit, Parts
        <5>5. fullMsg'.buf = [fullMsg.buf EXCEPT ![d.segm] = d]
          BY <4>3, <5>4
        <5> QED
          BY <1>4, <2>1, <2>3, <4>1, <4>3, <4>5, <5>2, <5>4, <5>5, ReadLast
      <4> QED
        BY <4>4, <4>5
    <3> QED
      BY <3>2, <3>3
  <2> QED
    BY <2>2, <2>3
<1> QED
  BY <1>2, <1>3

(* Steps that read nothing.                                                *)
LEMMA ReceivedStays ==
  ASSUME Received, UNCHANGED receiverVars, ~overrun' => ~overrun,
         RefsDiffer' => RefsDiffer
  PROVE  Received'
<1> SUFFICES ASSUME ~overrun', RefsDiffer' \/ InTurn'
             PROVE  /\ Buffer' /\ Notified'
                    /\ Closed' \/ \E m \in Msgs : Open(m)'
  BY DEF Received
<1>1. fullMsg' = fullMsg /\ got' = got /\ notified' = notified
  BY DEF receiverVars
<1>2. InTurn' = InTurn /\ Seen' = Seen
  BY <1>1 DEF InTurn, ReadOf, Seen
<1>3. /\ \A k : Mine(k)' = Mine(k)
      /\ \A k : AllRead(k)' = AllRead(k)
      /\ \A k : Reads(k)' = Reads(k)
      /\ \A k : Whole(k)' = Whole(k)
  BY <1>1, <1>2 DEF Mine, Kept, AllRead, Reads, ReadOf, Whole
<1>4. Buffer /\ Notified /\ (Closed \/ \E m \in Msgs : Open(m))
  BY <1>2 DEF Received
<1>5. Buffer' /\ Notified'
  BY <1>1, <1>2, <1>3, <1>4 DEF Buffer, Kept, Notified
<1>6. \A S : Others(S) => Others(S)'
  BY <1>2, <1>3 DEF Others
<1>7. \A m \in Msgs : Open(m) => Open(m)'
  BY <1>1, <1>2, <1>3, <1>6 DEF Open, Begun
<1>8. Closed => Closed'
  BY <1>1, <1>6 DEF Closed
<1> QED
  BY <1>4, <1>5, <1>7, <1>8

LEMMA NeverBack ==
  ASSUME Inv, [Next]_vars
  PROVE  (~overrun' => ~overrun) /\ (RefsDiffer' => RefsDiffer)
<1>0. overrun \in BOOLEAN /\ static_reference_number \in Nat
  BY DEF Inv, MailboxInv, MailboxTypeOK, SenderOK
<1>1. ~overrun' => ~overrun
  <2>1. CASE WriterStep
    BY <1>0, <2>1 DEF WriterStep, Writer, ProcessMessage, WriterLock,
                      WriterTimeout, WriterWrite, WriterSignal
  <2>2. CASE ReaderStep
    BY <2>2 DEF ReaderStep, Reader, StartReader, ReaderMap, ReaderCreateEvent,
                ReaderWake, ReaderReset, ReaderLock, ReaderRead, ReaderUnlock
  <2>3. CASE UNCHANGED mailboxVars
    BY <2>3 DEF mailboxVars
  <2> QED
    BY <2>1, <2>2, <2>3, MailboxSteps DEF Inv, SenderOK
<1>2. static_reference_number' \in {static_reference_number,
                                    static_reference_number + 1}
  BY DEF Next, SendWhole, SendSegments, SendSegment, Arrive, LeftInInbox,
         Mailbox, ReaderDecode, vars, senderVars
<1>3. RefsDiffer' => RefsDiffer
  BY <1>0, <1>2, SegmentsAssumption DEF RefsDiffer
<1> QED
  BY <1>1, <1>3

LEMMA ReceivedStep == Inv /\ Travel /\ Received /\ [Next]_vars => Received'
<1> SUFFICES ASSUME Inv, Travel, Received, [Next]_vars PROVE Received'
  OBVIOUS
<1>1. (~overrun' => ~overrun) /\ (RefsDiffer' => RefsDiffer)
  BY NeverBack
<1>2. CASE UNCHANGED receiverVars
  BY <1>1, <1>2, ReceivedStays
<1>3. CASE ReaderDecode /\ slot # NoDatagram
  <2> SUFFICES ASSUME ~overrun', RefsDiffer' \/ InTurn'
               PROVE  /\ Buffer' /\ Notified'
                      /\ Closed' \/ \E m \in Msgs : Open(m)'
    BY DEF Received
  <2>1. PICK d : d = slot
    OBVIOUS
  <2>2. d \notin Seen /\ d \in Handled
    BY <1>1, <1>3, <2>1, ReadsOnce DEF Handled, Shelf
  <2>3. DecodeAndNotify(d, ~unread) /\ got' = Append(got, d)
    BY <1>3, <2>1 DEF ReaderDecode
  <2>4. RefsDiffer \/ InTurn
    BY <1>1, <2>3, TurnsSoFar DEF Inv
  <2>5. Buffer /\ Notified /\ (Closed \/ \E m \in Msgs : Open(m))
    BY <1>1, <2>4 DEF Received
  <2>6. Reading(d)
    BY <2>2, <2>3, <2>5 DEF Reading
  <2> QED
    BY <1>1, <2>3, <2>5, <2>6, ReadReceives
<1>4. CASE ~(ReaderDecode /\ slot # NoDatagram) /\ ~UNCHANGED receiverVars
  BY <1>4 DEF Next, SendWhole, SendSegments, SendSegment, Arrive, LeftInInbox,
              Mailbox, ReaderDecode, vars, receiverVars
<1> QED
  BY <1>2, <1>3, <1>4

LEMMA ReceivedStarts == Init => Received
<1> SUFFICES ASSUME Init PROVE Buffer /\ Notified /\ Closed
  BY DEF Received
<1>1. /\ fullMsg = NoMessage /\ got = <<>> /\ notified = <<>>
  BY DEF Init
<1>2. \A k : Mine(k) = {} /\ Reads(k) = {}
  BY <1>1 DEF Mine, Kept, Slots, NoMessage, Reads, ReadOf
<1>3. Buffer /\ Notified
  BY <1>1 DEF Buffer, Kept, Slots, NoMessage, Notified
<1>4. Closed
  BY <1>1, <1>2 DEF Closed, Others, NoMessage
<1> QED
  BY <1>3, <1>4

LEMMA TheReception == Spec => [](Inv /\ Travel /\ Received)
<1>1. Init => Inv /\ Travel /\ Received
  BY InitInv, TravelStarts, ReceivedStarts
<1>2. Inv /\ Travel /\ Received /\ [Next]_vars
        => (Inv /\ Travel /\ Received)'
  BY InvStep, TravelStep, ReceivedStep
<1> QED
  BY <1>1, <1>2, PTL DEF Spec

(* Until the mailbox is overrun or the reference numbers come round, what  *)
(* is handed up is a message that was sent, with all its segments and      *)
(* nothing else, and no message twice: for any messages, in segments of    *)
(* any size, lost and reordered at will (fullMsg_add_sms_segment,          *)
(* decode_and_notify).  Its length and its type are those it was sent      *)
(* with, too, unless it is in segments and one of them has a type byte of  *)
(* zero, that is, an odd share of ASCII text: then cdma_sms_decode takes   *)
(* the link of the chain of zeros for the type, and may lose a byte.       *)
THEOREM WholeMessages == Spec => []HandedUpWhole
<1>1. Inv /\ Travel /\ Received => HandedUpWhole
  <2> SUFFICES ASSUME Inv, Received, ~overrun, RefsDiffer
               PROVE  \E of \in [DOMAIN notified -> Msgs] :
                        /\ \A i \in DOMAIN notified :
                             IsWhole(notified[i], of[i])
                        /\ \A i, j \in DOMAIN notified :
                             of[i] = of[j] => i = j
    BY DEF HandedUpWhole
  <2>1. Notified /\ DOMAIN notified = 1..Len(notified)
    BY DEF Received, Inv, ReceiverOK
  <2> DEFINE of == [i \in DOMAIN notified |-> Owner(notified[i])]
  <2>2. of \in [DOMAIN notified -> Msgs]
    BY <2>1 DEF Notified
  <2>3. \A i \in DOMAIN notified : IsWhole(notified[i], of[i])
    BY <2>1 DEF Notified
  <2>4. \A i, j \in DOMAIN notified : of[i] = of[j] => i = j
    BY <2>1 DEF Notified
  <2> HIDE DEF of
  <2> QED
    BY <2>2, <2>3, <2>4
<1> QED
  BY <1>1, TheReception, PTL

(* Messages read one at a time are all handed up, until the mailbox is     *)
(* overrun, even when the reference numbers come round: a message leaves   *)
(* nothing behind that the next would meet.  All segments of it are, and   *)
(* its length and its type are right with the same exception.              *)
THEOREM InTurnAll == Spec => []HandedUpInTurn
<1>1. Inv /\ Travel /\ Received => HandedUpInTurn
  <2> SUFFICES ASSUME Inv, Received, ~overrun, InTurn, NEW m \in Msgs,
                      Cardinality(ReadOf(m, Len(got))) = Segments(MsgLen[m])
               PROVE  \E i \in DOMAIN notified : IsWhole(notified[i], m)
    BY DEF HandedUpInTurn
  <2>1. DOMAIN notified = 1..Len(notified) /\ ReceiverOK
    BY DEF Inv, ReceiverOK
  <2>2. SUFFICES Whole(m)
    BY <2>1 DEF Whole
  <2>3. Cardinality(Reads(m)) = Segments(MsgLen[m])
    BY DEF Reads
  <2>4. Segments(MsgLen[m]) \in Nat \ {0}
    <3>1. MsgLen[m] \in Nat
      BY SegmentsAssumption
    <3> QED
      BY <3>1, SegmentsPositive
  <2>5. Reads(m) # {}
    BY <2>3, <2>4, FS_EmptySet
  <2>6. CASE Closed
    BY <2>5, <2>6 DEF Closed, Others
  <2>7. ASSUME NEW k \in Msgs, Open(k) PROVE Whole(m)
    <3>1. CASE m # k
      BY <2>5, <2>7, <3>1 DEF Open, Others
    <3>2. CASE m = k
      <4>1. Cardinality(Reads(m)) = Segments(MsgLen[m]) - fullMsg.count
        BY <2>7, <3>2 DEF Open, Begun
      <4>2. fullMsg.count > 0 /\ fullMsg.count \in Int
        BY <2>1, <2>7, SegmentsAssumption DEF Open, Begun, ReceiverOK, Parts
      <4> QED
        BY <2>3, <2>4, <4>1, <4>2
    <3> QED
      BY <3>1, <3>2
  <2> QED
    BY <2>6, <2>7 DEF Received
<1> QED
  BY <1>1, TheReception, PTL

-----------------------------------------------------------------------------
(* Every byte of a message is in one of its segments.                      *)
Holds(len, s, b) ==
  s * SegmPayload <= b /\ b < s * SegmPayload + ShareOf(len, s)

LEMMA LaterSegment ==
  ASSUME NEW s \in Nat, NEW t \in Nat, s < t
  PROVE  s * SegmPayload + SegmPayload <= t * SegmPayload
<1>1. (t - s) \in Nat /\ t - s >= 1
  OBVIOUS
<1>2. (t - s) * SegmPayload >= SegmPayload
  BY <1>1, SegmentsAssumption
<1>3. t * SegmPayload = s * SegmPayload + (t - s) * SegmPayload
  BY <1>1, SegmentsAssumption
<1> QED
  BY <1>2, <1>3, SegmentsAssumption

(* A message is cut without a gap or an overlap into segments none of      *)
(* which is empty or larger than a datagram holds, for any length and any  *)
(* size of segments (calc_segments_num, cdma_sms_mulstisegm_encode).       *)
THEOREM EveryByteOnce ==
  ASSUME NEW len \in Nat, Segments(len) > 1
  PROVE  /\ \A s \in 0..(Segments(len) - 1) : ShareOf(len, s) \in 1..SegmPayload
         /\ \A b \in 0..(len - 1) :
              \E s \in 0..(Segments(len) - 1) :
                /\ Holds(len, s, b)
                /\ \A t \in 0..(Segments(len) - 1) : Holds(len, t, b) => t = s
<1> DEFINE n == Segments(len)
<1>1. n \in Nat \ {0}
  BY SegmentsPositive
<1>2. \A s \in 0..(n - 1) : ShareOf(len, s) \in 1..SegmPayload
  <2> SUFFICES ASSUME NEW s \in 0..(n - 1)
               PROVE  ShareOf(len, s) \in 1..SegmPayload
    OBVIOUS
  <2>1. s \in Nat /\ s < Segments(len) /\ s * SegmPayload \in Nat
    BY <1>1, SegmentsAssumption
  <2>2. s * SegmPayload < len
    <3>1. CASE s = 0
      BY <3>1, SegmentsAssumption DEF Segments
    <3>2. CASE s # 0
      BY <2>1, <3>2, SegmentStarts
    <3> QED
      BY <3>1, <3>2
  <2> QED
    BY <2>1, <2>2, SegmentsAssumption DEF ShareOf
<1>3. ASSUME NEW b \in 0..(len - 1)
      PROVE  \E s \in 0..(n - 1) :
               /\ Holds(len, s, b)
               /\ \A t \in 0..(n - 1) : Holds(len, t, b) => t = s
  <2> DEFINE s == b \div SegmPayload
             r == b % SegmPayload
             last == n - 1
  <2>1. /\ s \in Nat /\ r \in 0..(SegmPayload - 1) /\ b \in Nat
        /\ b = SegmPayload * s + r
    BY SegmentsAssumption
  <2>2. SegmPayload * last + ShareOf(len, last) = len /\ last \in Nat
    BY <1>1, LastShare
  <2>3. ShareOf(len, last) \in 1..SegmPayload
    BY <1>1, <1>2
  <2> HIDE DEF s, r, last
  <2>4. /\ s * SegmPayload = SegmPayload * s /\ s * SegmPayload \in Nat
        /\ last * SegmPayload = SegmPayload * last /\ last * SegmPayload \in Nat
    BY <2>1, <2>2, SegmentsAssumption
  <2>5. s <= last
    <3> SUFFICES ASSUME last < s PROVE FALSE
      BY <2>1, <2>2
    <3>1. last * SegmPayload + SegmPayload <= s * SegmPayload
      BY <2>1, <2>2, LaterSegment
    <3> QED
      BY <2>1, <2>2, <2>3, <2>4, <3>1, SegmentsAssumption
  <2>6. s \in 0..(n - 1)
    BY <2>1, <2>2, <2>5 DEF last
  <2>7. Holds(len, s, b)
    <3>1. CASE s = last
      BY <2>1, <2>2, <2>3, <2>4, <3>1, SegmentsAssumption DEF Holds
    <3>2. CASE s # last
      <4>1. s + 1 < Segments(len)
        BY <1>1, <2>1, <2>2, <2>5, <3>2 DEF last
      <4>2. ShareOf(len, s) = SegmPayload
        BY <2>1, <4>1, FullShare
      <4> QED
        BY <2>1, <2>4, <4>2, SegmentsAssumption DEF Holds
    <3> QED
      BY <3>1, <3>2
  <2>8. ASSUME NEW t \in 0..(n - 1), Holds(len, t, b)
        PROVE  t = s
    <3>1. /\ t \in Nat /\ t * SegmPayload \in Nat
          /\ t * SegmPayload <= b /\ b < t * SegmPayload + SegmPayload
      <4>1. ShareOf(len, t) \in 1..SegmPayload
        BY <1>2
      <4>2. t \in Nat /\ t * SegmPayload \in Nat
        BY <1>1, SegmentsAssumption
      <4> QED
        BY <2>1, <2>8, <4>1, <4>2, SegmentsAssumption DEF Holds
    <3>2. ~(t < s)
      BY <2>1, <2>4, <3>1, LaterSegment, SegmentsAssumption
    <3>3. ~(s < t)
      BY <2>1, <2>4, <3>1, LaterSegment, SegmentsAssumption
    <3> QED
      BY <2>1, <3>1, <3>2, <3>3
  <2> QED
    BY <2>6, <2>7, <2>8
<1> QED
  BY <1>2, <1>3

-----------------------------------------------------------------------------
(* Zero bytes are taken out of a datagram and put back.                    *)
LEMMA LeastNumber ==
  ASSUME NEW S, S \subseteq Nat, S # {}
  PROVE  \E p \in S : \A q \in S : p <= q
<1> DEFINE R == OpToRel(<, Nat)
<1>1. IsWellFoundedOn(R, Nat)
  BY NatLessThanWellFounded
<1>2. \A x, y \in Nat : x < y => <<x, y>> \in R
  BY DEF OpToRel
<1> HIDE DEF R
<1>3. PICK p \in S : \A q \in S : ~(<<q, p>> \in R)
  BY <1>1, WFMin
<1>4. \A q \in S : p \in Nat /\ q \in Nat /\ ~(q < p)
  BY <1>2, <1>3
<1>5. \A q \in S : p <= q
  BY <1>4
<1> QED
  BY <1>5

(* What is done n times over has been done for every number of times.      *)
Iterated(X, A, G, n) ==
  \E C \in [0..n -> X] : C[0] = A /\ \A k \in 1..n : C[k] = G[C[k - 1]]

LEMMA Iterates ==
  ASSUME NEW X, NEW A \in X, NEW G \in [X -> X], NEW L \in Nat
  PROVE  Iterated(X, A, G, L)
<1> DEFINE Good(n, C) == C[0] = A /\ \A k \in 1..n : C[k] = G[C[k - 1]]
           T == {n \in Nat : ~ \E C \in [0..n -> X] : Good(n, C)}
<1> SUFFICES ASSUME L \in T PROVE FALSE
  BY DEF Iterated
<1>1. PICK n \in T : \A m \in T : n <= m
  <2>1. T \subseteq Nat /\ T # {}
    OBVIOUS
  <2> HIDE DEF T
  <2> QED
    BY <2>1, LeastNumber
<1>2. CASE n = 0
  <2>1. [k \in 0..0 |-> A] \in [0..0 -> X] /\ Good(0, [k \in 0..0 |-> A])
    OBVIOUS
  <2> QED
    BY <1>2, <2>1
<1>3. CASE n # 0
  <2>1. n \in Nat /\ n - 1 \in Nat /\ n - 1 \notin T
    BY <1>1, <1>3
  <2>2. PICK C \in [0..(n - 1) -> X] : Good(n - 1, C)
    BY <2>1
  <2> DEFINE D == [k \in 0..n |-> IF k = n THEN G[C[n - 1]] ELSE C[k]]
  <2>3. C[n - 1] \in X
    BY <2>1
  <2>4. D \in [0..n -> X]
    BY <2>1, <2>3
  <2>5. Good(n, D)
    <3>1. D[0] = A
      BY <1>3, <2>1, <2>2
    <3>2. ASSUME NEW k \in 1..n PROVE D[k] = G[D[k - 1]]
      <4>1. k - 1 \in 0..(n - 1) /\ k - 1 # n /\ k - 1 \in 0..n /\ k \in 0..n
        BY <2>1
      <4>2. D[k - 1] = C[k - 1]
        BY <4>1
      <4>3. CASE k = n
        BY <4>1, <4>2, <4>3
      <4>4. CASE k # n
        <5>1. k \in 1..(n - 1)
          BY <2>1, <4>4
        <5>2. C[k] = G[C[k - 1]]
          BY <2>2, <5>1
        <5> QED
          BY <4>1, <4>2, <4>4, <5>2
      <4> QED
        BY <4>3, <4>4
    <3> QED
      BY <3>1, <3>2
  <2> QED
    BY <1>1, <2>4, <2>5
<1> QED
  BY <1>2, <1>3

(* The chain goes on from the positions it has reached.                    *)
LEMMA ChainLinks ==
  ASSUME NEW f \in Seq(Nat), NEW fix \in 1..Len(f)
  PROVE  /\ Chain(f, fix)[0] = {f[fix]}
         /\ \A n \in 1..Len(f) :
              Chain(f, fix)[n] = Chain(f, fix)[n - 1]
                \cup {f[i] : i \in Chain(f, fix)[n - 1] \cap 1..Len(f)}
<1> DEFINE L == Len(f)
           G == [S \in SUBSET Nat |-> S \cup {f[i] : i \in S \cap 1..L}]
           Eq(C) == C = [n \in 0..Len(f) |->
                           IF n = 0 THEN {f[fix]}
                           ELSE C[n - 1] \cup
                                  {f[i] : i \in C[n - 1] \cap 1..Len(f)}]
<1>1. L \in Nat /\ \A i \in 1..L : f[i] \in Nat
  OBVIOUS
<1>2. {f[fix]} \in SUBSET Nat
  BY <1>1
<1>3. G \in [SUBSET Nat -> SUBSET Nat]
  BY <1>1
<1>4. \A S \in SUBSET Nat : G[S] = S \cup {f[i] : i \in S \cap 1..L}
  OBVIOUS
<1> HIDE DEF G, Eq
<1>5. PICK C \in [0..L -> SUBSET Nat] :
        C[0] = {f[fix]} /\ \A k \in 1..L : C[k] = G[C[k - 1]]
  <2> DEFINE X == SUBSET Nat
             A == {f[fix]}
  <2>1. L \in Nat /\ A \in X /\ G \in [X -> X]
    BY <1>1, <1>2, <1>3
  <2> HIDE DEF L, X, A
  <2>2. Iterated(X, A, G, L)
    BY <2>1, Iterates
  <2> QED
    BY <2>2 DEF X, A, Iterated
<1>6. Eq(C)
  <2>1. ASSUME NEW n \in 0..L
        PROVE  C[n] = IF n = 0 THEN {f[fix]}
                      ELSE C[n - 1] \cup {f[i] : i \in C[n - 1] \cap 1..L}
    <3>1. CASE n = 0
      BY <1>5, <3>1
    <3>2. CASE n # 0
      <4>1. n \in 1..L /\ n - 1 \in 0..L
        BY <1>1, <3>2
      <4>2. C[n - 1] \in SUBSET Nat
        BY <1>5, <4>1
      <4> QED
        BY <1>4, <1>5, <3>2, <4>1, <4>2
    <3> QED
      BY <3>1, <3>2
  <2> QED
    BY <1>5, <2>1 DEF Eq
<1>7. Chain(f, fix) = CHOOSE D : Eq(D)
  BY DEF Chain, Eq
<1>8. Eq(Chain(f, fix))
  BY <1>6, <1>7
<1> USE DEF Eq
<1>9. \A n \in 0..L : Chain(f, fix)[n] =
        IF n = 0 THEN {f[fix]}
        ELSE Chain(f, fix)[n - 1]
               \cup {f[i] : i \in Chain(f, fix)[n - 1] \cap 1..L}
  BY <1>8
<1>10. 0 \in 0..L /\ \A n \in 1..L : n \in 0..L /\ n # 0
  BY <1>1
<1> QED
  BY <1>9, <1>10

(* What FirstOf finds.                                                     *)
LEMMA NextZeroFound ==
  ASSUME NEW b \in Seq(Nat), NEW i \in 0..Len(b)
  PROVE  /\ \/ FirstOf(ZerosAfter(b, i)) = EndOfChain
            \/ FirstOf(ZerosAfter(b, i)) \in ZerosAfter(b, 0)
         /\ \A k \in ZerosAfter(b, 0) :
              k > i => /\ FirstOf(ZerosAfter(b, i)) \in ZerosAfter(b, i)
                       /\ FirstOf(ZerosAfter(b, i)) <= k
<1> DEFINE S == ZerosAfter(b, i)
<1>1. /\ S \subseteq Nat
      /\ S \subseteq ZerosAfter(b, 0)
      /\ \A k \in ZerosAfter(b, 0) : k > i => k \in S
  BY DEF ZerosAfter
<1> HIDE DEF S
<1>2. CASE S = {}
  <2>1. FirstOf(S) = EndOfChain
    BY <1>2 DEF FirstOf
  <2> QED
    BY <1>1, <1>2, <2>1 DEF S
<1>3. CASE S # {}
  <2>1. \E j \in S : \A k \in S : j <= k
    BY <1>1, <1>3, LeastNumber
  <2>2. FirstOf(S) = CHOOSE j \in S : \A k \in S : j <= k
    BY <1>3 DEF FirstOf
  <2>3. FirstOf(S) \in S /\ \A k \in S : FirstOf(S) <= k
    BY <2>1, <2>2
  <2> QED
    BY <1>1, <2>3 DEF S
<1> QED
  BY <1>2, <1>3

(* The zero before a zero leads to it, and so does fix to the first.       *)
LEMMA ZeroBefore ==
  ASSUME NEW b \in Seq(Nat), NEW j \in ZerosAfter(b, 0)
  PROVE  \/ j = FirstOf(ZerosAfter(b, 0))
         \/ \E p \in ZerosAfter(b, 0) :
              p < j /\ j = FirstOf(ZerosAfter(b, p))
<1> DEFINE Z == ZerosAfter(b, 0)
           D == {d \in Nat : j - d \in Z /\ d > 0}
<1>1. /\ Z \subseteq 1..Len(b) /\ Len(b) \in Nat /\ j \in Nat
      /\ \A i \in Nat : ZerosAfter(b, i) = {k \in Z : k > i}
  BY DEF ZerosAfter
<1>2. \A p \in Z : p \in 0..Len(b) /\ p \in Nat
  BY <1>1
<1>3. CASE D = {}
  <2>1. \A k \in Z : ~(k < j)
    <3> SUFFICES ASSUME NEW k \in Z, k < j PROVE FALSE
      OBVIOUS
    <3>1. j - k \in D
      BY <1>1, <1>2
    <3> QED
      BY <1>3, <3>1
  <2>2. 0 \in 0..Len(b) /\ j \in Z /\ j > 0
    BY <1>1
  <2>3. FirstOf(ZerosAfter(b, 0)) \in Z /\ FirstOf(ZerosAfter(b, 0)) <= j
    BY <2>2, NextZeroFound
  <2> DEFINE x == FirstOf(ZerosAfter(b, 0))
  <2>4. x \in Z /\ x \in Nat /\ x <= j
    BY <1>2, <2>3
  <2> HIDE DEF Z, x
  <2>5. j = x
    BY <1>1, <2>1, <2>4
  <2> QED
    BY <2>5 DEF x
<1>4. CASE D # {}
  <2>1. PICK d \in D : \A e \in D : d <= e
    BY <1>4, LeastNumber
  <2> DEFINE p == j - d
  <2>2. d \in Nat /\ d > 0 /\ p \in Z /\ p < j
    BY <1>1, <2>1
  <2>3. \A k \in Z : k > p => ~(k < j)
    <3> SUFFICES ASSUME NEW k \in Z, k > p, k < j PROVE FALSE
      OBVIOUS
    <3>1. j - k \in D
      BY <1>1, <1>2
    <3>2. d <= j - k
      BY <2>1, <3>1
    <3> QED
      BY <1>1, <1>2, <2>2, <3>2
  <2> HIDE DEF p, Z
  <2>4. p \in 0..Len(b) /\ p \in Nat /\ j \in Z
    BY <1>2, <2>2 DEF Z
  <2>5. /\ FirstOf(ZerosAfter(b, p)) \in ZerosAfter(b, p)
        /\ FirstOf(ZerosAfter(b, p)) <= j
    BY <1>1, <2>2, <2>4, NextZeroFound DEF Z
  <2>6. FirstOf(ZerosAfter(b, p)) \in Z /\ FirstOf(ZerosAfter(b, p)) > p
    BY <1>1, <2>4, <2>5
  <2> DEFINE x == FirstOf(ZerosAfter(b, p))
  <2>7. x \in Z /\ x \in Nat /\ x > p /\ x <= j
    BY <1>2, <2>5, <2>6
  <2> HIDE DEF x
  <2>8. j = x
    BY <1>1, <2>3, <2>7
  <2> QED
    BY <2>2, <2>8 DEF Z, x
<1> QED
  BY <1>3, <1>4

(* Taking the zero bytes out of a datagram (fix_zero) leaves none, and     *)
(* putting them back (fix_zero_back) restores every byte but the one the   *)
(* chain begins in, for every datagram whose first byte is not zero and    *)
(* which is so short that no position is the end of the chain.             *)
THEOREM ZerosComeBack ==
  ASSUME NEW buf \in Seq(Nat), NEW fix \in 2..Len(buf),
         buf[1] # 0, Len(buf) < EndOfChain
  PROVE  /\ \A i \in 1..Len(buf) : FixZero(buf, fix)[i] # 0
         /\ \A i \in (1..Len(buf)) \ {fix} :
              FixZeroBack(FixZero(buf, fix), fix)[i] = buf[i]
<1> DEFINE L == Len(buf)
           b == [buf EXCEPT ![fix] = EndOfChain]
           f == FixZero(buf, fix)
           Z == ZerosAfter(b, 0)
           First(i) == FirstOf(ZerosAfter(b, i))
           c == Chain(f, fix)
<1>1. L \in Nat /\ L < EndOfChain /\ EndOfChain = 255 /\ fix \in 1..L /\ fix # 1
  BY DEF EndOfChain
<1>2. /\ b \in Seq(Nat) /\ Len(b) = L /\ b[fix] = EndOfChain
      /\ \A i \in (1..L) \ {fix} : b[i] = buf[i]
      /\ \A i \in 1..L : b[i] \in Nat
  BY <1>1
<1>3. /\ Z = {i \in 1..L : b[i] = 0} /\ fix \notin Z /\ 1 \notin Z
      /\ EndOfChain \notin 1..L
  BY <1>1, <1>2 DEF ZerosAfter
<1>4. \A i \in 1..L : f[i] = IF i = fix THEN First(0)
                             ELSE IF b[i] = 0 THEN First(i) ELSE b[i]
  BY DEF FixZero
<1> HIDE DEF b
<1>5. \A i \in 0..L : First(i) \in Z \cup {EndOfChain}
  BY <1>2, NextZeroFound
<1>6. \A j \in Z : j = First(0) \/ \E p \in Z : p < j /\ j = First(p)
  BY <1>2, ZeroBefore
<1> HIDE DEF Z, First
<1>7. First(0) \in Nat \ {0} /\ \A i \in 1..L : First(i) \in Nat \ {0}
  BY <1>1, <1>3, <1>5
<1>8. \A i \in 1..L : f[i] \in Nat \ {0}
  <2> SUFFICES ASSUME NEW i \in 1..L PROVE f[i] \in Nat \ {0}
    OBVIOUS
  <2> HIDE DEF f
  <2>1. b[i] \in Nat
    BY <1>2
  <2> QED
    BY <1>4, <1>7, <2>1
<1>9. f \in Seq(Nat) /\ Len(f) = L
  <2>1. f = [i \in 1..L |-> f[i]]
    BY DEF FixZero
  <2> HIDE DEF f
  <2>2. f \in [1..L -> Nat]
    BY <1>8, <2>1
  <2> QED
    BY <1>1, <2>2
<1> HIDE DEF f
<1>10. /\ c[0] = {First(0)}
       /\ \A n \in 1..L : c[n] = c[n - 1] \cup {f[i] : i \in c[n - 1] \cap 1..L}
  BY <1>1, <1>4, <1>9, ChainLinks
<1> HIDE DEF c
<1> DEFINE Reached(n) == /\ First(0) \in c[n]
                         /\ c[n] \subseteq Z \cup {EndOfChain}
                         /\ \A j \in Z : j <= n + 1 => j \in c[n]
           T == {n \in 0..L : ~Reached(n)}
<1>11. T = {}
  <2> SUFFICES ASSUME T # {} PROVE FALSE
    OBVIOUS
  <2>1. PICK n \in T : \A m \in T : n <= m
    <3>1. T \subseteq Nat
      BY <1>1
    <3> HIDE DEF T
    <3> QED
      BY <3>1, LeastNumber
  <2>2. n \in 0..L /\ ~Reached(n)
    BY <2>1
  <2>3. CASE n = 0
    <3>1. First(0) \in c[0] /\ c[0] \subseteq Z \cup {EndOfChain}
      BY <1>1, <1>5, <1>10
    <3>2. \A j \in Z : ~(j <= 0 + 1)
      BY <1>1, <1>3
    <3> QED
      BY <2>2, <2>3, <3>1, <3>2
  <2>4. CASE n # 0
    <3>1. n \in 1..L /\ n - 1 \in 0..L /\ ~(n <= n - 1)
      BY <1>1, <2>2, <2>4
    <3>2. Reached(n - 1)
      BY <2>1, <3>1
    <3>3. c[n] = c[n - 1] \cup {f[i] : i \in c[n - 1] \cap 1..L}
      BY <1>10, <3>1
    <3>4. \A i \in Z : i \in 1..L /\ f[i] = First(i)
      BY <1>3, <1>4
    <3>5. First(0) \in c[n]
      BY <3>2, <3>3
    <3>6. c[n] \subseteq Z \cup {EndOfChain}
      <4>1. ASSUME NEW i \in c[n - 1] \cap 1..L
            PROVE  f[i] \in Z \cup {EndOfChain}
        <5>1. i \in Z
          BY <1>3, <3>2, <4>1
        <5> QED
          BY <1>1, <1>5, <3>4, <5>1
      <4> QED
        BY <3>2, <3>3, <4>1
    <3>7. ASSUME NEW j \in Z, j <= n + 1
          PROVE  j \in c[n]
      <4>1. CASE j = First(0)
        BY <3>5, <4>1
      <4>2. ASSUME NEW p \in Z, p < j, j = First(p)
            PROVE  j \in c[n]
        <5>1. p <= (n - 1) + 1
          BY <3>1, <3>4, <3>7, <4>2
        <5>2. p \in c[n - 1] \cap 1..L /\ f[p] = j
          BY <3>2, <3>4, <4>2, <5>1
        <5> QED
          BY <3>3, <5>2
      <4> QED
        BY <1>6, <4>1, <4>2
    <3> QED
      BY <2>2, <3>5, <3>6, <3>7
  <2> QED
    BY <2>3, <2>4
<1>12. Reached(L)
  BY <1>1, <1>11
<1>13. \A i \in 1..L : i \in c[L] <=> i \in Z
  BY <1>1, <1>3, <1>12
<1>14. \A i \in 1..L : FixZeroBack(f, fix)[i] = IF i \in c[L] THEN 0 ELSE f[i]
  BY <1>9 DEF FixZeroBack, c
<1>15. ASSUME NEW i \in (1..L) \ {fix}
       PROVE  FixZeroBack(f, fix)[i] = buf[i]
  <2>1. i \in Z <=> buf[i] = 0
    BY <1>2, <1>3
  <2>2. CASE buf[i] = 0
    BY <1>13, <1>14, <2>1, <2>2
  <2>3. CASE buf[i] # 0
    BY <1>2, <1>4, <1>13, <1>14, <2>1, <2>3
  <2> QED
    BY <2>2, <2>3
<1> QED
  BY <1>8, <1>15 DEF f

=============================================================================

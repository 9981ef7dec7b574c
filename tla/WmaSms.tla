-------------------------------- MODULE WmaSms --------------------------------
(***************************************************************************)
(* Text messages with a port on Windows CE                                 *)
(* (src/implementation/wince/jsr120_wma): javacall_sms_send of one phone   *)
(* cuts messages into segments and sends them one by one; the network      *)
(* delivers them in any order, or loses them; the rule client of the other *)
(* phone passes them on through the mailbox, and the receiving thread puts *)
(* the messages together again, one at a time, and hands them up.          *)
(***************************************************************************)
EXTENDS JsmsMailbox, FiniteSets

CONSTANT
  MaxAsked      \* bound: calls of javacall_sms_send

VARIABLES
  static_reference_number,
  asked,     \* messages javacall_sms_send has been called for
  sending,   \* the loop of javacall_sms_send: message, reference, segment
  air,       \* datagrams under way to the other phone
  fullMsg,   \* fullMsg_reference_number, _segm_count, _buffer_len, _buffer
  got,       \* history: the datagrams the receiving thread has read
  notified   \* history: what javanotify_incoming_sms has been called with

senderVars   == <<static_reference_number, asked, sending>>
receiverVars == <<fullMsg, got, notified>>
vars == <<mailboxVars, senderVars, air, receiverVars>>

NotSending == [busy |-> FALSE]
NoMessage  == [ref |-> -1, count |-> -1, len |-> 0,
               buf |-> [s \in 0..(MaxSegm - 1) |-> NoDatagram]]

Init ==
  /\ MailboxInit
  /\ static_reference_number = 0
  /\ asked = {}
  /\ sending = NotSending
  /\ air = {}
  /\ fullMsg = NoMessage
  /\ got = <<>>
  /\ notified = <<>>

-----------------------------------------------------------------------------
(* The sending phone.  SendSMS succeeds or fails.                          *)

MayAsk(m) == ~sending.busy /\ m \notin asked /\ Cardinality(asked) < MaxAsked

(* javacall_sms_send of a message that needs one datagram, or too many.    *)
SendWhole(m) ==
  /\ MayAsk(m)
  /\ asked' = asked \cup {m}
  /\ \/ /\ DestPort[m] = 0 \/ Segments(MsgLen[m]) = 1
        /\ air' \in {air, air \cup {Single(m)}}
     \/ /\ DestPort[m] # 0 /\ Segments(MsgLen[m]) > MaxSegm
        /\ air' = air
  /\ UNCHANGED <<mailboxVars, static_reference_number, sending, receiverVars>>

(* javacall_sms_send of a message in several segments: a reference number. *)
SendSegments(m) ==
  /\ MayAsk(m)
  /\ DestPort[m] # 0 /\ Segments(MsgLen[m]) \in 2..MaxSegm
  /\ asked' = asked \cup {m}
  /\ static_reference_number' = static_reference_number + 1
  /\ sending' = [busy |-> TRUE, msg |-> m, ref |-> static_reference_number,
                 segm |-> 0]
  /\ UNCHANGED <<mailboxVars, air, receiverVars>>

(* Mutated form: one segment too many.                                     *)
MoreOrLast == sending.segm + 1 <= Segments(MsgLen[sending.msg])

MoreSegments == sending.segm + 1 < Segments(MsgLen[sending.msg])

(* A segment is sent; a failure ends the call.                             *)
SendSegment ==
  /\ sending.busy
  /\ \/ /\ air' = air \cup {Segment(sending.msg, sending.ref, sending.segm)}
        /\ sending' = IF MoreSegments THEN [sending EXCEPT !.segm = @ + 1]
                                    ELSE NotSending
     \/ air' = air /\ sending' = NotSending
  /\ UNCHANGED <<mailboxVars, static_reference_number, asked, receiverVars>>

-----------------------------------------------------------------------------
(* The network delivers in any order; what it loses is never delivered.    *)

(* The mail client calls the rule client for a message: one without the    *)
(* header is not handled.                                                  *)
Arrive(d) ==
  /\ d.wma
  /\ ProcessMessage(d)
  /\ air' = air \ {d}
  /\ UNCHANGED <<senderVars, receiverVars>>

LeftInInbox(d) ==
  /\ ~d.wma
  /\ writer.pc = "idle"
  /\ air' = air \ {d}
  /\ UNCHANGED <<mailboxVars, senderVars, receiverVars>>

-----------------------------------------------------------------------------
(* The receiving phone.                                                    *)

(* Mutated form: segments of another message are taken in, too.            *)
AddAnySegment(d, len) ==
  [ref   |-> IF fullMsg.ref = -1 THEN d.ref ELSE fullMsg.ref,
   count |-> (IF fullMsg.ref = -1 THEN d.total ELSE fullMsg.count) - 1,
   len   |-> (IF fullMsg.ref = -1 THEN 0 ELSE fullMsg.len) + len,
   buf   |-> [fullMsg.buf EXCEPT ![d.segm] = d]]

(* fullMsg_add_sms_segment of a segment decoded to a length: the first     *)
(* segment opens a message; one of another message is dropped.             *)
AddSegment(d, len) ==
  IF fullMsg.ref = -1
  THEN [ref |-> d.ref, count |-> d.total - 1, len |-> len,
        buf |-> [fullMsg.buf EXCEPT ![d.segm] = d]]
  ELSE IF fullMsg.ref # d.ref THEN fullMsg
  ELSE [fullMsg EXCEPT !.count = @ - 1, !.len = @ + len,
                       !.buf = [@ EXCEPT ![d.segm] = d]]

(* Mutated form: the reference number stays.                               *)
SameReference(f) == [f EXCEPT !.count = -1, !.len = 0]

(* fullMsg_sms_segement_init: the buffer keeps its bytes.                  *)
SegmentInit(f) == [f EXCEPT !.ref = -1, !.count = -1, !.len = 0]

(* What javanotify_incoming_sms is given: the type is that of the datagram *)
(* just decoded.                                                           *)
Message(f, type) == [buf |-> f.buf, len |-> f.len, type |-> type]

(* decode_and_notify *)
DecodeAndNotify(d, decoded) ==
  LET len  == DecodedLen(d, decoded)
      type == DecodedType(d, decoded)
  IN  IF d.total > 1
      THEN LET f == AddSegment(d, len)
           IN  IF f.count = 0
               THEN /\ notified' = Append(notified, Message(f, type))
                    /\ fullMsg' = SegmentInit(f)
               ELSE fullMsg' = f /\ UNCHANGED notified
      ELSE /\ notified' = Append(notified,
                                Message([buf |-> [NoMessage.buf EXCEPT ![0] = d],
                                         len |-> len], type))
           /\ UNCHANGED fullMsg

(* A mapped file with nothing in it does not start with "//WMA".           *)
ReaderDecode ==
  /\ ReaderRead
  /\ \/ /\ slot # NoDatagram
        /\ DecodeAndNotify(slot, ~unread)
        /\ got' = Append(got, slot)
     \/ slot = NoDatagram /\ UNCHANGED receiverVars
  /\ UNCHANGED <<senderVars, air>>

Writer == WriterLock \/ WriterTimeout \/ WriterWrite \/ WriterSignal
Reader == ReaderMap \/ ReaderCreateEvent \/ ReaderWake \/ ReaderReset
            \/ ReaderLock \/ ReaderUnlock

(* javacall_sms_add_listening_port, through javacall_wma_init, starts the  *)
(* receiving thread.                                                       *)
Mailbox ==
  /\ Writer \/ Reader \/ StartReader
  /\ UNCHANGED <<senderVars, air, receiverVars>>

Next ==
  \/ \E m \in Msgs : SendWhole(m) \/ SendSegments(m)
  \/ SendSegment
  \/ \E d \in air : Arrive(d) \/ LeftInInbox(d)
  \/ Mailbox
  \/ ReaderDecode

Spec == Init /\ [][Next]_vars

-----------------------------------------------------------------------------
TypeOK ==
  /\ MailboxTypeOK
  /\ static_reference_number \in Nat
  /\ asked \subseteq Msgs
  /\ sending \in {NotSending}
       \cup [busy : {TRUE}, msg : Msgs, ref : Nat, segm : 0..(MaxSegm - 1)]
  /\ air \subseteq Datagrams
  /\ fullMsg.ref \in -1..(RefSpan - 1)
  /\ fullMsg.count \in -1..(MaxSegm - 1)
  /\ fullMsg.len \in Nat
  /\ fullMsg.buf \in [0..(MaxSegm - 1) -> Datagrams \cup {NoDatagram}]
  /\ got \in Seq(Datagrams)
  /\ \A i \in DOMAIN notified : notified[i].len \in Nat

(* n has all the segments of message m, each in its place.                 *)
HasAll(n, m) ==
  \A s \in 0..(Segments(MsgLen[m]) - 1) :
    n.buf[s].msg = m /\ n.buf[s].segm = s

(* n has the length and the type m was sent with.                          *)
AsSent(n, m) == n.len = MsgLen[m] /\ n.type = MsgType[m]

(* No segment of m has a type byte of zero: m is not ASCII text, or no     *)
(* segment of it has an odd share.                                         *)
TypeKept(m) ==
  Segments(MsgLen[m]) > 1 =>
    \A s \in 0..(Segments(MsgLen[m]) - 1) : Segment(m, 0, s).type # 0

(* n is all of message m, and as it was sent unless a segment of it is     *)
(* decoded wrongly.                                                        *)
IsWhole(n, m) == HasAll(n, m) /\ (TypeKept(m) => AsSent(n, m))

(* No reference number has been given twice.                               *)
RefsDiffer == static_reference_number <= RefSpan

(* As long as the mailbox has not been overrun and the reference numbers   *)
(* have not come round, every message handed up is one that was sent, with *)
(* all of its segments and nothing else, and none is handed up twice:      *)
(* whatever the network loses or reorders; and it has the length and the   *)
(* type it was sent with, unless a segment's type byte is zero.  An        *)
(* overrun makes the thread read the later datagram twice and count it     *)
(* twice (decode_and_notify, receiveSMSThreadProc); the same number on two *)
(* messages mixes them.                                                    *)
HandedUpWhole ==
  ~overrun /\ RefsDiffer =>
    \E of \in [DOMAIN notified -> Msgs] :
      /\ \A i \in DOMAIN notified : IsWhole(notified[i], of[i])
      /\ \A i, j \in DOMAIN notified : of[i] = of[j] => i = j

(* What is handed up is as it was sent: the encoding the callback is given *)
(* is the message's, and the payload has the length the payload had        *)
(* (javacall_sms.h:228 and :239; sms.cpp:275, "The original byte array can *)
(* be easily restored").                                                   *)
HandedUpAsSent ==
  ~overrun /\ RefsDiffer =>
    \A i \in DOMAIN notified, m \in Msgs :
      HasAll(notified[i], m) => AsSent(notified[i], m)

ReadOf(m, n) == {k \in 1..n : got[k].msg = m}

(* Messages in segments have been read one at a time: when a segment of    *)
(* one is read, no other has been read in part.                            *)
InTurn ==
  \A i, j \in DOMAIN got :
    i < j /\ got[i].total > 1 /\ got[j].total > 1 /\ got[i].msg # got[j].msg
      => Cardinality(ReadOf(got[i].msg, j - 1)) = got[i].total

(* A message whose segments have all been read has been handed up, as long *)
(* as messages have been read one at a time and the mailbox has not been   *)
(* overrun (fullMsg_add_sms_segment and fullMsg_try_get_full_message leave *)
(* nothing behind that the next message would meet).                       *)
HandedUpInTurn ==
  InTurn /\ ~overrun =>
    \A m \in Msgs :
      Cardinality(ReadOf(m, Len(got))) = Segments(MsgLen[m]) =>
        \E i \in DOMAIN notified : IsWhole(notified[i], m)

=============================================================================

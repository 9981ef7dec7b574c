----------------------------- MODULE JsmsMailbox -----------------------------
(***************************************************************************)
(* How a datagram gets from the mail rule client of Windows CE, in a       *)
(* system process (src/implementation/wince/jsr120_wma/dll/jsms.cpp), to   *)
(* the receiving thread of the VM (receiveSMSThreadProc in                 *)
(* src/implementation/wince/jsr120_wma/sms.cpp): through a mapped file     *)
(* with room for one datagram, a named mutex and a named auto-reset event. *)
(***************************************************************************)
EXTENDS SmsSegments

VARIABLES
  mutex,     \* who owns jsms_mutex: nobody, the dll or the vm
  event,     \* jsms_event is set
  slot,      \* the datagram in jsms_temp_file
  writer,    \* ProcessMessage: pc, and the datagram of its message
  reader,    \* pc of receiveSMSThreadProc
  unread,    \* history: the slot's datagram has not been read
  told,      \* history: the event has been set for the slot's datagram
  overrun    \* history: a datagram was written while the thread was still to
             \* read for an earlier signal

mailboxVars == <<mutex, event, slot, writer, reader, unread, told, overrun>>

Writers == [pc : {"idle", "lock", "write", "signal"},
            dg : Datagrams \cup {NoDatagram}]
NoWriter == [pc |-> "idle", dg |-> NoDatagram]

(* The thread has the file mapping open, and then the event.               *)
Mapped    == reader \notin {"none", "start"}
Listening == reader \notin {"none", "start", "mapped"}

MailboxInit ==
  /\ mutex = "nobody"
  /\ event = FALSE
  /\ slot = NoDatagram
  /\ writer = NoWriter
  /\ reader = "none"
  /\ unread = FALSE
  /\ told = FALSE
  /\ overrun = FALSE

-----------------------------------------------------------------------------
(* The event was set, and the thread has not read yet.                     *)
SignalPending == event \/ reader \in {"reset", "lock", "read"}

(* The rule client: ProcessMessage, WriteMapFile and DeleteMsg.            *)

(* A message with the "//WMA" header is taken in hand.                     *)
ProcessMessage(d) ==
  /\ writer.pc = "idle"
  /\ writer' = [pc |-> "lock", dg |-> d]
  /\ UNCHANGED <<mutex, event, slot, reader, unread, told, overrun>>

WriterLock ==
  /\ writer.pc = "lock"
  /\ mutex = "nobody"
  /\ mutex' = "dll"
  /\ writer' = [writer EXCEPT !.pc = "write"]
  /\ UNCHANGED <<event, slot, reader, unread, told, overrun>>

(* The wait of max_waiting_msec times out: nothing is written, and         *)
(* DeleteMsg takes the message out of the inbox all the same.              *)
WriterTimeout ==
  /\ writer.pc = "lock"
  /\ mutex # "nobody"
  /\ writer' = NoWriter
  /\ UNCHANGED <<mutex, event, slot, reader, unread, told, overrun>>

(* The datagram is written whatever the slot holds; unless the VM has the  *)
(* file mapped too, it is gone with the writer's handle.                   *)
WriterWrite ==
  /\ writer.pc = "write"
  /\ slot' = IF Mapped THEN writer.dg ELSE NoDatagram
  /\ unread' = Mapped
  /\ told' = FALSE
  /\ overrun' = (overrun \/ SignalPending)
  /\ mutex' = "nobody"
  /\ writer' = [writer EXCEPT !.pc = "signal"]
  /\ UNCHANGED <<event, reader>>

(* OpenEvent finds no event until the thread has created it.  DeleteMsg.   *)
WriterSignal ==
  /\ writer.pc = "signal"
  /\ event' = (event \/ Listening)
  /\ told' = Listening
  /\ writer' = NoWriter
  /\ UNCHANGED <<mutex, slot, reader, unread, overrun>>

-----------------------------------------------------------------------------
(* The VM: javacall_wma_init starts the thread, once.                      *)
StartReader ==
  /\ reader = "none"
  /\ reader' = "start"
  /\ UNCHANGED <<mutex, event, slot, writer, unread, told, overrun>>

ReaderMap ==
  /\ reader = "start"
  /\ reader' = "mapped"
  /\ UNCHANGED <<mutex, event, slot, writer, unread, told, overrun>>

ReaderCreateEvent ==
  /\ reader = "mapped"
  /\ reader' = "wait"
  /\ UNCHANGED <<mutex, event, slot, writer, unread, told, overrun>>

(* Mutated form: ResetEvent comes last, before the next wait.              *)
ResetLast == [wait |-> "lock", reset |-> "wait", unlock |-> "reset"]

(* What the thread does next.                                              *)
Then == [wait |-> "reset", reset |-> "lock", unlock |-> "wait"]

(* The wait ends, and resets the event.                                    *)
ReaderWake ==
  /\ reader = "wait"
  /\ event
  /\ event' = FALSE
  /\ reader' = Then.wait
  /\ UNCHANGED <<mutex, slot, writer, unread, told, overrun>>

(* ResetEvent, once more.                                                  *)
ReaderReset ==
  /\ reader = "reset"
  /\ event' = FALSE
  /\ reader' = Then.reset
  /\ UNCHANGED <<mutex, slot, writer, unread, told, overrun>>

ReaderLock ==
  /\ reader = "lock"
  /\ mutex = "nobody"
  /\ mutex' = "vm"
  /\ reader' = "read"
  /\ UNCHANGED <<event, slot, writer, unread, told, overrun>>

(* The datagram is decoded and notified in place, under the mutex, and     *)
(* stays in the slot.                                                      *)
ReaderRead ==
  /\ reader = "read"
  /\ unread' = FALSE
  /\ reader' = "unlock"
  /\ UNCHANGED <<mutex, event, slot, writer, told, overrun>>

ReaderUnlock ==
  /\ reader = "unlock"
  /\ mutex' = "nobody"
  /\ reader' = Then.unlock
  /\ UNCHANGED <<event, slot, writer, unread, told, overrun>>

-----------------------------------------------------------------------------
MailboxTypeOK ==
  /\ mutex \in {"nobody", "dll", "vm"}
  /\ event \in BOOLEAN
  /\ slot \in Datagrams \cup {NoDatagram}
  /\ writer \in Writers
  /\ reader \in {"none", "start", "mapped", "wait", "reset", "lock", "read",
                 "unlock"}
  /\ unread \in BOOLEAN /\ told \in BOOLEAN /\ overrun \in BOOLEAN

(* A datagram the event was set for is never left in the slot with the     *)
(* thread asleep: the second reset of the event can swallow a signal only  *)
(* of a datagram that the thread is about to read.                         *)
NotStranded ==
  unread /\ told => SignalPending

=============================================================================

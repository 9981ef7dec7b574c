------------------------------ MODULE EventQueue ------------------------------
(***************************************************************************)
(* The event queue of the MIDP ports:                                      *)
(* src/implementation/win32_emul/midp/events.c, the single-instance build  *)
(* of win32_x86_cldc/common/events.c has the same algorithm.               *)
(*                                                                         *)
(* Platform threads call javacall_event_send; the VM thread calls          *)
(* javacall_event_receive, which pumps the thread's window messages while  *)
(* it waits, so that a window procedure can call javacall_event_send on    *)
(* the receiving thread itself.  The list is guarded by events_mutex       *)
(* (waits on it time out after 500 ms), and events_handle is a manual-reset*)
(* Windows event that is set AFTER the mutex is released and reset, under  *)
(* the mutex, by a receiver that finds the list empty.                     *)
(*                                                                         *)
(* Each step below is one access to the shared state: a thread can be      *)
(* preempted between any two of them.                                      *)
(***************************************************************************)
EXTENDS Integers, Sequences, FiniteSets

CONSTANTS
  Senders,    \* platform threads (dispatcher, media, network callbacks)
  Receivers,  \* threads that call javacall_event_receive
  Lens,       \* event sizes callers ask for, 0 among them
  BufLens,    \* receive buffer sizes
  MaxCalls,   \* bound: MaxCalls[t] sends by thread t, nested ones included
  Nobody      \* the mutex is free

ASSUME ThreadsAssumption == /\ Senders \cap Receivers = {}
                            /\ Nobody \notin Senders \cup Receivers
ASSUME SizesAssumption == Lens \subseteq Nat /\ BufLens \subseteq Nat \ {0}
ASSUME MaxCallsAssumption == MaxCalls \in [Senders \cup Receivers -> Nat]

Threads == Senders \cup Receivers

Modes == {"poll", "timed", "forever"}   \* timeTowaitInMillisec = 0, > 0, -1

SendPcs == {"s_lock", "s_scan", "s_link", "s_unlock", "s_set"}
RecvPcs == {"r_lock", "r_copy", "r_pop", "r_check", "r_reset", "r_unlock",
            "peek", "wait"}

(* Where a thread holds events_mutex.                                      *)
SendCritical == {"s_scan", "s_link", "s_unlock"}
RecvCritical == {"r_copy", "r_pop", "r_check", "r_reset", "r_unlock"}
Critical == SendCritical \cup RecvCritical

Sizes == Lens \ {0}   \* of the events in the list

Msgs == UNION {[src : {t}, no : 1..MaxCalls[t], len : Sizes] : t \in Threads}

VARIABLES
  mutex,      \* thread that owns events_mutex, or Nobody
  signaled,   \* state of events_handle
  queue,      \* the list at head
  pc,         \* where each thread is in its call
  len,        \* len[t]: binaryBufferLen of t's send
  tail,       \* tail[t]: nodes t's iter has walked past
  mode, buf,  \* arguments of r's receive
  totalRead,  \* totalRead[r]
  result,     \* what r's receive returned
  quit,       \* quit[r]: WM_QUIT is in r's message queue
  calls,      \* history: sends t has begun
  posted,     \* history: events linked into the list, in order
  taken,      \* history: events unlinked, with the size copied
  accepted,   \* history: events whose send returned JAVACALL_OK
  refused     \* history: events whose send returned JAVACALL_FAIL

sync == <<mutex, signaled, queue>>
recv == <<mode, buf, totalRead, result, quit>>
history == <<posted, taken, accepted, refused>>
vars == <<mutex, signaled, queue, pc, len, tail, mode, buf, totalRead, result,
          quit, calls, posted, taken, accepted, refused>>

-----------------------------------------------------------------------------
Init ==
  /\ mutex = Nobody
  /\ signaled = FALSE
  /\ queue = << >>
  /\ pc = [t \in Threads |-> "idle"]
  /\ len = [t \in Threads |-> 0]
  /\ tail = [t \in Threads |-> 0]
  /\ mode = [r \in Receivers |-> "poll"]
  /\ buf = [r \in Receivers |-> 0]
  /\ totalRead = [r \in Receivers |-> 0]
  /\ result = [r \in Receivers |-> "none"]
  /\ quit = [r \in Receivers |-> FALSE]
  /\ calls = [t \in Threads |-> 0]
  /\ posted = << >>
  /\ taken = << >>
  /\ accepted = {}
  /\ refused = {}

Goto(t, l) == pc' = [pc EXCEPT ![t] = l]

(* The event t's current send carries.                                     *)
Event(t) == [src |-> t, no |-> calls[t], len |-> len[t]]

(* A send made by a window procedure goes back to the message loop of the  *)
(* receive it is nested in.                                                *)
AfterSend(t) == IF t \in Senders THEN "idle" ELSE "peek"

(* Leaving a function: its locals are gone (0 stands for no value).        *)
EndSend(t) == /\ Goto(t, AfterSend(t))
              /\ len' = [len EXCEPT ![t] = 0]

Return(r, code) == /\ Goto(r, "idle")
                   /\ result' = [result EXCEPT ![r] = code]
                   /\ mode' = [mode EXCEPT ![r] = "poll"]
                   /\ buf' = [buf EXCEPT ![r] = 0]
                   /\ totalRead' = [totalRead EXCEPT ![r] = 0]

(* Mutated form: the length is not looked at.                              *)
HasBuffer(l) == TRUE

(* ok=(binaryBuffer!=NULL) && (binaryBufferLen>0): another call returns    *)
(* JAVACALL_FAIL and changes nothing.  An empty event in the list would be *)
(* dequeued as nothing and lost.                                           *)
HasBytes(l) == l > 0

CallSend(t, l) ==
  /\ HasBytes(l)
  /\ calls[t] < MaxCalls[t]
  /\ calls' = [calls EXCEPT ![t] = @ + 1]
  /\ len' = [len EXCEPT ![t] = l]
  /\ Goto(t, "s_lock")

-----------------------------------------------------------------------------
(* javacall_event_send                                                     *)

BeginSend(t) ==
  /\ pc[t] = "idle"
  /\ \E l \in Lens : CallSend(t, l)
  /\ UNCHANGED <<sync, tail, recv, history>>

SendLock(t) ==
  /\ pc[t] = "s_lock"
  /\ mutex = Nobody
  /\ mutex' = t
  /\ Goto(t, "s_scan")
  /\ UNCHANGED <<signaled, queue, len, tail, recv, calls, history>>

(* Mutated form: the wait's result is ignored and the list used unlocked.  *)
SendLockTimeoutIgnored(t) ==
  /\ pc[t] = "s_lock"
  /\ mutex # Nobody
  /\ Goto(t, "s_scan")
  /\ UNCHANGED <<sync, len, tail, recv, calls, history>>

(* Mutated form: the wait's result is lost and the event signaled.         *)
SendLockTimeoutForgotten(t) ==
  /\ pc[t] = "s_lock"
  /\ mutex # Nobody
  /\ Goto(t, "s_set")
  /\ UNCHANGED <<sync, len, tail, recv, calls, history>>

(* WaitForSingleObject(events_mutex, 500) gave up.                         *)
SendLockTimeout(t) ==
  /\ pc[t] = "s_lock"
  /\ mutex # Nobody
  /\ refused' = refused \cup {Event(t)}
  /\ EndSend(t)
  /\ UNCHANGED <<sync, tail, recv, calls, posted, taken, accepted>>

(* enqueueEventMessage: iter walks to the end of the list ...              *)
SendScan(t) ==
  /\ pc[t] = "s_scan"
  /\ tail' = [tail EXCEPT ![t] = Len(queue)]
  /\ Goto(t, "s_link")
  /\ UNCHANGED <<sync, len, recv, calls, history>>

(* ... and *iter = elem hooks the node in behind the last one it saw.      *)
SendLink(t) ==
  /\ pc[t] = "s_link"
  /\ queue' = Append(SubSeq(queue, 1, tail[t]), Event(t))
  /\ posted' = Append(posted, Event(t))
  /\ tail' = [tail EXCEPT ![t] = 0]
  /\ Goto(t, "s_unlock")
  /\ UNCHANGED <<mutex, signaled, len, recv, calls, taken, accepted, refused>>

SendUnlock(t) ==
  /\ pc[t] = "s_unlock"
  /\ mutex' = Nobody
  /\ Goto(t, "s_set")
  /\ UNCHANGED <<signaled, queue, len, tail, recv, calls, history>>

SendSignal(t) ==
  /\ pc[t] = "s_set"
  /\ signaled' = TRUE
  /\ accepted' = accepted \cup {Event(t)}
  /\ EndSend(t)
  /\ UNCHANGED <<mutex, queue, tail, recv, calls, posted, taken, refused>>

-----------------------------------------------------------------------------
(* javacall_event_receive                                                  *)

BeginReceive(r) ==
  /\ pc[r] = "idle"
  /\ \E m \in Modes, b \in BufLens : /\ mode' = [mode EXCEPT ![r] = m]
                                     /\ buf' = [buf EXCEPT ![r] = b]
  /\ result' = [result EXCEPT ![r] = "none"]
  /\ Goto(r, "r_lock")
  /\ UNCHANGED <<sync, len, tail, totalRead, quit, calls, history>>

RecvLock(r) ==
  /\ pc[r] = "r_lock"
  /\ mutex = Nobody
  /\ mutex' = r
  /\ Goto(r, "r_copy")
  /\ UNCHANGED <<signaled, queue, len, tail, recv, calls, history>>

(* The lock timed out: ok is false, but totalRead is still 0, so the loop  *)
(* goes to checkForEvents like a receive that found nothing.               *)
RecvLockTimeout(r) ==
  /\ pc[r] = "r_lock"
  /\ mutex # Nobody
  /\ Goto(r, "peek")
  /\ UNCHANGED <<sync, len, tail, recv, calls, history>>

Shorter(a, b) == IF a < b THEN a ELSE b

(* dequeueEventMessage copies as much of the first event as fits ...       *)
RecvCopy(r) ==
  /\ pc[r] = "r_copy"
  /\ \/ /\ queue = << >>
        /\ Goto(r, "r_check")
        /\ UNCHANGED totalRead
     \/ /\ queue # << >>
        /\ totalRead' = [totalRead EXCEPT ![r] = Shorter(buf[r], Head(queue).len)]
        /\ Goto(r, "r_pop")
  /\ UNCHANGED <<sync, len, tail, mode, buf, result, quit, calls, history>>

(* ... and unlinks and frees the node, whatever was copied.                *)
RecvPop(r) ==
  /\ pc[r] = "r_pop"
  /\ queue # << >>
  /\ queue' = Tail(queue)
  /\ taken' = Append(taken, [event |-> Head(queue), size |-> totalRead[r]])
  /\ Goto(r, "r_check")
  /\ UNCHANGED <<mutex, signaled, len, tail, recv, calls, posted, accepted, refused>>

(* Mutated form: the event is reset whenever something was dequeued.       *)
RecvCheckAlways(r) ==
  /\ pc[r] = "r_check"
  /\ Goto(r, "r_reset")
  /\ UNCHANGED <<sync, len, tail, recv, calls, history>>

(* if (head == NULL) ...                                                   *)
RecvCheck(r) ==
  /\ pc[r] = "r_check"
  /\ Goto(r, IF queue = << >> THEN "r_reset" ELSE "r_unlock")
  /\ UNCHANGED <<sync, len, tail, recv, calls, history>>

(* Mutated form: ResetEvent forgotten.                                     *)
RecvResetNot(r) ==
  /\ pc[r] = "r_reset"
  /\ Goto(r, "r_unlock")
  /\ UNCHANGED <<sync, len, tail, recv, calls, history>>

(* ... ResetEvent(events_handle)                                           *)
RecvReset(r) ==
  /\ pc[r] = "r_reset"
  /\ signaled' = FALSE
  /\ Goto(r, "r_unlock")
  /\ UNCHANGED <<mutex, queue, len, tail, recv, calls, history>>

RecvUnlock(r) ==
  /\ pc[r] = "r_unlock"
  /\ mutex' = Nobody
  /\ \/ /\ totalRead[r] = 0
        /\ Goto(r, "peek")
        /\ UNCHANGED <<mode, buf, totalRead, result>>
     \/ /\ totalRead[r] # 0
        /\ Return(r, "OK")
  /\ UNCHANGED <<signaled, queue, len, tail, quit, calls, history>>

-----------------------------------------------------------------------------
(* checkForEvents: PeekMessage and DispatchMessage, then                   *)
(* MsgWaitForMultipleObjects on events_handle and the message queue.       *)

(* A window message whose handler in WndProc sends an event; WM_CLOSE also *)
(* posts WM_QUIT.  It is found by PeekMessage, or it ends a wait that can  *)
(* be repeated (a wait with timeout 0 cannot).  Messages whose handlers    *)
(* send nothing change nothing here.                                       *)
Dispatch(r) ==
  /\ \/ pc[r] = "peek"
     \/ pc[r] = "wait" /\ ~signaled /\ mode[r] # "poll"
  /\ \E l \in Lens : CallSend(r, l)
  /\ UNCHANGED quit \/ quit' = [quit EXCEPT ![r] = TRUE]
  /\ UNCHANGED <<sync, tail, mode, buf, totalRead, result, history>>

PeekQuit(r) ==
  /\ pc[r] = "peek"
  /\ quit[r]
  /\ quit' = [quit EXCEPT ![r] = FALSE]
  /\ Return(r, "FAIL")
  /\ UNCHANGED <<sync, len, tail, calls, history>>

PeekNothing(r) ==
  /\ pc[r] = "peek"
  /\ ~quit[r]
  /\ Goto(r, "wait")
  /\ UNCHANGED <<sync, len, tail, recv, calls, history>>

WakeUp(r) ==
  /\ pc[r] = "wait"
  /\ signaled
  /\ Goto(r, "r_lock")
  /\ UNCHANGED <<sync, len, tail, recv, calls, history>>

(* WAIT_TIMEOUT, or a message that used up the time that was left.         *)
WaitTimeout(r) ==
  /\ pc[r] = "wait"
  /\ ~signaled
  /\ mode[r] # "forever"
  /\ Return(r, "FAIL")
  /\ UNCHANGED <<sync, len, tail, quit, calls, history>>

-----------------------------------------------------------------------------
SendStep(t) == \/ SendLock(t) \/ SendLockTimeout(t) \/ SendScan(t)
               \/ SendLink(t) \/ SendUnlock(t) \/ SendSignal(t)

RecvStep(r) == \/ RecvLock(r) \/ RecvLockTimeout(r) \/ RecvCopy(r) \/ RecvPop(r)
               \/ RecvCheck(r) \/ RecvReset(r) \/ RecvUnlock(r)
               \/ PeekQuit(r) \/ PeekNothing(r) \/ WakeUp(r) \/ WaitTimeout(r)

Next == \/ \E t \in Threads : SendStep(t)
        \/ \E t \in Senders : BeginSend(t)
        \/ \E r \in Receivers : BeginReceive(r) \/ Dispatch(r) \/ RecvStep(r)

Spec == Init /\ [][Next]_vars

(* Windows schedules every runnable thread, and the VM's loop calls receive *)
(* again whenever it returned; nothing obliges anyone to send.              *)
FairSpec == /\ Spec
            /\ \A t \in Senders : WF_vars(SendStep(t))
            /\ \A r \in Receivers : WF_vars(SendStep(r) \/ RecvStep(r) \/ BeginReceive(r))

-----------------------------------------------------------------------------
(* The state stays well-formed: every thread's locals keep their ranges and *)
(* the list holds only events somebody sent.                               *)
TypeOK ==
  /\ mutex \in Threads \cup {Nobody}
  /\ signaled \in BOOLEAN
  /\ queue \in Seq(Msgs)
  /\ pc \in [Threads -> {"idle"} \cup SendPcs \cup RecvPcs]
  /\ len \in [Threads -> Lens \cup {0}]
  /\ tail \in [Threads -> Nat]
  /\ mode \in [Receivers -> Modes]
  /\ buf \in [Receivers -> BufLens \cup {0}]
  /\ totalRead \in [Receivers -> Nat]
  /\ result \in [Receivers -> {"none", "OK", "FAIL"}]
  /\ quit \in [Receivers -> BOOLEAN]
  /\ calls \in [Threads -> Nat]
  /\ \A t \in Threads : calls[t] <= MaxCalls[t]
  /\ posted \in Seq(Msgs)
  /\ taken \in Seq([event : Msgs, size : Nat])
  /\ accepted \subseteq Msgs
  /\ refused \subseteq Msgs
  /\ \A t \in Senders : pc[t] \in {"idle"} \cup SendPcs

(* No lost wakeup: events_handle is set after the mutex was given up and   *)
(* reset by receivers, yet a list that is not empty always has the event   *)
(* signaled, or a sender on its way to signal it.  A receiver that sleeps  *)
(* in MsgWaitForMultipleObjects is never left there with an event queued.  *)
NoLostWakeup ==
  queue # << >> => signaled \/ \E t \in Threads : pc[t] \in {"s_unlock", "s_set"}

(* Nothing is lost, duplicated or reordered in the list: what was linked   *)
(* is what was unlinked followed by what is still there.                   *)
InOrder ==
  /\ Len(posted) = Len(taken) + Len(queue)
  /\ \A i \in 1..Len(taken) : taken[i].event = posted[i]
  /\ \A i \in 1..Len(queue) : queue[i] = posted[Len(taken) + i]

(* The value a send returns says what happened to the event: an accepted   *)
(* event is in the list exactly once, after every earlier one of the same  *)
(* thread; a refused one never was.                                        *)
SendResultTruthful ==
  /\ \A e \in accepted : \E i \in 1..Len(posted) : posted[i] = e
  /\ \A e \in refused : \A i \in 1..Len(posted) : posted[i] # e
  /\ \A i, j \in 1..Len(posted) :
       i < j /\ posted[i].src = posted[j].src => posted[i].no < posted[j].no

-----------------------------------------------------------------------------
(* The queue as the VM sees it: the list is the channel, and an event      *)
(* counts as received when its node is unlinked.                           *)
Channel == INSTANCE EventChannel WITH
             Events <- Msgs, Length <- [e \in Msgs |-> e.len],
             Buffers <- BufLens, chan <- queue, taken <- taken

(* The locked list implements a FIFO channel that hands out every event.   *)
(* As in the code, the channel cuts an event to the receiver's buffer and  *)
(* says nothing of it; javacall_events.h promises JAVACALL_OUT_OF_MEMORY.  *)
ImplementsChannel == Channel!Spec

(* A receive that polls or waits for a bounded time returns, however often *)
(* it is woken with nothing to read.                                       *)
TimedReceiveReturns ==
  \A r \in Receivers :
    (pc[r] # "idle" /\ mode[r] # "forever") ~> (pc[r] = "idle")
=============================================================================

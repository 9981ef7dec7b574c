--------------------------- MODULE EventQueueProofs ---------------------------
(***************************************************************************)
(* Proofs about EventQueue for any number of senders and receivers, any    *)
(* event and buffer sizes and any number of calls.                         *)
(***************************************************************************)
EXTENDS EventQueue, TLAPS

(* What each thread may rely on between its own steps.                     *)

SendLocals == \A t \in Threads :
  pc[t] \in SendPcs => calls[t] >= 1 /\ len[t] \in Sizes

RecvLocals == \A r \in Receivers : pc[r] # "idle" => buf[r] \in BufLens

TypeInv == TypeOK /\ SendLocals /\ RecvLocals

(* The list is touched by one thread at a time.                            *)
MutualExclusion == \A t \in Threads : pc[t] \in Critical <=> mutex = t

(* What a thread read of the list still holds when it acts on it.          *)
ReadsStayTrue ==
  /\ \A t \in Threads : pc[t] = "s_link" => tail[t] = Len(queue)
  /\ \A r \in Receivers :
       /\ pc[r] = "r_pop" => /\ queue # << >>
                             /\ totalRead[r] = Shorter(buf[r], Head(queue).len)
       /\ pc[r] = "r_reset" => queue = << >>

IInv == TypeInv /\ MutualExclusion /\ ReadsStayTrue

-----------------------------------------------------------------------------
(* Every event has a sender, a number and a positive size.                 *)
LEMMA MsgFields ==
  ASSUME NEW e \in Msgs
  PROVE  /\ e.src \in Threads /\ e.no \in Nat /\ e.len \in Nat
         /\ e.len \in Sizes
<1>1. PICK t \in Threads : e \in [src : {t}, no : 1..MaxCalls[t], len : Sizes]
  BY DEF Msgs
<1>2. e.src = t /\ e.no \in 1..MaxCalls[t] /\ e.len \in Sizes
  BY <1>1
<1>3. MaxCalls[t] \in Nat
  BY MaxCallsAssumption DEF Threads
<1>4. e.no \in Nat
  BY <1>2, <1>3
<1>5. e.len \in Nat
  BY <1>2, SizesAssumption DEF Sizes
<1> QED
  BY <1>2, <1>4, <1>5

(* What a thread in the middle of a send carries is an event.              *)
LEMMA EventIsMsg ==
  ASSUME TypeInv, NEW t \in Threads, pc[t] \in SendPcs
  PROVE  Event(t) \in Msgs
<1>1. calls[t] \in 1..MaxCalls[t] /\ len[t] \in Sizes
  BY MaxCallsAssumption DEF TypeInv, TypeOK, SendLocals, Threads
<1>2. Event(t) \in [src : {t}, no : 1..MaxCalls[t], len : Sizes]
  BY <1>1 DEF Event
<1> QED
  BY <1>2 DEF Msgs

LEMMA InitTypeInv == Init => TypeInv
<1> SUFFICES ASSUME Init PROVE TypeInv
  OBVIOUS
<1>1. SendLocals /\ RecvLocals
  BY DEF Init, SendLocals, RecvLocals, SendPcs, Threads
<1>2. \A t \in Threads : calls[t] <= MaxCalls[t]
  BY MaxCallsAssumption DEF Init, Threads
<1>3. queue \in Seq(Msgs) /\ posted \in Seq(Msgs)
       /\ taken \in Seq([event : Msgs, size : Nat])
  BY DEF Init
<1>4. TypeOK
  BY <1>2, <1>3 DEF Init, TypeOK, Threads, Modes
<1> QED
  BY <1>1, <1>4 DEF TypeInv

(* Type correctness, with the locals a call needs.                         *)
LEMMA TypeStep == IInv /\ [Next]_vars => TypeInv'
<1> SUFFICES ASSUME TypeInv, ReadsStayTrue, [Next]_vars PROVE TypeInv'
  BY DEF IInv
<1> USE DEF TypeInv, TypeOK, SendLocals, RecvLocals, Goto, sync, recv, history
<1> USE DEF SendPcs, RecvPcs, Threads, Modes
<1>1. ASSUME NEW t \in Threads, SendLock(t) PROVE TypeInv'
  BY <1>1 DEF SendLock
<1>2. ASSUME NEW t \in Threads, SendLockTimeout(t) PROVE TypeInv'
  <2>1. Event(t) \in Msgs
    BY <1>2, EventIsMsg DEF SendLockTimeout
  <2> QED
    BY <1>2, <2>1, ThreadsAssumption DEF SendLockTimeout, EndSend, AfterSend
<1>3. ASSUME NEW t \in Threads, SendScan(t) PROVE TypeInv'
  BY <1>3 DEF SendScan
<1>4. ASSUME NEW t \in Threads, SendLink(t) PROVE TypeInv'
  <2>1. Event(t) \in Msgs
    BY <1>4, EventIsMsg DEF SendLink
  <2>2. SubSeq(queue, 1, tail[t]) \in Seq(Msgs)
    BY <1>4 DEF SendLink, ReadsStayTrue
  <2>3. queue' \in Seq(Msgs) /\ posted' \in Seq(Msgs)
    BY <1>4, <2>1, <2>2 DEF SendLink
  <2> QED
    BY <1>4, <2>3 DEF SendLink
<1>5. ASSUME NEW t \in Threads, SendUnlock(t) PROVE TypeInv'
  BY <1>5 DEF SendUnlock
<1>6. ASSUME NEW t \in Threads, SendSignal(t) PROVE TypeInv'
  <2>1. Event(t) \in Msgs
    BY <1>6, EventIsMsg DEF SendSignal
  <2> QED
    BY <1>6, <2>1, ThreadsAssumption DEF SendSignal, EndSend, AfterSend
<1>7. ASSUME NEW t \in Senders, BeginSend(t) PROVE TypeInv'
  BY <1>7, MaxCallsAssumption, ThreadsAssumption DEF BeginSend, CallSend, HasBytes, Sizes
<1>8. ASSUME NEW r \in Receivers, BeginReceive(r) PROVE TypeInv'
  BY <1>8, ThreadsAssumption DEF BeginReceive
<1>9. ASSUME NEW r \in Receivers, Dispatch(r) PROVE TypeInv'
  <2>1. PICK l \in Lens : CallSend(r, l)
    BY <1>9 DEF Dispatch
  <2>2. /\ calls' \in [Threads -> Nat]
        /\ \A t \in Threads : calls'[t] <= MaxCalls[t]
    BY <2>1, MaxCallsAssumption DEF CallSend
  <2>3. quit' \in [Receivers -> BOOLEAN]
    BY <1>9 DEF Dispatch
  <2>4. SendLocals' /\ RecvLocals'
    BY <1>9, <2>1, ThreadsAssumption DEF Dispatch, CallSend, HasBytes, Sizes
  <2> QED
    BY <1>9, <2>1, <2>2, <2>3, <2>4, ThreadsAssumption DEF Dispatch, CallSend
<1>10. ASSUME NEW r \in Receivers, RecvLock(r) \/ RecvLockTimeout(r) PROVE TypeInv'
  <2>1. CASE RecvLock(r)
    BY <2>1, ThreadsAssumption DEF RecvLock
  <2>2. CASE RecvLockTimeout(r)
    BY <2>2, ThreadsAssumption DEF RecvLockTimeout
  <2> QED
    BY <1>10, <2>1, <2>2
<1>11. ASSUME NEW r \in Receivers, RecvCopy(r) PROVE TypeInv'
  <2>1. queue # << >> => Head(queue).len \in Nat
    BY MsgFields
  <2>2. totalRead' \in [Receivers -> Nat]
    BY <1>11, <2>1, SizesAssumption DEF RecvCopy, Shorter
  <2> QED
    BY <1>11, <2>2, ThreadsAssumption DEF RecvCopy
<1>12. ASSUME NEW r \in Receivers, RecvPop(r) PROVE TypeInv'
  <2>1. queue' \in Seq(Msgs) /\ taken' \in Seq([event : Msgs, size : Nat])
    BY <1>12 DEF RecvPop
  <2> QED
    BY <1>12, <2>1, ThreadsAssumption DEF RecvPop
<1>13. ASSUME NEW r \in Receivers, RecvCheck(r) \/ RecvReset(r) PROVE TypeInv'
  BY <1>13, ThreadsAssumption DEF RecvCheck, RecvReset
<1>14. ASSUME NEW r \in Receivers, RecvUnlock(r) PROVE TypeInv'
  <2>1. CASE Return(r, "OK")
    BY <1>14, <2>1, ThreadsAssumption DEF RecvUnlock, Return
  <2>2. CASE Goto(r, "peek") /\ UNCHANGED <<mode, buf, totalRead, result>>
    BY <1>14, <2>2, ThreadsAssumption DEF RecvUnlock
  <2> QED
    BY <1>14, <2>1, <2>2 DEF RecvUnlock
<1>15. ASSUME NEW r \in Receivers, PeekQuit(r) \/ WaitTimeout(r) PROVE TypeInv'
  <2>1. CASE PeekQuit(r)
    BY <2>1, ThreadsAssumption DEF PeekQuit, Return
  <2>2. CASE WaitTimeout(r)
    BY <2>2, ThreadsAssumption DEF WaitTimeout, Return
  <2> QED
    BY <1>15, <2>1, <2>2
<1>16. ASSUME NEW r \in Receivers, PeekNothing(r) \/ WakeUp(r) PROVE TypeInv'
  BY <1>16, ThreadsAssumption DEF PeekNothing, WakeUp
<1>17. CASE UNCHANGED vars
  BY <1>17 DEF vars
<1> QED
  BY <1>1, <1>2, <1>3, <1>4, <1>5, <1>6, <1>7, <1>8, <1>9, <1>10, <1>11, <1>12,
     <1>13, <1>14, <1>15, <1>16, <1>17 DEF Next, SendStep, RecvStep

-----------------------------------------------------------------------------
(* The owner of events_mutex is the one thread between lock and unlock.    *)
LEMMA MutexStep == IInv /\ [Next]_vars => MutualExclusion'
<1> SUFFICES ASSUME TypeOK, MutualExclusion, [Next]_vars PROVE MutualExclusion'
  BY DEF IInv, TypeInv
<1> USE ThreadsAssumption DEF MutualExclusion, Critical, SendCritical, RecvCritical,
    Goto, sync, recv, history, Threads
<1>1. pc \in [Threads -> {"idle"} \cup SendPcs \cup RecvPcs]
  BY DEF TypeOK
<1>2. ASSUME NEW t \in Threads, SendLock(t) \/ SendScan(t) \/ SendLink(t) \/ SendUnlock(t)
      PROVE  MutualExclusion'
  BY <1>1, <1>2 DEF SendLock, SendScan, SendLink, SendUnlock
<1>3. ASSUME NEW t \in Threads, SendLockTimeout(t) \/ SendSignal(t)
      PROVE  MutualExclusion'
  BY <1>1, <1>3 DEF SendLockTimeout, SendSignal, EndSend, AfterSend
<1>4. ASSUME NEW t \in Senders, BeginSend(t) PROVE MutualExclusion'
  BY <1>1, <1>4 DEF BeginSend, CallSend, HasBytes
<1>5. ASSUME NEW r \in Receivers, BeginReceive(r) \/ Dispatch(r)
      PROVE  MutualExclusion'
  BY <1>1, <1>5 DEF BeginReceive, Dispatch, CallSend
<1>6. ASSUME NEW r \in Receivers, RecvLock(r) \/ RecvLockTimeout(r) \/ RecvCopy(r)
      PROVE  MutualExclusion'
  BY <1>1, <1>6 DEF RecvLock, RecvLockTimeout, RecvCopy
<1>7. ASSUME NEW r \in Receivers, RecvPop(r) \/ RecvCheck(r) \/ RecvReset(r)
      PROVE  MutualExclusion'
  BY <1>1, <1>7 DEF RecvPop, RecvCheck, RecvReset
<1>8. ASSUME NEW r \in Receivers, RecvUnlock(r) PROVE MutualExclusion'
  BY <1>1, <1>8 DEF RecvUnlock, Return
<1>9. ASSUME NEW r \in Receivers,
             PeekQuit(r) \/ PeekNothing(r) \/ WakeUp(r) \/ WaitTimeout(r)
      PROVE  MutualExclusion'
  BY <1>1, <1>9 DEF PeekQuit, PeekNothing, WakeUp, WaitTimeout, Return
<1>10. CASE UNCHANGED vars
  BY <1>10 DEF vars
<1> QED
  BY <1>2, <1>3, <1>4, <1>5, <1>6, <1>7, <1>8, <1>9, <1>10 DEF Next, SendStep, RecvStep

(* A thread that holds the mutex is not overtaken: its reads of the list   *)
(* stay true until it acts on them.                                        *)
LEMMA ReadsStep == IInv /\ [Next]_vars => ReadsStayTrue'
<1> SUFFICES ASSUME TypeOK, MutualExclusion, ReadsStayTrue, [Next]_vars
             PROVE  ReadsStayTrue'
  BY DEF IInv, TypeInv
<1> USE ThreadsAssumption DEF ReadsStayTrue, Goto, sync, recv, history, Threads
<1>1. /\ pc \in [Threads -> {"idle"} \cup SendPcs \cup RecvPcs]
      /\ tail \in [Threads -> Nat]
      /\ totalRead \in [Receivers -> Nat]
      /\ buf \in [Receivers -> BufLens \cup {0}]
  BY DEF TypeOK
(* Whoever is about to change the list keeps all others out of it.         *)
<1>2. ASSUME NEW t \in Threads, NEW u \in Threads, pc[t] \in Critical, pc[u] \in Critical
      PROVE  t = u
  BY <1>2 DEF MutualExclusion
<1>3. ASSUME NEW t \in Threads, SendLink(t) PROVE ReadsStayTrue'
  BY <1>1, <1>2, <1>3 DEF SendLink, Critical, SendCritical, RecvCritical
<1>4. ASSUME NEW t \in Threads, SendLock(t) \/ SendScan(t) \/ SendUnlock(t)
      PROVE  ReadsStayTrue'
  BY <1>1, <1>4 DEF SendLock, SendScan, SendUnlock
<1>5. ASSUME NEW t \in Threads, SendLockTimeout(t) \/ SendSignal(t)
      PROVE  ReadsStayTrue'
  BY <1>1, <1>5 DEF SendLockTimeout, SendSignal, EndSend, AfterSend
<1>6. ASSUME NEW t \in Senders, BeginSend(t) PROVE ReadsStayTrue'
  BY <1>1, <1>6 DEF BeginSend, CallSend, HasBytes
<1>7. ASSUME NEW r \in Receivers, BeginReceive(r) \/ Dispatch(r)
      PROVE  ReadsStayTrue'
  BY <1>1, <1>7 DEF BeginReceive, Dispatch, CallSend
<1>8. ASSUME NEW r \in Receivers, RecvLock(r) \/ RecvLockTimeout(r) \/ RecvCopy(r)
      PROVE  ReadsStayTrue'
  BY <1>1, <1>8 DEF RecvLock, RecvLockTimeout, RecvCopy
<1>9. ASSUME NEW r \in Receivers, RecvPop(r) PROVE ReadsStayTrue'
  BY <1>1, <1>2, <1>9 DEF RecvPop, Critical, SendCritical, RecvCritical
<1>10. ASSUME NEW r \in Receivers, RecvCheck(r) \/ RecvReset(r) PROVE ReadsStayTrue'
  BY <1>1, <1>10 DEF RecvCheck, RecvReset
<1>11. ASSUME NEW r \in Receivers, RecvUnlock(r) PROVE ReadsStayTrue'
  BY <1>1, <1>11 DEF RecvUnlock, Return
<1>12. ASSUME NEW r \in Receivers,
              PeekQuit(r) \/ PeekNothing(r) \/ WakeUp(r) \/ WaitTimeout(r)
       PROVE  ReadsStayTrue'
  BY <1>1, <1>12 DEF PeekQuit, PeekNothing, WakeUp, WaitTimeout, Return
<1>13. CASE UNCHANGED vars
  BY <1>13 DEF vars
<1> QED
  BY <1>3, <1>4, <1>5, <1>6, <1>7, <1>8, <1>9, <1>10, <1>11, <1>12, <1>13
     DEF Next, SendStep, RecvStep

LEMMA InitIInv == Init => IInv
<1>1. Init => MutualExclusion
  BY ThreadsAssumption
     DEF Init, MutualExclusion, Critical, SendCritical, RecvCritical, Threads
<1>2. Init => ReadsStayTrue
  BY DEF Init, ReadsStayTrue, Threads
<1> QED
  BY <1>1, <1>2, InitTypeInv DEF IInv

(* The strengthening every theorem below rests on.                         *)
LEMMA InvariantIInv == Spec => []IInv
<1>1. IInv /\ [Next]_vars => IInv'
  BY TypeStep, MutexStep, ReadsStep DEF IInv
<1> QED
  BY InitIInv, <1>1, PTL DEF Spec

(* The state stays well-formed in every behaviour.                         *)
THEOREM TypeCorrect == Spec => []TypeOK
<1>1. IInv => TypeOK
  BY DEF IInv, TypeInv
<1> QED
  BY InvariantIInv, <1>1, PTL

-----------------------------------------------------------------------------
(* A list that is not empty has its event signaled or about to be.         *)
LEMMA WakeupStep == IInv /\ NoLostWakeup /\ [Next]_vars => NoLostWakeup'
<1> SUFFICES ASSUME TypeOK, MutualExclusion, ReadsStayTrue, NoLostWakeup, [Next]_vars
             PROVE  NoLostWakeup'
  BY DEF IInv, TypeInv
<1> USE DEF NoLostWakeup, Goto, sync, recv, history
<1>1. pc \in [Threads -> {"idle"} \cup SendPcs \cup RecvPcs] /\ Receivers \subseteq Threads
      /\ Senders \subseteq Threads
  BY DEF TypeOK, Threads
<1>2. ASSUME NEW t \in Threads, SendLink(t) PROVE NoLostWakeup'
  BY <1>1, <1>2 DEF SendLink
<1>3. ASSUME NEW t \in Threads, SendLock(t) \/ SendScan(t) \/ SendUnlock(t)
      PROVE  NoLostWakeup'
  BY <1>1, <1>3 DEF SendLock, SendScan, SendUnlock
<1>4. ASSUME NEW t \in Threads, SendLockTimeout(t) \/ SendSignal(t)
      PROVE  NoLostWakeup'
  BY <1>1, <1>4 DEF SendLockTimeout, SendSignal, EndSend, AfterSend
<1>5. ASSUME NEW t \in Senders, BeginSend(t) PROVE NoLostWakeup'
  BY <1>1, <1>5 DEF BeginSend, CallSend, HasBytes
<1>6. ASSUME NEW r \in Receivers, BeginReceive(r) \/ Dispatch(r)
      PROVE  NoLostWakeup'
  BY <1>1, <1>6 DEF BeginReceive, Dispatch, CallSend
<1>7. ASSUME NEW r \in Receivers, RecvLock(r) \/ RecvLockTimeout(r) \/ RecvCopy(r)
      PROVE  NoLostWakeup'
  BY <1>1, <1>7 DEF RecvLock, RecvLockTimeout, RecvCopy
<1>8. ASSUME NEW r \in Receivers, RecvPop(r) \/ RecvCheck(r) PROVE NoLostWakeup'
  BY <1>1, <1>8 DEF RecvPop, RecvCheck
(* The reset happens with the list known to be empty.                      *)
<1>9. ASSUME NEW r \in Receivers, RecvReset(r) PROVE NoLostWakeup'
  BY <1>9 DEF RecvReset, ReadsStayTrue
<1>10. ASSUME NEW r \in Receivers, RecvUnlock(r) PROVE NoLostWakeup'
  BY <1>1, <1>10 DEF RecvUnlock, Return
<1>11. ASSUME NEW r \in Receivers,
              PeekQuit(r) \/ PeekNothing(r) \/ WakeUp(r) \/ WaitTimeout(r)
       PROVE  NoLostWakeup'
  BY <1>1, <1>11 DEF PeekQuit, PeekNothing, WakeUp, WaitTimeout, Return
<1>12. CASE UNCHANGED vars
  BY <1>12 DEF vars
<1> QED
  BY <1>2, <1>3, <1>4, <1>5, <1>6, <1>7, <1>8, <1>9, <1>10, <1>11, <1>12
     DEF Next, SendStep, RecvStep

(* No receiver is left asleep with an event in the list.                   *)
THEOREM WakeupNeverLost == Spec => []NoLostWakeup
<1>1. Init => NoLostWakeup
  BY DEF Init, NoLostWakeup
<1> QED
  BY InvariantIInv, <1>1, WakeupStep, PTL DEF Spec

-----------------------------------------------------------------------------
(* The list changes in two ways only, and both are steps of the channel.   *)
LEMMA LinkAppends ==
  ASSUME IInv, NEW t \in Threads, SendLink(t)
  PROVE  /\ Event(t) \in Msgs
         /\ queue' = Append(queue, Event(t))
         /\ posted' = Append(posted, Event(t))
         /\ taken' = taken
<1>1. Event(t) \in Msgs
  BY EventIsMsg DEF SendLink, SendPcs, IInv
<1>2. tail[t] = Len(queue) /\ queue \in Seq(Msgs)
  BY DEF SendLink, IInv, ReadsStayTrue, TypeInv, TypeOK
<1>3. SubSeq(queue, 1, Len(queue)) = queue
  BY <1>2
<1> QED
  BY <1>1, <1>2, <1>3 DEF SendLink

LEMMA PopTakesHead ==
  ASSUME IInv, NEW r \in Receivers, RecvPop(r)
  PROVE  /\ queue # << >>
         /\ queue' = Tail(queue)
         /\ posted' = posted
         /\ taken' = Append(taken, [event |-> Head(queue),
                                    size |-> Shorter(buf[r], Head(queue).len)])
         /\ buf[r] \in BufLens
  BY DEF RecvPop, IInv, ReadsStayTrue, TypeInv, RecvLocals

LEMMA ListUnchanged ==
  ASSUME [Next]_vars,
         \A t \in Threads : ~ SendLink(t),
         \A r \in Receivers : ~ RecvPop(r)
  PROVE  UNCHANGED <<queue, posted, taken>>
<1> USE DEF sync, recv, history
<1>1. ASSUME NEW t \in Threads, SendStep(t) PROVE UNCHANGED <<queue, posted, taken>>
  BY <1>1 DEF SendStep, SendLock, SendLockTimeout, SendScan, SendUnlock, SendSignal
<1>2. ASSUME NEW t \in Senders, BeginSend(t) PROVE UNCHANGED <<queue, posted, taken>>
  BY <1>2 DEF BeginSend
<1>3. ASSUME NEW r \in Receivers, BeginReceive(r) \/ Dispatch(r)
      PROVE  UNCHANGED <<queue, posted, taken>>
  BY <1>3 DEF BeginReceive, Dispatch
<1>4. ASSUME NEW r \in Receivers, RecvStep(r) PROVE UNCHANGED <<queue, posted, taken>>
  BY <1>4 DEF RecvStep, RecvLock, RecvLockTimeout, RecvCopy, RecvCheck, RecvReset,
     RecvUnlock, PeekQuit, PeekNothing, WakeUp, WaitTimeout
<1>5. CASE UNCHANGED vars
  BY <1>5 DEF vars
<1> QED
  BY <1>1, <1>2, <1>3, <1>4, <1>5 DEF Next

(* First in, first out, nothing lost and nothing twice.                    *)
LEMMA OrderStep == IInv /\ InOrder /\ [Next]_vars => InOrder'
<1> SUFFICES ASSUME IInv, InOrder, [Next]_vars PROVE InOrder'
  OBVIOUS
<1>1. /\ queue \in Seq(Msgs) /\ posted \in Seq(Msgs)
      /\ taken \in Seq([event : Msgs, size : Nat])
  BY DEF IInv, TypeInv, TypeOK
<1>2. ASSUME NEW t \in Threads, SendLink(t) PROVE InOrder'
  <2> DEFINE e == Event(t)
  <2>1. e \in Msgs /\ queue' = Append(queue, e) /\ posted' = Append(posted, e)
        /\ taken' = taken
    BY <1>2, LinkAppends
  <2> HIDE DEF e
  <2>2. /\ Len(queue') = Len(queue) + 1 /\ queue'[Len(queue) + 1] = e
        /\ \A i \in 1..Len(queue) : queue'[i] = queue[i]
    BY <1>1, <2>1
  <2>3. /\ Len(posted') = Len(posted) + 1 /\ posted'[Len(posted) + 1] = e
        /\ \A i \in 1..Len(posted) : posted'[i] = posted[i]
    BY <1>1, <2>1
  <2>4. Len(queue) \in Nat /\ Len(posted) \in Nat /\ Len(taken) \in Nat
    BY <1>1
  <2>5. Len(posted') = Len(taken') + Len(queue')
    BY <2>1, <2>2, <2>3, <2>4 DEF InOrder
  <2>6. ASSUME NEW i \in 1..Len(taken') PROVE taken'[i].event = posted'[i]
    BY <2>1, <2>3, <2>4, <2>6 DEF InOrder
  <2>7. ASSUME NEW i \in 1..Len(queue') PROVE queue'[i] = posted'[Len(taken') + i]
    <3>1. CASE i = Len(queue) + 1
      BY <3>1, <2>1, <2>2, <2>3, <2>4 DEF InOrder
    <3>2. CASE i \in 1..Len(queue)
      <4>1. queue'[i] = posted[Len(taken) + i]
        BY <3>2, <2>2 DEF InOrder
      <4>2. Len(posted) = Len(taken) + Len(queue)
        BY DEF InOrder
      <4>3. Len(taken) + i \in 1..Len(posted)
        BY <3>2, <4>2, <2>4
      <4> QED
        BY <4>1, <4>3, <2>1, <2>3
    <3> QED
      BY <2>2, <2>4, <3>1, <3>2
  <2> QED
    BY <2>5, <2>6, <2>7 DEF InOrder
<1>3. ASSUME NEW r \in Receivers, RecvPop(r) PROVE InOrder'
  <2> DEFINE got == [event |-> Head(queue), size |-> Shorter(buf[r], Head(queue).len)]
  <2>1. /\ queue # << >> /\ queue' = Tail(queue) /\ posted' = posted
        /\ taken' = Append(taken, got)
    BY <1>3, PopTakesHead
  <2>2. got.event = queue[1] /\ queue[1] = posted[Len(taken) + 1]
    BY <1>1, <2>1 DEF InOrder
  <2> HIDE DEF got
  <2>3. /\ Len(queue') = Len(queue) - 1
        /\ \A i \in 1..Len(queue') : queue'[i] = queue[i + 1]
    BY <1>1, <2>1
  <2>4. /\ Len(taken') = Len(taken) + 1
        /\ \A i \in 1..Len(taken) : taken'[i] = taken[i]
        /\ taken'[Len(taken) + 1] = got
    BY <1>1, <2>1
  <2>5. Len(queue) \in Nat /\ Len(taken) \in Nat /\ Len(queue') \in Nat
    BY <1>1, <2>1
  <2>6. Len(posted') = Len(taken') + Len(queue')
    <3>1. Len(posted) = Len(taken) + Len(queue)
      BY DEF InOrder
    <3> QED
      BY <2>1, <2>3, <2>4, <2>5, <3>1
  <2>7. ASSUME NEW i \in 1..Len(taken') PROVE taken'[i].event = posted'[i]
    <3>1. CASE i = Len(taken) + 1
      BY <3>1, <2>1, <2>2, <2>4
    <3>2. CASE i \in 1..Len(taken)
      BY <3>2, <2>1, <2>4 DEF InOrder
    <3> QED
      BY <2>4, <2>5, <3>1, <3>2
  <2>8. ASSUME NEW i \in 1..Len(queue') PROVE queue'[i] = posted'[Len(taken') + i]
    <3>1. i + 1 \in 1..Len(queue) /\ queue'[i] = queue[i + 1]
      BY <2>3, <2>5
    <3>2. queue[i + 1] = posted[Len(taken) + (i + 1)]
      BY <3>1 DEF InOrder
    <3> QED
      BY <2>1, <2>4, <2>5, <3>1, <3>2
  <2> QED
    BY <2>6, <2>7, <2>8 DEF InOrder
<1>4. CASE UNCHANGED <<queue, posted, taken>>
  BY <1>4 DEF InOrder
<1> QED
  BY <1>2, <1>3, <1>4, ListUnchanged

(* Events are handed over in the order in which they were linked.         *)
THEOREM FirstInFirstOut == Spec => []InOrder
<1>1. Init => InOrder
  BY DEF Init, InOrder
<1> QED
  BY InvariantIInv, <1>1, OrderStep, PTL DEF Spec

(* The locked list implements the abstract channel, step by step.          *)
THEOREM QueueImplementsChannel == Spec => Channel!Safety
<1>1. Init => Channel!Init
  BY DEF Init, Channel!Init
<1>2. IInv /\ [Next]_vars => [Channel!Next]_(Channel!vars)
  <2> SUFFICES ASSUME IInv, [Next]_vars PROVE [Channel!Next]_(Channel!vars)
    OBVIOUS
  <2>1. ASSUME NEW t \in Threads, SendLink(t) PROVE Channel!Next
    BY <2>1, LinkAppends DEF Channel!Next, Channel!Post
  <2>2. ASSUME NEW r \in Receivers, RecvPop(r) PROVE Channel!Next
    <3>0. queue # << >> /\ queue \in Seq(Msgs)
      BY <2>2, PopTakesHead DEF IInv, TypeInv, TypeOK
    <3>1. Head(queue) \in Msgs
      BY <3>0
    <3>2. [e \in Msgs |-> e.len][Head(queue)] = Head(queue).len
      BY <3>1
    <3>3. Channel!Take(buf[r])
      BY <2>2, <3>2, PopTakesHead DEF Channel!Take, Channel!Shorter, Shorter
    <3> QED
      BY <2>2, <3>3, PopTakesHead DEF Channel!Next
  <2>3. CASE UNCHANGED <<queue, posted, taken>>
    BY <2>3 DEF Channel!vars
  <2> QED
    BY <2>1, <2>2, <2>3, ListUnchanged
<1> QED
  BY InvariantIInv, <1>1, <1>2, PTL DEF Spec, Channel!Safety

-----------------------------------------------------------------------------
(* What a send returns.                                                    *)

Linking == {"s_lock", "s_scan", "s_link"}
Linked  == {"s_unlock", "s_set"}

(* A thread numbers its sends: an event in hand that is not linked yet is  *)
(* younger than all its thread has linked or been refused.                 *)
Numbered ==
  /\ \A t \in Threads, i \in 1..Len(posted) :
       posted[i].src = t => /\ posted[i].no <= calls[t]
                            /\ pc[t] \in Linking => posted[i].no < calls[t]
  /\ \A t \in Threads : \A e \in refused :
       e.src = t => /\ e.no <= calls[t]
                    /\ pc[t] \in SendPcs => e.no < calls[t]

(* An event that its send is about to signal is in the list or has been.   *)
InHandIsLinked ==
  \A t \in Threads : pc[t] \in Linked =>
    \E i \in 1..Len(posted) : posted[i] = Event(t)

Truthful == SendResultTruthful /\ Numbered /\ InHandIsLinked

LEMMA SendPlaces == SendPcs = Linking \cup Linked /\ Linking \cap Linked = {}
  BY DEF SendPcs, Linking, Linked

(* Steps that begin no send, link nothing and return from no send.         *)
LEMMA TruthQuiet ==
  ASSUME Truthful, UNCHANGED <<posted, calls, accepted, refused, len>>,
         \A t \in Threads : /\ pc'[t] \in Linking => pc[t] \in Linking
                            /\ pc'[t] \in Linked => pc[t] \in Linked
  PROVE  Truthful'
<1>1. SendResultTruthful'
  BY DEF Truthful, SendResultTruthful
<1>2. Numbered'
  BY SendPlaces DEF Truthful, Numbered
<1>3. InHandIsLinked'
  BY DEF Truthful, InHandIsLinked, Event
<1> QED
  BY <1>1, <1>2, <1>3 DEF Truthful

(* A new send is younger than all that came before.                        *)
LEMMA TruthCall ==
  ASSUME TypeOK, Truthful, NEW t \in Threads, NEW l \in Lens, CallSend(t, l),
         pc[t] \notin SendPcs, UNCHANGED <<posted, accepted, refused>>
  PROVE  Truthful'
<1>1. /\ calls' = [calls EXCEPT ![t] = calls[t] + 1]
      /\ len' = [len EXCEPT ![t] = l] /\ pc' = [pc EXCEPT ![t] = "s_lock"]
  BY DEF CallSend, Goto
<1>2. /\ calls[t] \in Nat /\ calls'[t] = calls[t] + 1 /\ pc'[t] = "s_lock"
      /\ \A u \in Threads : u # t => /\ calls'[u] = calls[u]
                                     /\ pc'[u] = pc[u] /\ len'[u] = len[u]
  BY <1>1 DEF TypeOK
<1>3. SendResultTruthful'
  BY DEF Truthful, SendResultTruthful
<1>4. /\ \A i \in 1..Len(posted) : posted[i] \in Msgs
      /\ \A e \in refused : e \in Msgs
  BY DEF TypeOK
<1>5. ASSUME NEW u \in Threads, NEW i \in 1..Len(posted), posted[i].src = u
      PROVE  /\ posted[i].no <= calls'[u]
             /\ pc'[u] \in Linking => posted[i].no < calls'[u]
  <2>1. posted[i].no <= calls[u] /\ posted[i].no \in Nat
    BY <1>4, <1>5, MsgFields DEF Truthful, Numbered
  <2>2. CASE u = t
    BY <1>2, <2>1, <2>2
  <2>3. CASE u # t
    BY <1>2, <1>5, <2>3 DEF Truthful, Numbered
  <2> QED
    BY <2>2, <2>3
<1>6. ASSUME NEW u \in Threads, NEW e \in refused, e.src = u
      PROVE  /\ e.no <= calls'[u]
             /\ pc'[u] \in SendPcs => e.no < calls'[u]
  <2>1. e.no <= calls[u] /\ e.no \in Nat
    BY <1>4, <1>6, MsgFields DEF Truthful, Numbered
  <2>2. CASE u = t
    BY <1>2, <2>1, <2>2
  <2>3. CASE u # t
    BY <1>2, <1>6, <2>3 DEF Truthful, Numbered
  <2> QED
    BY <2>2, <2>3
<1>7. ASSUME NEW u \in Threads, pc'[u] \in Linked
      PROVE  \E i \in 1..Len(posted) : posted[i] = Event(u)'
  <2>1. u # t
    BY <1>2, <1>7 DEF Linked
  <2>2. pc[u] \in Linked /\ Event(u)' = Event(u)
    BY <1>2, <1>7, <2>1 DEF Event
  <2> QED
    BY <2>2 DEF Truthful, InHandIsLinked
<1> QED
  BY <1>3, <1>5, <1>6, <1>7 DEF Truthful, Numbered, InHandIsLinked

LEMMA TruthLink ==
  ASSUME IInv, Truthful, NEW t \in Threads, SendLink(t)
  PROVE  Truthful'
<1> DEFINE e == Event(t)
           n == Len(posted)
<1>1. /\ e \in Msgs /\ posted' = Append(posted, e) /\ posted \in Seq(Msgs)
      /\ pc[t] = "s_link" /\ pc' = [pc EXCEPT ![t] = "s_unlock"]
      /\ UNCHANGED <<calls, len, accepted, refused>>
  BY LinkAppends DEF SendLink, Goto, IInv, TypeInv, TypeOK
<1>2. e.src = t /\ e.no = calls[t] /\ calls[t] \in Nat
  BY DEF Event, IInv, TypeInv, TypeOK
<1>3. \A u \in Threads : Event(u)' = Event(u)
  BY <1>1 DEF Event
<1>4. /\ pc'[t] = "s_unlock" /\ \A u \in Threads : u # t => pc'[u] = pc[u]
  BY <1>1 DEF IInv, TypeInv, TypeOK
<1> HIDE DEF e
<1>5. /\ n \in Nat /\ Len(posted') = n + 1 /\ posted'[n + 1] = e
      /\ \A i \in 1..n : posted'[i] = posted[i]
      /\ \A i \in 1..n : posted[i] \in Msgs
  BY <1>1
<1> HIDE DEF n
<1>6. \A i \in 1..n : /\ posted[i].src = t => posted[i].no < calls[t]
  BY <1>1 DEF Truthful, Numbered, Linking, n
<1>7. SendResultTruthful'
  <2>1. ASSUME NEW a \in accepted'
        PROVE  \E i \in 1..Len(posted') : posted'[i] = a
    <3>1. PICK i \in 1..n : posted[i] = a
      BY <1>1, <2>1 DEF Truthful, SendResultTruthful, n
    <3> QED
      BY <1>5, <3>1
  <2>2. ASSUME NEW a \in refused', NEW i \in 1..Len(posted')
        PROVE  posted'[i] # a
    <3>1. a \in refused
      BY <1>1, <2>2
    <3>2. CASE i \in 1..n
      BY <1>5, <3>1, <3>2 DEF Truthful, SendResultTruthful, n
    <3>3. CASE i = n + 1
      <4>1. a \in Msgs /\ (a.src = t => a.no < calls[t])
        BY <1>1, <3>1 DEF Truthful, Numbered, SendPcs, IInv, TypeInv, TypeOK
      <4>2. a.no \in Nat
        BY <4>1, MsgFields
      <4>3. a # e
        BY <1>2, <4>1, <4>2
      <4> QED
        BY <1>5, <3>3, <4>3
    <3> QED
      BY <1>5, <3>2, <3>3
  <2>3. ASSUME NEW i \in 1..Len(posted'), NEW j \in 1..Len(posted'),
               i < j, posted'[i].src = posted'[j].src
        PROVE  posted'[i].no < posted'[j].no
    <3>1. i \in 1..n
      BY <1>5, <2>3
    <3>2. CASE j \in 1..n
      BY <1>5, <2>3, <3>1, <3>2 DEF Truthful, SendResultTruthful, n
    <3>3. CASE j = n + 1
      BY <1>2, <1>5, <1>6, <2>3, <3>1, <3>3
    <3> QED
      BY <1>5, <3>2, <3>3
  <2> QED
    BY <2>1, <2>2, <2>3 DEF SendResultTruthful
<1>8. ASSUME NEW u \in Threads, NEW i \in 1..Len(posted'),
             posted'[i].src = u
      PROVE  /\ posted'[i].no <= calls'[u]
             /\ pc'[u] \in Linking => posted'[i].no < calls'[u]
  <2>0. calls' = calls /\ pc'[t] \notin Linking
    BY <1>1, <1>4 DEF Linking
  <2>1. CASE i \in 1..n
    <3>1. /\ posted[i].src = u /\ posted'[i] = posted[i]
      BY <1>5, <1>8, <2>1
    <3>2. /\ posted[i].no <= calls[u]
          /\ pc[u] \in Linking => posted[i].no < calls[u]
      BY <2>1, <3>1 DEF Truthful, Numbered, n
    <3> QED
      BY <1>4, <2>0, <3>1, <3>2
  <2>2. CASE i = n + 1
    <3>1. u = t /\ posted'[i].no = calls[t]
      BY <1>2, <1>5, <1>8, <2>2
    <3> QED
      BY <1>2, <2>0, <3>1
  <2> QED
    BY <1>5, <2>1, <2>2
<1>9. ASSUME NEW u \in Threads, NEW a \in refused', a.src = u
      PROVE  /\ a.no <= calls'[u]
             /\ pc'[u] \in SendPcs => a.no < calls'[u]
  BY <1>1, <1>4, <1>9 DEF Truthful, Numbered, SendPcs
<1>10. ASSUME NEW u \in Threads, pc'[u] \in Linked
       PROVE  \E i \in 1..Len(posted') : posted'[i] = Event(u)'
  <2>1. CASE u = t
    BY <1>3, <1>5, <2>1 DEF e
  <2>2. CASE u # t
    <3>1. PICK i \in 1..n : posted[i] = Event(u)
      BY <1>4, <1>10, <2>2 DEF Truthful, InHandIsLinked, n
    <3> QED
      BY <1>3, <1>5, <3>1
  <2> QED
    BY <2>1, <2>2
<1> QED
  BY <1>7, <1>8, <1>9, <1>10 DEF Truthful, Numbered, InHandIsLinked

(* A send returns: its event is linked, or younger than all that were.     *)
LEMMA TruthReturn ==
  ASSUME IInv, Truthful, NEW t \in Threads, SendSignal(t) \/ SendLockTimeout(t)
  PROVE  Truthful'
<1> DEFINE e == Event(t)
<1>1. /\ pc' = [pc EXCEPT ![t] = AfterSend(t)]
      /\ len' = [len EXCEPT ![t] = 0] /\ UNCHANGED <<posted, calls>>
  BY DEF SendSignal, SendLockTimeout, EndSend, Goto
<1>2. AfterSend(t) \notin SendPcs
  BY DEF AfterSend, SendPcs
<1>3. /\ pc'[t] \notin SendPcs
      /\ \A u \in Threads : u # t => pc'[u] = pc[u] /\ len'[u] = len[u]
  BY <1>1, <1>2 DEF IInv, TypeInv, TypeOK
<1>4. /\ e.src = t /\ e.no = calls[t] /\ calls[t] \in Nat
      /\ \A i \in 1..Len(posted) : posted[i] \in Msgs
  BY DEF Event, IInv, TypeInv, TypeOK
<1>5. InHandIsLinked'
  <2> SUFFICES ASSUME NEW u \in Threads, pc'[u] \in Linked
               PROVE  \E i \in 1..Len(posted) : posted[i] = Event(u)'
    BY <1>1 DEF InHandIsLinked
  <2>1. u # t /\ pc[u] \in Linked
    BY <1>3, SendPlaces
  <2>2. Event(u)' = Event(u)
    BY <1>1, <1>3, <2>1 DEF Event
  <2> QED
    BY <2>1, <2>2 DEF Truthful, InHandIsLinked
<1>6. \A u \in Threads, i \in 1..Len(posted') :
        posted'[i].src = u => /\ posted'[i].no <= calls'[u]
                              /\ pc'[u] \in Linking => posted'[i].no < calls'[u]
  BY <1>1, <1>3, SendPlaces DEF Truthful, Numbered
<1>7. CASE SendSignal(t)
  <2>1. pc[t] = "s_set" /\ accepted' = accepted \cup {e} /\ refused' = refused
    BY <1>7 DEF SendSignal
  <2>2. \E i \in 1..Len(posted) : posted[i] = e
    BY <2>1 DEF Truthful, InHandIsLinked, Linked
  <2> HIDE DEF e
  <2>3. SendResultTruthful'
    BY <1>1, <2>1, <2>2 DEF Truthful, SendResultTruthful
  <2>4. \A u \in Threads : \A a \in refused' :
          a.src = u => /\ a.no <= calls'[u]
                       /\ pc'[u] \in SendPcs => a.no < calls'[u]
    BY <1>1, <1>3, <2>1 DEF Truthful, Numbered
  <2> QED
    BY <1>5, <1>6, <2>3, <2>4 DEF Truthful, Numbered
<1>8. CASE SendLockTimeout(t)
  <2>1. pc[t] = "s_lock" /\ refused' = refused \cup {e} /\ accepted' = accepted
    BY <1>8 DEF SendLockTimeout
  <2> HIDE DEF e
  <2>2. ASSUME NEW i \in 1..Len(posted) PROVE posted[i] # e
    <3>1. posted[i].src = t => posted[i].no < calls[t]
      BY <2>1 DEF Truthful, Numbered, Linking
    <3>2. posted[i].no \in Nat
      BY <1>4, MsgFields
    <3> QED
      BY <1>4, <3>1, <3>2
  <2>3. SendResultTruthful'
    BY <1>1, <2>1, <2>2 DEF Truthful, SendResultTruthful
  <2>4. ASSUME NEW u \in Threads, NEW a \in refused', a.src = u
        PROVE  /\ a.no <= calls'[u]
               /\ pc'[u] \in SendPcs => a.no < calls'[u]
    <3>1. CASE a = e
      BY <1>1, <1>3, <1>4, <2>4, <3>1
    <3>2. CASE a \in refused
      BY <1>1, <1>3, <2>4, <3>2 DEF Truthful, Numbered
    <3> QED
      BY <2>1, <3>1, <3>2
  <2> QED
    BY <1>5, <1>6, <2>3, <2>4 DEF Truthful, Numbered
<1> QED
  BY <1>7, <1>8

LEMMA TruthStep == IInv /\ Truthful /\ [Next]_vars => Truthful'
<1> SUFFICES ASSUME IInv, TypeOK, Truthful, [Next]_vars PROVE Truthful'
  BY DEF IInv, TypeInv
<1>0. /\ pc \in [Threads -> {"idle"} \cup SendPcs \cup RecvPcs]
      /\ Senders \subseteq Threads /\ Receivers \subseteq Threads
  BY DEF TypeOK, Threads
<1> USE DEF Goto, sync, recv, history
<1>1. ASSUME NEW t \in Threads,
             SendLock(t) \/ SendScan(t) \/ SendUnlock(t)
      PROVE  Truthful'
  <2>1. UNCHANGED <<posted, calls, accepted, refused, len>>
    BY <1>1 DEF SendLock, SendScan, SendUnlock
  <2>2. \A u \in Threads : /\ pc'[u] \in Linking => pc[u] \in Linking
                           /\ pc'[u] \in Linked => pc[u] \in Linked
    BY <1>0, <1>1 DEF SendLock, SendScan, SendUnlock, Linking, Linked
  <2> QED
    BY <2>1, <2>2, TruthQuiet
<1>2. ASSUME NEW t \in Threads, SendLink(t) PROVE Truthful'
  BY <1>2, TruthLink
<1>3. ASSUME NEW t \in Threads, SendSignal(t) \/ SendLockTimeout(t)
      PROVE  Truthful'
  BY <1>3, TruthReturn
<1>4. ASSUME NEW t \in Senders, BeginSend(t) PROVE Truthful'
  <2>1. PICK l \in Lens : CallSend(t, l)
    BY <1>4 DEF BeginSend
  <2>2. pc[t] \notin SendPcs /\ UNCHANGED <<posted, accepted, refused>>
    BY <1>4 DEF BeginSend, SendPcs
  <2> QED
    BY <1>0, <2>1, <2>2, TruthCall
<1>5. ASSUME NEW r \in Receivers, Dispatch(r) PROVE Truthful'
  <2>1. PICK l \in Lens : CallSend(r, l)
    BY <1>5 DEF Dispatch
  <2>2. pc[r] \notin SendPcs /\ UNCHANGED <<posted, accepted, refused>>
    BY <1>5 DEF Dispatch, SendPcs
  <2> QED
    BY <1>0, <2>1, <2>2, TruthCall
<1>6. ASSUME NEW r \in Receivers, BeginReceive(r) \/ RecvStep(r)
      PROVE  Truthful'
  <2>1. UNCHANGED <<posted, calls, accepted, refused, len>>
    BY <1>6 DEF BeginReceive, RecvStep, RecvLock, RecvLockTimeout, RecvCopy,
                RecvPop, RecvCheck, RecvReset, RecvUnlock, PeekQuit,
                PeekNothing, WakeUp, WaitTimeout
  <2>2. \E l \in {"idle"} \cup RecvPcs : pc' = [pc EXCEPT ![r] = l]
    BY <1>6 DEF BeginReceive, RecvStep, RecvLock, RecvLockTimeout, RecvCopy,
                RecvPop, RecvCheck, RecvReset, RecvUnlock, PeekQuit,
                PeekNothing, WakeUp, WaitTimeout, Return, RecvPcs
  <2>3. \A u \in Threads : /\ pc'[u] \in Linking => pc[u] \in Linking
                           /\ pc'[u] \in Linked => pc[u] \in Linked
    BY <1>0, <2>2 DEF Linking, Linked, RecvPcs
  <2> QED
    BY <2>1, <2>3, TruthQuiet
<1>7. CASE UNCHANGED vars
  <2>1. UNCHANGED <<posted, calls, accepted, refused, len, pc>>
    BY <1>7 DEF vars
  <2> QED
    BY <2>1, TruthQuiet
<1> QED
  BY <1>1, <1>2, <1>3, <1>4, <1>5, <1>6, <1>7 DEF Next, SendStep

(* What a send returns is true of its event.                               *)
THEOREM ResultsAreTrue == Spec => []SendResultTruthful
<1>1. Init => Truthful
  BY DEF Init, Truthful, SendResultTruthful, Numbered, InHandIsLinked, Linked
<1>2. Truthful => SendResultTruthful
  BY DEF Truthful
<1> QED
  BY InvariantIInv, <1>1, <1>2, TruthStep, PTL DEF Spec
=============================================================================

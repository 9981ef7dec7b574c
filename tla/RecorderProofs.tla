---------------------------- MODULE RecorderProofs ----------------------------
(***************************************************************************)
(* Proofs about Recorder for any number of headers, blocks of any length,  *)
(* and any limits.                                                         *)
(***************************************************************************)
EXTENDS Recorder, SequenceTheorems, TLAPS

Busy == thread.pc \in {"fit", "write", "limit"}

(* The thread lives only while a recording is open.                        *)
Lifetimes ==
  /\ thread.pc # "dead" => recInitDone
  /\ session = "none" <=> ~recInitDone
  /\ call # "idle" => recInitDone

(* Unless the limit has been set below recordLen, what the recording       *)
(* thread has in hand fits under it, or did so under the limit before it;  *)
(* then the recording ends with it.                                        *)
HandFits ==
  /\ lengthLimit # NoLimit /\ ~undercut =>
       /\ ~rsl /\ thread.pc # "limit" => recordLen <= lengthLimit
       /\ ~relimited =>
            /\ recordLen <= lengthLimit
            /\ thread.pc = "write" => recordLen + thread.len <= lengthLimit
       /\ recordLen <= lengthLimit + BlockLen
  /\ thread.pc = "write" /\ ~undercut => thread.len \in 0..BlockLen
  /\ thread.pc = "write" => ~rsl

(* Unless two events have become one, each full header has an event of its *)
(* own, or is in the thread's hand.                                        *)
EventForEach ==
  recInitDone /\ ~merged =>
    /\ thread.pc = "wait" /\ ~event => done = {}
    /\ thread.pc = "wait" /\ event => \E h \in Headers : done \subseteq {h}
    /\ Busy /\ ~event => done = {thread.hdr}
    /\ Busy /\ event => \E h \in Headers : done \subseteq {h, thread.hdr}

-----------------------------------------------------------------------------
LEMMA GrantType == ASSUME NEW size \in Sizes PROVE Grant(size) \in Int
  BY RecorderAssumption DEF Grant

(* What is left of a block under the limit, and what is written of it.     *)
LEMMA FitType ==
  ASSUME lengthLimit \in Int \cup {NoLimit}, recordLen \in Nat
  PROVE  /\ Fit(BlockLen) \in Lengths
         /\ lengthLimit # NoLimit /\ recordLen <= lengthLimit =>
              /\ Fit(BlockLen) \in 0..BlockLen
              /\ recordLen + Fit(BlockLen) <= lengthLimit
         /\ lengthLimit = NoLimit => Fit(BlockLen) = BlockLen
  BY RecorderAssumption DEF Fit, Lengths

LEMMA BlockAbove ==
  ASSUME NEW r \in Nat, NEW l \in Int, r <= l
  PROVE  r <= l + BlockLen
  BY RecorderAssumption

LEMMA TakenType ==
  ASSUME NEW len \in Lengths, NEW n \in Taken(len)
  PROVE  n \in Nat /\ (len \in 0..BlockLen => n = len)
  BY RecorderAssumption DEF Taken, Lengths

LEMMA WrittenLength ==
  ASSUME NEW f, Len(f) \in Nat, NEW p \in Nat, NEW n \in Nat, NEW s, Len(s) = n
  PROVE  Len(Written(f, p, s)) = IF Len(f) < p + n THEN p + n ELSE Len(f)
<1> DEFINE m == IF Len(f) < p + n THEN p + n ELSE Len(f)
<1>1. m \in Nat
  OBVIOUS
<1>2. Written(f, p, s) =
        [i \in 1..m |-> IF i \in (p + 1)..(p + Len(s)) THEN s[i - p] ELSE f[i]]
  BY DEF Written
<1> QED
  BY <1>1, <1>2

ThreadStates == [pc : {"dead", "wait", "fit", "write", "limit"},
                 hdr : Headers, len : Lengths]

LEMMA NoThreadType ==
  /\ 0 \in Headers /\ Headers \subseteq Nat
  /\ NoThread \in ThreadStates
  /\ [NoThread EXCEPT !.pc = "wait"] \in ThreadStates
  BY RecorderAssumption DEF NoThread, ThreadStates, Headers, Lengths

-----------------------------------------------------------------------------
Inv == TypeOK /\ Lifetimes /\ HandFits /\ HeadersAccounted /\ EventForEach

LEMMA InitInv == Init => Inv
<1> SUFFICES ASSUME Init PROVE Inv
  OBVIOUS
<1>1. TypeOK
  <2>1. /\ thread \in ThreadStates /\ data \in [Headers -> 0..MaxBlocks]
        /\ captured \in 0..MaxBlocks /\ reads \in 0..MaxReads
    BY NoThreadType, RecorderAssumption DEF Init
  <2>2. pos \in 0..Len(file)
    BY DEF Init
  <2>3. dev \in Seq(Headers) /\ done \subseteq Headers
    BY DEF Init
  <2> QED
    BY <2>1, <2>2, <2>3 DEF Init, TypeOK, ThreadStates
<1>2. Lifetimes /\ HandFits /\ HeadersAccounted /\ EventForEach
  BY DEF Init, NoThread, Lifetimes, HandFits, HeadersAccounted, EventForEach
<1> QED
  BY <1>1, <1>2 DEF Inv

(* Most steps of the recording thread change little else.                  *)
LEMMA ThreadOnly ==
  ASSUME TypeOK, thread' \in ThreadStates, event' \in BOOLEAN,
         UNCHANGED <<recInitDone, lengthLimit, rsl, recordLen, file, pos,
                     started, dev, done, data, captured, merged, terminate,
                     call, session, relimited, undercut, reads>>
  PROVE  TypeOK'
  BY DEF TypeOK, ThreadStates

LEMMA TypeStep ==
  TypeOK /\ Lifetimes /\ HandFits /\ [Next]_vars => TypeOK'
<1> SUFFICES ASSUME TypeOK, Lifetimes, HandFits, [Next]_vars PROVE TypeOK'
  OBVIOUS
<1>a. thread \in ThreadStates
  BY DEF TypeOK, ThreadStates
<1>b. Len(HeadCells) = HeadLen /\ Len(file) \in Nat /\ pos \in Nat
      /\ pos <= Len(file)
  BY RecorderAssumption DEF HeadCells, TypeOK
<1>1. CASE SetLimit
  BY <1>1, GrantType DEF SetLimit, TypeOK, fileVars, deviceVars
<1>2. CASE StartFirst
  <2>1. dev' \in Seq(Headers)
    <3>1. \A i \in 1..HdrsCount : i - 1 \in Headers
      BY RecorderAssumption DEF Headers
    <3>2. dev' = [i \in 1..HdrsCount |-> i - 1] /\ HdrsCount \in Nat
      BY <1>2, RecorderAssumption DEF StartFirst
    <3> QED
      BY <3>1, <3>2
  <2>2. pos' \in 0..Len(file')
    BY <1>2, <1>b, RecorderAssumption DEF StartFirst
  <2> QED
    <3>1. data' \in [Headers -> 0..MaxBlocks] /\ captured' \in 0..MaxBlocks
          /\ reads' \in 0..MaxReads
      BY <1>2, RecorderAssumption DEF StartFirst
    <3>2. thread' \in ThreadStates
      BY <1>2, NoThreadType DEF StartFirst
    <3> QED
      BY <1>2, <2>1, <2>2, <3>1, <3>2 DEF StartFirst, TypeOK, ThreadStates
<1>3. CASE Resume \/ Stop
  BY <1>3 DEF Resume, Stop, TypeOK, ownVars, fileVars, deviceVars, histVars
<1>4. CASE CommitSeek
  BY <1>4, <1>b DEF CommitSeek, TypeOK, ownVars, deviceVars, histVars
<1>5. CASE CommitWrite
  <2>1. /\ file' = Written(file, pos, HeadCells)
        /\ pos' = pos + HeadLen
    BY <1>5 DEF CommitWrite
  <2>2. pos' \in 0..Len(file')
    BY <1>b, <2>1, WrittenLength, RecorderAssumption
  <2> QED
    BY <1>5, <2>2 DEF CommitWrite, TypeOK, ownVars, deviceVars, histVars
<1>6. CASE ReadSeek
  <2>1. pos' \in 0..Len(file')
    BY <1>6, <1>b, RecorderAssumption DEF ReadSeek, TypeOK
  <2> QED
    BY <1>6, <2>1, RecorderAssumption DEF ReadSeek, TypeOK, ownVars, deviceVars
<1>7. CASE ReadData
  BY <1>7, <1>b DEF ReadData, TypeOK, ownVars, deviceVars, histVars
<1>8. CASE CloseCall
  BY <1>8 DEF CloseCall, TypeOK, ownVars, fileVars, deviceVars, histVars
<1>9. CASE CloseJoin
  <2>1. thread' \in ThreadStates /\ data' \in [Headers -> 0..MaxBlocks]
        /\ captured' \in 0..MaxBlocks /\ reads' \in 0..MaxReads
    BY <1>9, NoThreadType, RecorderAssumption DEF CloseJoin
  <2>2. pos' \in 0..Len(file') /\ dev' \in Seq(Headers)
    BY <1>9 DEF CloseJoin
  <2> QED
    BY <1>9, <2>1, <2>2 DEF CloseJoin, TypeOK, ThreadStates
<1>10. CASE Renew
  BY <1>10 DEF Renew, TypeOK, fileVars, deviceVars
<1>11. CASE Capture
  <2>1. Head(dev) \in Headers /\ dev' \in Seq(Headers)
    BY <1>11, HeadTailProperties DEF Capture, TypeOK
  <2> QED
    BY <1>11, <2>1, RecorderAssumption
       DEF Capture, TypeOK, ownVars, fileVars, histVars
<1>12. CASE ThreadTimeout
  <2>1. thread' = thread \/ thread' = Again(rsl)
    BY <1>12, Zenon DEF ThreadTimeout
  <2>2. thread' \in ThreadStates
    BY <1>a, <2>1, NoThreadType DEF Again
  <2>3. UNCHANGED <<recInitDone, lengthLimit, rsl, recordLen, file, pos, event,
                    started, dev, done, data, captured, merged, terminate,
                    call, session, relimited, undercut, reads>>
    BY <1>12, Zenon DEF ThreadTimeout, ownVars, fileVars, deviceVars, histVars
  <2>4. event' \in BOOLEAN
    BY <2>3 DEF TypeOK
  <2> QED
    BY <2>2, <2>3, <2>4, ThreadOnly, Zenon
<1>13. CASE ThreadWake
  <2>1. thread' \in ThreadStates
    <3>1. CASE thread' = Again(rsl)
      BY <3>1, NoThreadType DEF Again
    <3>2. ASSUME NEW h \in done,
                 thread' = [thread EXCEPT !.pc = "fit", !.hdr = h]
          PROVE  thread' \in ThreadStates
      <4>1. h \in Headers
        BY DEF TypeOK
      <4>2. [thread EXCEPT !.pc = "fit"] \in ThreadStates
        BY <1>a DEF ThreadStates
      <4>3. thread' = [[thread EXCEPT !.pc = "fit"] EXCEPT !.hdr = h]
        BY <3>2
      <4> QED
        BY <4>1, <4>2, <4>3 DEF ThreadStates
    <3> QED
      BY <1>13, <3>1, <3>2 DEF ThreadWake
  <2>2. UNCHANGED <<recInitDone, lengthLimit, rsl, recordLen, file, pos,
                    started, dev, done, data, captured, merged, terminate,
                    call, session, relimited, undercut, reads>>
    BY <1>13, Zenon DEF ThreadWake, ownVars, fileVars, histVars
  <2>3. event' \in BOOLEAN
    BY <1>13, Zenon DEF ThreadWake
  <2> QED
    BY <2>1, <2>2, <2>3, ThreadOnly, Zenon
<1>14. CASE ThreadFit
  <2>1. UNCHANGED <<recInitDone, lengthLimit, rsl, recordLen, file, pos, event,
                    started, dev, done, data, captured, merged, terminate,
                    call, session, relimited, undercut, reads>>
    BY <1>14, Zenon DEF ThreadFit, ownVars, fileVars, deviceVars, histVars
  <2>2. event' \in BOOLEAN
    BY <2>1 DEF TypeOK
  <2>3. thread' \in ThreadStates
    <3>1. CASE rsl \/ terminate
      BY <1>14, <3>1, NoThreadType DEF ThreadFit, Again
    <3>2. CASE ~(rsl \/ terminate)
      <4>1. Fit(BlockLen) \in Lengths
        BY FitType DEF TypeOK
      <4>2. [thread EXCEPT !.pc = "write"] \in ThreadStates
        BY <1>a DEF ThreadStates
      <4>3. thread' = [[thread EXCEPT !.pc = "write"]
                         EXCEPT !.len = Fit(BlockLen)]
        BY <1>14, <3>2 DEF ThreadFit
      <4> QED
        BY <4>1, <4>2, <4>3 DEF ThreadStates
    <3> QED
      BY <3>1, <3>2
  <2> QED
    BY <2>1, <2>2, <2>3, ThreadOnly, Zenon
<1>15. CASE ThreadWrite
  <2>0. PICK n \in Taken(thread.len) :
          /\ file' = Written(file, pos,
                             [i \in 1..n |-> <<data[thread.hdr], i>>])
          /\ pos' = pos + n
          /\ recordLen' = recordLen + n
    BY <1>15, Zenon DEF ThreadWrite
  <2> DEFINE s == [i \in 1..n |-> <<data[thread.hdr], i>>]
  <2>1. n \in Nat /\ Len(s) = n
    BY <1>a, TakenType DEF ThreadStates
  <2>2. file' = Written(file, pos, s) /\ pos' = pos + n
    BY <2>0
  <2> HIDE DEF s
  <2>3. pos' \in 0..Len(file')
    BY <1>b, <2>1, <2>2, WrittenLength
  <2> QED
    <3>1. recordLen' \in Nat
      BY <2>0, <2>1 DEF TypeOK
    <3>2. thread' \in ThreadStates
      BY <1>15, <1>a DEF ThreadWrite, ThreadStates
    <3> QED
      BY <1>15, <2>3, <3>1, <3>2 DEF ThreadWrite, TypeOK, ThreadStates,
                                     deviceVars, histVars
<1>16. CASE ThreadLimit
  BY <1>16, NoThreadType DEF ThreadLimit, TypeOK, ThreadStates, fileVars, deviceVars, histVars
<1>17. CASE ThreadRequeue
  BY <1>17, <1>a, NoThreadType, AppendProperties
     DEF ThreadRequeue, Undone, Again, TypeOK, ThreadStates, ownVars, fileVars, histVars
<1>18. CASE UNCHANGED vars
  BY <1>18 DEF vars, TypeOK
<1> QED
  BY <1>1, <1>2, <1>3, <1>4, <1>5, <1>6, <1>7, <1>8, <1>9, <1>10, <1>11,
     <1>12, <1>13, <1>14, <1>15, <1>16, <1>17, <1>18
     DEF Next, VmThread, Thread

-----------------------------------------------------------------------------
LEMMA LifetimeStep ==
  TypeOK /\ Lifetimes /\ [Next]_vars => Lifetimes'
<1> SUFFICES ASSUME TypeOK, Lifetimes, [Next]_vars PROVE Lifetimes'
  OBVIOUS
<1> USE DEF Lifetimes, ownVars, fileVars, deviceVars, histVars
<1>1. CASE SetLimit \/ Resume \/ Stop
  BY <1>1 DEF SetLimit, Resume, Stop
<1>2. CASE StartFirst
  BY <1>2 DEF StartFirst
<1>3. CASE CommitSeek \/ CommitWrite \/ ReadSeek \/ ReadData
  BY <1>3 DEF CommitSeek, CommitWrite, ReadSeek, ReadData
<1>4. CASE CloseCall \/ CloseJoin \/ Renew
  BY <1>4 DEF CloseCall, CloseJoin, Renew, NoThread
<1>5. CASE Capture
  BY <1>5 DEF Capture
<1>6. CASE Thread
  BY <1>6 DEF Thread, ThreadTimeout, ThreadWake, ThreadFit, ThreadWrite,
              ThreadLimit, ThreadRequeue
<1>7. CASE UNCHANGED vars
  BY <1>7 DEF vars
<1> QED
  BY <1>1, <1>2, <1>3, <1>4, <1>5, <1>6, <1>7 DEF Next, VmThread

LEMMA HandStep ==
  TypeOK /\ Lifetimes /\ HandFits /\ [Next]_vars => HandFits'
<1> SUFFICES ASSUME TypeOK, Lifetimes, HandFits, [Next]_vars PROVE HandFits'
  OBVIOUS
<1> USE DEF HandFits, ownVars, fileVars, deviceVars, histVars
<1>1. CASE SetLimit
  <2>1. /\ undercut' \in BOOLEAN
        /\ ~undercut' => ~undercut
             /\ (lengthLimit' # NoLimit => ~(lengthLimit' < recordLen))
    BY <1>1 DEF SetLimit, TypeOK
  <2>2. UNCHANGED <<rsl, recordLen, thread>>
    BY <1>1 DEF SetLimit
  <2>3. lengthLimit' # NoLimit /\ ~undercut' => recordLen <= lengthLimit'
    BY <1>1, <2>1, GrantType DEF SetLimit, TypeOK
  <2>4. ~relimited' => ~recInitDone
    BY <1>1 DEF SetLimit, TypeOK
  <2>5. thread.pc = "write" => recInitDone
    BY DEF Lifetimes
  <2>6. /\ recordLen' = recordLen /\ recordLen \in Nat
        /\ lengthLimit' \in Int \cup {NoLimit}
    BY <1>1, <2>2, GrantType DEF SetLimit, TypeOK
  <2>7. ASSUME lengthLimit' # NoLimit, ~undercut'
        PROVE  recordLen' <= lengthLimit' /\ recordLen' <= lengthLimit' + BlockLen
    <3>1. recordLen <= lengthLimit'
      BY <2>3, <2>7, Zenon
    <3>2. lengthLimit' \in Int
      BY <2>6, <2>7
    <3> QED
      BY <2>6, <3>1, <3>2, BlockAbove
  <2>8. thread'.pc = "write" =>
          ~rsl' /\ relimited' /\ (~undercut' => thread'.len \in 0..BlockLen)
    BY <2>1, <2>2, <2>4, <2>5
  <2> QED
    BY <2>7, <2>8
<1>2. CASE Resume \/ Stop
  BY <1>2 DEF Resume, Stop
<1>3. CASE StartFirst
  BY <1>3 DEF StartFirst, NoThread, Lifetimes
<1>4. CASE CommitSeek \/ CommitWrite \/ ReadSeek \/ ReadData
  BY <1>4 DEF CommitSeek, CommitWrite, ReadSeek, ReadData
<1>5. CASE CloseCall \/ CloseJoin \/ Renew
  BY <1>5 DEF CloseCall, CloseJoin, Renew, NoThread, Lifetimes
<1>6. CASE Capture
  BY <1>6 DEF Capture
<1>7. CASE ThreadTimeout
  BY <1>7 DEF ThreadTimeout, Again, NoThread
<1>8. CASE ThreadWake
  <2>1. thread'.pc \in {"dead", "wait", "fit"}
    <3>1. CASE thread' = Again(rsl)
      BY <3>1 DEF Again, NoThread
    <3>2. ASSUME NEW h \in done,
                 thread' = [thread EXCEPT !.pc = "fit", !.hdr = h]
          PROVE  thread'.pc = "fit"
      BY <3>2 DEF TypeOK
    <3> QED
      BY <1>8, <3>1, <3>2 DEF ThreadWake
  <2> QED
    BY <1>8, <2>1 DEF ThreadWake
(* The room left is computed from the limit as it is now.                  *)
<1>9. CASE ThreadFit
  <2>1. CASE rsl \/ terminate
    BY <1>9, <2>1 DEF ThreadFit, Again, NoThread
  <2>2. CASE ~(rsl \/ terminate)
    <3>1. ~undercut =>
            /\ Fit(BlockLen) \in 0..BlockLen
            /\ lengthLimit # NoLimit =>
                 recordLen + Fit(BlockLen) <= lengthLimit
      BY <1>9, <2>2, FitType, RecorderAssumption DEF ThreadFit, TypeOK
    <3>2. thread'.pc = "write" /\ thread'.len = Fit(BlockLen)
      BY <1>9, <2>2 DEF ThreadFit, TypeOK
    <3>3. UNCHANGED <<lengthLimit, rsl, recordLen, relimited, undercut>>
      BY <1>9 DEF ThreadFit
    <3> QED
      BY <1>9, <2>2, <3>1, <3>2, <3>3 DEF ThreadFit
  <2> QED
    BY <2>1, <2>2
<1>10. CASE ThreadWrite
  <2>1. PICK n \in Taken(thread.len) : recordLen' = recordLen + n
    BY <1>10, Zenon DEF ThreadWrite
  <2>2. /\ n \in Nat /\ thread.len \in Lengths
        /\ thread.len \in 0..BlockLen => n = thread.len
    BY TakenType DEF TypeOK
  <2>3. ~undercut => n = thread.len /\ thread.len \in 0..BlockLen
    BY <1>10, <2>2 DEF ThreadWrite
  <2>4. /\ thread.pc = "write" /\ thread'.pc = "limit"
        /\ UNCHANGED <<lengthLimit, rsl, relimited, undercut>>
    BY <1>10 DEF ThreadWrite, TypeOK
  <2>5. lengthLimit # NoLimit /\ ~undercut => recordLen <= lengthLimit
    BY <2>4
  <2> QED
    BY <2>1, <2>2, <2>3, <2>4, <2>5, RecorderAssumption DEF TypeOK
<1>11. CASE ThreadLimit
  BY <1>11 DEF ThreadLimit, NoThread
<1>12. CASE ThreadRequeue
  BY <1>12 DEF ThreadRequeue, AtLimit, Again, NoThread, TypeOK
<1>13. CASE UNCHANGED vars
  BY <1>13 DEF vars
<1> QED
  BY <1>1, <1>2, <1>3, <1>4, <1>5, <1>6, <1>7, <1>8, <1>9, <1>10, <1>11,
     <1>12, <1>13 DEF Next, VmThread, Thread

-----------------------------------------------------------------------------
(* A queue q that holds each header outside S once.                        *)
Holds(q, S) ==
  /\ \A i, j \in 1..Len(q) : q[i] = q[j] => i = j
  /\ {q[i] : i \in 1..Len(q)} = Headers \ S

LEMMA HoldsAtStart == Holds([i \in 1..HdrsCount |-> i - 1], {})
<1> DEFINE q == [i \in 1..HdrsCount |-> i - 1]
<1>1. Len(q) = HdrsCount
  BY RecorderAssumption
<1>2. \A h \in Headers : h + 1 \in 1..HdrsCount /\ q[h + 1] = h
  BY RecorderAssumption DEF Headers
<1>3. \A i \in 1..HdrsCount : q[i] \in Headers
  BY RecorderAssumption DEF Headers
<1> QED
  <2>1. \A i, j \in 1..HdrsCount : q[i] = q[j] => i = j
    OBVIOUS
  <2> HIDE DEF q
  <2>2. {q[i] : i \in 1..HdrsCount} = Headers \ {}
    BY <1>2, <1>3
  <2>3. Holds(q, {})
    BY <1>1, <2>1, <2>2 DEF Holds
  <2> QED
    BY <2>3 DEF q

LEMMA HoldsTail ==
  ASSUME NEW q \in Seq(Headers), NEW S, q # <<>>, Holds(q, S)
  PROVE  Holds(Tail(q), S \cup {Head(q)})
<1>1. /\ Len(q) \in Nat \ {0} /\ Len(Tail(q)) = Len(q) - 1
      /\ \A i \in 1..(Len(q) - 1) : Tail(q)[i] = q[i + 1]
      /\ Head(q) = q[1]
  BY HeadTailProperties
<1>2. \A i, j \in 1..Len(Tail(q)) : Tail(q)[i] = Tail(q)[j] => i = j
  BY <1>1 DEF Holds
<1>3. ASSUME NEW h \in Headers \ (S \cup {Head(q)})
      PROVE  \E i \in 1..Len(Tail(q)) : Tail(q)[i] = h
  <2>1. PICK i \in 1..Len(q) : q[i] = h
    BY DEF Holds
  <2>2. i - 1 \in 1..(Len(q) - 1)
    BY <1>1, <2>1
  <2> QED
    BY <1>1, <2>1, <2>2
<1>4. ASSUME NEW i \in 1..Len(Tail(q))
      PROVE  Tail(q)[i] \in Headers \ (S \cup {Head(q)})
  <2>1. i + 1 \in 1..Len(q) /\ 1 \in 1..Len(q) /\ i + 1 # 1
    BY <1>1
  <2>2. q[i + 1] # q[1] /\ q[i + 1] \in Headers \ S
    BY <2>1 DEF Holds
  <2> QED
    BY <1>1, <2>2
<1> DEFINE t == Tail(q)
           T == Headers \ (S \cup {Head(q)})
<1>5. /\ \A h \in T : \E i \in 1..Len(t) : t[i] = h
      /\ \A i \in 1..Len(t) : t[i] \in T
  BY <1>3, <1>4
<1> HIDE DEF t, T
<1>6. {t[i] : i \in 1..Len(t)} = T
  BY <1>5, Zenon
<1> QED
  BY <1>2, <1>6 DEF Holds, t, T

LEMMA HoldsAppend ==
  ASSUME NEW q \in Seq(Headers), NEW S, NEW h \in Headers, h \in S,
         Holds(q, S)
  PROVE  Holds(Append(q, h), S \ {h})
<1> DEFINE a == Append(q, h)
<1>1. /\ Len(q) \in Nat /\ Len(a) = Len(q) + 1
      /\ \A i \in 1..Len(q) : a[i] = q[i]
      /\ a[Len(q) + 1] = h
  BY AppendProperties
<1> HIDE DEF a
<1>2. \A i \in 1..Len(q) : q[i] # h /\ q[i] \in Headers \ S
  BY DEF Holds
<1>3. \A i \in 1..Len(a) : i \in 1..Len(q) \/ i = Len(q) + 1
  BY <1>1
<1>4. \A i, j \in 1..Len(a) : a[i] = a[j] => i = j
  BY <1>1, <1>2, <1>3 DEF Holds
<1>5. \A g \in Headers \ (S \ {h}) : \E i \in 1..Len(a) : a[i] = g
  <2> TAKE g \in Headers \ (S \ {h})
  <2>1. CASE g = h
    BY <1>1, <2>1
  <2>2. CASE g # h
    <3>1. PICK i \in 1..Len(q) : q[i] = g
      BY <2>2 DEF Holds
    <3> QED
      BY <1>1, <3>1
  <2> QED
    BY <2>1, <2>2
<1>6. \A i \in 1..Len(a) : a[i] \in Headers \ (S \ {h})
  BY <1>1, <1>2, <1>3
<1> QED
  BY <1>4, <1>5, <1>6 DEF Holds, a

LEMMA HeadersStep ==
  TypeOK /\ Lifetimes /\ HeadersAccounted /\ [Next]_vars => HeadersAccounted'
<1> DEFINE Held == recInitDone => Holds(dev, done)
                                 /\ (Busy => thread.hdr \in done)
<1>a. HeadersAccounted => Held
  BY DEF HeadersAccounted, Holds, Busy
<1>b. Held' => HeadersAccounted'
  BY DEF HeadersAccounted, Holds, Busy
<1> SUFFICES ASSUME TypeOK, Lifetimes, Held, [Next]_vars PROVE Held'
  BY <1>a, <1>b
<1> USE DEF Busy, ownVars, fileVars, deviceVars, histVars
<1>0. ASSUME UNCHANGED <<recInitDone, dev, done>>,
             thread' = thread \/ thread'.pc \in {"dead", "wait"}
      PROVE  Held'
  BY <1>0
<1>1. CASE SetLimit \/ Resume \/ Stop
  BY <1>0, <1>1 DEF SetLimit, Resume, Stop
<1>2. CASE StartFirst
  BY <1>2, HoldsAtStart DEF StartFirst, NoThread
<1>3. CASE CommitSeek \/ CommitWrite \/ ReadSeek \/ ReadData
  BY <1>0, <1>3 DEF CommitSeek, CommitWrite, ReadSeek, ReadData
<1>4. CASE CloseCall \/ Renew
  BY <1>0, <1>4 DEF CloseCall, Renew
<1>13. CASE CloseJoin
  BY <1>13 DEF CloseJoin
<1>5. CASE Capture
  BY <1>5, HoldsTail DEF Capture, TypeOK
<1>6. CASE ThreadTimeout
  BY <1>6 DEF ThreadTimeout, Again, NoThread
<1>7. CASE ThreadWake
  <2>1. CASE thread' = Again(rsl)
    BY <1>0, <1>7, <2>1 DEF ThreadWake, Again, NoThread
  <2>2. ASSUME NEW h \in done,
               thread' = [thread EXCEPT !.pc = "fit", !.hdr = h]
        PROVE  Held'
    <3>1. thread'.hdr = h
      BY <2>2 DEF TypeOK
    <3> QED
      BY <1>7, <3>1 DEF ThreadWake
  <2> QED
    BY <1>7, <2>1, <2>2 DEF ThreadWake
<1>8. CASE ThreadFit
  BY <1>8 DEF ThreadFit, Again, NoThread, TypeOK
<1>9. CASE ThreadWrite
  BY <1>9 DEF ThreadWrite, TypeOK
<1>10. CASE ThreadLimit
  BY <1>10 DEF ThreadLimit, NoThread
(* The header in hand is full, so it is not with the device.               *)
<1>11. CASE ThreadRequeue
  <2>1. /\ recInitDone /\ thread.hdr \in done /\ thread.hdr \in Headers
        /\ dev \in Seq(Headers) /\ Holds(dev, done)
    BY <1>11 DEF ThreadRequeue, Lifetimes, TypeOK
  <2>2. Holds(dev', done') /\ thread'.pc \in {"dead", "wait"}
    BY <1>11, <2>1, HoldsAppend DEF ThreadRequeue, Undone, Again, NoThread
  <2> QED
    BY <2>2
<1>12. CASE UNCHANGED vars
  BY <1>12 DEF vars
<1> QED
  BY <1>1, <1>2, <1>3, <1>4, <1>5, <1>6, <1>7, <1>8, <1>9, <1>10, <1>11,
     <1>12, <1>13 DEF Next, VmThread, Thread

-----------------------------------------------------------------------------
LEMMA EventStep ==
  TypeOK /\ Lifetimes /\ HeadersAccounted /\ EventForEach /\ [Next]_vars
    => EventForEach'
<1> SUFFICES ASSUME TypeOK, Lifetimes, HeadersAccounted, EventForEach,
                    [Next]_vars
             PROVE  EventForEach'
  OBVIOUS
<1> USE DEF EventForEach, Busy, ownVars, fileVars, deviceVars, histVars
<1>0. ASSUME UNCHANGED <<recInitDone, merged, event, done>>,
             thread' = thread \/ thread'.pc = "dead"
      PROVE  EventForEach'
  BY <1>0
<1>1. CASE SetLimit \/ Resume \/ Stop
  BY <1>0, <1>1 DEF SetLimit, Resume, Stop
<1>2. CASE StartFirst
  <2>1. done' = {} /\ thread'.pc = "wait"
    BY <1>2 DEF StartFirst, NoThread
  <2>2. \E h \in Headers : TRUE
    BY RecorderAssumption DEF Headers
  <2> QED
    BY <2>1, <2>2
<1>3. CASE CommitSeek \/ CommitWrite \/ ReadSeek \/ ReadData
  BY <1>0, <1>3 DEF CommitSeek, CommitWrite, ReadSeek, ReadData
<1>4. CASE CloseCall \/ Renew
  BY <1>0, <1>4 DEF CloseCall, Renew
<1>5. CASE CloseJoin
  BY <1>5 DEF CloseJoin
(* Unless the event was still set, it is the new header's.                 *)
<1>6. CASE Capture
  <2>1. Head(dev) \in Headers
    BY <1>6, HeadTailProperties DEF Capture, TypeOK
  <2>2. /\ done' = done \cup {Head(dev)} /\ event' = TRUE
        /\ merged' = (merged \/ event)
        /\ UNCHANGED <<recInitDone, thread>>
    BY <1>6 DEF Capture
  <2> QED
    BY <2>1, <2>2
<1>7. CASE ThreadTimeout
  <2>1. UNCHANGED <<recInitDone, merged, event, done>>
        /\ thread.pc = "wait" /\ thread'.pc \in {"dead", "wait"}
    BY <1>7 DEF ThreadTimeout, Again, NoThread
  <2> QED
    BY <2>1
<1>8. CASE ThreadWake
  <2>0. /\ UNCHANGED <<recInitDone, merged, done>>
        /\ event /\ event' = FALSE /\ thread.pc = "wait"
    BY <1>8 DEF ThreadWake
  <2>1. CASE done = {} /\ thread' = Again(rsl)
    BY <2>0, <2>1 DEF Again, NoThread
  <2>2. ASSUME NEW h \in done,
               thread' = [thread EXCEPT !.pc = "fit", !.hdr = h]
        PROVE  EventForEach'
    <3>1. thread'.pc = "fit" /\ thread'.hdr = h
      BY <2>2 DEF TypeOK
    <3> QED
      BY <2>0, <3>1
  <2> QED
    BY <1>8, <2>1, <2>2 DEF ThreadWake
<1>9. CASE ThreadFit \/ ThreadWrite \/ ThreadLimit
  <2>1. UNCHANGED <<recInitDone, merged, event, done>>
    BY <1>9 DEF ThreadFit, ThreadWrite, ThreadLimit
  <2>2. thread'.pc = "dead"
          \/ (Busy /\ Busy' /\ thread'.hdr = thread.hdr)
    <3>1. CASE ThreadFit
      <4>1. CASE rsl \/ terminate
        BY <3>1, <4>1 DEF ThreadFit, Again, NoThread
      <4>2. CASE ~(rsl \/ terminate)
        <5>1. thread' = [thread EXCEPT !.pc = "write", !.len = Fit(BlockLen)]
          BY <3>1, <4>2 DEF ThreadFit
        <5>2. thread'.pc = "write" /\ thread'.hdr = thread.hdr
          BY <5>1 DEF TypeOK
        <5> QED
          BY <3>1, <5>2 DEF ThreadFit
      <4> QED
        BY <4>1, <4>2
    <3>2. CASE ThreadWrite
      <4>1. thread'.pc = "limit" /\ thread'.hdr = thread.hdr
        BY <3>2 DEF ThreadWrite, TypeOK
      <4> QED
        BY <3>2, <4>1 DEF ThreadWrite
    <3>3. CASE ThreadLimit
      BY <3>3 DEF ThreadLimit, NoThread
    <3> QED
      BY <1>9, <3>1, <3>2, <3>3
  <2> QED
    BY <2>1, <2>2
(* The header in hand was the one that had no event left.                  *)
<1>10. CASE ThreadRequeue
  <2>1. /\ UNCHANGED <<recInitDone, merged, event>>
        /\ done' = done \ {thread.hdr} /\ thread.pc = "limit"
        /\ thread'.pc \in {"dead", "wait"}
    BY <1>10 DEF ThreadRequeue, Undone, Again, NoThread
  <2> QED
    BY <2>1
<1>11. CASE UNCHANGED vars
  BY <1>0, <1>11 DEF vars
<1> QED
  BY <1>1, <1>2, <1>3, <1>4, <1>5, <1>6, <1>7, <1>8, <1>9, <1>10, <1>11
     DEF Next, VmThread, Thread

LEMMA Invariant == Spec => []Inv
<1>1. Inv /\ [Next]_vars => Inv'
  BY TypeStep, LifetimeStep, HandStep, HeadersStep, EventStep DEF Inv
<1> QED
  BY <1>1, InitInv, PTL DEF Spec

(* The recorder stays well-formed: whatever limits are set, negative ones  *)
(* too, the thread never takes more than a block to write, and the         *)
(* position is never past the end of the file.                             *)
THEOREM TypeCorrect == Spec => []TypeOK
<1>1. Inv => TypeOK
  BY DEF Inv
<1> QED
  BY <1>1, Invariant, PTL

(* No header is lost, used twice, or captured over while it is written.    *)
THEOREM NoHeaderLost == Spec => []HeadersAccounted
<1>1. Inv => HeadersAccounted
  BY DEF Inv
<1> QED
  BY <1>1, Invariant, PTL

(* One header for each wake-up is enough as long as no two events of the   *)
(* device become one.                                                      *)
THEOREM OneForEachEvent == Spec => []LeftBehindOnlyByMerge
<1>1. Inv => LeftBehindOnlyByMerge
  <2> SUFFICES ASSUME Inv, thread.pc = "wait", ~event, done # {} PROVE merged
    BY DEF LeftBehindOnlyByMerge
  <2> QED
    BY DEF Inv, Lifetimes, EventForEach
<1> QED
  BY <1>1, Invariant, PTL

(* However the blocks fall, a recording ends at a limit that was not below *)
(* recordLen when it was set; at most a block later if it was set while    *)
(* recording.                                                              *)
THEOREM RecordingWithinLimit == Spec => []LimitKept
<1>1. Inv => LimitKept
  BY RecorderAssumption DEF Inv, TypeOK, HandFits, LimitKept
<1> QED
  BY <1>1, Invariant, PTL

-----------------------------------------------------------------------------
(* The blocks in the file.                                                 *)

(* The cell of a block that cell i of the file holds.                      *)
Cell(i) == <<((i - HeadLen - 1) \div BlockLen) + 1,
             ((i - HeadLen - 1) % BlockLen) + 1>>
Ordered(f) == \A i \in (HeadLen + 1)..Len(f) : f[i] = Cell(i)

Blocks(k) == HeadLen + BlockLen * k

LEMMA BlocksType ==
  ASSUME NEW k \in Nat
  PROVE  /\ Blocks(k) \in Nat /\ Blocks(k) >= HeadLen
         /\ Blocks(k + 1) = Blocks(k) + BlockLen
<1>1. BlockLen * k \in Nat /\ BlockLen * (k + 1) = BlockLen * k + BlockLen
  BY RecorderAssumption
<1> QED
  BY <1>1, RecorderAssumption DEF Blocks

LEMMA Quotient ==
  ASSUME NEW B \in Nat \ {0}, NEW k \in Nat, NEW r \in 0..(B - 1)
  PROVE  (B * k + r) \div B = k /\ (B * k + r) % B = r
<1> DEFINE a == B * k + r
           q == a \div B
           m == a % B
<1>1. a \in Nat /\ q \in Int /\ m \in 0..(B - 1) /\ a = B * q + m
  BY Z3
<1> HIDE DEF q, m
<1>2. B * k + r = B * q + m
  BY <1>1
<1>3. ~(q > k)
  <2> SUFFICES ASSUME q >= k + 1 PROVE FALSE
    BY <1>1
  <2>1. B * q >= B * (k + 1)
    BY <1>1
  <2>2. B * (k + 1) = B * k + B /\ B * k \in Int /\ B * q \in Int
    BY <1>1
  <2> QED
    BY <1>1, <1>2, <2>1, <2>2
<1>4. ~(k > q)
  <2> SUFFICES ASSUME k >= q + 1 PROVE FALSE
    BY <1>1
  <2>1. B * k >= B * (q + 1)
    BY <1>1
  <2>2. B * (q + 1) = B * q + B /\ B * k \in Int /\ B * q \in Int
    BY <1>1
  <2> QED
    BY <1>1, <1>2, <2>1, <2>2
<1>5. q = k
  BY <1>1, <1>3, <1>4
<1>6. m = r
  <2>1. B * k = B * q /\ B * k \in Int
    BY <1>5
  <2> QED
    BY <1>1, <1>2, <2>1
<1> QED
  BY <1>5, <1>6 DEF q, m

(* Block k + 1, or the first n cells of it, written behind k blocks.       *)
LEMMA BlockWritten ==
  ASSUME NEW f, NEW k \in Nat, NEW n \in 0..BlockLen,
         Len(f) = Blocks(k), Ordered(f)
  PROVE  LET g == Written(f, Len(f), [i \in 1..n |-> <<k + 1, i>>])
         IN  Len(g) = Len(f) + n /\ Ordered(g)
<1> DEFINE s == [i \in 1..n |-> <<k + 1, i>>]
           g == Written(f, Len(f), s)
<1>1. Len(f) \in Nat /\ Len(f) >= HeadLen /\ Len(s) = n /\ n \in Nat
  BY BlocksType, RecorderAssumption
<1>2. g = [i \in 1..(Len(f) + n) |->
             IF i \in (Len(f) + 1)..(Len(f) + n) THEN s[i - Len(f)] ELSE f[i]]
  <2>1. (IF Len(f) < Len(f) + n THEN Len(f) + n ELSE Len(f)) = Len(f) + n
    BY <1>1
  <2> QED
    BY <1>1, <2>1 DEF Written
<1>3. Len(g) = Len(f) + n
  BY <1>1, <1>2
<1>e. \A i \in 1..(Len(f) + n) :
        g[i] = IF i \in (Len(f) + 1)..(Len(f) + n) THEN s[i - Len(f)] ELSE f[i]
  BY <1>2
<1>s. \A i \in 1..n : s[i] = <<k + 1, i>>
  OBVIOUS
<1> HIDE DEF g, s
<1>4. ASSUME NEW i \in (HeadLen + 1)..Len(g) PROVE g[i] = Cell(i)
  <2>1. CASE i <= Len(f)
    <3>1. /\ i \in (HeadLen + 1)..Len(f) /\ i \in 1..(Len(f) + n)
          /\ i \notin (Len(f) + 1)..(Len(f) + n)
      BY <1>1, <1>3, <2>1, RecorderAssumption
    <3> QED
      BY <1>e, <3>1 DEF Ordered
  <2>2. CASE i > Len(f)
    <3> DEFINE r == i - Len(f) - 1
    <3>1. /\ r \in 0..(BlockLen - 1) /\ r + 1 \in 1..n
          /\ i \in (Len(f) + 1)..(Len(f) + n) /\ i \in 1..(Len(f) + n)
      BY <1>1, <1>3, <2>2, RecorderAssumption
    <3>2. i - HeadLen - 1 = BlockLen * k + r
      <4>1. BlockLen * k \in Int /\ Len(f) = HeadLen + BlockLen * k
        BY RecorderAssumption DEF Blocks
      <4> QED
        BY <1>1, <4>1, RecorderAssumption
    <3>3. (i - HeadLen - 1) \div BlockLen = k /\ (i - HeadLen - 1) % BlockLen = r
      BY <3>1, <3>2, Quotient, RecorderAssumption
    <3>4. g[i] = s[i - Len(f)] /\ i - Len(f) = r + 1
      BY <1>1, <1>e, <3>1
    <3>5. g[i] = <<k + 1, r + 1>>
      BY <1>s, <3>1, <3>4
    <3> QED
      BY <3>3, <3>5 DEF Cell
  <2> QED
    BY <1>1, <1>3, <2>1, <2>2, RecorderAssumption
<1> QED
  BY <1>3, <1>4 DEF Ordered, g, s

-----------------------------------------------------------------------------
(* Until something named by RecordedInOrder comes between.                 *)
Undisturbed == /\ recInitDone /\ ~merged /\ ~relimited /\ ~undercut
               /\ call # "commit" /\ session # "committed"

(* The thread will write again.                                            *)
Going == thread.pc # "dead" /\ ~(thread.pc = "limit" /\ AtLimit)

(* The file holds k blocks, and what is full goes on from there: the       *)
(* header in hand first, the one that has an event of its own next.        *)
InTurn(k) ==
  /\ Len(file) = Blocks(k)
  /\ thread.pc = "wait" =>
       /\ done = {} => captured = k
       /\ \A h \in done : data[h] = k + 1 /\ captured = k + 1
  /\ thread.pc \in {"fit", "write"} =>
       /\ data[thread.hdr] = k + 1
       /\ done = {thread.hdr} => captured = k + 1
       /\ \A h \in done \ {thread.hdr} : data[h] = k + 2 /\ captured = k + 2
  /\ thread.pc = "limit" =>
       /\ done = {thread.hdr} => captured = k
       /\ \A h \in done \ {thread.hdr} : data[h] = k + 1 /\ captured = k + 1
  /\ thread.pc = "write" /\ thread.len # BlockLen =>
       lengthLimit # NoLimit /\ recordLen + thread.len = lengthLimit

OrderInv ==
  /\ call = "read" => session = "committed"
  /\ Undisturbed => /\ pos = Len(file) /\ Ordered(file)
                    /\ Going => \E k \in Nat : InTurn(k)

LEMMA OrderStep == Inv /\ OrderInv /\ [Next]_vars => OrderInv'
<1> USE DEF ownVars, fileVars, deviceVars, histVars
<1>r. ASSUME OrderInv, [Next]_vars PROVE (call = "read" => session = "committed")'
  BY <1>r DEF OrderInv, Next, VmThread, Thread, vars, SetLimit, StartFirst,
     Resume, Stop, CommitSeek, CommitWrite, ReadSeek, ReadData, CloseCall,
     CloseJoin, Renew, Capture, ThreadTimeout, ThreadWake, ThreadFit,
     ThreadWrite, ThreadLimit, ThreadRequeue
<1> SUFFICES ASSUME Inv, OrderInv, [Next]_vars, Undisturbed'
             PROVE  /\ pos' = Len(file') /\ Ordered(file')
                    /\ Going' => \E k \in Nat : InTurn(k)'
  BY <1>r DEF OrderInv
<1>a. TypeOK /\ Lifetimes /\ HandFits /\ HeadersAccounted /\ EventForEach
  BY DEF Inv
<1>b. TypeOK /\ thread \in ThreadStates
  BY <1>a DEF TypeOK, ThreadStates
(* Nothing the thread works on has moved, or it has ended.                 *)
<1>0. ASSUME Undisturbed,
             UNCHANGED <<file, pos, done, data, captured, lengthLimit, recordLen>>,
             thread' = thread \/ thread'.pc = "dead"
      PROVE  /\ pos' = Len(file') /\ Ordered(file')
             /\ Going' => \E k \in Nat : InTurn(k)'
  <2>1. pos' = Len(file') /\ Ordered(file')
    BY <1>0 DEF OrderInv
  <2>2. ASSUME Going' PROVE \E k \in Nat : InTurn(k)'
    <3>1. thread' = thread /\ Going
      BY <1>0, <2>2 DEF Going, AtLimit
    <3>2. PICK k \in Nat : InTurn(k)
      BY <1>0, <3>1 DEF OrderInv
    <3>3. InTurn(k)'
      BY <1>0, <3>1, <3>2 DEF InTurn
    <3> QED
      BY <3>3
  <2> QED
    BY <2>1, <2>2
<1>1. CASE SetLimit
  BY <1>1 DEF SetLimit, Undisturbed
<1>2. CASE Resume \/ Stop \/ CloseCall
  BY <1>0, <1>2 DEF Resume, Stop, CloseCall, Undisturbed
<1>3. CASE StartFirst
  <2>1. /\ Len(file') = HeadLen /\ pos' = HeadLen /\ done' = {}
        /\ captured' = 0 /\ thread'.pc = "wait"
    BY <1>3, RecorderAssumption DEF StartFirst, HeadCells, NoThread
  <2>2. Ordered(file')
    BY <2>1, RecorderAssumption DEF Ordered
  <2>3. Blocks(0) = HeadLen
    BY RecorderAssumption DEF Blocks
  <2>4. InTurn(0)'
    BY <2>1, <2>3 DEF InTurn, Blocks
  <2> QED
    BY <2>1, <2>2, <2>4
<1>4. CASE CommitSeek \/ CommitWrite \/ ReadSeek \/ ReadData
  BY <1>4 DEF CommitSeek, CommitWrite, ReadSeek, ReadData, Undisturbed,
              OrderInv
<1>5. CASE CloseJoin \/ Renew
  BY <1>5 DEF CloseJoin, Renew, Undisturbed
(* The device had no event outstanding: the new block is the next in turn. *)
<1>6. CASE Capture
  <2>1. /\ Undisturbed /\ ~event
        /\ UNCHANGED <<file, pos, thread, lengthLimit, recordLen>>
        /\ captured' = captured + 1 /\ captured \in Nat
        /\ data' = [data EXCEPT ![Head(dev)] = captured + 1]
        /\ done' = done \cup {Head(dev)}
    BY <1>6, <1>a DEF Capture, Undisturbed, TypeOK
  <2>2. Head(dev) \in Headers /\ Head(dev) \notin done
    <3>1. /\ dev \in Seq(Headers) /\ dev # <<>> /\ 1 \in 1..Len(dev)
          /\ Head(dev) = dev[1] /\ recInitDone
      BY <1>6, <1>a, HeadTailProperties, EmptySeq
         DEF Capture, TypeOK, Undisturbed
    <3> QED
      BY <1>a, <3>1 DEF HeadersAccounted
  <2> DEFINE h == Head(dev)
  <2>3. /\ data'[h] = captured + 1
        /\ \A g \in done : data'[g] = data[g]
    BY <1>a, <2>1, <2>2 DEF TypeOK
  <2> HIDE DEF h
  <2>4. ASSUME Going' PROVE \E k \in Nat : InTurn(k)'
    <3>1. Going
      BY <2>1, <2>4 DEF Going, AtLimit
    <3>2. PICK k \in Nat : InTurn(k)
      BY <2>1, <3>1 DEF OrderInv
    <3>3. CASE thread.pc = "wait"
      <4>1. done = {} /\ captured = k
        BY <1>a, <2>1, <3>2, <3>3 DEF EventForEach, InTurn, Undisturbed
      <4>2. done' = {h}
        BY <2>1, <4>1 DEF h
      <4>3. InTurn(k)'
        BY <2>1, <2>3, <3>2, <3>3, <4>1, <4>2 DEF InTurn
      <4> QED
        BY <4>3
    <3>4. CASE Busy
      <4>1. done = {thread.hdr}
        BY <1>a, <2>1, <3>4 DEF EventForEach, Undisturbed
      <4>2. h # thread.hdr /\ done' = {thread.hdr, h}
        BY <2>1, <2>2, <4>1 DEF h
      <4>3. InTurn(k)'
        <5>1. CASE thread.pc \in {"fit", "write"}
          <6>1. /\ data[thread.hdr] = k + 1 /\ captured = k + 1
                /\ Len(file) = Blocks(k)
            BY <3>2, <4>1, <5>1 DEF InTurn
          <6>2. /\ data'[thread.hdr] = k + 1 /\ captured' = k + 2
                /\ data'[h] = k + 2 /\ done' \ {thread.hdr} = {h}
                /\ done' # {thread.hdr}
            BY <2>1, <2>3, <4>1, <4>2, <6>1
          <6>3. thread.pc # "wait" /\ thread.pc # "limit"
            BY <5>1
          <6> QED
            BY <2>1, <3>2, <6>1, <6>2, <6>3 DEF InTurn, Blocks
        <5>2. CASE thread.pc = "limit"
          BY <2>1, <2>3, <3>2, <4>1, <4>2, <5>2 DEF InTurn
        <5> QED
          BY <3>4, <5>1, <5>2 DEF Busy
      <4> QED
        BY <4>3
    <3> QED
      BY <1>b, <3>1, <3>3, <3>4 DEF Going, Busy, ThreadStates
  <2> QED
    BY <2>1, <2>4 DEF OrderInv
<1>7. CASE ThreadTimeout
  <2>1. /\ Undisturbed /\ thread.pc = "wait" /\ thread'.pc \in {"dead", "wait"}
        /\ UNCHANGED <<file, pos, done, data, captured, lengthLimit, recordLen>>
    BY <1>7 DEF ThreadTimeout, Again, NoThread, Undisturbed
  <2>2. ASSUME Going' PROVE \E k \in Nat : InTurn(k)'
    <3>1. PICK k \in Nat : InTurn(k)
      BY <2>1 DEF OrderInv, Going
    <3>2. InTurn(k)'
      BY <2>1, <2>2, <3>1 DEF InTurn, Going
    <3> QED
      BY <3>2
  <2> QED
    BY <2>1, <2>2 DEF OrderInv
(* The one full header there can be is taken in hand.                      *)
<1>8. CASE ThreadWake
  <2>1. /\ Undisturbed /\ thread.pc = "wait" /\ event
        /\ UNCHANGED <<file, pos, done, data, captured, lengthLimit, recordLen>>
    BY <1>8 DEF ThreadWake, Undisturbed
  <2>2. PICK k \in Nat : InTurn(k)
    BY <2>1 DEF OrderInv, Going
  <2>3. CASE done = {} /\ thread' = Again(rsl)
    <3>1. thread'.pc \in {"dead", "wait"}
      BY <2>3 DEF Again, NoThread
    <3>2. CASE thread'.pc = "wait"
      <4>1. InTurn(k)'
        BY <2>1, <2>2, <3>2 DEF InTurn
      <4> QED
        BY <2>1, <4>1 DEF OrderInv
    <3>3. CASE thread'.pc = "dead"
      BY <1>0, <2>1, <3>3
    <3> QED
      BY <3>1, <3>2, <3>3
  <2>4. ASSUME NEW h \in done,
               thread' = [thread EXCEPT !.pc = "fit", !.hdr = h]
        PROVE  InTurn(k)'
    <3>1. thread'.pc = "fit" /\ thread'.hdr = h
      BY <1>b, <2>4 DEF ThreadStates
    <3>2. done = {h}
      BY <1>a, <2>1, <2>4 DEF EventForEach, Undisturbed
    <3>3. data[h] = k + 1 /\ captured = k + 1
      BY <2>1, <2>2 DEF InTurn
    <3> QED
      BY <2>1, <2>2, <3>1, <3>2, <3>3 DEF InTurn
  <2> QED
    BY <1>8, <2>1, <2>3, <2>4 DEF ThreadWake, OrderInv
<1>9. CASE ThreadFit
  <2>1. /\ Undisturbed /\ thread.pc = "fit"
        /\ UNCHANGED <<file, pos, done, data, captured, lengthLimit, recordLen>>
    BY <1>9 DEF ThreadFit, Undisturbed
  <2>2. CASE rsl \/ terminate
    <3>1. thread'.pc \in {"dead", "wait"} /\ thread' = Again(rsl)
      BY <1>9, <2>2 DEF ThreadFit, Again, NoThread
    <3>2. thread'.pc = "dead"
      BY <2>2, <3>1 DEF Again, NoThread
    <3> QED
      BY <1>0, <2>1, <3>2
  <2>3. CASE ~(rsl \/ terminate)
    <3>1. thread' = [thread EXCEPT !.pc = "write", !.len = Fit(BlockLen)]
      BY <1>9, <2>3 DEF ThreadFit
    <3>2. /\ thread'.pc = "write" /\ thread'.hdr = thread.hdr
          /\ thread'.len = Fit(BlockLen)
      BY <1>b, <3>1 DEF ThreadStates
    <3>3. Fit(BlockLen) # BlockLen =>
            lengthLimit # NoLimit /\ recordLen + Fit(BlockLen) = lengthLimit
      BY <1>a, RecorderAssumption DEF Fit, TypeOK
    <3>4. PICK k \in Nat : InTurn(k)
      BY <2>1 DEF OrderInv, Going
    <3>5. InTurn(k)'
      BY <2>1, <3>2, <3>3, <3>4 DEF InTurn
    <3> QED
      BY <2>1, <3>5 DEF OrderInv
  <2> QED
    BY <2>2, <2>3
(* The block goes behind the ones before it; if it was cut, it is the last.*)
<1>10. CASE ThreadWrite
  <2>0. PICK n \in Taken(thread.len) :
          /\ file' = Written(file, pos,
                             [i \in 1..n |-> <<data[thread.hdr], i>>])
          /\ pos' = pos + n
          /\ recordLen' = recordLen + n
    BY <1>10, Zenon DEF ThreadWrite
  <2>n. n = thread.len /\ thread.len \in 0..BlockLen
    BY <1>10, <1>a, <1>b, <2>0, TakenType
       DEF ThreadWrite, HandFits, Undisturbed, ThreadStates
  <2>1. /\ Undisturbed /\ thread.pc = "write"
        /\ UNCHANGED <<done, data, captured, lengthLimit>>
        /\ recordLen' = recordLen + thread.len
    BY <1>10, <2>0, <2>n DEF ThreadWrite, Undisturbed
  <2>2. PICK k \in Nat : InTurn(k)
    BY <2>1 DEF OrderInv, Going
  <2>3. /\ pos = Len(file) /\ Ordered(file) /\ Len(file) = Blocks(k)
        /\ data[thread.hdr] = k + 1 /\ thread.len \in 0..BlockLen
    BY <2>1, <2>2, <2>n DEF OrderInv, InTurn
  <2>4. /\ file' = Written(file, Len(file), [i \in 1..thread.len |-> <<k + 1, i>>])
        /\ pos' = Len(file) + thread.len
    BY <2>0, <2>3, <2>n
  <2>5. Len(file') = Len(file) + thread.len /\ Ordered(file')
    BY <2>3, <2>4, BlockWritten
  <2>6. thread'.pc = "limit" /\ thread'.hdr = thread.hdr
    BY <1>10, <1>b DEF ThreadWrite, ThreadStates
  <2>7. ASSUME Going' PROVE InTurn(k + 1)'
    <3>1. thread.len = BlockLen
      <4> SUFFICES ASSUME thread.len # BlockLen PROVE FALSE
        OBVIOUS
      <4>1. lengthLimit # NoLimit /\ recordLen + thread.len = lengthLimit
        BY <2>1, <2>2 DEF InTurn
      <4>2. AtLimit'
        BY <1>a, <2>1, <4>1 DEF AtLimit, TypeOK
      <4> QED
        BY <2>6, <2>7, <4>2 DEF Going
    <3>2. Len(file') = Blocks(k + 1)
      BY <2>3, <2>5, <3>1, BlocksType
    <3>3. k + 2 = (k + 1) + 1
      OBVIOUS
    <3> QED
      BY <2>1, <2>2, <2>6, <3>2, <3>3 DEF InTurn, Blocks
  <2> QED
    BY <2>4, <2>5, <2>7
<1>11. CASE ThreadLimit
  BY <1>0, <1>11 DEF ThreadLimit, NoThread, Undisturbed
<1>12. CASE ThreadRequeue
  <2>1. /\ Undisturbed /\ thread.pc = "limit" /\ Going
        /\ UNCHANGED <<file, pos, data, captured, lengthLimit, recordLen>>
        /\ done' = done \ {thread.hdr} /\ thread.hdr \in done
    BY <1>12, <1>a
       DEF ThreadRequeue, Undone, Undisturbed, Going, HeadersAccounted
  <2>2. PICK k \in Nat : InTurn(k)
    BY <2>1 DEF OrderInv
  <2>3. thread'.pc \in {"dead", "wait"}
    BY <1>12 DEF ThreadRequeue, Again, NoThread
  <2>4. done' = {} => done = {thread.hdr}
    BY <2>1
  <2>5. InTurn(k)'
    BY <2>1, <2>2, <2>3, <2>4 DEF InTurn
  <2> QED
    BY <2>1, <2>5 DEF OrderInv
<1>13. CASE UNCHANGED vars
  BY <1>0, <1>13 DEF vars, Undisturbed
<1> QED
  BY <1>1, <1>2, <1>3, <1>4, <1>5, <1>6, <1>7, <1>8, <1>9, <1>10, <1>11,
     <1>12, <1>13 DEF Next, VmThread, Thread

(* What has been recorded is complete and in the order it was captured,    *)
(* for any number of headers, blocks of any length and any limit.          *)
THEOREM InOrder == Spec => []RecordedInOrder
<1>1. Init => OrderInv
  BY DEF Init, OrderInv, Undisturbed
<1>2. Inv /\ OrderInv /\ [Next]_vars => OrderInv'
  BY OrderStep
<1>3. OrderInv => RecordedInOrder
  BY DEF OrderInv, Undisturbed, RecordedInOrder, Ordered, Cell
<1> QED
  BY <1>1, <1>2, <1>3, Invariant, PTL DEF Spec

=============================================================================

---------------------------- MODULE FilterOutProofs ----------------------------
(***************************************************************************)
(* Proofs about FilterOut for any number of samples and of calls.          *)
(***************************************************************************)
EXTENDS FilterOut, TLAPS

(* Once event_flushing has been set nobody resets it.                      *)
FlushIsSignaled == flushing => flushSignal

(* While a cue is due no sample has been shown.                            *)
CueIsFirst == cued \in {0, 1} /\ (state # state2 => cued = 0)

(* What the flags, the events and the sleeping sample have to do with each *)
(* other; no conjunct but StateSettles is inductive without the others.    *)
Settled == /\ StateSettles
           /\ FlushIsSignaled
           /\ CueIsFirst
           /\ NoSleepingReceive

-----------------------------------------------------------------------------
LEMMA InitTypeOK == Init => TypeOK
<1> SUFFICES ASSUME Init PROVE TypeOK
  OBVIOUS
<1>1. samples \in 0..MaxSamples /\ calls \in 0..MaxCalls /\ cued \in Nat
  BY BoundAssumption DEF Init
<1>2. pc \in [Threads -> {"idle"}]
  BY DEF Init
<1> QED
  BY <1>1, <1>2 DEF Init, TypeOK

Pcs == {"idle", "receive", "pin", "loop", "state", "wait", "finish",
        "getState", "getStateForever", "enumPins", "drain"}

LEMMA TypeStep == TypeOK /\ [Next]_vars => TypeOK'
<1> SUFFICES ASSUME TypeOK, [Next]_vars PROVE TypeOK'
  OBVIOUS
<1> USE BoundAssumption DEF TypeOK, Threads, Goto, locks, events
<1>1. CASE Receive
  BY <1>1 DEF Receive
<1>2. CASE ReceiveEnter \/ PinEnter \/ FilterEnter
  BY <1>2 DEF ReceiveEnter, PinEnter, FilterEnter
<1>3. CASE ReceiveFlushed \/ ReceiveRefused
  BY <1>3 DEF ReceiveFlushed, ReceiveRefused, LeaveReceive
<1>4. CASE ReceiveCue
  <2>1. pc' \in [Threads -> Pcs] /\ samples' \in 0..MaxSamples /\ calls' \in 0..MaxCalls
    BY <1>4 DEF ReceiveCue, LeaveReceive, Pcs
  <2>2. /\ receive' \in {Streamer, Nobody} /\ pinCs' \in {Streamer, Nobody}
        /\ filterCs' \in {Streamer, Graph, Nobody}
    BY <1>4 DEF ReceiveCue, LeaveReceive
  <2>3. /\ flushing' \in BOOLEAN /\ finished' \in BOOLEAN
        /\ stateSet' \in BOOLEAN /\ notPaused' \in BOOLEAN /\ flushSignal' \in BOOLEAN
    BY <1>4 DEF ReceiveCue, LeaveReceive
  <2>4. /\ state' \in {"Stopped", "Paused", "Running"}
        /\ state2' \in {"Stopped", "Paused", "Running"}
        /\ cued' \in Nat
    BY <1>4 DEF ReceiveCue, LeaveReceive
  <2> QED
    BY <2>1, <2>2, <2>3, <2>4 DEF Pcs
<1>5. CASE ReceiveBlock
  BY <1>5 DEF ReceiveBlock
<1>6. CASE ReceiveWake \/ ReceiveEarly
  BY <1>6 DEF ReceiveWake, ReceiveEarly
<1>7. CASE ReceiveShow
  BY <1>7 DEF ReceiveShow, LeaveReceive
<1>8. CASE EndOfStream
  BY <1>8 DEF EndOfStream
<1>16. CASE PlaybackFinished
  <2>1. pc' \in [Threads -> Pcs] /\ samples' \in 0..MaxSamples /\ calls' \in 0..MaxCalls
    BY <1>16 DEF PlaybackFinished, DoPause, Pcs
  <2>2. /\ receive' \in {Streamer, Nobody} /\ pinCs' \in {Streamer, Nobody}
        /\ filterCs' \in {Streamer, Graph, Nobody}
    BY <1>16 DEF PlaybackFinished, DoPause
  <2>3. /\ flushing' \in BOOLEAN /\ finished' \in BOOLEAN
        /\ stateSet' \in BOOLEAN /\ notPaused' \in BOOLEAN /\ flushSignal' \in BOOLEAN
    BY <1>16 DEF PlaybackFinished, DoPause
  <2>4. /\ state' \in {"Stopped", "Paused", "Running"}
        /\ state2' \in {"Stopped", "Paused", "Running"}
        /\ cued' \in Nat
    BY <1>16 DEF PlaybackFinished, DoPause
  <2> QED
    BY <2>1, <2>2, <2>3, <2>4 DEF Pcs
<1>9. CASE Pause
  <2>1. pc' \in [Threads -> Pcs] /\ samples' \in 0..MaxSamples /\ calls' \in 0..MaxCalls
    BY <1>9 DEF Pause, DoPause, Call, Pcs
  <2>2. /\ receive' \in {Streamer, Nobody} /\ pinCs' \in {Streamer, Nobody}
        /\ filterCs' \in {Streamer, Graph, Nobody}
    BY <1>9 DEF Pause, DoPause, Call
  <2>3. /\ flushing' \in BOOLEAN /\ finished' \in BOOLEAN
        /\ stateSet' \in BOOLEAN /\ notPaused' \in BOOLEAN /\ flushSignal' \in BOOLEAN
    BY <1>9 DEF Pause, DoPause, Call
  <2>4. /\ state' \in {"Stopped", "Paused", "Running"}
        /\ state2' \in {"Stopped", "Paused", "Running"}
        /\ cued' \in Nat
    BY <1>9 DEF Pause, DoPause, Call
  <2> QED
    BY <2>1, <2>2, <2>3, <2>4 DEF Pcs
<1>10. CASE Run
  <2>1. pc' \in [Threads -> Pcs] /\ samples' \in 0..MaxSamples /\ calls' \in 0..MaxCalls
    BY <1>10 DEF Run, Call, Pcs
  <2>2. /\ receive' \in {Streamer, Nobody} /\ pinCs' \in {Streamer, Nobody}
        /\ filterCs' \in {Streamer, Graph, Nobody}
    BY <1>10 DEF Run, Call
  <2>3. /\ flushing' \in BOOLEAN /\ finished' \in BOOLEAN
        /\ stateSet' \in BOOLEAN /\ notPaused' \in BOOLEAN /\ flushSignal' \in BOOLEAN
    BY <1>10 DEF Run, Call
  <2>4. /\ state' \in {"Stopped", "Paused", "Running"}
        /\ state2' \in {"Stopped", "Paused", "Running"}
        /\ cued' \in Nat
    BY <1>10 DEF Run, Call
  <2> QED
    BY <2>1, <2>2, <2>3, <2>4 DEF Pcs
<1>11. CASE Stop
  BY <1>11 DEF Stop, Call
<1>12. CASE GetState \/ GetStateReturn
  BY <1>12 DEF GetState, GetStateReturn, Call
<1>13. CASE EnumPins \/ EnumPinsAddRef
  BY <1>13 DEF EnumPins, EnumPinsAddRef, Call
<1>14. CASE BeginFlush \/ FlushDrained \/ EndFlush
  <2>1. pc' \in [Threads -> Pcs] /\ samples' \in 0..MaxSamples /\ calls' \in 0..MaxCalls
    BY <1>14 DEF BeginFlush, FlushDrained, EndFlush, Call, Pcs
  <2>2. /\ receive' \in {Streamer, Nobody} /\ pinCs' \in {Streamer, Nobody}
        /\ filterCs' \in {Streamer, Graph, Nobody}
    BY <1>14 DEF BeginFlush, FlushDrained, EndFlush, Call
  <2>3. /\ flushing' \in BOOLEAN /\ finished' \in BOOLEAN
        /\ stateSet' \in BOOLEAN /\ notPaused' \in BOOLEAN /\ flushSignal' \in BOOLEAN
    BY <1>14 DEF BeginFlush, FlushDrained, EndFlush, Call
  <2>4. /\ state' \in {"Stopped", "Paused", "Running"}
        /\ state2' \in {"Stopped", "Paused", "Running"}
        /\ cued' \in Nat
    BY <1>14 DEF BeginFlush, FlushDrained, EndFlush, Call
  <2> QED
    BY <2>1, <2>2, <2>3, <2>4 DEF Pcs
<1>15. CASE UNCHANGED vars
  BY <1>15 DEF vars
<1> QED
  BY <1>1, <1>2, <1>3, <1>4, <1>5, <1>6, <1>7,
     <1>8, <1>9, <1>10, <1>11, <1>12, <1>13, <1>14, <1>15, <1>16
     DEF Next, StreamStep, GraphStep

(* The state stays well-formed, and a thread is where its call can be.     *)
THEOREM TypeCorrect == Spec => []TypeOK
  BY InitTypeOK, TypeStep, PTL DEF Spec

-----------------------------------------------------------------------------
LEMMA SettledStep == TypeOK /\ Settled /\ [Next]_vars => Settled'
<1> SUFFICES ASSUME TypeOK, Settled, [Next]_vars PROVE Settled'
  OBVIOUS
<1>0. /\ pc \in [Threads -> {"idle", "receive", "pin", "loop", "state", "wait", "finish",
                             "getState", "getStateForever", "enumPins", "drain"}]
      /\ Streamer \in Threads /\ Graph \in Threads /\ Streamer # Graph
      /\ cued \in Nat
  BY ThreadAssumption DEF TypeOK, Threads
<1> USE <1>0 DEF Settled, StateSettles, FlushIsSignaled, CueIsFirst,
                 NoSleepingReceive, Goto, locks, events
<1>1. CASE Receive
  BY <1>1 DEF Receive
<1>2. CASE ReceiveEnter \/ PinEnter \/ FilterEnter
  BY <1>2 DEF ReceiveEnter, PinEnter, FilterEnter
<1>3. CASE ReceiveFlushed \/ ReceiveRefused
  BY <1>3 DEF ReceiveFlushed, ReceiveRefused, LeaveReceive
<1>4. CASE ReceiveCue
  BY <1>4 DEF ReceiveCue, LeaveReceive
(* The sample goes to sleep under the lock that guards the state.          *)
<1>5. CASE ReceiveBlock
  BY <1>5 DEF ReceiveBlock
<1>6. CASE ReceiveWake \/ ReceiveEarly
  BY <1>6 DEF ReceiveWake, ReceiveEarly
<1>7. CASE ReceiveShow
  BY <1>7 DEF ReceiveShow, LeaveReceive
<1>8. CASE EndOfStream
  BY <1>8 DEF EndOfStream
<1>16. CASE PlaybackFinished
  BY <1>16 DEF PlaybackFinished, DoPause
<1>9. CASE Pause
  BY <1>9 DEF Pause, DoPause, Call
<1>10. CASE Run
  BY <1>10 DEF Run, Call
<1>11. CASE Stop
  BY <1>11 DEF Stop, Call
<1>12. CASE GetState \/ GetStateReturn
  BY <1>12 DEF GetState, GetStateReturn, Call
<1>13. CASE EnumPins \/ EnumPinsAddRef
  BY <1>13 DEF EnumPins, EnumPinsAddRef, Call
<1>14. CASE BeginFlush \/ FlushDrained \/ EndFlush
  BY <1>14 DEF BeginFlush, FlushDrained, EndFlush, Call
<1>15. CASE UNCHANGED vars
  BY <1>15 DEF vars
<1> QED
  BY <1>1, <1>2, <1>3, <1>4, <1>5, <1>6, <1>7,
     <1>8, <1>9, <1>10, <1>11, <1>12, <1>13, <1>14, <1>15, <1>16
     DEF Next, StreamStep, GraphStep

LEMMA InvariantSettled == Spec => []Settled
<1>1. Init => Settled
  BY DEF Init, Settled, StateSettles, FlushIsSignaled, CueIsFirst, NoSleepingReceive
<1> QED
  BY <1>1, TypeCorrect, SettledStep, PTL DEF Spec

(* GetState tells the truth: the filter differs from the state it was      *)
(* asked for only while a cue is due, and only then is the event reset.    *)
THEOREM StatesSettle == Spec => []StateSettles
<1>1. Settled => StateSettles
  BY DEF Settled
<1> QED
  BY <1>1, InvariantSettled, PTL

(* No sample sleeps through the end of a pause or the begin of a flush.    *)
THEOREM SampleLetGo == Spec => []NoSleepingReceive
<1>1. Settled => NoSleepingReceive
  BY DEF Settled
<1> QED
  BY <1>1, InvariantSettled, PTL

(* A pause of the stopped filter shows at most one sample.                 *)
THEOREM OneCue == Spec => []OneSampleCues
<1>1. Settled => OneSampleCues
  BY DEF Settled, CueIsFirst, OneSampleCues
<1> QED
  BY <1>1, InvariantSettled, PTL
=============================================================================

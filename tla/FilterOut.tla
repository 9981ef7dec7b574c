------------------------------- MODULE FilterOut -------------------------------
(***************************************************************************)
(* The renderer at the end of the DirectShow player's graph                *)
(* (src/implementation/win32_emul/jsr135_mmapi/dshow/filter_out.cpp).  A   *)
(* streaming thread hands it samples with Receive, which blocks while the  *)
(* filter is paused; the graph manager's thread stops, pauses, runs and    *)
(* flushes it.  Locks, in the order they nest: cs_receive, held for the    *)
(* whole of a Receive; cs_pin; cs_filter.  The three events are all        *)
(* manual-reset, and event_flushing is never reset.                        *)
(*                                                                         *)
(* state is what the filter does, state2 what it was asked to do: they     *)
(* differ between a Pause of the stopped filter and the sample that cues   *)
(* it.                                                                     *)
(***************************************************************************)
EXTENDS Integers

CONSTANTS
  Streamer,    \* the thread that delivers samples
  Graph,       \* the graph manager's thread
  Nobody,
  MaxSamples,  \* bound: samples, and the end of the stream
  MaxCalls     \* bound: calls of the graph manager

ASSUME ThreadAssumption == /\ Streamer # Graph
                           /\ Nobody \notin {Streamer, Graph}
ASSUME BoundAssumption == MaxSamples \in Nat /\ MaxCalls \in Nat

Threads == {Streamer, Graph}

VARIABLES
  state, state2,
  flushing,
  stateSet,      \* event_state_set
  notPaused,     \* event_not_paused
  flushSignal,   \* event_flushing
  receive, pinCs, filterCs,   \* owners of cs_receive, cs_pin, cs_filter
  pc,
  finished,      \* dshow_player::eom_sent
  cued,          \* history: samples shown since the filter last ran or was cued
  samples, calls

locks == <<receive, pinCs, filterCs>>
events == <<stateSet, notPaused, flushSignal>>
vars == <<state, state2, flushing, stateSet, notPaused, flushSignal, receive,
          pinCs, filterCs, pc, finished, cued, samples, calls>>

-----------------------------------------------------------------------------
(* filter_out_filter::create; the pin has been connected.                  *)
Init ==
  /\ state = "Stopped" /\ state2 = "Stopped"
  /\ flushing = FALSE
  /\ stateSet = TRUE /\ notPaused = TRUE /\ flushSignal = FALSE
  /\ receive = Nobody /\ pinCs = Nobody /\ filterCs = Nobody
  /\ pc = [t \in Threads |-> "idle"]
  /\ finished \in BOOLEAN   \* dshow_create does not set eom_sent
  /\ cued = 0
  /\ samples = 0 /\ calls = 0

Goto(t, l) == pc' = [pc EXCEPT ![t] = l]

(* A short critical section: nobody else is inside.                        *)
Free(lock, t) == lock \in {Nobody, t}

-----------------------------------------------------------------------------
(* filter_out_pin::Receive                                                 *)

Receive ==
  /\ pc[Streamer] = "idle"
  /\ samples < MaxSamples
  /\ samples' = samples + 1
  /\ Goto(Streamer, "receive")
  /\ UNCHANGED <<state, state2, flushing, events, locks, finished, cued, calls>>

ReceiveEnter ==
  /\ pc[Streamer] = "receive"
  /\ receive = Nobody
  /\ receive' = Streamer
  /\ Goto(Streamer, "pin")
  /\ UNCHANGED <<state, state2, flushing, events, pinCs, filterCs, finished, cued,
                 samples, calls>>

PinEnter ==
  /\ pc[Streamer] = "pin"
  /\ pinCs = Nobody
  /\ pinCs' = Streamer
  /\ Goto(Streamer, "loop")
  /\ UNCHANGED <<state, state2, flushing, events, receive, filterCs, finished, cued,
                 samples, calls>>

(* All locks are given back and the call returns.                          *)
LeaveReceive == /\ receive' = Nobody
                /\ pinCs' = Nobody
                /\ filterCs' = Nobody
                /\ Goto(Streamer, "idle")

(* S_FALSE while the pin flushes.                                          *)
ReceiveFlushed ==
  /\ pc[Streamer] = "loop"
  /\ flushing
  /\ LeaveReceive
  /\ UNCHANGED <<state, state2, flushing, events, finished, cued, samples, calls>>

FilterEnter ==
  /\ pc[Streamer] = "loop"
  /\ ~flushing
  /\ filterCs = Nobody
  /\ filterCs' = Streamer
  /\ Goto(Streamer, "state")
  /\ UNCHANGED <<state, state2, flushing, events, receive, pinCs, finished, cued,
                 samples, calls>>

(* VFW_E_WRONG_STATE, or the sample has no data to give.                   *)
ReceiveRefused ==
  /\ pc[Streamer] = "state"
  /\ LeaveReceive
  /\ state # "Paused"
  /\ UNCHANGED <<state, state2, flushing, events, finished, cued, samples, calls>>

(* Mutated form: the sample that cues leaves the filter as it was.         *)
ReceiveCueForgotten ==
  /\ pc[Streamer] = "state"
  /\ state = "Stopped" /\ state2 # "Stopped"
  /\ cued' = cued + 1
  /\ stateSet' = TRUE
  /\ notPaused' = FALSE
  /\ LeaveReceive
  /\ UNCHANGED <<state, state2, flushing, flushSignal, finished, samples, calls>>

(* The first sample after a Pause is shown and cues the filter.            *)
ReceiveCue ==
  /\ pc[Streamer] = "state"
  /\ state = "Stopped" /\ state2 # "Stopped"
  /\ cued' = cued + 1
  /\ state' = "Paused"
  /\ stateSet' = TRUE
  /\ notPaused' = FALSE
  /\ LeaveReceive
  /\ UNCHANGED <<state2, flushing, flushSignal, finished, samples, calls>>

(* Paused: wait for event_not_paused or event_flushing, without the pin.   *)
ReceiveBlock ==
  /\ pc[Streamer] = "state"
  /\ state = "Paused"
  /\ filterCs' = Nobody
  /\ pinCs' = Nobody
  /\ Goto(Streamer, "wait")
  /\ UNCHANGED <<state, state2, flushing, events, receive, finished, cued, samples, calls>>

(* Mutated form: only a flush ends the wait.                               *)
ReceiveWakeFlushed ==
  /\ pc[Streamer] = "wait"
  /\ flushSignal
  /\ Goto(Streamer, "pin")
  /\ UNCHANGED <<state, state2, flushing, events, locks, finished, cued, samples, calls>>

ReceiveWake ==
  /\ pc[Streamer] = "wait"
  /\ notPaused \/ flushSignal
  /\ Goto(Streamer, "pin")
  /\ UNCHANGED <<state, state2, flushing, events, locks, finished, cued, samples, calls>>

(* Too early by the clock: Sleep(1) and once more.                         *)
ReceiveEarly ==
  /\ pc[Streamer] = "state"
  /\ state = "Running"
  /\ filterCs' = Nobody
  /\ pinCs' = Nobody
  /\ Goto(Streamer, "pin")
  /\ UNCHANGED <<state, state2, flushing, events, receive, finished, cued, samples, calls>>

ReceiveShow ==
  /\ pc[Streamer] = "state"
  /\ state = "Running"
  /\ cued' = 0
  /\ LeaveReceive
  /\ UNCHANGED <<state, state2, flushing, events, finished, samples, calls>>

-----------------------------------------------------------------------------
(* filter_out_filter::Pause, once cs_filter is held.                       *)
DoPause ==
  \/ /\ state = "Stopped" /\ state2 = "Stopped"
     /\ state2' = "Paused"
     /\ stateSet' = FALSE
     /\ cued' = 0
     /\ UNCHANGED <<state, notPaused>>
  \/ /\ state = "Stopped" /\ state2 # "Stopped"
     /\ UNCHANGED <<state, state2, stateSet, notPaused, cued>>
  \/ /\ state = "Paused"
     /\ UNCHANGED <<state, state2, stateSet, notPaused, cued>>
  \/ /\ state = "Running"
     /\ state' = "Paused" /\ state2' = "Paused"
     /\ notPaused' = FALSE
     /\ cued' = 0
     /\ UNCHANGED stateSet

(* filter_out_pin::EndOfStream takes cs_pin and, with it, cs_filter ...    *)
EndOfStream ==
  /\ pc[Streamer] = "idle"
  /\ samples < MaxSamples
  /\ samples' = samples + 1
  /\ Free(pinCs, Streamer)
  /\ pinCs' = Streamer
  /\ Goto(Streamer, "finish")
  /\ UNCHANGED <<state, state2, flushing, events, receive, filterCs, finished, cued,
                 calls>>

(* ... and playback_finished runs under both: it has the player, if it is  *)
(* started, pause the graph and this filter.                               *)
PlaybackFinished ==
  /\ pc[Streamer] = "finish"
  /\ Free(filterCs, Streamer)
  /\ \/ /\ ~finished
        /\ finished' = TRUE
        /\ DoPause \/ UNCHANGED <<state, state2, stateSet, notPaused, cued>>
     \/ /\ finished
        /\ UNCHANGED <<finished, state, state2, stateSet, notPaused, cued>>
  /\ pinCs' = Nobody
  /\ Goto(Streamer, "idle")
  /\ UNCHANGED <<flushing, flushSignal, receive, filterCs, samples, calls>>

-----------------------------------------------------------------------------
(* The graph manager                                                       *)

Call(l) == /\ pc[Graph] = "idle"
           /\ calls < MaxCalls
           /\ calls' = calls + 1
           /\ Goto(Graph, l)

Pause ==
  /\ Call("idle")
  /\ Free(filterCs, Graph)
  /\ DoPause
  /\ UNCHANGED <<flushing, flushSignal, locks, finished, samples>>

(* Mutated form: Run does not wake a Receive that waits.                   *)
RunQuietly ==
  /\ Call("idle")
  /\ Free(filterCs, Graph)
  /\ state' = "Running" /\ state2' = "Running"
  /\ cued' = 0
  /\ stateSet' = (stateSet \/ state = "Stopped")
  /\ finished' = FALSE
  /\ UNCHANGED <<flushing, flushSignal, notPaused, locks, samples>>

(* filter_out_filter::Run; dshow_start has cleared eom_sent.               *)
Run ==
  /\ Call("idle")
  /\ Free(filterCs, Graph)
  /\ state' = "Running" /\ state2' = "Running"
  /\ cued' = 0
  /\ stateSet' = (stateSet \/ state = "Stopped")
  /\ notPaused' = (notPaused \/ state = "Paused")
  /\ finished' = FALSE
  /\ UNCHANGED <<flushing, flushSignal, locks, samples>>

(* Mutated form: a cue that is still due is not called off.                *)
StopCueKept ==
  /\ Call("idle")
  /\ Free(filterCs, Graph)
  /\ \/ /\ state = "Stopped"
        /\ stateSet' = (stateSet \/ state2 # "Stopped")
        /\ UNCHANGED <<state, state2, notPaused>>
     \/ /\ state # "Stopped"
        /\ state' = "Stopped" /\ state2' = "Stopped"
        /\ notPaused' = (notPaused \/ state = "Paused")
        /\ UNCHANGED stateSet
  /\ UNCHANGED <<flushing, flushSignal, locks, finished, cued, samples>>

Stop ==
  /\ Call("idle")
  /\ Free(filterCs, Graph)
  /\ state' = "Stopped" /\ state2' = "Stopped"
  /\ stateSet' = (stateSet \/ (state = "Stopped" /\ state2 # "Stopped"))
  /\ notPaused' = (notPaused \/ state = "Paused")
  /\ UNCHANGED <<flushing, flushSignal, locks, finished, cued, samples>>

(* GetState waits, with a timeout or without, and holds cs_filter.         *)
GetState ==
  /\ Free(filterCs, Graph)
  /\ \/ /\ state = state2
        /\ Call("idle")
        /\ UNCHANGED locks
     \/ /\ state # state2
        /\ Call("getState") \/ Call("getStateForever")
        /\ filterCs' = Graph
        /\ UNCHANGED <<receive, pinCs>>
  /\ UNCHANGED <<state, state2, flushing, events, finished, cued, samples>>

(* event_state_set was signaled, or VFW_S_STATE_INTERMEDIATE.              *)
GetStateReturn ==
  /\ pc[Graph] = "getState" \/ (pc[Graph] = "getStateForever" /\ stateSet)
  /\ filterCs' = Nobody
  /\ Goto(Graph, "idle")
  /\ UNCHANGED <<state, state2, flushing, events, receive, pinCs, finished, cued,
                 samples, calls>>

(* EnumPins takes cs_filter and then, in AddRef of the pin, cs_pin: the    *)
(* other way round than Receive.                                           *)
EnumPins ==
  /\ Free(filterCs, Graph)
  /\ Call("enumPins")
  /\ filterCs' = Graph
  /\ UNCHANGED <<state, state2, flushing, events, receive, pinCs, finished, cued, samples>>

EnumPinsAddRef ==
  /\ pc[Graph] = "enumPins"
  /\ pinCs = Nobody
  /\ filterCs' = Nobody
  /\ Goto(Graph, "idle")
  /\ UNCHANGED <<state, state2, flushing, events, receive, pinCs, finished, cued,
                 samples, calls>>

(* Mutated form: the pin is left only after the drain.                     *)
BeginFlushLocked ==
  /\ Free(pinCs, Graph)
  /\ ~flushing
  /\ Call("drain")
  /\ flushing' = TRUE
  /\ flushSignal' = TRUE
  /\ pinCs' = Graph
  /\ UNCHANGED <<state, state2, stateSet, notPaused, receive, filterCs, finished, cued,
                 samples>>

(* Mutated form: the flag is set and nobody is told.                       *)
BeginFlushQuietly ==
  /\ Free(pinCs, Graph)
  /\ ~flushing
  /\ Call("drain")
  /\ flushing' = TRUE
  /\ UNCHANGED <<state, state2, events, locks, finished, cued, samples>>

(* BeginFlush sets the flag and the event under cs_pin ...                 *)
BeginFlush ==
  /\ Free(pinCs, Graph)
  /\ \/ /\ flushing
        /\ Call("idle")
        /\ UNCHANGED <<flushing, flushSignal>>
     \/ /\ ~flushing
        /\ Call("drain")
        /\ flushing' = TRUE
        /\ flushSignal' = TRUE
  /\ UNCHANGED <<state, state2, stateSet, notPaused, locks, finished, cued, samples>>

(* ... and then enters and leaves cs_receive: the Receive under way, if    *)
(* any, has returned.                                                      *)
FlushDrained ==
  /\ pc[Graph] = "drain"
  /\ receive = Nobody
  /\ Goto(Graph, "idle")
  /\ UNCHANGED <<state, state2, flushing, events, locks, finished, cued, samples, calls>>

EndFlush ==
  /\ Free(pinCs, Graph)
  /\ Call("idle")
  /\ flushing' = FALSE
  /\ UNCHANGED <<state, state2, events, locks, finished, cued, samples>>

-----------------------------------------------------------------------------
StreamStep == \/ ReceiveEnter \/ PinEnter \/ ReceiveFlushed \/ FilterEnter
              \/ ReceiveRefused \/ ReceiveCue \/ ReceiveBlock \/ ReceiveWake
              \/ ReceiveEarly \/ ReceiveShow \/ PlaybackFinished

GraphStep == GetStateReturn \/ EnumPinsAddRef \/ FlushDrained

Next == \/ Receive \/ EndOfStream \/ StreamStep
        \/ Pause \/ Run \/ Stop \/ GetState \/ EnumPins
        \/ BeginFlush \/ EndFlush \/ GraphStep

Spec == Init /\ [][Next]_vars

(* A call once begun goes on whenever it can, and a running clock passes a *)
(* sample's time in the end; a critical section somebody leaves again and  *)
(* again is entered some day.                                              *)
FairSpec == /\ Spec
            /\ WF_vars(GraphStep)
            /\ SF_vars(StreamStep)
            /\ SF_vars(ReceiveShow)

-----------------------------------------------------------------------------
TypeOK ==
  /\ state \in {"Stopped", "Paused", "Running"}
  /\ state2 \in {"Stopped", "Paused", "Running"}
  /\ flushing \in BOOLEAN /\ finished \in BOOLEAN
  /\ stateSet \in BOOLEAN /\ notPaused \in BOOLEAN /\ flushSignal \in BOOLEAN
  /\ receive \in {Streamer, Nobody}
  /\ pinCs \in {Streamer, Nobody}
  /\ filterCs \in {Streamer, Graph, Nobody}
  /\ pc \in [Threads -> {"idle", "receive", "pin", "loop", "state", "wait", "finish",
                         "getState", "getStateForever", "enumPins", "drain"}]
  /\ cued \in Nat
  /\ samples \in 0..MaxSamples /\ calls \in 0..MaxCalls

(* The filter is asked for a state it is not in only while a cue is due,   *)
(* and then event_state_set is not signaled: GetState tells the truth.     *)
StateSettles ==
  /\ state # state2 => state = "Stopped" /\ state2 = "Paused" /\ ~stateSet
  /\ ~stateSet => state # state2

(* No lost wakeup: a Receive that sleeps although the filter is no longer  *)
(* paused, or flushes, finds one of its events signaled.                   *)
NoSleepingReceive ==
  pc[Streamer] = "wait" /\ (state # "Paused" \/ flushing) => notPaused \/ flushSignal

(* A filter that is paused from the stopped state shows one sample, the    *)
(* one that cues it, until it runs.                                        *)
OneSampleCues == cued <= 1

(* BeginFlush returns.                                                     *)
FlushReturns == (pc[Graph] = "drain") ~> (pc[Graph] = "idle")

(* The two ways the graph manager's thread and a Receive can lock each     *)
(* other out for good: EnumPins holds cs_filter and wants cs_pin, which a  *)
(* Receive or an EndOfStream holds that wants cs_filter, and               *)
(* GetState(INFINITE) holds the lock that the sample it waits for needs.   *)
LockedOut == \/ pc[Graph] = "enumPins" /\ pinCs = Streamer
             \/ pc[Graph] = "getStateForever" /\ ~stateSet

(* Nothing else keeps a Receive or an EndOfStream from returning once the  *)
(* filter is stopped, run or flushed: it never sleeps through the change,  *)
(* and the locks of all other calls are given back.                        *)
ReceiveReturns ==
  (pc[Streamer] # "idle") ~> (pc[Streamer] = "idle" \/ state = "Paused" \/ LockedOut)
=============================================================================

------------------------------- MODULE MediaOut -------------------------------
(***************************************************************************)
(* The mixer of PcmOut with its two kinds of owner: streamed players       *)
(* (RtpPlayer), each with a channel while it holds the device, and the     *)
(* synthesizer manager of an isolate (mm_qsound_audio.c), whose channel is *)
(* opened once and never closed.  The VM's thread makes the calls; the     *)
(* callbacks run on the mixing thread.                                     *)
(***************************************************************************)
EXTENDS PcmOut, RtpPlayer

CONSTANT Gm   \* the channel of the synthesizer manager

ASSUME MediaAssumption ==
  /\ Channels = Players \cup {Gm}
  /\ Gm \notin Players

VARIABLES
  gm,      \* g_QSoundGM: none, opening its channel, ready, or nodevice
  block,   \* what each header in use holds: a packet, or 0 for silence
  heard    \* history: the packets the device has played, per player

vars == <<pcmVars, rtpVars, gm, block, heard>>

Init ==
  /\ PcmInit
  /\ RtpInit
  /\ gm = "none"
  /\ block = [c \in Channels |-> [h \in 0..(HdrsCount - 1) |-> 0]]
  /\ heard = [p \in Players |-> <<>>]

-----------------------------------------------------------------------------
(* The VM's thread.                                                        *)

CreatePlayer(p) ==
  /\ vm = Idle
  /\ Create(p)
  /\ UNCHANGED <<pcmVars, gm, block, heard>>

DestroyPlayer(p) ==
  /\ vm = Idle
  /\ Destroy(p)
  /\ heard' = [heard EXCEPT ![p] = <<>>]
  /\ UNCHANGED <<pcmVars, gm, block>>

(* rtp_acquire_device of a player that does not hold the device.           *)
AcquireRefused(p) ==
  /\ p \in exists /\ ~acquired[p]
  /\ OpenRefused(p)
  /\ Acquired(p, FALSE)
  /\ UNCHANGED <<gm, block, heard>>

AcquireOpen(p) ==
  /\ p \in exists /\ ~acquired[p]
  /\ OpenPublish(p)
  /\ UNCHANGED <<rtpVars, gm, block, heard>>

AcquireReturn(p) ==
  /\ vm.ch = p
  /\ OpenReturn
  /\ Acquired(p, TRUE)
  /\ UNCHANGED <<gm, block, heard>>

(* rtp_release_device.                                                     *)
ReleaseNothing(p) ==
  /\ vm = Idle
  /\ p \in exists /\ acquired[p] /\ ~hpcm[p]
  /\ Released(p)
  /\ UNCHANGED <<pcmVars, gm, block, heard>>

ReleaseCall(p) ==
  /\ p \in exists /\ hpcm[p]
  /\ CloseCall(p)
  /\ UNCHANGED <<rtpVars, gm, block, heard>>

ReleaseRemove ==
  /\ CloseRemove
  /\ UNCHANGED <<rtpVars, gm, block, heard>>

(* The close returns here unless this was the last channel.                *)
ReleaseFree ==
  /\ CloseFree
  /\ IF vm'.op = "idle" THEN Released(vm.ch) ELSE UNCHANGED rtpVars
  /\ UNCHANGED <<gm, block, heard>>

ReleaseJoin ==
  /\ CloseJoin
  /\ Released(vm.ch)
  /\ UNCHANGED <<gm, block, heard>>

Play(p, on) ==
  /\ vm = Idle
  /\ SetPlaying(p, on)
  /\ UNCHANGED <<pcmVars, gm, block, heard>>

Feed(p) ==
  /\ vm = Idle
  /\ DoBuffering(p)
  /\ UNCHANGED <<pcmVars, gm, block, heard>>

(* gmInit, at the isolate's first use of the synthesizer.                  *)
GmRefused ==
  /\ gm = "none"
  /\ OpenRefused(Gm)
  /\ gm' = "nodevice"
  /\ UNCHANGED <<rtpVars, block, heard>>

GmOpen ==
  /\ gm = "none"
  /\ OpenPublish(Gm)
  /\ gm' = "opening"
  /\ UNCHANGED <<rtpVars, block, heard>>

GmReturn ==
  /\ vm.ch = Gm
  /\ OpenReturn
  /\ gm' = "ready"
  /\ UNCHANGED <<rtpVars, block, heard>>

-----------------------------------------------------------------------------
(* The mixing thread.                                                      *)

MixStep(m) ==
  /\ \/ MixWait(m) \/ MixScan(m) \/ MixWrite(m) \/ MixTake(m)
     \/ MixRelease(m)
  /\ UNCHANGED <<rtpVars, gm, block, heard>>

(* The callback returns with `fill' in the current header.                 *)
Filled(m, fill) ==
  /\ MixCallback(m)
  /\ block' = [block EXCEPT ![mix[m].ch][cur_hdr[mix[m].ch]] = fill]

(* rtp_pcm_callback: a packet taken; nothing to play; and the steps after. *)
CallPop(m) ==
  /\ mix[m].ch \in Players
  /\ CallbackPop(mix[m].ch)
  /\ Filled(m, Head(queue[mix[m].ch]))
  /\ UNCHANGED <<gm, heard>>

CallEmpty(m) ==
  /\ mix[m].pc = "call" /\ mix[m].ch \in Players
  /\ CallbackEmpty(mix[m].ch)
  /\ UNCHANGED <<pcmVars, gm, block, heard>>

CallRest(m) ==
  /\ mix[m].pc = "call" /\ mix[m].ch \in Players
  /\ CallbackRest(mix[m].ch)
  /\ UNCHANGED <<pcmVars, gm, block, heard>>

CallStopped(m) ==
  /\ mix[m].ch \in Players
  /\ CallbackStopped(mix[m].ch)
  /\ Filled(m, 0)
  /\ UNCHANGED <<gm, heard>>

CallMiss(m) ==
  /\ mix[m].pc = "call" /\ mix[m].ch \in Players
  /\ CallbackMiss(mix[m].ch)
  /\ IF cb'[mix[m].ch] = NoCall THEN Filled(m, 0)
                                ELSE UNCHANGED <<pcmVars, block>>
  /\ UNCHANGED <<gm, heard>>

CallEnd(m) ==
  /\ mix[m].ch \in Players
  /\ CallbackEnd(mix[m].ch)
  /\ Filled(m, 0)
  /\ UNCHANGED <<gm, heard>>

(* mmaudio_get_isolate_mix: the synthesizer's sound, none of it packets.   *)
CallGm(m) ==
  /\ mix[m].ch = Gm
  /\ Filled(m, 0)
  /\ UNCHANGED <<rtpVars, gm, heard>>

(* The device plays a header and returns it.                               *)
Played(ch) ==
  /\ WaveOutProc(ch)
  /\ LET data == block[ch][Head(dev[ch])]
     IN  heard' = IF data = 0 THEN heard
                  ELSE [heard EXCEPT ![ch] = Append(@, data)]
  /\ block' = [block EXCEPT ![ch][Head(dev[ch])] = 0]
  /\ UNCHANGED <<rtpVars, gm>>

Callback(m) ==
  CallPop(m) \/ CallEmpty(m) \/ CallRest(m) \/ CallStopped(m)
    \/ CallMiss(m) \/ CallEnd(m) \/ CallGm(m)

VmClosing == ReleaseFree \/ ReleaseJoin

VmReturning == GmReturn \/ \E p \in Players : AcquireReturn(p)

VmCalls ==
  \/ GmRefused \/ GmOpen
  \/ \E p \in Players :
       \/ CreatePlayer(p) \/ DestroyPlayer(p)
       \/ AcquireRefused(p) \/ AcquireOpen(p)
       \/ ReleaseNothing(p) \/ ReleaseCall(p)
       \/ Feed(p) \/ \E on \in BOOLEAN : Play(p, on)

Next ==
  \/ VmCalls \/ VmReturning \/ ReleaseRemove \/ VmClosing
  \/ \E m \in Mixers : MixStep(m) \/ Callback(m)
  \/ \E ch \in Channels : Played(ch)

Spec == Init /\ [][Next]_vars

(* Threads and device run on; a mutex is granted to a thread that keeps    *)
(* asking.                                                                 *)
FairSpec ==
  /\ Spec
  /\ WF_vars(VmReturning \/ VmClosing)
  /\ SF_vars(ReleaseRemove)
  /\ \A m \in Mixers : WF_vars(MixStep(m) \/ Callback(m))
  /\ \A ch \in Channels : WF_vars(Played(ch))

-----------------------------------------------------------------------------
TypeOK ==
  /\ g_Ch \in [0..MaxChannels -> Channels \cup {NoChannel}]
  /\ g_ChNum \in 0..MaxChannels
  /\ g_hChMutex \in Mixers \cup {Free, NoMutex}
  /\ g_bMixStopFlag \in BOOLEAN
  /\ g_hMixThread \in Mixers \cup {NoChannel}
  /\ live \subseteq Channels
  /\ hdrs_free \in [Channels -> -1..(HdrsCount + 1)]
  /\ cur_hdr \in [Channels -> 0..(HdrsCount - 1)]
  /\ \A c \in Channels : dev[c] \in Seq(0..(HdrsCount - 1))
  /\ \A m \in Mixers :
       mix[m] \in [pc : {"dead", "wait", "scan", "call", "filled",
                         "written", "release"},
                   c : 0..MaxChannels, ch : Channels \cup {NoChannel}]
  /\ vm \in [op : {"idle", "opened", "remove", "drain", "join"},
             ch : Channels \cup {NoChannel}]
  /\ exists \subseteq Players
  /\ \A p \in Players : queue[p] \in Seq(1..MaxPackets)
  /\ missing \in [Players -> 0..MaxMissing]

(* What a player has fed, on its way from the ear back to its queue; 0 is  *)
(* silence.                                                                *)
Queued(c) == [i \in 1..Len(dev[c]) |-> block[c][dev[c][i]]]
InHand(c) == IF \E m \in Mixers : mix[m].ch = c /\ mix[m].pc = "filled"
             THEN <<block[c][cur_hdr[c]]>> ELSE <<>>
Line(p) == heard[p] \o Queued(p) \o InHand(p) \o queue[p]

(* Silence apart, s is the packets 1 to n, each once and in order.         *)
InLine(s, n) ==
  /\ \A i, j \in 1..Len(s) : i < j /\ s[i] # 0 /\ s[j] # 0 => s[i] < s[j]
  /\ {s[i] : i \in 1..Len(s)} \ {0} = 1..n

(* Every packet the VM has fed is heard, or on its way, once and in the    *)
(* order fed: through the queue, the callback, the headers and the device, *)
(* over stops, releases and new acquisitions of the device.                *)
HeardInOrder == \A p \in exists : InLine(Line(p), fed[p])

(* A player buffers with its queue full only if a callback that found      *)
(* nothing to play has set the flag after the queue had filled; the test   *)
(* for the number of packets that stops buffering is an equality, so       *)
(* nothing clears it again.                                                *)
StuckOnlyByLateCallback ==
  \A p \in Players : buffering[p] /\ Len(queue[p]) >= BufferPackets => late[p]

(* Releasing the device returns: the mixing thread gives the mutex up and  *)
(* the device gives the headers back.                                      *)
ReleaseReturns == vm.op = "remove" ~> vm = Idle

=============================================================================

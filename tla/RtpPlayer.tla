------------------------------- MODULE RtpPlayer -------------------------------
(***************************************************************************)
(* The streamed (RTP) player of the emulator's media library               *)
(* (src/implementation/win32_emul/jsr135_mmapi/mm_rtp.c): the queue of     *)
(* packets the VM feeds, the callback that takes one packet for each block *)
(* of sound, and the buffering and end-of-media logic between them.        *)
(*                                                                         *)
(* Packets are numbered in the order they are fed.  The callback runs on   *)
(* the mixing thread: it pops under the player's section, and everything   *)
(* it does for an empty queue comes after it has left the section.         *)
(***************************************************************************)
EXTENDS Integers, Sequences

CONSTANTS
  Players,
  BufferPackets,  \* BUFFER_PACKETS
  MaxMissing,     \* MAX_MISSING
  MaxPackets      \* bound: packets fed to one player

ASSUME RtpAssumption ==
  /\ BufferPackets \in Nat \ {0}
  /\ MaxMissing \in Nat \ {0}
  /\ MaxPackets \in Nat

VARIABLES
  exists,     \* players between rtp_create and rtp_destroy
  queue,      \* queue_head ... queue_tail; queue_size is its length
  acquired,
  hpcm,       \* hpcm is not NULL
  playing,
  buffering,
  missing,
  cb,         \* locals of rtp_pcm_callback
  fed,        \* history: packets fed so far
  late        \* history: buffering was announced over a full queue

rtpVars == <<exists, queue, acquired, hpcm, playing, buffering, missing, cb,
             fed, late>>
rtpHist == <<fed, late>>

NoCall == [pc |-> "none", missing |-> 0]

RtpInit ==
  /\ exists = {}
  /\ queue = [p \in Players |-> <<>>]
  /\ acquired = [p \in Players |-> FALSE]
  /\ hpcm = [p \in Players |-> FALSE]
  /\ playing = [p \in Players |-> FALSE]
  /\ buffering = [p \in Players |-> TRUE]
  /\ missing = [p \in Players |-> 0]
  /\ cb = [p \in Players |-> NoCall]
  /\ fed = [p \in Players |-> 0]
  /\ late = [p \in Players |-> FALSE]

-----------------------------------------------------------------------------
(* Calls of the VM's thread.                                               *)

(* The fields as rtp_create sets them; a freed block is kept in that state. *)
Fresh(p) ==
  /\ queue' = [queue EXCEPT ![p] = <<>>]
  /\ acquired' = [acquired EXCEPT ![p] = FALSE]
  /\ playing' = [playing EXCEPT ![p] = FALSE]
  /\ buffering' = [buffering EXCEPT ![p] = TRUE]
  /\ missing' = [missing EXCEPT ![p] = 0]
  /\ fed' = [fed EXCEPT ![p] = 0]
  /\ late' = [late EXCEPT ![p] = FALSE]
  /\ UNCHANGED <<hpcm, cb>>

(* rtp_create.                                                             *)
Create(p) ==
  /\ p \notin exists
  /\ exists' = exists \cup {p}
  /\ Fresh(p)

(* rtp_destroy: queue and block go.  Assumed of the caller: it has         *)
(* released the device before, which rtp_destroy does not test.            *)
Destroy(p) ==
  /\ p \in exists
  /\ ~hpcm[p]
  /\ exists' = exists \ {p}
  /\ Fresh(p)

(* rtp_acquire_device, once pcm_out_open_channel has returned: acquired    *)
(* even when there is no channel.                                          *)
Acquired(p, ok) ==
  /\ hpcm' = [hpcm EXCEPT ![p] = ok]
  /\ acquired' = [acquired EXCEPT ![p] = TRUE]
  /\ UNCHANGED <<exists, queue, playing, buffering, missing, cb, rtpHist>>

(* rtp_release_device, once pcm_out_close_channel has returned, or at once *)
(* when there is no channel.                                               *)
Released(p) ==
  /\ hpcm' = [hpcm EXCEPT ![p] = FALSE]
  /\ acquired' = [acquired EXCEPT ![p] = FALSE]
  /\ UNCHANGED <<exists, queue, playing, buffering, missing, cb, rtpHist>>

(* rtp_start and rtp_resume, rtp_stop and rtp_pause.                       *)
SetPlaying(p, on) ==
  /\ p \in exists
  /\ playing' = [playing EXCEPT ![p] = on]
  /\ UNCHANGED <<exists, queue, acquired, hpcm, buffering, missing, cb,
                 rtpHist>>

(* Mutated form: the size is tested before the packet is counted.          *)
EnoughBefore(q) == Len(q) = BufferPackets + 1

Enough(q) == Len(q) = BufferPackets

(* rtp_get_buffer_address, then rtp_do_buffering with the packet written   *)
(* there; only the VM's thread uses `buf' between the two calls.           *)
DoBuffering(p) ==
  /\ p \in exists
  /\ fed[p] < MaxPackets
  /\ LET q == Append(queue[p], fed[p] + 1)
     IN  /\ queue' = [queue EXCEPT ![p] = q]
         /\ buffering' = [buffering EXCEPT ![p] = @ /\ ~Enough(q)]
  /\ fed' = [fed EXCEPT ![p] = @ + 1]
  /\ missing' = [missing EXCEPT ![p] = 0]
  /\ UNCHANGED <<exists, acquired, hpcm, playing, cb, late>>

-----------------------------------------------------------------------------
(* rtp_pcm_callback, on the mixing thread.  `fill' is what it puts in the  *)
(* block: a packet, or 0 for silence.                                      *)

CanPop(p) == queue[p] # <<>> /\ playing[p] /\ ~buffering[p]

CallbackPop(p) ==
  /\ cb[p].pc = "none"
  /\ CanPop(p)
  /\ queue' = [queue EXCEPT ![p] = Tail(@)]
  /\ UNCHANGED <<exists, acquired, hpcm, playing, buffering, missing, cb,
                 rtpHist>>

CallbackEmpty(p) ==
  /\ cb[p].pc = "none"
  /\ ~CanPop(p)
  /\ cb' = [cb EXCEPT ![p].pc = "rest"]
  /\ UNCHANGED <<exists, queue, acquired, hpcm, playing, buffering, missing,
                 rtpHist>>

(* Outside the section: `playing' is read again, buffering is announced,   *)
(* and ++missing reads its operand.                                        *)
CallbackRest(p) ==
  /\ cb[p].pc = "rest"
  /\ playing[p]
  /\ buffering' = [buffering EXCEPT ![p] = TRUE]
  /\ late' = [late EXCEPT ![p] = @ \/ (~buffering[p]
                                       /\ Len(queue[p]) >= BufferPackets)]
  /\ cb' = [cb EXCEPT ![p] = [pc |-> "miss", missing |-> missing[p]]]
  /\ UNCHANGED <<exists, queue, acquired, hpcm, playing, missing, fed>>

CallbackStopped(p) ==
  /\ cb[p].pc = "rest"
  /\ ~playing[p]
  /\ cb' = [cb EXCEPT ![p] = NoCall]
  /\ UNCHANGED <<exists, queue, acquired, hpcm, playing, buffering, missing,
                 rtpHist>>

(* ++missing, kept at MaxMissing: no test tells larger values apart.       *)
Count(m) == IF m < MaxMissing THEN m + 1 ELSE MaxMissing

CallbackMiss(p) ==
  /\ cb[p].pc = "miss"
  /\ LET m == Count(cb[p].missing)
     IN  /\ missing' = [missing EXCEPT ![p] = m]
         /\ cb' = [cb EXCEPT ![p] = IF m >= MaxMissing
                                    THEN [@ EXCEPT !.pc = "eom"] ELSE NoCall]
  /\ UNCHANGED <<exists, queue, acquired, hpcm, playing, buffering, rtpHist>>

(* The VM has been told of the end of media; only now playing is cleared.  *)
CallbackEnd(p) ==
  /\ cb[p].pc = "eom"
  /\ playing' = [playing EXCEPT ![p] = FALSE]
  /\ cb' = [cb EXCEPT ![p] = NoCall]
  /\ UNCHANGED <<exists, queue, acquired, hpcm, buffering, missing, rtpHist>>

=============================================================================

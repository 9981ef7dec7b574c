-------------------------------- MODULE PcmOut --------------------------------
(***************************************************************************)
(* The PCM mixer of the emulator's media library                           *)
(* (src/implementation/win32_emul/jsr135_mmapi/pcm_out_winapi.c): a table  *)
(* of output channels, the wave device that plays the headers queued on a  *)
(* channel, and the mixing thread that asks the owner of each channel for  *)
(* data and queues it.  The VM's thread opens and closes channels.         *)
(*                                                                         *)
(* The owner's callback is the action MixCallback; here it does nothing    *)
(* to the mixer's state, and MediaOut gives it its two real bodies.  Both  *)
(* of them return the size asked for, so `nread' is always positive.       *)
(***************************************************************************)
EXTENDS Integers, Sequences

CONSTANTS
  Channels,     \* pcm_channel_t blocks, one for each owner
  MaxChannels,  \* PCM_MAX_CHANNELS
  HdrsCount,    \* HDRS_COUNT
  Mixers,       \* mixing threads; a new one replaces one that has ended
  Free,         \* the mutex exists and nobody owns it
  NoMutex,      \* g_hChMutex is NULL
  NoChannel     \* an empty cell of g_Ch; no mixing thread in g_hMixThread

ASSUME PcmAssumption ==
  /\ MaxChannels \in Nat \ {0}
  /\ HdrsCount \in Nat \ {0}
  /\ NoChannel \notin Channels \cup Mixers
  /\ {Free, NoMutex} \cap Mixers = {}
  /\ Free # NoMutex

VARIABLES
  g_Ch,            \* the table; cell MaxChannels stays empty
  g_ChNum,
  g_hChMutex,
  g_bMixStopFlag,
  g_hMixThread,
  live,            \* channels whose block is allocated
  hdrs_free,       \* per channel
  cur_hdr,         \* per channel
  dev,             \* per channel: headers queued in the wave device, in order
  mix,             \* per mixing thread: pc, loop index, channel in hand
  vm               \* where the VM's thread is in an open or a close

pcmVars == <<g_Ch, g_ChNum, g_hChMutex, g_bMixStopFlag, g_hMixThread, live,
             hdrs_free, cur_hdr, dev, mix, vm>>
tableVars == <<g_Ch, g_ChNum, live>>

Dead       == [pc |-> "dead", c |-> 0, ch |-> NoChannel]
Idle       == [op |-> "idle", ch |-> NoChannel]
EmptyTable == [i \in 0..MaxChannels |-> NoChannel]
Goto(m, pc) == mix' = [mix EXCEPT ![m].pc = pc]

PcmInit ==
  /\ g_Ch = EmptyTable
  /\ g_ChNum = 0
  /\ g_hChMutex = NoMutex
  /\ g_bMixStopFlag = FALSE
  /\ g_hMixThread = NoChannel
  /\ live = {}
  /\ hdrs_free = [c \in Channels |-> HdrsCount]
  /\ cur_hdr = [c \in Channels |-> 0]
  /\ dev = [c \in Channels |-> <<>>]
  /\ mix = [m \in Mixers |-> Dead]
  /\ vm = Idle

-----------------------------------------------------------------------------
(* pcm_out_open_channel.                                                   *)

(* The table is full, or waveOutOpen fails: the block is freed, but a      *)
(* first open has made the mutex by then and leaves it.                    *)
OpenRefused(ch) ==
  /\ vm = Idle
  /\ ch \notin live
  /\ g_Ch' = IF g_ChNum = 0 THEN EmptyTable ELSE g_Ch
  /\ g_hChMutex' = IF g_ChNum = 0 THEN Free ELSE g_hChMutex
  /\ UNCHANGED <<g_ChNum, g_bMixStopFlag, g_hMixThread, live, hdrs_free,
                 cur_hdr, dev, mix, vm>>

(* Up to g_ChNum++, which makes the channel visible to the mixing thread.  *)
OpenPublish(ch) ==
  /\ vm = Idle
  /\ ch \notin live
  /\ g_ChNum < MaxChannels
  /\ g_Ch' = [(IF g_ChNum = 0 THEN EmptyTable ELSE g_Ch)
                EXCEPT ![g_ChNum] = ch]
  /\ g_hChMutex' = IF g_ChNum = 0 THEN Free ELSE g_hChMutex
  /\ g_ChNum' = g_ChNum + 1
  /\ live' = live \cup {ch}
  /\ hdrs_free' = [hdrs_free EXCEPT ![ch] = HdrsCount]
  /\ cur_hdr' = [cur_hdr EXCEPT ![ch] = 0]
  /\ dev' = [dev EXCEPT ![ch] = <<>>]
  /\ vm' = [op |-> "opened", ch |-> ch]
  /\ UNCHANGED <<g_bMixStopFlag, g_hMixThread, mix>>

(* Bound: a mixing thread whose join timed out has seen the stop flag by   *)
(* the time the next one starts.                                           *)
NoStray == \A m \in Mixers : mix[m] = Dead

(* The first channel starts the mixing thread; then the call returns.      *)
OpenReturn ==
  /\ vm.op = "opened"
  /\ \/ /\ g_ChNum = 1
        /\ NoStray
        /\ \E m \in Mixers :
             /\ Goto(m, "wait")
             /\ g_hMixThread' = m
        /\ g_bMixStopFlag' = FALSE
     \/ /\ g_ChNum # 1
        /\ UNCHANGED <<mix, g_hMixThread, g_bMixStopFlag>>
  /\ vm' = Idle
  /\ UNCHANGED <<tableVars, g_hChMutex, hdrs_free, cur_hdr, dev>>

-----------------------------------------------------------------------------
(* pcm_out_close_channel.                                                  *)

Index(ch) == CHOOSE i \in 0..(MaxChannels - 1) : g_Ch[i] = ch

CloseCall(ch) ==
  /\ vm = Idle
  /\ ch \in live
  /\ vm' = [op |-> "remove", ch |-> ch]
  /\ UNCHANGED <<tableVars, g_hChMutex, g_bMixStopFlag, g_hMixThread,
                 hdrs_free, cur_hdr, dev, mix>>

(* Mutated form: the table is shifted without waiting for the mutex.       *)
RemoveUnlocked == TRUE

RemoveLock == g_hChMutex = Free

(* Mutated form: the shift starts one cell late.                           *)
ShiftLate(n) ==
  [i \in 0..MaxChannels |->
     IF i <= n \/ i = MaxChannels THEN g_Ch[i] ELSE g_Ch[i + 1]]

(* The cells after n move down one.                                        *)
Shift(n) ==
  [i \in 0..MaxChannels |->
     IF i < n \/ i = MaxChannels THEN g_Ch[i] ELSE g_Ch[i + 1]]

(* Under the mutex.                                                        *)
CloseRemove ==
  /\ vm.op = "remove"
  /\ RemoveLock
  /\ g_Ch' = Shift(Index(vm.ch))
  /\ g_ChNum' = g_ChNum - 1
  /\ vm' = [vm EXCEPT !.op = "drain"]
  /\ UNCHANGED <<live, g_hChMutex, g_bMixStopFlag, g_hMixThread, hdrs_free,
                 cur_hdr, dev, mix>>

Drained(ch) == hdrs_free[ch] >= HdrsCount

(* Every header is back; the device is closed and the block freed.  The    *)
(* last channel tells the mixing thread to stop.                           *)
CloseFree ==
  /\ vm.op = "drain"
  /\ Drained(vm.ch)
  /\ live' = live \ {vm.ch}
  /\ dev' = [dev EXCEPT ![vm.ch] = <<>>]
  /\ \/ /\ g_ChNum = 0
        /\ g_bMixStopFlag' = TRUE
        /\ vm' = [vm EXCEPT !.op = "join"]
     \/ /\ g_ChNum # 0
        /\ vm' = Idle
        /\ UNCHANGED g_bMixStopFlag
  /\ UNCHANGED <<g_Ch, g_ChNum, g_hChMutex, g_hMixThread, hdrs_free, cur_hdr,
                 mix>>

(* The wait for the mixing thread ends, or gives up after a second: either *)
(* way the mutex goes.                                                     *)
CloseJoin ==
  /\ vm.op = "join"
  /\ g_hChMutex' = NoMutex
  /\ vm' = Idle
  /\ UNCHANGED <<tableVars, g_bMixStopFlag, g_hMixThread, hdrs_free, cur_hdr,
                 dev, mix>>

-----------------------------------------------------------------------------
(* mixing_thread: one action for each step another thread can see between. *)

(* The loop condition, tested with the step before it.                     *)
Again(m) == mix' = [mix EXCEPT ![m] = IF g_bMixStopFlag THEN Dead
                                      ELSE [@ EXCEPT !.pc = "wait", !.c = 0]]

(* WaitForSingleObject(g_hChMutex, 10): taken, or not free for 10 ms, or   *)
(* the handle is NULL.                                                     *)
MixWait(m) ==
  /\ mix[m].pc = "wait"
  /\ \/ /\ g_hChMutex = Free
        /\ g_hChMutex' = m
        /\ Goto(m, "scan")
     \/ /\ g_hChMutex # Free
        /\ Again(m)
        /\ UNCHANGED g_hChMutex
  /\ UNCHANGED <<tableVars, g_bMixStopFlag, g_hMixThread, hdrs_free, cur_hdr,
                 dev, vm>>

(* Mutated form: the device is asked to take one header more than it has.  *)
HasFreeAlways(ch) == TRUE

HasFree(ch) == hdrs_free[ch] > 0

(* The next channel, unless the VM has asked the thread to stop.           *)
Onward(m) ==
  mix' = [mix EXCEPT ![m] =
            IF g_bMixStopFlag
            THEN [@ EXCEPT !.pc = "release", !.ch = NoChannel]
            ELSE [@ EXCEPT !.pc = "scan", !.c = mix[m].c + 1,
                           !.ch = NoChannel]]

(* The loop head: the end of the table, a channel with no free header, or  *)
(* a channel to ask for data.                                              *)
MixScan(m) ==
  /\ mix[m].pc = "scan"
  /\ \/ /\ mix[m].c >= g_ChNum
        /\ Goto(m, "release")
     \/ /\ mix[m].c < g_ChNum
        /\ ~HasFree(g_Ch[mix[m].c])
        /\ Onward(m)
     \/ /\ mix[m].c < g_ChNum
        /\ HasFree(g_Ch[mix[m].c])
        /\ mix' = [mix EXCEPT ![m].pc = "call", ![m].ch = g_Ch[mix[m].c]]
  /\ UNCHANGED <<tableVars, g_hChMutex, g_bMixStopFlag, g_hMixThread,
                 hdrs_free, cur_hdr, dev, vm>>

(* gd_callback has filled the current header and returned its size.        *)
MixCallback(m) ==
  /\ mix[m].pc = "call"
  /\ Goto(m, "filled")
  /\ UNCHANGED <<tableVars, g_hChMutex, g_bMixStopFlag, g_hMixThread,
                 hdrs_free, cur_hdr, dev, vm>>

(* waveOutPrepareHeader and waveOutWrite.  Assumed of the device: it takes *)
(* every header.  The code looks at neither result (lines 283-284) and     *)
(* counts a refused header as queued, which a close would wait for without *)
(* end (line 200).                                                         *)
MixWrite(m) ==
  /\ mix[m].pc = "filled"
  /\ dev' = [dev EXCEPT ![mix[m].ch] = Append(@, cur_hdr[mix[m].ch])]
  /\ Goto(m, "written")
  /\ UNCHANGED <<tableVars, g_hChMutex, g_bMixStopFlag, g_hMixThread,
                 hdrs_free, cur_hdr, vm>>

(* Mutated forms: the write position stays, or runs past the last header.  *)
SameHdr(h) == h
NextHdrNoWrap(h) == h + 1

NextHdr(h) == (h + 1) % HdrsCount

(* hdrs_free-- under the channel's section, the next header, and on.       *)
MixTake(m) ==
  /\ mix[m].pc = "written"
  /\ LET ch == mix[m].ch
     IN  /\ hdrs_free' = [hdrs_free EXCEPT ![ch] = @ - 1]
         /\ cur_hdr' = [cur_hdr EXCEPT ![ch] = NextHdr(@)]
  /\ Onward(m)
  /\ UNCHANGED <<tableVars, g_hChMutex, g_bMixStopFlag, g_hMixThread, dev,
                 vm>>

(* Mutated form: the mutex is kept.                                        *)
KeptMutex(m) == g_hChMutex

(* ReleaseMutex fails for a thread that does not own the mutex there now.  *)
ReleasedMutex(m) == IF g_hChMutex = m THEN Free ELSE g_hChMutex

MixRelease(m) ==
  /\ mix[m].pc = "release"
  /\ g_hChMutex' = ReleasedMutex(m)
  /\ Again(m)
  /\ UNCHANGED <<tableVars, g_bMixStopFlag, g_hMixThread, hdrs_free, cur_hdr,
                 dev, vm>>

(* The device has played the header at the head of the channel's queue and *)
(* calls wave_out_proc with WOM_DONE.                                      *)
WaveOutProc(ch) ==
  /\ dev[ch] # <<>>
  /\ dev' = [dev EXCEPT ![ch] = Tail(@)]
  /\ hdrs_free' = [hdrs_free EXCEPT ![ch] = @ + 1]
  /\ UNCHANGED <<tableVars, g_hChMutex, g_bMixStopFlag, g_hMixThread, cur_hdr,
                 mix, vm>>

-----------------------------------------------------------------------------
(* The header a callback is filling, or has filled and not yet queued, is  *)
(* not in the wave device: sound that still plays is never overwritten,    *)
(* though the count of free headers and the write position change under    *)
(* different locks than the device's queue.                                *)
FillsIdleHeader ==
  \A m \in Mixers :
    mix[m].pc \in {"call", "filled"} =>
      \A i \in 1..Len(dev[mix[m].ch]) :
        dev[mix[m].ch][i] # cur_hdr[mix[m].ch]

(* The mixing thread only works on channels whose block is allocated,      *)
(* whatever the VM's thread closes meanwhile.                              *)
WorksOnOpenChannel ==
  \A m \in Mixers : mix[m].ch # NoChannel => mix[m].ch \in live

(* The channels an owner can still be called for: not the one whose close  *)
(* has taken it out of the table.                                          *)
Listed == IF vm.op \in {"drain", "join"} THEN live \ {vm.ch} ELSE live

(* The table lists each open channel once, in cells 0..g_ChNum-1, and the  *)
(* rest is empty: a close finds its channel (the assertion at line 184),   *)
(* and the extra cell stays zero.                                          *)
TableListsOpenChannels ==
  /\ {g_Ch[i] : i \in 0..(g_ChNum - 1)} = Listed
  /\ \A i, j \in 0..(g_ChNum - 1) : g_Ch[i] = g_Ch[j] => i = j
  /\ \A i \in g_ChNum..MaxChannels : g_Ch[i] = NoChannel

=============================================================================

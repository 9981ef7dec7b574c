---------------------------- MODULE MediaOutProofs ----------------------------
(***************************************************************************)
(* Proofs about MediaOut for any number of players and channels, wave      *)
(* headers and packets.                                                    *)
(***************************************************************************)
EXTENDS MediaOut, SequenceTheorems, TLAPS

-----------------------------------------------------------------------------
(* The players.                                                            *)

Calls == [pc : {"none", "rest", "miss", "eom"}, missing : 0..MaxMissing]

PlayerTypes ==
  /\ exists \subseteq Players
  /\ queue \in [Players -> Seq(1..MaxPackets)]
  /\ fed \in [Players -> 0..MaxPackets]
  /\ missing \in [Players -> 0..MaxMissing]
  /\ cb \in [Players -> Calls]
  /\ buffering \in [Players -> BOOLEAN]
  /\ late \in [Players -> BOOLEAN]

PlayerInv == PlayerTypes /\ StuckOnlyByLateCallback

(* What may happen to one player.                                          *)
PlayerStep(p) ==
  \/ Create(p) \/ Destroy(p) \/ DoBuffering(p)
  \/ CallbackPop(p) \/ CallbackEmpty(p) \/ CallbackRest(p)
  \/ CallbackStopped(p) \/ CallbackMiss(p) \/ CallbackEnd(p)

LEMMA FreshPlayer ==
  ASSUME PlayerInv, NEW p \in Players, Fresh(p), exists' \subseteq Players
  PROVE  PlayerInv'
<1> USE RtpAssumption DEF PlayerInv, PlayerTypes
<1>1. PlayerTypes'
  BY DEF Fresh
<1>2. StuckOnlyByLateCallback'
  <2> SUFFICES ASSUME NEW r \in Players, buffering'[r],
                      Len(queue'[r]) >= BufferPackets
               PROVE  late'[r]
    BY DEF StuckOnlyByLateCallback
  <2>1. r # p
    BY DEF Fresh
  <2>2. buffering'[r] = buffering[r] /\ queue'[r] = queue[r]
        /\ late'[r] = late[r]
    BY <2>1 DEF Fresh
  <2> QED
    BY <2>2 DEF StuckOnlyByLateCallback
<1> QED
  BY <1>1, <1>2

(* A packet comes in: buffering goes on only over a queue longer than      *)
(* BufferPackets, which was full before.                                   *)
LEMMA FedPlayer ==
  ASSUME PlayerInv, NEW p \in Players, DoBuffering(p)
  PROVE  PlayerInv'
<1> USE RtpAssumption DEF PlayerInv, PlayerTypes
<1> DEFINE q == Append(queue[p], fed[p] + 1)
<1>1. fed[p] + 1 \in 1..MaxPackets /\ queue[p] \in Seq(1..MaxPackets)
  BY DEF DoBuffering
<1>2. q \in Seq(1..MaxPackets) /\ Len(q) = Len(queue[p]) + 1
      /\ Len(queue[p]) \in Nat
  BY <1>1
<1>3. /\ queue' = [queue EXCEPT ![p] = q]
      /\ buffering' = [buffering EXCEPT ![p] = buffering[p] /\ ~Enough(q)]
      /\ fed' = [fed EXCEPT ![p] = fed[p] + 1]
      /\ missing' = [missing EXCEPT ![p] = 0]
      /\ UNCHANGED <<exists, cb, late>>
  BY DEF DoBuffering
<1> HIDE DEF q
<1>4. PlayerTypes'
  BY <1>1, <1>2, <1>3
<1>5. ASSUME NEW r \in Players, buffering'[r],
             Len(queue'[r]) >= BufferPackets
      PROVE  late'[r]
  <2>1. CASE r = p
    <3>1. buffering[p] /\ ~Enough(q) /\ Len(q) >= BufferPackets
      BY <1>3, <1>5, <2>1
    <3>2. Len(queue[p]) >= BufferPackets
      BY <1>2, <3>1 DEF Enough
    <3> QED
      BY <1>3, <2>1, <3>1, <3>2 DEF StuckOnlyByLateCallback
  <2>2. CASE r # p
    BY <1>3, <1>5, <2>2 DEF StuckOnlyByLateCallback
  <2> QED
    BY <2>1, <2>2
<1> QED
  BY <1>4, <1>5 DEF StuckOnlyByLateCallback

LEMMA PoppedPlayer ==
  ASSUME PlayerInv, NEW p \in Players, CallbackPop(p)
  PROVE  PlayerInv'
<1> USE DEF PlayerInv, PlayerTypes
<1>1. queue[p] # <<>> /\ queue[p] \in Seq(1..MaxPackets) /\ ~buffering[p]
  BY DEF CallbackPop, CanPop
<1>2. Tail(queue[p]) \in Seq(1..MaxPackets)
  BY <1>1, HeadTailProperties
<1>3. /\ queue' = [queue EXCEPT ![p] = Tail(queue[p])]
      /\ UNCHANGED <<exists, buffering, missing, cb, fed, late>>
  BY DEF CallbackPop, rtpHist
<1>4. PlayerTypes'
  BY <1>2, <1>3
<1>5. StuckOnlyByLateCallback'
  BY <1>1, <1>3 DEF StuckOnlyByLateCallback
<1> QED
  BY <1>4, <1>5

(* Buffering is announced: over a full queue only as the history records.  *)
LEMMA RestedPlayer ==
  ASSUME PlayerInv, NEW p \in Players, CallbackRest(p)
  PROVE  PlayerInv'
<1> USE DEF PlayerInv, PlayerTypes
<1>1. /\ buffering' = [buffering EXCEPT ![p] = TRUE]
      /\ late' = [late EXCEPT ![p] = late[p]
                    \/ (~buffering[p] /\ Len(queue[p]) >= BufferPackets)]
      /\ cb' = [cb EXCEPT ![p] = [pc |-> "miss", missing |-> missing[p]]]
      /\ UNCHANGED <<exists, queue, missing, fed>>
  BY DEF CallbackRest
<1>2. PlayerTypes'
  BY <1>1 DEF Calls
<1>3. ASSUME NEW r \in Players, buffering'[r],
             Len(queue'[r]) >= BufferPackets
      PROVE  late'[r]
  BY <1>1, <1>3 DEF StuckOnlyByLateCallback
<1> QED
  BY <1>2, <1>3 DEF StuckOnlyByLateCallback

playerVars == <<exists, queue, fed, missing, cb, buffering, late>>

LEMMA PlayerQuiet == PlayerInv /\ UNCHANGED playerVars => PlayerInv'
  BY DEF PlayerInv, PlayerTypes, playerVars, StuckOnlyByLateCallback

LEMMA PlayerKeeps ==
  ASSUME PlayerInv, NEW p \in Players, PlayerStep(p)
  PROVE  PlayerInv'
<1> USE RtpAssumption DEF PlayerInv, PlayerTypes
<1>1. CASE Create(p) \/ Destroy(p)
  <2>1. Fresh(p) /\ exists' \subseteq Players
    BY <1>1 DEF Create, Destroy
  <2> QED
    BY <2>1, FreshPlayer
<1>2. CASE CallbackEmpty(p) \/ CallbackStopped(p) \/ CallbackEnd(p)
  <2>1. UNCHANGED <<exists, queue, buffering, missing, fed, late>>
    BY <1>2 DEF CallbackEmpty, CallbackStopped, CallbackEnd, rtpHist
  <2>2. cb' \in [Players -> Calls]
    <3>0. ASSUME NEW c \in Calls PROVE [c EXCEPT !.pc = "rest"] \in Calls
      BY DEF Calls
    <3>1. NoCall \in Calls /\ [cb[p] EXCEPT !.pc = "rest"] \in Calls
      BY <3>0 DEF NoCall, Calls
    <3>2. cb' = [cb EXCEPT ![p] = NoCall]
            \/ cb' = [cb EXCEPT ![p] = [cb[p] EXCEPT !.pc = "rest"]]
      BY <1>2 DEF CallbackEmpty, CallbackStopped, CallbackEnd
    <3> QED
      BY <3>1, <3>2
  <2> QED
    BY <2>1, <2>2 DEF StuckOnlyByLateCallback
<1>3. CASE CallbackMiss(p)
  <2>1. UNCHANGED <<exists, queue, buffering, fed, late>>
    BY <1>3 DEF CallbackMiss, rtpHist
  <2>2. Count(cb[p].missing) \in 0..MaxMissing
    BY DEF Count, Calls
  <2>3. cb' \in [Players -> Calls] /\ missing' \in [Players -> 0..MaxMissing]
    BY <1>3, <2>2 DEF CallbackMiss, NoCall, Calls
  <2> QED
    BY <2>1, <2>3 DEF StuckOnlyByLateCallback
<1> QED
  BY <1>1, <1>2, <1>3, FedPlayer, PoppedPlayer, RestedPlayer
     DEF PlayerStep

(* What a step of the whole does to the players.                           *)
LEMMA PlayerSteps ==
  ASSUME [Next]_vars
  PROVE  UNCHANGED playerVars \/ \E p \in Players : PlayerStep(p)
<1> USE DEF playerVars, rtpVars, rtpHist
<1>1. ASSUME NEW p \in Players,
             CreatePlayer(p) \/ DestroyPlayer(p) \/ Feed(p)
      PROVE  PlayerStep(p)
  BY <1>1 DEF CreatePlayer, DestroyPlayer, Feed, PlayerStep
<1>2. ASSUME NEW p \in Players,
             \/ AcquireRefused(p) \/ AcquireOpen(p) \/ AcquireReturn(p)
             \/ ReleaseNothing(p) \/ ReleaseCall(p)
             \/ \E on \in BOOLEAN : Play(p, on)
      PROVE  UNCHANGED playerVars
  BY <1>2 DEF AcquireRefused, AcquireOpen, AcquireReturn, ReleaseNothing,
              ReleaseCall, Play, Acquired, Released, SetPlaying
<1>3. CASE GmRefused \/ GmOpen \/ GmReturn \/ ReleaseRemove \/ VmClosing
  BY <1>3 DEF GmRefused, GmOpen, GmReturn, ReleaseRemove, VmClosing,
              ReleaseFree, ReleaseJoin, Released
<1>4. ASSUME NEW m \in Mixers, MixStep(m) \/ CallGm(m)
      PROVE  UNCHANGED playerVars
  BY <1>4 DEF MixStep, CallGm
<1>5. ASSUME NEW m \in Mixers, Callback(m), ~CallGm(m)
      PROVE  \E p \in Players : PlayerStep(p)
  BY <1>5 DEF Callback, CallPop, CallEmpty, CallRest, CallStopped, CallMiss,
              CallEnd, PlayerStep
<1>6. ASSUME NEW ch \in Channels, Played(ch) PROVE UNCHANGED playerVars
  BY <1>6 DEF Played
<1>7. CASE UNCHANGED vars
  BY <1>7 DEF vars
<1> QED
  BY <1>1, <1>2, <1>3, <1>4, <1>5, <1>6, <1>7
     DEF Next, VmCalls, VmReturning

LEMMA PlayerInvariant == Spec => []PlayerInv
<1>1. Init => PlayerInv
  BY RtpAssumption
     DEF Init, RtpInit, PlayerInv, PlayerTypes, StuckOnlyByLateCallback,
         NoCall, Calls
<1>2. PlayerInv /\ [Next]_vars => PlayerInv'
  BY PlayerSteps, PlayerKeeps, PlayerQuiet
<1> QED
  BY <1>1, <1>2, PTL DEF Spec

(* A player that buffers over a full queue has been announced by a         *)
(* callback that came late.                                                *)
THEOREM StuckOnlyLate == Spec => []StuckOnlyByLateCallback
<1>1. PlayerInv => StuckOnlyByLateCallback
  BY DEF PlayerInv
<1> QED
  BY <1>1, PlayerInvariant, PTL

-----------------------------------------------------------------------------
(* The mixer's state.                                                      *)

Numbers == 0..(HdrsCount - 1)
Holding == {"call", "filled", "written"}
Working == {"scan", "call", "filled", "written", "release"}

MixStates == [pc : {"dead", "wait"} \cup Working, c : 0..MaxChannels,
              ch : Channels \cup {NoChannel}]
VmStates == [op : {"idle", "opened", "remove", "drain", "join"},
             ch : Channels \cup {NoChannel}]

PcmTypes ==
  /\ g_Ch \in [0..MaxChannels -> Channels \cup {NoChannel}]
  /\ g_ChNum \in 0..MaxChannels
  /\ g_hChMutex \in Mixers \cup {Free, NoMutex}
  /\ g_bMixStopFlag \in BOOLEAN
  /\ g_hMixThread \in Mixers \cup {NoChannel}
  /\ live \subseteq Channels
  /\ hdrs_free \in [Channels -> Int]
  /\ cur_hdr \in [Channels -> Numbers]
  /\ dev \in [Channels -> Seq(Numbers)]
  /\ mix \in [Mixers -> MixStates]
  /\ vm \in VmStates

(* Where the VM's thread is tells whether its channel is open.             *)
VmPlaces ==
  /\ vm.op = "idle" => vm = Idle
  /\ vm.op \in {"opened", "remove", "drain"} => vm.ch \in live
  /\ vm.op = "join" => g_ChNum = 0 /\ vm.ch \notin live
  /\ vm.op = "opened" => g_ChNum > 0

(* No channel is in the table, or only one that is not open to its owner   *)
(* yet: only a thread that has been told to stop may still be running.     *)
Quiet == \/ g_ChNum = 0 /\ vm.op \in {"idle", "join"}
         \/ g_ChNum = 1 /\ vm.op = "opened"

(* There is one mixing thread, and it has the mutex while it works, unless *)
(* the mutex went while it was told to stop.                               *)
Threads ==
  /\ \A m, n \in Mixers : mix[m] # Dead /\ mix[n] # Dead => m = n
  /\ Quiet => g_bMixStopFlag \/ NoStray
  /\ \A m \in Mixers :
       mix[m].pc \in Working => g_hChMutex = m \/ (Quiet /\ g_bMixStopFlag)

(* The channel in hand is one of the table.                                *)
InHands ==
  \A m \in Mixers :
    /\ mix[m].ch # NoChannel <=> mix[m].pc \in Holding
    /\ mix[m].pc \in Holding => mix[m].ch \in Listed /\ mix[m].c < MaxChannels

(* A header is in the device and still counted as free.                    *)
Uncounted(ch) == \E m \in Mixers : mix[m].pc = "written" /\ mix[m].ch = ch
Extra(ch) == IF Uncounted(ch) THEN 1 ELSE 0

(* Every header is free or in the device.                                  *)
Counts ==
  /\ \A ch \in Channels :
       /\ hdrs_free[ch] >= 0
       /\ hdrs_free[ch] + Len(dev[ch]) = HdrsCount + Extra(ch)
  /\ \A m \in Mixers : mix[m].pc \in Holding => hdrs_free[mix[m].ch] > 0

Around(x) == IF x < 0 THEN x + HdrsCount ELSE x

(* The headers in the device are the last ones before the write position.  *)
Ring ==
  \A ch \in Channels : \A i \in 1..Len(dev[ch]) :
    dev[ch][i] = Around(cur_hdr[ch] + Extra(ch) - 1 - (Len(dev[ch]) - i))

PcmInv == /\ PcmTypes /\ VmPlaces /\ Threads /\ InHands
          /\ TableListsOpenChannels /\ Counts /\ Ring

LEMMA DeadPlace == Dead.pc = "dead" /\ "dead" \notin Working
  BY DEF Dead, Working

(* What Counts and Ring say goes for any step that moves no header.        *)
LEMMA HeadersQuiet ==
  ASSUME Counts, Ring, UNCHANGED <<hdrs_free, cur_hdr, dev>>,
         \A m \in Mixers :
           /\ mix[m].pc = "written" <=> mix'[m].pc = "written"
           /\ mix[m].pc = "written" => mix'[m].ch = mix[m].ch
           /\ mix'[m].pc \in Holding =>
                \/ mix[m].pc \in Holding /\ mix'[m].ch = mix[m].ch
                \/ hdrs_free[mix'[m].ch] > 0
  PROVE  Counts' /\ Ring'
<1>1. \A ch \in Channels : Extra(ch)' = Extra(ch)
  BY DEF Extra, Uncounted
<1>2. Counts'
  BY <1>1 DEF Counts
<1>3. Ring'
  BY <1>1 DEF Ring, Around
<1> QED
  BY <1>2, <1>3

-----------------------------------------------------------------------------
(* Opening a channel.                                                      *)

LEMMA EmptyTableType ==
  EmptyTable \in [0..MaxChannels -> Channels \cup {NoChannel}]
  BY DEF EmptyTable

LEMMA RefusedKeeps ==
  ASSUME PcmInv, NEW ch \in Channels, OpenRefused(ch)
  PROVE  PcmInv'
<1> USE PcmAssumption
<1>0. UNCHANGED <<g_ChNum, g_bMixStopFlag, g_hMixThread, live, hdrs_free,
                  cur_hdr, dev, mix, vm>>
  BY DEF OpenRefused
<1>1. PcmTypes'
  BY <1>0, EmptyTableType DEF PcmInv, PcmTypes, OpenRefused
<1>2. VmPlaces' /\ InHands'
  BY <1>0 DEF PcmInv, VmPlaces, InHands, Listed
<1>3. Threads'
  BY <1>0, DeadPlace DEF PcmInv, Threads, Quiet, NoStray, OpenRefused, Idle
<1>4. TableListsOpenChannels'
  <2>1. CASE g_ChNum = 0
    <3>1. g_Ch' = EmptyTable
      BY <2>1 DEF OpenRefused
    <3>2. {g_Ch'[i] : i \in 0..(g_ChNum - 1)} = {}
          /\ {g_Ch[i] : i \in 0..(g_ChNum - 1)} = {}
      BY <2>1
    <3>3. Listed = {} /\ Listed' = {}
      BY <1>0, <3>2 DEF PcmInv, TableListsOpenChannels, Listed
    <3> QED
      BY <1>0, <2>1, <3>1, <3>2, <3>3 DEF TableListsOpenChannels, EmptyTable
  <2>2. CASE g_ChNum # 0
    BY <1>0, <2>2 DEF PcmInv, TableListsOpenChannels, Listed, OpenRefused
  <2> QED
    BY <2>1, <2>2
<1>5. Counts' /\ Ring'
  BY <1>0, HeadersQuiet DEF PcmInv
<1> QED
  BY <1>1, <1>2, <1>3, <1>4, <1>5 DEF PcmInv

LEMMA PublishKeeps ==
  ASSUME PcmInv, NEW ch \in Channels, OpenPublish(ch)
  PROVE  PcmInv'
<1> USE PcmAssumption
<1>0. /\ vm = Idle /\ ch \notin live /\ g_ChNum \in 0..(MaxChannels - 1)
      /\ g_ChNum' = g_ChNum + 1
      /\ live' = live \cup {ch}
      /\ hdrs_free' = [hdrs_free EXCEPT ![ch] = HdrsCount]
      /\ cur_hdr' = [cur_hdr EXCEPT ![ch] = 0]
      /\ dev' = [dev EXCEPT ![ch] = <<>>]
      /\ vm' = [op |-> "opened", ch |-> ch]
      /\ UNCHANGED <<g_bMixStopFlag, g_hMixThread, mix>>
  BY DEF OpenPublish, PcmInv, PcmTypes
<1>a. Listed = live /\ Listed' = live'
  BY <1>0 DEF Listed, Idle
<1>1. PcmTypes'
  <2>1. g_Ch' \in [0..MaxChannels -> Channels \cup {NoChannel}]
    BY <1>0, EmptyTableType DEF PcmInv, PcmTypes, OpenPublish
  <2>2. g_hChMutex' \in Mixers \cup {Free, NoMutex}
    BY DEF PcmInv, PcmTypes, OpenPublish
  <2>3. /\ cur_hdr' \in [Channels -> Numbers]
        /\ dev' \in [Channels -> Seq(Numbers)]
        /\ hdrs_free' \in [Channels -> Int]
    BY <1>0 DEF PcmInv, PcmTypes, Numbers
  <2>4. vm' \in VmStates
    BY <1>0 DEF VmStates
  <2> QED
    BY <1>0, <2>1, <2>2, <2>3, <2>4 DEF PcmInv, PcmTypes
<1>2. VmPlaces'
  BY <1>0 DEF VmPlaces
<1>3. Threads'
  <2>1. CASE g_ChNum = 0
    BY <1>0, <2>1, DeadPlace DEF PcmInv, Threads, Quiet, NoStray, Idle
  <2>2. CASE g_ChNum # 0
    <3>1. ~Quiet /\ ~Quiet' /\ UNCHANGED g_hChMutex
      BY <1>0, <2>2 DEF Quiet, Idle, OpenPublish
    <3> QED
      BY <1>0, <3>1 DEF PcmInv, Threads, NoStray
  <2> QED
    BY <2>1, <2>2
<1>4. InHands'
  BY <1>0, <1>a DEF PcmInv, InHands
<1>5. TableListsOpenChannels'
  <2> DEFINE old == IF g_ChNum = 0 THEN EmptyTable ELSE g_Ch
  <2>1. g_Ch' = [old EXCEPT ![g_ChNum] = ch]
    BY DEF OpenPublish
  <2>2. /\ old \in [0..MaxChannels -> Channels \cup {NoChannel}]
        /\ \A i \in 0..(g_ChNum - 1) : old[i] = g_Ch[i]
        /\ \A i \in g_ChNum..MaxChannels : old[i] = NoChannel
    BY <1>0, EmptyTableType
       DEF PcmInv, PcmTypes, TableListsOpenChannels, EmptyTable
  <2> HIDE DEF old
  <2>3. /\ g_Ch'[g_ChNum] = ch
        /\ \A i \in 0..(g_ChNum - 1) : g_Ch'[i] = g_Ch[i]
        /\ \A i \in (g_ChNum + 1)..MaxChannels : g_Ch'[i] = NoChannel
    BY <1>0, <2>1, <2>2
  <2>4. /\ {g_Ch[i] : i \in 0..(g_ChNum - 1)} = live
        /\ \A i, j \in 0..(g_ChNum - 1) : g_Ch[i] = g_Ch[j] => i = j
    BY <1>a DEF PcmInv, TableListsOpenChannels
  <2>5. \A i \in 0..g_ChNum : i \in 0..(g_ChNum - 1) \/ i = g_ChNum
    BY <1>0
  <2>6. {g_Ch'[i] : i \in 0..g_ChNum} = live'
    <3>1. \A i \in 0..g_ChNum : g_Ch'[i] \in live'
      BY <1>0, <2>3, <2>4, <2>5
    <3>2. \A c \in live' : \E i \in 0..g_ChNum : g_Ch'[i] = c
      <4> TAKE c \in live'
      <4>1. CASE c = ch
        BY <1>0, <2>3, <4>1
      <4>2. CASE c \in live
        <5>1. PICK i \in 0..(g_ChNum - 1) : g_Ch[i] = c
          BY <2>4, <4>2
        <5> QED
          BY <1>0, <2>3, <5>1
      <4> QED
        BY <1>0, <4>1, <4>2
    <3> QED
      BY <3>1, <3>2
  <2>7. \A i, j \in 0..g_ChNum : g_Ch'[i] = g_Ch'[j] => i = j
    BY <1>0, <2>3, <2>4, <2>5
  <2> QED
    BY <1>0, <1>a, <2>3, <2>6, <2>7 DEF TableListsOpenChannels
<1>6. \A m \in Mixers : mix[m].pc \in Holding => mix[m].ch # ch
  BY <1>0, <1>a DEF PcmInv, InHands
<1>7. \A c \in Channels : Extra(c)' = Extra(c)
  BY <1>0 DEF Extra, Uncounted
<1>8. Extra(ch) = 0
  BY <1>6 DEF Extra, Uncounted, Holding
<1>9. Counts'
  <2>1. \A m \in Mixers : mix'[m].pc \in Holding => hdrs_free'[mix'[m].ch] > 0
    BY <1>0, <1>6 DEF PcmInv, Counts, PcmTypes, InHands, Listed
  <2> QED
    BY <1>0, <1>7, <1>8, <2>1 DEF PcmInv, PcmTypes, Counts
<1>10. Ring'
  BY <1>0, <1>7 DEF PcmInv, PcmTypes, Ring, Around
<1> QED
  BY <1>1, <1>2, <1>3, <1>4, <1>5, <1>9, <1>10 DEF PcmInv

(* What the table says goes for any step of the VM's thread that leaves    *)
(* table and listed channels alone.                                        *)
LEMMA TableQuiet ==
  ASSUME TableListsOpenChannels, UNCHANGED <<g_Ch, g_ChNum>>, Listed' = Listed
  PROVE  TableListsOpenChannels'
  BY DEF TableListsOpenChannels

LEMMA NoChannelListed ==
  ASSUME PcmInv, g_ChNum = 0 PROVE Listed = {}
<1>1. {g_Ch[i] : i \in 0..(g_ChNum - 1)} = {}
  OBVIOUS
<1> QED
  BY <1>1 DEF PcmInv, TableListsOpenChannels

(* The first channel starts a mixing thread, when no other is left.        *)
LEMMA ReturnKeeps ==
  ASSUME PcmInv, OpenReturn
  PROVE  PcmInv'
<1> USE PcmAssumption
<1>0. /\ vm.op = "opened" /\ vm' = Idle
      /\ UNCHANGED <<g_Ch, g_ChNum, live, g_hChMutex, hdrs_free, cur_hdr, dev>>
      /\ g_ChNum \in 1..MaxChannels
  BY DEF OpenReturn, tableVars, PcmInv, PcmTypes, VmPlaces
<1>a. Listed' = Listed
  BY <1>0 DEF Listed, Idle
<1>b. Idle \in VmStates
  BY DEF Idle, VmStates
<1>1. VmPlaces' /\ TableListsOpenChannels'
  BY <1>0, <1>a, TableQuiet DEF PcmInv, VmPlaces, Idle
<1>2. ASSUME g_ChNum # 1 PROVE PcmInv'
  <2>1. UNCHANGED <<mix, g_hMixThread, g_bMixStopFlag>>
    BY <1>2 DEF OpenReturn
  <2>2. PcmTypes'
    BY <1>0, <1>b, <2>1 DEF PcmInv, PcmTypes
  <2>3. Threads' /\ InHands'
    BY <1>0, <1>2, <1>a, <2>1 DEF PcmInv, Threads, InHands, Quiet, NoStray, Idle
  <2>4. Counts' /\ Ring'
    BY <1>0, <2>1, HeadersQuiet DEF PcmInv
  <2> QED
    BY <1>1, <2>2, <2>3, <2>4 DEF PcmInv
<1>3. ASSUME g_ChNum = 1, NoStray, g_bMixStopFlag' = FALSE,
             NEW m \in Mixers, Goto(m, "wait"), g_hMixThread' = m
      PROVE  PcmInv'
  <2>1. mix' = [mix EXCEPT ![m] = [Dead EXCEPT !.pc = "wait"]]
        /\ mix \in [Mixers -> MixStates]
    BY <1>3 DEF Goto, NoStray, PcmInv, PcmTypes
  <2>2. [Dead EXCEPT !.pc = "wait"] \in MixStates
        /\ [Dead EXCEPT !.pc = "wait"].pc = "wait"
        /\ [Dead EXCEPT !.pc = "wait"].ch = NoChannel
    BY DEF Dead, MixStates, Working
  <2>3. \A n \in Mixers : mix'[n].ch = NoChannel /\ mix'[n].pc \in {"dead", "wait"}
                         /\ mix[n].pc = "dead"
                         /\ (mix'[n] # Dead => n = m)
    BY <1>3, <2>1, <2>2 DEF NoStray, Dead
  <2>4. PcmTypes'
    BY <1>0, <1>3, <1>b, <2>1, <2>2 DEF PcmInv, PcmTypes
  <2>5. Threads' /\ InHands'
    BY <1>0, <1>3, <2>3 DEF Threads, InHands, Quiet, Idle, Working, Holding
  <2>6. Counts' /\ Ring'
    BY <1>0, <2>3, HeadersQuiet DEF PcmInv, Holding
  <2> QED
    BY <1>1, <2>4, <2>5, <2>6 DEF PcmInv
<1> QED
  BY <1>2, <1>3 DEF OpenReturn

-----------------------------------------------------------------------------
(* Closing a channel.                                                      *)

LEMMA CloseCallKeeps ==
  ASSUME PcmInv, NEW ch \in Channels, CloseCall(ch)
  PROVE  PcmInv'
<1> USE PcmAssumption
<1>0. /\ vm = Idle /\ ch \in live /\ vm' = [op |-> "remove", ch |-> ch]
      /\ UNCHANGED <<g_Ch, g_ChNum, live, g_hChMutex, g_bMixStopFlag,
                     g_hMixThread, hdrs_free, cur_hdr, dev, mix>>
  BY DEF CloseCall, tableVars
<1>a. Listed = live /\ Listed' = live
  BY <1>0 DEF Listed, Idle
<1>b. vm' \in VmStates
  BY <1>0 DEF VmStates
<1>1. g_ChNum # 0
  BY <1>0, <1>a, NoChannelListed
<1>2. PcmTypes' /\ VmPlaces'
  BY <1>0, <1>b DEF PcmInv, PcmTypes, VmPlaces
<1>3. Threads' /\ InHands' /\ TableListsOpenChannels'
  BY <1>0, <1>1, <1>a, TableQuiet
     DEF PcmInv, Threads, InHands, Quiet, NoStray, Idle
<1>4. Counts' /\ Ring'
  BY <1>0, HeadersQuiet DEF PcmInv
<1> QED
  BY <1>2, <1>3, <1>4 DEF PcmInv

(* The shift under the mutex: no thread has a channel in hand.             *)
LEMMA RemoveKeeps ==
  ASSUME PcmInv, CloseRemove
  PROVE  PcmInv'
<1> USE PcmAssumption
<1> DEFINE n == Index(vm.ch)
<1>0. /\ vm.op = "remove" /\ g_hChMutex = Free
      /\ g_Ch' = Shift(n) /\ g_ChNum' = g_ChNum - 1
      /\ vm' = [vm EXCEPT !.op = "drain"]
      /\ UNCHANGED <<live, g_hChMutex, g_bMixStopFlag, g_hMixThread, hdrs_free,
                     cur_hdr, dev, mix>>
      /\ vm.ch \in live
  BY DEF CloseRemove, RemoveLock, PcmInv, VmPlaces
<1>a. vm'.op = "drain" /\ vm'.ch = vm.ch /\ vm' \in VmStates
  BY <1>0 DEF PcmInv, PcmTypes, VmStates
<1>b. Listed = live /\ Listed' = live \ {vm.ch}
  BY <1>0, <1>a DEF Listed
<1>c. g_ChNum \in 0..MaxChannels /\ g_ChNum # 0
  BY <1>0, <1>b, NoChannelListed DEF PcmInv, PcmTypes
<1>d. n \in 0..(g_ChNum - 1) /\ g_Ch[n] = vm.ch
  <2>1. \E i \in 0..(g_ChNum - 1) : g_Ch[i] = vm.ch
    BY <1>0, <1>b DEF PcmInv, TableListsOpenChannels
  <2>2. \E i \in 0..(MaxChannels - 1) : g_Ch[i] = vm.ch
    BY <1>c, <2>1
  <2>3. n \in 0..(MaxChannels - 1) /\ g_Ch[n] = vm.ch
    BY <2>2 DEF Index
  <2>4. vm.ch # NoChannel
    BY <1>0 DEF PcmInv, PcmTypes
  <2> QED
    BY <1>c, <2>3, <2>4 DEF PcmInv, TableListsOpenChannels
<1> HIDE DEF n
<1>e. \A m \in Mixers : mix[m].pc \notin Working
  BY <1>0 DEF PcmInv, Threads, Quiet
<1>1. PcmTypes'
  <2>1. g_Ch' \in [0..MaxChannels -> Channels \cup {NoChannel}]
    BY <1>0, <1>c, <1>d DEF Shift, PcmInv, PcmTypes
  <2> QED
    BY <1>0, <1>a, <1>c, <2>1 DEF PcmInv, PcmTypes
<1>2. VmPlaces'
  BY <1>0, <1>a DEF VmPlaces
<1>3. Threads' /\ InHands'
  BY <1>0, <1>a, <1>e DEF PcmInv, Threads, InHands, Quiet, NoStray, Working,
                          Holding
<1>4. TableListsOpenChannels'
  <2>1. /\ \A i \in 0..(n - 1) : g_Ch'[i] = g_Ch[i]
        /\ \A i \in n..(MaxChannels - 1) : g_Ch'[i] = g_Ch[i + 1]
        /\ g_Ch'[MaxChannels] = g_Ch[MaxChannels]
    BY <1>0, <1>c, <1>d DEF Shift
  <2>2. /\ {g_Ch[i] : i \in 0..(g_ChNum - 1)} = live
        /\ \A i, j \in 0..(g_ChNum - 1) : g_Ch[i] = g_Ch[j] => i = j
        /\ \A i \in g_ChNum..MaxChannels : g_Ch[i] = NoChannel
    BY <1>b DEF PcmInv, TableListsOpenChannels
  <2> DEFINE old(i) == IF i < n THEN i ELSE i + 1
  <2>3. \A i \in 0..(g_ChNum - 2) :
          /\ old(i) \in 0..(g_ChNum - 1) /\ old(i) # n
          /\ g_Ch'[i] = g_Ch[old(i)]
    BY <1>c, <1>d, <2>1
  <2>4. \A i, j \in 0..(g_ChNum - 2) : g_Ch'[i] = g_Ch'[j] => i = j
    <3> TAKE i, j \in 0..(g_ChNum - 2)
    <3>1. old(i) = old(j) => i = j
      BY <1>c, <1>d
    <3> HIDE DEF old
    <3> QED
      BY <2>2, <2>3, <3>1
  <2>5. \A i \in 0..(g_ChNum - 2) : g_Ch'[i] \in live \ {vm.ch}
    <3> HIDE DEF old
    <3> QED
      BY <1>d, <2>2, <2>3
  <2>6. ASSUME NEW c \in live \ {vm.ch}
        PROVE  \E i \in 0..(g_ChNum - 2) : g_Ch'[i] = c
    <3>1. PICK k \in 0..(g_ChNum - 1) : g_Ch[k] = c
      BY <2>2
    <3>2. k # n
      BY <1>d, <3>1
    <3>3. CASE k < n
      BY <1>c, <1>d, <2>1, <3>1, <3>3
    <3>4. CASE k > n
      <4>1. k - 1 \in n..(MaxChannels - 1) /\ k - 1 \in 0..(g_ChNum - 2)
        BY <1>c, <1>d, <3>1, <3>4
      <4>2. g_Ch'[k - 1] = g_Ch[k]
        BY <2>1, <4>1
      <4> QED
        BY <3>1, <4>1, <4>2
    <3> QED
      BY <1>d, <3>1, <3>2, <3>3, <3>4
  <2>7. \A i \in (g_ChNum - 1)..MaxChannels : g_Ch'[i] = NoChannel
    <3> TAKE i \in (g_ChNum - 1)..MaxChannels
    <3>1. CASE i = MaxChannels
      BY <1>c, <2>1, <2>2, <3>1
    <3>2. CASE i # MaxChannels
      BY <1>c, <1>d, <2>1, <2>2, <3>2
    <3> QED
      BY <3>1, <3>2
  <2>8. {g_Ch'[i] : i \in 0..(g_ChNum - 2)} = live \ {vm.ch}
    BY <2>5, <2>6
  <2>9. g_ChNum' - 1 = g_ChNum - 2 /\ g_ChNum' = g_ChNum - 1
    BY <1>0, <1>c
  <2> QED
    BY <1>b, <2>4, <2>7, <2>8, <2>9 DEF TableListsOpenChannels
<1>5. Counts' /\ Ring'
  BY <1>0, HeadersQuiet DEF PcmInv
<1> QED
  BY <1>1, <1>2, <1>3, <1>4, <1>5 DEF PcmInv

(* All headers are free: the device's queue was empty already.             *)
LEMMA FreeKeeps ==
  ASSUME PcmInv, CloseFree
  PROVE  PcmInv'
<1> USE PcmAssumption
<1>0. /\ vm.op = "drain" /\ hdrs_free[vm.ch] >= HdrsCount
      /\ live' = live \ {vm.ch} /\ dev' = [dev EXCEPT ![vm.ch] = <<>>]
      /\ UNCHANGED <<g_Ch, g_ChNum, g_hChMutex, g_hMixThread, hdrs_free, cur_hdr,
                     mix>>
      /\ vm.ch \in live /\ vm.ch \in Channels
  BY DEF CloseFree, Drained, PcmInv, PcmTypes, VmPlaces
<1>a. \/ /\ g_ChNum = 0 /\ g_bMixStopFlag' = TRUE
         /\ vm' = [vm EXCEPT !.op = "join"]
      \/ g_ChNum # 0 /\ vm' = Idle /\ UNCHANGED g_bMixStopFlag
  BY DEF CloseFree
<1>b. \/ g_ChNum = 0 /\ g_bMixStopFlag' = TRUE /\ vm'.op = "join"
         /\ vm'.ch = vm.ch
      \/ g_ChNum # 0 /\ vm' = Idle /\ vm'.op = "idle"
         /\ g_bMixStopFlag' = g_bMixStopFlag
  BY <1>a DEF PcmInv, PcmTypes, VmStates, Idle
<1>c. Listed = live \ {vm.ch} /\ Listed' = Listed
  BY <1>0, <1>b DEF Listed
<1>d. Extra(vm.ch) = 0
  BY <1>c DEF PcmInv, InHands, Extra, Uncounted, Holding
<1>e. dev[vm.ch] = <<>>
  <2>1. dev[vm.ch] \in Seq(Numbers) /\ hdrs_free[vm.ch] \in Int
    BY <1>0 DEF PcmInv, PcmTypes
  <2>2. hdrs_free[vm.ch] + Len(dev[vm.ch]) = HdrsCount
    BY <1>0, <1>d DEF PcmInv, Counts
  <2>3. Len(dev[vm.ch]) = 0
    BY <1>0, <2>1, <2>2
  <2> QED
    BY <2>1, <2>3
<1>f. dev' = dev
  BY <1>0, <1>e DEF PcmInv, PcmTypes
<1>1. PcmTypes'
  <2>1. vm' \in VmStates
    BY <1>a DEF PcmInv, PcmTypes, VmStates, Idle
  <2> QED
    BY <1>0, <1>b, <1>f, <2>1 DEF PcmInv, PcmTypes
<1>2. VmPlaces'
  BY <1>0, <1>b DEF VmPlaces
<1>3. Threads'
  BY <1>0, <1>b DEF PcmInv, Threads, Quiet, NoStray
<1>4. InHands' /\ TableListsOpenChannels'
  BY <1>0, <1>c, TableQuiet DEF PcmInv, InHands
<1>5. Counts' /\ Ring'
  BY <1>0, <1>f, HeadersQuiet DEF PcmInv
<1> QED
  BY <1>1, <1>2, <1>3, <1>4, <1>5 DEF PcmInv

LEMMA JoinKeeps ==
  ASSUME PcmInv, CloseJoin
  PROVE  PcmInv'
<1> USE PcmAssumption
<1>0. /\ vm.op = "join" /\ g_hChMutex' = NoMutex /\ vm' = Idle
      /\ UNCHANGED <<g_Ch, g_ChNum, live, g_bMixStopFlag, g_hMixThread,
                     hdrs_free, cur_hdr, dev, mix>>
      /\ g_ChNum = 0 /\ vm.ch \notin live
  BY DEF CloseJoin, tableVars, PcmInv, VmPlaces
<1>a. Listed' = Listed
  BY <1>0 DEF Listed, Idle
<1>1. PcmTypes' /\ VmPlaces'
  BY <1>0 DEF PcmInv, PcmTypes, VmPlaces, VmStates, Idle
<1>2. Threads'
  BY <1>0, DeadPlace DEF PcmInv, Threads, Quiet, NoStray, Idle
<1>3. InHands' /\ TableListsOpenChannels'
  BY <1>0, <1>a, TableQuiet DEF PcmInv, InHands
<1>4. Counts' /\ Ring'
  BY <1>0, HeadersQuiet DEF PcmInv
<1> QED
  BY <1>1, <1>2, <1>3, <1>4 DEF PcmInv

-----------------------------------------------------------------------------
(* The mixing thread.                                                      *)

(* A step of thread m to state s, with or without the mutex.               *)
Moves(m, s) ==
  /\ mix[m] # Dead
  /\ s \in MixStates
  /\ mix' = [mix EXCEPT ![m] = s]
  /\ UNCHANGED <<g_Ch, g_ChNum, live, g_bMixStopFlag, g_hMixThread, vm>>
  /\ g_hChMutex' \in Mixers \cup {Free, NoMutex}
  /\ s.pc \in Working => g_hChMutex' = m \/ (Quiet /\ g_bMixStopFlag)
  /\ s.ch # NoChannel <=> s.pc \in Holding
  /\ s.pc \in Holding => s.ch \in Listed /\ s.c < MaxChannels

LEMMA MoveKeeps ==
  ASSUME PcmInv, NEW m \in Mixers, NEW s, Moves(m, s),
         hdrs_free' \in [Channels -> Int],
         cur_hdr' \in [Channels -> Numbers],
         dev' \in [Channels -> Seq(Numbers)]
  PROVE  PcmTypes' /\ VmPlaces' /\ Threads' /\ InHands'
         /\ TableListsOpenChannels'
<1>0. /\ mix[m] # Dead
      /\ mix' = [mix EXCEPT ![m] = s]
      /\ UNCHANGED <<g_Ch, g_ChNum, live, g_bMixStopFlag, g_hMixThread, vm>>
      /\ mix \in [Mixers -> MixStates]
  BY DEF Moves, PcmInv, PcmTypes
<1>a. Listed' = Listed /\ Quiet' = Quiet
  BY <1>0 DEF Listed, Quiet
<1>b. \A n \in Mixers : n # m => mix[n] = Dead /\ mix'[n] = Dead
  BY <1>0 DEF PcmInv, Threads
<1>c. mix'[m] = s
  BY <1>0
<1>1. PcmTypes'
  BY <1>0 DEF Moves, PcmInv, PcmTypes
<1>2. VmPlaces' /\ TableListsOpenChannels'
  BY <1>0, <1>a, TableQuiet DEF PcmInv, VmPlaces
<1>3. Threads'
  <2>1. \A n, k \in Mixers : mix'[n] # Dead /\ mix'[k] # Dead => n = k
    BY <1>b
  <2>2. Quiet => g_bMixStopFlag
    BY <1>0 DEF PcmInv, Threads, NoStray
  <2>3. \A n \in Mixers :
          mix'[n].pc \in Working => g_hChMutex' = n \/ (Quiet /\ g_bMixStopFlag)
    BY <1>b, <1>c, DeadPlace DEF Moves
  <2> QED
    BY <1>0, <1>a, <2>1, <2>2, <2>3 DEF Threads
<1>4. InHands'
  <2>1. Dead.ch = NoChannel /\ Dead.pc \notin Holding
    BY DEF Dead, Holding
  <2> QED
    BY <1>0, <1>a, <1>b, <1>c, <2>1 DEF Moves, InHands
<1> QED
  BY <1>1, <1>2, <1>3, <1>4

(* The same, where no header moves.                                        *)
LEMMA MoveOnlyKeeps ==
  ASSUME PcmInv, NEW m \in Mixers, NEW s, Moves(m, s),
         UNCHANGED <<hdrs_free, cur_hdr, dev>>,
         mix[m].pc # "written", s.pc # "written",
         s.pc \in Holding => hdrs_free[s.ch] > 0
  PROVE  PcmInv'
<1>0. mix' = [mix EXCEPT ![m] = s] /\ mix \in [Mixers -> MixStates]
  BY DEF Moves, PcmInv, PcmTypes
<1>1. \A n \in Mixers : n # m => mix'[n] = mix[n]
  BY <1>0
<1>2. mix'[m] = s
  BY <1>0
<1>3. Counts' /\ Ring'
  BY <1>1, <1>2, HeadersQuiet DEF PcmInv
<1> QED
  BY <1>3, MoveKeeps DEF PcmInv, PcmTypes

(* What a thread that is not dead knows.                                   *)
LEMMA WorkerKnows ==
  ASSUME PcmInv, NEW m \in Mixers, mix[m].pc # "dead"
  PROVE  /\ mix[m] # Dead /\ mix[m] \in MixStates
         /\ mix[m].pc \in Working =>
              g_hChMutex = m \/ (Quiet /\ g_bMixStopFlag)
         /\ mix[m].pc \notin Holding => mix[m].ch = NoChannel
         /\ mix[m].pc \in Holding =>
              /\ mix[m].ch \in Listed /\ mix[m].ch \in Channels
              /\ mix[m].c + 1 \in 0..MaxChannels
              /\ hdrs_free[mix[m].ch] > 0
<1>1. mix[m] # Dead /\ mix[m] \in MixStates
  BY DeadPlace DEF PcmInv, PcmTypes
<1>2. mix[m].pc \in Holding =>
        /\ mix[m].ch \in Listed /\ mix[m].ch \in Channels
        /\ mix[m].c + 1 \in 0..MaxChannels
        /\ hdrs_free[mix[m].ch] > 0
  <2>1. live \subseteq Channels
    BY DEF PcmInv, PcmTypes
  <2> QED
    BY <1>1, <2>1, PcmAssumption
       DEF PcmInv, InHands, Counts, MixStates, Listed
<1> QED
  BY <1>1, <1>2 DEF PcmInv, Threads, InHands

(* What changing fields of a thread's state gives.                         *)
ToWait(r)    == [r EXCEPT !.pc = "wait", !.c = 0]
ToScan(r)    == [r EXCEPT !.pc = "scan", !.c = r.c + 1, !.ch = NoChannel]
ToRelease(r) == [r EXCEPT !.pc = "release", !.ch = NoChannel]

LEMMA FieldsChange ==
  ASSUME NEW r \in MixStates
  PROVE  /\ ToWait(r) \in MixStates
         /\ ToWait(r).pc = "wait" /\ ToWait(r).ch = r.ch
         /\ ToRelease(r) \in MixStates
         /\ ToRelease(r).pc = "release" /\ ToRelease(r).ch = NoChannel
         /\ ToScan(r).pc = "scan" /\ ToScan(r).ch = NoChannel
         /\ r.c + 1 \in 0..MaxChannels => ToScan(r) \in MixStates
<1>1. /\ ToWait(r) \in MixStates
      /\ ToWait(r).pc = "wait" /\ ToWait(r).ch = r.ch
  <2>1. 0 \in 0..MaxChannels
    BY PcmAssumption
  <2>2. ToWait(r).pc = "wait" /\ ToWait(r).ch = r.ch
    BY DEF MixStates, ToWait
  <2>3. ToWait(r) \in MixStates
    BY <2>1 DEF MixStates, ToWait
  <2> QED
    BY <2>2, <2>3
<1>2. /\ ToRelease(r) \in MixStates
      /\ ToRelease(r).pc = "release" /\ ToRelease(r).ch = NoChannel
  BY DEF MixStates, Working, ToRelease
<1>3. /\ ToScan(r).pc = "scan" /\ ToScan(r).ch = NoChannel
  BY DEF MixStates, Working, ToScan
<1>4. r.c + 1 \in 0..MaxChannels => ToScan(r) \in MixStates
  BY DEF MixStates, Working, ToScan
<1> QED
  BY <1>1, <1>2, <1>3, <1>4

(* The loop starts again, or ends.                                         *)
LEMMA AgainState ==
  ASSUME PcmInv, NEW m \in Mixers, mix[m].pc \in {"wait", "release"},
         Again(m)
  PROVE  \E s \in MixStates :
           /\ mix' = [mix EXCEPT ![m] = s]
           /\ s.pc \in {"dead", "wait"} /\ s.ch = NoChannel
<1> DEFINE s == IF g_bMixStopFlag THEN Dead
                ELSE ToWait(mix[m])
<1>1. mix' = [mix EXCEPT ![m] = s]
  BY DEF Again, ToWait
<1>2. mix[m] \in MixStates /\ mix[m].ch = NoChannel
  BY WorkerKnows DEF Holding
<1>3. s.pc \in {"dead", "wait"} /\ s.ch = NoChannel /\ s \in MixStates
  <2>1. CASE g_bMixStopFlag
    BY <2>1, PcmAssumption DEF Dead, MixStates
  <2>2. CASE ~g_bMixStopFlag
    BY <1>2, <2>2, FieldsChange
  <2> QED
    BY <2>1, <2>2
<1> QED
  BY <1>1, <1>3

(* On to the next channel, or out of the loop.                             *)
LEMMA OnwardState ==
  ASSUME PcmInv, NEW m \in Mixers, Onward(m),
         mix[m].pc # "dead", mix[m].c + 1 \in 0..MaxChannels
  PROVE  \E s \in MixStates :
           /\ mix' = [mix EXCEPT ![m] = s]
           /\ s.pc \in {"release", "scan"} /\ s.ch = NoChannel
<1>1. mix[m] \in MixStates
  BY WorkerKnows
<1>2. CASE g_bMixStopFlag
  <2>1. mix' = [mix EXCEPT ![m] = ToRelease(mix[m])]
    BY <1>2 DEF Onward, ToRelease
  <2> QED
    BY <1>1, <2>1, FieldsChange
<1>3. CASE ~g_bMixStopFlag
  <2>1. mix' = [mix EXCEPT ![m] = ToScan(mix[m])]
    BY <1>3 DEF Onward, ToScan
  <2> QED
    BY <1>1, <2>1, FieldsChange
<1> QED
  BY <1>2, <1>3

LEMMA GotoState ==
  ASSUME PcmInv, NEW m \in Mixers, NEW p \in {"dead", "wait"} \cup Working,
         Goto(m, p), mix[m].pc # "dead"
  PROVE  \E s \in MixStates :
           /\ mix' = [mix EXCEPT ![m] = s]
           /\ s.pc = p /\ s.c = mix[m].c /\ s.ch = mix[m].ch
<1> DEFINE To(r) == [r EXCEPT !.pc = p]
<1>1. ASSUME NEW r \in MixStates
      PROVE  To(r) \in MixStates /\ To(r).pc = p /\ To(r).c = r.c
             /\ To(r).ch = r.ch
  BY DEF MixStates
<1>2. mix[m] \in MixStates
  BY WorkerKnows
<1>3. mix' = [mix EXCEPT ![m] = To(mix[m])]
  BY DEF Goto
<1> HIDE DEF To
<1> QED
  BY <1>1, <1>2, <1>3

LEMMA WaitKeeps ==
  ASSUME PcmInv, NEW m \in Mixers, MixWait(m)
  PROVE  PcmInv'
<1>0. /\ mix[m].pc = "wait"
      /\ UNCHANGED <<g_Ch, g_ChNum, live, g_bMixStopFlag, g_hMixThread,
                     hdrs_free, cur_hdr, dev, vm>>
  BY DEF MixWait, tableVars
<1>a. mix[m] # Dead /\ mix[m].ch = NoChannel
  BY <1>0, WorkerKnows DEF Holding
<1>1. CASE g_hChMutex' = m /\ Goto(m, "scan")
  <2>1. PICK s \in MixStates : mix' = [mix EXCEPT ![m] = s] /\ s.pc = "scan"
                              /\ s.ch = NoChannel
    BY <1>0, <1>1, <1>a, GotoState DEF Working
  <2>2. Moves(m, s)
    BY <1>0, <1>1, <1>a, <2>1 DEF Moves, Holding
  <2> QED
    BY <1>0, <2>1, <2>2, MoveOnlyKeeps DEF Holding
<1>2. CASE Again(m) /\ UNCHANGED g_hChMutex
  <2>1. PICK s \in MixStates : /\ mix' = [mix EXCEPT ![m] = s]
                               /\ s.pc \in {"dead", "wait"} /\ s.ch = NoChannel
    BY <1>0, <1>2, AgainState
  <2>2. Moves(m, s)
    BY <1>0, <1>2, <1>a, <2>1 DEF Moves, Holding, Working, PcmInv, PcmTypes
  <2> QED
    BY <1>0, <2>1, <2>2, MoveOnlyKeeps DEF Holding
<1> QED
  BY <1>1, <1>2 DEF MixWait

LEMMA ReleaseKeeps ==
  ASSUME PcmInv, NEW m \in Mixers, MixRelease(m)
  PROVE  PcmInv'
<1>0. /\ mix[m].pc = "release" /\ g_hChMutex' = ReleasedMutex(m) /\ Again(m)
      /\ UNCHANGED <<g_Ch, g_ChNum, live, g_bMixStopFlag, g_hMixThread,
                     hdrs_free, cur_hdr, dev, vm>>
  BY DEF MixRelease, tableVars
<1>a. mix[m] # Dead
  BY <1>0, WorkerKnows
<1>1. PICK s \in MixStates : /\ mix' = [mix EXCEPT ![m] = s]
                             /\ s.pc \in {"dead", "wait"} /\ s.ch = NoChannel
  BY <1>0, AgainState
<1>2. g_hChMutex' \in Mixers \cup {Free, NoMutex}
  BY <1>0 DEF ReleasedMutex, PcmInv, PcmTypes
<1>3. Moves(m, s)
  BY <1>0, <1>a, <1>1, <1>2 DEF Moves, Holding, Working
<1> QED
  BY <1>0, <1>1, <1>3, MoveOnlyKeeps DEF Holding

(* The channel is taken from the table while the mutex, or the wait of the *)
(* open call for this thread to end, keeps the table as it is.             *)
LEMMA ScanKeeps ==
  ASSUME PcmInv, NEW m \in Mixers, MixScan(m)
  PROVE  PcmInv'
<1>0. /\ mix[m].pc = "scan"
      /\ UNCHANGED <<g_Ch, g_ChNum, live, g_hChMutex, g_bMixStopFlag,
                     g_hMixThread, hdrs_free, cur_hdr, dev, vm>>
  BY DEF MixScan, tableVars
<1>a. /\ mix[m] # Dead /\ mix[m].ch = NoChannel /\ mix[m] \in MixStates
      /\ g_hChMutex = m \/ (Quiet /\ g_bMixStopFlag)
  BY <1>0, WorkerKnows DEF Working, Holding
<1>b. mix[m].c \in 0..MaxChannels /\ g_ChNum \in 0..MaxChannels
      /\ MaxChannels \in Nat
  BY <1>a, PcmAssumption DEF MixStates, PcmInv, PcmTypes
<1>c. g_hChMutex \in Mixers \cup {Free, NoMutex}
  BY DEF PcmInv, PcmTypes
<1>1. CASE Goto(m, "release")
  <2>1. PICK s \in MixStates : mix' = [mix EXCEPT ![m] = s] /\ s.pc = "release"
                              /\ s.ch = NoChannel
    BY <1>0, <1>1, <1>a, GotoState DEF Working
  <2>2. Moves(m, s)
    BY <1>0, <1>a, <1>c, <2>1 DEF Moves, Holding
  <2> QED
    BY <1>0, <2>1, <2>2, MoveOnlyKeeps DEF Holding
<1>2. CASE mix[m].c < g_ChNum /\ Onward(m)
  <2>1. mix[m].c + 1 \in 0..MaxChannels
    BY <1>2, <1>b
  <2>2. PICK s \in MixStates : /\ mix' = [mix EXCEPT ![m] = s]
                               /\ s.pc \in {"release", "scan"}
                               /\ s.ch = NoChannel
    BY <1>0, <1>2, <2>1, OnwardState
  <2>3. Moves(m, s)
    BY <1>0, <1>a, <1>c, <2>2 DEF Moves, Holding
  <2> QED
    BY <1>0, <2>2, <2>3, MoveOnlyKeeps DEF Holding
<1>3. CASE /\ mix[m].c < g_ChNum /\ HasFree(g_Ch[mix[m].c])
           /\ mix' = [mix EXCEPT ![m].pc = "call", ![m].ch = g_Ch[mix[m].c]]
  <2> DEFINE To(r) == [r EXCEPT !.pc = "call", !.ch = g_Ch[mix[m].c]]
  <2>1. mix[m].c \in 0..(g_ChNum - 1) /\ mix[m].c < MaxChannels
    BY <1>3, <1>b
  <2>2. g_Ch[mix[m].c] \in Listed /\ g_Ch[mix[m].c] \in Channels
        /\ g_Ch[mix[m].c] # NoChannel
    BY <2>1, PcmAssumption
       DEF PcmInv, PcmTypes, TableListsOpenChannels, Listed
  <2>3. ASSUME NEW r \in MixStates
        PROVE  /\ To(r) \in MixStates /\ To(r).pc = "call" /\ To(r).c = r.c
               /\ To(r).ch = g_Ch[mix[m].c]
    BY <2>2 DEF MixStates, Working
  <2>4. mix' = [mix EXCEPT ![m] = To(mix[m])]
    BY <1>3
  <2> HIDE DEF To
  <2>5. PICK s \in MixStates : /\ mix' = [mix EXCEPT ![m] = s]
                               /\ s.pc = "call" /\ s.c = mix[m].c
                               /\ s.ch = g_Ch[mix[m].c]
    BY <1>a, <2>3, <2>4
  <2>6. Moves(m, s)
    BY <1>0, <1>a, <1>c, <2>1, <2>2, <2>5 DEF Moves, Holding
  <2> QED
    BY <1>0, <1>3, <2>5, <2>6, MoveOnlyKeeps DEF HasFree
<1> QED
  BY <1>1, <1>2, <1>3 DEF MixScan

LEMMA CallbackKeeps ==
  ASSUME PcmInv, NEW m \in Mixers, MixCallback(m)
  PROVE  PcmInv'
<1>0. /\ mix[m].pc = "call" /\ Goto(m, "filled")
      /\ UNCHANGED <<g_Ch, g_ChNum, live, g_hChMutex, g_bMixStopFlag,
                     g_hMixThread, hdrs_free, cur_hdr, dev, vm>>
  BY DEF MixCallback, tableVars
<1>a. /\ mix[m] # Dead /\ mix[m] \in MixStates
      /\ g_hChMutex = m \/ (Quiet /\ g_bMixStopFlag)
      /\ mix[m].ch \in Listed /\ mix[m].c < MaxChannels
      /\ mix[m].ch # NoChannel /\ hdrs_free[mix[m].ch] > 0
  BY <1>0, WorkerKnows DEF Working, Holding, PcmInv, InHands
<1>c. g_hChMutex \in Mixers \cup {Free, NoMutex}
  BY DEF PcmInv, PcmTypes
<1>1. PICK s \in MixStates : /\ mix' = [mix EXCEPT ![m] = s] /\ s.pc = "filled"
                             /\ s.c = mix[m].c /\ s.ch = mix[m].ch
  BY <1>0, GotoState DEF Working
<1>2. Moves(m, s)
  BY <1>0, <1>a, <1>c, <1>1 DEF Moves, Holding
<1> QED
  BY <1>0, <1>a, <1>1, <1>2, MoveOnlyKeeps

-----------------------------------------------------------------------------
(* Headers on their way.                                                   *)

(* Only the one thread alive can have a header that is not counted.        *)
LEMMA OthersDead ==
  ASSUME PcmInv, NEW m \in Mixers, mix[m] # Dead, NEW s,
         mix' = [mix EXCEPT ![m] = s]
  PROVE  /\ \A n \in Mixers : n # m => mix[n].pc = "dead" /\ mix'[n].pc = "dead"
         /\ mix'[m] = s
  BY DeadPlace DEF PcmInv, PcmTypes, Threads

LEMMA ChannelTypes ==
  ASSUME PcmInv, NEW c \in Channels
  PROVE  /\ hdrs_free[c] \in Int /\ cur_hdr[c] \in 0..(HdrsCount - 1)
         /\ dev[c] \in Seq(Numbers) /\ Len(dev[c]) \in Nat
         /\ HdrsCount \in Nat
  BY PcmAssumption DEF PcmInv, PcmTypes, Numbers

(* The header goes to the device at the write position.                    *)
LEMMA WriteKeeps ==
  ASSUME PcmInv, NEW m \in Mixers, MixWrite(m)
  PROVE  PcmInv'
<1> DEFINE ch == mix[m].ch
<1>0. /\ mix[m].pc = "filled" /\ Goto(m, "written")
      /\ dev' = [dev EXCEPT ![ch] = Append(dev[ch], cur_hdr[ch])]
      /\ UNCHANGED <<g_Ch, g_ChNum, live, g_hChMutex, g_bMixStopFlag,
                     g_hMixThread, hdrs_free, cur_hdr, vm>>
  BY DEF MixWrite, tableVars
<1>a. /\ mix[m] # Dead /\ mix[m] \in MixStates
      /\ g_hChMutex = m \/ (Quiet /\ g_bMixStopFlag)
      /\ ch \in Listed /\ ch \in Channels /\ mix[m].c < MaxChannels
      /\ ch # NoChannel /\ hdrs_free[ch] > 0
  BY <1>0, WorkerKnows DEF Working, Holding, PcmInv, InHands
<1>b. g_hChMutex \in Mixers \cup {Free, NoMutex}
  BY DEF PcmInv, PcmTypes
<1>1. PICK s \in MixStates : /\ mix' = [mix EXCEPT ![m] = s] /\ s.pc = "written"
                             /\ s.c = mix[m].c /\ s.ch = ch
  BY <1>0, GotoState DEF Working
<1>2. Moves(m, s)
  BY <1>0, <1>a, <1>b, <1>1 DEF Moves, Holding
<1>c. /\ dev[ch] \in Seq(Numbers) /\ Len(dev[ch]) \in Nat
      /\ cur_hdr[ch] \in Numbers /\ cur_hdr[ch] \in Nat /\ HdrsCount \in Nat
  BY <1>a, ChannelTypes DEF Numbers
<1>d. /\ dev'[ch] = Append(dev[ch], cur_hdr[ch])
      /\ \A c \in Channels : c # ch => dev'[c] = dev[c]
      /\ dev' \in [Channels -> Seq(Numbers)]
  BY <1>0, <1>a, <1>c DEF PcmInv, PcmTypes
<1>e. /\ Len(dev'[ch]) = Len(dev[ch]) + 1
      /\ \A i \in 1..Len(dev[ch]) : dev'[ch][i] = dev[ch][i]
      /\ dev'[ch][Len(dev[ch]) + 1] = cur_hdr[ch]
  BY <1>c, <1>d, AppendProperties
<1>f. /\ \A c \in Channels : c = ch => Extra(c) = 0 /\ Extra(c)' = 1
      /\ \A c \in Channels : c # ch => Extra(c)' = Extra(c)
      /\ \A n \in Mixers : mix'[n].pc \in Holding => n = m
      /\ mix'[m].ch = ch
  <2>1. /\ \A n \in Mixers : n # m => mix[n].pc = "dead" /\ mix'[n].pc = "dead"
        /\ mix'[m] = s
    BY <1>a, <1>1, OthersDead
  <2>2. ASSUME NEW c \in Channels
        PROVE  /\ Extra(c) = IF mix[m].pc = "written" /\ mix[m].ch = c
                             THEN 1 ELSE 0
               /\ Extra(c)' = IF s.pc = "written" /\ s.ch = c THEN 1 ELSE 0
    <3>1. Uncounted(c) <=> mix[m].pc = "written" /\ mix[m].ch = c
      BY <2>1 DEF Uncounted
    <3>2. Uncounted(c)' <=> s.pc = "written" /\ s.ch = c
      BY <2>1 DEF Uncounted
    <3> QED
      BY <3>1, <3>2 DEF Extra
  <2>3. \A n \in Mixers : mix'[n].pc \in Holding => n = m
    BY <2>1 DEF Holding
  <2> QED
    BY <1>0, <1>1, <2>1, <2>2, <2>3
<1> HIDE DEF ch
<1>3. Counts'
  <2>1. \A c \in Channels :
          /\ hdrs_free'[c] >= 0
          /\ hdrs_free'[c] + Len(dev'[c]) = HdrsCount + Extra(c)'
    <3> TAKE c \in Channels
    <3>1. /\ hdrs_free[c] >= 0 /\ hdrs_free[c] \in Int
          /\ hdrs_free[c] + Len(dev[c]) = HdrsCount + Extra(c)
      BY ChannelTypes DEF PcmInv, Counts
    <3>2. CASE c = ch
      <4>1. Extra(c) = 0 /\ Extra(c)' = 1
        BY <1>f, <3>2
      <4> HIDE DEF Extra
      <4> QED
        BY <1>0, <1>c, <1>e, <3>1, <3>2, <4>1
    <3>3. CASE c # ch
      BY <1>0, <1>d, <1>f, <3>1, <3>3
    <3> QED
      BY <3>2, <3>3
  <2>2. \A n \in Mixers : mix'[n].pc \in Holding => hdrs_free'[mix'[n].ch] > 0
    BY <1>0, <1>a, <1>f
  <2> QED
    BY <2>1, <2>2 DEF Counts
<1>4. Ring'
  <2> SUFFICES ASSUME NEW c \in Channels, NEW i \in 1..Len(dev'[c])
               PROVE  dev'[c][i] = Around(cur_hdr'[c] + Extra(c)' - 1
                                            - (Len(dev'[c]) - i))
    BY DEF Ring
  <2>1. CASE c # ch
    BY <1>0, <1>d, <1>f, <2>1 DEF PcmInv, Ring, Around
  <2>2. CASE c = ch /\ i \in 1..Len(dev[ch])
    <3>0. Extra(ch) = 0
      BY <1>a, <1>f
    <3>1. dev[ch][i] = Around(cur_hdr[ch] + 0 - 1 - (Len(dev[ch]) - i))
      BY <1>a, <2>2, <3>0 DEF PcmInv, Ring
    <3>2. cur_hdr[ch] + 0 - 1 - (Len(dev[ch]) - i)
            = cur_hdr[ch] + 1 - 1 - (Len(dev'[ch]) - i)
      BY <1>c, <1>e, <2>2
    <3>3. Extra(c)' = 1 /\ cur_hdr' = cur_hdr
      BY <1>0, <1>f, <2>2
    <3> QED
      BY <1>e, <2>2, <3>1, <3>2, <3>3
  <2>3. CASE c = ch /\ i = Len(dev[ch]) + 1
    <3>1. cur_hdr[ch] + 1 - 1 - (Len(dev'[ch]) - i) = cur_hdr[ch]
      BY <1>c, <1>e, <2>3
    <3>2. Around(cur_hdr[ch]) = cur_hdr[ch]
      BY <1>c DEF Around
    <3>3. Extra(c)' = 1 /\ cur_hdr' = cur_hdr
      BY <1>0, <1>f, <2>3
    <3> QED
      BY <1>e, <2>3, <3>1, <3>2, <3>3
  <2> QED
    BY <1>c, <1>e, <2>1, <2>2, <2>3
<1>5. PcmTypes' /\ VmPlaces' /\ Threads' /\ InHands' /\ TableListsOpenChannels'
  BY <1>0, <1>2, <1>d, MoveKeeps DEF PcmInv, PcmTypes
<1> QED
  BY <1>3, <1>4, <1>5 DEF PcmInv

LEMMA Remainder ==
  ASSUME NEW n \in Nat \ {0}, NEW x \in 0..(n - 1)
  PROVE  x % n = x
  OBVIOUS

(* The header is counted and the write position moves on.                  *)
LEMMA TakeKeeps ==
  ASSUME PcmInv, NEW m \in Mixers, MixTake(m)
  PROVE  PcmInv'
<1> DEFINE ch == mix[m].ch
<1>0. /\ mix[m].pc = "written" /\ Onward(m)
      /\ hdrs_free' = [hdrs_free EXCEPT ![ch] = hdrs_free[ch] - 1]
      /\ cur_hdr' = [cur_hdr EXCEPT ![ch] = NextHdr(cur_hdr[ch])]
      /\ UNCHANGED <<g_Ch, g_ChNum, live, g_hChMutex, g_bMixStopFlag,
                     g_hMixThread, dev, vm>>
  BY DEF MixTake, tableVars
<1>a. /\ mix[m] # Dead /\ mix[m] \in MixStates
      /\ g_hChMutex = m \/ (Quiet /\ g_bMixStopFlag)
      /\ ch \in Channels /\ mix[m].c + 1 \in 0..MaxChannels
      /\ hdrs_free[ch] > 0
  BY <1>0, WorkerKnows DEF Working, Holding
<1>b. g_hChMutex \in Mixers \cup {Free, NoMutex}
  BY DEF PcmInv, PcmTypes
<1>1. PICK s \in MixStates : /\ mix' = [mix EXCEPT ![m] = s]
                             /\ s.pc \in {"release", "scan"}
                             /\ s.ch = NoChannel
  BY <1>0, <1>a, OnwardState
<1>2. Moves(m, s)
  BY <1>0, <1>a, <1>b, <1>1 DEF Moves, Holding
<1>c. /\ dev[ch] \in Seq(Numbers) /\ Len(dev[ch]) \in Nat
      /\ cur_hdr[ch] \in 0..(HdrsCount - 1) /\ hdrs_free[ch] \in Int
      /\ HdrsCount \in Nat
  BY <1>a, ChannelTypes
<1>d. NextHdr(cur_hdr[ch]) =
        IF cur_hdr[ch] + 1 = HdrsCount THEN 0 ELSE cur_hdr[ch] + 1
  <2>1. CASE cur_hdr[ch] + 1 = HdrsCount
    BY <1>c, <2>1 DEF NextHdr
  <2>2. CASE cur_hdr[ch] + 1 # HdrsCount
    <3>1. cur_hdr[ch] + 1 \in 0..(HdrsCount - 1)
      BY <1>c, <2>2
    <3> QED
      BY <1>c, <2>2, <3>1, Remainder DEF NextHdr
  <2> QED
    BY <2>1, <2>2
<1>e. /\ hdrs_free'[ch] = hdrs_free[ch] - 1
      /\ cur_hdr'[ch] = IF cur_hdr[ch] + 1 = HdrsCount THEN 0
                        ELSE cur_hdr[ch] + 1
      /\ \A c \in Channels : c # ch => /\ hdrs_free'[c] = hdrs_free[c]
                                      /\ cur_hdr'[c] = cur_hdr[c]
      /\ hdrs_free' \in [Channels -> Int]
      /\ cur_hdr' \in [Channels -> Numbers]
  <2>1. NextHdr(cur_hdr[ch]) \in Numbers
    BY <1>c, <1>d DEF Numbers
  <2> QED
    BY <1>0, <1>a, <1>c, <1>d, <2>1 DEF PcmInv, PcmTypes
<1>f. /\ \A c \in Channels : c = ch => Extra(c) = 1 /\ Extra(c)' = 0
      /\ \A c \in Channels : c # ch => Extra(c)' = Extra(c)
      /\ \A n \in Mixers : mix'[n].pc \notin Holding
  <2>1. /\ \A n \in Mixers : n # m => mix[n].pc = "dead" /\ mix'[n].pc = "dead"
        /\ mix'[m] = s
    BY <1>a, <1>1, OthersDead
  <2>2. ASSUME NEW c \in Channels
        PROVE  /\ Extra(c) = IF mix[m].pc = "written" /\ mix[m].ch = c
                             THEN 1 ELSE 0
               /\ Extra(c)' = IF s.pc = "written" /\ s.ch = c THEN 1 ELSE 0
    <3>1. Uncounted(c) <=> mix[m].pc = "written" /\ mix[m].ch = c
      BY <2>1 DEF Uncounted
    <3>2. Uncounted(c)' <=> s.pc = "written" /\ s.ch = c
      BY <2>1 DEF Uncounted
    <3> QED
      BY <3>1, <3>2 DEF Extra
  <2>3. \A n \in Mixers : mix'[n].pc \in Holding => n = m
    BY <2>1 DEF Holding
  <2> QED
    BY <1>0, <1>1, <2>1, <2>2, <2>3 DEF Holding
<1>g. hdrs_free[ch] + Len(dev[ch]) = HdrsCount + 1
  BY <1>a, <1>f DEF PcmInv, Counts
<1> HIDE DEF ch
<1>3. Counts'
  <2>1. \A c \in Channels :
          /\ hdrs_free'[c] >= 0
          /\ hdrs_free'[c] + Len(dev'[c]) = HdrsCount + Extra(c)'
    <3> TAKE c \in Channels
    <3>1. CASE c = ch
      <4>1. Extra(c)' = 0
        BY <1>f, <3>1
      <4>2. /\ hdrs_free'[c] >= 0
            /\ hdrs_free'[c] + Len(dev'[c]) = HdrsCount + 0
        <5>1. /\ hdrs_free'[ch] = hdrs_free[ch] - 1 /\ dev'[ch] = dev[ch]
              /\ hdrs_free[ch] > 0 /\ hdrs_free[ch] \in Int
              /\ Len(dev[ch]) \in Nat /\ HdrsCount \in Nat
          BY <1>0, <1>a, <1>c, <1>e
        <5>2. /\ hdrs_free'[ch] >= 0
              /\ hdrs_free'[ch] + Len(dev'[ch]) = HdrsCount + 0
          BY <1>g, <5>1
        <5> QED
          BY <3>1, <5>2
      <4> QED
        BY <4>1, <4>2
    <3>2. CASE c # ch
      BY <1>0, <1>e, <1>f, <3>2 DEF PcmInv, Counts
    <3> QED
      BY <3>1, <3>2
  <2> QED
    BY <1>f, <2>1 DEF Counts
<1>4. Ring'
  <2> SUFFICES ASSUME NEW c \in Channels, NEW i \in 1..Len(dev[c])
               PROVE  dev[c][i] = Around(cur_hdr'[c] + Extra(c)' - 1
                                            - (Len(dev[c]) - i))
    BY <1>0 DEF Ring
  <2>1. CASE c # ch
    BY <1>e, <1>f, <2>1 DEF PcmInv, Ring, Around
  <2>2. CASE c = ch
    <3>1. dev[ch][i] = Around(cur_hdr[ch] + 1 - 1 - (Len(dev[ch]) - i))
      BY <1>a, <1>f, <2>2 DEF PcmInv, Ring
    <3>2. i \in Nat /\ Len(dev[ch]) - i \in 0..(HdrsCount - 1)
      BY <1>a, <1>c, <1>g, <2>2
    <3> DEFINE d == Len(dev[ch]) - i
    <3>3. Around(cur_hdr[ch] + 1 - 1 - d) = Around(cur_hdr'[ch] + 0 - 1 - d)
      <4>1. cur_hdr[ch] \in Int /\ d \in 0..(HdrsCount - 1)
        BY <1>c, <3>2
      <4> HIDE DEF d
      <4>2. CASE cur_hdr[ch] + 1 = HdrsCount
        BY <1>c, <1>e, <4>1, <4>2 DEF Around
      <4>3. CASE cur_hdr[ch] + 1 # HdrsCount
        BY <1>c, <1>e, <4>1, <4>3 DEF Around
      <4> QED
        BY <4>2, <4>3
    <3>4. Extra(c)' = 0
      BY <1>f, <2>2
    <3> QED
      BY <2>2, <3>1, <3>3, <3>4
  <2> QED
    BY <2>1, <2>2
<1>5. PcmTypes' /\ VmPlaces' /\ Threads' /\ InHands' /\ TableListsOpenChannels'
  BY <1>0, <1>2, <1>e, MoveKeeps DEF PcmInv, PcmTypes
<1> QED
  BY <1>3, <1>4, <1>5 DEF PcmInv

(* The device gives its oldest header back, whatever the others do.        *)
LEMMA DoneKeeps ==
  ASSUME PcmInv, NEW ch \in Channels, WaveOutProc(ch)
  PROVE  PcmInv'
<1>0. /\ dev[ch] # <<>> /\ dev' = [dev EXCEPT ![ch] = Tail(dev[ch])]
      /\ hdrs_free' = [hdrs_free EXCEPT ![ch] = hdrs_free[ch] + 1]
      /\ UNCHANGED <<g_Ch, g_ChNum, live, g_hChMutex, g_bMixStopFlag,
                     g_hMixThread, cur_hdr, mix, vm>>
  BY DEF WaveOutProc, tableVars
<1>a. /\ dev[ch] \in Seq(Numbers) /\ Len(dev[ch]) \in Nat
      /\ cur_hdr[ch] \in Int /\ hdrs_free[ch] \in Int
      /\ HdrsCount \in Nat
  BY ChannelTypes
<1>b. /\ Tail(dev[ch]) \in Seq(Numbers)
      /\ Len(Tail(dev[ch])) = Len(dev[ch]) - 1 /\ Len(dev[ch]) >= 1
      /\ \A i \in 1..(Len(dev[ch]) - 1) : Tail(dev[ch])[i] = dev[ch][i + 1]
  BY <1>0, <1>a, HeadTailProperties
<1>c. /\ dev'[ch] = Tail(dev[ch]) /\ hdrs_free'[ch] = hdrs_free[ch] + 1
      /\ \A c \in Channels : c # ch => /\ dev'[c] = dev[c]
                                      /\ hdrs_free'[c] = hdrs_free[c]
      /\ dev' \in [Channels -> Seq(Numbers)]
      /\ hdrs_free' \in [Channels -> Int]
  BY <1>0, <1>a, <1>b DEF PcmInv, PcmTypes
<1>d. \A c \in Channels : Extra(c)' = Extra(c) /\ Extra(c) \in 0..1
  BY <1>0 DEF Extra, Uncounted
<1>1. PcmTypes' /\ VmPlaces'
  BY <1>0, <1>c DEF PcmInv, PcmTypes, VmPlaces
<1>2. Threads' /\ InHands' /\ TableListsOpenChannels'
  BY <1>0, TableQuiet DEF PcmInv, Threads, InHands, Quiet, NoStray, Listed
<1>3. Counts'
  <2>1. \A c \in Channels :
          /\ hdrs_free'[c] >= 0 /\ hdrs_free'[c] >= hdrs_free[c]
          /\ hdrs_free'[c] + Len(dev'[c]) = HdrsCount + Extra(c)'
    <3> TAKE c \in Channels
    <3>1. /\ hdrs_free[c] >= 0 /\ hdrs_free[c] \in Int
          /\ hdrs_free[c] + Len(dev[c]) = HdrsCount + Extra(c)
      BY ChannelTypes DEF PcmInv, Counts
    <3>2. CASE c = ch
      <4>1. Extra(c)' = Extra(c) /\ Extra(c) \in 0..1
        BY <1>d
      <4>2. /\ hdrs_free'[c] >= 0 /\ hdrs_free'[c] >= hdrs_free[c]
            /\ hdrs_free'[c] + Len(dev'[c]) = HdrsCount + Extra(c)
        <5> DEFINE e == Extra(ch)
        <5>1. /\ hdrs_free'[ch] = hdrs_free[ch] + 1
              /\ Len(dev'[ch]) = Len(dev[ch]) - 1
              /\ hdrs_free[ch] + Len(dev[ch]) = HdrsCount + e
              /\ hdrs_free[ch] >= 0 /\ e \in 0..1
          BY <1>b, <1>c, <3>1, <3>2, <4>1
        <5> HIDE DEF e
        <5>2. /\ hdrs_free'[ch] >= 0 /\ hdrs_free'[ch] >= hdrs_free[ch]
              /\ hdrs_free'[ch] + Len(dev'[ch]) = HdrsCount + e
          BY <1>a, <5>1
        <5> QED
          BY <3>2, <5>2 DEF e
      <4> QED
        BY <4>1, <4>2
    <3>3. CASE c # ch
      BY <1>c, <1>d, <3>1, <3>3
    <3> QED
      BY <3>2, <3>3
  <2>2. ASSUME NEW m \in Mixers, mix[m].pc \in Holding
        PROVE  hdrs_free'[mix[m].ch] > 0
    <3>1. mix[m].pc # "dead"
      BY <2>2 DEF Holding
    <3>2. mix[m].ch \in Channels /\ hdrs_free[mix[m].ch] > 0
      BY <2>2, <3>1, WorkerKnows
    <3>3. hdrs_free[mix[m].ch] \in Int /\ hdrs_free'[mix[m].ch] \in Int
      BY <1>c, <3>2, ChannelTypes
    <3> QED
      BY <2>1, <3>2, <3>3
  <2> QED
    BY <1>0, <2>1, <2>2 DEF Counts
<1>4. Ring'
  <2> SUFFICES ASSUME NEW c \in Channels, NEW i \in 1..Len(dev'[c])
               PROVE  dev'[c][i] = Around(cur_hdr[c] + Extra(c) - 1
                                            - (Len(dev'[c]) - i))
    BY <1>0, <1>d DEF Ring, Around
  <2>1. CASE c # ch
    BY <1>c, <2>1 DEF PcmInv, Ring
  <2>2. CASE c = ch
    <3>1. i + 1 \in 1..Len(dev[ch]) /\ dev'[ch][i] = dev[ch][i + 1]
      BY <1>b, <1>c, <2>2
    <3>2. dev[ch][i + 1]
            = Around(cur_hdr[ch] + Extra(ch) - 1 - (Len(dev[ch]) - (i + 1)))
      BY <3>1 DEF PcmInv, Ring
    <3>3. Len(dev[ch]) - (i + 1) = Len(dev'[ch]) - i
      BY <1>a, <1>b, <1>c, <2>2
    <3> QED
      BY <2>2, <3>1, <3>2, <3>3
  <2> QED
    BY <2>1, <2>2
<1> QED
  BY <1>1, <1>2, <1>3, <1>4 DEF PcmInv

-----------------------------------------------------------------------------
(* The mixer's invariant.                                                  *)

LEMMA PcmStarts == Init => PcmInv
<1> SUFFICES ASSUME Init PROVE PcmInv
  OBVIOUS
<1> USE PcmAssumption
<1>0. PcmInit
  BY DEF Init
<1>1. PcmTypes
  <2>1. /\ g_Ch \in [0..MaxChannels -> Channels \cup {NoChannel}]
        /\ cur_hdr \in [Channels -> Numbers]
        /\ dev \in [Channels -> Seq(Numbers)]
    BY <1>0, EmptyTableType DEF PcmInit, Numbers
  <2>2. mix \in [Mixers -> MixStates] /\ vm \in VmStates
    BY <1>0 DEF PcmInit, Dead, Idle, MixStates, VmStates
  <2>3. /\ g_ChNum \in 0..MaxChannels
        /\ g_hChMutex \in Mixers \cup {Free, NoMutex}
        /\ g_bMixStopFlag \in BOOLEAN
        /\ g_hMixThread \in Mixers \cup {NoChannel}
        /\ live \subseteq Channels
    <3>1. g_ChNum = 0 /\ g_hChMutex = NoMutex /\ g_bMixStopFlag = FALSE
          /\ g_hMixThread = NoChannel /\ live = {}
      BY <1>0, Zenon DEF PcmInit
    <3>2. g_bMixStopFlag \in BOOLEAN /\ live \subseteq Channels
      BY <3>1, Zenon
    <3>3. g_ChNum \in 0..MaxChannels
      BY <3>1, SMT
    <3>4. /\ g_hChMutex \in Mixers \cup {Free, NoMutex}
          /\ g_hMixThread \in Mixers \cup {NoChannel}
      BY <3>1, Zenon
    <3> QED
      BY <3>2, <3>3, <3>4
  <2>4. hdrs_free \in [Channels -> Int]
    BY <1>0 DEF PcmInit
  <2> QED
    BY <2>1, <2>2, <2>3, <2>4 DEF PcmTypes
<1>2. VmPlaces
  BY <1>0 DEF PcmInit, VmPlaces, Idle
<1>3. \A m \in Mixers : mix[m] = Dead /\ mix[m].pc = "dead"
                        /\ mix[m].ch = NoChannel
  BY <1>0 DEF PcmInit, Dead
<1>4. Threads /\ InHands
  BY <1>3 DEF Threads, InHands, NoStray, Working, Holding
<1>5. TableListsOpenChannels
  <2>1. g_ChNum = 0 /\ g_Ch = EmptyTable /\ Listed = {}
    BY <1>0 DEF PcmInit, Listed, Idle
  <2>2. {g_Ch[i] : i \in 0..(g_ChNum - 1)} = {}
    BY <2>1
  <2> QED
    BY <2>1, <2>2 DEF TableListsOpenChannels, EmptyTable
<1>6. \A c \in Channels : Extra(c) = 0 /\ hdrs_free[c] = HdrsCount
                          /\ Len(dev[c]) = 0
  BY <1>0, <1>3 DEF PcmInit, Extra, Uncounted
<1>7. Counts
  <2>1. \A c \in Channels :
          /\ hdrs_free[c] >= 0
          /\ hdrs_free[c] + Len(dev[c]) = HdrsCount + Extra(c)
    <3> TAKE c \in Channels
    <3>1. Extra(c) = 0 /\ hdrs_free[c] = HdrsCount /\ Len(dev[c]) = 0
      BY <1>6
    <3>2. HdrsCount >= 0 /\ HdrsCount + 0 = HdrsCount
      OBVIOUS
    <3> QED
      BY <3>1, <3>2
  <2> QED
    BY <1>3, <2>1 DEF Counts, Holding
<1>8. Ring
  BY <1>6 DEF Ring
<1> QED
  BY <1>1, <1>2, <1>4, <1>5, <1>7, <1>8 DEF PcmInv

(* What may happen to the mixer.                                           *)
ChannelStep(ch) ==
  OpenRefused(ch) \/ OpenPublish(ch) \/ CloseCall(ch) \/ WaveOutProc(ch)
VmStep == OpenReturn \/ CloseRemove \/ CloseFree \/ CloseJoin
ThreadStep(m) ==
  \/ MixWait(m) \/ MixScan(m) \/ MixCallback(m) \/ MixWrite(m) \/ MixTake(m)
  \/ MixRelease(m)

(* A step of the whole is a step of the mixer, or leaves it alone.         *)
LEMMA PcmSteps ==
  ASSUME [Next]_vars
  PROVE  \/ \E ch \in Channels : ChannelStep(ch)
         \/ VmStep
         \/ \E m \in Mixers : ThreadStep(m)
         \/ UNCHANGED pcmVars
<1> USE DEF ChannelStep, VmStep, ThreadStep
<1>1. Players \subseteq Channels /\ Gm \in Channels
  BY MediaAssumption
<1>2. ASSUME NEW p \in Players,
             \/ CreatePlayer(p) \/ DestroyPlayer(p) \/ ReleaseNothing(p)
             \/ Feed(p) \/ \E on \in BOOLEAN : Play(p, on)
      PROVE  UNCHANGED pcmVars
  BY <1>2 DEF CreatePlayer, DestroyPlayer, ReleaseNothing, Feed, Play
<1>3. ASSUME NEW p \in Players,
             AcquireRefused(p) \/ AcquireOpen(p) \/ ReleaseCall(p)
      PROVE  \E ch \in Channels : ChannelStep(ch)
  BY <1>1, <1>3 DEF AcquireRefused, AcquireOpen, ReleaseCall
<1>4. CASE GmRefused \/ GmOpen
  BY <1>1, <1>4 DEF GmRefused, GmOpen
<1>5. CASE VmReturning \/ ReleaseRemove \/ VmClosing
  BY <1>5 DEF VmReturning, GmReturn, AcquireReturn, ReleaseRemove, VmClosing,
              ReleaseFree, ReleaseJoin
<1>6. ASSUME NEW m \in Mixers, MixStep(m) PROVE ThreadStep(m)
  BY <1>6 DEF MixStep
<1>7. ASSUME NEW m \in Mixers, Callback(m)
      PROVE  ThreadStep(m) \/ UNCHANGED pcmVars
  BY <1>7 DEF Callback, CallPop, CallEmpty, CallRest, CallStopped, CallMiss,
              CallEnd, CallGm, Filled
<1>8. ASSUME NEW ch \in Channels, Played(ch) PROVE ChannelStep(ch)
  BY <1>8 DEF Played
<1>9. CASE UNCHANGED vars
  BY <1>9 DEF vars
<1> QED
  BY <1>2, <1>3, <1>4, <1>5, <1>6, <1>7, <1>8, <1>9 DEF Next, VmCalls

LEMMA PcmQuiet == PcmInv /\ UNCHANGED pcmVars => PcmInv'
<1> SUFFICES ASSUME PcmInv, UNCHANGED pcmVars PROVE PcmInv'
  OBVIOUS
<1> USE DEF pcmVars, PcmInv
<1>1. PcmTypes' /\ VmPlaces'
  BY DEF PcmTypes, VmPlaces
<1>2. Threads' /\ InHands'
  BY DEF Threads, InHands, Quiet, NoStray, Listed
<1>3. TableListsOpenChannels'
  BY TableQuiet DEF Listed
<1>4. Counts' /\ Ring'
  BY HeadersQuiet
<1> QED
  BY <1>1, <1>2, <1>3, <1>4

LEMMA PcmInvariant == Spec => []PcmInv
<1>1. PcmInv /\ [Next]_vars => PcmInv'
  <2> SUFFICES ASSUME PcmInv, [Next]_vars PROVE PcmInv'
    OBVIOUS
  <2>1. ASSUME NEW ch \in Channels, ChannelStep(ch) PROVE PcmInv'
    BY <2>1, RefusedKeeps, PublishKeeps, CloseCallKeeps, DoneKeeps
       DEF ChannelStep
  <2>2. CASE VmStep
    BY <2>2, ReturnKeeps, RemoveKeeps, FreeKeeps, JoinKeeps DEF VmStep
  <2>3. ASSUME NEW m \in Mixers, ThreadStep(m) PROVE PcmInv'
    BY <2>3, WaitKeeps, ScanKeeps, CallbackKeeps, WriteKeeps, TakeKeeps,
       ReleaseKeeps DEF ThreadStep
  <2> QED
    BY <2>1, <2>2, <2>3, PcmSteps, PcmQuiet
<1> QED
  BY <1>1, PcmStarts, PTL DEF Spec

-----------------------------------------------------------------------------
(* Every variable keeps its type: in particular a channel never has more   *)
(* than HdrsCount + 1 headers counted as free, nor fewer than none.        *)
THEOREM TypeCorrect == Spec => []TypeOK
<1>1. PcmInv /\ PlayerInv => TypeOK
  <2> SUFFICES ASSUME PcmInv, PlayerInv PROVE TypeOK
    OBVIOUS
  <2>1. hdrs_free \in [Channels -> -1..(HdrsCount + 1)]
    <3>1. ASSUME NEW c \in Channels
          PROVE  hdrs_free[c] \in -1..(HdrsCount + 1)
      <4> DEFINE e == Extra(c)
      <4>1. /\ hdrs_free[c] \in Int /\ Len(dev[c]) \in Nat
            /\ HdrsCount \in Nat /\ hdrs_free[c] >= 0
            /\ hdrs_free[c] + Len(dev[c]) = HdrsCount + e
        BY ChannelTypes DEF PcmInv, Counts
      <4>2. e \in 0..1
        BY DEF Extra
      <4> HIDE DEF e
      <4> QED
        BY <4>1, <4>2
    <3> QED
      BY <3>1 DEF PcmInv, PcmTypes
  <2>2. \A m \in Mixers :
          mix[m] \in [pc : {"dead", "wait", "scan", "call", "filled",
                            "written", "release"},
                      c : 0..MaxChannels, ch : Channels \cup {NoChannel}]
    BY DEF PcmInv, PcmTypes, MixStates, Working
  <2> QED
    BY <2>1, <2>2
       DEF PcmInv, PcmTypes, Numbers, VmStates, PlayerInv, PlayerTypes, TypeOK
<1> QED
  BY <1>1, PcmInvariant, PlayerInvariant, PTL

(* The mixing thread works on allocated channels only.                     *)
THEOREM WorksOnOpen == Spec => []WorksOnOpenChannel
<1>1. PcmInv => WorksOnOpenChannel
  BY DEF PcmInv, InHands, Listed, WorksOnOpenChannel
<1> QED
  BY <1>1, PcmInvariant, PTL

(* The table lists the open channels, once each.                           *)
THEOREM TableRight == Spec => []TableListsOpenChannels
<1>1. PcmInv => TableListsOpenChannels
  BY DEF PcmInv
<1> QED
  BY <1>1, PcmInvariant, PTL

(* The headers queued are the last ones before the write position, and not *)
(* all of them are queued while one counts as free.                        *)
LEMMA IdleHeaderFilled == PcmInv => FillsIdleHeader
<1> SUFFICES ASSUME PcmInv, NEW m \in Mixers,
                    mix[m].pc \in {"call", "filled"},
                    NEW i \in 1..Len(dev[mix[m].ch])
             PROVE  dev[mix[m].ch][i] # cur_hdr[mix[m].ch]
  BY DEF FillsIdleHeader
<1> DEFINE ch == mix[m].ch
<1>1. ch \in Channels /\ hdrs_free[ch] > 0 /\ mix[m] # Dead
  BY WorkerKnows DEF Holding
<1>2. Extra(ch) = 0
  <2>1. \A n \in Mixers : n # m => mix[n].pc = "dead"
    BY <1>1, DeadPlace DEF PcmInv, Threads
  <2> QED
    BY <2>1 DEF Extra, Uncounted
<1>3. /\ hdrs_free[ch] \in Int /\ cur_hdr[ch] \in 0..(HdrsCount - 1)
      /\ Len(dev[ch]) \in Nat /\ HdrsCount \in Nat
  BY <1>1, ChannelTypes
<1>4. Len(dev[ch]) <= HdrsCount - 1
  <2>1. hdrs_free[ch] + Len(dev[ch]) = HdrsCount + 0
    BY <1>1, <1>2 DEF PcmInv, Counts
  <2> QED
    BY <1>1, <1>3, <2>1
<1>5. dev[ch][i] = Around(cur_hdr[ch] + 0 - 1 - (Len(dev[ch]) - i))
  BY <1>1, <1>2 DEF PcmInv, Ring
<1> HIDE DEF ch
<1>6. i \in 1..Len(dev[ch])
  BY DEF ch
<1>7. Around(cur_hdr[ch] + 0 - 1 - (Len(dev[ch]) - i)) # cur_hdr[ch]
  <2> DEFINE d == Len(dev[ch]) - i
  <2>1. d \in 0..(HdrsCount - 2) /\ HdrsCount \in Nat
    BY <1>3, <1>4, <1>6
  <2> HIDE DEF d
  <2>2. Around(cur_hdr[ch] + 0 - 1 - d) # cur_hdr[ch]
    <3>1. CASE cur_hdr[ch] + 0 - 1 - d < 0
      BY <1>3, <2>1, <3>1 DEF Around
    <3>2. CASE ~(cur_hdr[ch] + 0 - 1 - d < 0)
      BY <1>3, <2>1, <3>2 DEF Around
    <3> QED
      BY <3>1, <3>2
  <2> QED
    BY <2>2 DEF d
<1> QED
  BY <1>5, <1>7 DEF ch

(* A callback fills a header that the device does not have.                *)
THEOREM FillsIdle == Spec => []FillsIdleHeader
  BY IdleHeaderFilled, PcmInvariant, PTL

-----------------------------------------------------------------------------
(* The way of a player's packets.                                          *)

(* What being in line says at one place.                                   *)
LEMMA InLineAt ==
  ASSUME NEW s \in Seq(Nat), NEW n \in Nat
  PROVE  InLine(s, n) <=>
           /\ \A i, j \in 1..Len(s) :
                i < j /\ s[i] # 0 /\ s[j] # 0 => s[i] < s[j]
           /\ \A i \in 1..Len(s) : s[i] # 0 => s[i] \in 1..n
           /\ \A x \in 1..n : \E i \in 1..Len(s) : s[i] = x
<1>1. {s[i] : i \in 1..Len(s)} \ {0} = 1..n <=>
        /\ \A i \in 1..Len(s) : s[i] # 0 => s[i] \in 1..n
        /\ \A x \in 1..n : \E i \in 1..Len(s) : s[i] = x
  <2> DEFINE S == {s[i] : i \in 1..Len(s)}
  <2>1. \A x : x \in S <=> \E i \in 1..Len(s) : s[i] = x
    OBVIOUS
  <2>2. 0 \notin 1..n
    OBVIOUS
  <2>3. S \ {0} = 1..n <=> /\ \A x \in S : x # 0 => x \in 1..n
                          /\ \A x \in 1..n : x \in S
    <3> HIDE DEF S
    <3>1. S \ {0} = 1..n <=> \A x : x \in S \ {0} <=> x \in 1..n
      BY Zenon
    <3> QED
      BY <2>2, <3>1, Zenon
  <2> QED
    BY <2>1, <2>3, Zenon
<1> QED
  BY <1>1, Zenon DEF InLine

(* The next packet joins at the end.                                       *)
LEMMA JoinsLine ==
  ASSUME NEW s \in Seq(Nat), NEW n \in Nat, InLine(s, n)
  PROVE  InLine(Append(s, n + 1), n + 1)
<1> DEFINE t == Append(s, n + 1)
<1>1. /\ t \in Seq(Nat) /\ Len(t) = Len(s) + 1 /\ t[Len(s) + 1] = n + 1
      /\ Len(s) \in Nat
      /\ \A i \in 1..Len(s) : t[i] = s[i] /\ s[i] \in Nat
  BY AppendProperties
<1> HIDE DEF t
<1>2. \A i \in 1..Len(t) : i \in 1..Len(s) \/ i = Len(s) + 1
  BY <1>1
<1>3. /\ \A i, j \in 1..Len(s) : i < j /\ s[i] # 0 /\ s[j] # 0 => s[i] < s[j]
      /\ \A i \in 1..Len(s) : s[i] # 0 => s[i] \in 1..n
      /\ \A x \in 1..n : \E i \in 1..Len(s) : s[i] = x
  BY InLineAt
<1>4. \A i, j \in 1..Len(t) : i < j /\ t[i] # 0 /\ t[j] # 0 => t[i] < t[j]
  <2> TAKE i, j \in 1..Len(t)
  <2> HAVE i < j /\ t[i] # 0 /\ t[j] # 0
  <2>1. i \in 1..Len(s)
    BY <1>1, <1>2
  <2>2. CASE j \in 1..Len(s)
    BY <1>1, <1>3, <2>1, <2>2
  <2>3. CASE j = Len(s) + 1
    <3>1. s[i] \in 1..n /\ t[i] = s[i] /\ t[j] = n + 1
      BY <1>1, <1>3, <2>1, <2>3
    <3> QED
      BY <3>1
  <2> QED
    BY <1>2, <2>2, <2>3
<1>5. \A i \in 1..Len(t) : t[i] # 0 => t[i] \in 1..(n + 1)
  <2> TAKE i \in 1..Len(t)
  <2> HAVE t[i] # 0
  <2>1. CASE i \in 1..Len(s)
    <3>1. t[i] = s[i] /\ s[i] \in 1..n
      BY <1>1, <1>3, <2>1
    <3> QED
      BY <3>1
  <2> QED
    BY <1>1, <1>2, <2>1
<1>6. \A x \in 1..(n + 1) : \E i \in 1..Len(t) : t[i] = x
  <2> TAKE x \in 1..(n + 1)
  <2>1. CASE x = n + 1
    BY <1>1, <2>1
  <2>2. CASE x \in 1..n
    <3>1. PICK i \in 1..Len(s) : s[i] = x
      BY <1>3, <2>2
    <3> QED
      BY <1>1, <3>1
  <2> QED
    BY <2>1, <2>2
<1>7. InLine(t, n + 1)
  <2>1. n + 1 \in Nat
    OBVIOUS
  <2> QED
    BY <1>1, <1>4, <1>5, <1>6, <2>1, InLineAt
<1> QED
  BY <1>7 DEF t

(* Silence goes in or comes out anywhere and leaves the packets in line.   *)
LEMMA SilenceInLine ==
  ASSUME NEW a \in Seq(Nat), NEW b \in Seq(Nat), NEW n \in Nat
  PROVE  InLine((a \o <<0>>) \o b, n) <=> InLine(a \o b, n)
<1> DEFINE s == a \o b
           t == (a \o <<0>>) \o b
           k == Len(a)
           At(i) == IF i <= k THEN i ELSE i + 1
<1>1. /\ k \in Nat /\ Len(b) \in Nat
      /\ s \in Seq(Nat) /\ Len(s) = k + Len(b)
      /\ \A i \in 1..(k + Len(b)) : s[i] = IF i <= k THEN a[i] ELSE b[i - k]
  BY ConcatProperties
<1>2. <<0>> \in Seq(Nat) /\ Len(<<0>>) = 1 /\ <<0>>[1] = 0
  OBVIOUS
<1>3. /\ a \o <<0>> \in Seq(Nat) /\ Len(a \o <<0>>) = k + 1
      /\ \A i \in 1..(k + 1) :
           (a \o <<0>>)[i] = IF i <= k THEN a[i] ELSE <<0>>[i - k]
  BY <1>2, ConcatProperties
<1>4. /\ t \in Seq(Nat) /\ Len(t) = k + 1 + Len(b)
      /\ \A i \in 1..(k + 1 + Len(b)) :
           t[i] = IF i <= k + 1 THEN (a \o <<0>>)[i] ELSE b[i - (k + 1)]
  BY <1>3, ConcatProperties
<1> HIDE DEF s, t, k
<1>5. t[k + 1] = 0
  BY <1>1, <1>2, <1>3, <1>4
<1>6. \A i \in 1..Len(s) : At(i) \in 1..Len(t) /\ t[At(i)] = s[i]
  <2> TAKE i \in 1..Len(s)
  <2>1. CASE i <= k
    <3>1. i \in 1..(k + 1) /\ i \in 1..(k + 1 + Len(b)) /\ i \in 1..(k + Len(b))
      BY <1>1, <2>1
    <3>2. t[i] = (a \o <<0>>)[i] /\ (a \o <<0>>)[i] = a[i] /\ s[i] = a[i]
      BY <1>1, <1>3, <1>4, <2>1, <3>1
    <3> QED
      BY <1>4, <2>1, <3>1, <3>2
  <2>2. CASE i > k
    <3>1. /\ i + 1 \in 1..(k + 1 + Len(b)) /\ i \in 1..(k + Len(b))
          /\ ~(i + 1 <= k + 1) /\ ~(i <= k) /\ (i + 1) - (k + 1) = i - k
      BY <1>1, <2>2
    <3>2. t[i + 1] = b[(i + 1) - (k + 1)] /\ s[i] = b[i - k]
      BY <1>1, <1>4, <3>1
    <3> QED
      BY <1>4, <3>1, <3>2
  <2> QED
    BY <1>1, <2>1, <2>2
<1>7. \A j \in 1..Len(t) : j = k + 1 \/ \E i \in 1..Len(s) : j = At(i)
  <2> TAKE j \in 1..Len(t)
  <2>1. CASE j <= k
    BY <1>1, <2>1
  <2>2. CASE j > k + 1
    <3>1. j - 1 \in 1..Len(s) /\ At(j - 1) = j
      BY <1>1, <1>4, <2>2
    <3> QED
      BY <3>1
  <2> QED
    BY <1>1, <2>1, <2>2
<1>8. \A i, j \in 1..Len(s) : i < j <=> At(i) < At(j)
  BY <1>1
<1> HIDE DEF At
<1>9. ASSUME InLine(s, n) PROVE InLine(t, n)
  <2>1. /\ \A i, j \in 1..Len(s) : i < j /\ s[i] # 0 /\ s[j] # 0 => s[i] < s[j]
        /\ \A i \in 1..Len(s) : s[i] # 0 => s[i] \in 1..n
        /\ \A x \in 1..n : \E i \in 1..Len(s) : s[i] = x
    BY <1>1, <1>9, InLineAt
  <2>2. \A i, j \in 1..Len(t) : i < j /\ t[i] # 0 /\ t[j] # 0 => t[i] < t[j]
    <3> TAKE i, j \in 1..Len(t)
    <3> HAVE i < j /\ t[i] # 0 /\ t[j] # 0
    <3>1. PICK p \in 1..Len(s), q \in 1..Len(s) : i = At(p) /\ j = At(q)
      BY <1>5, <1>7
    <3>2. p < q /\ t[i] = s[p] /\ t[j] = s[q]
      BY <1>6, <1>8, <3>1
    <3> QED
      BY <2>1, <3>2
  <2>3. \A i \in 1..Len(t) : t[i] # 0 => t[i] \in 1..n
    BY <1>5, <1>6, <1>7, <2>1
  <2>4. \A x \in 1..n : \E i \in 1..Len(t) : t[i] = x
    BY <1>6, <2>1
  <2> QED
    BY <1>4, <2>2, <2>3, <2>4, InLineAt
<1>10. ASSUME InLine(t, n) PROVE InLine(s, n)
  <2>1. /\ \A i, j \in 1..Len(t) : i < j /\ t[i] # 0 /\ t[j] # 0 => t[i] < t[j]
        /\ \A i \in 1..Len(t) : t[i] # 0 => t[i] \in 1..n
        /\ \A x \in 1..n : \E i \in 1..Len(t) : t[i] = x
    BY <1>4, <1>10, InLineAt
  <2>2. \A i, j \in 1..Len(s) : i < j /\ s[i] # 0 /\ s[j] # 0 => s[i] < s[j]
    BY <1>6, <1>8, <2>1
  <2>3. \A i \in 1..Len(s) : s[i] # 0 => s[i] \in 1..n
    BY <1>6, <2>1
  <2>4. \A x \in 1..n : \E i \in 1..Len(s) : s[i] = x
    <3> TAKE x \in 1..n
    <3>1. PICK j \in 1..Len(t) : t[j] = x
      BY <2>1
    <3>2. x # 0
      OBVIOUS
    <3> QED
      BY <1>5, <1>6, <1>7, <3>1, <3>2
  <2> QED
    BY <1>1, <2>2, <2>3, <2>4, InLineAt
<1> QED
  BY <1>9, <1>10 DEF s, t

-----------------------------------------------------------------------------
(* What the headers hold is sound or silence; only open channels have      *)
(* headers in the device; a player has a channel while it exists and holds *)
(* one; what does not exist has nothing.                                   *)

FlowTypes ==
  /\ heard \in [Players -> Seq(Nat)]
  /\ block \in [Channels -> [Numbers -> Nat]]
  /\ hpcm \in [Players -> BOOLEAN]

ClosedSilent == \A ch \in Channels \ live : dev[ch] = <<>>

Owners ==
  \A p \in Players \cap live :
    p \in exists /\ (hpcm[p] \/ (vm.op = "opened" /\ vm.ch = p))

Absent ==
  \A p \in Players \ exists : heard[p] = <<>> /\ queue[p] = <<>> /\ fed[p] = 0

AllInLine == \A p \in Players : InLine(Line(p), fed[p])

FlowInv == FlowTypes /\ ClosedSilent /\ Owners /\ Absent /\ AllInLine

Context == PcmInv /\ PlayerInv /\ FlowInv

(* A header is filled and not yet queued.                                  *)
Pending(c) == \E m \in Mixers : mix[m].ch = c /\ mix[m].pc = "filled"

(* Lines are sequences of numbers.                                         *)
LEMMA Associative ==
  \A s, t, u \in Seq(Nat) : (s \o t) \o u = s \o (t \o u)
<1> TAKE s, t, u \in Seq(Nat)
<1> QED
  BY ConcatAssociative

LEMMA Joined == \A s, t \in Seq(Nat) : s \o t \in Seq(Nat)
  BY ConcatProperties

(* The parts of a line.                                                    *)
LEMMA LineParts ==
  ASSUME Context, NEW p \in Players
  PROVE  /\ p \in Channels /\ fed[p] \in Nat
         /\ heard[p] \in Seq(Nat) /\ queue[p] \in Seq(Nat)
         /\ Queued(p) \in Seq(Nat) /\ Len(Queued(p)) = Len(dev[p])
         /\ InHand(p) \in Seq(Nat)
         /\ Line(p) \in Seq(Nat)
<1>1. p \in Channels /\ fed[p] \in Nat /\ heard[p] \in Seq(Nat)
  BY MediaAssumption, RtpAssumption
     DEF Context, PlayerInv, PlayerTypes, FlowInv, FlowTypes
<1>2. queue[p] \in Seq(Nat)
  <2>1. queue[p] \in Seq(1..MaxPackets) /\ 1..MaxPackets \subseteq Nat
    BY RtpAssumption DEF Context, PlayerInv, PlayerTypes
  <2> QED
    BY <2>1, SeqMonotonic
<1>3. /\ dev[p] \in Seq(Numbers) /\ cur_hdr[p] \in Numbers
      /\ Len(dev[p]) \in Nat /\ block[p] \in [Numbers -> Nat]
  BY <1>1, ChannelTypes DEF Context, Numbers, FlowInv, FlowTypes
<1>4. Queued(p) \in Seq(Nat) /\ Len(Queued(p)) = Len(dev[p])
  <2>1. \A i \in 1..Len(dev[p]) : block[p][dev[p][i]] \in Nat
    BY <1>3, ElementOfSeq
  <2> QED
    BY <1>3, <2>1, IsASeq DEF Queued
<1>5. InHand(p) \in Seq(Nat)
  BY <1>3 DEF InHand
<1>6. Line(p) \in Seq(Nat)
  BY <1>1, <1>2, <1>4, <1>5, ConcatProperties DEF Line
<1> QED
  BY <1>1, <1>2, <1>4, <1>5, <1>6

(* Nothing is pending on a channel that is closed, and a closed channel's  *)
(* player has only what it has heard and what waits in its queue.          *)
LEMMA Unopened ==
  ASSUME Context, NEW p \in Players, p \notin live
  PROVE  ~Pending(p) /\ dev[p] = <<>> /\ Queued(p) = <<>> /\ InHand(p) = <<>>
<1>1. ~Pending(p)
  BY DEF Context, PcmInv, InHands, Listed, Pending, Holding
<1>2. dev[p] = <<>> /\ p \in Channels
  BY MediaAssumption DEF Context, FlowInv, ClosedSilent
<1>3. Queued(p) = <<>>
  BY <1>2 DEF Queued
<1> QED
  BY <1>1, <1>2, <1>3 DEF InHand, Pending

(* A line in which nothing moves.                                          *)
LEMMA LineQuiet ==
  ASSUME NEW p \in Players,
         dev'[p] = dev[p], heard'[p] = heard[p], queue'[p] = queue[p],
         block'[p] = block[p],
         Pending(p)' = Pending(p), Pending(p) => cur_hdr'[p] = cur_hdr[p]
  PROVE  Line(p)' = Line(p)
<1>1. Queued(p)' = Queued(p)
  BY DEF Queued
<1>2. InHand(p)' = InHand(p)
  BY DEF InHand, Pending
<1> QED
  BY <1>1, <1>2 DEF Line

-----------------------------------------------------------------------------
(* Channels: what is closed is silent, and an open one has its player.     *)

(* All headers of a channel being closed are back: none was in the device. *)
LEMMA DrainedSilent ==
  ASSUME PcmInv, CloseFree
  PROVE  dev[vm.ch] = <<>> /\ dev' = dev
<1>1. vm.op = "drain" /\ hdrs_free[vm.ch] >= HdrsCount /\ vm.ch \in Channels
      /\ vm.ch \notin Listed
  BY DEF CloseFree, Drained, PcmInv, PcmTypes, VmPlaces, Listed
<1>2. Extra(vm.ch) = 0
  BY <1>1 DEF PcmInv, InHands, Extra, Uncounted, Holding
<1>3. hdrs_free[vm.ch] + Len(dev[vm.ch]) = HdrsCount + 0
  BY <1>1, <1>2 DEF PcmInv, Counts
<1>4. /\ hdrs_free[vm.ch] \in Int /\ Len(dev[vm.ch]) \in Nat
      /\ dev[vm.ch] \in Seq(Numbers) /\ HdrsCount \in Nat
  BY <1>1, ChannelTypes
<1>5. Len(dev[vm.ch]) = 0
  BY <1>1, <1>3, <1>4
<1>6. dev[vm.ch] = <<>>
  BY <1>4, <1>5
<1> QED
  BY <1>6 DEF CloseFree, PcmInv, PcmTypes

LEMMA ClosedKeeps ==
  ASSUME PcmInv, ClosedSilent, [Next]_vars
  PROVE  ClosedSilent'
<1> USE DEF ClosedSilent
<1>0. dev \in [Channels -> Seq(Numbers)]
  BY DEF PcmInv, PcmTypes
<1>1. ASSUME NEW ch \in Channels, ChannelStep(ch) PROVE ClosedSilent'
  <2>1. CASE OpenRefused(ch) \/ CloseCall(ch)
    BY <2>1 DEF OpenRefused, CloseCall, tableVars
  <2>2. CASE OpenPublish(ch)
    BY <1>0, <2>2 DEF OpenPublish
  <2>3. CASE WaveOutProc(ch)
    <3>1. ch \in live
      BY <2>3 DEF WaveOutProc
    <3> QED
      BY <1>0, <2>3, <3>1 DEF WaveOutProc, tableVars
  <2> QED
    BY <1>1, <2>1, <2>2, <2>3 DEF ChannelStep
<1>2. CASE VmStep
  <2>1. CASE CloseFree
    <3>1. dev[vm.ch] = <<>> /\ dev' = dev /\ live' = live \ {vm.ch}
      BY <2>1, DrainedSilent DEF CloseFree
    <3> QED
      BY <3>1
  <2>2. CASE OpenReturn \/ CloseRemove \/ CloseJoin
    BY <2>2 DEF OpenReturn, CloseRemove, CloseJoin, tableVars
  <2> QED
    BY <1>2, <2>1, <2>2 DEF VmStep
<1>3. ASSUME NEW m \in Mixers, ThreadStep(m) PROVE ClosedSilent'
  <2>1. CASE MixWrite(m)
    <3>1. mix[m].ch \in live
      BY <2>1 DEF MixWrite, PcmInv, InHands, Listed, Holding
    <3> QED
      BY <1>0, <2>1, <3>1 DEF MixWrite, tableVars
  <2>2. CASE \/ MixWait(m) \/ MixScan(m) \/ MixCallback(m) \/ MixTake(m)
             \/ MixRelease(m)
    BY <2>2 DEF MixWait, MixScan, MixCallback, MixTake, MixRelease, tableVars
  <2> QED
    BY <1>3, <2>1, <2>2 DEF ThreadStep
<1>4. CASE UNCHANGED pcmVars
  BY <1>4 DEF pcmVars
<1> QED
  BY <1>1, <1>2, <1>3, <1>4, PcmSteps

ownVars == <<exists, hpcm, live, vm>>

(* The steps of the mixing thread and the device open and close nothing.   *)
LEMMA OthersOwn ==
  ASSUME NEW m \in Mixers, MixStep(m) \/ Callback(m)
  PROVE  UNCHANGED ownVars
<1> USE DEF ownVars, rtpVars, pcmVars, tableVars
<1>1. CASE MixStep(m)
  BY <1>1 DEF MixStep, MixWait, MixScan, MixWrite, MixTake, MixRelease
<1>2. ASSUME NEW x, Filled(m, x) PROVE UNCHANGED <<live, vm>>
  BY <1>2 DEF Filled, MixCallback
<1>3. CASE CallPop(m) \/ CallStopped(m) \/ CallEnd(m) \/ CallGm(m)
  BY <1>2, <1>3 DEF CallPop, CallStopped, CallEnd, CallGm, CallbackPop,
                    CallbackStopped, CallbackEnd
<1>4. CASE CallEmpty(m) \/ CallRest(m)
  BY <1>4 DEF CallEmpty, CallRest, CallbackEmpty, CallbackRest
<1>5. CASE CallMiss(m)
  BY <1>2, <1>5 DEF CallMiss, CallbackMiss
<1> QED
  BY <1>1, <1>3, <1>4, <1>5 DEF Callback

LEMMA OwnersKeep ==
  ASSUME Context, [Next]_vars
  PROVE  Owners'
<1> USE DEF Owners
<1>0. /\ Owners /\ hpcm \in [Players -> BOOLEAN] /\ Gm \notin Players
      /\ vm.op = "idle" => vm = Idle
  BY MediaAssumption DEF Context, FlowInv, FlowTypes, PcmInv, VmPlaces
<1>1. CASE UNCHANGED ownVars
  BY <1>0, <1>1 DEF ownVars
<1>2. ASSUME NEW p \in Players,
             CreatePlayer(p) \/ Feed(p) \/ \E on \in BOOLEAN : Play(p, on)
      PROVE  Owners'
  <2>1. UNCHANGED <<hpcm, live, vm>> /\ exists \subseteq exists'
    BY <1>2 DEF CreatePlayer, Feed, Play, Create, Fresh, DoBuffering,
                SetPlaying, pcmVars
  <2> QED
    BY <1>0, <2>1
<1>3. ASSUME NEW p \in Players, DestroyPlayer(p) PROVE Owners'
  <2>1. /\ UNCHANGED <<hpcm, live, vm>> /\ exists' = exists \ {p}
        /\ vm = Idle /\ ~hpcm[p]
    BY <1>3 DEF DestroyPlayer, Destroy, Fresh, pcmVars
  <2>2. p \notin live
    BY <1>0, <2>1 DEF Idle
  <2> QED
    BY <1>0, <2>1, <2>2
<1>4. ASSUME NEW p \in Players, AcquireRefused(p) \/ ReleaseNothing(p)
      PROVE  Owners'
  <2>1. /\ UNCHANGED <<exists, live, vm>> /\ vm = Idle
        /\ hpcm' = [hpcm EXCEPT ![p] = FALSE] /\ (~hpcm[p] \/ p \notin live)
    BY <1>4 DEF AcquireRefused, ReleaseNothing, OpenRefused, Acquired,
                Released, pcmVars
  <2>2. p \notin live
    BY <1>0, <2>1 DEF Idle
  <2> QED
    BY <1>0, <2>1, <2>2
<1>5. ASSUME NEW p \in Players, AcquireOpen(p) PROVE Owners'
  <2>1. /\ UNCHANGED <<exists, hpcm>> /\ p \in exists /\ vm = Idle
        /\ live' = live \cup {p} /\ vm' = [op |-> "opened", ch |-> p]
    BY <1>5 DEF AcquireOpen, OpenPublish, rtpVars
  <2> QED
    BY <1>0, <2>1 DEF Idle
<1>6. ASSUME NEW p \in Players, AcquireReturn(p) PROVE Owners'
  <2>1. /\ UNCHANGED <<exists, live>> /\ vm.ch = p
        /\ hpcm' = [hpcm EXCEPT ![p] = TRUE]
    BY <1>6 DEF AcquireReturn, OpenReturn, Acquired, tableVars
  <2> QED
    BY <1>0, <2>1
<1>7. ASSUME NEW p \in Players, ReleaseCall(p) PROVE Owners'
  <2>1. UNCHANGED <<exists, hpcm, live>> /\ vm = Idle
    BY <1>7 DEF ReleaseCall, CloseCall, rtpVars, tableVars
  <2> QED
    BY <1>0, <2>1 DEF Idle
<1>8. CASE ReleaseRemove
  <2>1. UNCHANGED <<exists, hpcm, live>> /\ vm.op = "remove"
    BY <1>8 DEF ReleaseRemove, CloseRemove, rtpVars
  <2> QED
    BY <1>0, <2>1
<1>9. CASE ReleaseFree \/ ReleaseJoin
  <2>1. /\ exists' = exists /\ vm.op \in {"drain", "join"}
        /\ hpcm' = hpcm \/ hpcm' = [hpcm EXCEPT ![vm.ch] = FALSE]
        /\ live' = live \ {vm.ch}
    <3>1. CASE ReleaseFree
      BY <3>1 DEF ReleaseFree, CloseFree, Released, rtpVars
    <3>2. CASE ReleaseJoin
      BY <3>2 DEF ReleaseJoin, CloseJoin, Released, tableVars, Context,
                  PcmInv, VmPlaces
    <3> QED
      BY <1>9, <3>1, <3>2
  <2> QED
    BY <1>0, <2>1
<1>10. CASE GmRefused
  BY <1>0, <1>10 DEF GmRefused, OpenRefused, rtpVars
<1>11. CASE GmOpen
  <2>1. /\ UNCHANGED <<exists, hpcm>> /\ vm = Idle /\ live' = live \cup {Gm}
    BY <1>11 DEF GmOpen, OpenPublish, rtpVars
  <2> QED
    BY <1>0, <2>1 DEF Idle
<1>12. CASE GmReturn
  <2>1. UNCHANGED <<exists, hpcm, live>> /\ vm.ch = Gm
    BY <1>12 DEF GmReturn, OpenReturn, rtpVars, tableVars
  <2> QED
    BY <1>0, <2>1
<1>13. ASSUME NEW ch \in Channels, Played(ch) PROVE Owners'
  <2>1. UNCHANGED ownVars
    BY <1>13 DEF Played, WaveOutProc, rtpVars, tableVars, ownVars
  <2> QED
    BY <1>1, <2>1
<1>14. CASE UNCHANGED vars
  <2>1. UNCHANGED ownVars
    BY <1>14 DEF vars, ownVars, pcmVars, rtpVars
  <2> QED
    BY <1>1, <2>1
<1> QED
  BY <1>1, <1>2, <1>3, <1>4, <1>5, <1>6, <1>7, <1>8, <1>9, <1>10, <1>11,
     <1>12, <1>13, <1>14, OthersOwn
     DEF Next, VmCalls, VmReturning, VmClosing

-----------------------------------------------------------------------------
(* What each step does to the packets.                                     *)

packetVars == <<exists, fed, queue, heard, block, dev>>

(* A callback that returns puts its packet, or silence, in hand.           *)
LEMMA FilledHand ==
  ASSUME Context, NEW m \in Mixers, NEW ch \in Channels, mix[m].ch = ch,
         NEW x \in Nat, Filled(m, x)
  PROVE  /\ InHand(ch) = <<>> /\ InHand(ch)' = <<x>>
         /\ Queued(ch)' = Queued(ch)
         /\ \A p \in Players : p # ch =>
              /\ Pending(p)' = Pending(p) /\ block'[p] = block[p]
         /\ UNCHANGED <<dev, cur_hdr, live>>
         /\ block' \in [Channels -> [Numbers -> Nat]]
         /\ ch \in live
<1>0. /\ mix[m].pc = "call" /\ Goto(m, "filled")
      /\ UNCHANGED <<dev, cur_hdr, live>>
      /\ block' = [block EXCEPT ![ch][cur_hdr[ch]] = x]
  BY DEF Filled, MixCallback, tableVars
<1>a. /\ mix[m] # Dead /\ ch \in Channels /\ cur_hdr[ch] \in Numbers
      /\ dev[ch] \in Seq(Numbers) /\ Len(dev[ch]) \in Nat
      /\ mix[m] \in MixStates /\ ch \in Listed
      /\ block \in [Channels -> [Numbers -> Nat]]
  BY <1>0, WorkerKnows, ChannelTypes
     DEF Context, Holding, Numbers, FlowInv, FlowTypes
<1>1. PICK s \in MixStates : /\ mix' = [mix EXCEPT ![m] = s]
                             /\ s.pc = "filled" /\ s.ch = ch
  <2>1. "filled" \in {"dead", "wait"} \cup Working /\ PcmInv
        /\ mix[m].pc # "dead" /\ Goto(m, "filled")
    BY <1>0 DEF Context, Working
  <2> QED
    BY <2>1, GotoState
<1>2. /\ \A n \in Mixers : n # m => mix[n].pc = "dead" /\ mix'[n].pc = "dead"
      /\ mix'[m] = s
  BY <1>1, <1>a, OthersDead DEF Context
<1>3. ~Pending(ch) /\ Pending(ch)'
      /\ \A p \in Players : p # ch => Pending(p)' = Pending(p)
  BY <1>0, <1>1, <1>2 DEF Pending
<1>4. /\ block'[ch] = [block[ch] EXCEPT ![cur_hdr[ch]] = x]
      /\ \A p \in Players : p # ch => block'[p] = block[p]
      /\ block' \in [Channels -> [Numbers -> Nat]]
      /\ block'[ch][cur_hdr[ch]] = x
      /\ \A h \in Numbers : h # cur_hdr[ch] => block'[ch][h] = block[ch][h]
  BY <1>0, <1>a
<1>5. InHand(ch) = <<>> /\ InHand(ch)' = <<x>>
  BY <1>0, <1>3, <1>4 DEF InHand, Pending
<1>6. Queued(ch)' = Queued(ch)
  <2>1. \A i \in 1..Len(dev[ch]) : dev[ch][i] \in Numbers /\ dev[ch][i] # cur_hdr[ch]
    <3>1. FillsIdleHeader
      BY IdleHeaderFilled DEF Context
    <3> QED
      BY <1>0, <1>a, <3>1, ElementOfSeq DEF FillsIdleHeader
  <2>2. \A i \in 1..Len(dev[ch]) : block'[ch][dev[ch][i]] = block[ch][dev[ch][i]]
    BY <1>4, <2>1
  <2> QED
    BY <1>0, <2>2 DEF Queued
<1>7. ch \in live
  BY <1>a DEF Listed
<1> QED
  BY <1>0, <1>3, <1>4, <1>5, <1>6, <1>7

(* The header in hand goes to the end of the device's queue.               *)
LEMMA WrittenHand ==
  ASSUME Context, NEW m \in Mixers, MixWrite(m), UNCHANGED <<block, heard, rtpVars>>
  PROVE  \A p \in Players : Line(p)' = Line(p)
<1> SUFFICES ASSUME NEW ch, mix[m].ch = ch
             PROVE  \A p \in Players : Line(p)' = Line(p)
  OBVIOUS
<1>0. /\ mix[m].pc = "filled" /\ Goto(m, "written")
      /\ dev' = [dev EXCEPT ![ch] = Append(dev[ch], cur_hdr[ch])]
      /\ UNCHANGED <<cur_hdr, queue, heard, block>>
  BY DEF MixWrite, rtpVars
<1>a. /\ mix[m] # Dead /\ ch \in Channels /\ cur_hdr[ch] \in Numbers
      /\ dev[ch] \in Seq(Numbers) /\ Len(dev[ch]) \in Nat
      /\ mix[m] \in MixStates
      /\ dev \in [Channels -> Seq(Numbers)]
      /\ block \in [Channels -> [Numbers -> Nat]]
  BY <1>0, WorkerKnows, ChannelTypes
     DEF Context, Holding, Numbers, FlowInv, FlowTypes, PcmInv, PcmTypes
<1>1. PICK s \in MixStates : /\ mix' = [mix EXCEPT ![m] = s]
                             /\ s.pc = "written" /\ s.ch = ch
  <2>1. "written" \in {"dead", "wait"} \cup Working /\ PcmInv
        /\ mix[m].pc # "dead" /\ Goto(m, "written")
    BY <1>0 DEF Context, Working
  <2> QED
    BY <2>1, GotoState
<1>2. /\ \A n \in Mixers : n # m => mix[n].pc = "dead" /\ mix'[n].pc = "dead"
      /\ mix'[m] = s
  BY <1>1, <1>a, OthersDead DEF Context
<1>3. Pending(ch) /\ ~Pending(ch)'
      /\ \A p \in Players : p # ch => Pending(p)' = Pending(p)
  BY <1>0, <1>1, <1>2 DEF Pending
<1>4. ASSUME NEW p \in Players, p # ch PROVE Line(p)' = Line(p)
  <2>1. dev'[p] = dev[p] /\ Pending(p)' = Pending(p)
    BY <1>0, <1>3, <1>4
  <2> QED
    BY <1>0, <2>1, LineQuiet
<1>5. ASSUME ch \in Players PROVE Line(ch)' = Line(ch)
  <2> DEFINE x == block[ch][cur_hdr[ch]]
  <2>1. InHand(ch) = <<x>> /\ InHand(ch)' = <<>> /\ x \in Nat
    BY <1>a, <1>3 DEF InHand, Pending
  <2>2. /\ Len(dev'[ch]) = Len(dev[ch]) + 1
        /\ \A i \in 1..Len(dev[ch]) : dev'[ch][i] = dev[ch][i]
        /\ dev'[ch][Len(dev[ch]) + 1] = cur_hdr[ch]
    BY <1>0, <1>a, AppendProperties
  <2>3. /\ Queued(ch) \in Seq(Nat) /\ Len(Queued(ch)) = Len(dev[ch])
        /\ heard[ch] \in Seq(Nat) /\ queue[ch] \in Seq(Nat)
    BY <1>5, LineParts
  <2>4. Queued(ch)' = Queued(ch) \o <<x>>
    <3> DEFINE q == Queued(ch)
               r == q \o <<x>>
    <3>1. Queued(ch)' = [i \in 1..(Len(dev[ch]) + 1) |-> block[ch][dev'[ch][i]]]
      BY <1>0, <2>2 DEF Queued
    <3>2. \A i \in 1..Len(dev[ch]) : q[i] = block[ch][dev[ch][i]]
      BY DEF Queued
    <3>3. /\ r \in Seq(Nat) /\ Len(r) = Len(dev[ch]) + 1
          /\ \A i \in 1..Len(dev[ch]) : r[i] = q[i]
          /\ r[Len(dev[ch]) + 1] = x
      <4>1. Append(q, x) = r
        BY <2>1, <2>3, AppendIsConcat
      <4>2. q \in Seq(Nat) /\ Len(q) = Len(dev[ch]) /\ x \in Nat
        BY <2>1, <2>3
      <4> HIDE DEF q, r, x
      <4>3. /\ r \in Seq(Nat) /\ Len(r) = Len(q) + 1
            /\ \A i \in 1..Len(q) : r[i] = q[i]
            /\ r[Len(q) + 1] = x
        <5>1. /\ Append(q, x) \in Seq(Nat) /\ Len(Append(q, x)) = Len(q) + 1
              /\ \A i \in 1..Len(q) : Append(q, x)[i] = q[i]
              /\ Append(q, x)[Len(q) + 1] = x
          BY <4>2, AppendProperties
        <5> QED
          BY <4>1, <5>1
      <4> QED
        BY <4>2, <4>3
    <3>4. DOMAIN r = 1..(Len(dev[ch]) + 1) /\ r \in [DOMAIN r -> Nat]
      BY <3>3, LenProperties
    <3>5. \A i \in 1..(Len(dev[ch]) + 1) :
            i \in 1..Len(dev[ch]) \/ i = Len(dev[ch]) + 1
      BY <1>a
    <3>6. \A i \in 1..(Len(dev[ch]) + 1) : r[i] = block[ch][dev'[ch][i]]
      <4> HIDE DEF q, r
      <4> QED
        BY <2>2, <3>2, <3>3, <3>5
    <3> HIDE DEF r
    <3>7. r = [i \in 1..(Len(dev[ch]) + 1) |-> block[ch][dev'[ch][i]]]
      BY <3>4, <3>6
    <3> QED
      BY <3>1, <3>7 DEF r
  <2> DEFINE a == heard[ch] \o Queued(ch)
  <2>5. a \in Seq(Nat) /\ <<x>> \in Seq(Nat)
    BY <2>1, <2>3, ConcatProperties
  <2>6. heard[ch] \o (Queued(ch) \o <<x>>) = a \o <<x>>
    <3> DEFINE q == Queued(ch)
               h == heard[ch]
               l == <<x>>
    <3>1. q \in Seq(Nat) /\ h \in Seq(Nat) /\ l \in Seq(Nat)
      BY <2>3, <2>5
    <3> HIDE DEF q, h, l
    <3>2. (h \o q) \o l = h \o (q \o l)
      BY <3>1, Associative
    <3> QED
      BY <3>2 DEF q, h, l
  <2>7. (a \o <<x>>) \o <<>> = a \o <<x>>
    BY <2>5, ConcatProperties, ConcatEmptySeq
  <2>8. Line(ch) = (a \o <<x>>) \o queue[ch]
    BY <2>1 DEF Line
  <2>9. Line(ch)' = ((heard[ch] \o (Queued(ch) \o <<x>>)) \o <<>>) \o queue[ch]
    BY <1>0, <2>1, <2>4 DEF Line
  <2> QED
    BY <2>6, <2>7, <2>8, <2>9
<1> QED
  BY <1>4, <1>5

(* No header is in the device twice.                                       *)
LEMMA HeadOnce ==
  ASSUME PcmInv, NEW ch \in Channels, NEW i \in 2..Len(dev[ch])
  PROVE  dev[ch][i] # dev[ch][1]
<1> DEFINE e == Extra(ch)
           L == Len(dev[ch])
<1>1. /\ hdrs_free[ch] \in Int /\ cur_hdr[ch] \in 0..(HdrsCount - 1)
      /\ L \in Nat /\ HdrsCount \in Nat /\ e \in 0..1
      /\ hdrs_free[ch] >= 0 /\ hdrs_free[ch] + L = HdrsCount + e
  BY ChannelTypes DEF PcmInv, Counts, Extra
<1>2. e = 1 => hdrs_free[ch] > 0
  <2>1. ASSUME NEW m \in Mixers, mix[m].pc = "written", mix[m].ch = ch
        PROVE  hdrs_free[ch] > 0
    BY <2>1 DEF PcmInv, Counts, Holding
  <2> QED
    BY <2>1 DEF Extra, Uncounted
<1>3. /\ dev[ch][1] = Around(cur_hdr[ch] + e - 1 - (L - 1))
      /\ dev[ch][i] = Around(cur_hdr[ch] + e - 1 - (L - i))
  BY DEF PcmInv, Ring
<1>4. i \in 2..L
  OBVIOUS
<1> HIDE DEF e, L
<1>5. L <= HdrsCount
  BY <1>1, <1>2
<1>6. \A x, y \in Int :
        x < y /\ y - x < HdrsCount => Around(x) # Around(y)
  BY <1>1 DEF Around
<1> DEFINE x == cur_hdr[ch] + e - 1 - (L - 1)
           y == cur_hdr[ch] + e - 1 - (L - i)
<1>7. x \in Int /\ y \in Int /\ x < y /\ y - x < HdrsCount
  BY <1>1, <1>4, <1>5
<1> HIDE DEF x, y
<1>8. Around(x) # Around(y)
  BY <1>6, <1>7
<1> QED
  BY <1>3, <1>8 DEF x, y

(* The device plays its oldest header: a packet goes from the head of the  *)
(* queue to what has been heard, silence just goes.                        *)
LEMMA PlayedHead ==
  ASSUME Context, NEW ch \in Players, Played(ch)
  PROVE  \E a, b \in Seq(Nat), x \in Nat :
           /\ Line(ch) = (a \o <<x>>) \o b
           /\ x # 0 => Line(ch)' = Line(ch)
           /\ x = 0 => Line(ch)' = a \o b
<1> DEFINE h == Head(dev[ch])
           x == block[ch][h]
<1>0. /\ dev[ch] # <<>> /\ dev' = [dev EXCEPT ![ch] = Tail(dev[ch])]
      /\ UNCHANGED <<cur_hdr, mix, queue>>
      /\ block' = [block EXCEPT ![ch][h] = 0]
      /\ heard' = IF x = 0 THEN heard ELSE [heard EXCEPT ![ch] = Append(heard[ch], x)]
  BY DEF Played, WaveOutProc, rtpVars
<1>a. /\ ch \in Channels /\ cur_hdr[ch] \in Numbers
      /\ dev[ch] \in Seq(Numbers) /\ Len(dev[ch]) \in Nat
      /\ dev \in [Channels -> Seq(Numbers)]
      /\ block \in [Channels -> [Numbers -> Nat]]
      /\ heard \in [Players -> Seq(Nat)]
  BY MediaAssumption, ChannelTypes
     DEF Context, Numbers, FlowInv, FlowTypes, PcmInv, PcmTypes
<1>b. /\ heard[ch] \in Seq(Nat) /\ queue[ch] \in Seq(Nat)
      /\ Queued(ch) \in Seq(Nat) /\ Len(Queued(ch)) = Len(dev[ch])
      /\ InHand(ch) \in Seq(Nat)
  BY LineParts
<1>c. /\ h = dev[ch][1] /\ h \in Numbers /\ Len(dev[ch]) >= 1
      /\ dev'[ch] = Tail(dev[ch]) /\ Len(dev'[ch]) = Len(dev[ch]) - 1
      /\ \A i \in 1..(Len(dev[ch]) - 1) : dev'[ch][i] = dev[ch][i + 1]
  BY <1>0, <1>a, HeadTailProperties
<1>d. x \in Nat
  BY <1>a, <1>c
<1> HIDE DEF h
<1>e. /\ \A k \in Numbers : k # h => block'[ch][k] = block[ch][k]
      /\ block' \in [Channels -> [Numbers -> Nat]]
  BY <1>0, <1>a, <1>c
<1>1. InHand(ch)' = InHand(ch)
  <2>1. Pending(ch) => cur_hdr[ch] # h
    <3>1. FillsIdleHeader
      BY IdleHeaderFilled DEF Context
    <3> QED
      BY <1>a, <1>c, <3>1 DEF FillsIdleHeader, Pending
  <2> QED
    BY <1>0, <1>a, <1>e, <2>1 DEF InHand, Pending
<1> DEFINE q == [i \in 1..(Len(dev[ch]) - 1) |-> block[ch][dev[ch][i + 1]]]
<1>2. Queued(ch)' = q
  <2>1. ASSUME NEW i \in 1..(Len(dev[ch]) - 1)
        PROVE  block'[ch][dev'[ch][i]] = block[ch][dev[ch][i + 1]]
    <3>1. i + 1 \in 2..Len(dev[ch]) /\ i + 1 \in 1..Len(dev[ch])
      BY <1>a
    <3>2. dev[ch][i + 1] \in Numbers
      BY <1>a, <3>1, ElementOfSeq
    <3>3. dev[ch][i + 1] # h
      BY <1>a, <1>c, <3>1, HeadOnce DEF Context
    <3> QED
      BY <1>c, <1>e, <3>2, <3>3
  <2> QED
    BY <1>c, <2>1 DEF Queued
<1>3. q \in Seq(Nat) /\ Len(q) = Len(dev[ch]) - 1
  <2>1. \A i \in 1..(Len(dev[ch]) - 1) : block[ch][dev[ch][i + 1]] \in Nat
    <3> TAKE i \in 1..(Len(dev[ch]) - 1)
    <3>1. i + 1 \in 1..Len(dev[ch])
      BY <1>a
    <3>2. dev[ch][i + 1] \in Numbers
      BY <1>a, <3>1, ElementOfSeq
    <3> QED
      BY <1>a, <3>2
  <2>2. Len(dev[ch]) - 1 \in Nat
    BY <1>a, <1>c
  <2> QED
    BY <2>1, <2>2, IsASeq
<1>4. Queued(ch) = <<x>> \o q
  <2> DEFINE s == Queued(ch)
             t == <<x>> \o q
  <2>1. <<x>> \in Seq(Nat) /\ Len(<<x>>) = 1 /\ <<x>>[1] = x
    BY <1>d
  <2>2. \A i \in 1..Len(dev[ch]) : s[i] = block[ch][dev[ch][i]]
    BY DEF Queued
  <2>3. \A i \in 1..(Len(dev[ch]) - 1) : q[i] = block[ch][dev[ch][i + 1]]
    OBVIOUS
  <2>x. x = block[ch][dev[ch][1]]
    BY <1>c
  <2> HIDE DEF q, x
  <2>4. /\ t \in Seq(Nat) /\ Len(t) = 1 + Len(q)
        /\ \A i \in 1..(1 + Len(q)) :
             t[i] = IF i <= 1 THEN <<x>>[i] ELSE q[i - 1]
    BY <1>3, <2>1, ConcatProperties
  <2> HIDE DEF s, t
  <2>5. ASSUME NEW i \in 1..Len(dev[ch]) PROVE s[i] = t[i]
    <3>1. CASE i = 1
      BY <1>3, <1>c, <2>1, <2>2, <2>4, <2>x, <3>1
    <3>2. CASE i # 1
      <4>1. i - 1 \in 1..(Len(dev[ch]) - 1) /\ (i - 1) + 1 = i
        BY <1>a, <3>2
      <4>2. q[i - 1] = block[ch][dev[ch][i]]
        BY <2>3, <4>1
      <4>3. t[i] = q[i - 1]
        <5>1. i \in 1..(1 + Len(q)) /\ ~(i <= 1)
          BY <1>3, <1>a, <3>2
        <5> QED
          BY <2>4, <5>1
      <4> QED
        BY <2>2, <4>2, <4>3
    <3> QED
      BY <3>1, <3>2
  <2>6. s \in Seq(Nat) /\ Len(s) = Len(dev[ch]) /\ Len(t) = Len(dev[ch])
    BY <1>3, <1>a, <1>b, <2>4 DEF s
  <2>7. s = t
    BY <2>4, <2>5, <2>6, SeqEqual
  <2> QED
    BY <2>7 DEF s, t
<1> HIDE DEF q, x
<1> DEFINE a == heard[ch]
           c == InHand(ch)
           d == queue[ch]
           l == <<x>>
           e == c \o d
           b == q \o e
<1>5. /\ a \in Seq(Nat) /\ c \in Seq(Nat) /\ d \in Seq(Nat) /\ l \in Seq(Nat)
  BY <1>b, <1>d
<1>6. /\ Line(ch) = ((a \o (l \o q)) \o c) \o d
      /\ Line(ch)' = ((heard'[ch] \o q) \o c) \o d
  BY <1>0, <1>1, <1>2, <1>4 DEF Line
<1>7. heard'[ch] = IF x = 0 THEN a ELSE a \o l
  <2>1. Append(a, x) = a \o l
    BY <1>5, <1>d, AppendIsConcat
  <2> QED
    BY <1>0, <1>a, <2>1 DEF x
<1> HIDE DEF a, c, d, l
<1>8. a \o l \in Seq(Nat) /\ e \in Seq(Nat)
  BY <1>5, Joined
<1>9. ASSUME NEW g \in Seq(Nat) PROVE ((g \o q) \o c) \o d = g \o b
  <2> DEFINE f == g \o q
  <2>1. f \in Seq(Nat)
    BY <1>3, Joined
  <2>2. f \o e = g \o b
    <3> HIDE DEF e
    <3> QED
      BY <1>3, <1>8, Associative, Zenon
  <2>3. (f \o c) \o d = f \o e
    <3> HIDE DEF f
    <3> QED
      BY <1>5, <2>1, Associative, Zenon
  <2> QED
    BY <2>2, <2>3
<1>10. b \in Seq(Nat)
  <2> HIDE DEF e
  <2> QED
    BY <1>3, <1>8, Joined
<1>11. a \o (l \o q) = (a \o l) \o q
  BY <1>3, <1>5, Associative, Zenon
<1> DEFINE al == a \o l
<1>12. ((a \o q) \o c) \o d = a \o b /\ ((al \o q) \o c) \o d = al \o b
  <2> HIDE DEF b
  <2>1. al \in Seq(Nat)
    BY <1>8
  <2> HIDE DEF al
  <2> QED
    BY <1>5, <1>9, <2>1
<1> HIDE DEF b
<1>13. /\ Line(ch) = (a \o <<x>>) \o b
       /\ x # 0 => Line(ch)' = Line(ch)
       /\ x = 0 => Line(ch)' = a \o b
  BY <1>6, <1>7, <1>11, <1>12 DEF l
<1> QED
  BY <1>5, <1>10, <1>13, <1>d

-----------------------------------------------------------------------------
(* Every step keeps the packets in line.                                   *)

(* A step that leaves alone what lines are made of, and whether anything   *)
(* is pending.                                                             *)
LEMMA LinesQuiet ==
  ASSUME AllInLine, UNCHANGED <<fed, queue, heard, block, dev>>,
         \A p \in Players : /\ Pending(p)' = Pending(p)
                            /\ Pending(p) => cur_hdr'[p] = cur_hdr[p]
  PROVE  AllInLine'
<1> SUFFICES ASSUME NEW p \in Players PROVE InLine(Line(p), fed[p])'
  BY DEF AllInLine
<1>1. Line(p)' = Line(p)
  BY LineQuiet
<1>2. InLine(Line(p), fed[p])
  BY DEF AllInLine
<1> QED
  BY <1>1, <1>2 DEF InLine

(* One line changes.                                                       *)
LEMMA OneLine ==
  ASSUME AllInLine, NEW p \in Players,
         \A r \in Players : r # p => Line(r)' = Line(r) /\ fed'[r] = fed[r],
         InLine(Line(p)', fed'[p])
  PROVE  AllInLine'
<1> SUFFICES ASSUME NEW r \in Players PROVE InLine(Line(r), fed[r])'
  BY DEF AllInLine
<1>1. CASE r = p
  BY <1>1 DEF InLine
<1>2. CASE r # p
  <2>1. InLine(Line(r), fed[r]) /\ Line(r)' = Line(r) /\ fed'[r] = fed[r]
    BY <1>2 DEF AllInLine
  <2> QED
    BY <2>1 DEF InLine
<1> QED
  BY <1>1, <1>2

LEMMA EmptyInLine == InLine(<<>>, 0)
<1>1. {<<>>[i] : i \in 1..Len(<<>>)} = {}
  OBVIOUS
<1> QED
  BY <1>1 DEF InLine

(* A player comes or goes: it holds no channel, so nothing of its is on    *)
(* the way.                                                                *)
LEMMA FreshInLine ==
  ASSUME Context, NEW p \in Players, p \notin live, Fresh(p),
         heard'[p] = <<>>, \A r \in Players : r # p => heard'[r] = heard[r],
         UNCHANGED pcmVars, UNCHANGED block
  PROVE  AllInLine'
<1>0. /\ queue \in [Players -> Seq(1..MaxPackets)]
      /\ fed \in [Players -> 0..MaxPackets] /\ AllInLine
  BY DEF Context, PlayerInv, PlayerTypes, FlowInv
<1>1. /\ fed'[p] = 0 /\ queue'[p] = <<>>
      /\ \A r \in Players : r # p => fed'[r] = fed[r] /\ queue'[r] = queue[r]
      /\ UNCHANGED <<dev, mix, cur_hdr, block>>
  BY <1>0 DEF Fresh, pcmVars
<1>2. \A r \in Players : Pending(r)' = Pending(r)
  BY <1>1 DEF Pending
<1>3. ASSUME NEW r \in Players, r # p PROVE Line(r)' = Line(r)
  BY <1>1, <1>2, <1>3, LineQuiet
<1>4. Line(p)' = <<>>
  <2>1. Queued(p) = <<>> /\ InHand(p) = <<>>
    BY Unopened
  <2>2. Queued(p)' = <<>> /\ InHand(p)' = <<>>
    BY <1>1, <2>1 DEF Queued, InHand
  <2> QED
    BY <1>1, <2>2 DEF Line
<1> QED
  BY <1>0, <1>1, <1>3, <1>4, EmptyInLine, OneLine

(* The VM feeds the next packet.                                           *)
LEMMA FedInLine ==
  ASSUME Context, NEW p \in Players, Feed(p)
  PROVE  AllInLine'
<1>0. /\ queue \in [Players -> Seq(1..MaxPackets)]
      /\ fed \in [Players -> 0..MaxPackets] /\ AllInLine
  BY DEF Context, PlayerInv, PlayerTypes, FlowInv
<1>1. /\ fed'[p] = fed[p] + 1 /\ queue'[p] = Append(queue[p], fed[p] + 1)
      /\ \A r \in Players : r # p => fed'[r] = fed[r] /\ queue'[r] = queue[r]
      /\ UNCHANGED <<heard, dev, mix, cur_hdr, block>>
  BY <1>0 DEF Feed, DoBuffering, pcmVars
<1>2. \A r \in Players : Pending(r)' = Pending(r)
  BY <1>1 DEF Pending
<1>3. ASSUME NEW r \in Players, r # p PROVE Line(r)' = Line(r)
  BY <1>1, <1>2, <1>3, LineQuiet
<1> DEFINE a == heard[p] \o Queued(p) \o InHand(p)
           q == queue[p]
           n == fed[p]
<1>4. a \in Seq(Nat) /\ q \in Seq(Nat) /\ n \in Nat /\ n + 1 \in Nat
  <2>1. /\ heard[p] \in Seq(Nat) /\ Queued(p) \in Seq(Nat)
        /\ InHand(p) \in Seq(Nat) /\ q \in Seq(Nat) /\ n \in Nat
    BY LineParts
  <2> QED
    BY <2>1, ConcatProperties
<1>5. Line(p)' = a \o Append(q, n + 1)
  <2>1. Queued(p)' = Queued(p) /\ InHand(p)' = InHand(p)
    BY <1>1 DEF Queued, InHand
  <2> QED
    BY <1>1, <2>1 DEF Line
<1>6. Line(p) = a \o q /\ InLine(Line(p), n)
  BY <1>0 DEF Line, AllInLine
<1> HIDE DEF a, q, n
<1>7. a \o Append(q, n + 1) = Append(a \o q, n + 1)
  <2> DEFINE l == <<n + 1>>
  <2>1. l \in Seq(Nat) /\ a \o q \in Seq(Nat)
    BY <1>4, Joined
  <2>2. Append(q, n + 1) = q \o l /\ Append(a \o q, n + 1) = (a \o q) \o l
    BY <1>4, <2>1, AppendIsConcat
  <2> HIDE DEF l
  <2>3. (a \o q) \o l = a \o (q \o l)
    BY <1>4, <2>1, Associative, Zenon
  <2> QED
    BY <2>2, <2>3
<1>8. a \o q \in Seq(Nat)
  BY <1>4, Joined
<1>9. InLine(Append(a \o q, n + 1), n + 1)
  <2> DEFINE s == a \o q
  <2>1. s \in Seq(Nat) /\ InLine(s, n)
    BY <1>6, <1>8
  <2> HIDE DEF s
  <2>2. InLine(Append(s, n + 1), n + 1)
    BY <1>4, <2>1, JoinsLine
  <2> QED
    BY <2>2 DEF s
<1>10. InLine(Line(p)', fed'[p])
  BY <1>1, <1>5, <1>7, <1>9 DEF n
<1> QED
  BY <1>0, <1>1, <1>3, <1>10, OneLine

(* A packet goes from the head of the queue into the header in hand.       *)
LEMMA PoppedInLine ==
  ASSUME Context, NEW m \in Mixers, CallPop(m)
  PROVE  AllInLine'
<1> SUFFICES ASSUME NEW ch \in Players, mix[m].ch = ch PROVE AllInLine'
  BY DEF CallPop
<1>0. /\ queue \in [Players -> Seq(1..MaxPackets)] /\ AllInLine
      /\ ch \in Channels
  BY MediaAssumption DEF Context, PlayerInv, PlayerTypes, FlowInv
<1> DEFINE x == Head(queue[ch])
           t == Tail(queue[ch])
<1>1. /\ queue[ch] # <<>> /\ queue' = [queue EXCEPT ![ch] = t]
      /\ UNCHANGED <<fed, heard>> /\ Filled(m, x)
  BY DEF CallPop, CallbackPop, CanPop, rtpHist
<1>2. /\ heard[ch] \in Seq(Nat) /\ queue[ch] \in Seq(Nat)
      /\ Queued(ch) \in Seq(Nat)
  BY LineParts
<1>3. x \in Nat /\ t \in Seq(Nat) /\ <<x>> \in Seq(Nat)
  BY <1>1, <1>2, HeadTailProperties
<1>4. queue[ch] = <<x>> \o t
  <2> DEFINE s == queue[ch]
             r == <<x>> \o t
  <2>1. /\ Len(t) = Len(s) - 1 /\ \A i \in 1..Len(t) : t[i] = s[i + 1]
        /\ x = s[1] /\ Len(s) >= 1 /\ Len(s) \in Nat /\ s \in Seq(Nat)
    BY <1>1, <1>2, HeadTailProperties
  <2>2. /\ <<x>> \in Seq(Nat) /\ Len(<<x>>) = 1 /\ <<x>>[1] = x
    BY <1>3
  <2> HIDE DEF x, t, s
  <2>3. /\ r \in Seq(Nat) /\ Len(r) = 1 + Len(t)
        /\ \A i \in 1..(1 + Len(t)) :
             r[i] = IF i <= 1 THEN <<x>>[i] ELSE t[i - 1]
    BY <1>3, <2>2, ConcatProperties
  <2> HIDE DEF r
  <2>4. ASSUME NEW i \in 1..Len(s) PROVE s[i] = r[i]
    <3>1. CASE i = 1
      BY <2>1, <2>2, <2>3, <3>1
    <3>2. CASE i # 1
      <4>1. /\ i \in 1..(1 + Len(t)) /\ ~(i <= 1) /\ i - 1 \in 1..Len(t)
            /\ (i - 1) + 1 = i
        BY <2>1, <3>2
      <4> QED
        BY <2>1, <2>3, <4>1
    <3> QED
      BY <3>1, <3>2
  <2>5. Len(r) = Len(s)
    BY <2>1, <2>3
  <2>6. s = r
    BY <2>1, <2>3, <2>4, <2>5, SeqEqual
  <2> QED
    BY <2>6 DEF s, r
<1>5. /\ InHand(ch) = <<>> /\ InHand(ch)' = <<x>> /\ Queued(ch)' = Queued(ch)
      /\ \A p \in Players : p # ch =>
           Pending(p)' = Pending(p) /\ block'[p] = block[p]
      /\ UNCHANGED <<dev, cur_hdr>>
  <2> HIDE DEF x
  <2> QED
    BY <1>0, <1>1, <1>3, FilledHand
<1>6. ASSUME NEW r \in Players, r # ch PROVE Line(r)' = Line(r)
  BY <1>0, <1>1, <1>5, <1>6, LineQuiet
<1> DEFINE a == heard[ch] \o Queued(ch)
           l == <<x>>
<1>7. a \in Seq(Nat) /\ l \in Seq(Nat)
  BY <1>2, <1>3, Joined
<1>8. Line(ch) = a \o (l \o t)
  <2>1. a \o <<>> = a
    BY <1>7, ConcatEmptySeq
  <2> QED
    BY <1>4, <1>5, <2>1 DEF Line
<1>9. Line(ch)' = (a \o l) \o t
  BY <1>0, <1>1, <1>5 DEF Line
<1> HIDE DEF a, l, t, x
<1>10. Line(ch)' = Line(ch)
  BY <1>3, <1>7, <1>8, <1>9, Associative, Zenon
<1>11. InLine(Line(ch)', fed'[ch])
  BY <1>0, <1>1, <1>10 DEF AllInLine
<1> QED
  BY <1>0, <1>1, <1>6, <1>11, OneLine

(* Silence goes into the header in hand.                                   *)
LEMMA SilencedInLine ==
  ASSUME Context, NEW m \in Mixers, Filled(m, 0), UNCHANGED <<queue, fed, heard>>
  PROVE  AllInLine'
<1> SUFFICES ASSUME NEW ch \in Channels, mix[m].ch = ch PROVE AllInLine'
  BY WorkerKnows DEF Context, Filled, MixCallback, Holding
<1>0. AllInLine
  BY DEF Context, FlowInv
<1>1. /\ InHand(ch) = <<>> /\ InHand(ch)' = <<0>> /\ Queued(ch)' = Queued(ch)
      /\ \A p \in Players : p # ch =>
           Pending(p)' = Pending(p) /\ block'[p] = block[p]
      /\ UNCHANGED <<dev, cur_hdr>>
  BY FilledHand
<1>2. ASSUME NEW r \in Players, r # ch PROVE Line(r)' = Line(r)
  BY <1>1, <1>2, LineQuiet
<1>3. CASE ch \in Players
  <2> DEFINE a == heard[ch] \o Queued(ch)
             b == queue[ch]
  <2>1. a \in Seq(Nat) /\ b \in Seq(Nat) /\ fed[ch] \in Nat
    <3>1. /\ heard[ch] \in Seq(Nat) /\ Queued(ch) \in Seq(Nat)
          /\ queue[ch] \in Seq(Nat) /\ fed[ch] \in Nat
      BY <1>3, LineParts
    <3> QED
      BY <3>1, Joined
  <2>2. Line(ch) = a \o b
    <3>1. a \o <<>> = a
      BY <2>1, ConcatEmptySeq
    <3> QED
      BY <1>1, <3>1 DEF Line
  <2>3. Line(ch)' = (a \o <<0>>) \o b
    BY <1>1 DEF Line
  <2>4. InLine(a \o b, fed[ch])
    BY <1>0, <1>3, <2>2 DEF AllInLine
  <2> HIDE DEF a, b
  <2>5. InLine((a \o <<0>>) \o b, fed[ch])
    BY <2>1, <2>4, SilenceInLine
  <2>6. InLine(Line(ch)', fed'[ch])
    BY <2>3, <2>5
  <2> QED
    BY <1>0, <1>2, <1>3, <2>6, OneLine
<1>4. CASE ch \notin Players
  <2> SUFFICES ASSUME NEW p \in Players PROVE InLine(Line(p), fed[p])'
    BY DEF AllInLine
  <2>1. Line(p)' = Line(p) /\ InLine(Line(p), fed[p])
    BY <1>0, <1>2, <1>4 DEF AllInLine
  <2> QED
    BY <2>1 DEF InLine
<1> QED
  BY <1>3, <1>4

(* The device plays a header.                                              *)
LEMMA PlayedInLine ==
  ASSUME Context, NEW ch \in Channels, Played(ch)
  PROVE  AllInLine'
<1>0. AllInLine /\ heard \in [Players -> Seq(Nat)]
      /\ block \in [Channels -> [Numbers -> Nat]]
      /\ dev \in [Channels -> Seq(Numbers)]
  BY DEF Context, FlowInv, FlowTypes, PcmInv, PcmTypes
<1>1. /\ UNCHANGED <<fed, queue, cur_hdr, mix>>
      /\ \A r \in Players : r # ch => /\ heard'[r] = heard[r]
                                    /\ dev'[r] = dev[r]
                                    /\ block'[r] = block[r]
  BY <1>0, MediaAssumption DEF Played, WaveOutProc, rtpVars
<1>2. ASSUME NEW r \in Players, r # ch PROVE Line(r)' = Line(r)
  <2>1. Pending(r)' = Pending(r)
    BY <1>1 DEF Pending
  <2> QED
    BY <1>1, <1>2, <2>1, LineQuiet
<1>3. CASE ch \in Players
  <2>1. PICK a, b \in Seq(Nat), x \in Nat :
          /\ Line(ch) = (a \o <<x>>) \o b
          /\ x # 0 => Line(ch)' = Line(ch)
          /\ x = 0 => Line(ch)' = a \o b
    BY <1>3, PlayedHead
  <2>2. InLine(Line(ch), fed[ch]) /\ fed[ch] \in Nat
    BY <1>0, <1>3, LineParts DEF AllInLine
  <2>3. InLine(Line(ch)', fed[ch])
    <3>1. CASE x # 0
      BY <2>1, <2>2, <3>1
    <3>2. CASE x = 0
      <4>1. InLine((a \o <<0>>) \o b, fed[ch])
        BY <2>1, <2>2, <3>2
      <4>2. InLine(a \o b, fed[ch])
        BY <2>2, <4>1, SilenceInLine
      <4> QED
        BY <2>1, <3>2, <4>2
    <3> QED
      BY <3>1, <3>2
  <2> QED
    BY <1>0, <1>1, <1>2, <1>3, <2>3, OneLine
<1>4. CASE ch \notin Players
  <2> SUFFICES ASSUME NEW p \in Players PROVE InLine(Line(p), fed[p])'
    BY DEF AllInLine
  <2>1. Line(p)' = Line(p) /\ InLine(Line(p), fed[p]) /\ fed' = fed
    BY <1>0, <1>1, <1>2, <1>4 DEF AllInLine
  <2> QED
    BY <2>1 DEF InLine
<1> QED
  BY <1>3, <1>4

(* A step of the mixing thread other than a callback's return: what is     *)
(* filled goes to the device, or nothing is.                               *)
LEMMA MixedInLine ==
  ASSUME Context, NEW m \in Mixers, MixStep(m)
  PROVE  AllInLine'
<1>0. AllInLine /\ UNCHANGED <<fed, queue, heard, block, rtpVars>>
  BY DEF Context, FlowInv, MixStep, rtpVars
<1>1. CASE MixWrite(m)
  <2>1. \A p \in Players : Line(p)' = Line(p)
    BY <1>0, <1>1, WrittenHand
  <2>2. \A p \in Players : InLine(Line(p), fed[p])
    BY <1>0 DEF AllInLine
  <2> QED
    BY <1>0, <2>1, <2>2 DEF AllInLine, InLine
<1>2. CASE MixWait(m) \/ MixScan(m) \/ MixTake(m) \/ MixRelease(m)
  <2>1. /\ mix[m].pc \in {"wait", "scan", "written", "release"}
        /\ \E s : mix' = [mix EXCEPT ![m] = s] /\ s.pc # "filled"
    <3> DEFINE r == mix[m]
    <3>0. r \in MixStates
      BY <1>2, WorkerKnows
         DEF Context, MixWait, MixScan, MixTake, MixRelease
    <3>1. ASSUME Again(m), r.pc \in {"wait", "release"}
          PROVE  \E s : mix' = [mix EXCEPT ![m] = s] /\ s.pc # "filled"
      <4>1. PICK s \in MixStates : mix' = [mix EXCEPT ![m] = s]
                                   /\ s.pc \in {"dead", "wait"}
        BY <3>1, AgainState DEF Context
      <4> QED
        BY <4>1
    <3>2. ASSUME Onward(m)
          PROVE  \E s : mix' = [mix EXCEPT ![m] = s] /\ s.pc # "filled"
      <4>1. mix' = [mix EXCEPT ![m] = IF g_bMixStopFlag THEN ToRelease(r)
                                      ELSE ToScan(r)]
        BY <3>2 DEF Onward, ToRelease, ToScan
      <4>2. ToRelease(r).pc = "release" /\ ToScan(r).pc = "scan"
        BY <3>0 DEF MixStates, ToRelease, ToScan
      <4> QED
        BY <4>1, <4>2
    <3>3. ASSUME NEW p, p # "filled", Goto(m, p)
          PROVE  \E s : mix' = [mix EXCEPT ![m] = s] /\ s.pc # "filled"
      <4>1. mix' = [mix EXCEPT ![m] = [r EXCEPT !.pc = p]]
        BY <3>3 DEF Goto
      <4>2. [r EXCEPT !.pc = p].pc = p
        BY <3>0 DEF MixStates
      <4> QED
        BY <3>3, <4>1, <4>2
    <3>4. ASSUME mix' = [mix EXCEPT ![m].pc = "call", ![m].ch = g_Ch[mix[m].c]]
          PROVE  \E s : mix' = [mix EXCEPT ![m] = s] /\ s.pc # "filled"
      <4>1. mix' = [mix EXCEPT ![m] = [[r EXCEPT !.pc = "call"]
                                         EXCEPT !.ch = g_Ch[r.c]]]
        BY <3>4 DEF Context, PcmInv, PcmTypes
      <4>2. [[r EXCEPT !.pc = "call"] EXCEPT !.ch = g_Ch[r.c]].pc = "call"
        BY <3>0 DEF MixStates
      <4> QED
        BY <4>1, <4>2
    <3>5. CASE MixWait(m)
      BY <3>1, <3>3, <3>5 DEF MixWait
    <3>6. CASE MixScan(m)
      BY <3>2, <3>3, <3>4, <3>6 DEF MixScan
    <3>7. CASE MixTake(m)
      BY <3>2, <3>7 DEF MixTake
    <3>8. CASE MixRelease(m)
      BY <3>1, <3>8 DEF MixRelease
    <3> QED
      BY <1>2, <3>5, <3>6, <3>7, <3>8
  <2>2. \A c : Pending(c)' = Pending(c)
    <3>1. mix \in [Mixers -> MixStates]
      BY DEF Context, PcmInv, PcmTypes
    <3> QED
      BY <2>1, <3>1 DEF Pending
  <2>3. dev' = dev
    BY <1>2 DEF MixWait, MixScan, MixTake, MixRelease
  <2>4. ASSUME NEW p \in Players, Pending(p) PROVE cur_hdr' = cur_hdr
    <3>1. ~MixTake(m)
      <4> SUFFICES ASSUME MixTake(m) PROVE FALSE
        OBVIOUS
      <4>1. PICK n \in Mixers : mix[n].pc = "filled"
        BY <2>4 DEF Pending
      <4>2. mix[m] # Dead /\ mix[n] # Dead /\ mix[m].pc = "written"
        BY <4>1, DeadPlace DEF MixTake, Working, Dead
      <4> QED
        BY <4>1, <4>2 DEF Context, PcmInv, Threads
    <3> QED
      BY <1>2, <3>1 DEF MixWait, MixScan, MixRelease
  <2> QED
    BY <1>0, <2>2, <2>3, <2>4, LinesQuiet
<1> QED
  BY <1>1, <1>2 DEF MixStep

(* The VM's calls that move no packet: a channel opened had nothing in the *)
(* device, and one closed has given everything back.                       *)
LEMMA VmInLine ==
  ASSUME Context,
         \/ \E ch \in Channels : OpenRefused(ch) \/ OpenPublish(ch) \/ CloseCall(ch)
         \/ VmStep,
         UNCHANGED <<fed, queue, heard, block>>
  PROVE  AllInLine'
<1>0. /\ AllInLine /\ dev \in [Channels -> Seq(Numbers)]
      /\ cur_hdr \in [Channels -> Numbers]
      /\ \A p \in Players : p \in Channels
  BY MediaAssumption DEF Context, FlowInv, PcmInv, PcmTypes
<1>1. ASSUME NEW ch \in Channels, OpenPublish(ch) PROVE AllInLine'
  <2>1. ch \notin live /\ dev[ch] = <<>>
    BY <1>1 DEF OpenPublish, Context, FlowInv, ClosedSilent
  <2>2. dev' = dev
    BY <1>0, <1>1, <2>1 DEF OpenPublish
  <2>3. mix' = mix /\ \A c \in Channels : c # ch => cur_hdr'[c] = cur_hdr[c]
    BY <1>0, <1>1 DEF OpenPublish
  <2>4. \A p \in Players : Pending(p)' = Pending(p)
    BY <2>3 DEF Pending
  <2>5. ASSUME NEW p \in Players, Pending(p) PROVE cur_hdr'[p] = cur_hdr[p]
    <3>1. p # ch
      BY <2>1, <2>5, Unopened
    <3> QED
      BY <1>0, <2>3, <3>1
  <2> QED
    BY <1>0, <2>2, <2>4, <2>5, LinesQuiet
<1>2. ASSUME UNCHANGED <<dev, cur_hdr>>, \A p \in Players : Pending(p)' = Pending(p)
      PROVE  AllInLine'
  BY <1>0, <1>2, LinesQuiet
<1>3. ASSUME UNCHANGED <<dev, cur_hdr, mix>> PROVE AllInLine'
  BY <1>2, <1>3 DEF Pending
<1>4. CASE OpenReturn
  <2>1. UNCHANGED <<dev, cur_hdr>>
    BY <1>4 DEF OpenReturn
  <2>2. ASSUME NoStray, NEW m \in Mixers, Goto(m, "wait")
        PROVE  \A p \in Players : Pending(p)' = Pending(p)
    <3>1. mix' = [mix EXCEPT ![m] = [Dead EXCEPT !.pc = "wait"]]
          /\ mix \in [Mixers -> MixStates]
      BY <2>2 DEF NoStray, Goto, Context, PcmInv, PcmTypes
    <3>2. [Dead EXCEPT !.pc = "wait"].pc = "wait" /\ Dead.pc = "dead"
      BY DEF Dead
    <3>3. \A n \in Mixers : mix[n].pc # "filled" /\ mix'[n].pc # "filled"
      BY <2>2, <3>1, <3>2 DEF NoStray
    <3> QED
      BY <3>3 DEF Pending
  <2> QED
    BY <1>2, <1>3, <1>4, <2>1, <2>2 DEF OpenReturn
<1>5. CASE CloseFree
  <2>1. UNCHANGED <<dev, cur_hdr, mix>>
    BY <1>5, DrainedSilent DEF CloseFree, Context
  <2> QED
    BY <1>3, <2>1
<1>6. CASE CloseRemove \/ CloseJoin
  BY <1>3, <1>6 DEF CloseRemove, CloseJoin
<1>7. ASSUME NEW ch \in Channels, OpenRefused(ch) \/ CloseCall(ch)
      PROVE  AllInLine'
  BY <1>3, <1>7 DEF OpenRefused, CloseCall
<1> QED
  BY <1>1, <1>4, <1>5, <1>6, <1>7 DEF VmStep

LEMMA LinesKeep ==
  ASSUME Context, [Next]_vars
  PROVE  AllInLine'
<1> USE DEF rtpVars, rtpHist
<1>0. /\ AllInLine /\ Players \subseteq Channels /\ Gm \in Channels
      /\ vm.op = "idle" => vm = Idle
      /\ Owners /\ Absent
  BY MediaAssumption DEF Context, FlowInv, PcmInv, VmPlaces
<1>1. ASSUME UNCHANGED <<pcmVars, fed, queue, heard, block>> PROVE AllInLine'
  <2>1. UNCHANGED <<dev, cur_hdr, mix>>
    BY <1>1 DEF pcmVars
  <2> QED
    BY <1>0, <1>1, <2>1, LinesQuiet DEF Pending
<1>2. ASSUME NEW p \in Players, CreatePlayer(p) \/ DestroyPlayer(p)
      PROVE  AllInLine'
  <2>1. /\ vm = Idle /\ Fresh(p) /\ UNCHANGED <<pcmVars, block>>
        /\ p \notin exists \/ ~hpcm[p]
    BY <1>2 DEF CreatePlayer, DestroyPlayer, Create, Destroy
  <2>2. p \notin live
    BY <1>0, <2>1 DEF Owners, Idle
  <2>3. /\ heard'[p] = <<>>
        /\ \A r \in Players : r # p => heard'[r] = heard[r]
    <3>1. CASE CreatePlayer(p)
      BY <1>0, <3>1 DEF CreatePlayer, Create, Absent
    <3>2. CASE DestroyPlayer(p)
      BY <3>2 DEF DestroyPlayer, Context, FlowInv, FlowTypes
    <3> QED
      BY <1>2, <3>1, <3>2
  <2> QED
    BY <2>1, <2>2, <2>3, FreshInLine
<1>3. ASSUME NEW p \in Players, ReleaseNothing(p) \/ \E on \in BOOLEAN : Play(p, on)
      PROVE  AllInLine'
  BY <1>1, <1>3 DEF ReleaseNothing, Released, Play, SetPlaying
<1>4. ASSUME NEW p \in Players,
             AcquireRefused(p) \/ AcquireOpen(p) \/ ReleaseCall(p)
      PROVE  AllInLine'
  <2>1. p \in Channels /\ UNCHANGED <<fed, queue, heard, block>>
        /\ (OpenRefused(p) \/ OpenPublish(p) \/ CloseCall(p))
    BY <1>0, <1>4 DEF AcquireRefused, Acquired, AcquireOpen, ReleaseCall
  <2> QED
    BY <2>1, VmInLine
<1>5. CASE GmRefused \/ GmOpen
  <2>1. Gm \in Channels /\ UNCHANGED <<fed, queue, heard, block>>
        /\ (OpenRefused(Gm) \/ OpenPublish(Gm))
    BY <1>0, <1>5 DEF GmRefused, GmOpen
  <2> QED
    BY <2>1, VmInLine
<1>6. CASE VmReturning \/ ReleaseRemove \/ VmClosing
  <2>1. VmStep /\ UNCHANGED <<fed, queue, heard, block>>
    BY <1>6 DEF VmReturning, GmReturn, AcquireReturn, Acquired, ReleaseRemove,
                VmClosing, ReleaseFree, ReleaseJoin, Released, VmStep
  <2> QED
    BY <2>1, VmInLine
<1>7. ASSUME NEW m \in Mixers, Callback(m) PROVE AllInLine'
  <2>1. CASE CallEmpty(m) \/ CallRest(m)
    BY <1>1, <2>1 DEF CallEmpty, CallRest, CallbackEmpty, CallbackRest
  <2>2. CASE CallStopped(m) \/ CallEnd(m) \/ CallGm(m)
    <3>1. Filled(m, 0) /\ UNCHANGED <<queue, fed, heard>>
      BY <2>2 DEF CallStopped, CallEnd, CallGm, CallbackStopped, CallbackEnd
    <3> QED
      BY <3>1, SilencedInLine
  <2>3. CASE CallMiss(m)
    <3>1. /\ UNCHANGED <<queue, fed, heard>>
          /\ Filled(m, 0) \/ UNCHANGED <<pcmVars, block>>
      BY <2>3 DEF CallMiss, CallbackMiss
    <3> QED
      BY <1>1, <3>1, SilencedInLine
  <2> QED
    BY <1>7, <2>1, <2>2, <2>3, PoppedInLine DEF Callback
<1>8. CASE UNCHANGED vars
  BY <1>1, <1>8 DEF vars
<1> QED
  BY <1>2, <1>3, <1>4, <1>5, <1>6, <1>7, <1>8, FedInLine, MixedInLine,
     PlayedInLine
     DEF Next, VmCalls

-----------------------------------------------------------------------------
(* The rest of the invariant.                                              *)

LEMMA FlowTypesKeep ==
  ASSUME Context, [Next]_vars
  PROVE  FlowTypes'
<1> USE DEF rtpVars, rtpHist
<1>0. FlowTypes
  BY DEF Context, FlowInv
<1>1. ASSUME UNCHANGED <<heard, block>>,
             \/ hpcm' = hpcm
             \/ \E c, b : b \in BOOLEAN /\ hpcm' = [hpcm EXCEPT ![c] = b]
      PROVE  FlowTypes'
  BY <1>0, <1>1 DEF FlowTypes
<1>2. ASSUME NEW p \in Players, CreatePlayer(p) \/ Feed(p)
             \/ AcquireRefused(p) \/ AcquireOpen(p) \/ AcquireReturn(p)
             \/ ReleaseNothing(p) \/ ReleaseCall(p)
             \/ \E on \in BOOLEAN : Play(p, on)
      PROVE  FlowTypes'
  BY <1>1, <1>2
     DEF CreatePlayer, Create, Fresh, Feed, DoBuffering, AcquireRefused,
         AcquireOpen, AcquireReturn, Acquired, ReleaseNothing, Released,
         ReleaseCall, Play, SetPlaying
<1>3. ASSUME NEW p \in Players, DestroyPlayer(p) PROVE FlowTypes'
  BY <1>0, <1>3 DEF DestroyPlayer, Destroy, Fresh, FlowTypes
<1>4. CASE GmRefused \/ GmOpen \/ GmReturn \/ ReleaseRemove \/ VmClosing
  BY <1>1, <1>4 DEF GmRefused, GmOpen, GmReturn, ReleaseRemove, VmClosing,
                    ReleaseFree, ReleaseJoin, Released
<1>5. ASSUME NEW m \in Mixers, MixStep(m) PROVE FlowTypes'
  BY <1>1, <1>5 DEF MixStep
<1>6. ASSUME NEW m \in Mixers, NEW x \in Nat, Filled(m, x),
             UNCHANGED <<heard, hpcm>>
      PROVE  FlowTypes'
  <2>1. mix[m].ch \in Channels
    BY <1>6, WorkerKnows DEF Context, Filled, MixCallback, Holding
  <2>2. block' \in [Channels -> [Numbers -> Nat]]
    BY <1>6, <2>1, FilledHand
  <2> QED
    BY <1>0, <1>6, <2>2 DEF FlowTypes
<1>7. ASSUME NEW m \in Mixers, Callback(m) PROVE FlowTypes'
  <2>1. CASE CallEmpty(m) \/ CallRest(m)
    BY <1>1, <2>1 DEF CallEmpty, CallRest, CallbackEmpty, CallbackRest
  <2>2. CASE CallStopped(m) \/ CallEnd(m) \/ CallGm(m)
    <3>1. Filled(m, 0) /\ UNCHANGED <<heard, hpcm>>
      BY <2>2 DEF CallStopped, CallEnd, CallGm, CallbackStopped, CallbackEnd
    <3> QED
      BY <1>6, <3>1
  <2>3. CASE CallMiss(m)
    <3>1. /\ UNCHANGED <<heard, hpcm>>
          /\ Filled(m, 0) \/ UNCHANGED block
      BY <2>3 DEF CallMiss, CallbackMiss
    <3> QED
      BY <1>1, <1>6, <3>1
  <2>4. CASE CallPop(m)
    <3>1. /\ UNCHANGED <<heard, hpcm>> /\ mix[m].ch \in Players
          /\ queue[mix[m].ch] # <<>> /\ Filled(m, Head(queue[mix[m].ch]))
      BY <2>4 DEF CallPop, CallbackPop, CanPop
    <3>2. Head(queue[mix[m].ch]) \in Nat
      BY <3>1, LineParts, HeadTailProperties
    <3> QED
      BY <1>6, <3>1, <3>2
  <2> QED
    BY <1>7, <2>1, <2>2, <2>3, <2>4 DEF Callback
<1>8. ASSUME NEW ch \in Channels, Played(ch) PROVE FlowTypes'
  <2> DEFINE x == block[ch][Head(dev[ch])]
  <2>1. /\ dev[ch] \in Seq(Numbers) /\ dev[ch] # <<>>
        /\ block \in [Channels -> [Numbers -> Nat]]
        /\ heard \in [Players -> Seq(Nat)]
        /\ block' = [block EXCEPT ![ch][Head(dev[ch])] = 0]
        /\ heard' = IF x = 0 THEN heard
                    ELSE [heard EXCEPT ![ch] = Append(heard[ch], x)]
        /\ hpcm' = hpcm
    BY <1>0, <1>8, ChannelTypes DEF Context, FlowTypes, Played, WaveOutProc
  <2>2. x \in Nat
    BY <2>1, HeadTailProperties
  <2>3. heard' \in [Players -> Seq(Nat)]
    <3> HIDE DEF x
    <3> QED
      BY <2>1, <2>2, AppendProperties
  <2> QED
    BY <1>0, <2>1, <2>3 DEF FlowTypes
<1>9. CASE UNCHANGED vars
  BY <1>1, <1>9 DEF vars
<1> QED
  BY <1>2, <1>3, <1>4, <1>5, <1>7, <1>8, <1>9 DEF Next, VmCalls, VmReturning

(* What a player that does not exist has does not come from anywhere.      *)
LEMMA AbsentKeeps ==
  ASSUME Context, [Next]_vars
  PROVE  Absent'
<1> USE DEF rtpVars, rtpHist
<1>0. /\ Absent /\ Owners /\ heard \in [Players -> Seq(Nat)]
      /\ queue \in [Players -> Seq(1..MaxPackets)]
      /\ fed \in [Players -> 0..MaxPackets]
  BY DEF Context, FlowInv, FlowTypes, PlayerInv, PlayerTypes
<1>1. ASSUME UNCHANGED <<exists, heard, queue, fed>> PROVE Absent'
  BY <1>0, <1>1 DEF Absent
<1>2. ASSUME NEW p \in Players, CreatePlayer(p) \/ DestroyPlayer(p)
      PROVE  Absent'
  <2>1. /\ queue' = [queue EXCEPT ![p] = <<>>] /\ fed' = [fed EXCEPT ![p] = 0]
        /\ \/ exists' = exists \cup {p} /\ heard' = heard
           \/ exists' = exists \ {p} /\ heard' = [heard EXCEPT ![p] = <<>>]
    BY <1>2 DEF CreatePlayer, DestroyPlayer, Create, Destroy, Fresh
  <2> QED
    BY <1>0, <2>1 DEF Absent
<1>3. ASSUME NEW p \in Players, Feed(p) PROVE Absent'
  <2>1. /\ p \in exists /\ UNCHANGED <<exists, heard>>
        /\ \A r \in Players : r # p => queue'[r] = queue[r] /\ fed'[r] = fed[r]
    BY <1>0, <1>3 DEF Feed, DoBuffering
  <2> QED
    BY <1>0, <2>1 DEF Absent
<1>4. ASSUME NEW p \in Players,
             \/ AcquireRefused(p) \/ AcquireOpen(p) \/ AcquireReturn(p)
             \/ ReleaseNothing(p) \/ ReleaseCall(p)
             \/ \E on \in BOOLEAN : Play(p, on)
      PROVE  Absent'
  BY <1>1, <1>4 DEF AcquireRefused, AcquireOpen, AcquireReturn, Acquired,
                    ReleaseNothing, Released, ReleaseCall, Play, SetPlaying
<1>5. CASE GmRefused \/ GmOpen \/ GmReturn \/ ReleaseRemove \/ VmClosing
  BY <1>1, <1>5 DEF GmRefused, GmOpen, GmReturn, ReleaseRemove, VmClosing,
                    ReleaseFree, ReleaseJoin, Released
<1>6. ASSUME NEW m \in Mixers, MixStep(m) PROVE Absent'
  BY <1>1, <1>6 DEF MixStep
<1>7. ASSUME NEW m \in Mixers, Callback(m) PROVE Absent'
  <2>1. CASE CallPop(m)
    <3>1. /\ mix[m].pc = "call" /\ mix[m].ch \in Players
          /\ UNCHANGED <<exists, heard, fed>>
          /\ \A r \in Players : r # mix[m].ch => queue'[r] = queue[r]
      BY <1>0, <2>1 DEF CallPop, CallbackPop, Filled, MixCallback
    <3>2. mix[m].ch \in exists
      BY <1>0, <3>1 DEF Context, PcmInv, InHands, Listed, Holding, Owners
    <3> QED
      BY <1>0, <3>1, <3>2 DEF Absent
  <2>2. CASE ~CallPop(m)
    BY <1>1, <1>7, <2>2
       DEF Callback, CallEmpty, CallRest, CallStopped, CallMiss, CallEnd, CallGm,
           CallbackEmpty, CallbackRest, CallbackStopped, CallbackMiss,
           CallbackEnd
  <2> QED
    BY <2>1, <2>2
<1>8. ASSUME NEW ch \in Channels, Played(ch) PROVE Absent'
  <2>1. /\ ch \in live /\ UNCHANGED <<exists, queue, fed>>
        /\ \A r \in Players : r # ch => heard'[r] = heard[r]
    BY <1>0, <1>8 DEF Played, WaveOutProc, Context, FlowInv, ClosedSilent
  <2>2. ch \in Players => ch \in exists
    BY <1>0, <2>1 DEF Owners
  <2> QED
    BY <1>0, <2>1, <2>2 DEF Absent
<1>9. CASE UNCHANGED vars
  BY <1>1, <1>9 DEF vars
<1> QED
  BY <1>2, <1>3, <1>4, <1>5, <1>6, <1>7, <1>8, <1>9
     DEF Next, VmCalls, VmReturning

LEMMA FlowStarts == Init => FlowInv
<1> SUFFICES ASSUME Init PROVE FlowInv
  OBVIOUS
<1>1. FlowTypes /\ ClosedSilent /\ Owners /\ Absent
  BY DEF Init, PcmInit, RtpInit, FlowTypes, ClosedSilent, Owners, Absent,
         Numbers
<1>2. ASSUME NEW p \in Players PROVE InLine(Line(p), fed[p])
  <2>1. /\ heard[p] = <<>> /\ queue[p] = <<>> /\ fed[p] = 0 /\ dev[p] = <<>>
        /\ \A m \in Mixers : mix[m].pc = "dead"
    BY MediaAssumption DEF Init, PcmInit, RtpInit, Dead
  <2>2. Line(p) = <<>>
    BY <2>1 DEF Line, Queued, InHand
  <2> QED
    BY <2>1, <2>2, EmptyInLine
<1> QED
  BY <1>1, <1>2 DEF FlowInv, AllInLine

(* Every packet fed is heard, or on its way, once and in the order fed:    *)
(* for any number of players, headers and packets, over stops, releases    *)
(* and new acquisitions of the device.                                     *)
THEOREM HeardRight == Spec => []HeardInOrder
<1>1. PcmInv /\ PlayerInv /\ FlowInv /\ [Next]_vars => FlowInv'
  BY LinesKeep, FlowTypesKeep, AbsentKeeps, OwnersKeep, ClosedKeeps
     DEF FlowInv, Context
<1>2. PlayerInv /\ FlowInv => HeardInOrder
  BY DEF PlayerInv, PlayerTypes, FlowInv, AllInLine, HeardInOrder
<1> QED
  BY <1>1, <1>2, FlowStarts, PcmInvariant, PlayerInvariant, PTL DEF Spec

=============================================================================

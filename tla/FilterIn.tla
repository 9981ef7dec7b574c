-------------------------------- MODULE FilterIn --------------------------------
(***************************************************************************)
(* The source filter of the DirectShow player                              *)
(* (src/implementation/win32_emul/jsr135_mmapi/dshow/filter_in.cpp).  The  *)
(* VM's thread pushes downloaded bytes into a growing buffer through       *)
(* filter_in_filter::data; a parser filter reads it at any position with   *)
(* SyncRead and sleeps on the auto-reset event event_unblock until its     *)
(* range has arrived, the content is known to be too short, a flush begins *)
(* or the pin is disconnected.  Only the buffer is guarded by data_cs:     *)
(* flushing and pconnected are written without it.  The parser can read at *)
(* any time, also before Connect has set pconnected and after a disconnect.*)
(***************************************************************************)
EXTENDS Integers

CONSTANTS
  Readers,      \* threads of the parser, at most one of them reading
  Source,       \* the VM thread that delivers the content
  Graph,        \* the thread of the filter graph manager
  Nobody,
  ContentSize,  \* bytes the source has to deliver
  Chunks,       \* sizes in which it delivers them
  Bits,         \* of a nat32
  Unknown,      \* 0xffffffff: the size of the content is not known
  Lens,         \* lengths a reader asks for
  MaxReads,     \* bound: reads
  MaxFlushes    \* bound: flushes and disconnects

ASSUME SizeAssumption ==
  /\ ContentSize \in Nat /\ Unknown \in Nat /\ ContentSize < Unknown
  /\ Chunks \subseteq Nat \ {0} /\ Lens \subseteq Nat
(* The buffer of the whole content, rounded up, has a size of Bits bits.   *)
ASSUME WidthAssumption ==
  Bits \in Nat \ {0} /\ ContentSize <= 2^(Bits - 1) /\ Unknown = 2^Bits - 1
ASSUME BoundAssumption == MaxReads \in Nat /\ MaxFlushes \in Nat
ASSUME ThreadAssumption == /\ Source # Graph
                           /\ {Source, Graph, Nobody} \cap Readers = {}
                           /\ Nobody \notin {Source, Graph}

Threads == Readers \cup {Source, Graph}

VARIABLES
  filled,     \* data_l
  capacity,   \* data_a
  total,      \* data_total
  connected,  \* pconnected is not NULL
  state,      \* of the filter
  flushing,
  unblock,    \* event_unblock is signaled
  cs,         \* owner of data_cs
  pc,
  pos, len,   \* arguments of r's SyncRead
  result, got, \* what r's last SyncRead returned and how many bytes it copied
  disturbed,  \* history: a flush or a disconnect came while r read, or r
              \* found the pin not connected
  reads, flushes

buffer == <<filled, capacity, total>>
pin == <<connected, state, flushing>>
call == <<pos, len, result, got, disturbed>>
bounds == <<reads, flushes>>
vars == <<filled, capacity, total, connected, state, flushing, unblock, cs, pc,
          pos, len, result, got, disturbed, reads, flushes>>

-----------------------------------------------------------------------------
(* filter_in_filter::create                                                *)
Init ==
  /\ filled = 0 /\ capacity = 0 /\ total = Unknown
  /\ connected = FALSE
  /\ state = "Stopped"
  /\ flushing = FALSE
  /\ unblock = FALSE
  /\ cs = Nobody
  /\ pc = [t \in Threads |-> "idle"]
  /\ pos = [r \in Readers |-> 0]
  /\ len = [r \in Readers |-> 0]
  /\ result = [r \in Readers |-> "none"]
  /\ got = [r \in Readers |-> 0]
  /\ disturbed = [r \in Readers |-> FALSE]
  /\ reads = 0 /\ flushes = 0

Goto(t, l) == pc' = [pc EXCEPT ![t] = l]

-----------------------------------------------------------------------------
(* filter_in_filter::data                                                  *)

(* Mutated form: the buffer is only ever doubled.                          *)
RoundOnce(n) == 2 * filled

(* The least power of two that is n or more.                               *)
Round(n) ==
  LET Enough == {p \in {2^i : i \in 0..(Bits - 1)} : p >= n}
  IN  CHOOSE p \in Enough : \A q \in Enough : p <= q

(* Mutated form: a waiting reader is told of the first bytes only.         *)
DataFirst ==
  /\ pc[Source] = "idle"
  /\ cs = Nobody
  /\ \E n \in Chunks :
       /\ filled + n <= ContentSize
       /\ filled' = filled + n
       /\ capacity' = IF capacity < filled + n THEN Round(filled + n) ELSE capacity
  /\ UNCHANGED total
  /\ Goto(Source, IF filled = 0 THEN "set" ELSE "idle")
  /\ UNCHANGED <<pin, unblock, cs, call, bounds>>

(* The bytes are appended under data_cs, the buffer reallocated if need be.*)
Data ==
  /\ pc[Source] = "idle"
  /\ cs = Nobody
  /\ \E n \in Chunks :
       /\ filled + n <= ContentSize
       /\ filled' = filled + n
       /\ capacity' = IF capacity < filled + n THEN Round(filled + n) ELSE capacity
  /\ UNCHANGED total
  /\ Goto(Source, "set")
  /\ UNCHANGED <<pin, unblock, cs, call, bounds>>

(* data(size, NULL) from dshow_set_whole_content_size.                     *)
DataTotal ==
  /\ pc[Source] = "idle"
  /\ cs = Nobody
  /\ total = Unknown
  /\ total' = ContentSize
  /\ UNCHANGED <<filled, capacity>>
  /\ Goto(Source, "set")
  /\ UNCHANGED <<pin, unblock, cs, call, bounds>>

(* SetEvent(event_unblock), after the change it announces.                 *)
SetUnblock(t) ==
  /\ pc[t] = "set"
  /\ unblock' = TRUE
  /\ Goto(t, "idle")
  /\ UNCHANGED <<buffer, pin, cs, call, bounds>>

-----------------------------------------------------------------------------
(* filter_in_pin::SyncRead, and SyncReadAligned but for its time stamps    *)

Reading(r) == pc[r] \in {"check", "decide", "wait"}

Read(r) ==
  /\ \A r2 \in Readers : ~Reading(r2)
  /\ reads < MaxReads
  /\ reads' = reads + 1
  /\ \E p \in 0..ContentSize, l \in Lens : /\ pos' = [pos EXCEPT ![r] = p]
                                           /\ len' = [len EXCEPT ![r] = l]
  /\ disturbed' = [disturbed EXCEPT ![r] = flushing]
  /\ Goto(r, "check")
  /\ UNCHANGED <<buffer, pin, unblock, cs, result, got, flushes>>

(* Mutated form: any byte of the range will do.                            *)
BlockedForOne(r) ==
  /\ connected /\ ~flushing
  /\ total >= pos[r] /\ total - pos[r] >= len[r]
  /\ filled < pos[r]

(* The range may still arrive and has not arrived yet.                     *)
Blocked(r) ==
  /\ connected /\ ~flushing
  /\ total >= pos[r] /\ total - pos[r] >= len[r]
  /\ filled < pos[r] \/ filled - pos[r] < len[r]

(* The loop's test, under data_cs, which is given up to sleep.             *)
Check(r) ==
  /\ pc[r] = "check"
  /\ cs = Nobody
  /\ \/ /\ Blocked(r)
        /\ Goto(r, "wait")
        /\ UNCHANGED cs
     \/ /\ ~Blocked(r)
        /\ Goto(r, "decide")
        /\ cs' = r
  /\ disturbed' = [disturbed EXCEPT ![r] = @ \/ ~connected]
  /\ UNCHANGED <<buffer, pin, unblock, pos, len, result, got, bounds>>

(* WaitForSingleObject(event_unblock, INFINITE) takes the signal with it.  *)
Wake(r) ==
  /\ pc[r] = "wait"
  /\ unblock
  /\ unblock' = FALSE
  /\ Goto(r, "check")
  /\ UNCHANGED <<buffer, pin, cs, call, bounds>>

(* flushing is read a second time here; a flush may have ended since Check.*)
Decide(r) ==
  /\ pc[r] = "decide"
  /\ \/ /\ flushing
        /\ result' = [result EXCEPT ![r] = "TIMEOUT"]
        /\ got' = [got EXCEPT ![r] = 0]
     \/ /\ ~flushing /\ filled < pos[r]
        /\ result' = [result EXCEPT ![r] = "FALSE"]
        /\ got' = [got EXCEPT ![r] = 0]
     \/ /\ ~flushing /\ filled >= pos[r] /\ filled - pos[r] < len[r]
        /\ result' = [result EXCEPT ![r] = "FALSE"]
        /\ got' = [got EXCEPT ![r] = filled - pos[r]]
     \/ /\ ~flushing /\ filled >= pos[r] /\ filled - pos[r] >= len[r]
        /\ result' = [result EXCEPT ![r] = "OK"]
        /\ got' = [got EXCEPT ![r] = len[r]]
  /\ cs' = Nobody
  /\ Goto(r, "idle")
  /\ UNCHANGED <<buffer, pin, unblock, pos, len, disturbed, bounds>>

-----------------------------------------------------------------------------
(* The calls of the filter graph manager                                   *)

(* filter_in_pin::Connect calls ReceiveConnection of the parser's pin, and *)
(* the parser reads the content before that returns ...                    *)
Connect ==
  /\ pc[Graph] = "idle"
  /\ ~connected /\ state = "Stopped"
  /\ Goto(Graph, "connect")
  /\ UNCHANGED <<buffer, pin, unblock, cs, call, bounds>>

(* ... with an error, or pconnected is set.                                *)
ConnectReturn ==
  /\ pc[Graph] = "connect"
  /\ connected' \in {connected, TRUE}
  /\ Goto(Graph, "idle")
  /\ UNCHANGED <<buffer, state, flushing, unblock, cs, call, bounds>>

(* Mutated form: a disconnect wakes nobody.                                *)
DisconnectQuietly ==
  /\ pc[Graph] = "idle"
  /\ connected /\ state = "Stopped"
  /\ flushes < MaxFlushes
  /\ flushes' = flushes + 1
  /\ connected' = FALSE
  /\ disturbed' = [r \in Readers |-> disturbed[r] \/ Reading(r)]
  /\ UNCHANGED <<buffer, state, flushing, unblock, cs, pc, pos, len, result, got, reads>>

Disconnect ==
  /\ pc[Graph] = "idle"
  /\ connected /\ state = "Stopped"
  /\ flushes < MaxFlushes
  /\ flushes' = flushes + 1
  /\ connected' = FALSE
  /\ disturbed' = [r \in Readers |-> disturbed[r] \/ Reading(r)]
  /\ Goto(Graph, "set")
  /\ UNCHANGED <<buffer, state, flushing, unblock, cs, pos, len, result, got, reads>>

(* Stop, Pause and Run only note the state.                                *)
ChangeState ==
  /\ pc[Graph] = "idle"
  /\ state' \in {"Stopped", "Paused", "Running"} \ {state}
  /\ UNCHANGED <<buffer, connected, flushing, unblock, cs, pc, call, bounds>>

BeginFlush ==
  /\ pc[Graph] = "idle"
  /\ ~flushing
  /\ flushes < MaxFlushes
  /\ flushes' = flushes + 1
  /\ flushing' = TRUE
  /\ disturbed' = [r \in Readers |-> disturbed[r] \/ Reading(r)]
  /\ Goto(Graph, "set")
  /\ UNCHANGED <<buffer, connected, state, unblock, cs, pos, len, result, got, reads>>

EndFlush ==
  /\ pc[Graph] = "idle"
  /\ flushing
  /\ flushing' = FALSE
  /\ UNCHANGED <<buffer, connected, state, unblock, cs, pc, call, bounds>>

-----------------------------------------------------------------------------
ReadStep(r) == Check(r) \/ Wake(r) \/ Decide(r)

Next == \/ Data \/ DataTotal
        \/ Connect \/ ConnectReturn \/ Disconnect \/ ChangeState \/ BeginFlush \/ EndFlush
        \/ \E t \in {Source, Graph} : SetUnblock(t)
        \/ \E r \in Readers : Read(r) \/ ReadStep(r)

Spec == Init /\ [][Next]_vars

(* Threads that can run are scheduled, so a call once begun goes on; nobody *)
(* is obliged to deliver data, to connect or to flush.                     *)
FairSpec == /\ Spec
            /\ WF_vars(SetUnblock(Source)) /\ WF_vars(SetUnblock(Graph))
            /\ \A r \in Readers : WF_vars(Check(r) \/ Decide(r)) /\ WF_vars(Wake(r))

-----------------------------------------------------------------------------
(* The state stays well-formed and what is filled fits the allocation.     *)
TypeOK ==
  /\ filled \in 0..ContentSize
  /\ capacity \in Nat /\ filled <= capacity
  /\ total \in {Unknown, ContentSize}
  /\ connected \in BOOLEAN /\ flushing \in BOOLEAN /\ unblock \in BOOLEAN
  /\ state \in {"Stopped", "Paused", "Running"}
  /\ cs \in Readers \cup {Nobody}
  /\ pc \in [Threads -> {"idle", "check", "decide", "wait", "set", "connect"}]
  /\ pos \in [Readers -> 0..ContentSize] /\ len \in [Readers -> Lens \cup {0}]
  /\ result \in [Readers -> {"none", "OK", "FALSE", "TIMEOUT"}]
  /\ got \in [Readers -> Nat]
  /\ disturbed \in [Readers -> BOOLEAN]
  /\ reads \in 0..MaxReads /\ flushes \in 0..MaxFlushes

(* No lost wakeup: a reader that sleeps although its wait is over finds the *)
(* event signaled, or whoever ended the wait is about to signal it.        *)
NoSleepingRead ==
  \A r \in Readers :
    pc[r] = "wait" /\ ~Blocked(r) => unblock \/ pc[Source] = "set" \/ pc[Graph] = "set"

(* A read comes back short only when its range lies beyond the end of the  *)
(* content, a flush or a disconnect broke in, or it did not wait because   *)
(* the pin was not connected: reads that the parser makes while Connect    *)
(* still waits for its ReceiveConnection get what is there.                *)
ShortReadExcused ==
  [][\A r \in Readers :
       (Decide(r) /\ result'[r] = "FALSE") =>
         pos[r] + len[r] > total \/ disturbed[r]]_vars

(* A read whose bytes are all there returns.                               *)
ReadReturns ==
  \A r \in Readers :
    (Reading(r) /\ filled >= pos[r] + len[r]) ~> ~Reading(r)

(* A flush that is not over and a disconnect end every read.               *)
ReadersReleased ==
  \A r \in Readers :
    (Reading(r) /\ (flushing \/ ~connected)) ~> (~Reading(r) \/ (~flushing /\ connected))
=============================================================================

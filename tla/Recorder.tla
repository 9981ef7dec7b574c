------------------------------- MODULE Recorder -------------------------------
(***************************************************************************)
(* The audio recorder of the emulator's media library                      *)
(* (src/implementation/win32_emul/jsr135_mmapi/mmrecord.c and              *)
(* mmrecord_winapi.c): the VM's thread opens, stops, commits, reads and    *)
(* closes a recording, the wave-in device fills headers and sets an        *)
(* auto-reset event, and the recording thread writes them to a temporary   *)
(* file and gives them back to the device.                                 *)
(*                                                                         *)
(* The file is a sequence of cells: HeadLen cells of WAV header, then data *)
(* cells, BlockLen for a header's worth of sound.  All three use the one   *)
(* position of the FILE.                                                   *)
(***************************************************************************)
EXTENDS Integers, Sequences, FiniteSets

CONSTANTS
  HdrsCount,  \* HDRS_COUNT
  BlockLen,   \* block_size, in cells
  HeadLen,    \* sizeof(struct std_head), in cells
  Sizes,      \* recording sizes Java asks for, in cells
  MaxSize,    \* the largest one granted (20000000 bytes)
  NoLimit,    \* INT_MAX
  MaxBlocks,  \* bound: blocks the device captures in one recording
  MaxStray,   \* bound: cells a write of a negative length leaves in the file
  MaxKept,    \* bound: recordLen with which another recording is opened
  MaxReads    \* bound: javacall_media_get_recorded_data calls

ASSUME RecorderAssumption ==
  /\ HdrsCount \in Nat \ {0}
  /\ BlockLen \in Nat \ {0}
  /\ HeadLen \in Nat \ {0}
  /\ Sizes \subseteq Int
  /\ MaxSize \in Nat /\ HeadLen <= MaxSize
  /\ NoLimit \notin Int
  /\ MaxBlocks \in Nat /\ MaxKept \in Nat /\ MaxReads \in Nat
  /\ MaxStray \in Nat

Headers == 0..(HdrsCount - 1)

VARIABLES
  recInitDone,  \* also: the file and g_hWI are open
  lengthLimit,
  rsl,
  recordLen,
  file,         \* the temporary file's cells
  pos,          \* its position
  event,        \* g_hReadyEvent is set
  started,      \* waveInStart has been called on the open device
  dev,          \* headers queued in the device
  done,         \* headers with WHDR_DONE in their flags
  data,         \* per header: the block it was last filled with
  terminate,    \* g_bTerminate
  thread,       \* the recording thread: pc, header in hand, length to write
  call,         \* what the VM's thread is in the middle of
  session,      \* what Java has asked for: none, recording, stopped, committed
  captured,     \* history: blocks captured since the recording was opened
  merged,       \* history: the device has set the event when it was set
  relimited,    \* history: the recorder's limit has been set while recording
  undercut,     \* history: it has been set below recordLen
  reads         \* history: reads made of this recording

vars == <<recInitDone, lengthLimit, rsl, recordLen, file, pos, event, started,
          dev, done, data, terminate, thread, call, session, captured, merged,
          relimited, undercut, reads>>
fileVars   == <<file, pos>>
deviceVars == <<event, started, dev, done, data, captured, merged>>
ownVars    == <<recInitDone, lengthLimit, rsl, recordLen>>
histVars   == <<relimited, undercut, reads>>

NoThread == [pc |-> "dead", hdr |-> 0, len |-> 0]
HeadCells == [i \in 1..HeadLen |-> <<0, recordLen>>]

Init ==
  /\ recInitDone = FALSE
  /\ lengthLimit = NoLimit
  /\ rsl = FALSE
  /\ recordLen = 0
  /\ file = <<>>
  /\ pos = 0
  /\ event = FALSE
  /\ started = FALSE
  /\ dev = <<>>
  /\ done = {}
  /\ data = [h \in Headers |-> 0]
  /\ terminate = FALSE
  /\ thread = NoThread
  /\ call = "idle"
  /\ session = "none"
  /\ captured = 0
  /\ merged = FALSE
  /\ relimited = FALSE
  /\ undercut = FALSE
  /\ reads = 0

(* fwrite of cells s at position p of file f.                              *)
Written(f, p, s) ==
  [i \in 1..(IF Len(f) < p + Len(s) THEN p + Len(s) ELSE Len(f)) |->
     IF i \in (p + 1)..(p + Len(s)) THEN s[i - p] ELSE f[i]]

-----------------------------------------------------------------------------
(* The VM's thread.                                                        *)

(* recorder_set_recordsize_limit: what the data may take of a size.  The   *)
(* size is compared with a sizeof, so a negative one counts as a large one *)
(* and becomes a negative limit.                                           *)
Grant(size) ==
  (IF size > MaxSize THEN MaxSize
   ELSE IF size \in 0..HeadLen THEN HeadLen ELSE size) - HeadLen

(* Nothing compares the limit with recordLen, which may be that of an      *)
(* earlier recording: closing one keeps it.                                *)
SetLimit ==
  /\ call = "idle"
  /\ lengthLimit' \in {NoLimit} \cup {Grant(size) : size \in Sizes}
  /\ relimited' = (relimited \/ recInitDone)
  /\ undercut' = (undercut \/ (lengthLimit' # NoLimit
                                /\ lengthLimit' < recordLen))
  /\ UNCHANGED <<recInitDone, rsl, recordLen, fileVars, deviceVars, terminate,
                 thread, call, session, reads>>

(* recorder_start_recording, first call: the file with its header, the     *)
(* device with all its headers, the thread, and waveInStart.  Opening a    *)
(* device with an event may set the event.  When waveInOpen fails the file *)
(* is deleted again and nothing has changed.                               *)
StartFirst ==
  /\ call = "idle" /\ session = "none"
  /\ recordLen <= MaxKept
  /\ recInitDone' = TRUE
  /\ file' = HeadCells
  /\ pos' = HeadLen
  /\ event' \in BOOLEAN
  /\ started' = TRUE
  /\ dev' = [i \in 1..HdrsCount |-> i - 1]
  /\ done' = {}
  /\ data' = [h \in Headers |-> 0]
  /\ terminate' = FALSE
  /\ thread' = [NoThread EXCEPT !.pc = "wait"]
  /\ session' = "recording"
  /\ captured' = 0 /\ merged' = FALSE /\ reads' = 0
  /\ UNCHANGED <<lengthLimit, rsl, recordLen, call, relimited, undercut>>

(* Another call of start only calls waveInStart, on a device that has      *)
(* never been stopped; and pause and stop find g_bCapturing, which nothing *)
(* sets, already equal to what they ask for and leave the device running.  *)
Resume ==
  /\ call = "idle" /\ session = "stopped"
  /\ session' = "recording"
  /\ started' = TRUE
  /\ UNCHANGED <<ownVars, fileVars, event, dev, done, data, terminate, thread,
                 call, captured, merged, histVars>>

Stop ==
  /\ call = "idle" /\ session = "recording"
  /\ session' = "stopped"
  /\ UNCHANGED <<ownVars, fileVars, deviceVars, terminate, thread, call,
                 histVars>>

(* recorder_commit_recording: fseek, then fwrite of the header.            *)
CommitSeek ==
  /\ call = "idle" /\ session = "stopped"
  /\ pos' = 0
  /\ call' = "commit"
  /\ UNCHANGED <<ownVars, file, deviceVars, terminate, thread, session,
                 histVars>>

CommitWrite ==
  /\ call = "commit"
  /\ file' = Written(file, pos, HeadCells)
  /\ pos' = pos + HeadLen
  /\ call' = "idle"
  /\ session' = "committed"
  /\ UNCHANGED <<ownVars, deviceVars, terminate, thread, histVars>>

(* recorder_get_recorded_data of some cells from an offset: fseek, then    *)
(* fread.                                                                  *)
ReadSeek ==
  /\ call = "idle" /\ session = "committed"
  /\ reads < MaxReads
  /\ pos' \in 0..(HeadLen + recordLen)
  /\ pos' <= Len(file)
  /\ call' = "read"
  /\ reads' = reads + 1
  /\ UNCHANGED <<ownVars, file, deviceVars, terminate, thread, session,
                 relimited, undercut>>

ReadData ==
  /\ call = "read"
  /\ pos' \in pos..Len(file)
  /\ call' = "idle"
  /\ UNCHANGED <<ownVars, file, deviceVars, terminate, thread, session,
                 histVars>>

(* recorder_close_recording and closeAudioCapture: the thread is told to   *)
(* stop and waited for; then device, file and event go.  recordLen and rsl *)
(* keep their values.                                                      *)
CloseCall ==
  /\ call = "idle" /\ recInitDone
  /\ terminate' = TRUE
  /\ call' = "close"
  /\ UNCHANGED <<ownVars, fileVars, deviceVars, thread, session, histVars>>

CloseJoin ==
  /\ call = "close"
  /\ thread.pc = "dead"
  /\ recInitDone' = FALSE
  /\ file' = <<>> /\ pos' = 0
  /\ event' = FALSE /\ started' = FALSE
  /\ dev' = <<>> /\ done' = {} /\ data' = [h \in Headers |-> 0]
  /\ thread' = NoThread
  /\ session' = "none"
  /\ call' = "idle"
  /\ captured' = 0 /\ merged' = FALSE /\ reads' = 0
  /\ UNCHANGED <<lengthLimit, rsl, recordLen, terminate, relimited, undercut>>

(* recorder_close frees the recorder; recorder_create makes a new one.     *)
Renew ==
  /\ call = "idle" /\ ~recInitDone
  /\ lengthLimit' = NoLimit
  /\ rsl' = FALSE
  /\ recordLen' = 0
  /\ relimited' = FALSE /\ undercut' = FALSE
  /\ UNCHANGED <<recInitDone, fileVars, deviceVars, terminate, thread, call,
                 session, reads>>

-----------------------------------------------------------------------------
(* The device: the header at the head of its queue is full.                *)
Capture ==
  /\ started /\ dev # <<>>
  /\ captured < MaxBlocks
  /\ captured' = captured + 1
  /\ data' = [data EXCEPT ![Head(dev)] = captured + 1]
  /\ dev' = Tail(dev)
  /\ done' = done \cup {Head(dev)}
  /\ event' = TRUE
  /\ merged' = (merged \/ event)
  /\ UNCHANGED <<ownVars, fileVars, started, terminate, thread, call, session,
                 histVars>>

-----------------------------------------------------------------------------
(* rec_thread.                                                             *)

Again(stop) == IF terminate \/ stop THEN NoThread
                                    ELSE [NoThread EXCEPT !.pc = "wait"]

(* The wait times out after 50 ms.                                         *)
ThreadTimeout ==
  /\ thread.pc = "wait" /\ ~event
  /\ thread' = Again(rsl)
  /\ UNCHANGED <<ownVars, fileVars, deviceVars, terminate, call, session,
                 histVars>>

(* One wake-up, one header: the lowest with WHDR_DONE, if there is any.    *)
ThreadWake ==
  /\ thread.pc = "wait" /\ event
  /\ event' = FALSE
  /\ \/ done = {} /\ thread' = Again(rsl)
     \/ \E h \in done : /\ \A g \in done : h <= g
                        /\ thread' = [thread EXCEPT !.pc = "fit", !.hdr = h]
  /\ UNCHANGED <<ownVars, fileVars, started, dev, done, data, captured,
                 merged, terminate, call, session, histVars>>

(* Mutated form: the block is cut as if nothing had been recorded yet.     *)
FitBlock(l) == IF lengthLimit # NoLimit /\ l >= lengthLimit
               THEN lengthLimit - recordLen ELSE l

(* Mutated form: the rest of the limit, whatever the block holds.          *)
FitRest(l) == IF lengthLimit # NoLimit THEN lengthLimit - recordLen ELSE l

(* What of a block of length l still fits under the limit; negative when   *)
(* the limit is below what has been recorded.                              *)
Fit(l) == IF lengthLimit # NoLimit /\ recordLen + l >= lengthLimit
          THEN lengthLimit - recordLen ELSE l

ThreadFit ==
  /\ thread.pc = "fit"
  /\ thread' = IF rsl \/ terminate THEN Again(rsl)
               ELSE [thread EXCEPT !.pc = "write", !.len = Fit(BlockLen)]
  /\ UNCHANGED <<ownVars, fileVars, deviceVars, terminate, call, session,
                 histVars>>

(* What fwrite takes of a length.  A negative one is nearly 4 GB: what     *)
(* lies behind the header's buffer is written until the write fails, or    *)
(* the process is stopped, a behaviour that ends here.                     *)
Taken(len) == IF len >= 0 THEN {len} ELSE 0..MaxStray

ThreadWrite ==
  /\ thread.pc = "write"
  /\ \E n \in Taken(thread.len) :
       /\ file' = Written(file, pos, [i \in 1..n |-> <<data[thread.hdr], i>>])
       /\ pos' = pos + n
       /\ recordLen' = recordLen + n
  /\ thread' = [thread EXCEPT !.pc = "limit"]
  /\ UNCHANGED <<recInitDone, lengthLimit, rsl, deviceVars, terminate, call,
                 session, histVars>>

AtLimit == lengthLimit # NoLimit /\ recordLen >= lengthLimit

(* The VM is told of the size limit, and the thread ends.                  *)
ThreadLimit ==
  /\ thread.pc = "limit"
  /\ AtLimit
  /\ rsl' = TRUE
  /\ thread' = NoThread
  /\ UNCHANGED <<recInitDone, lengthLimit, recordLen, fileVars, deviceVars,
                 terminate, call, session, histVars>>

(* Mutated form: the header goes back with its WHDR_DONE still set.        *)
StillDone(h) == done

Undone(h) == done \ {h}

(* The header goes back to the device.                                     *)
ThreadRequeue ==
  /\ thread.pc = "limit"
  /\ ~AtLimit
  /\ done' = Undone(thread.hdr)
  /\ dev' = Append(dev, thread.hdr)
  /\ thread' = Again(rsl)
  /\ UNCHANGED <<ownVars, fileVars, event, started, data, captured, merged,
                 terminate, call, session, histVars>>

Thread == ThreadTimeout \/ ThreadWake \/ ThreadFit \/ ThreadWrite
            \/ ThreadLimit \/ ThreadRequeue

VmThread == SetLimit \/ StartFirst \/ Resume \/ Stop \/ CommitSeek
              \/ CommitWrite \/ ReadSeek \/ ReadData \/ CloseCall \/ CloseJoin
              \/ Renew

Next == VmThread \/ Capture \/ Thread

Spec == Init /\ [][Next]_vars

-----------------------------------------------------------------------------
Lengths == {n \in Int : n <= BlockLen}

TypeOK ==
  /\ recInitDone \in BOOLEAN /\ rsl \in BOOLEAN /\ terminate \in BOOLEAN
  /\ event \in BOOLEAN /\ started \in BOOLEAN
  /\ merged \in BOOLEAN /\ relimited \in BOOLEAN /\ undercut \in BOOLEAN
  /\ lengthLimit \in Int \cup {NoLimit}
  /\ recordLen \in Nat
  /\ pos \in 0..Len(file)
  /\ dev \in Seq(Headers)
  /\ done \subseteq Headers
  /\ data \in [Headers -> 0..MaxBlocks]
  /\ thread \in [pc : {"dead", "wait", "fit", "write", "limit"},
                 hdr : Headers, len : Lengths]
  /\ call \in {"idle", "commit", "read", "close"}
  /\ session \in {"none", "recording", "stopped", "committed"}
  /\ captured \in 0..MaxBlocks
  /\ reads \in 0..MaxReads

(* Every header of an open recording is with the device or full, never     *)
(* both and never twice with the device, so a block is not captured over   *)
(* one that is still to be written.                                        *)
HeadersAccounted ==
  recInitDone =>
    /\ \A i, j \in 1..Len(dev) : dev[i] = dev[j] => i = j
    /\ {dev[i] : i \in 1..Len(dev)} = Headers \ done
    /\ thread.pc \in {"fit", "write", "limit"} => thread.hdr \in done

(* A full header is left waiting, with the thread waiting for the next     *)
(* event, only if two of the device's events have become one: the thread   *)
(* takes a single header for each wake-up.                                 *)
LeftBehindOnlyByMerge ==
  thread.pc = "wait" /\ ~event /\ done # {} => merged

(* Until a header has been left behind, the position has been moved, or    *)
(* the limit set under way, when a block may be in the thread's hand cut   *)
(* by the old one, or below what was recorded, when the thread may write   *)
(* what is no block's, the file is the WAV header and the captured blocks, *)
(* complete and in order, the last one cut where the limit falls.          *)
RecordedInOrder ==
  recInitDone /\ ~merged /\ ~relimited /\ ~undercut /\ call # "commit"
    /\ session # "committed" =>
    /\ pos = Len(file)
    /\ \A i \in (HeadLen + 1)..Len(file) :
         file[i] = <<((i - HeadLen - 1) \div BlockLen) + 1,
                     ((i - HeadLen - 1) % BlockLen) + 1>>

(* Under a limit that was not below recordLen when it was set, a recording *)
(* does not outgrow it; under one set while recording, by no more than the *)
(* block that was in the thread's hand.  (Below recordLen, which a close   *)
(* keeps, mmrecord_winapi.c:70 makes a negative length of it.)             *)
LimitKept ==
  lengthLimit # NoLimit /\ ~undercut =>
    recordLen <= lengthLimit + IF relimited THEN BlockLen ELSE 0

(* What stop and commit have completed stays as it is until it is closed   *)
(* (javacall_multimedia.h:1783, "The recording should be completed").      *)
CommittedRecordingStays ==
  [][session = "committed" /\ session' = "committed" => file' = file]_vars

=============================================================================

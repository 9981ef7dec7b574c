# A TLA+ model of the phoneME javacall porting layer

`javacall` is the layer between the Java ME virtual machine and a platform: the
VM calls it for events, media, messaging, files and drawing, and its notifiers
call back by sending events to the VM. This directory holds TLA+ specifications
of the parts of it in which threads meet, the TLC configurations that check them
on small instances, and TLAPS proofs for every size.

Two kinds of thread matter throughout. The *VM thread* runs Java code and calls
the porting layer. *Platform threads* (the Windows message loop, media graphs,
network callbacks) call the notifiers. They meet in the event queue, in the
DirectShow filters, in the mixer and the recorder, and in tables such as the
MIDlet list. On Windows CE a third party joins, the mail system, whose rule
client passes messages on to the VM from a process of its own.

Paths below are relative to `src/implementation/` unless they start with
`interface` or `notifiers`.

## Inventory

| Component | State it keeps | Operations | Meets |
|---|---|---|---|
| VM event queue, `win32_emul/midp/events.c` | list `head`, mutex `events_mutex`, manual-reset `events_handle`, the one-slot argument mailbox | `javacall_event_send`, `javacall_event_receive`, init, finalize, mailbox put and get | every notifier sends; the VM thread receives and, while it waits, dispatches window messages whose handler sends |
| CLDC event queue, `win32_x86_cldc/common/events.c` | the same with named kernel objects | the same | a second VM process shares the mutex and the event but not the list |
| Per-JSR queues, `win32_x86_cdc/common/events.c` | list of queues behind `eq_list_mutex`; each queue has a list, a mutex, an event and a closing flag | `javacall_event_send_cvm`, `javacall_event_receive_cvm`, find-or-create, finalize | one listener thread per subsystem, callers of any thread, the closing thread |
| Slave-mode store, `share/events/events_slave_mode.c` | array of 50 slots, one `index`, `size` | send, receive | one thread: in slave mode the platform calls the VM |
| Event queue lock, `*/midp/eventqueue.c` | named mutex, its handle in thread-local storage | create, destroy, wait, release | the mailbox |
| Source filter, `win32_emul/jsr135_mmapi/dshow/filter_in.cpp` | growing buffer, total size, `flushing`, pin connection, auto-reset `event_unblock` | `data`, `SyncRead`, flush, connect, stop/pause/run | VM thread writes, parser thread reads, graph manager controls |
| Sink filter, `.../dshow/filter_out.cpp` | `state`, `state2`, `flushing`, three manual-reset events, three locks | `Receive`, `EndOfStream`, flush, stop/pause/run, `GetState`, `EnumPins` | streaming thread delivers, graph manager controls; end of media calls the player back |
| Media player, `.../dshow/mmdshow.cpp`, `player_dshow.cpp`, `writer.cpp` | table of players, output ring, `eom_sent`, player state | create, destroy, start, stop, seek, buffering, end of media | both filters, the VM through media notifications |
| PCM mixer, `jsr135_mmapi/pcm_out_winapi.c` | table of channels, its mutex, per channel a ring of wave headers and the count of free ones | open a channel, close a channel, mixing thread, wave-out callback | players and the synthesizer manager own channels; the mixing thread calls their callbacks |
| Streamed (RTP) player, `jsr135_mmapi/mm_rtp.c` | queue of packets, `playing`, `buffering`, count of missing packets | create, destroy, acquire, release, start, stop, buffering, callback | the VM feeds, the mixing thread takes |
| Synthesizer manager, `jsr135_mmapi/mm_qsound_audio.c` | the manager of an isolate and its channel | `gmInit`, callback | second owner of the mixer |
| Audio recorder, `jsr135_mmapi/mmrecord.c`, `mmrecord_winapi.c` | one recording: file, size limit, length, wave-in headers, auto-reset event | open, limit, start, stop, commit, read, close, recording thread | device, recording thread and VM thread share headers, event and file position |
| NAMS, running MIDlets, `win32/nams/midlet_list.c`, `nams.c` | table of MIDlet slots, the pending record, foreground id | start, state and UI-state callbacks, resource changes | the VM reports states; the manager's UI asks for changes |
| NAMS, installed suites, `nams_db.c`, `nams_jad.c`, `nams_push.c` | text database, suite directories, cached rows | install, remove, look up | sequential |
| WMA over UDP, `*/jsr120_wma/jsr120_UDPEmulator.c`, `sms.c`, `cbs.c` | port table, reassembly buffer | encode, decode, register, send | datagrams of other emulators; notifications to the VM |
| WMA on Windows CE, `wince/jsr120_wma/sms.cpp`, `dll/jsms.cpp` | one-slot mapped-file mailbox, reassembly state | write, read, reassemble | inbox rule (another process) and receive thread |
| Network, sockets, serial, `midp/network.c`, `io_sockets.c`, ... | contexts of asynchronous calls | open, read, write, resolve | window messages |
| Content handlers, `jsr211_chapi` | mailcap files, a lock file | register, unregister, look up | other processes |
| Properties, `share/properties` | hash table, INI file | get, set, load, save | sequential |
| Everything else | strings, images, JPEG and PNG, fonts, drawing, predictive input, stubs | | pure computation or pure I/O |

`PROJECT.json` lists each of them with the reason if it is not modelled.

### Where it is hard

* **Signal after unlock.** All the queues set their Windows event *after* they
  release the mutex, and reset it *under* the mutex. Whether the consumer can be
  left asleep with an event in the list depends on the order of four steps in
  each of two threads (`events.c:337`, `:383`).
* **A lock that may not be obtained.** Waits for a mutex end after 500 ms or a
  second. The code after such a wait must not have half the effect of a call.
* **Reentrancy.** The receive dispatches window messages, and the handler sends
  to the same queue from the same thread.
* **Double-checked search.** `find_event_queue` reads the head of the list twice
  without a lock and once with it.
* **Shutdown in the middle of a call.** `javacall_events_finalize` of the CDC
  port frees queues after a sleep of 500 ms and asks nobody.
* **Locks nested in two orders**, and a wait with a lock held, in
  `filter_out.cpp`.
* **Flags without a lock.** `filter_in.cpp` writes `flushing` and the
  connection without `data_cs` and tells readers through an auto-reset event.
* **Indices that move before a check** in the slave-mode store.
* **A table that shifts under a loop.** The mixing thread walks the channel
  table and calls back into players with the table's mutex free in between,
  while the VM thread removes channels and frees their blocks
  (`pcm_out_winapi.c:191`).
* **Counters that two threads move.** Free headers are counted down after the
  device has the header and up from the device's callback.
* **Flags tested under a lock and set outside it** in the RTP callback, against
  the VM feeding packets (`mm_rtp.c:147`).
* **An event that does not count.** The recording thread writes one header for
  each wake-up of an auto-reset event; two blocks may share one.
* **One file position for three users** of the recording.
* **A mailbox for one datagram** between two processes, whose reader resets its
  auto-reset event twice, and whose writer gives up after a second and deletes
  the message all the same.
* **Segments counted instead of told apart**, while the network loses and
  reorders them.

The properties that make each component correct:

* queues: an event is delivered once, in order, as long as somebody receives; a
  receiver never sleeps while an event waits; a caller is told the truth;
* registry: one queue per subsystem, the right one, and none behind the closer;
* slave store: nothing is lost and nothing comes out twice, also when the index
  wraps;
* source filter: a read returns when its bytes are there, and is short only
  when it must be; flush and disconnect release readers;
* sink filter: a state change settles, one sample cues a pause, a sample that is
  held is let go, flush returns;
* mixer and RTP player: every packet fed is heard once and in order; no header is
  filled while the device plays it; the mixing thread never works on a freed
  channel; releasing a device returns; a player whose queue is full plays;
* recorder: what the device captures is in the file, complete and in order, up to
  the limit and no further; no header is lost or used twice; what has been
  committed stays;
* text messages: what is handed up is a message that was sent, whole, once; a
  datagram in the mailbox is read.

## Plan

Order of work, most important first. Parts A and B exist.

A. Events and media delivery

1. `EventChannel`: the abstract FIFO promised by `javacall_events.h`.
2. `EventQueue`: the emulator's queue, step by step, refining `EventChannel`;
   `EventQueueProofs`.
3. `EventRegistry`: queues per subsystem, created on demand, and shutdown.
4. `SlaveRing`: the slave-mode array.
5. `FilterIn`, `FilterOut`: the two ends of the DirectShow graph.

B. Sound and messages

1. `PcmOut` (the mixer) and `RtpPlayer` (its main client), composed in
   `MediaOut` with the synthesizer manager; `MediaOutProofs`.
2. `Recorder`: recording against the wave-in device; `RecorderProofs`.
3. `SmsSegments`, `JsmsMailbox`, `WmaSms`: text messages on Windows CE from
   `javacall_sms_send` to `javanotify_incoming_sms`; `WmaSmsProofs`.

C. Worth adding

1. `MidletList`: slots, pending record and state callbacks of NAMS, against the
   abstract set of running MIDlets with distinct ids.
2. `PlayerTable`: creation and destruction of DirectShow players against their
   callbacks, composed with `FilterOut`.
3. `WmaDatagram`: fragments over UDP.
4. `EventQueue` for two VM instances over named objects, and the argument
   mailbox with its lock.
5. The lock order of `FilterOut` as an invariant of who waits for whom.

Every invariant and every action property that a passing run checks is proved;
liveness is left to the runs (see "What is proved").

## Modules

| Module | Models | Extended or instantiated by |
|---|---|---|
| `EventChannel` | what `javacall_events.h` promises of the queue | `EventQueue` (INSTANCE) |
| `EventQueue` | `win32_emul/midp/events.c` | `MCEventQueue`, `EventQueueProofs` |
| `EventQueueProofs` | TLAPS proofs | |
| `EventRegistry` | `win32_x86_cdc/common/events.c` | `MCEventRegistry`, `EventRegistryProofs` |
| `EventRegistryProofs` | TLAPS proofs | |
| `SlaveRing` | `share/events/events_slave_mode.c` | `MCSlaveRing`, `SlaveRingProofs` |
| `SlaveRingProofs` | TLAPS proofs | |
| `FilterIn` | `dshow/filter_in.cpp` | `MCFilterIn`, `FilterInProofs` |
| `FilterInProofs` | TLAPS proofs | |
| `FilterOut` | `dshow/filter_out.cpp` | `MCFilterOut`, `FilterOutProofs` |
| `FilterOutProofs` | TLAPS proofs | |
| `PcmOut` | `jsr135_mmapi/pcm_out_winapi.c` | `MediaOut` |
| `RtpPlayer` | `jsr135_mmapi/mm_rtp.c` | `MediaOut` |
| `MediaOut` | both together, with the channel of `mm_qsound_audio.c` | `MCMediaOut`, `MediaOutProofs` |
| `MediaOutProofs` | TLAPS proofs | |
| `Recorder` | `jsr135_mmapi/mmrecord.c`, `mmrecord_winapi.c` | `MCRecorder`, `RecorderProofs` |
| `RecorderProofs` | TLAPS proofs | |
| `SmsSegments` | datagrams of `wince/jsr120_wma/sms.cpp` | `JsmsMailbox` |
| `JsmsMailbox` | `wince/jsr120_wma/dll/jsms.cpp` and the receiving thread | `WmaSms` |
| `WmaSms` | sending, the network, reassembly | `MCWmaSms`, `WmaSmsProofs` |
| `WmaSmsProofs` | TLAPS proofs | |

### EventQueue

A thread's program counter names the step it takes next, one access to shared
state each: `s_lock` wait for the mutex, `s_scan` walk to the end of the list,
`s_link` hook the node in, `s_unlock`, `s_set` signal; and for a receive
`r_lock`, `r_copy` and `r_pop` (the two halves of `dequeueEventMessage`),
`r_check` (is `head` NULL), `r_reset`, `r_unlock`, `peek` (the message pump),
`wait`. `SendLockTimeout` and `RecvLockTimeout` are the 500 ms timeouts; they
are possible whenever somebody else holds the mutex, because the model has no
clock. `Dispatch` is a window message found while the receive peeks or sleeps:
its handler calls `javacall_event_send` on the receiving thread, so that thread
goes through the steps of a send and comes back to its message loop.
An event is a record of its sender, its number and its size; only the size of
what a receive copied is kept. `HasBytes` is the test of a send that keeps an empty
event out of the list, where a receive could not tell it from nothing.

History variables record what was linked (`posted`), unlinked (`taken`) and
returned to senders (`accepted`, `refused`).

Left out: initialisation (the queue starts as `javacall_events_init` leaves it),
`javacall_events_finalize`, allocation failure (`enqueueEventMessage` does not
test its pointers, so the process ends there) and a wait with a negative timeout
other than -1, which no caller asks for.

### EventRegistry

A queue is a record in `node`, `list` is the linked list from `eq_list_head`.
What happens under one queue's own mutex is one step here because `EventQueue`
has its interleavings; the search, the second search and the push are separate.
`Create` may fail, and may produce a queue without an event object, because
`create_event_queue` tests `events_mutex` twice. `FinalizeFree` marks queues as
freed: a thread that reads one afterwards goes to `wild`, since what it would
find there is undefined. A mutex that finalize closed keeps its owner, as the
code closes `eq_list_mutex` without releasing it.

### SlaveRing

`slot`, `index` and `size` are the three static variables. `kept` is what the
store should hold and serves the properties. A slot is an event with its number
and length, and one never written is `Vacant`, as in zero-initialised storage.
The newest event comes out first, although the interface speaks of a queue;
`KeptIntact` says that every event kept is there once and claims no order.

### FilterIn

The buffer is its length (`filled`), its allocation and the announced total.
`Round` is the power-of-two rounding of the allocation, which has `Bits` bits as
the code's `nat32`; `WidthAssumption` says that the content, rounded up, fits it,
since otherwise `round` would come out as 0. A reader goes from
`check` (the loop's condition under `data_cs`) to `wait`, or with the lock to
`decide`; `SetUnblock` is the `SetEvent` that follows each change, a separate
step since the change and the signal are not atomic. `pconnected` and `flushing`
change without `data_cs`, so between `check` and `decide` they may differ.
A read does not ask whether the pin is connected. `Connect` calls
`ReceiveConnection` of the parser's pin, during which the parser reads, and stores
the pin only afterwards (`ConnectReturn`); a read that finds the pin not connected
does not wait, and comes back short if its bytes are still to come. It counts as
`disturbed`, and `ShortReadExcused` says that nothing else but a flush, a disconnect
and the end of the content makes a read short.
The parser and the graph manager are Windows components: one reader at a time,
and disconnect only in the stopped state, is how they use the filter.

### FilterOut

The three locks are variables with an owner; a Receive takes `cs_receive`, then
`cs_pin`, then `cs_filter`, and gives the last two up to sleep. Operations that
hold one lock briefly and do not wait inside are one step guarded by that lock.
`GetState` waits with `cs_filter` held, `EnumPins` takes `cs_filter` before
`cs_pin`; both are two steps. `EndOfStream` takes `cs_pin` and then, holding it,
`cs_filter`; under both it calls `playback_finished` (`PlaybackFinished`), which
pauses this filter through the graph if the player had been started.

### PcmOut, RtpPlayer, MediaOut

`PcmOut` is the mixer without its clients. `g_Ch`, `g_ChNum`, `g_hChMutex`,
`g_bMixStopFlag` and `g_hMixThread` are the file's static variables;
`hdrs_free` and `cur_hdr` are fields of a channel, `live` says which channel
blocks are allocated, and `dev` is the device's queue of headers. The mixing
thread (`mix`) goes round `wait` (for the mutex), `scan` (the loop over the
table), `call` (inside the owner's callback, the mutex held), `filled`,
`written` and `release`. A close by the VM thread is `remove` (take the mutex,
shift the table), `drain` (wait for the device to return the headers, then
free) and, for the last channel, `join` (wait for the mixing thread to end).
`WaveOutProc` is the device's callback. A cell beyond the table is kept so that
an index one too high is seen, not undefined.

`RtpPlayer` is the queue of packets with the flags of a player. The callback is
split where it leaves the lock: `CallbackPop` and `CallbackEmpty` are under it,
`CallbackMiss`, `CallbackEnd` and `CallbackRest` after it. `MediaOut` joins them:
an action of a player's device is a step of both modules, and `MixStep` leaves
the callback's part to the owner of the channel. `block` says what each header
holds, a packet's number or silence, and `heard` what the device has played.

Bounds and environment. `MaxPackets` bounds what the VM feeds, `MaxMissing` is
the code's constant, at which its count is kept since nothing tells larger
counts apart. The wait of the last close for the mixing thread ends when the thread
has gone or after a second, and the mutex goes either way; `NoStray` is the
assumption that a thread which outlived that second has seen its stop flag by the
time the next one starts.

Two things are assumed of the surroundings. The device takes every header:
`mixing_thread` ignores the results of `waveOutPrepareHeader` and `waveOutWrite`
(lines 283 and 284) and counts `hdrs_free` down in any case, so that a refused header
is a packet never heard and a close that waits for it without end (line 200);
`HeardInOrder` and `ReleaseReturns` hold for a device that refuses none. And
`rtp_destroy` is called for a player that has released its device: it frees the
player and does not test for an open channel, whose callback would go on using it.

`pcm_out_open_channel` that fails in `waveOutOpen` leaves the mutex in place
when it was the first (`OpenRefused`); the next first open then meets
`assert(NULL == g_hChMutex)` (line 98). The model goes on as the build without
assertions does.

### Recorder

The file is a sequence of cells, each a captured block's number and the place in
it, so that an overwritten, missing or repeated cell shows. `pos` is the position
of the one `FILE` that the recording thread writes through, `commit` seeks to
rewrite the header (`CommitSeek`, `CommitWrite`, two steps) and `read` seeks and
reads some of what follows (`ReadSeek`, `ReadData`); the position stays behind it. `Capture` is the device: it fills the
oldest queued header, marks it done, and sets the event. The thread goes from
`wait` to `fit` (the block is cut to the limit), `write`, `limit` (the end of
media, if the limit is reached) and gives the header back. `session` is what Java
has asked for; the code has no such variable, and stop and resume change little
else, since `toggleAudioCapture` compares with a `g_bCapturing` nothing sets.

`SetLimit` has no guard but the VM's thread being free. The size is raised to that of
the header if it is smaller, but the comparison is with a `sizeof` and therefore
unsigned, so that a negative size passes and becomes a negative limit; and nothing
compares it with `recordLen`, which a close keeps for the next recording. Under a
limit below `recordLen` the thread computes a negative length
(`mmrecord_winapi.c:70`) and `fwrite` takes it for nearly 4 GB. `Taken` is what it
then writes: up to `MaxStray` cells that are no block's, until the write fails. That
the program may instead be stopped there is a behaviour that ends.

History: `captured` counts blocks, `merged` records that the device has set an
event that was set, `relimited` that the limit was set under way, `undercut` that it
was set below `recordLen`. `RecordedInOrder` presupposes none of the three, and
`LimitKept` not the last: they say what the code does keep, and the cases they leave
out are listed at the end of this file.

Bounds: `MaxBlocks` captured, `MaxReads` reads, a recording opened while
`recordLen` is at most `MaxKept`, and `MaxStray`.

### SmsSegments, JsmsMailbox, WmaSms

`SmsSegments` has the datagram: message, reference number, number and index of
the segment, its share of the length, computed as `calc_segments_num` and
`cdma_sms_mulstisegm_encode` do, and its type byte, with the bit that tells of a byte
added to make the number of bytes even (`TypeByte`). Decoding is not its inverse.
In a segment the type byte is read before `fix_zero_back` has put the zero bytes back,
so that for a zero one, ASCII text without the bit, the link of `fix_zero`'s chain is
read instead: the position of the next zero byte, or 255 (`TypeRead`; the constant
`NextZero` says which). The bit in that byte decides how long the header is taken to
be, so the length changes with it (`DecodedLen`, `DecodedType`). Decoding is done in
the mailbox's memory, so a datagram read a second time has its zeros already.
`SmsSegments` also has `fix_zero` and its inverse themselves, on byte sequences; what
the inverse walks through is `Chain`, a recursive function.
`JsmsMailbox` is the transport. The writer (`ProcessMessage`) waits
for the mutex, writes, signals and deletes the message; `WriterTimeout` is its
wait of a second. The reader maps the file, creates the event, and goes round
`wait`, `reset` (the second `ResetEvent`), `lock`, `read`, `unlock`. Before the
reader has mapped the file, what is written is gone with the writer's handle;
before it has created the event, nobody can be signaled. `WmaSms` adds the
sender, with one step for each segment since the sender may fail between two,
the network as a set from which datagrams are taken in any order or never, and
`DecodeAndNotify` with the one message under reassembly, `fullMsg`.

Bounds and environment. One phone sends, so reference numbers of two messages
differ until the counter has gone round, which `RefsDiffer` says and
`HandedUpWhole` presupposes; the network does not duplicate. The
mail client calls its rule client for one message at a time. `overrun` records
that a datagram was written while the reader had still to read for an earlier
signal. `MaxAsked` bounds the calls of `javacall_sms_send`, and `RefSpan` stands for
the 256 reference numbers of two hexadecimal digits. The thread decodes in a view it
has mapped with `FILE_MAP_READ`; the view is taken to be writable all the same,
since with one that is not the thread would end at the first zero byte it puts back.

## Runs

| Run | Instance | What it shows |
|---|---|---|
| `event_queue` | two senders (2 and 1 sends), one VM thread with one nested send, events of size 3 and empty ones, buffers of 2 and 4 | no wake-up lost, FIFO, truthful results, refinement of `EventChannel` with its liveness, a timed receive returns |
| `event_registry` | two callers, one listener, a closer, two subsystems, one call each | one queue per subsystem, found queues are right, no wake-up lost, none created behind the closer |
| `event_registry_shutdown` | the same | violated: a listener sleeps on while its queue is freed |
| `slave_ring` | 3 slots, data size 4, event sizes 1, 3 and 5, buffers 2 and 4, 5 sends | the store holds each event it has kept once, also across the wrap, until a receive is refused |
| `slave_ring_retry` | the same | violated: the retry after a refusal gets another event |
| `filter_in` | one reader, 5 bytes in chunks of 1 to 3, reads of 1 and 3 at any offset, 2 reads at any time, also while the pin is being connected, 2 flushes or disconnects | no sleeping reader, short reads excused, reads return, flush and disconnect release |
| `media_output` | one player and the synthesizer, table of 2, 2 headers each, 2 packets, buffering up to 1, 2 missing before the end | no header filled twice, no freed channel used, table right, packets heard once and in order, a full queue is stuck only by a late callback, releases return |
| `recorder` | 3 headers, blocks of 2 cells, sizes −1, 0, 4 and 9 (cut to 6) or no limit, set at any time, 4 blocks, 1 read, a second recording with up to 2 cells kept | headers accounted for, one left behind only by a merged event, file complete and in order, a limit not below what is recorded is kept |
| `recorder_commit` | 2 headers, 3 blocks | violated: a block is written into the committed file |
| `wma_wince` | 6 messages, 3 of them of 2 segments, 1 of 1, 1 to port 0, 1 too long; any 3 are sent, with 2 reference numbers | a datagram is not stranded, what is handed up has all its segments, once, and all of it if messages come one at a time; length and type as sent unless a segment's type byte is zero |
| `wma_text` | one ASCII text of 151 bytes | violated: it is handed up a byte short and with type 127 |
| `filter_out` | 5 samples or ends of stream, 7 calls of the graph manager | states settle, no sleeping sample, one sample cues, flush and Receive return |

Why these bounds are enough. In the queue a race has a sender that links while
another thread is between two steps: two senders, a receiver and a nested send
give every pair of concurrent steps, and one sender with two sends adds order
within a thread and a list of length three. Size 3 against buffers 2 and 4 has a
cut and an uncut event, and size 0 the one a send must refuse. The registry needs two threads that create the same
queue, a third that names another subsystem so that the head of the list moves
between the two searches, and the closer. Three slots with five sends wrap the
index both ways. Five bytes in chunks up to 3 with reads of 3 at all offsets
contain reads that start below, at and beyond the end and a growth of the buffer
through several powers of two. Seven calls are the longest scenario of interest
in the sink: pause, cue, run, pause, flush, end flush, stop.

In `media_output` a second channel is what makes the table shift under the loop,
two headers make the ring wrap, and two packets against a buffer of one bring a
player from buffering to playing, empty again, and to the end of media. In
`recorder` the size 4, less the header, cuts a block; 9 is itself cut to the
largest; 0 is raised to the header and leaves no room; −1 becomes a negative limit.
Four blocks through three headers use a header again and merge two events, and a
second recording that starts with one or two cells counted meets limits below and
above them. In `wma_wince` the length 121 is the last that fits a single datagram,
151 and 153 are two segments of which the last has an odd share (as ASCII text the
first loses a byte, as binary the second does not), 232 is exactly two segments of 116,
and 349 one byte more than three, which is refused before anything is sent. Three
messages of two segments give every mix of their segments, losses included, and with
two reference numbers the third message has the number of the first.

Deadlock is checked in `media_output` and `recorder`, where the VM can always
make another call. It is off elsewhere: with the sends, reads, calls or messages
used up, a receiver that waits forever is where the system may stop.

`MCWmaSms` also has two assumptions that TLC evaluates: the shares of all
segments add up to the message for every length up to 400, and `FixZeroBack`
undoes `FixZero`, which leaves no zero, for all sequences up to five bytes.

### Fairness

Spec never assumes fairness; FairSpec is used by the liveness properties.

* `EventQueue`: each thread inside a call goes on (Windows schedules runnable
  threads), and the VM's event loop calls receive again. Nobody is obliged to
  send. Mutex waits end after 500 ms either with the mutex or without.
* `FilterIn`: a call once begun goes on. Nobody is obliged to deliver data or
  to flush.
* `FilterOut`: calls go on; weak fairness for the graph manager's second steps.
  A Receive takes locks that others hold again and again but briefly, so its
  steps are strongly fair: critical sections are given up in bounded time and
  Windows wakes a waiting thread. `ReceiveShow` is strongly fair because a sample
  that is early is looked at again every millisecond and the clock moves on.

* `MediaOut`: an open that has begun returns and a close goes on once it has the
  mutex (the VM's thread runs), mixing threads run, and the device plays what is
  queued: weak fairness. `ReleaseRemove` is strongly fair, because the mixing
  thread holds the mutex again and again, but gives it up each round and sleeps,
  and Windows grants it to a thread that waits. Nobody is obliged to feed, to
  start or to release.

`Recorder` and `WmaSms` have no liveness property. In the recorder the thread
polls with a timeout and a header that was left behind waits for the next block,
which may never come; in the mailbox a datagram may be overwritten. What must not
be lost is stated as the invariants `LeftBehindOnlyByMerge` and `NotStranded`.

## What is proved

TLAPS proves the following for any constants that satisfy the modules' named
assumptions (senders and receivers are disjoint sets, sizes are positive
numbers, limits are integers, message types fit seven bits, bounds are natural
numbers).

`EventQueueProofs`

* `TypeCorrect`: `Spec => []TypeOK`
* `WakeupNeverLost`: `Spec => []NoLostWakeup`
* `FirstInFirstOut`: `Spec => []InOrder`
* `ResultsAreTrue`: `Spec => []SendResultTruthful`
* `QueueImplementsChannel`: `Spec => Channel!Safety`

They rest on `IInv`, which is `TypeInv /\ MutualExclusion /\ ReadsStayTrue`.
`NoLostWakeup` alone is not inductive: a receiver about to reset the event
(`r_reset`) must know that the list is *still* empty, a fact it read one step
before. `ReadsStayTrue` says so, and the same of the two other reads a thread
acts on later (the tail a sender has walked to, the size a receiver has
copied). These facts are stable only because nobody else is between lock and
unlock, which is `MutualExclusion`: the owner of the mutex is exactly the thread
whose program counter is in the critical section. `TypeInv` adds to `TypeOK`
that a thread inside a call has arguments in range, so what it links is an
event. The order theorem and the refinement both use two lemmas, `LinkAppends`
and `PopTakesHead`: with `ReadsStayTrue` a link is an `Append` and a pop takes
the head with the right size; every other step leaves list and history alone
(`ListUnchanged`). `ResultsAreTrue` adds to `IInv` that a sender's events carry
numbers up to its count (`Numbered`), so that the event it has in hand is not one
of those it has been told about, and that a thread past `s_link` has its event
among those linked (`InHandIsLinked`).

`EventRegistryProofs`

* `TypeCorrect`: `Spec => []TypeOK`
* `OneQueue`: `Spec => []OneQueuePerSubsystem`
* `RightQueue`: `Spec => []FoundQueueIsRight`
* `NoneBehindCloser`: `Spec => NoQueueAfterClose`
* `WakeupNeverLost`: `Spec => []NoLostWakeup`

`OneQueuePerSubsystem` is preserved by `Create` only if the creating thread knows
that no queue of its subsystem exists *now*, although it may last have looked
before it had the lock. `IInv` carries that knowledge: `Shape` says that the list
holds every queue ever made, newest first, so a saved head stands for all queues
numbered up to it; `Absent` says that a thread which found nothing knows this of
the queues up to its `saved_head`, and of all queues once it has compared the
heads under the lock; `ListMutex` says that nobody pushes in between, nor after
the closer has the lock. `Found` keeps the queue a thread has in hand. The
wake-up theorem adds `ClosedForGood` (a closed queue stays closed, and only
closed queues are freed), which is what lets an unlock or a `SetEvent` on a
closed handle fail without a promise being broken; its step lemma shows for each
action that it touches one queue, its own (`OwnQueueOnly`).

`SlaveRingProofs`

* `TypeCorrect`: `Spec => []TypeOK`
* `EventsKept`: `Spec => []KeptIntact`

`BelowAfterUp` says that moving the index up shifts every slot below it by one
place, for an array of any size, across the wrap as well, and the pop is the
converse (`BelowAfterDown`). `KeptIsOld` (no event kept is younger than the last one
sent) is needed for a new event to differ from all that are there.

`FilterInProofs`

* `ReadNeverSleepsOn`: `Spec => []NoSleepingRead`
* `ShortReadsExcused`: `Spec => ShortReadExcused`
* `ContentFits`: `Spec => []TypeOK`

The first needs that one reader at most is in a read (`OneReader`), since the
event is auto-reset and one waiter consumes it. The second adds that a read not
marked as disturbed sees no flush (`Undisturbed`); since a test that finds the pin
not connected marks it, such a read can only have left the wait because its bytes are
there or lie beyond the end (`WaitIsOver`); bytes in the buffer are never taken back.
`ContentFits` rests on `RoundEnough`, that the rounded allocation is as large as
what was asked for. This is about the least of a set of powers of two; induction
being out of reach, `LeastNumber` gets it from the well-foundedness of `<` on the
naturals (`WFMin` of the library), and `WidthAssumption` says that the set is not
empty.

`FilterOutProofs`

* `TypeCorrect`: `Spec => []TypeOK`
* `StatesSettle`: `Spec => []StateSettles`
* `SampleLetGo`: `Spec => []NoSleepingReceive`
* `OneCue`: `Spec => []OneSampleCues`

They are proved together as `Settled`. To `StateSettles` and `NoSleepingReceive`
it adds that a filter which flushes has `event_flushing` set (`FlushIsSignaled`;
the code never resets it) and that no sample has been shown while a cue is due
(`CueIsFirst`).

`MediaOutProofs`

* `TypeCorrect`: `Spec => []TypeOK`
* `FillsIdle`: `Spec => []FillsIdleHeader`
* `WorksOnOpen`: `Spec => []WorksOnOpenChannel`
* `TableRight`: `Spec => []TableListsOpenChannels`
* `StuckOnlyLate`: `Spec => []StuckOnlyByLateCallback`
* `HeardRight`: `Spec => []HeardInOrder`

The mixer's part is one inductive invariant, `PcmInv`. `Ring` says that the
headers queued in the device are the consecutive ones before `cur_hdr`, and
`Counts` that free headers, queued headers and the one between the write and the
count add up to `HDRS_COUNT`; together they make the next header idle whenever
one is free. `Threads` says that there is one mixing thread, which has the
mutex while it works unless it has been told to stop and nothing is open
(`Quiet`), `InHands` that the channel it has in hand is in the table, and
`VmPlaces` what the VM thread knows at each point of an open and a close. That
the table stays right over a shift is arithmetic on positions in
`[0..MaxChannels -> ...]`. `PlayerInv` is about the players alone: it says that a
queue which holds enough ends the buffering, so only a callback can begin it again.
`FlowInv` follows a packet through everything: heard, queued in the device, in the
header the mixing thread has just filled, in the queue. The order is right over
each of these steps because the header that is filled next is idle
(`IdleHeaderFilled`, from `Ring`): filling a queued one would change what is
already in line. `ClosedSilent` and `Owners` say that the device holds nothing of a
channel that is not open and that an open channel of a player is the one it has
acquired, so that a release and a new acquisition do not mix two streams.

`RecorderProofs`

* `TypeCorrect`: `Spec => []TypeOK`
* `NoHeaderLost`: `Spec => []HeadersAccounted`
* `OneForEachEvent`: `Spec => []LeftBehindOnlyByMerge`
* `RecordingWithinLimit`: `Spec => []LimitKept`
* `InOrder`: `Spec => []RecordedInOrder`

`TypeCorrect` holds for limits of any kind: what the thread has to write is never more
than a block, though it may be negative (`TakenType`), and the position never lies
beyond the end of the file. `Inv` adds to `TypeOK` and `HeadersAccounted` the
conjuncts `Lifetimes` (there is a thread only while the recorder is open), `HandFits`
(unless the limit is below what was recorded when it was set, the block in the
thread's hand fits under it, or fitted under the limit before it; the test and the
write are two steps, and a block over the limit ends the recording) and
`EventForEach`: without a merged event the full headers are at most one for the event
and one for the thread's hand.
`OrderInv` adds what makes the next block to be written the next one captured
(`InTurn(k)`: `k` blocks are in the file, and as long as nothing has merged the
full headers hold those after `k`), and that the last block alone is shorter, cut
where the limit falls. Positions are compared through quotient and remainder by
the block length, which the lemmas before it do once for all.

`WmaSmsProofs`

* `TypeCorrect`: `Spec => []TypeOK`
* `SignaledIsRead`: `Spec => []NotStranded`
* `OneInSection`: the rule client and the receiving thread are never both inside
  the section of `jsms_mutex`

`Inv` is `MailboxInv /\ SenderOK /\ ReceiverOK`. The second `ResetEvent` could only
lose the signal of a datagram that the thread does not read afterwards; since it
comes before the lock, whatever was signaled has been written and will be read.
`Sections` ties the mutex to the two sides' places; `OneInSection` states the mutual
exclusion that follows. `ReceiverOK` says that a message under reassembly
still lacks a segment, so its count never passes zero unseen.

* `WholeMessages`: `Spec => []HandedUpWhole`
* `InTurnAll`: `Spec => []HandedUpInTurn`
* `EveryByteOnce`: each byte of a message is in exactly one of its segments, and
  none is empty or larger than a datagram holds, for every length
* `ZerosComeBack`: `FixZero` leaves no zero byte, and `FixZeroBack` restores every
  byte but the free one, for every datagram shorter than `EndOfChain`

The reassembly counts segments and never asks whether it has this one already, so
that the count is right only if no datagram is read twice and none of another
message is taken in. `Travel` says so of the way to the receiver: until the mailbox
is overrun a datagram is in one place only, the air, the slot or among those read
(`Once`), and as long as the reference numbers have not come round no two messages
share one (`OwnRef`). `Received` says what the reassembly makes of it: either no
message is in hand (`Closed`), or one is (`Open(m)`) whose segments in the buffer
are those counted and whose length so far is theirs (`Begun`), and of the others
only messages that have been read in full have left anything in the buffer
(`Others`). The length handed up is the sum of what the segments were decoded to, and
`DecodedAsSent` shows for one segment that this is its share, and the type its type,
unless its type byte is zero and the zeros have not been put back; `TypeKept`, in
`IsWhole`, excludes just that. Why the buffer matters: the buffer is never cleared, so old
segments stay in it and must not be mistaken for new ones. `HandedUpInTurn` needs no
`RefsDiffer`, because two messages with the same number are never in hand at once
when messages are read one at a time.

`EveryByteOnce` is arithmetic of quotients. In `ZerosComeBack` the chain is a
function defined by recursion on the number of steps; that it exists (`Iterates`)
and that it passes through every zero and through nothing else are shown for a
least number of steps for which they would fail (`LeastNumber`).

Only model-checked are the liveness properties `TimedReceiveReturns`,
`ReadReturns`, `ReadersReleased`, `FlushReturns`, `ReceiveReturns` and
`ReleaseReturns` (leads-to formulas under fairness and `ENABLED` are outside the
prover) and the fairness half of `ImplementsChannel`. Every invariant and every
action property of the passing runs is proved. The library's induction theorems
cannot be used with these provers, so each statement about a recursive definition is
shown by a least counterexample instead; no module declares a RECURSIVE operator.

## Where the code and its comments disagree

* `win32_emul/midp/events.c:301` and `interface/common/javacall_events.h:76`
  promise `JAVACALL_OUT_OF_MEMORY` for an event longer than the buffer; the code
  returns `JAVACALL_OK` and frees the rest (`events.c:228`). No run shows it: the
  abstract channel cuts as silently as the code (`Shorter`).
* `win32_x86_cdc/common/events.c:130` gives "time for receiving errors" before
  queues are freed; closing the handle a thread waits on wakes nobody
  (`event_registry_shutdown`).
* `share/events/events_slave_mode.c:97` keeps an event that did not fit "so that
  client code can re-invoke with bigger buffer"; the index has already moved
  (`slave_ring_retry`). `KeptIntact` is stated up to that point.
* `share/events/events_slave_mode.c:112` and `interface/common/javacall_events.h:98`
  speak of a queue of messages; the store hands out the newest event first.
  `KeptIntact` therefore says nothing of the order.
* `interface/jsr135_mmapi/javacall_multimedia.h:1697` says of a size of −1 that "the
  record size limit should be removed"; the code makes a negative limit of it
  (`mmrecord.c:233`), and the first block is then written with a negative length.
* `interface/jsr135_mmapi/javacall_multimedia.h:1783` says of commit "The recording
  should be completed"; the device has not been stopped, and later blocks go to
  where the rewriting of the header has left the file position
  (`recorder_commit`). `RecordedInOrder` is stated up to the commit.
* `wince/jsr120_wma/sms.cpp:275` says that "the original byte array can be easily
  restored", and `interface/jsr120_wma/javacall_sms.h:228` and `:239` that the callback
  is given the message's type and the length of its payload. `cdma_sms_decode` reads
  the type byte of a segment before it restores the zeros (line 436): an ASCII text in
  segments with an odd share is handed up a byte short for each such segment, and, if
  such a segment comes last, with a type nobody sent (`wma_text`). `HandedUpWhole` and
  `HandedUpInTurn` demand the length and the type of all other messages.

Further observations are part of the models rather than findings, since the
repository does not speak of them:

* sink filter: `EnumPins` and `Receive` take two locks in opposite order, and
  `GetState(INFINITE)` holds the lock that the cueing sample needs (`LockedOut` in
  `FilterOut`); `event_flushing` is never reset, so after a first flush no sample is
  held by a pause;
* RTP player: buffering ends when the queue length *equals* `BUFFER_PACKETS`; a
  callback that announces buffering over a full queue leaves the player buffering
  for good (`late`, `StuckOnlyByLateCallback`); the end of media clears `playing`
  after it has notified, so that a start in between is lost;
* synthesizer manager: its callback may run before `gmInit` has stored the channel
  (`mm_qsound_audio.c:680`);
* source filter: the parser reads while `Connect` has not stored it yet
  (`filter_in.cpp:444`), and such reads do not wait for what is still to come;
* recorder: close keeps `recordLen` and `rsl`, so the next recording starts with
  them, and a limit set below that `recordLen` makes the length of its first block
  negative (`mmrecord_winapi.c:70`, `undercut`); a resumed start answers `JAVACALL_FAIL`; reset is empty, although the header
  has it clear the recording; calls inside `assert` (`mmrecord.c:271`, `:388`) vanish
  in a build without assertions, which the model is not of; a limit set while a cut
  block is in the thread's hand is the reason for `relimited`;
* text messages: `fix_zero_back` writes through a view mapped for reading; a lost
  segment blocks the reassembly of later messages with other reference numbers
  (`HandedUpInTurn` is about messages that come in turn); a datagram written over an
  unread one is read twice and counted twice (`overrun`).

## What is not modelled

See the notes in `PROJECT.json`. In short: code that is a wrapper around one
operating-system call, code that computes on strings or pixels, vendored code,
the stub platform, and the components of part C above that are still to come.
In the sound modules volume, mute, media time and sample formats are left out,
since no packet or block depends on them, and of `gmInit` the ids of isolates; the
DirectSound variants of the mixer and the recorder are not compiled unless
`pcm_out.h` and `mmrecord.h` are changed. In the messages, phone numbers, time
stamps, the receiving thread compiled only with `USE_DEPRECATED_SMS_RECEIVE_API`
and the COM factory of the rule client are left out.
The suite database of NAMS is left out because in the win32 build it cannot be
read at all: it opens with `_open` and reads through functions that take a
Windows handle.

----------------------------- MODULE EventRegistry -----------------------------
(***************************************************************************)
(* The per-subsystem event queues of the CDC port                          *)
(* (src/implementation/win32_x86_cdc/common/events.c).  A queue is created *)
(* by the first send or receive that names its subsystem: find_event_queue *)
(* searches the list without a lock, then takes eq_list_mutex, searches    *)
(* again if the head has moved, and pushes a new queue in front.           *)
(* javacall_events_finalize closes everything and frees it 500 ms later,   *)
(* without asking who is still inside a call.                              *)
(*                                                                         *)
(* EventQueue models the body of a send and a receive step by step; here   *)
(* what happens under a queue's own mutex is one step.                     *)
(***************************************************************************)
EXTENDS Integers, Sequences, FiniteSets

CONSTANTS
  Callers,     \* threads that call javacall_event_send_cvm
  Listeners,   \* threads that call javacall_event_receive_cvm
  Closer,      \* the thread that calls javacall_events_finalize
  Subsystems,  \* queue ids (JSR numbers)
  MaxCalls,    \* bound: calls per thread
  Nobody

ASSUME RegistryAssumption ==
  /\ Callers \cap Listeners = {}
  /\ Closer \notin Callers \cup Listeners
  /\ Nobody \notin Callers \cup Listeners \cup {Closer}
  /\ Subsystems # {}
  /\ MaxCalls \in Nat

Threads == Callers \cup Listeners

None == 0   \* a NULL EventQueue pointer

VARIABLES
  listOpen,   \* eq_list_mutex is not NULL
  listOwner,  \* who owns the mutex behind it
  list,       \* queues from eq_list_head on
  node,       \* node[q]: the EventQueue allocated q-th
  pc, id,     \* id[t]: the subsystem t's call names
  saved,      \* saved[t]: saved_head
  q,          \* q[t]: the queue t has found
  calls,      \* history: calls t has begun
  closing     \* where javacall_events_finalize is

tvars == <<pc, id, saved, q, calls>>
vars == <<listOpen, listOwner, list, node, pc, id, saved, q, calls, closing>>

-----------------------------------------------------------------------------
Init ==
  /\ listOpen = TRUE
  /\ listOwner = Nobody
  /\ list = << >>
  /\ node = << >>
  /\ pc = [t \in Threads |-> "idle"]
  /\ id \in [Threads -> {CHOOSE s \in Subsystems : TRUE}]
  /\ saved = [t \in Threads |-> None]
  /\ q = [t \in Threads |-> None]
  /\ calls = [t \in Threads |-> 0]
  /\ closing = "no"

ListHead == IF list = << >> THEN None ELSE Head(list)

(* Mutated form: any queue will do.                                        *)
SearchAny(s) == ListHead

(* The first queue of the list for subsystem s, or NULL.                   *)
Search(s) ==
  LET hits == {i \in 1..Len(list) : node[list[i]].id = s}
  IN  IF hits = {} THEN None ELSE list[CHOOSE i \in hits : \A j \in hits : i <= j]

(* create_event_queue tests the wrong handle after CreateEvent, so a queue *)
(* can come out without an event (hasEvent = FALSE).                       *)
NewQueue(s, e) == [id |-> s, open |-> TRUE, hasEvent |-> e, closing |-> FALSE,
                   freed |-> FALSE, owner |-> Nobody, signaled |-> FALSE, events |-> 0]

Goto(t, l) == pc' = [pc EXCEPT ![t] = l]

Leave(t) == /\ Goto(t, "idle")
            /\ q' = [q EXCEPT ![t] = None]
            /\ saved' = [saved EXCEPT ![t] = None]

(* With a queue in hand a caller or a listener goes on to lock it.         *)
Begin(t) ==
  /\ pc[t] = "idle"
  /\ calls[t] < MaxCalls
  /\ calls' = [calls EXCEPT ![t] = @ + 1]
  /\ \E s \in Subsystems : id' = [id EXCEPT ![t] = s]
  /\ Goto(t, "save")
  /\ UNCHANGED <<listOpen, listOwner, list, node, saved, q, closing>>

-----------------------------------------------------------------------------
(* find_event_queue                                                        *)

SaveHead(t) ==
  /\ pc[t] = "save"
  /\ saved' = [saved EXCEPT ![t] = ListHead]
  /\ Goto(t, "search")
  /\ UNCHANGED <<listOpen, listOwner, list, node, id, q, calls, closing>>

(* The unlocked search; it reads eq_list_head a second time.               *)
SearchUnlocked(t) ==
  /\ pc[t] = "search"
  /\ closing # "freed" \/ list = << >>
  /\ q' = [q EXCEPT ![t] = Search(id[t])]
  /\ Goto(t, IF Search(id[t]) = None THEN "listLock" ELSE "lock")
  /\ UNCHANGED <<listOpen, listOwner, list, node, id, saved, calls, closing>>

ListLock(t) ==
  /\ pc[t] = "listLock"
  /\ listOpen /\ listOwner = Nobody
  /\ listOwner' = t
  /\ Goto(t, "recheck")
  /\ UNCHANGED <<listOpen, list, node, id, saved, q, calls, closing>>

(* The mutex is taken for a second, or its handle is gone.                 *)
ListLockFails(t) ==
  /\ pc[t] = "listLock"
  /\ ~listOpen \/ listOwner # Nobody
  /\ Leave(t)
  /\ UNCHANGED <<listOpen, listOwner, list, node, id, calls, closing>>

(* Mutated form: the list is not searched again under the lock.            *)
RecheckNot(t) ==
  /\ pc[t] = "recheck"
  /\ Goto(t, "create")
  /\ UNCHANGED <<listOpen, listOwner, list, node, id, saved, q, calls, closing>>

(* Search again, but only if somebody pushed a queue meanwhile.            *)
Recheck(t) ==
  /\ pc[t] = "recheck"
  /\ \/ /\ saved[t] # ListHead
        /\ q' = [q EXCEPT ![t] = Search(id[t])]
        /\ Goto(t, IF Search(id[t]) = None THEN "create" ELSE "listUnlock")
     \/ /\ saved[t] = ListHead
        /\ Goto(t, "create")
        /\ UNCHANGED q
  /\ UNCHANGED <<listOpen, listOwner, list, node, id, saved, calls, closing>>

(* create_event_queue, then the push; no memory or no handle: NULL.        *)
Create(t) ==
  /\ pc[t] = "create"
  /\ \/ /\ \E e \in BOOLEAN : node' = Append(node, NewQueue(id[t], e))
        /\ list' = <<Len(node) + 1>> \o list
        /\ q' = [q EXCEPT ![t] = Len(node) + 1]
        /\ Goto(t, "listUnlock")
        /\ UNCHANGED <<listOwner, saved>>
     \/ /\ listOwner' = Nobody
        /\ Leave(t)
        /\ UNCHANGED <<node, list>>
  /\ UNCHANGED <<listOpen, id, calls, closing>>

ListUnlock(t) ==
  /\ pc[t] = "listUnlock"
  /\ listOwner' = Nobody
  /\ Goto(t, "lock")
  /\ UNCHANGED <<listOpen, list, node, id, saved, q, calls, closing>>

-----------------------------------------------------------------------------
(* javacall_event_send_cvm and javacall_event_receive_cvm                  *)

(* Where a call reads the queue it has found.                              *)
Derefs == {"lock", "locked", "body", "unlock", "set", "enterWait", "asleep"}

Mine(t) == node[q[t]]

QueueLock(t) ==
  /\ pc[t] = "lock"
  /\ Mine(t).open /\ Mine(t).owner = Nobody
  /\ node' = [node EXCEPT ![q[t]].owner = t]
  /\ Goto(t, "locked")
  /\ UNCHANGED <<listOpen, listOwner, list, id, saved, q, calls, closing>>

(* MUTEX_TIMEOUT, or the handle was closed.  A sender gives up; a receiver *)
(* gives up if the queue is closing and else goes on to wait for the event.*)
QueueLockFails(t) ==
  /\ pc[t] = "lock"
  /\ ~Mine(t).freed
  /\ ~Mine(t).open \/ Mine(t).owner # Nobody
  /\ \/ /\ t \in Callers \/ Mine(t).closing
        /\ Leave(t)
     \/ /\ t \in Listeners /\ ~Mine(t).closing
        /\ Goto(t, "enterWait")
        /\ UNCHANGED <<q, saved>>
  /\ UNCHANGED <<listOpen, listOwner, list, node, id, calls, closing>>

(* The early return for a closing queue does not give the mutex back.      *)
TestClosing(t) ==
  /\ pc[t] = "locked"
  /\ ~Mine(t).freed
  /\ \/ /\ Mine(t).closing
        /\ Leave(t)
     \/ /\ ~Mine(t).closing
        /\ Goto(t, "body")
        /\ UNCHANGED <<q, saved>>
  /\ UNCHANGED <<listOpen, listOwner, list, node, id, calls, closing>>

(* enqueueEventMessage; without memory it drops the event and says nothing.*)
Enqueue(t) ==
  /\ t \in Callers
  /\ pc[t] = "body"
  /\ ~Mine(t).freed
  /\ UNCHANGED node \/ node' = [node EXCEPT ![q[t]].events = @ + 1]
  /\ Goto(t, "unlock")
  /\ UNCHANGED <<listOpen, listOwner, list, id, saved, q, calls, closing>>

(* Mutated form: the event is reset by every receive.                      *)
DequeueReset(t) ==
  /\ t \in Listeners
  /\ pc[t] = "body"
  /\ ~Mine(t).freed
  /\ LET n == Mine(t).events
     IN  /\ node' = [node EXCEPT ![q[t]].events = IF n = 0 THEN 0 ELSE n - 1,
                                 ![q[t]].signaled = FALSE]
         /\ Goto(t, IF n = 0 THEN "unlockWait" ELSE "unlock")
  /\ UNCHANGED <<listOpen, listOwner, list, id, saved, q, calls, closing>>

(* Mutated form: an empty list is not told from one with an event.         *)
DequeueUnchecked(t) ==
  /\ t \in Listeners
  /\ pc[t] = "body"
  /\ ~Mine(t).freed
  /\ node' = [node EXCEPT ![q[t]].events = @ - 1,
                          ![q[t]].signaled = @ /\ Mine(t).events > 1]
  /\ Goto(t, "unlock")
  /\ UNCHANGED <<listOpen, listOwner, list, id, saved, q, calls, closing>>

(* dequeueEventMessage, and ResetEvent if that left the queue empty.       *)
Dequeue(t) ==
  /\ t \in Listeners
  /\ pc[t] = "body"
  /\ ~Mine(t).freed
  /\ LET n == Mine(t).events
     IN  /\ node' = [node EXCEPT ![q[t]].events = IF n = 0 THEN 0 ELSE n - 1,
                                 ![q[t]].signaled = @ /\ n > 1]
         /\ Goto(t, IF n = 0 THEN "unlockWait" ELSE "unlock")
  /\ UNCHANGED <<listOpen, listOwner, list, id, saved, q, calls, closing>>

(* ReleaseMutex fails, and with it the call, if finalize has come between. *)
QueueUnlock(t) ==
  /\ pc[t] \in {"unlock", "unlockWait"}
  /\ ~Mine(t).freed
  /\ node' = [node EXCEPT ![q[t]].owner = IF Mine(t).open THEN Nobody ELSE @]
  /\ \/ /\ pc[t] = "unlockWait"
        /\ Goto(t, "enterWait")
        /\ UNCHANGED <<q, saved>>
     \/ /\ pc[t] = "unlock" /\ t \in Callers /\ Mine(t).open
        /\ Goto(t, "set")
        /\ UNCHANGED <<q, saved>>
     \/ /\ pc[t] = "unlock" /\ (t \in Listeners \/ ~Mine(t).open)
        /\ Leave(t)
  /\ UNCHANGED <<listOpen, listOwner, list, id, calls, closing>>

(* SetEvent, which needs a handle to do anything.                          *)
SendSet(t) ==
  /\ pc[t] = "set"
  /\ ~Mine(t).freed
  /\ node' = [node EXCEPT ![q[t]].signaled = @ \/ (Mine(t).open /\ Mine(t).hasEvent)]
  /\ Leave(t)
  /\ UNCHANGED <<listOpen, listOwner, list, id, calls, closing>>

(* checkForEvents(q, -1) waits without limit on the handle it reads here,  *)
(* unless that is already closed and the wait fails.                       *)
EnterWait(t) ==
  /\ pc[t] = "enterWait"
  /\ ~Mine(t).freed
  /\ \/ /\ Mine(t).open
        /\ Goto(t, "asleep")
        /\ UNCHANGED <<q, saved>>
     \/ /\ ~Mine(t).open
        /\ Leave(t)
  /\ UNCHANGED <<listOpen, listOwner, list, node, id, calls, closing>>

WakeUp(t) ==
  /\ pc[t] = "asleep"
  /\ Mine(t).open /\ Mine(t).signaled
  /\ Goto(t, "lock")
  /\ UNCHANGED <<listOpen, listOwner, list, node, id, saved, q, calls, closing>>

(* WM_QUIT ends the wait and the receive; so does any window message once  *)
(* the queue is closing.                                                   *)
WaitQuit(t) ==
  /\ pc[t] = "asleep"
  /\ ~Mine(t).freed
  /\ Leave(t)
  /\ UNCHANGED <<listOpen, listOwner, list, node, id, calls, closing>>

(* A queue read after it was freed: undefined, the thread is not followed  *)
(* any further.                                                            *)
ReadFreed(t) ==
  /\ \/ pc[t] \in Derefs \cup {"unlockWait"} /\ Mine(t).freed
     \/ pc[t] = "search" /\ closing = "freed" /\ list # << >>
  /\ Goto(t, "wild")
  /\ UNCHANGED <<listOpen, listOwner, list, node, id, saved, q, calls, closing>>

-----------------------------------------------------------------------------
(* javacall_events_finalize                                                *)

FinalizeLock ==
  /\ closing = "no"
  /\ listOwner = Nobody
  /\ listOwner' = Closer
  /\ closing' = "locked"
  /\ UNCHANGED <<listOpen, list, node, tvars>>

(* MUTEX_TIMEOUT: finalize fails and the queues stay.                      *)
FinalizeLockTimeout ==
  /\ closing = "no"
  /\ listOwner # Nobody
  /\ closing' = "failed"
  /\ UNCHANGED <<listOpen, listOwner, list, node, tvars>>

(* Mutated form: the list mutex is given back before its handle is closed. *)
FinalizeCloseReleased ==
  /\ closing = "locked"
  /\ node' = [n \in 1..Len(node) |-> [node[n] EXCEPT !.closing = TRUE, !.open = FALSE]]
  /\ listOwner' = Nobody
  /\ closing' = "closed"
  /\ UNCHANGED <<listOpen, list, tvars>>

FinalizeClose ==
  /\ closing = "locked"
  /\ node' = [n \in 1..Len(node) |-> [node[n] EXCEPT !.closing = TRUE, !.open = FALSE]]
  /\ listOpen' = FALSE
  /\ closing' = "closed"
  /\ UNCHANGED <<listOwner, list, tvars>>

(* After Sleep(500) the queues are freed, but eq_list_head still points to *)
(* them.                                                                   *)
FinalizeFree ==
  /\ closing = "closed"
  /\ node' = [n \in 1..Len(node) |-> [node[n] EXCEPT !.freed = TRUE, !.events = 0]]
  /\ closing' = "freed"
  /\ UNCHANGED <<listOpen, listOwner, list, tvars>>

-----------------------------------------------------------------------------
Step(t) == \/ Begin(t)
           \/ SaveHead(t) \/ SearchUnlocked(t) \/ ListLock(t) \/ ListLockFails(t)
           \/ Recheck(t) \/ Create(t) \/ ListUnlock(t)
           \/ QueueLock(t) \/ QueueLockFails(t) \/ TestClosing(t)
           \/ Enqueue(t) \/ Dequeue(t) \/ QueueUnlock(t) \/ SendSet(t)
           \/ EnterWait(t) \/ WakeUp(t) \/ WaitQuit(t) \/ ReadFreed(t)

Finalize == FinalizeLock \/ FinalizeLockTimeout \/ FinalizeClose \/ FinalizeFree

Next == (\E t \in Threads : Step(t)) \/ Finalize

Spec == Init /\ [][Next]_vars

-----------------------------------------------------------------------------
Nodes == 1..Len(node)

(* The registry stays well-formed.                                         *)
TypeOK ==
  /\ listOpen \in BOOLEAN
  /\ listOwner \in Threads \cup {Closer, Nobody}
  /\ list \in Seq(Nat \ {0})
  /\ \A i \in 1..Len(list) : list[i] \in Nodes
  /\ node \in Seq([id : Subsystems, open : BOOLEAN, hasEvent : BOOLEAN,
                   closing : BOOLEAN, freed : BOOLEAN,
                   owner : Threads \cup {Nobody}, signaled : BOOLEAN, events : Nat])
  /\ pc \in [Threads -> {"idle", "save", "search", "listLock", "recheck", "create",
                         "listUnlock", "unlockWait", "wild"} \cup Derefs]
  /\ id \in [Threads -> Subsystems]
  /\ saved \in [Threads -> Nodes \cup {None}]
  /\ q \in [Threads -> Nodes \cup {None}]
  /\ calls \in [Threads -> 0..MaxCalls]
  /\ closing \in {"no", "locked", "failed", "closed", "freed"}

(* The double-checked search never lets two threads create a queue for one *)
(* subsystem: events would be sent to one and awaited on the other.        *)
OneQueuePerSubsystem ==
  \A m, n \in Nodes : node[m].id = node[n].id => m = n

(* A caller works on the queue of the subsystem it named, in the list.     *)
FoundQueueIsRight ==
  \A t \in Threads : pc[t] \in Derefs =>
    /\ q[t] # None
    /\ node[q[t]].id = id[t]
    /\ \E i \in 1..Len(list) : list[i] = q[t]

(* No lost wakeup on any queue that came out with an event object.         *)
NoLostWakeup ==
  \A n \in Nodes : node[n].hasEvent /\ node[n].open /\ node[n].events > 0 =>
    \/ node[n].signaled
    \/ \E t \in Callers : q[t] = n /\ pc[t] \in {"unlock", "set"}

(* "try to set the lock to prevent creating new queues" (events.c:112).    *)
NoQueueAfterClose ==
  [][(closing \in {"closed", "freed"}) => Len(node') = Len(node)]_vars

(* "give time for receiving errors" (events.c:130): once the queues are    *)
(* freed no listener is still inside its wait for one of them.             *)
ErrorsReceivedInTime ==
  closing = "freed" => \A t \in Listeners : pc[t] # "asleep"
=============================================================================

-------------------------- MODULE EventRegistryProofs --------------------------
(***************************************************************************)
(* Proofs about EventRegistry for any number of threads, subsystems and    *)
(* calls: the double-checked search is right.                              *)
(***************************************************************************)
EXTENDS EventRegistry, TLAPS

Queues == [id : Subsystems, open : BOOLEAN, hasEvent : BOOLEAN,
           closing : BOOLEAN, freed : BOOLEAN,
           owner : Threads \cup {Nobody}, signaled : BOOLEAN, events : Nat]

(* Where a thread is between finding its queue and leaving the call.       *)
HasQueue == Derefs \cup {"listUnlock", "unlockWait"}

OwnsList == {"recheck", "create", "listUnlock"}

Types == /\ node \in Seq(Queues)
         /\ pc \in [Threads -> {"idle", "save", "search", "listLock", "recheck",
                                "create", "listUnlock", "unlockWait", "wild"} \cup Derefs]
         /\ id \in [Threads -> Subsystems]
         /\ saved \in [Threads -> Nodes \cup {None}]
         /\ q \in [Threads -> Nodes \cup {None}]

(* Every queue ever allocated is in the list, the newest in front.         *)
Shape == /\ list \in Seq(Nat)
         /\ Len(list) = Len(node)
         /\ \A i \in 1..Len(list) : list[i] = Len(node) + 1 - i

(* eq_list_mutex is held from its lock to its unlock, and by the closer    *)
(* for ever.                                                               *)
ListMutex == /\ \A t \in Threads : pc[t] \in OwnsList <=> listOwner = t
             /\ closing \in {"locked", "closed", "freed"} => listOwner = Closer

(* A thread that has a queue has the right one ...                         *)
Found == \A t \in Threads : pc[t] \in HasQueue =>
           q[t] \in Nodes /\ node[q[t]].id = id[t]

(* ... and one that has none knows since when.                             *)
Absent == \A t \in Threads :
  /\ pc[t] \in {"listLock", "recheck"} => \A n \in 1..saved[t] : node[n].id # id[t]
  /\ pc[t] = "create" => \A n \in Nodes : node[n].id # id[t]

IInv == Types /\ Shape /\ ListMutex /\ Found /\ Absent /\ OneQueuePerSubsystem

-----------------------------------------------------------------------------
(* The search finds a queue of the subsystem if there is one.              *)
LEMMA SearchFinds ==
  ASSUME Types, Shape, OneQueuePerSubsystem, NEW s
  PROVE  /\ Search(s) = None => \A n \in Nodes : node[n].id # s
         /\ Search(s) # None => Search(s) \in Nodes /\ node[Search(s)].id = s
<1> DEFINE hits == {i \in 1..Len(list) : node[list[i]].id = s}
<1>0. /\ Len(list) = Len(node) /\ Len(node) \in Nat
      /\ \A i \in 1..Len(list) : list[i] = Len(node) + 1 - i
  BY DEF Types, Shape
<1>1. \A i \in 1..Len(list) : list[i] \in Nodes
  BY <1>0 DEF Nodes
<1>2. \A i, j \in hits : i = j
  <2>1. ASSUME NEW i \in hits, NEW j \in hits PROVE i = j
    <3>1. list[i] = list[j]
      BY <1>1 DEF OneQueuePerSubsystem
    <3> QED
      BY <1>0, <3>1
  <2> QED
    BY <2>1
<1>3. CASE hits = {}
  <2>1. ASSUME NEW n \in Nodes PROVE node[n].id # s
    <3>1. Len(node) + 1 - n \in 1..Len(list) /\ list[Len(node) + 1 - n] = n
      BY <1>0 DEF Nodes
    <3> QED
      BY <1>3, <3>1
  <2>2. Search(s) = None
    BY <1>3 DEF Search
  <2> QED
    BY <2>1, <2>2
<1>4. CASE hits # {}
  <2> DEFINE first == CHOOSE i \in hits : \A j \in hits : i <= j
  <2>1. \E i \in hits : \A j \in hits : i <= j
    BY <1>0, <1>2, <1>4
  <2>2. first \in hits
    BY <2>1
  <2>3. Search(s) = list[first]
    BY <1>4 DEF Search
  <2>4. list[first] \in Nodes /\ node[list[first]].id = s
    BY <1>1, <2>2
  <2>5. list[first] # None
    BY <2>4, <1>0 DEF Nodes, None
  <2> QED
    BY <2>3, <2>4, <2>5
<1> QED
  BY <1>3, <1>4

(* The head of the list tells how many queues there are.                   *)
LEMMA HeadCounts == ASSUME Types, Shape PROVE ListHead = Len(node)
<1>1. Len(list) = Len(node) /\ list \in Seq(Nat)
      /\ \A i \in 1..Len(list) : list[i] = Len(node) + 1 - i
  BY DEF Shape
<1>2. CASE list = << >>
  BY <1>1, <1>2 DEF ListHead, None
<1>3. CASE list # << >>
  <2>1. Head(list) = list[1] /\ 1 \in 1..Len(list)
    BY <1>1, <1>3
  <2>2. Len(node) \in Nat
    BY DEF Types
  <2> QED
    BY <1>1, <1>3, <2>1, <2>2 DEF ListHead
<1> QED
  BY <1>2, <1>3

(* No step but the push of a new queue touches the list or what a queue is *)
(* for.                                                                    *)
NodesKept == /\ node' \in Seq(Queues)
             /\ Len(node') = Len(node)
             /\ \A n \in Nodes : node'[n].id = node[n].id
             /\ list' = list

LEMMA UpdateKeeps ==
  ASSUME Types, NEW k \in Nodes, NEW rec \in Queues, rec.id = node[k].id,
         node' = [node EXCEPT ![k] = rec], list' = list
  PROVE  NodesKept
  BY DEF Types, NodesKept, Nodes

(* Closing and freeing rewrite every queue, and drop none.                *)
LEMMA FinalizeKeeps ==
  ASSUME Types, FinalizeClose \/ FinalizeFree
  PROVE  NodesKept
<1>1. PICK f \in [1..Len(node) -> Queues] :
        node' = f /\ \A n \in 1..Len(node) : f[n].id = node[n].id
  <2>1. \A n \in 1..Len(node) : node[n] \in Queues
    BY DEF Types
  <2>2. CASE FinalizeClose
    <3> DEFINE f == [n \in 1..Len(node) |-> [node[n] EXCEPT !.closing = TRUE, !.open = FALSE]]
    <3>1. node' = f
      BY <2>2 DEF FinalizeClose
    <3>2. \A n \in 1..Len(node) : f[n] \in Queues /\ f[n].id = node[n].id
      BY <2>1 DEF Queues
    <3>3. f \in [1..Len(node) -> Queues]
      BY <3>2
    <3> QED
      BY <3>1, <3>2, <3>3
  <2>3. CASE FinalizeFree
    <3> DEFINE f == [n \in 1..Len(node) |-> [node[n] EXCEPT !.freed = TRUE, !.events = 0]]
    <3>1. node' = f
      BY <2>3 DEF FinalizeFree
    <3>2. \A n \in 1..Len(node) : f[n] \in Queues /\ f[n].id = node[n].id
      BY <2>1 DEF Queues
    <3>3. f \in [1..Len(node) -> Queues]
      BY <3>2
    <3> QED
      BY <3>1, <3>2, <3>3
  <2> QED
    BY <2>2, <2>3
<1>2. Len(node) \in Nat
  BY DEF Types
<1>3. node' \in Seq(Queues) /\ Len(node') = Len(node)
  BY <1>1, <1>2
<1>4. list' = list
  BY DEF FinalizeClose, FinalizeFree
<1> QED
  BY <1>1, <1>3, <1>4 DEF NodesKept, Nodes

LEMMA KeepStep ==
  ASSUME IInv, [Next]_vars, \A t \in Threads : ~Create(t)
  PROVE  NodesKept
<1> USE DEF IInv, Found, HasQueue, Derefs, tvars
<1>1. CASE node' = node /\ list' = list
  BY <1>1 DEF Types, NodesKept, Nodes
(* Most actions change a field of the thread's own queue, never its id.    *)
<1>2. ASSUME NEW t \in Threads, NEW rec \in Queues, rec.id = node[q[t]].id,
             q[t] \in Nodes, node' = [node EXCEPT ![q[t]] = rec], list' = list
      PROVE  NodesKept
  BY <1>2, UpdateKeeps
<1>3. ASSUME NEW t \in Threads, q[t] \in Nodes PROVE Mine(t) \in Queues
  BY <1>3 DEF Types, Mine, Nodes
<1>4. ASSUME NEW t \in Threads, QueueLock(t) PROVE NodesKept
  <2>1. q[t] \in Nodes
    BY <1>4 DEF QueueLock
  <2>2. [Mine(t) EXCEPT !.owner = t] \in Queues
    BY <1>3, <2>1 DEF Queues
  <2>3. [Mine(t) EXCEPT !.owner = t].id = node[q[t]].id
    BY <1>3, <2>1 DEF Queues, Mine
  <2>4. node' = [node EXCEPT ![q[t]] = [Mine(t) EXCEPT !.owner = t]] /\ list' = list
    BY <1>4 DEF QueueLock, Mine
  <2> QED
    BY <1>2, <2>1, <2>2, <2>3, <2>4
<1>5. ASSUME NEW t \in Threads, Enqueue(t) PROVE NodesKept
  <2>1. q[t] \in Nodes
    BY <1>5 DEF Enqueue
  <2> DEFINE rec == [Mine(t) EXCEPT !.events = @ + 1]
  <2>2. rec \in Queues /\ rec.id = node[q[t]].id
    BY <1>3, <2>1 DEF Queues, Mine
  <2>3. \/ node' = node
        \/ node' = [node EXCEPT ![q[t]] = rec]
    BY <1>5 DEF Enqueue, Mine
  <2>4. list' = list
    BY <1>5 DEF Enqueue
  <2> QED
    BY <1>1, <1>2, <2>1, <2>2, <2>3, <2>4
<1>6. ASSUME NEW t \in Threads, Dequeue(t) PROVE NodesKept
  <2>1. q[t] \in Nodes
    BY <1>6 DEF Dequeue
  <2> DEFINE n == Mine(t).events
             b == Mine(t).signaled /\ n > 1
             m == IF n = 0 THEN 0 ELSE n - 1
             rec == [Mine(t) EXCEPT !.events = m, !.signaled = b]
  <2>2. node' = [node EXCEPT ![q[t]] = rec] /\ list' = list
    BY <1>6, <2>1 DEF Dequeue, Mine, Types, Nodes
  <2>3. b \in BOOLEAN
    OBVIOUS
  <2>5. m \in Nat
    BY <1>3, <2>1 DEF Queues
  <2> HIDE DEF b, m
  <2>4. rec \in Queues /\ rec.id = node[q[t]].id
    BY <1>3, <2>1, <2>3, <2>5 DEF Queues, Mine
  <2> QED
    BY <1>2, <2>1, <2>2, <2>4
<1>7. ASSUME NEW t \in Threads, QueueUnlock(t) PROVE NodesKept
  <2>1. q[t] \in Nodes
    BY <1>7 DEF QueueUnlock
  <2> DEFINE rec == [Mine(t) EXCEPT !.owner = IF Mine(t).open THEN Nobody ELSE @]
  <2>2. rec \in Queues /\ rec.id = node[q[t]].id
    BY <1>3, <2>1 DEF Queues, Mine
  <2>3. node' = [node EXCEPT ![q[t]] = rec] /\ list' = list
    BY <1>7 DEF QueueUnlock, Mine
  <2> QED
    BY <1>2, <2>1, <2>2, <2>3
<1>8. ASSUME NEW t \in Threads, SendSet(t) PROVE NodesKept
  <2>1. q[t] \in Nodes
    BY <1>8 DEF SendSet
  <2> DEFINE b == Mine(t).signaled \/ (Mine(t).open /\ Mine(t).hasEvent)
             rec == [Mine(t) EXCEPT !.signaled = b]
  <2>3. node' = [node EXCEPT ![q[t]] = rec] /\ list' = list
    BY <1>8 DEF SendSet, Mine
  <2>4. b \in BOOLEAN
    OBVIOUS
  <2> HIDE DEF b
  <2>2. rec \in Queues /\ rec.id = node[q[t]].id
    BY <1>3, <2>1, <2>4 DEF Queues, Mine
  <2> QED
    BY <1>2, <2>1, <2>2, <2>3
<1>9. CASE FinalizeClose \/ FinalizeFree
  BY <1>9, FinalizeKeeps
<1>10. CASE FinalizeLock \/ FinalizeLockTimeout
  BY <1>1, <1>10 DEF FinalizeLock, FinalizeLockTimeout
<1>11. ASSUME NEW t \in Threads,
              Begin(t) \/ SaveHead(t) \/ SearchUnlocked(t) \/ ListLock(t)
                \/ ListLockFails(t) \/ Recheck(t) \/ ListUnlock(t)
       PROVE  NodesKept
  BY <1>1, <1>11 DEF Begin, SaveHead, SearchUnlocked, ListLock, ListLockFails, Recheck,
                     ListUnlock
<1>12. ASSUME NEW t \in Threads,
              QueueLockFails(t) \/ TestClosing(t) \/ EnterWait(t) \/ WakeUp(t)
                \/ WaitQuit(t) \/ ReadFreed(t)
       PROVE  NodesKept
  BY <1>1, <1>12 DEF QueueLockFails, TestClosing, EnterWait, WakeUp, WaitQuit, ReadFreed
<1>13. CASE UNCHANGED vars
  BY <1>1, <1>13 DEF vars
<1>14. ASSUME NEW t \in Threads, Step(t) PROVE NodesKept
  BY <1>4, <1>5, <1>6, <1>7, <1>8, <1>11, <1>12, <1>14 DEF Step
<1> QED
  BY <1>9, <1>10, <1>13, <1>14 DEF Next, Finalize

(* A new queue goes in front of the list and leaves the others as they are.*)
LEMMA CreatePushes ==
  ASSUME IInv, NEW t \in Threads, Create(t)
  PROVE  \/ /\ node' \in Seq(Queues)
            /\ Len(node') = Len(node) + 1
            /\ node'[Len(node) + 1].id = id[t]
            /\ \A n \in Nodes : node'[n] = node[n]
            /\ list' = <<Len(node) + 1>> \o list
            /\ q' = [q EXCEPT ![t] = Len(node) + 1]
            /\ Goto(t, "listUnlock")
            /\ UNCHANGED <<listOwner, saved, id, closing>>
         \/ /\ UNCHANGED <<node, list, id, closing>>
            /\ listOwner' = Nobody
            /\ Leave(t)
<1>1. node \in Seq(Queues) /\ id[t] \in Subsystems
  BY DEF IInv, Types
<1>2. ASSUME NEW e \in BOOLEAN
      PROVE  NewQueue(id[t], e) \in Queues /\ NewQueue(id[t], e).id = id[t]
  BY <1>1 DEF NewQueue, Queues
<1>3. ASSUME NEW e \in BOOLEAN, node' = Append(node, NewQueue(id[t], e))
      PROVE  /\ node' \in Seq(Queues) /\ Len(node') = Len(node) + 1
             /\ node'[Len(node) + 1].id = id[t]
             /\ \A n \in Nodes : node'[n] = node[n]
  BY <1>1, <1>2, <1>3 DEF Nodes
<1> QED
  BY <1>3 DEF Create

-----------------------------------------------------------------------------
(* The list keeps its shape, and a push adds the one queue that is missing.*)
LEMMA ListStep == IInv /\ [Next]_vars =>
                    node' \in Seq(Queues) /\ Shape' /\ OneQueuePerSubsystem'
<1> SUFFICES ASSUME IInv, [Next]_vars
             PROVE  node' \in Seq(Queues) /\ Shape' /\ OneQueuePerSubsystem'
  OBVIOUS
<1>0. /\ node \in Seq(Queues) /\ Shape /\ OneQueuePerSubsystem
  BY DEF IInv, Types
<1>1. CASE NodesKept
  <2>1. Nodes' = Nodes
    BY <1>1 DEF NodesKept, Nodes
  <2> QED
    BY <1>0, <1>1, <2>1 DEF NodesKept, Shape, OneQueuePerSubsystem
<1>2. ASSUME NEW t \in Threads, Create(t)
      PROVE  node' \in Seq(Queues) /\ Shape' /\ OneQueuePerSubsystem'
  <2>1. \A n \in Nodes : node[n].id # id[t]
    BY <1>2 DEF IInv, Absent, Create
  <2>2. CASE UNCHANGED <<node, list>>
    BY <1>0, <2>2 DEF Shape, OneQueuePerSubsystem, Nodes
  <2>3. CASE /\ node' \in Seq(Queues)
             /\ Len(node') = Len(node) + 1
             /\ node'[Len(node) + 1].id = id[t]
             /\ \A n \in Nodes : node'[n] = node[n]
             /\ list' = <<Len(node) + 1>> \o list
    <3>1. Len(node) \in Nat /\ list \in Seq(Nat) /\ Len(list) = Len(node)
      BY <1>0 DEF Shape
    <3>2. Nodes' = Nodes \cup {Len(node) + 1}
      BY <2>3, <3>1 DEF Nodes
    <3>3. OneQueuePerSubsystem'
      BY <1>0, <2>1, <2>3, <3>2 DEF OneQueuePerSubsystem
    <3>4. /\ list' \in Seq(Nat) /\ Len(list') = Len(list) + 1
          /\ list'[1] = Len(node) + 1
          /\ \A i \in 1..Len(list) : list'[i + 1] = list[i]
      BY <2>3, <3>1
    <3>5. ASSUME NEW i \in 1..Len(list') PROVE list'[i] = Len(node') + 1 - i
      <4>1. CASE i = 1
        BY <2>3, <3>1, <3>4, <4>1
      <4>2. CASE i # 1
        <5>1. i - 1 \in 1..Len(list) /\ (i - 1) + 1 = i
          BY <3>1, <3>4, <4>2
        <5>2. list'[i] = list[i - 1] /\ list[i - 1] = Len(node) + 1 - (i - 1)
          BY <1>0, <3>4, <5>1 DEF Shape
        <5> QED
          BY <2>3, <3>1, <5>2
      <4> QED
        BY <4>1, <4>2
    <3> QED
      BY <2>3, <3>1, <3>3, <3>4, <3>5 DEF Shape
  <2> QED
    BY <1>2, <2>2, <2>3, CreatePushes
<1> QED
  BY <1>1, <1>2, KeepStep

(* The owner of eq_list_mutex is the thread between its lock and unlock.   *)
LEMMA ListMutexStep == IInv /\ [Next]_vars => ListMutex'
<1> SUFFICES ASSUME Types, ListMutex, [Next]_vars PROVE ListMutex'
  BY DEF IInv
<1>0. pc \in [Threads -> {"idle", "save", "search", "listLock", "recheck",
                          "create", "listUnlock", "unlockWait", "wild"} \cup Derefs]
  BY DEF Types
<1> USE <1>0, RegistryAssumption DEF ListMutex, OwnsList, Threads, Goto, Leave, Derefs, tvars
<1>1. ASSUME NEW t \in Threads, Begin(t) \/ SaveHead(t) \/ SearchUnlocked(t)
      PROVE  ListMutex'
  BY <1>1 DEF Begin, SaveHead, SearchUnlocked
<1>2. ASSUME NEW t \in Threads, ListLock(t) \/ ListLockFails(t) PROVE ListMutex'
  BY <1>2 DEF ListLock, ListLockFails
<1>3. ASSUME NEW t \in Threads, Recheck(t) \/ ListUnlock(t) PROVE ListMutex'
  BY <1>3 DEF Recheck, ListUnlock
<1>4. ASSUME NEW t \in Threads, Create(t) PROVE ListMutex'
  BY <1>4 DEF Create
<1>5. ASSUME NEW t \in Threads, QueueLock(t) \/ QueueLockFails(t) \/ TestClosing(t)
      PROVE  ListMutex'
  BY <1>5 DEF QueueLock, QueueLockFails, TestClosing
<1>6. ASSUME NEW t \in Threads, Enqueue(t) \/ Dequeue(t) \/ QueueUnlock(t) \/ SendSet(t)
      PROVE  ListMutex'
  BY <1>6 DEF Enqueue, Dequeue, QueueUnlock, SendSet
<1>7. ASSUME NEW t \in Threads,
             EnterWait(t) \/ WakeUp(t) \/ WaitQuit(t) \/ ReadFreed(t)
      PROVE  ListMutex'
  BY <1>7 DEF EnterWait, WakeUp, WaitQuit, ReadFreed
<1>8. CASE Finalize
  BY <1>8 DEF Finalize, FinalizeLock, FinalizeLockTimeout, FinalizeClose, FinalizeFree
<1>9. CASE UNCHANGED vars
  BY <1>9 DEF vars
<1> QED
  BY <1>1, <1>2, <1>3, <1>4, <1>5, <1>6, <1>7, <1>8, <1>9 DEF Next, Step

-----------------------------------------------------------------------------
(* What a step does to a thread's own variables.                           *)
Mover(t) ==
  \/ Begin(t) \/ SaveHead(t) \/ ListLock(t) \/ ListLockFails(t) \/ ListUnlock(t)
  \/ QueueLock(t) \/ QueueLockFails(t) \/ TestClosing(t) \/ Enqueue(t) \/ Dequeue(t)
  \/ QueueUnlock(t) \/ SendSet(t) \/ EnterWait(t) \/ WakeUp(t) \/ WaitQuit(t)
  \/ ReadFreed(t)

(* Steps that bring a thread no queue: it keeps the one it has or gives it *)
(* up.                                                                     *)
LEMMA MoverKeeps ==
  ASSUME Types, NEW t \in Threads, Mover(t)
  PROVE  /\ pc' \in [Threads -> {"idle", "save", "search", "listLock", "recheck",
                                 "create", "listUnlock", "unlockWait", "wild"} \cup Derefs]
         /\ \A u \in Threads \ {t} : pc'[u] = pc[u]
         /\ id' \in [Threads -> Subsystems]
         /\ pc[t] # "idle" => id' = id
         /\ \A u \in Threads \ {t} : id'[u] = id[u]
         /\ q' = q \/ (q' = [q EXCEPT ![t] = None] /\ pc'[t] = "idle")
         /\ saved' = saved
              \/ saved' = [saved EXCEPT ![t] = ListHead]
              \/ (saved' = [saved EXCEPT ![t] = None] /\ pc'[t] = "idle")
         /\ pc'[t] \in HasQueue => pc[t] \in HasQueue
         /\ pc'[t] \in {"listLock", "recheck"} => pc[t] = "listLock" /\ saved' = saved
         /\ pc'[t] # "create"
<1> USE DEF Types, Mover, Goto, Leave, HasQueue, Derefs, tvars
<1>1. CASE Begin(t) \/ SaveHead(t) \/ ListLock(t) \/ ListLockFails(t) \/ ListUnlock(t)
  BY <1>1 DEF Begin, SaveHead, ListLock, ListLockFails, ListUnlock
<1>2. CASE QueueLock(t) \/ QueueLockFails(t) \/ TestClosing(t)
  BY <1>2 DEF QueueLock, QueueLockFails, TestClosing
<1>3. CASE Enqueue(t) \/ Dequeue(t) \/ QueueUnlock(t) \/ SendSet(t)
  BY <1>3 DEF Enqueue, Dequeue, QueueUnlock, SendSet
<1>4. CASE EnterWait(t) \/ WakeUp(t) \/ WaitQuit(t) \/ ReadFreed(t)
  BY <1>4 DEF EnterWait, WakeUp, WaitQuit, ReadFreed
<1> QED
  BY <1>1, <1>2, <1>3, <1>4

Locals == Types /\ Found /\ Absent

LEMMA MoverStep ==
  ASSUME IInv, NodesKept, NEW t \in Threads, Mover(t)
  PROVE  Locals'
<1>1. Nodes' = Nodes /\ node' \in Seq(Queues) /\ \A n \in Nodes : node'[n].id = node[n].id
  BY DEF NodesKept, Nodes
<1>2. ListHead \in Nodes \cup {None}
  BY HeadCounts DEF IInv, Types, Nodes, None
<1>3. Types
  BY DEF IInv
<1>4. /\ q \in [Threads -> Nodes \cup {None}] /\ saved \in [Threads -> Nodes \cup {None}]
  BY <1>3 DEF Types
<1>5. Types'
  <2>1. q' \in [Threads -> Nodes' \cup {None}]
    BY <1>1, <1>3, <1>4, MoverKeeps
  <2>2. saved' \in [Threads -> Nodes' \cup {None}]
    BY <1>1, <1>2, <1>3, <1>4, MoverKeeps
  <2>3. id' \in [Threads -> Subsystems]
    BY <1>3, MoverKeeps
  <2> QED
    BY <1>1, <1>3, <2>1, <2>2, <2>3, MoverKeeps DEF Types
<1>6. Found'
  <2>1. ASSUME NEW u \in Threads, pc'[u] \in HasQueue
        PROVE  q'[u] = q[u] /\ id'[u] = id[u] /\ pc[u] \in HasQueue
    <3>1. CASE u = t
      BY <1>3, <1>4, <2>1, <3>1, MoverKeeps DEF HasQueue, Derefs
    <3>2. CASE u # t
      BY <1>3, <1>4, <2>1, <3>2, MoverKeeps
    <3> QED
      BY <3>1, <3>2
  <2> QED
    BY <1>1, <2>1 DEF Found, IInv
<1>7. Absent'
  <2>1. ASSUME NEW u \in Threads, pc'[u] \in {"listLock", "recheck"}
        PROVE  \A n \in 1..saved'[u] : node'[n].id # id'[u]
    <3>1. saved'[u] = saved[u] /\ id'[u] = id[u] /\ pc[u] \in {"listLock", "recheck"}
      <4>1. CASE u = t
        BY <1>3, <1>4, <2>1, <4>1, MoverKeeps
      <4>2. CASE u # t
        BY <1>3, <1>4, <2>1, <4>2, MoverKeeps
      <4> QED
        BY <4>1, <4>2
    <3>2. \A n \in 1..saved[u] : n \in Nodes
      BY <1>3, <1>4 DEF Nodes, None, Types
    <3> QED
      BY <1>1, <3>1, <3>2 DEF Absent, IInv
  <2>2. ASSUME NEW u \in Threads, pc'[u] = "create"
        PROVE  \A n \in Nodes' : node'[n].id # id'[u]
    <3>1. u # t
      BY <1>3, <2>2, MoverKeeps
    <3>2. pc[u] = "create" /\ id'[u] = id[u]
      BY <1>3, <2>2, <3>1, MoverKeeps
    <3> QED
      BY <1>1, <3>2 DEF Absent, IInv
  <2> QED
    BY <2>1, <2>2 DEF Absent
<1> QED
  BY <1>5, <1>6, <1>7 DEF Locals

(* The search without a lock: it saw every queue the saved head had behind *)
(* it, and perhaps more.                                                   *)
LEMMA SearchStep ==
  ASSUME IInv, NEW t \in Threads, SearchUnlocked(t)
  PROVE  Locals'
<1>0. IInv /\ Types /\ Shape /\ OneQueuePerSubsystem /\ Found /\ Absent
  BY DEF IInv
<1>1. /\ q' = [q EXCEPT ![t] = Search(id[t])]
      /\ pc' = [pc EXCEPT ![t] = IF Search(id[t]) = None THEN "listLock" ELSE "lock"]
      /\ UNCHANGED <<node, id, saved>>
  BY DEF SearchUnlocked, Goto
<1>2. /\ Search(id[t]) = None => \A n \in Nodes : node[n].id # id[t]
      /\ Search(id[t]) # None => Search(id[t]) \in Nodes /\ node[Search(id[t])].id = id[t]
  BY <1>0, SearchFinds
<1>3. Nodes' = Nodes
  BY <1>1 DEF Nodes
<1>4. \A u \in Threads : \A n \in 1..saved[u] : n \in Nodes
  BY <1>0 DEF Nodes, None, Types
<1>5. Types'
  <2>1. q' \in [Threads -> Nodes' \cup {None}] /\ saved' \in [Threads -> Nodes' \cup {None}]
    BY <1>0, <1>1, <1>2, <1>3 DEF Types
  <2>2. node' \in Seq(Queues) /\ id' \in [Threads -> Subsystems]
    BY <1>0, <1>1 DEF Types
  <2>3. pc' \in [Threads -> {"idle", "save", "search", "listLock", "recheck",
                             "create", "listUnlock", "unlockWait", "wild"} \cup Derefs]
    BY <1>0, <1>1 DEF Types, Derefs
  <2> QED
    BY <2>1, <2>2, <2>3 DEF Types
<1>6. Found'
  BY <1>0, <1>1, <1>2, <1>3 DEF Types, Found, HasQueue, Derefs
<1>7. Absent'
  BY <1>0, <1>1, <1>2, <1>3, <1>4 DEF Types, Absent
<1> QED
  BY <1>5, <1>6, <1>7 DEF Locals

(* The search under the lock, skipped when nobody pushed a queue: then the *)
(* saved head is still the newest queue.                                   *)
LEMMA RecheckStep ==
  ASSUME IInv, NEW t \in Threads, Recheck(t)
  PROVE  Locals'
<1>0. IInv /\ Types /\ Shape /\ OneQueuePerSubsystem /\ Found /\ Absent
  BY DEF IInv
<1>1. pc[t] = "recheck" /\ UNCHANGED <<node, id, saved>>
  BY DEF Recheck
<1>2. /\ Search(id[t]) = None => \A n \in Nodes : node[n].id # id[t]
      /\ Search(id[t]) # None => Search(id[t]) \in Nodes /\ node[Search(id[t])].id = id[t]
  BY <1>0, SearchFinds
<1>3. Nodes' = Nodes
  BY <1>1 DEF Nodes
<1>4. \A u \in Threads : \A n \in 1..saved[u] : n \in Nodes
  BY <1>0 DEF Nodes, None, Types
<1>5. CASE saved[t] = ListHead /\ pc' = [pc EXCEPT ![t] = "create"] /\ q' = q
  <2>1. \A n \in Nodes : node[n].id # id[t]
    BY <1>0, <1>1, <1>5, HeadCounts DEF Absent, Nodes
  <2>2. Types' /\ Found' /\ Absent'
    BY <1>0, <1>1, <1>3, <1>4, <1>5, <2>1 DEF Types, Found, HasQueue, Derefs, Absent
  <2> QED
    BY <2>2 DEF Locals
<1>6. CASE /\ q' = [q EXCEPT ![t] = Search(id[t])]
           /\ pc' = [pc EXCEPT ![t] = IF Search(id[t]) = None THEN "create" ELSE "listUnlock"]
  <2>1. Types'
    BY <1>0, <1>1, <1>2, <1>3, <1>6 DEF Types, Derefs
  <2>2. Found'
    BY <1>0, <1>1, <1>2, <1>3, <1>6 DEF Types, Found, HasQueue, Derefs
  <2>3. Absent'
    BY <1>0, <1>1, <1>2, <1>3, <1>4, <1>6 DEF Types, Absent
  <2> QED
    BY <2>1, <2>2, <2>3 DEF Locals
<1> QED
  BY <1>5, <1>6 DEF Recheck, Goto

(* The push: nobody else is under the lock, and who waits for it has not   *)
(* seen the new queue.                                                     *)
LEMMA CreateStep ==
  ASSUME IInv, NEW t \in Threads, Create(t)
  PROVE  Locals'
<1>0. IInv /\ Types /\ Shape /\ Found /\ Absent /\ ListMutex
  BY DEF IInv
<1>1. pc[t] = "create"
  BY DEF Create
<1>2. \A u \in Threads : pc[u] = "create" => u = t
  BY <1>0, <1>1 DEF ListMutex, OwnsList
<1>3. \A u \in Threads : \A n \in 1..saved[u] : n \in Nodes
  BY <1>0 DEF Nodes, None, Types
<1>4. Len(node) \in Nat
  BY <1>0 DEF Types
<1>5. CASE /\ node' \in Seq(Queues)
           /\ Len(node') = Len(node) + 1
           /\ node'[Len(node) + 1].id = id[t]
           /\ \A n \in Nodes : node'[n] = node[n]
           /\ q' = [q EXCEPT ![t] = Len(node) + 1]
           /\ pc' = [pc EXCEPT ![t] = "listUnlock"]
           /\ UNCHANGED <<saved, id>>
  <2>1. Nodes' = Nodes \cup {Len(node) + 1}
    BY <1>4, <1>5 DEF Nodes
  <2>2. Types'
    BY <1>0, <1>5, <2>1 DEF Types
  <2>3. Found'
    BY <1>0, <1>5, <2>1 DEF Types, Found, HasQueue
  <2>4. Absent'
    BY <1>0, <1>2, <1>3, <1>5 DEF Types, Absent
  <2> QED
    BY <2>2, <2>3, <2>4 DEF Locals
<1>6. CASE UNCHANGED <<node, id>> /\ Leave(t)
  <2>1. Nodes' = Nodes
    BY <1>6 DEF Nodes
  <2>2. Types'
    BY <1>0, <1>6, <2>1 DEF Types, Leave, Goto
  <2>3. Found'
    BY <1>0, <1>6, <2>1 DEF Types, Found, HasQueue, Derefs, Leave, Goto
  <2>4. Absent'
    BY <1>0, <1>6, <2>1 DEF Types, Absent, Leave, Goto
  <2> QED
    BY <2>2, <2>3, <2>4 DEF Locals
<1> QED
  BY <1>5, <1>6, CreatePushes DEF Goto

LEMMA OthersStep ==
  ASSUME IInv, NodesKept, UNCHANGED <<pc, id, saved, q>>
  PROVE  Locals'
<1>1. Nodes' = Nodes /\ node' \in Seq(Queues) /\ \A n \in Nodes : node'[n].id = node[n].id
  BY DEF NodesKept, Nodes
<1>2. \A u \in Threads : \A n \in 1..saved[u] : n \in Nodes
  BY DEF IInv, Nodes, None, Types
<1> QED
  BY <1>1, <1>2 DEF IInv, Locals, Types, Found, Absent

LEMMA NextStep == IInv /\ [Next]_vars => IInv'
<1> SUFFICES ASSUME IInv, [Next]_vars PROVE Locals'
  BY ListStep, ListMutexStep DEF IInv, Locals
<1>1. ASSUME NEW t \in Threads, Create(t) PROVE Locals'
  BY <1>1, CreateStep
<1>2. CASE \A t \in Threads : ~Create(t)
  <2>1. NodesKept
    BY <1>2, KeepStep
  <2>2. ASSUME NEW t \in Threads, Step(t) PROVE Locals'
    BY <1>2, <2>1, <2>2, MoverStep, SearchStep, RecheckStep DEF Step, Mover
  <2>3. CASE Finalize
    <3>1. UNCHANGED <<pc, id, saved, q>>
      BY <2>3 DEF Finalize, FinalizeLock, FinalizeLockTimeout, FinalizeClose,
                  FinalizeFree, tvars
    <3> QED
      BY <2>1, <3>1, OthersStep
  <2>4. CASE UNCHANGED vars
    <3>1. UNCHANGED <<pc, id, saved, q>>
      BY <2>4 DEF vars
    <3> QED
      BY <2>1, <3>1, OthersStep
  <2> QED
    BY <2>2, <2>3, <2>4 DEF Next
<1> QED
  BY <1>1, <1>2

LEMMA InitIInv == Init => IInv
<1> SUFFICES ASSUME Init PROVE IInv
  OBVIOUS
<1>1. pc = [t \in Threads |-> "idle"] /\ list = << >> /\ node = << >>
  BY DEF Init
<1>2. (CHOOSE s \in Subsystems : TRUE) \in Subsystems
  BY RegistryAssumption
<1>3. Types
  BY <1>1, <1>2 DEF Init, Types, None, Nodes
<1> QED
  BY <1>1, <1>3, RegistryAssumption
     DEF Init, IInv, Shape, ListMutex, OwnsList, Found, HasQueue, Derefs, Absent,
         OneQueuePerSubsystem, Nodes, Threads

LEMMA InvariantIInv == Spec => []IInv
  BY InitIInv, NextStep, PTL DEF Spec

(* What IInv does not say of the types.                                     *)
OtherTypes == /\ listOpen \in BOOLEAN
              /\ listOwner \in Threads \cup {Closer, Nobody}
              /\ calls \in [Threads -> 0..MaxCalls]
              /\ closing \in {"no", "locked", "failed", "closed", "freed"}

LEMMA OtherTypesStep == OtherTypes /\ [Next]_vars => OtherTypes'
<1> SUFFICES ASSUME OtherTypes, [Next]_vars PROVE OtherTypes'
  OBVIOUS
<1> USE DEF OtherTypes
<1>1. ASSUME NEW t \in Threads, Begin(t) PROVE OtherTypes'
  BY <1>1, RegistryAssumption DEF Begin
<1>2. ASSUME NEW t \in Threads, ListLock(t) \/ Create(t) \/ ListUnlock(t) PROVE OtherTypes'
  BY <1>2 DEF ListLock, Create, ListUnlock
<1>3. ASSUME NEW t \in Threads, Step(t), UNCHANGED <<listOpen, listOwner, calls, closing>>
      PROVE  OtherTypes'
  BY <1>3
<1>4. ASSUME NEW t \in Threads, Step(t) PROVE OtherTypes'
  BY <1>1, <1>2, <1>3, <1>4
     DEF Step, SaveHead, SearchUnlocked, ListLockFails, Recheck, QueueLock, QueueLockFails,
         TestClosing, Enqueue, Dequeue, QueueUnlock, SendSet, EnterWait, WakeUp, WaitQuit,
         ReadFreed
<1>5. CASE Finalize
  BY <1>5 DEF Finalize, FinalizeLock, FinalizeLockTimeout, FinalizeClose, FinalizeFree, tvars
<1>6. CASE UNCHANGED vars
  BY <1>6 DEF vars
<1> QED
  BY <1>4, <1>5, <1>6 DEF Next

(* The list and the queues in it stay well-formed: list holds queues that   *)
(* exist, and no thread holds a pointer to one that does not.               *)
THEOREM TypeCorrect == Spec => []TypeOK
<1>1. Init => OtherTypes
  BY RegistryAssumption DEF Init, OtherTypes
<1>2. ASSUME IInv, OtherTypes PROVE TypeOK
  <2>1. /\ list \in Seq(Nat) /\ Len(node) \in Nat
        /\ \A i \in 1..Len(list) : list[i] \in Nodes /\ list[i] \in Nat \ {0}
    BY <1>2 DEF IInv, Shape, Types, Nodes
  <2>2. list \in Seq(Nat \ {0})
    BY <2>1
  <2> QED
    BY <1>2, <2>1, <2>2 DEF IInv, Types, OtherTypes, TypeOK, Queues
<1> QED
  BY <1>1, <1>2, InvariantIInv, OtherTypesStep, PTL DEF Spec

(* The double-checked search creates at most one queue for a subsystem,    *)
(* however many threads ask for it at once.                                *)
THEOREM OneQueue == Spec => []OneQueuePerSubsystem
<1>1. IInv => OneQueuePerSubsystem
  BY DEF IInv
<1> QED
  BY <1>1, InvariantIInv, PTL

(* A call works on the queue of the subsystem it named.                    *)
THEOREM RightQueue == Spec => []FoundQueueIsRight
<1>1. ASSUME IInv, NEW t \in Threads, pc[t] \in Derefs
      PROVE  /\ q[t] # None /\ node[q[t]].id = id[t]
             /\ \E i \in 1..Len(list) : list[i] = q[t]
  <2>1. q[t] \in Nodes /\ node[q[t]].id = id[t]
    BY <1>1 DEF IInv, Found, HasQueue
  <2>2. /\ Len(list) = Len(node) /\ Len(node) \in Nat
        /\ \A i \in 1..Len(list) : list[i] = Len(node) + 1 - i
    BY <1>1 DEF IInv, Shape, Types
  <2>3. Len(node) + 1 - q[t] \in 1..Len(list) /\ list[Len(node) + 1 - q[t]] = q[t]
    BY <2>1, <2>2 DEF Nodes
  <2> QED
    BY <2>1, <2>2, <2>3 DEF Nodes, None
<1>2. IInv => FoundQueueIsRight
  BY <1>1 DEF FoundQueueIsRight
<1> QED
  BY <1>2, InvariantIInv, PTL

(* Nobody creates a queue behind javacall_events_finalize.                 *)
THEOREM NoneBehindCloser == Spec => NoQueueAfterClose
<1>1. ASSUME IInv, [Next]_vars, closing \in {"closed", "freed"}
      PROVE  Len(node') = Len(node)
  <2>1. listOwner \notin Threads
    BY <1>1, RegistryAssumption DEF IInv, ListMutex, Threads
  <2>2. \A t \in Threads : ~Create(t)
    BY <1>1, <2>1 DEF IInv, ListMutex, OwnsList, Create
  <2> QED
    BY <1>1, <2>2, KeepStep DEF NodesKept
<1>2. IInv /\ [Next]_vars =>
        [(closing \in {"closed", "freed"}) => Len(node') = Len(node)]_vars
  BY <1>1
<1> QED
  BY InvariantIInv, <1>2, PTL DEF Spec, NoQueueAfterClose

-----------------------------------------------------------------------------
(* Queues are closed once and for all, and only closed ones are freed.     *)
ClosedForGood ==
  /\ closing \in {"closed", "freed"} => \A n \in Nodes : ~node[n].open
  /\ closing # "freed" => \A n \in Nodes : ~node[n].freed

LEMMA NewQueueIsOpen ==
  ASSUME IInv, NEW t \in Threads, Create(t)
  PROVE  \/ UNCHANGED node
         \/ /\ Nodes' = Nodes \cup {Len(node) + 1}
            /\ \A n \in Nodes : node'[n] = node[n]
            /\ ~node'[Len(node) + 1].freed
            /\ node'[Len(node) + 1].events = 0
<1>1. node \in Seq(Queues) /\ id[t] \in Subsystems
  BY DEF IInv, Types
<1>2. ASSUME NEW e \in BOOLEAN, node' = Append(node, NewQueue(id[t], e))
      PROVE  /\ Nodes' = Nodes \cup {Len(node) + 1}
             /\ \A n \in Nodes : node'[n] = node[n]
             /\ ~node'[Len(node) + 1].freed
             /\ node'[Len(node) + 1].events = 0
  <2>1. NewQueue(id[t], e) \in Queues
    BY <1>1 DEF NewQueue, Queues
  <2>2. ~NewQueue(id[t], e).freed /\ NewQueue(id[t], e).events = 0
    BY DEF NewQueue
  <2>3. node'[Len(node) + 1] = NewQueue(id[t], e)
    BY <1>1, <1>2, <2>1
  <2>4. Nodes' = Nodes \cup {Len(node) + 1} /\ \A n \in Nodes : node'[n] = node[n]
    BY <1>1, <1>2, <2>1 DEF Nodes
  <2> QED
    BY <2>2, <2>3, <2>4
<1>3. (\E e \in BOOLEAN : node' = Append(node, NewQueue(id[t], e))) \/ UNCHANGED node
  BY DEF Create
<1> QED
  BY <1>2, <1>3

(* A step of a thread changes at most the queue it works on, and neither   *)
(* opens nor closes nor frees it.                                          *)
OwnQueueOnly(t) ==
  /\ Nodes' = Nodes
  /\ \A n \in Nodes : n # q[t] => node'[n] = node[n]
  /\ \A n \in Nodes : /\ node'[n].open = node[n].open
                      /\ node'[n].hasEvent = node[n].hasEvent
                      /\ node'[n].freed = node[n].freed

LEMMA UpdateOwn ==
  ASSUME Types, NEW t \in Threads, q[t] \in Nodes, NEW rec,
         node' = [node EXCEPT ![q[t]] = rec],
         rec.open = Mine(t).open, rec.hasEvent = Mine(t).hasEvent,
         rec.freed = Mine(t).freed
  PROVE  OwnQueueOnly(t) /\ node'[q[t]] = rec
<1>1. node \in Seq(Queues)
  BY DEF Types
<1>2. Nodes' = Nodes /\ node'[q[t]] = rec /\ \A n \in Nodes : n # q[t] => node'[n] = node[n]
  BY <1>1 DEF Nodes
<1> QED
  BY <1>2 DEF OwnQueueOnly, Mine

LEMMA NodeUnchanged ==
  ASSUME NEW t \in Threads, UNCHANGED node
  PROVE  OwnQueueOnly(t)
  BY DEF OwnQueueOnly, Nodes

LEMMA QueueLockOwn ==
  ASSUME IInv, NEW t \in Threads, QueueLock(t)
  PROVE  /\ OwnQueueOnly(t) /\ q[t] \in Nodes
         /\ node'[q[t]].events = Mine(t).events
         /\ node'[q[t]].signaled = Mine(t).signaled
<1> DEFINE rec == [Mine(t) EXCEPT !.owner = t]
<1>1. Types /\ q[t] \in Nodes
  BY DEF IInv, Found, HasQueue, Derefs, QueueLock
<1>2. Mine(t) \in Queues
  BY <1>1 DEF Types, Mine, Nodes
<1>3. node' = [node EXCEPT ![q[t]] = rec]
  BY DEF QueueLock, Mine
<1>4. /\ rec.open = Mine(t).open /\ rec.hasEvent = Mine(t).hasEvent
      /\ rec.freed = Mine(t).freed /\ rec.events = Mine(t).events
      /\ rec.signaled = Mine(t).signaled
  BY <1>2 DEF Queues
<1> HIDE DEF rec
<1> QED
  BY <1>1, <1>3, <1>4, UpdateOwn

LEMMA EnqueueOwn ==
  ASSUME IInv, NEW t \in Threads, Enqueue(t)
  PROVE  OwnQueueOnly(t) /\ q[t] \in Nodes
<1> DEFINE rec == [Mine(t) EXCEPT !.events = @ + 1]
<1>1. Types /\ q[t] \in Nodes
  BY DEF IInv, Found, HasQueue, Derefs, Enqueue
<1>2. Mine(t) \in Queues
  BY <1>1 DEF Types, Mine, Nodes
<1>3. UNCHANGED node \/ node' = [node EXCEPT ![q[t]] = rec]
  BY DEF Enqueue, Mine
<1>4. /\ rec.open = Mine(t).open /\ rec.hasEvent = Mine(t).hasEvent
      /\ rec.freed = Mine(t).freed
  BY <1>2 DEF Queues
<1> HIDE DEF rec
<1> QED
  BY <1>1, <1>3, <1>4, UpdateOwn, NodeUnchanged

LEMMA DequeueOwn ==
  ASSUME IInv, NEW t \in Threads, Dequeue(t)
  PROVE  /\ OwnQueueOnly(t) /\ q[t] \in Nodes
         /\ Mine(t).events \in Nat
         /\ node'[q[t]].events > 0 => Mine(t).events > 1
         /\ Mine(t).events > 1 => node'[q[t]].signaled = Mine(t).signaled
<1> DEFINE n == Mine(t).events
           b == Mine(t).signaled /\ n > 1
           m == IF n = 0 THEN 0 ELSE n - 1
           rec == [Mine(t) EXCEPT !.events = m, !.signaled = b]
<1>1. Types /\ q[t] \in Nodes
  BY DEF IInv, Found, HasQueue, Derefs, Dequeue
<1>2. Mine(t) \in Queues
  BY <1>1 DEF Types, Mine, Nodes
<1>3. node' = [node EXCEPT ![q[t]] = rec]
  BY <1>1 DEF Dequeue, Mine, Types, Nodes
<1>4. n \in Nat /\ (m > 0 => n > 1) /\ Mine(t).signaled \in BOOLEAN
  BY <1>2 DEF Queues
<1>5. n > 1 => b = Mine(t).signaled
  BY <1>4
<1> HIDE DEF m, b
<1>6. /\ rec.open = Mine(t).open /\ rec.hasEvent = Mine(t).hasEvent
      /\ rec.freed = Mine(t).freed /\ rec.events = m /\ rec.signaled = b
  BY <1>2 DEF Queues
<1> HIDE DEF rec
<1>7. OwnQueueOnly(t) /\ node'[q[t]] = rec
  BY <1>1, <1>3, <1>6, UpdateOwn
<1> QED
  BY <1>1, <1>4, <1>5, <1>6, <1>7

LEMMA QueueUnlockOwn ==
  ASSUME IInv, NEW t \in Threads, QueueUnlock(t)
  PROVE  /\ OwnQueueOnly(t) /\ q[t] \in Nodes
         /\ node'[q[t]].events = Mine(t).events
         /\ node'[q[t]].signaled = Mine(t).signaled
<1> DEFINE rec == [Mine(t) EXCEPT !.owner = IF Mine(t).open THEN Nobody ELSE @]
<1>1. Types /\ q[t] \in Nodes
  BY DEF IInv, Found, HasQueue, Derefs, QueueUnlock
<1>2. Mine(t) \in Queues
  BY <1>1 DEF Types, Mine, Nodes
<1>3. node' = [node EXCEPT ![q[t]] = rec]
  BY DEF QueueUnlock, Mine
<1>4. /\ rec.open = Mine(t).open /\ rec.hasEvent = Mine(t).hasEvent
      /\ rec.freed = Mine(t).freed /\ rec.events = Mine(t).events
      /\ rec.signaled = Mine(t).signaled
  BY <1>2 DEF Queues
<1> HIDE DEF rec
<1> QED
  BY <1>1, <1>3, <1>4, UpdateOwn

LEMMA SendSetOwn ==
  ASSUME IInv, NEW t \in Threads, SendSet(t)
  PROVE  /\ OwnQueueOnly(t) /\ q[t] \in Nodes
         /\ Mine(t).open /\ Mine(t).hasEvent => node'[q[t]].signaled
<1> DEFINE b == Mine(t).signaled \/ (Mine(t).open /\ Mine(t).hasEvent)
           rec == [Mine(t) EXCEPT !.signaled = b]
<1>1. Types /\ q[t] \in Nodes
  BY DEF IInv, Found, HasQueue, Derefs, SendSet
<1>2. Mine(t) \in Queues
  BY <1>1 DEF Types, Mine, Nodes
<1>3. node' = [node EXCEPT ![q[t]] = rec]
  BY DEF SendSet, Mine
<1>4. Mine(t).open /\ Mine(t).hasEvent => b
  OBVIOUS
<1> HIDE DEF b
<1>5. /\ rec.open = Mine(t).open /\ rec.hasEvent = Mine(t).hasEvent
      /\ rec.freed = Mine(t).freed /\ rec.signaled = b
  BY <1>2 DEF Queues
<1> HIDE DEF rec
<1>6. OwnQueueOnly(t) /\ node'[q[t]] = rec
  BY <1>1, <1>3, <1>5, UpdateOwn
<1> QED
  BY <1>1, <1>4, <1>5, <1>6

LEMMA StepOwn ==
  ASSUME IInv, NEW t \in Threads, Step(t), ~Create(t)
  PROVE  OwnQueueOnly(t) /\ closing' = closing
<1>1. CASE QueueLock(t) \/ Enqueue(t) \/ Dequeue(t) \/ QueueUnlock(t) \/ SendSet(t)
  <2>1. closing' = closing
    BY <1>1 DEF QueueLock, Enqueue, Dequeue, QueueUnlock, SendSet
  <2> QED
    BY <1>1, <2>1, QueueLockOwn, EnqueueOwn, DequeueOwn, QueueUnlockOwn, SendSetOwn
<1>2. CASE Begin(t) \/ SaveHead(t) \/ SearchUnlocked(t) \/ ListLock(t)
             \/ ListLockFails(t) \/ Recheck(t) \/ ListUnlock(t)
  <2>1. UNCHANGED <<node, closing>>
    BY <1>2 DEF Begin, SaveHead, SearchUnlocked, ListLock, ListLockFails, Recheck,
                ListUnlock
  <2> QED
    BY <2>1, NodeUnchanged
<1>3. CASE QueueLockFails(t) \/ TestClosing(t) \/ EnterWait(t) \/ WakeUp(t)
             \/ WaitQuit(t) \/ ReadFreed(t)
  <2>1. UNCHANGED <<node, closing>>
    BY <1>3 DEF QueueLockFails, TestClosing, EnterWait, WakeUp, WaitQuit, ReadFreed
  <2> QED
    BY <2>1, NodeUnchanged
<1> QED
  BY <1>1, <1>2, <1>3 DEF Step

LEMMA FinalizeShuts ==
  ASSUME Types, FinalizeClose \/ FinalizeFree
  PROVE  /\ Nodes' = Nodes
         /\ FinalizeClose => \A n \in Nodes : ~node'[n].open /\ node'[n].freed = node[n].freed
         /\ FinalizeFree => \A n \in Nodes : node'[n].open = node[n].open /\ node'[n].events = 0
<1>1. Len(node) \in Nat /\ \A n \in Nodes : node[n] \in Queues
  BY DEF Types, Nodes
<1>2. CASE FinalizeClose
  <2>1. node' = [n \in 1..Len(node) |-> [node[n] EXCEPT !.closing = TRUE, !.open = FALSE]]
    BY <1>2 DEF FinalizeClose
  <2>2. Nodes' = Nodes
    BY FinalizeKeeps DEF NodesKept, Nodes
  <2>3. \A n \in Nodes : node'[n] = [node[n] EXCEPT !.closing = TRUE, !.open = FALSE]
    BY <2>1 DEF Nodes
  <2>4. \A n \in Nodes : ~node'[n].open /\ node'[n].freed = node[n].freed
    BY <1>1, <2>3 DEF Queues
  <2>5. ~FinalizeFree
    BY <1>2 DEF FinalizeClose, FinalizeFree
  <2> QED
    BY <2>2, <2>4, <2>5
<1>3. CASE FinalizeFree
  <2>1. node' = [n \in 1..Len(node) |-> [node[n] EXCEPT !.freed = TRUE, !.events = 0]]
    BY <1>3 DEF FinalizeFree
  <2>2. Nodes' = Nodes
    BY FinalizeKeeps DEF NodesKept, Nodes
  <2>3. \A n \in Nodes : node'[n] = [node[n] EXCEPT !.freed = TRUE, !.events = 0]
    BY <2>1 DEF Nodes
  <2>4. \A n \in Nodes : node'[n].open = node[n].open /\ node'[n].events = 0
    BY <1>1, <2>3 DEF Queues
  <2>5. ~FinalizeClose
    BY <1>3 DEF FinalizeClose, FinalizeFree
  <2> QED
    BY <2>2, <2>4, <2>5
<1> QED
  BY <1>2, <1>3

LEMMA ClosedStep == IInv /\ ClosedForGood /\ [Next]_vars => ClosedForGood'
<1> SUFFICES ASSUME IInv, ClosedForGood, [Next]_vars PROVE ClosedForGood'
  OBVIOUS
<1>1. ASSUME NEW t \in Threads, Create(t) PROVE ClosedForGood'
  <2>1. closing \notin {"closed", "freed"} /\ closing' = closing
    BY <1>1, RegistryAssumption DEF Create, IInv, ListMutex, OwnsList, Threads
  <2>2. UNCHANGED node => Nodes' = Nodes
    BY DEF Nodes
  <2> QED
    BY <1>1, <2>1, <2>2, NewQueueIsOpen DEF ClosedForGood
<1>2. ASSUME NEW t \in Threads, Step(t), ~Create(t) PROVE ClosedForGood'
  BY <1>2, StepOwn DEF ClosedForGood, OwnQueueOnly
<1>3. CASE FinalizeLock \/ FinalizeLockTimeout
  BY <1>3 DEF FinalizeLock, FinalizeLockTimeout, ClosedForGood, Nodes
<1>4. CASE FinalizeClose
  BY <1>4, FinalizeShuts DEF FinalizeClose, ClosedForGood, IInv
<1>5. CASE FinalizeFree
  BY <1>5, FinalizeShuts DEF FinalizeFree, ClosedForGood, IInv
<1>6. CASE UNCHANGED vars
  BY <1>6 DEF vars, ClosedForGood, Nodes
<1> QED
  BY <1>1, <1>2, <1>3, <1>4, <1>5, <1>6 DEF Next, Finalize

-----------------------------------------------------------------------------
(* The promise for one queue.                                              *)
Announced(n) == \/ node[n].signaled
                \/ \E t \in Callers : q[t] = n /\ pc[t] \in {"unlock", "set"}

(* A sender that has added an event stays on its way to SetEvent until the *)
(* event is signaled or the queue closed.                                  *)
LEMMA WakeupStep == IInv /\ ClosedForGood /\ NoLostWakeup /\ [Next]_vars => NoLostWakeup'
<1> SUFFICES ASSUME IInv, ClosedForGood, NoLostWakeup, [Next]_vars PROVE NoLostWakeup'
  OBVIOUS
<1>0. /\ pc \in [Threads -> {"idle", "save", "search", "listLock", "recheck",
                             "create", "listUnlock", "unlockWait", "wild"} \cup Derefs]
      /\ q \in [Threads -> Nodes \cup {None}]
      /\ Callers \subseteq Threads
  BY DEF IInv, Types, Threads
<1>1. \A n \in Nodes : node[n].hasEvent /\ node[n].open /\ node[n].events > 0 => Announced(n)
  BY DEF NoLostWakeup, Announced
(* Senders that do not move keep the promise for the queues nobody touches.*)
<1>2. ASSUME NEW t \in Threads, OwnQueueOnly(t),
             \A u \in Threads \ {t} : pc'[u] = pc[u] /\ q'[u] = q[u],
             t \in Callers /\ pc[t] \in {"unlock", "set"} =>
               (pc'[t] \in {"unlock", "set"} /\ q'[t] = q[t]) \/ ~Mine(t).open,
             q[t] \in Nodes =>
               \/ /\ node'[q[t]].events = Mine(t).events
                  /\ node'[q[t]].signaled = Mine(t).signaled
               \/ ~Mine(t).open
      PROVE  NoLostWakeup'
  <2>1. ASSUME NEW n \in Nodes, node'[n].hasEvent, node'[n].open, node'[n].events > 0
        PROVE  Announced(n)'
    <3>1. node[n].hasEvent /\ node[n].open /\ node[n].events > 0
          /\ node'[n].signaled = node[n].signaled
      BY <1>2, <2>1 DEF OwnQueueOnly, Mine
    <3>2. Announced(n)
      BY <1>1, <3>1
    <3>3. CASE node[n].signaled
      BY <3>1, <3>3 DEF Announced
    <3>4. ASSUME NEW u \in Callers, q[u] = n, pc[u] \in {"unlock", "set"}
          PROVE  q'[u] = n /\ pc'[u] \in {"unlock", "set"}
      BY <1>0, <1>2, <3>1, <3>4 DEF Mine
    <3> QED
      BY <3>2, <3>3, <3>4 DEF Announced
  <2> QED
    BY <1>2, <2>1 DEF NoLostWakeup, Announced, OwnQueueOnly
<1>3. ASSUME NEW t \in Threads,
             Begin(t) \/ SaveHead(t) \/ SearchUnlocked(t) \/ ListLock(t)
               \/ ListLockFails(t) \/ Recheck(t) \/ ListUnlock(t)
               \/ QueueLockFails(t) \/ TestClosing(t) \/ EnterWait(t) \/ WakeUp(t)
               \/ WaitQuit(t)
      PROVE  NoLostWakeup'
  <2>1. /\ UNCHANGED node
        /\ pc[t] \notin {"unlock", "set"}
        /\ \A u \in Threads \ {t} : pc'[u] = pc[u] /\ q'[u] = q[u]
    BY <1>0, <1>3
       DEF Begin, SaveHead, SearchUnlocked, ListLock, ListLockFails, Recheck, ListUnlock,
           QueueLockFails, TestClosing, EnterWait, WakeUp, WaitQuit, Goto, Leave
  <2> QED
    BY <1>2, <2>1, NodeUnchanged DEF Mine
<1>4. ASSUME NEW t \in Threads, ReadFreed(t) PROVE NoLostWakeup'
  <2>1. UNCHANGED <<node, q>> /\ pc' = [pc EXCEPT ![t] = "wild"]
    BY <1>4 DEF ReadFreed, Goto
  <2>2. pc[t] = "search" \/ (pc[t] \in HasQueue /\ Mine(t).freed)
    BY <1>4 DEF ReadFreed, HasQueue
  <2>3. Mine(t).freed /\ pc[t] \in HasQueue => ~Mine(t).open
    <3>1. ASSUME Mine(t).freed, pc[t] \in HasQueue PROVE ~Mine(t).open
      <4>1. q[t] \in Nodes
        BY <3>1 DEF IInv, Found
      <4>2. closing = "freed"
        BY <3>1, <4>1 DEF ClosedForGood, Mine
      <4> QED
        BY <4>1, <4>2 DEF ClosedForGood, Mine
    <3> QED
      BY <3>1
  <2> QED
    BY <1>0, <1>2, <2>1, <2>2, <2>3, NodeUnchanged DEF Mine
<1>5. ASSUME NEW t \in Threads, QueueLock(t) PROVE NoLostWakeup'
  <2>1. /\ pc[t] = "lock" /\ UNCHANGED q
        /\ \A u \in Threads \ {t} : pc'[u] = pc[u]
    BY <1>0, <1>5 DEF QueueLock, Goto
  <2> QED
    BY <1>2, <1>5, <2>1, QueueLockOwn
<1>6. ASSUME NEW t \in Threads, QueueUnlock(t) PROVE NoLostWakeup'
  <2>1. \A u \in Threads \ {t} : pc'[u] = pc[u] /\ q'[u] = q[u]
    BY <1>0, <1>6 DEF QueueUnlock, Goto, Leave
  <2>2. t \in Callers /\ pc[t] \in {"unlock", "set"} =>
          (pc'[t] \in {"unlock", "set"} /\ q'[t] = q[t]) \/ ~Mine(t).open
    BY <1>0, <1>6, RegistryAssumption DEF QueueUnlock, Goto
  <2> QED
    BY <1>2, <1>6, <2>1, <2>2, QueueUnlockOwn
<1>7. ASSUME NEW t \in Threads, Enqueue(t) PROVE NoLostWakeup'
  <2>1. /\ t \in Callers /\ UNCHANGED q /\ pc[t] = "body" /\ pc'[t] = "unlock"
        /\ \A u \in Threads \ {t} : pc'[u] = pc[u]
    BY <1>0, <1>7 DEF Enqueue, Goto
  <2>2. OwnQueueOnly(t)
    BY <1>7, EnqueueOwn
  <2>3. Announced(q[t])'
    BY <2>1 DEF Announced
  <2>4. ASSUME NEW n \in Nodes, n # q[t], Announced(n) PROVE Announced(n)'
    BY <1>0, <2>1, <2>2, <2>4 DEF Announced, OwnQueueOnly
  <2> QED
    BY <1>1, <2>1, <2>2, <2>3, <2>4 DEF NoLostWakeup, Announced, OwnQueueOnly
<1>8. ASSUME NEW t \in Threads, SendSet(t) PROVE NoLostWakeup'
  <2>1. /\ pc[t] = "set"
        /\ \A u \in Threads \ {t} : pc'[u] = pc[u] /\ q'[u] = q[u]
    BY <1>0, <1>8 DEF SendSet, Goto, Leave
  <2>2. OwnQueueOnly(t) /\ q[t] \in Nodes
    BY <1>8, SendSetOwn
  <2>3. node'[q[t]].open /\ node'[q[t]].hasEvent => node'[q[t]].signaled
    BY <1>8, <2>2, SendSetOwn DEF OwnQueueOnly, Mine
  <2>4. ASSUME NEW n \in Nodes, n # q[t], Announced(n) PROVE Announced(n)'
    BY <1>0, <2>1, <2>2, <2>4 DEF Announced, OwnQueueOnly
  <2> QED
    BY <1>1, <2>2, <2>3, <2>4 DEF NoLostWakeup, Announced, OwnQueueOnly
<1>9. ASSUME NEW t \in Threads, Dequeue(t) PROVE NoLostWakeup'
  <2>1. /\ t \notin Callers /\ UNCHANGED q
        /\ \A u \in Threads \ {t} : pc'[u] = pc[u]
    BY <1>0, <1>9, RegistryAssumption DEF Dequeue, Goto
  <2>2. OwnQueueOnly(t) /\ q[t] \in Nodes
    BY <1>9, DequeueOwn
  <2>3. node'[q[t]].events > 0 => Mine(t).events > 0 /\ node'[q[t]].signaled = Mine(t).signaled
    BY <1>9, DequeueOwn
  <2>4. ASSUME NEW n \in Nodes, Announced(n), node'[n].signaled = node[n].signaled
        PROVE  Announced(n)'
    BY <1>0, <2>1, <2>4 DEF Announced
  <2> QED
    BY <1>1, <2>2, <2>3, <2>4 DEF NoLostWakeup, Announced, OwnQueueOnly, Mine
<1>10. ASSUME NEW t \in Threads, Create(t) PROVE NoLostWakeup'
  <2>1. /\ pc[t] = "create"
        /\ \A u \in Threads \ {t} : pc'[u] = pc[u] /\ q'[u] = q[u]
    BY <1>0, <1>10 DEF Create, Goto, Leave
  <2>2. CASE UNCHANGED node
    BY <1>2, <2>1, <2>2, NodeUnchanged DEF Mine
  <2>3. CASE /\ Nodes' = Nodes \cup {Len(node) + 1}
             /\ \A n \in Nodes : node'[n] = node[n]
             /\ node'[Len(node) + 1].events = 0
    <3>1. ASSUME NEW n \in Nodes, Announced(n) PROVE Announced(n)'
      BY <1>0, <2>1, <2>3, <3>1 DEF Announced
    <3> QED
      BY <1>1, <2>3, <3>1 DEF NoLostWakeup, Announced
  <2> QED
    BY <1>10, <2>2, <2>3, NewQueueIsOpen
<1>11. CASE FinalizeLock \/ FinalizeLockTimeout \/ UNCHANGED vars
  BY <1>11 DEF FinalizeLock, FinalizeLockTimeout, vars, tvars, NoLostWakeup, Nodes
<1>12. CASE FinalizeClose \/ FinalizeFree
  BY <1>12, FinalizeShuts DEF NoLostWakeup, IInv
<1>13. ASSUME NEW t \in Threads, Step(t) PROVE NoLostWakeup'
  BY <1>3, <1>4, <1>5, <1>6, <1>7, <1>8, <1>9, <1>10, <1>13 DEF Step
<1> QED
  BY <1>11, <1>12, <1>13 DEF Next, Finalize

(* No listener is left asleep with an event in its queue.                  *)
THEOREM WakeupNeverLost == Spec => []NoLostWakeup
<1>1. Init => ClosedForGood /\ NoLostWakeup
  BY DEF Init, ClosedForGood, NoLostWakeup, Nodes
<1> QED
  BY InvariantIInv, <1>1, ClosedStep, WakeupStep, PTL DEF Spec
=============================================================================

---------------------------- MODULE FilterInProofs -----------------------------
(***************************************************************************)
(* Proofs about FilterIn for content of any size, delivered and read in    *)
(* pieces of any size.                                                     *)
(***************************************************************************)
EXTENDS FilterIn, WellFoundedInduction, TLAPS

(* What the steps of a reader need to know of the types.                   *)
Sizes == /\ filled \in Nat
         /\ total \in {Unknown, ContentSize}
         /\ pos \in [Readers -> Nat]
         /\ len \in [Readers -> Nat]

Places == /\ pc \in [Threads -> {"idle", "check", "decide", "wait", "set", "connect"}]
          /\ \A r \in Readers : pc[r] \notin {"set", "connect"}
          /\ disturbed \in [Readers -> BOOLEAN] /\ flushing \in BOOLEAN
          /\ cs \in Readers \cup {Nobody}
          /\ result \in [Readers -> {"none", "OK", "FALSE", "TIMEOUT"}]

OneReader == \A r, r2 \in Readers : Reading(r) /\ Reading(r2) => r = r2

Inv == Sizes /\ Places /\ OneReader

LEMMA InitInv == Init => Inv
<1> SUFFICES ASSUME Init PROVE Inv
  OBVIOUS
<1>1. Sizes
  BY SizeAssumption DEF Init, Sizes
<1>2. Places
  BY ThreadAssumption DEF Init, Places, Threads
<1>3. OneReader
  BY DEF Init, OneReader, Reading, Threads
<1> QED
  BY <1>1, <1>2, <1>3 DEF Inv

LEMMA SizesStep == Inv /\ [Next]_vars => Sizes'
<1> SUFFICES ASSUME Sizes, [Next]_vars PROVE Sizes'
  BY DEF Inv
<1> USE SizeAssumption DEF Sizes, buffer, pin, call, bounds
<1>1. CASE Data \/ DataTotal
  BY <1>1 DEF Data, DataTotal
<1>2. CASE Connect \/ ConnectReturn \/ Disconnect \/ ChangeState \/ BeginFlush \/ EndFlush
  BY <1>2 DEF Connect, ConnectReturn, Disconnect, ChangeState, BeginFlush, EndFlush
<1>3. ASSUME NEW t \in {Source, Graph}, SetUnblock(t) PROVE Sizes'
  BY <1>3 DEF SetUnblock
<1>4. ASSUME NEW r \in Readers, Read(r) PROVE Sizes'
  BY <1>4 DEF Read
<1>5. ASSUME NEW r \in Readers, ReadStep(r) PROVE Sizes'
  BY <1>5 DEF ReadStep, Check, Wake, Decide
<1>6. CASE UNCHANGED vars
  BY <1>6 DEF vars
<1> QED
  BY <1>1, <1>2, <1>3, <1>4, <1>5, <1>6 DEF Next

LEMMA PlacesStep == Inv /\ [Next]_vars => Places' /\ OneReader'
<1> SUFFICES ASSUME Places, OneReader, [Next]_vars PROVE Places' /\ OneReader'
  BY DEF Inv
<1> USE ThreadAssumption DEF Places, OneReader, Reading, Threads, Goto, buffer, pin,
                             call, bounds
<1>1. CASE Data \/ DataTotal
  BY <1>1 DEF Data, DataTotal
<1>2. CASE Connect \/ ConnectReturn \/ ChangeState \/ EndFlush
  BY <1>2 DEF Connect, ConnectReturn, ChangeState, EndFlush
<1>3. CASE Disconnect \/ BeginFlush
  BY <1>3 DEF Disconnect, BeginFlush
<1>4. ASSUME NEW t \in {Source, Graph}, SetUnblock(t) PROVE Places' /\ OneReader'
  BY <1>4 DEF SetUnblock
<1>5. ASSUME NEW r \in Readers, Read(r) PROVE Places' /\ OneReader'
  <2>1. pc \in [Threads -> {"idle", "check", "decide", "wait", "set", "connect"}] /\ r \in Threads
    OBVIOUS
  <2>2. pc' = [pc EXCEPT ![r] = "check"] /\ \A r2 \in Readers : ~Reading(r2)
    BY <1>5 DEF Read
  <2>3. OneReader'
    BY <2>1, <2>2
  <2>4. Places'
    BY <1>5, <2>1, <2>2 DEF Read
  <2> QED
    BY <2>3, <2>4
<1>6. ASSUME NEW r \in Readers, ReadStep(r) PROVE Places' /\ OneReader'
  BY <1>6 DEF ReadStep, Check, Wake, Decide
<1>7. CASE UNCHANGED vars
  BY <1>7 DEF vars
<1> QED
  BY <1>1, <1>2, <1>3, <1>4, <1>5, <1>6, <1>7 DEF Next

LEMMA InvariantInv == Spec => []Inv
<1>1. Inv /\ [Next]_vars => Inv'
  BY SizesStep, PlacesStep DEF Inv
<1> QED
  BY InitInv, <1>1, PTL DEF Spec

-----------------------------------------------------------------------------
(* Whoever changes what a reader waits for is on its way to SetEvent, and  *)
(* the only thread that takes the signal is the one that will look again.  *)
LEMMA NoSleepStep == Inv /\ NoSleepingRead /\ [Next]_vars => NoSleepingRead'
<1> SUFFICES ASSUME Sizes, Places, OneReader, NoSleepingRead, [Next]_vars
             PROVE  NoSleepingRead'
  BY DEF Inv
<1> USE ThreadAssumption, SizeAssumption
    DEF NoSleepingRead, Places, Threads, Goto, buffer, pin, call, bounds
<1>1. CASE Data \/ DataTotal
  BY <1>1 DEF Data, DataTotal
<1>2. CASE Connect \/ ConnectReturn \/ EndFlush
  <2>1. CASE Connect
    BY <2>1 DEF Connect, Blocked
  <2>2. CASE ConnectReturn
    <3>1. UNCHANGED <<filled, total, flushing, pos, len, unblock>>
      BY <2>2 DEF ConnectReturn
    <3>0. connected => connected'
      BY <2>2, Zenon DEF ConnectReturn
    <3>3. \A r \in Readers : ~Blocked(r)' => ~Blocked(r)
      BY <3>0, <3>1 DEF Blocked
    <3>2. /\ \A t \in Threads : pc'[t] = "wait" => pc[t] = "wait"
          /\ \A t \in {Source, Graph} : pc[t] = "set" => pc'[t] = "set"
      BY <2>2 DEF ConnectReturn
    <3> QED
      BY <3>1, <3>2, <3>3
  <2>3. CASE EndFlush
    BY <2>3 DEF EndFlush, Blocked
  <2> QED
    BY <1>2, <2>1, <2>2, <2>3
<1>3. CASE ChangeState
  BY <1>3 DEF ChangeState, Blocked
<1>4. CASE Disconnect \/ BeginFlush
  BY <1>4 DEF Disconnect, BeginFlush
<1>5. ASSUME NEW t \in {Source, Graph}, SetUnblock(t) PROVE NoSleepingRead'
  BY <1>5 DEF SetUnblock
<1>6. ASSUME NEW r \in Readers, Read(r) PROVE NoSleepingRead'
  BY <1>6 DEF Read, Reading
<1>7. ASSUME NEW r \in Readers, Check(r) PROVE NoSleepingRead'
  BY <1>7 DEF Check, Blocked
<1>8. ASSUME NEW r \in Readers, Wake(r) PROVE NoSleepingRead'
  BY <1>8 DEF Wake, OneReader, Reading
<1>9. ASSUME NEW r \in Readers, Decide(r) PROVE NoSleepingRead'
  BY <1>9 DEF Decide, Blocked
<1>10. CASE UNCHANGED vars
  BY <1>10 DEF vars, Blocked
<1> QED
  BY <1>1, <1>2, <1>3, <1>4, <1>5, <1>6, <1>7, <1>8, <1>9, <1>10 DEF Next, ReadStep

(* No read sleeps through the signal that ends its wait.                   *)
THEOREM ReadNeverSleepsOn == Spec => []NoSleepingRead
<1>1. Init => NoSleepingRead
  BY ThreadAssumption DEF Init, NoSleepingRead, Threads
<1> QED
  BY <1>1, InvariantInv, NoSleepStep, PTL DEF Spec

-----------------------------------------------------------------------------
(* Nobody else broke in: the pin does not flush.                           *)
Undisturbed == \A r \in Readers : Reading(r) /\ ~disturbed[r] => ~flushing

(* A reader that is done waiting has its bytes, or they can never come.    *)
Over(r) == \/ pos[r] + len[r] > total
           \/ pos[r] + len[r] <= filled

WaitIsOver == \A r \in Readers :
  pc[r] = "decide" /\ ~disturbed[r] => Over(r)

(* With the sizes at hand the code's test for blocking is this one.        *)
LEMMA BlockedMeans ==
  ASSUME Sizes, NEW r \in Readers, connected, ~flushing, ~Blocked(r)
  PROVE  Over(r)
<1>1. /\ filled \in Nat /\ total \in Nat /\ pos[r] \in Nat /\ len[r] \in Nat
  BY SizeAssumption DEF Sizes
<1> QED
  BY <1>1 DEF Blocked, Over

LEMMA UndisturbedStep == Inv /\ Undisturbed /\ [Next]_vars => Undisturbed'
<1> SUFFICES ASSUME Places, Undisturbed, [Next]_vars PROVE Undisturbed'
  BY DEF Inv
<1> USE ThreadAssumption
    DEF Undisturbed, Places, Reading, Threads, Goto, buffer, pin, call, bounds
<1>1. CASE Data \/ DataTotal
  BY <1>1 DEF Data, DataTotal
<1>2. CASE Connect \/ ConnectReturn \/ ChangeState \/ EndFlush
  BY <1>2 DEF Connect, ConnectReturn, ChangeState, EndFlush
<1>3. CASE Disconnect \/ BeginFlush
  BY <1>3 DEF Disconnect, BeginFlush
<1>4. ASSUME NEW t \in {Source, Graph}, SetUnblock(t) PROVE Undisturbed'
  BY <1>4 DEF SetUnblock
<1>5. ASSUME NEW r \in Readers, Read(r) PROVE Undisturbed'
  BY <1>5 DEF Read
<1>6. ASSUME NEW r \in Readers, ReadStep(r) PROVE Undisturbed'
  BY <1>6 DEF ReadStep, Check, Wake, Decide
<1>7. CASE UNCHANGED vars
  BY <1>7 DEF vars
<1> QED
  BY <1>1, <1>2, <1>3, <1>4, <1>5, <1>6, <1>7 DEF Next

LEMMA OverStep == Inv /\ Undisturbed /\ WaitIsOver /\ [Next]_vars => WaitIsOver'
<1> SUFFICES ASSUME Sizes, Places, Undisturbed, WaitIsOver, [Next]_vars
             PROVE  WaitIsOver'
  BY DEF Inv
<1> USE ThreadAssumption DEF WaitIsOver, Places, Threads, Goto, buffer, pin, call, bounds
<1>1. CASE Data \/ DataTotal
  <2>1. /\ filled <= filled' /\ total' <= total
        /\ filled \in Nat /\ filled' \in Nat /\ total \in Nat /\ total' \in Nat
        /\ UNCHANGED <<pos, len, disturbed>>
    BY <1>1, SizeAssumption DEF Data, DataTotal, Sizes
  <2>2. \A r \in Readers : Over(r) => Over(r)'
    BY <2>1 DEF Over, Sizes
  <2>3. \A r \in Readers : pc'[r] = pc[r]
    BY <1>1 DEF Data, DataTotal
  <2> QED
    BY <2>1, <2>2, <2>3
<1>2. CASE Connect \/ ConnectReturn \/ ChangeState \/ EndFlush
  BY <1>2 DEF Connect, ConnectReturn, ChangeState, EndFlush, Over
<1>3. CASE Disconnect \/ BeginFlush
  BY <1>3 DEF Disconnect, BeginFlush, Over
<1>4. ASSUME NEW t \in {Source, Graph}, SetUnblock(t) PROVE WaitIsOver'
  BY <1>4 DEF SetUnblock, Over
<1>5. ASSUME NEW r \in Readers, Read(r) PROVE WaitIsOver'
  BY <1>5 DEF Read, Reading, Over
<1>6. ASSUME NEW r \in Readers, Check(r) PROVE WaitIsOver'
  <2>1. ASSUME ~Blocked(r), ~disturbed'[r] PROVE Over(r)
    <3>1. connected /\ ~disturbed[r] /\ pc[r] = "check"
      BY <1>6, <2>1 DEF Check
    <3> QED
      BY <2>1, <3>1, BlockedMeans DEF Undisturbed, Reading
  <2> QED
    BY <1>6, <2>1 DEF Check, Over
<1>7. ASSUME NEW r \in Readers, Wake(r) \/ Decide(r) PROVE WaitIsOver'
  BY <1>7 DEF Wake, Decide, Over
<1>8. CASE UNCHANGED vars
  BY <1>8 DEF vars, Over
<1> QED
  BY <1>1, <1>2, <1>3, <1>4, <1>5, <1>6, <1>7, <1>8 DEF Next, ReadStep

LEMMA InvariantOver == Spec => [](Inv /\ WaitIsOver)
<1>1. Init => Undisturbed /\ WaitIsOver
  BY ThreadAssumption DEF Init, Undisturbed, WaitIsOver, Reading, Threads
<1> QED
  BY <1>1, InvariantInv, UndisturbedStep, OverStep, PTL DEF Spec

(* A read is given fewer bytes than it asked for only at the end of the    *)
(* content, when a flush or a disconnect broke in, or when it found the    *)
(* pin not connected (filter_in_pin::SyncRead), whatever the content, its  *)
(* pieces and the interleaving.                                            *)
THEOREM ShortReadsExcused == Spec => ShortReadExcused
<1>1. ASSUME Inv, WaitIsOver, NEW r \in Readers, Decide(r), result'[r] = "FALSE"
      PROVE  pos[r] + len[r] > total \/ disturbed[r]
  <2>1. /\ filled \in Nat /\ pos[r] \in Nat /\ len[r] \in Nat /\ pc[r] = "decide"
        /\ result \in [Readers -> {"none", "OK", "FALSE", "TIMEOUT"}]
    BY <1>1 DEF Inv, Sizes, Places, Decide
  <2>2. ~ (filled >= pos[r] /\ filled - pos[r] >= len[r])
    BY <1>1, <2>1 DEF Decide
  <2> QED
    BY <1>1, <2>1, <2>2 DEF WaitIsOver, Over
<1>2. Inv /\ WaitIsOver /\ [Next]_vars =>
        [\A r \in Readers : (Decide(r) /\ result'[r] = "FALSE") =>
           pos[r] + len[r] > total \/ disturbed[r]]_vars
  BY <1>1
<1> QED
  BY InvariantOver, <1>2, PTL DEF Spec, ShortReadExcused

-----------------------------------------------------------------------------
(* Among numbers there is a least one.                                     *)
LEMMA LeastNumber ==
  ASSUME NEW S, S \subseteq Nat, S # {}
  PROVE  \E p \in S : \A q \in S : p <= q
<1> DEFINE R == OpToRel(<, Nat)
<1>1. IsWellFoundedOn(R, Nat)
  BY NatLessThanWellFounded
<1>2. \A x, y \in Nat : x < y => <<x, y>> \in R
  BY DEF OpToRel
<1> HIDE DEF R
<1>3. PICK p \in S : \A q \in S : ~(<<q, p>> \in R)
  BY <1>1, WFMin
<1>4. \A q \in S : p \in Nat /\ q \in Nat /\ ~(q < p)
  BY <1>2, <1>3
<1>5. \A q \in S : p <= q
  BY <1>4
<1> QED
  BY <1>5

(* What the buffer is enlarged to is enough for n bytes.                   *)
LEMMA RoundEnough ==
  ASSUME NEW n \in 0..ContentSize
  PROVE  Round(n) \in Nat /\ Round(n) >= n
<1> DEFINE Enough == {p \in {2^i : i \in 0..(Bits - 1)} : p >= n}
<1>1. n \in Nat /\ n <= ContentSize
  BY SizeAssumption
<1>2. \A i \in Nat : 2^i \in Int
  BY Z3
<1>3. Enough \subseteq Nat
  BY <1>1, <1>2, WidthAssumption
<1>4. 2^(Bits - 1) \in Enough
  <2>1. Bits - 1 \in 0..(Bits - 1) /\ Bits - 1 \in Nat
    BY WidthAssumption
  <2>2. 2^(Bits - 1) >= n
    BY <1>1, <1>2, <2>1, SizeAssumption, WidthAssumption
  <2> QED
    BY <2>1, <2>2
<1>5. Round(n) = CHOOSE p \in Enough : \A q \in Enough : p <= q
  BY DEF Round
<1>6. \A p \in Enough : p >= n
  OBVIOUS
<1> HIDE DEF Enough
<1>7. Round(n) \in Enough
  BY <1>3, <1>4, <1>5, LeastNumber
<1> QED
  BY <1>3, <1>6, <1>7

(* The sizes, and what only a type could say of the rest.                  *)
Allocated == filled \in 0..ContentSize /\ capacity \in Nat /\ filled <= capacity

Calls == /\ connected \in BOOLEAN /\ unblock \in BOOLEAN
         /\ state \in {"Stopped", "Paused", "Running"}
         /\ pos \in [Readers -> 0..ContentSize] /\ len \in [Readers -> Lens \cup {0}]
         /\ got \in [Readers -> Nat]
         /\ reads \in 0..MaxReads /\ flushes \in 0..MaxFlushes

LEMMA AllocatedStep == Allocated /\ [Next]_vars => Allocated'
<1> SUFFICES ASSUME Allocated, [Next]_vars PROVE Allocated'
  OBVIOUS
<1>1. CASE Data
  <2>1. PICK n \in Chunks :
          /\ filled + n <= ContentSize /\ filled' = filled + n
          /\ capacity' = IF capacity < filled + n THEN Round(filled + n)
                                                 ELSE capacity
    BY <1>1 DEF Data
  <2>2. filled + n \in 0..ContentSize
    BY <2>1, SizeAssumption DEF Allocated
  <2>3. Round(filled + n) \in Nat /\ Round(filled + n) >= filled + n
    BY <2>2, RoundEnough
  <2> QED
    BY <2>1, <2>2, <2>3, SizeAssumption DEF Allocated
<1>2. CASE ~Data
  <2>1. UNCHANGED <<filled, capacity>>
    BY <1>2 DEF Next, DataTotal, Connect, ConnectReturn, Disconnect, ChangeState, BeginFlush,
                EndFlush, SetUnblock, Read, ReadStep, Check, Wake, Decide,
                buffer, vars
  <2> QED
    BY <2>1 DEF Allocated
<1> QED
  BY <1>1, <1>2

LEMMA CallsStep == Inv /\ Allocated /\ Calls /\ [Next]_vars => Calls'
<1> SUFFICES ASSUME Inv, Allocated, Calls, [Next]_vars PROVE Calls'
  OBVIOUS
<1> USE BoundAssumption DEF Calls, buffer, pin, call, bounds
<1>1. CASE Data \/ DataTotal
  BY <1>1 DEF Data, DataTotal
<1>2. CASE Connect \/ ConnectReturn \/ ChangeState \/ EndFlush
  BY <1>2 DEF Connect, ConnectReturn, ChangeState, EndFlush
<1>3. CASE Disconnect \/ BeginFlush
  <2>1. /\ flushes < MaxFlushes /\ flushes' = flushes + 1
        /\ UNCHANGED <<state, unblock, pos, len, got, reads>>
        /\ connected' \in BOOLEAN
    BY <1>3 DEF Disconnect, BeginFlush
  <2> QED
    BY <2>1
<1>4. ASSUME NEW t \in {Source, Graph}, SetUnblock(t) PROVE Calls'
  BY <1>4 DEF SetUnblock
<1>5. ASSUME NEW r \in Readers, Read(r) PROVE Calls'
  BY <1>5 DEF Read
<1>6. ASSUME NEW r \in Readers, Check(r) \/ Wake(r) PROVE Calls'
  BY <1>6 DEF Check, Wake
<1>7. ASSUME NEW r \in Readers, Decide(r) PROVE Calls'
  <2>1. /\ filled \in Nat /\ pos[r] \in Nat /\ len[r] \in Nat
    BY DEF Inv, Sizes
  <2>2. got' \in [Readers -> Nat]
    BY <1>7, <2>1 DEF Decide
  <2> QED
    BY <1>7, <2>2 DEF Decide
<1>8. CASE UNCHANGED vars
  BY <1>8 DEF vars
<1> QED
  BY <1>1, <1>2, <1>3, <1>4, <1>5, <1>6, <1>7, <1>8 DEF Next, ReadStep

(* The state stays well-formed, and what has been delivered fits what is   *)
(* allocated, as long as the whole content, rounded up to a power of two,  *)
(* does (filter_in_filter::data, round).                                   *)
THEOREM ContentFits == Spec => []TypeOK
<1>1. Init => Allocated /\ Calls
  <2>1. /\ 0 \in 0..ContentSize /\ 0 \in Nat /\ 0 \in Lens \cup {0}
        /\ 0 \in 0..MaxReads /\ 0 \in 0..MaxFlushes /\ 0 <= 0
    BY SizeAssumption, BoundAssumption
  <2> QED
    BY <2>1 DEF Init, Allocated, Calls
<1>2. Spec => [](Inv /\ Allocated /\ Calls)
  BY <1>1, InvariantInv, AllocatedStep, CallsStep, PTL DEF Spec
<1>3. Inv /\ Allocated /\ Calls => TypeOK
  BY DEF Inv, Sizes, Places, Allocated, Calls, TypeOK
<1> QED
  BY <1>2, <1>3, PTL
=============================================================================

---------------------------- MODULE SlaveRingProofs ----------------------------
(***************************************************************************)
(* Proofs about SlaveRing for an array of any size and events and buffers  *)
(* of any length.                                                          *)
(***************************************************************************)
EXTENDS SlaveRing, TLAPS

(* The index goes round: up from the last slot is the first one.           *)
LEMMA UpWraps ==
  ASSUME NEW i \in 0..(MaxEvents - 1)
  PROVE  Up(i) = IF i = MaxEvents - 1 THEN 0 ELSE i + 1
<1>1. MaxEvents \in Nat \ {0}
  BY RingAssumption
<1>2. CASE i = MaxEvents - 1
  <2>1. MaxEvents % MaxEvents = 0
    BY <1>1
  <2> QED
    BY <1>1, <1>2, <2>1 DEF Up
<1>3. CASE i # MaxEvents - 1
  <2>1. i + 1 \in 0..(MaxEvents - 1)
    BY <1>1, <1>3
  <2>2. (i + 1) % MaxEvents = i + 1
    BY <1>1, <2>1
  <2> QED
    BY <1>3, <2>2 DEF Up
<1> QED
  BY <1>2, <1>3

LEMMA TypeStep == TypeOK /\ [Next]_vars => TypeOK'
<1> SUFFICES ASSUME TypeOK, [Next]_vars PROVE TypeOK'
  OBVIOUS
<1> USE RingAssumption DEF TypeOK
<1>1. CASE Send
  <2>1. Up(index) \in 0..(MaxEvents - 1)
    BY UpWraps
  <2>2. PICK l \in Lens : 
          \/ UNCHANGED <<slot, index, size, kept>> /\ result' = "FAIL"
          \/ /\ size # MaxEvents
             /\ slot' = [slot EXCEPT ![index] = [no |-> sends + 1, len |-> l]]
             /\ index' = Up(index)
             /\ size' = size + 1
             /\ kept' = kept \cup {[no |-> sends + 1, len |-> l]}
             /\ result' = "OK"
    BY <1>1 DEF Send
  <2>3. sends < MaxSends /\ sends' = sends + 1 /\ UNCHANGED <<got, refused>>
    BY <1>1 DEF Send
  <2>4. [no |-> sends + 1, len |-> l] \in Events
    BY <2>3 DEF Events
  <2> QED
    BY <2>1, <2>2, <2>3, <2>4
<1>2. CASE ReceiveNothing
  BY <1>2 DEF ReceiveNothing
<1>3. CASE ReceiveTooBig
  BY <1>3 DEF ReceiveTooBig, Down
<1>4. CASE ReceiveOK
  BY <1>4 DEF ReceiveOK, Down
<1>5. CASE UNCHANGED vars
  BY <1>5 DEF vars
<1> QED
  BY <1>1, <1>2, <1>3, <1>4, <1>5 DEF Next

(* The array is never indexed outside its bounds, whatever its size.       *)
THEOREM TypeCorrect == Spec => []TypeOK
<1>1. Init => TypeOK
  <2> SUFFICES ASSUME Init PROVE TypeOK
    OBVIOUS
  <2>1. slot \in [0..(MaxEvents - 1) -> Events \cup {Vacant}]
    BY DEF Init
  <2>2. index \in 0..(MaxEvents - 1) /\ size \in 0..MaxEvents /\ sends \in 0..MaxSends
    BY RingAssumption DEF Init
  <2> QED
    BY <2>1, <2>2 DEF Init, TypeOK
<1> QED
  BY <1>1, TypeStep, PTL DEF Spec

-----------------------------------------------------------------------------
(* Every event kept was sent before, so a new one is the newest.           *)
KeptIsOld == \A e \in kept : e.no <= sends

(* One slot further down, after the index has moved up or down.            *)
LEMMA BelowAfterUp ==
  ASSUME TypeOK, size < MaxEvents, NEW e,
         slot' = [slot EXCEPT ![index] = e], index' = Up(index)
  PROVE  /\ Below(1)' = e
         /\ \A k \in 1..size : Below(k + 1)' = Below(k)
<1> USE RingAssumption DEF TypeOK
<1>1. index' = IF index = MaxEvents - 1 THEN 0 ELSE index + 1
  BY UpWraps
<1>2. Below(1)' = e
  BY <1>1 DEF Below
<1>3. ASSUME NEW k \in 1..size PROVE Below(k + 1)' = Below(k)
  <2>1. k <= index \/ index + MaxEvents - k # index
    OBVIOUS
  <2>2. CASE k <= index
    BY <1>1, <2>2 DEF Below
  <2>3. CASE k > index
    BY <1>1, <2>3 DEF Below
  <2> QED
    BY <2>2, <2>3
<1> QED
  BY <1>2, <1>3

LEMMA BelowAfterDown ==
  ASSUME TypeOK, UNCHANGED slot, index' = Down(index)
  PROVE  /\ slot[Down(index)] = Below(1)
         /\ \A k \in 1..(size - 1) : Below(k)' = Below(k + 1)
<1> USE RingAssumption DEF TypeOK, Down, Below
<1>1. slot[Down(index)] = Below(1)
  OBVIOUS
<1>2. ASSUME NEW k \in 1..(size - 1) PROVE Below(k)' = Below(k + 1)
  OBVIOUS
<1> QED
  BY <1>1, <1>2

LEMMA KeptStep == TypeOK /\ KeptIsOld /\ KeptIntact /\ [Next]_vars
                     => KeptIsOld' /\ KeptIntact'
<1> SUFFICES ASSUME TypeOK, KeptIsOld, KeptIntact, [Next]_vars
             PROVE  KeptIsOld' /\ KeptIntact'
  OBVIOUS
<1>0. /\ size \in 0..MaxEvents /\ sends \in Nat /\ MaxEvents \in Nat \ {0}
      /\ kept \subseteq Events
  BY RingAssumption DEF TypeOK
<1>1. CASE Send
  <2>1. PICK l \in Lens : 
          \/ UNCHANGED <<slot, index, size, kept>>
          \/ /\ size # MaxEvents
             /\ slot' = [slot EXCEPT ![index] = [no |-> sends + 1, len |-> l]]
             /\ index' = Up(index)
             /\ size' = size + 1
             /\ kept' = kept \cup {[no |-> sends + 1, len |-> l]}
    BY <1>1 DEF Send
  <2>2. sends' = sends + 1 /\ refused' = refused
    BY <1>1 DEF Send
  <2>3. CASE UNCHANGED <<slot, index, size, kept>>
    BY <1>0, <2>2, <2>3 DEF KeptIsOld, KeptIntact, Below, Events
  <2>4. CASE kept' # kept
    <3> DEFINE e == [no |-> sends + 1, len |-> l]
    <3>1. /\ size < MaxEvents /\ size' = size + 1 /\ kept' = kept \cup {e}
          /\ slot' = [slot EXCEPT ![index] = e] /\ index' = Up(index)
      BY <1>0, <2>1, <2>4
    <3>2. /\ Below(1)' = e
          /\ \A k \in 1..size : Below(k + 1)' = Below(k)
      BY <3>1, BelowAfterUp
    <3>3. e.no = sends + 1
      OBVIOUS
    <3> HIDE DEF e
    <3>4. KeptIsOld'
      BY <1>0, <2>2, <3>1, <3>3 DEF KeptIsOld, Events
    <3>5. ASSUME ~refused PROVE kept' = {Below(k)' : k \in 1..size'}
      <4>1. \A k \in 1..size' : Below(k)' \in kept'
        <5>1. ASSUME NEW k \in 1..size', k # 1 PROVE Below(k)' \in kept'
          <6>1. k - 1 \in 1..size /\ (k - 1) + 1 = k
            BY <1>0, <3>1, <5>1
          <6>2. Below(k)' = Below(k - 1)
            BY <6>1, <3>2
          <6> QED
            BY <6>1, <6>2, <3>1, <3>5 DEF KeptIntact
        <5> QED
          BY <5>1, <3>1, <3>2
      <4>2. \A d \in kept' : \E k \in 1..size' : d = Below(k)'
        <5>1. ASSUME NEW d \in kept PROVE \E k \in 1..size' : d = Below(k)'
          <6>1. PICK j \in 1..size : d = Below(j)
            BY <3>5 DEF KeptIntact
          <6>2. j + 1 \in 1..size' /\ Below(j + 1)' = d
            BY <1>0, <3>1, <3>2, <6>1
          <6> QED
            BY <6>2
        <5>2. 1 \in 1..size'
          BY <1>0, <3>1
        <5> QED
          BY <5>1, <5>2, <3>1, <3>2
      <4> QED
        BY <4>1, <4>2
    <3>6. ASSUME ~refused, NEW k \in 1..size', k # 1
          PROVE  /\ k - 1 \in 1..size /\ Below(k)' = Below(k - 1)
                 /\ Below(k)' \in kept /\ Below(k)' # Below(1)'
      <4>1. k - 1 \in 1..size /\ (k - 1) + 1 = k
        BY <1>0, <3>1, <3>6
      <4>2. Below(k)' = Below(k - 1) /\ Below(k - 1) \in kept
        BY <4>1, <3>2, <3>6 DEF KeptIntact
      <4>3. Below(k - 1).no <= sends
        BY <4>2 DEF KeptIsOld
      <4>4. Below(k - 1) # e
        BY <1>0, <3>3, <4>3
      <4> QED
        BY <3>2, <4>1, <4>2, <4>4
    <3>7. ASSUME ~refused, NEW j \in 1..size', NEW k \in 1..size', j # k
          PROVE  Below(j)' # Below(k)'
      <4>1. CASE j = 1 \/ k = 1
        BY <3>6, <3>7, <4>1
      <4>2. CASE j # 1 /\ k # 1
        <5>1. /\ j - 1 \in 1..size /\ Below(j)' = Below(j - 1)
              /\ k - 1 \in 1..size /\ Below(k)' = Below(k - 1)
          BY <3>6, <3>7, <4>2
        <5>2. j - 1 # k - 1
          BY <1>0, <3>1, <3>7
        <5> QED
          BY <3>7, <5>1, <5>2 DEF KeptIntact
      <4> QED
        BY <4>1, <4>2
    <3> QED
      BY <2>2, <3>4, <3>5, <3>7 DEF KeptIntact
  <2>5. CASE kept' = kept /\ ~UNCHANGED <<slot, index, size, kept>>
    <3>1. [no |-> sends + 1, len |-> l] \in kept
      BY <2>1, <2>5
    <3>2. [no |-> sends + 1, len |-> l].no <= sends
      BY <3>1 DEF KeptIsOld
    <3> QED
      BY <1>0, <3>2
  <2> QED
    BY <2>3, <2>4, <2>5
<1>2. CASE ReceiveNothing
  BY <1>2 DEF ReceiveNothing, KeptIsOld, KeptIntact, Below
<1>3. CASE ReceiveTooBig
  BY <1>3 DEF ReceiveTooBig, KeptIsOld, KeptIntact
<1>4. CASE ReceiveOK
  <2>1. /\ size # 0 /\ size' = size - 1 /\ index' = Down(index)
        /\ kept' = kept \ {slot[Down(index)]}
        /\ UNCHANGED <<slot, refused, sends>>
    BY <1>4 DEF ReceiveOK
  <2>2. /\ slot[Down(index)] = Below(1)
        /\ \A k \in 1..(size - 1) : Below(k)' = Below(k + 1)
    BY <2>1, BelowAfterDown
  <2>3. KeptIsOld'
    BY <2>1 DEF KeptIsOld
  <2>4. ASSUME ~refused PROVE kept' = {Below(k)' : k \in 1..size'}
    <3>1. \A k \in 1..size' : Below(k)' \in kept'
      <4>1. ASSUME NEW k \in 1..size' PROVE Below(k)' \in kept'
        <5>1. k + 1 \in 1..size /\ 1 \in 1..size /\ k \in 1..(size - 1)
          BY <1>0, <2>1
        <5>2. Below(k + 1) \in kept
          BY <5>1, <2>4 DEF KeptIntact
        <5>3. Below(k + 1) # Below(1)
          BY <1>0, <5>1, <2>4 DEF KeptIntact
        <5> QED
          BY <5>1, <5>2, <5>3, <2>1, <2>2
      <4> QED
        BY <4>1
    <3>2. \A d \in kept' : \E k \in 1..size' : d = Below(k)'
      <4>1. ASSUME NEW d \in kept' PROVE \E k \in 1..size' : d = Below(k)'
        <5>1. PICK j \in 1..size : d = Below(j)
          BY <2>1, <2>4 DEF KeptIntact
        <5>2. j # 1
          BY <5>1, <2>1, <2>2
        <5>3. j - 1 \in 1..size' /\ j - 1 \in 1..(size - 1) /\ (j - 1) + 1 = j
          BY <1>0, <2>1, <5>2
        <5> QED
          BY <5>1, <5>3, <2>2
      <4> QED
        BY <4>1
    <3> QED
      BY <3>1, <3>2
  <2>5. ASSUME ~refused, NEW j \in 1..size', NEW k \in 1..size', j # k
        PROVE  Below(j)' # Below(k)'
    <3>1. /\ j + 1 \in 1..size /\ k + 1 \in 1..size /\ j + 1 # k + 1
          /\ j \in 1..(size - 1) /\ k \in 1..(size - 1)
      BY <1>0, <2>1, <2>5
    <3> QED
      BY <3>1, <2>2, <2>5 DEF KeptIntact
  <2> QED
    BY <2>1, <2>3, <2>4, <2>5 DEF KeptIntact
<1>5. CASE UNCHANGED vars
  BY <1>5 DEF vars, KeptIsOld, KeptIntact, Below
<1> QED
  BY <1>1, <1>2, <1>3, <1>4, <1>5 DEF Next

(* Until a receive is refused the slots below the index are the events     *)
(* kept, each once, for an array of any size (javacall_event_send and      *)
(* javacall_event_receive of events_slave_mode.c).                         *)
THEOREM EventsKept == Spec => []KeptIntact
<1>1. Init => KeptIsOld /\ KeptIntact
  BY DEF Init, KeptIsOld, KeptIntact
<1> QED
  BY <1>1, TypeCorrect, KeptStep, PTL DEF Spec
=============================================================================

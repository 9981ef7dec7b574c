------------------------------- MODULE SlaveRing -------------------------------
(***************************************************************************)
(* The event store of slave mode (src/implementation/share/events/         *)
(* events_slave_mode.c): a fixed array with one index.  A send writes at   *)
(* the index and moves it up; a receive moves it down and reads there: the *)
(* newest event comes out first, although the comment above the send       *)
(* (line 112) and javacall_events.h:98 speak of a queue of messages.       *)
(* Everything runs on the VM's thread.                                     *)
(***************************************************************************)
EXTENDS Integers

CONSTANTS
  MaxEvents,      \* MAX_EVENTS
  EventDataSize,  \* EVENT_DATA_SIZE
  Lens,           \* event sizes the platform sends, in bytes
  BufLens,        \* buffer sizes the VM offers
  MaxSends        \* bound: sends, so that events can be told apart

ASSUME RingAssumption == /\ MaxEvents \in Nat \ {0}
                         /\ EventDataSize \in Nat
                         /\ Lens \subseteq Nat /\ BufLens \subseteq Nat
                         /\ MaxSends \in Nat

Events == [no : 1..MaxSends, len : Lens]
Vacant == [no |-> 0, len |-> 0]   \* a slot nobody has written yet

VARIABLES
  slot,     \* eventsArray
  index,
  size,
  kept,     \* what the store should hold: accepted, not yet received
  result,   \* what the last call returned
  got,      \* the event the last successful receive delivered
  refused,  \* history: some receive has returned JAVACALL_OUT_OF_MEMORY
  sends     \* history: sends made

vars == <<slot, index, size, kept, result, got, refused, sends>>

Init ==
  /\ slot = [i \in 0..(MaxEvents - 1) |-> Vacant]
  /\ index = 0
  /\ size = 0
  /\ kept = {}
  /\ result = "none"
  /\ got = Vacant
  /\ refused = FALSE
  /\ sends = 0

(* Mutated form: the index runs past the end of the array.                 *)
UpNoWrap(i) == i + 1

Up(i) == (i + 1) % MaxEvents

(* Mutated form: at the bottom the index stays where it is.                *)
DownNoWrap(i) == IF i = 0 THEN 0 ELSE i - 1

Down(i) == IF i = 0 THEN MaxEvents - 1 ELSE i - 1

(* javacall_event_send                                                     *)
Send ==
  /\ sends < MaxSends
  /\ sends' = sends + 1
  /\ \E l \in Lens :
       LET e == [no |-> sends + 1, len |-> l]
       IN  \/ /\ size = MaxEvents \/ EventDataSize < l
              /\ result' = "FAIL"
              /\ UNCHANGED <<slot, index, size, kept>>
           \/ /\ size # MaxEvents /\ EventDataSize >= l
              /\ slot' = [slot EXCEPT ![index] = e]
              /\ index' = Up(index)
              /\ size' = size + 1
              /\ kept' = kept \cup {e}
              /\ result' = "OK"
  /\ UNCHANGED <<got, refused>>

ReceiveNothing ==
  /\ size = 0
  /\ result' = "FAIL"
  /\ UNCHANGED <<slot, index, size, kept, got, refused, sends>>

(* The index has moved by the time the size is compared.                   *)
ReceiveTooBig ==
  /\ size # 0
  /\ index' = Down(index)
  /\ \E b \in BufLens : slot[Down(index)].len > b
  /\ result' = "OUT_OF_MEMORY"
  /\ refused' = TRUE
  /\ UNCHANGED <<slot, size, kept, got, sends>>

ReceiveOK ==
  /\ size # 0
  /\ index' = Down(index)
  /\ \E b \in BufLens : slot[Down(index)].len <= b
  /\ got' = slot[Down(index)]
  /\ kept' = kept \ {slot[Down(index)]}
  /\ size' = size - 1
  /\ result' = "OK"
  /\ UNCHANGED <<slot, refused, sends>>

Next == Send \/ ReceiveNothing \/ ReceiveTooBig \/ ReceiveOK

Spec == Init /\ [][Next]_vars

-----------------------------------------------------------------------------
(* The array is never indexed outside its bounds and the count stays right.*)
TypeOK ==
  /\ slot \in [0..(MaxEvents - 1) -> Events \cup {Vacant}]
  /\ index \in 0..(MaxEvents - 1)
  /\ size \in 0..MaxEvents
  /\ kept \subseteq Events
  /\ result \in {"none", "OK", "FAIL", "OUT_OF_MEMORY"}
  /\ got \in Events \cup {Vacant}
  /\ refused \in BOOLEAN
  /\ sends \in 0..MaxSends

(* The slot k places below the index.                                      *)
Below(k) == slot[IF k <= index THEN index - k ELSE index + MaxEvents - k]

(* As long as no receive was refused for its buffer, the slots below the   *)
(* index are exactly the events kept, each once: wrapping around loses and *)
(* repeats nothing.  In which order they come out it does not say.         *)
KeptIntact ==
  ~refused => /\ kept = {Below(k) : k \in 1..size}
              /\ \A j, k \in 1..size : j # k => Below(j) # Below(k)

(* "if not enough memory, we keep the event in the list so that client     *)
(* code can re-invoke with bigger buffer" (events_slave_mode.c:97): a      *)
(* receive that follows a refused one delivers the event that was refused. *)
RetryDeliversRefused ==
  [][result = "OUT_OF_MEMORY" /\ ReceiveOK => got' = slot[index]]_vars
=============================================================================

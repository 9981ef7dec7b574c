----------------------------- MODULE EventChannel -----------------------------
(***************************************************************************)
(* What the porting layer promises about the VM's event queue              *)
(* (interface/common/javacall_events.h, javacall_event_send and            *)
(* javacall_event_receive): an event that was sent is kept, in order, until*)
(* one receive hands it over, once, cut to the receiver's buffer.          *)
(***************************************************************************)
EXTENDS Naturals, Sequences

CONSTANTS
  Events,   \* everything that can be sent
  Length,   \* Length[e]: size of event e in bytes
  Buffers   \* the buffer sizes a receiver may offer

VARIABLES
  chan,     \* events sent and not yet received, oldest first
  taken     \* what the receivers got: [event, size] in the order they got it

vars == <<chan, taken>>

Shorter(a, b) == IF a < b THEN a ELSE b

Init == chan = << >> /\ taken = << >>

Post(e) == /\ chan' = Append(chan, e)
           /\ UNCHANGED taken

Take(b) == /\ chan # << >>
           /\ taken' = Append(taken, [event |-> Head(chan),
                                      size  |-> Shorter(b, Length[Head(chan)])])
           /\ chan' = Tail(chan)

Next == \/ \E e \in Events : Post(e)
        \/ \E b \in Buffers : Take(b)

Safety == Init /\ [][Next]_vars

(* The VM goes on asking, so an event that waits is taken.                 *)
Spec == Safety /\ WF_vars(\E b \in Buffers : Take(b))
=============================================================================

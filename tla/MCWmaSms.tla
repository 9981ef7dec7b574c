------------------------------- MODULE MCWmaSms -------------------------------
EXTENDS WmaSms

CONSTANTS text, binary, wide, short, plain, tooLong

(* Three messages of two segments, one more than there are reference       *)
(* numbers: text and binary, whose last share is odd, so that the type     *)
(* byte of text is zero, and one whose shares are both even.               *)
MCMsgLen ==
  [m \in Msgs |-> CASE m = text -> 151 [] m = binary -> 153 [] m = wide -> 232
                    [] m = short -> 121 [] m = plain -> 10 [] m = tooLong -> 349]
MCMsgType == [m \in Msgs |-> CASE m = binary -> 1 [] m = wide -> 2 [] OTHER -> 0]
MCDestPort == [m \in Msgs |-> IF m = plain THEN 0 ELSE 5000]

(* There is no other zero byte in a segment.                               *)
MCNextZero == [m \in Msgs |-> [s \in 0..(MaxSegm - 1) |-> 255]]

(* fix_zero and fix_zero_back are inverse to each other, and leave no zero.*)
ASSUME ZerosRestored ==
  \A n \in 2..5 : \A fix \in 2..n :
    \A buf \in [1..n -> {0, 7, 255}] :
      buf[1] # 0 =>
        LET fixed == FixZero(buf, fix)
        IN  /\ \A i \in 1..n : fixed[i] # 0
            /\ \A i \in (1..n) \ {fix} : FixZeroBack(fixed, fix)[i] = buf[i]

(* The segments of a message make up its length, and none is empty or      *)
(* larger than a datagram.                                                 *)
ASSUME SegmentsCover ==
  \A len \in 0..400 :
    LET n == Segments(len)
        Sum[s \in 0..n] ==
          IF s = 0 THEN 0 ELSE Sum[s - 1] + ShareOf(len, s - 1)
    IN  n > 1 => /\ Sum[n] = len
                 /\ \A s \in 0..(n - 1) : ShareOf(len, s) \in 1..SegmPayload
=============================================================================

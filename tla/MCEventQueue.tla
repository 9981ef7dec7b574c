----------------------------- MODULE MCEventQueue -----------------------------
EXTENDS EventQueue

CONSTANTS s1, s2, vm, none

MCSenders == {s1, s2}
MCReceivers == {vm}
MCMaxCalls == [t \in {s1, s2, vm} |-> IF t = s1 THEN 2 ELSE 1]
=============================================================================

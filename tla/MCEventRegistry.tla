---------------------------- MODULE MCEventRegistry ----------------------------
EXTENDS EventRegistry

CONSTANTS c1, c2, l1, vm, jsr, other, none

MCCallers == {c1, c2}
MCListeners == {l1}
MCSubsystems == {jsr, other}
=============================================================================

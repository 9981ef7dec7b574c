------------------------------ MODULE MCSlaveRing ------------------------------
EXTENDS SlaveRing
=============================================================================

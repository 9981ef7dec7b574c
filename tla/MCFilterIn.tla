------------------------------ MODULE MCFilterIn ------------------------------
EXTENDS FilterIn

CONSTANTS r1, vm, graph, none

MCReaders == {r1}
=============================================================================

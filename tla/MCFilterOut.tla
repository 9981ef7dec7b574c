------------------------------ MODULE MCFilterOut ------------------------------
EXTENDS FilterOut
=============================================================================

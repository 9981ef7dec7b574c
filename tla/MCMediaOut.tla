------------------------------ MODULE MCMediaOut ------------------------------
EXTENDS MediaOut

CONSTANTS p1, gm1

MCPlayers == {p1}
MCChannels == {p1, gm1}
=============================================================================

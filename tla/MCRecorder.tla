------------------------------ MODULE MCRecorder ------------------------------
EXTENDS Recorder

(* -1 asks for no limit (javacall_multimedia.h:1697).                      *)
MCSizes == {-1, 0, 4, 9}
=============================================================================

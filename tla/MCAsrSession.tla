---------------------------- MODULE MCAsrSession -----------------------------
(***************************************************************************)
(* The instance of AsrSession for TLC.  A slot stands for several seconds  *)
(* of the code's limits, and one slot is retained and one guarded.  The    *)
(* window is longer than what a trim leaves in the buffer, as the          *)
(* application's 20 s are longer than 45 s - 30 s.                         *)
(***************************************************************************)
EXTENDS AsrSession
=============================================================================

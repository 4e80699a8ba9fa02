---------------------------- MODULE MCTranscriber ----------------------------
(***************************************************************************)
(* TLC makes the table of rounds here, once, and checks what it holds.     *)
(***************************************************************************)
EXTENDS Transcriber

Spans == [start : Int, end : Int]
Kept == [start : Int, end : Int, first : Spans, last : Spans,
         words : BOOLEAN, text : BOOLEAN, odd : BOOLEAN]

ASSUME TableAssumption ==
  Table \in [Contexts -> SUBSET [segments : Seq(Kept), seek : Nat]]
=============================================================================

-------------------------- MODULE MCReconnectClient --------------------------
(***************************************************************************)
(* Instances of ReconnectClient for TLC: chunks of one unit, a chunk longer  *)
(* than the whole buffer, and one that needs all of it.                    *)
(***************************************************************************)
EXTENDS ReconnectClient

UnitChunks  == [c \in Chunks |-> 1]
MixedChunks == [c \in Chunks |-> IF c = 2 THEN 5 ELSE IF c = 5 THEN 4 ELSE 1]
=============================================================================

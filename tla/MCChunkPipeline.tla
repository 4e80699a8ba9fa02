--------------------------- MODULE MCChunkPipeline ---------------------------
(***************************************************************************)
(* Instances of ChunkPipeline for TLC.  The microphone makes one chunk     *)
(* more than the loudspeaker, which is enough for each reader to find the  *)
(* queue filled by the other.                                              *)
(***************************************************************************)
EXTENDS ChunkPipeline

MCMaxChunks == [s \in Sources |-> IF s = "mic" THEN 2 ELSE 1]
=============================================================================

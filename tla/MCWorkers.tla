------------------------------ MODULE MCWorkers ------------------------------
(***************************************************************************)
(* An instance of Workers for TLC: the translated session submits two      *)
(* windows, one of which may be answered late, the other session one.      *)
(***************************************************************************)
EXTENDS Workers

MCMaxRequests == [s \in Sessions |-> IF s \in Translated THEN 2 ELSE 1]
=============================================================================

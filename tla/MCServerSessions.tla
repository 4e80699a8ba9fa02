-------------------------- MODULE MCServerSessions --------------------------
(***************************************************************************)
(* Instances of ServerSessions for TLC: the microphone's and the           *)
(* loudspeaker's connections of one client, which ask for different voice  *)
(* activity detection, and a third one.                                    *)
(***************************************************************************)
EXTENDS ServerSessions

MCWantVad == [c \in Conns |-> c = "mic"]
=============================================================================

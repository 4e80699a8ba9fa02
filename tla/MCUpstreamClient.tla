--------------------------- MODULE MCUpstreamClient ---------------------------
(***************************************************************************)
(* The instance of UpstreamClient for TLC: two clients, one of which is    *)
(* sent segments; the subtitles are looked at with a file and a network    *)
(* stream, the recording with the microphone.                              *)
(***************************************************************************)
EXTENDS UpstreamClient

RetriesOfOne == <<1, 0>>
Packets == [file |-> 1, network |-> 1, live |-> 3]
SomeSpans == {<<0, 1>>, <<1, 2>>, <<0, 2>>}
SegmentsOfOne == [file |-> <<2, 0>>, network |-> <<1, 0>>, live |-> <<0, 0>>]
=============================================================================

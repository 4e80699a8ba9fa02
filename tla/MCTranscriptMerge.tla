-------------------------- MODULE MCTranscriptMerge --------------------------
(***************************************************************************)
(* Instances of TranscriptMerge and TranscriptEvents for TLC: results 11,  *)
(* 12, ... come from the microphone and 21, 22, ... from the loudspeaker.  *)
(* The starts leave results within, at and beyond the reorder delay of     *)
(* each other, and two results with the same start.  Text b is similar to  *)
(* a and to c; a, c and d are not similar to each other, one more than the *)
(* cache holds.                                                            *)
(***************************************************************************)
EXTENDS TranscriptEvents

MCSourceOf == [r \in Results |-> IF r < 20 THEN "mic" ELSE "speaker"]
MCStart == [r \in Results |-> CASE r = 11 -> 1 [] r = 12 -> 3 [] r = 21 -> 2
                                [] r = 22 -> 3 [] OTHER -> 5]
MCTie == [r \in Results |-> IF r < 20 THEN 0 ELSE 1]
MCTexts == [s \in Sources |-> IF s = "mic" THEN {"a", "b", "c", "d"} ELSE {"a"}]
MCSimilar == {<<x, x>> : x \in AllTexts}
               \cup {<<"a", "b">>, <<"b", "a">>, <<"b", "c">>, <<"c", "b">>}
=============================================================================

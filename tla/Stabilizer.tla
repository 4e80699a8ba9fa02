------------------------------ MODULE Stabilizer ------------------------------
(***************************************************************************)
(* SegmentStabilizer (postprocessing.py): what becomes of one segment      *)
(* before it is sent.  It is dropped, held as pending until the same text  *)
(* is heard again, or let through; a session has one stabilizer and calls  *)
(* it from its recognition thread only, so its state is a record and a     *)
(* call is an operator.                                                    *)
(*                                                                         *)
(* A segment has start, end, text and completed.  What is known of a text, *)
(* Known[t], stands for its words and for what the recogniser reports with *)
(* it: the score of a segment that says it, as a partial, when completed   *)
(* (once) and when seen before (again); its probability of no speech, in   *)
(* hundredths; and whether all of them are evidence for a short phrase.    *)
(***************************************************************************)
EXTENDS Integers, Sequences, SequencesExt, Ordering

CONSTANTS
  Known,            \* text -> [says, kind, partial, once, again, noSpeech, evidence]
  EmitThreshold,    \* emit_threshold
  ReviewThreshold,  \* review_threshold
  RepeatWindow,     \* repeated_text_window
  PendingWindow,    \* pending_window
  MaxPendingAge,    \* max_pending_age
  PhraseDuration    \* short_phrase_min_duration_seconds

ASSUME StabilizerAssumption ==
  /\ RepeatWindow \in Nat \ {0} /\ PendingWindow \in Nat \ {0}
  /\ MaxPendingAge \in Nat /\ PhraseDuration \in Nat
  /\ EmitThreshold \in Int /\ ReviewThreshold \in Int
  /\ \A t \in DOMAIN Known :
       /\ Known[t].partial \in Int /\ Known[t].once \in Int
       /\ Known[t].again \in Int /\ Known[t].noSpeech \in Int
       /\ Known[t].partial <= Known[t].again /\ Known[t].once <= Known[t].again

NewSession == [turn |-> 0, recent |-> <<>>, reviewed |-> <<>>, pending |-> <<>>]

(* Appending to a deque with a maximal length. *)
Push(q, e, n) == LET p == Append(q, e) IN
                   IF Len(p) > n THEN Tail(p) ELSE p

-----------------------------------------------------------------------------
(* The reliability score.  A text seen before has its full score for       *)
(* stability and for context, whether the segment is completed or not; the *)
(* other factors depend on the text and the report alone.                  *)
Score(k, completed, seen) ==
  IF seen THEN k.again ELSE IF completed THEN k.once ELSE k.partial

-----------------------------------------------------------------------------
(* What is dropped whatever its score *)

(* The text without repeated words and sentences. *)
Says(seg) == Known[seg.text].says

(* A short phrase that the recogniser likes to hear in silence. *)
StrongEvidence(seg) ==
  seg.end - seg.start >= PhraseDuration /\ Known[seg.text].evidence

SegmentKey(seg) == <<Says(seg), seg.start, seg.end>>

Duplicate_Never(st, seg) == FALSE
Duplicate(st, seg) == seg.completed /\ Contains(st.recent, SegmentKey(seg))

IsMediaHallucination(seg) == Known[seg.text].kind = "media"
IsDegenerateRepetition(seg) == Known[seg.text].kind = "loop"
IsShortPhrase(seg) == Known[seg.text].kind = "phrase"

Dropped(st, seg) ==
  \/ IsMediaHallucination(seg) \/ IsDegenerateRepetition(seg)
  \/ IsShortPhrase(seg) /\ (~seg.completed \/ ~StrongEvidence(seg))
  \/ Duplicate(st, seg)

-----------------------------------------------------------------------------
(* The pending segments, of which only text and turn are looked at *)

Fresh_Shorter(st, item) == st.turn - item.turn < MaxPendingAge
Fresh(st, item) == st.turn - item.turn <= MaxPendingAge

NextTurn(st) ==
  LET s == [st EXCEPT !.turn = @ + 1] IN
    [s EXCEPT !.pending =
       ElementsAt(@, {i \in DOMAIN @ : Fresh(s, @[i])})]

SeenBefore(st, text) ==
  \/ \E i \in DOMAIN st.pending : st.pending[i].text = text
  \/ Contains(st.reviewed, text)

Without(st, text) ==
  ElementsAt(st.pending, {i \in DOMAIN st.pending : st.pending[i].text # text})

HoldPending(st, text) ==
  [st EXCEPT !.pending =
     Push(Without(st, text), [text |-> text, turn |-> st.turn], PendingWindow)]

(* A completed segment that is let through. *)
Pass(st, seg, score) ==
  [st EXCEPT !.recent = Push(@, SegmentKey(seg), RepeatWindow),
             !.pending = Without(st, Says(seg)),
             !.reviewed = IF score < EmitThreshold
                            THEN Push(@, Says(seg), PendingWindow) ELSE @]

(* __call__: the next state, what it returns, nothing or the segment with  *)
(* its text collapsed, and what was decided: drop, hold, or the action of  *)
(* the score.                                                              *)
Stabilized(old, seg) ==
  LET st    == NextTurn(old)
      text  == Says(seg)
      score == Score(Known[seg.text], seg.completed, SeenBefore(st, text))
  IN  IF Dropped(st, seg) THEN [state |-> st, out |-> <<>>, action |-> "drop"]
      ELSE IF score < ReviewThreshold
        THEN [state |-> IF seg.completed THEN HoldPending(st, text) ELSE st,
              out |-> <<>>, action |-> "hold"]
        ELSE [state |-> IF seg.completed THEN Pass(st, seg, score) ELSE st,
              out |-> <<[seg EXCEPT !.text = text]>>,
              action |-> IF score < EmitThreshold THEN "review" ELSE "emit"]
=============================================================================

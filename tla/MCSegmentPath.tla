---------------------------- MODULE MCSegmentPath -----------------------------
(***************************************************************************)
(* The instance of SegmentPath for TLC: a clear text, one the recogniser   *)
(* is unsure of, a phrase it hears in silence and a silent one.  Scores    *)
(* below 1 are pending, 1 is for review and 2 is emitted.                  *)
(***************************************************************************)
EXTENDS SegmentPath

Of(text, kind, partial, once, again) ==
  [says |-> text, kind |-> kind, partial |-> partial, once |-> once,
   again |-> again, noSpeech |-> 10, evidence |-> TRUE]

KnownTexts ==
  [clear  |-> Of("clear", "plain", 1, 2, 2),
   weak   |-> [Of("weak", "plain", 0, 0, 1) EXCEPT !.evidence = FALSE],
   thanks |-> Of("thanks", "phrase", 1, 2, 2),
   noise  |-> [Of("noise", "plain", 0, 1, 2) EXCEPT !.noSpeech = 60]]
=============================================================================

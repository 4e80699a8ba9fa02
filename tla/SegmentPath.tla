----------------------------- MODULE SegmentPath ------------------------------
(***************************************************************************)
(* The recognition of one connection without local agreement (base.py,     *)
(* faster_whisper_backend.py): the recognition thread takes all audio from *)
(* timestamp_offset on, completes every segment of the result but the      *)
(* last, completes the last one too when it came out the same too often,   *)
(* and sends what is new through the stabilizer.                           *)
(*                                                                         *)
(* The receive thread adds audio, and trims the buffer, at any time; the   *)
(* thread holds the lock only to read or move timestamp_offset.  What      *)
(* comes while a result is handled is taken to come before.  Times are     *)
(* whole units; the segments of a result are one unit long, except that    *)
(* Whisper may let the last one end after the audio.                       *)
(***************************************************************************)
EXTENDS Stabilizer

CONSTANTS
  Texts,            \* what a segment may say
  MaxAudio,         \* bound of the model: audio received
  MaxRounds,        \* bound of the model: decodes
  MaxSegments,      \* bound of the model: segments in a result
  SameOutput,       \* same_output_threshold
  NoSpeech,         \* no_speech_thresh, in hundredths
  MaxTranscript,    \* MAX_TRANSCRIPT_LENGTH
  MaxBuffer, Trim,  \* MAX_BUFFER_DURATION_S, BUFFER_TRIM_DURATION_S
  ClipAt, ClipTail  \* CLIP_THRESHOLD_DURATION_S, CLIP_TAIL_DURATION_S

ASSUME SegmentPathAssumption ==
  /\ Texts \subseteq DOMAIN Known
  /\ MaxAudio \in Nat /\ MaxRounds \in Nat /\ MaxSegments \in Nat
  /\ SameOutput \in Nat /\ NoSpeech \in Nat /\ MaxTranscript \in Nat
  /\ Trim \in Nat /\ MaxBuffer \in Nat /\ Trim <= MaxBuffer
  /\ ClipTail \in Nat /\ ClipAt \in Nat /\ ClipTail <= ClipAt

VARIABLES
  clipAudio,    \* the option clip_audio
  audio,        \* audio received
  framesOffset, \* frames_offset
  anchor,       \* timestamp_offset
  stage,        \* the recognition thread
  duration,     \* what it decodes
  prevOut, sameCount, sameEnd,  \* prev_out, same_output_count,
                \* end_time_for_same_output; NoText and NoTime when empty
  lastText,     \* the last element of text
  transcript,   \* transcript
  stabilizer,   \* segment_post_processor
  decodes,      \* bound of the model
  sent,         \* history: completed segments the client was sent
  verdicts,     \* history: what became of completed segments
  alongside,    \* history: was an output that repeated completed along with
                \* other segments of its result?
  cut,          \* history: was the transcript cut at its maximal length?
  jumped        \* history: did the buffer's trim move a decode's anchor?

outputVars == <<prevOut, sameCount, sameEnd, lastText, transcript>>
sendVars == <<stabilizer, sent, verdicts, cut>>
pathVars == <<clipAudio, audio, framesOffset, anchor, stage, duration,
              outputVars, sendVars, decodes, alongside, jumped>>

NoText == "none"
NoTime == -1

PathInit ==
  /\ clipAudio \in BOOLEAN
  /\ audio = 0 /\ framesOffset = 0 /\ anchor = 0
  /\ stage = "loop" /\ duration = 0
  /\ prevOut = NoText /\ sameCount = 0 /\ sameEnd = NoTime /\ lastText = NoText
  /\ transcript = <<>> /\ stabilizer = NewSession
  /\ decodes = 0 /\ sent = <<>> /\ verdicts = <<>>
  /\ alongside = FALSE /\ cut = FALSE /\ jumped = FALSE

-----------------------------------------------------------------------------
(* The receive thread: add_frames *)

AddFrames ==
  /\ audio < MaxAudio
  /\ audio' = audio + 1
  /\ framesOffset' = IF audio - framesOffset > MaxBuffer
                       THEN framesOffset + Trim ELSE framesOffset
  /\ anchor' = IF anchor < framesOffset' THEN framesOffset' ELSE anchor
  /\ jumped' = (jumped \/ (stage = "decode" /\ anchor' # anchor))
  /\ UNCHANGED <<clipAudio, stage, duration, outputVars, sendVars, decodes,
                 alongside>>

-----------------------------------------------------------------------------
(* The recognition thread: speech_to_text *)

(* clip_audio_if_no_valid_segment *)
Clipped == IF clipAudio /\ audio - anchor > ClipAt THEN audio - ClipTail
                                                   ELSE anchor

TakeAudio ==
  /\ stage = "loop" /\ decodes < MaxRounds /\ audio - Clipped >= 1
  /\ anchor' = Clipped
  /\ duration' = audio - Clipped
  /\ stage' = "decode" /\ decodes' = decodes + 1
  /\ UNCHANGED <<clipAudio, audio, framesOffset, outputVars, sendVars,
                 alongside, jumped>>

Silent(seg) == Known[seg.text].noSpeech > NoSpeech

(* A result of Whisper (external): segments from the start of the audio,   *)
(* of which the last may end after it.                                     *)
Results ==
  {[i \in DOMAIN said |-> [text |-> said[i], start |-> i - 1,
                           end |-> IF i = Len(said) THEN i + over ELSE i]] :
     said \in SeqOf(Texts, Least(MaxSegments, duration)) \ {<<>>},
     over \in 0..1}

End(seg) == Least(duration, seg.end)

Placed(seg, completed) ==
  [start |-> anchor + seg.start, end |-> anchor + End(seg),
   text |-> seg.text, completed |-> completed]

(* All segments but the last, unless the last is silence. *)
Complete(r) ==
  IF Len(r) > 1 /\ ~Silent(Last(r)) THEN Front(r) ELSE <<>>
Kept(r) ==
  ElementsAt(r, {i \in DOMAIN Complete(r) :
                   r[i].start < End(r[i]) /\ ~Silent(r[i])})

CurrentOut(r) == IF Silent(Last(r)) THEN NoText ELSE Last(r).text
Same(r) == CurrentOut(r) = prevOut /\ CurrentOut(r) # NoText

(* When the output came out the same for the first time. *)
FirstEnd(r) == IF ~Same(r) THEN NoTime
               ELSE IF sameEnd = NoTime THEN Last(r).end ELSE sameEnd
Count(r) == IF Same(r) THEN sameCount + 1 ELSE 0
Repeated(r) == Count(r) > SameOutput

TextBefore(r) == IF Complete(r) = <<>> THEN lastText ELSE Last(Complete(r)).text

RepeatedEnd_Unbounded(r) == FirstEnd(r)
RepeatedEnd(r) == Least(duration, FirstEnd(r))

(* What is appended to the transcript, *)
Appended(r) ==
  [i \in DOMAIN Kept(r) |-> Placed(Kept(r)[i], TRUE)]
    \o (IF Repeated(r) /\ TextBefore(r) # CurrentOut(r)
          THEN <<[start |-> anchor, end |-> anchor + RepeatedEnd(r),
                  text |-> CurrentOut(r), completed |-> TRUE]>>
          ELSE <<>>)

(* what is sent as a partial, *)
Partial(r) ==
  IF Silent(Last(r)) \/ Repeated(r) THEN <<>> ELSE <<Placed(Last(r), FALSE)>>

(* and by how much the anchor moves. *)
Offset(r) ==
  IF Repeated(r) THEN RepeatedEnd(r)
  ELSE IF Kept(r) = <<>> THEN 0 ELSE End(Last(Kept(r)))

(* _trim_transcript; what is new in the transcript is what lies past the   *)
(* length it had before.                                                   *)
TooMany(r) == Len(transcript) + Len(Appended(r)) > MaxTranscript
Trimmed(r) ==
  LET all == transcript \o Appended(r)
  IN IF TooMany(r) THEN SubSeq(all, Len(all) - MaxTranscript + 1, Len(all)) ELSE all

New(r) == SubSeq(Trimmed(r), Len(transcript) + 1, Len(Trimmed(r)))

(* Not enough on its own, but enough when it was heard before. *)
Weak(seg) == /\ Score(Known[seg.text], TRUE, FALSE) < ReviewThreshold
             /\ Score(Known[seg.text], TRUE, TRUE) >= ReviewThreshold

(* send_transcription_to_client: every segment passes the stabilizer. *)
Sent(acc, seg) ==
  LET s == Stabilized(acc.state, seg)
      verdict == [turn |-> s.state.turn, text |-> Says(seg),
                  action |-> s.action, weak |-> Weak(seg)]
  IN  [state |-> s.state,
       sent |-> acc.sent \o (IF seg.completed THEN s.out ELSE <<>>),
       verdicts |-> IF seg.completed /\ s.action # "drop"
                      THEN Append(acc.verdicts, verdict) ELSE acc.verdicts]

Send(segs) ==
  LET all == FoldLeft(Sent, [state |-> stabilizer, sent |-> sent,
                             verdicts |-> verdicts], segs)
  IN  /\ stabilizer' = all.state
      /\ sent' = all.sent
      /\ verdicts' = all.verdicts

(* handle_transcription_output and update_segments. *)
HandleOutput(r) ==
  /\ prevOut' = IF Repeated(r) THEN prevOut ELSE CurrentOut(r)
  /\ sameCount' = IF Repeated(r) THEN 0 ELSE Count(r)
  /\ sameEnd' = IF Repeated(r) THEN NoTime ELSE FirstEnd(r)
  /\ lastText' = IF Repeated(r) THEN CurrentOut(r) ELSE TextBefore(r)
  /\ transcript' = Trimmed(r)
  /\ anchor' = anchor + Offset(r)
  /\ Send(New(r) \o Partial(r))
  /\ cut' = (cut \/ TooMany(r))
  /\ alongside' = (alongside \/ (Repeated(r) /\ Kept(r) # <<>>))

(* No result: the window is passed over.  An empty one changes nothing,    *)
(* and a failure is logged.                                                *)
Skips == /\ anchor' = anchor + duration
         /\ UNCHANGED <<outputVars, sendVars, alongside>>
Stays == UNCHANGED <<anchor, outputVars, sendVars, alongside>>

Decoded ==
  /\ stage = "decode"
  /\ (\E r \in Results : HandleOutput(r)) \/ Skips \/ Stays
  /\ stage' = "loop" /\ duration' = 0
  /\ UNCHANGED <<clipAudio, audio, framesOffset, decodes, jumped>>

PathNext == AddFrames \/ TakeAudio \/ Decoded

PathSpec == PathInit /\ [][PathNext]_pathVars

-----------------------------------------------------------------------------
(* Properties *)

(* The two threads' variables keep their types. *)
PathTypeOK ==
  /\ audio \in 0..MaxAudio /\ framesOffset \in Nat /\ anchor \in Nat
  /\ stage \in {"loop", "decode"} /\ duration \in Nat
  /\ sameCount \in 0..SameOutput /\ decodes \in 0..MaxRounds
  /\ prevOut \in Texts \cup {NoText} /\ lastText \in Texts \cup {NoText}

(* The anchor does not run ahead of the audio, or words would be passed    *)
(* over before they are heard, whatever end Whisper reports and however    *)
(* often the output repeats (base.py:669); only a trim of the buffer       *)
(* during a decode may let it.                                             *)
AnchorInAudio == anchor <= audio \/ jumped

(* A completed segment reaches the client once, whatever is heard again.   *)
(* That alone the anchor sees to, but for an output that was completed     *)
(* because it repeated (base.py:680): it may say what an earlier segment   *)
(* of its result said, and may set the anchor back behind that result.     *)
(* Then the deduplicator keeps the segment from coming again, unless more  *)
(* segments than it remembers have come since.                             *)
SentOnce ==
  \A i, j \in DOMAIN sent :
    i < j /\ sent[i] = sent[j] => alongside /\ j - i > RepeatWindow

(* What was clearly heard is sent, also when the same words are said again *)
(* later: only noise, loops and duplicates are dropped.  It holds until    *)
(* the transcript is cut: from then on little or nothing that is new lies  *)
(* past the length it had before.                                          *)
Strong(seg) == /\ Known[seg.text].kind = "plain"
               /\ Score(Known[seg.text], TRUE, FALSE) >= ReviewThreshold
ClearIsSent ==
  cut \/ \A i \in DOMAIN transcript :
    Strong(transcript[i]) =>
      [transcript[i] EXCEPT !.text = Says(transcript[i])] \in ToSet(sent)

(* A weak segment is sent if and only if its text was held not more than   *)
(* MaxPendingAge turns before and not sent since, or was sent for review   *)
(* before, not more than PendingWindow such texts ago.                     *)
Reviews(vs, from, to) == {k \in from..to : vs[k].action = "review"}

StillHeld(vs, i, j) ==
  /\ vs[i].action = "hold"
  /\ vs[j].turn - vs[i].turn <= MaxPendingAge
  /\ \A k \in (i + 1)..(j - 1) :
       vs[k].text = vs[j].text => vs[k].action = "hold"
StillReviewed(vs, i, j) ==
  /\ vs[i].action = "review"
  /\ Cardinality(Reviews(vs, i + 1, j - 1)) < PendingWindow

HeardBefore(vs, j) ==
  \E i \in 1..(j - 1) :
    /\ vs[i].text = vs[j].text
    /\ StillHeld(vs, i, j) \/ StillReviewed(vs, i, j)

AgreementDecides ==
  \A j \in DOMAIN verdicts :
    verdicts[j].weak =>
      (verdicts[j].action # "hold" <=> HeardBefore(verdicts, j))

(* The two together: the stabilizer lets through what was clearly heard    *)
(* and, of the rest, exactly what was heard twice.                         *)
HeardIsSent == ClearIsSent /\ AgreementDecides
=============================================================================

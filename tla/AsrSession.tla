----------------------------- MODULE AsrSession ------------------------------
(***************************************************************************)
(* One recognition session of the server (backend/base.py and              *)
(* faster_whisper_backend.py, local agreement on, as the application asks  *)
(* for).  Two threads share it: the connection's handler appends audio and *)
(* asks for a final flush; the recognition loop decodes a window after the *)
(* anchor timestamp_offset, finalises the words two hypotheses agree on    *)
(* and moves the anchor.                                                   *)
(*                                                                         *)
(* Audio is counted in slots.  A word of a hypothesis has its place in the *)
(* hypothesis, a text and the time it ends at; the same sound may come     *)
(* again with another text, another end or at another place.  The hop and  *)
(* speech boundary timers only delay a decode: the loop may wait at any    *)
(* round without a flush.                                                  *)
(***************************************************************************)
EXTENDS Integers, Sequences, FiniteSets

CONSTANTS
  MaxAudio,       \* bound of the model: slots a peer sends
  MaxBuffer,      \* MAX_BUFFER_DURATION_S, 45 s in the code
  Trim,           \* BUFFER_TRIM_DURATION_S, 30 s
  Window,         \* local_agreement_window_seconds
  Retain,         \* local_agreement_retain_seconds
  Guard,          \* trailing_guard_seconds
  MinDuration,    \* 1.0 s, and
  MinFlush,       \* 0.2 s when the flush is asked for
  MaxTranscript,  \* MAX_TRANSCRIPT_LENGTH, 500
  Tolerance,      \* the 0.05 s of local_agreement.py
  Texts,          \* what words say, normalized
  MaxWords,       \* bound of the model: words of a hypothesis
  Overrun         \* bound of the model: how far its times may pass the window

ASSUME ConstantsAssumption ==
  /\ MaxAudio \in Nat /\ Trim \in Nat \ {0} /\ MaxBuffer \in Nat
  /\ Trim <= MaxBuffer
  /\ Window \in Nat \ {0} /\ Retain \in Nat /\ Guard \in Nat
  /\ MinFlush \in Nat \ {0} /\ MinDuration \in Nat /\ MinFlush <= MinDuration
  /\ MaxTranscript \in Nat \ {0}
  /\ Tolerance \in Nat /\ MaxWords \in Nat /\ Overrun \in Nat

VARIABLES
  received,         \* end of the audio received
  framesOffset,     \* frames_offset: start of frames_np
  timestampOffset,  \* timestamp_offset: the anchor
  confirmed,        \* the stabilizer's confirmed_until
  previousWords,    \* the stabilizer's _previous_words
  transcript,       \* completed segments
  chunkFrom,        \* processing_offset
  chunkTo,          \* end of the window taken for decoding
  force,            \* the loop's force_flush (and force_flush_current)
  flushRequested,   \* final_flush_requested
  flushCompleted,   \* final_flush_completed
  exit,             \* exit
  asr,              \* "top", "captured", "decoding" or "stopped"
  recv,             \* the handler: "receiving", "flushing" or "closed"
  heard,            \* history: slots given to the recogniser
  finals,           \* history: every segment ever finalised
  delivered,        \* history: completed segments sent to the client
  overtaken,        \* history: was the buffer trimmed during a round?
  late              \* history: was the flush asked for between capture and check?

anchorVars == <<framesOffset, timestampOffset>>
stabilizerVars == <<confirmed, previousWords, transcript, finals, delivered>>
flushVars == <<flushRequested, flushCompleted, exit>>
chunkVars == <<chunkFrom, chunkTo>>
vars == <<received, anchorVars, stabilizerVars, flushVars, chunkVars,
          force, asr, recv, heard, overtaken, late>>

Init ==
  /\ received = 0 /\ framesOffset = 0 /\ timestampOffset = 0
  /\ confirmed = 0 /\ previousWords = {}
  /\ transcript = <<>> /\ finals = <<>> /\ delivered = <<>>
  /\ chunkFrom = 0 /\ chunkTo = 0 /\ force = FALSE
  /\ flushRequested = FALSE /\ flushCompleted = FALSE /\ exit = FALSE
  /\ asr = "top" /\ recv = "receiving"
  /\ heard = {} /\ overtaken = FALSE /\ late = FALSE

Least(a, b) == IF a < b THEN a ELSE b
Most(a, b) == IF a > b THEN a ELSE b

-----------------------------------------------------------------------------
(* The handler thread *)

(* A full buffer drops its oldest audio, and the anchor with it. *)
Trimmed(o) == [frames |-> o + Trim, anchor |-> Most(timestampOffset, o + Trim)]

AddFrames ==
  /\ recv = "receiving"
  /\ received < MaxAudio
  /\ received' = received + 1
  /\ IF received - framesOffset > MaxBuffer
       THEN /\ framesOffset' = Trimmed(framesOffset).frames
            /\ timestampOffset' = Trimmed(framesOffset).anchor
            /\ overtaken' = (overtaken \/ asr \in {"captured", "decoding"})
       ELSE UNCHANGED <<anchorVars, overtaken>>
  /\ UNCHANGED <<stabilizerVars, flushVars, chunkVars, force, asr, recv, heard,
                 late>>

(* END_OF_AUDIO: ask for the flush, and wait for it for drain_seconds. *)
RequestFlush ==
  /\ recv = "receiving"
  /\ recv' = "flushing"
  /\ flushRequested' = TRUE
  /\ flushCompleted' = FALSE
  /\ late' = (asr = "captured")
  /\ UNCHANGED <<received, anchorVars, stabilizerVars, chunkVars, exit, force,
                 asr, heard, overtaken>>

(* The wait returns, answered or not; or the connection is lost.  Either   *)
(* way the handler cleans up and tells the loop to end.                    *)
Close ==
  /\ recv' = "closed"
  /\ exit' = TRUE
  /\ UNCHANGED <<received, anchorVars, stabilizerVars, chunkVars,
                 flushRequested, flushCompleted, force, asr, heard, overtaken,
                 late>>

FlushAnswers == recv = "flushing" /\ flushCompleted /\ Close
FlushTimesOut == recv = "flushing" /\ ~flushCompleted /\ Close
ConnectionLost == recv = "receiving" /\ Close

-----------------------------------------------------------------------------
(* The recognition loop *)

Answer ==
  /\ flushRequested' = FALSE
  /\ flushCompleted' = TRUE
  /\ exit' = TRUE
  /\ asr' = "stopped"

Exit ==
  /\ asr = "top" /\ exit
  /\ asr' = "stopped"
  /\ UNCHANGED <<received, anchorVars, stabilizerVars, flushVars, chunkVars,
                 force, recv, heard, overtaken, late>>

FlushNoAudio ==
  /\ asr = "top" /\ ~exit
  /\ received = 0 /\ flushRequested
  /\ Answer
  /\ UNCHANGED <<received, anchorVars, stabilizerVars, chunkVars, force, recv,
                 heard, overtaken, late>>

(* get_audio_chunk_for_processing: at most a window, from the anchor on. *)
Start == Most(timestampOffset, framesOffset)

Capture ==
  /\ asr = "top" /\ ~exit
  /\ received > 0
  /\ asr' = "captured"
  /\ chunkFrom' = Start
  /\ chunkTo' = Most(Start, Least(received, Start + Window))
  /\ UNCHANGED <<received, anchorVars, stabilizerVars, flushVars, force, recv,
                 heard, overtaken, late>>

(* The flag is read after the capture. *)
Enough == chunkTo - chunkFrom >= IF flushRequested THEN MinFlush
                                                   ELSE MinDuration

TooShort_NoAnswer ==
  /\ asr = "captured" /\ ~Enough
  /\ asr' = "top"
  /\ UNCHANGED <<received, anchorVars, stabilizerVars, chunkVars, force, recv,
                 heard, overtaken, late, flushVars>>
TooShort ==
  /\ asr = "captured" /\ ~Enough
  /\ IF flushRequested THEN Answer ELSE asr' = "top" /\ UNCHANGED flushVars
  /\ UNCHANGED <<received, anchorVars, stabilizerVars, chunkVars, force, recv,
                 heard, overtaken, late>>

(* The hop has not passed, or the speaker has not paused. *)
Wait ==
  /\ asr = "captured" /\ Enough
  /\ ~flushRequested
  /\ asr' = "top"
  /\ UNCHANGED <<received, anchorVars, stabilizerVars, flushVars, chunkVars,
                 force, recv, heard, overtaken, late>>

Decode ==
  /\ asr = "captured" /\ Enough
  /\ asr' = "decoding"
  /\ force' = flushRequested
  /\ heard' = heard \cup (chunkFrom..(chunkTo - 1))
  /\ UNCHANGED <<received, anchorVars, stabilizerVars, flushVars, chunkVars,
                 recv, overtaken, late>>

(* After a forced round the loop answers the flush and ends. *)
Forced_Reread == flushRequested
Forced == force

EndRound ==
  /\ asr = "decoding"
  /\ IF Forced THEN Answer ELSE asr' = "top" /\ UNCHANGED flushVars
  /\ UNCHANGED <<received, framesOffset, chunkVars, force, recv, heard,
                 overtaken, late>>

(* No voice, no language, or a batch request nobody answered: the anchor   *)
(* moves by the window's length from wherever it is by now.                *)
AfterNone_Live == received
AfterNone == timestampOffset + (chunkTo - chunkFrom)

ResultNone ==
  /\ timestampOffset' = AfterNone
  /\ EndRound
  /\ UNCHANGED stabilizerVars

(* An exception, or a result without segments: nothing is updated. *)
ResultNothing ==
  /\ EndRound
  /\ UNCHANGED <<timestampOffset, stabilizerVars>>

(* The words of a result: a list of them is a set in which each knows its  *)
(* place, so that a part of it keeps the order.  Words shared out over a   *)
(* segment without word timestamps come to the same.                       *)
Word == [at : 1..MaxWords, text : Texts, end : Nat]

Hypotheses ==
  UNION {{{[at |-> i, text |-> said[i], end |-> ends[i]] : i \in 1..n} :
            said \in [1..n -> Texts],
            ends \in [1..n -> (chunkFrom + 1)..(chunkTo + Overrun)]} :
         n \in 0..MaxWords}

EndOf(ws) == (CHOOSE w \in ws : \A v \in ws : v.at <= w.at).end

Index(w, ws) == Cardinality({v \in ws : v.at <= w.at})

(* The hypothesis' words after the confirmed point, and those of them that *)
(* form a common prefix with the previous hypothesis, outside the guard:   *)
(* word by word the same text at the same index, whatever their times.     *)
NewWords(h) == {w \in h : w.end > confirmed + Tolerance}

Stable(ws) ==
  {w \in ws :
     /\ \A v \in ws : v.at <= w.at =>
          \E u \in previousWords : /\ u.text = v.text
                                   /\ Index(u, previousWords) = Index(v, ws)
     /\ w.end <= chunkTo - Guard}

Confirm(stable) == IF stable = {} THEN confirmed ELSE EndOf(stable)

(* A completed segment: the ends of its words, and its own. *)
Final == [ends : SUBSET Nat, end : Nat]

Segment(ws) ==
  IF ws = {} THEN <<>>
  ELSE <<[ends |-> {w.end : w \in ws}, end |-> EndOf(ws)]>>

Remaining_All(ws, until) == ws
Remaining(ws, until) == {w \in ws : w.end > until + Tolerance}

(* What a round finalises: the stable words, and on a flush the partial. *)
Completed(stable, rest) ==
  Segment(stable) \o IF force THEN Segment(rest) ELSE <<>>

Capped(t) == SubSeq(t, Most(1, Len(t) - MaxTranscript + 1), Len(t))

(* handle_transcription_output: the transcript's entries past the length   *)
(* it had before.                                                          *)
Fresh_All(t) == t
Fresh(t) == SubSeq(t, Len(transcript) + 1, Len(t))

NewAnchor(c) ==
  IF c > 0 THEN Most(timestampOffset, c - Retain) ELSE timestampOffset

ResultWords ==
  /\ asr = "decoding"
  /\ \E h \in Hypotheses :
       LET ws     == NewWords(h)
           stable == Stable(ws)
           rest   == Remaining(ws, Confirm(stable))
           done   == Completed(stable, rest)
       IN /\ confirmed' = Confirm(stable)
          /\ previousWords' = rest
          /\ transcript' = Capped(transcript \o done)
          /\ finals' = finals \o done
          /\ delivered' = delivered \o Fresh(transcript')
          /\ timestampOffset' = NewAnchor(confirmed')
  /\ EndRound

-----------------------------------------------------------------------------
Handler ==
  \/ AddFrames \/ RequestFlush \/ FlushAnswers \/ FlushTimesOut
  \/ ConnectionLost

Recognition ==
  \/ Exit \/ FlushNoAudio \/ Capture \/ TooShort \/ Wait \/ Decode
  \/ ResultNone \/ ResultNothing \/ ResultWords

Next == Handler \/ Recognition

Spec == Init /\ [][Next]_vars

(* The loop is a thread of its own, and the recogniser returns or raises. *)
FairSpec == Spec /\ WF_vars(Recognition)

-----------------------------------------------------------------------------
(* Properties *)

(* Every variable of the session keeps its type, and the anchor never      *)
(* falls behind the buffer it indexes.                                     *)
TypeOK ==
  /\ received \in 0..MaxAudio
  /\ framesOffset \in 0..received
  /\ timestampOffset \in Nat /\ framesOffset <= timestampOffset
  /\ confirmed \in 0..received
  /\ previousWords \subseteq Word
  /\ transcript \in Seq(Final)
  /\ Len(transcript) <= MaxTranscript
  /\ chunkFrom \in Nat /\ chunkTo \in Nat /\ chunkFrom <= chunkTo
  /\ {force, flushRequested, flushCompleted, exit, overtaken, late} \subseteq BOOLEAN
  /\ asr \in {"top", "captured", "decoding", "stopped"}
  /\ recv \in {"receiving", "flushing", "closed"}
  /\ heard \subseteq 0..(received - 1)

(* Audio still in the buffer but behind the anchor was given to the        *)
(* recogniser: the anchor does not jump over sound nobody listened to, as  *)
(* long as no trim moved it in the middle of a round (then the length      *)
(* added for an empty window is added to the wrong place).                 *)
SkippedWasHeard ==
  ~overtaken => /\ timestampOffset <= received
                /\ framesOffset..(timestampOffset - 1) \subseteq heard

(* Although every window starts before the confirmed point, decodes the    *)
(* retained audio again and may tell it with other texts and times, what   *)
(* becomes final only goes forward: every word of a segment ends after the *)
(* end of each segment before it.  A word that is heard again is final     *)
(* twice only when it has moved past the end of what was finalised.        *)
FinalisedForward ==
  \A i, j \in DOMAIN finals : i < j =>
    \A e \in finals[j].ends : e > finals[i].end + Tolerance

(* Until the transcript reaches its cap, every finalised segment is sent   *)
(* to the client, once and in order.                                       *)
SentUpToTheCap == Len(finals) <= MaxTranscript => delivered = finals

(* A flush is only reported complete after a round that took everything    *)
(* the buffer held, up to one window, unless it was asked for between the  *)
(* capture and the second look at the flag.                                *)
FlushSeesTheTail ==
  (flushCompleted /\ ~late) => chunkTo >= Least(received, chunkFrom + Window)

(* The anchor never moves back, whichever of the threads moves it. *)
AnchorMonotone == [][timestampOffset' >= timestampOffset]_vars

(* A flush that was asked for is answered, whatever the loop was doing and *)
(* whatever the recogniser says, unless the handler gave up waiting.       *)
FlushIsAnswered == flushRequested ~> (flushCompleted \/ recv = "closed")
=============================================================================

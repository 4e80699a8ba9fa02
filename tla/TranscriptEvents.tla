--------------------------- MODULE TranscriptEvents ---------------------------
(***************************************************************************)
(* handle_transcript of session.py as a whole: TranscriptMerge follows the *)
(* completed segments; a segment that is not completed is a candidate,     *)
(* which its receiver thread writes to the transcript at once, unless it   *)
(* is too similar to one that was written lately (_CandidateDeduplicator). *)
(*                                                                         *)
(* A candidate is known by its text; Similar says which texts reach the    *)
(* similarity threshold.  Each source's bucket belongs to its receiver, so *)
(* the check and the write of a candidate are one step.                    *)
(***************************************************************************)
EXTENDS TranscriptMerge

CONSTANTS
  Texts,       \* what the candidates of each source may say
  Similar,     \* pairs of texts: _text_similarity >= similarity_threshold
  Span,        \* window_seconds
  MaxCache,    \* max_cache
  MaxTime,     \* bound: the clock
  MaxEvents    \* bound: results handed over and candidates written

AllTexts == UNION {Texts[s] : s \in Sources}

ASSUME SimilarAssumption ==
  /\ Similar \subseteq AllTexts \X AllTexts
  /\ \A a, b \in AllTexts :
       /\ <<a, a>> \in Similar
       /\ <<a, b>> \in Similar => <<b, a>> \in Similar
  /\ Span \in Nat /\ MaxCache \in Nat \ {0}
  /\ MaxTime \in Nat /\ MaxEvents \in Nat

VARIABLES
  now,      \* perf_counter()
  recent,   \* the deduplicator's bucket of each source
  saved     \* history: the candidates in the transcript

candidateVars == <<now, recent, saved>>
eventVars == <<vars, candidateVars>>

EventInit ==
  /\ Init
  /\ now = 0 /\ saved = <<>>
  /\ recent = [s \in Sources |-> <<>>]

\* The bucket without the entries at its front that are older than the window.
Fresh(s) ==
  LET b == recent[s]
      first == CHOOSE i \in 1..(Len(b) + 1) :
                 /\ \A k \in 1..(i - 1) : now - b[k].at > Span
                 /\ i <= Len(b) => now - b[i].at <= Span
  IN  SubSeq(b, first, Len(b))

AlreadySaved_Newest(s, text) ==
  LET b == Fresh(s) IN b # <<>> /\ <<text, b[Len(b)].text>> \in Similar
AlreadySaved(s, text) ==
  \E i \in DOMAIN Fresh(s) : <<text, Fresh(s)[i].text>> \in Similar

\* is_duplicate; a refused candidate is not remembered.
SaveCandidate(s, text) ==
  LET c   == [source |-> s, text |-> text, at |-> now]
      all == Append(Fresh(s), c)
  IN  IF AlreadySaved(s, text)
        THEN recent' = [recent EXCEPT ![s] = Fresh(s)] /\ UNCHANGED saved
        ELSE /\ recent' = [recent EXCEPT ![s] =
                             IF Len(all) > MaxCache THEN Tail(all) ELSE all]
             /\ saved' = Append(saved, c)

\* An event that is not completed: add_result refuses it after the write.
AddCandidate(s) ==
  /\ Idle(s) /\ mpc # "ended"
  /\ \E text \in Texts[s] : SaveCandidate(s, text)
  /\ UNCHANGED <<vars, now>>

\* _events_from_segments: an update of the server, segment by segment; one
\* with a blank text is no event.
HandleEvent(s) ==
  /\ added + Len(saved) < MaxEvents
  /\ \/ AddResult(s) /\ UNCHANGED candidateVars
     \/ AddCandidate(s)

Tick ==
  /\ now < MaxTime
  /\ now' = now + 1
  /\ UNCHANGED <<vars, recent, saved>>

EventNext ==
  \/ \E s \in Sources : HandleEvent(s)
  \/ /\ (\E t \in Threads : Emit(t)) \/ BeginWait \/ Flush \/ EndSession
     /\ UNCHANGED candidateVars
  \/ Tick

EventSpec == EventInit /\ [][EventNext]_eventVars

-----------------------------------------------------------------------------
(* Properties *)

\* A sliding window that says the same again and again leaves one candidate in
\* the transcript: two candidates of a source that were written within the
\* window differ, whatever was refused or expired in between, unless max_cache
\* others came between them (session.py:33, "duplikat").
CandidatesDiffer ==
  \A j \in DOMAIN saved : \A i \in 1..(j - 1) :
    LET between == {k \in i..(j - 1) : saved[k].source = saved[j].source}
    IN  /\ saved[i].source = saved[j].source
        /\ saved[j].at - saved[i].at <= Span
        /\ Cardinality(between) <= MaxCache
        => <<saved[i].text, saved[j].text>> \notin Similar
=============================================================================

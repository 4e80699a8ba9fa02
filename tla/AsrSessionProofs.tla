-------------------------- MODULE AsrSessionProofs ---------------------------
(***************************************************************************)
(* Proofs about AsrSession for audio of any length and any limits of       *)
(* buffer, window and transcript: the anchor never moves back and jumps    *)
(* over no unheard audio, and what is finalised only goes forward.         *)
(***************************************************************************)
EXTENDS AsrSession, SequenceTheorems, WellFoundedInduction, TLAPS

Less == {ss \in Nat \X Nat : ss[1] < ss[2]}

LEMMA LessIsWellFounded == IsWellFoundedOn(Less, Nat)
<1>1. IsWellFoundedOn({ss \in Nat \X Nat : ss[1] < ss[2]}, Nat)
  BY NatLessThanWellFounded, Zenon DEF OpToRel
<1>. QED
  BY <1>1 DEF Less

\* A bounded nonempty set of naturals has a greatest element.
LEMMA GreatestExists ==
  ASSUME NEW S, S # {}, NEW b \in Nat, S \subseteq 0..b
  PROVE  \E w \in S : \A v \in S : v <= w
<1>. DEFINE T == {n \in Nat : \E w \in S : n = b - w}
<1>1. T \subseteq Nat /\ T # {}
  <2>1. PICK w \in S : TRUE
    OBVIOUS
  <2>2. b - w \in T
    BY <2>1
  <2>. QED
    BY <2>2
<1>2. PICK n \in T : \A m \in T : ~(<<m, n>> \in Less)
  <2>. HIDE DEF T
  <2>. QED
    BY <1>1, LessIsWellFounded, WFMin
<1>3. \A m \in T : n <= m
  <2>1. n \in Nat
    OBVIOUS
  <2>2. ASSUME NEW m \in T PROVE n <= m
    <3>1. m \in Nat /\ <<m, n>> \notin Less
      BY <1>2
    <3>. HIDE DEF T
    <3>. QED
      BY <2>1, <3>1 DEF Less
  <2>. HIDE DEF T
  <2>. QED
    BY <2>2
<1>4. PICK w \in S : n = b - w
  OBVIOUS
<1>5. \A v \in S : b - v \in T
  OBVIOUS
<1>. QED
  BY <1>3, <1>4, <1>5

\* The least and the greatest of two, and the end of a set of words.
LEMMA LeastMost ==
  \A a, b \in Int : /\ Least(a, b) \in {a, b} /\ Least(a, b) <= a
                    /\ Least(a, b) <= b
                    /\ Most(a, b) \in {a, b} /\ Most(a, b) >= a
                    /\ Most(a, b) >= b
  BY DEF Least, Most

LEMMA IntervalMember ==
  \A a \in Int, b \in Nat : \A t \in a..(b - 1) : t \in Int /\ a <= t /\ t < b
  OBVIOUS

LEMMA EndOfLast ==
  ASSUME NEW S \in SUBSET Word, S # {}
  PROVE  \E w \in S : EndOf(S) = w.end /\ \A v \in S : v.at <= w.at
<1>. DEFINE places == {w.at : w \in S}
            m == CHOOSE w \in S : \A v \in S : v.at <= w.at
<1>1. places # {} /\ places \subseteq 0..MaxWords /\ MaxWords \in Nat
  BY ConstantsAssumption DEF Word
<1>2. PICK n \in places : \A k \in places : k <= n
  <2>. HIDE DEF places
  <2>. QED
    BY <1>1, GreatestExists
<1>3. \E w \in S : \A v \in S : v.at <= w.at
  BY <1>2
<1>4. m \in S /\ \A v \in S : v.at <= m.at
  BY <1>3
<1>5. EndOf(S) = m.end
  BY DEF EndOf
<1>. HIDE DEF m
<1>. QED
  BY <1>4, <1>5

-----------------------------------------------------------------------------
(* The inductive invariant *)

Words == 0..(received - 1)

Typed ==
  /\ TypeOK
  /\ finals \in Seq(Final)
  /\ delivered \in Seq(Final)

InRound == asr \in {"captured", "decoding"}

\* The window under way lies in the audio received.
Round == InRound => chunkTo <= received \/ chunkTo = chunkFrom

\* Nothing between the buffer's start and the anchor is unheard, and the
\* window under way starts at the anchor.
Anchor ==
  ~overtaken =>
    /\ timestampOffset <= received
    /\ framesOffset..(timestampOffset - 1) \subseteq heard
    /\ InRound => chunkFrom = timestampOffset
    /\ asr = "decoding" => chunkFrom..(chunkTo - 1) \subseteq heard

\* The anchor has followed every confirmation.
Followed == confirmed > 0 => confirmed - Retain <= timestampOffset

\* What is final ends at the confirmed point or before, until the last round.
Behind ==
  asr # "stopped" => \A i \in DOMAIN finals : finals[i].end <= confirmed

\* Until the cap is reached, the transcript is all that was finalised.
Complete ==
  Len(finals) <= MaxTranscript => transcript = finals /\ delivered = finals

IInv == Typed /\ Round /\ Anchor /\ Followed

LInv == Behind /\ FinalisedForward /\ Complete

-----------------------------------------------------------------------------
(* What a round finalises *)

LEMMA WordsOfRound ==
  ASSUME Typed, NEW h \in Hypotheses
  PROVE  /\ NewWords(h) \subseteq Word
         /\ \A w \in NewWords(h) : confirmed + Tolerance < w.end /\ chunkFrom < w.end
<1>1. /\ chunkFrom \in Nat /\ chunkTo \in Nat /\ confirmed \in Nat
      /\ Tolerance \in Nat /\ Overrun \in Nat /\ MaxWords \in Nat
  BY ConstantsAssumption DEF Typed, TypeOK
<1>2. PICK n \in 0..MaxWords : \E said \in [1..n -> Texts] :
        \E ends \in [1..n -> (chunkFrom + 1)..(chunkTo + Overrun)] :
          h = {[at |-> i, text |-> said[i], end |-> ends[i]] : i \in 1..n}
  BY DEF Hypotheses
<1>3. PICK said \in [1..n -> Texts],
           ends \in [1..n -> (chunkFrom + 1)..(chunkTo + Overrun)] :
        h = {[at |-> i, text |-> said[i], end |-> ends[i]] : i \in 1..n}
  BY <1>2
<1>4. ASSUME NEW w \in h PROVE w \in Word /\ chunkFrom < w.end /\ w.end \in Nat
  <2>1. PICK i \in 1..n : w = [at |-> i, text |-> said[i], end |-> ends[i]]
    BY <1>3
  <2>2. i \in 1..MaxWords /\ said[i] \in Texts
    BY <1>1
  <2>3. ends[i] \in (chunkFrom + 1)..(chunkTo + Overrun)
    OBVIOUS
  <2>4. ends[i] \in Nat /\ chunkFrom < ends[i]
    BY <1>1, <2>3
  <2>. QED
    BY <2>1, <2>2, <2>4 DEF Word
<1>. QED
  BY <1>1, <1>4 DEF NewWords

\* The words a round starts from: after the confirmed point and in the window
\* or beyond its end.
Usable(ws) ==
  /\ ws \subseteq Word
  /\ \A w \in ws : confirmed + Tolerance < w.end /\ chunkFrom < w.end

LEMMA ConfirmBounds ==
  ASSUME Typed, Round, asr = "decoding", NEW ws, Usable(ws)
  PROVE  LET c == Confirm(Stable(ws)) IN
         /\ c \in 0..received
         /\ confirmed <= c
         /\ c = confirmed \/ c <= chunkTo
         /\ Stable(ws) \subseteq ws /\ Remaining(ws, c) \subseteq ws
         /\ Stable(ws) # {} => EndOf(Stable(ws)) = c
         /\ \A w \in Remaining(ws, c) : c + Tolerance < w.end
<1>. DEFINE c == Confirm(Stable(ws))
<1>1. /\ confirmed \in 0..received /\ received \in Nat /\ chunkTo \in Nat
      /\ chunkFrom \in Nat /\ Tolerance \in Nat /\ Guard \in Nat
  BY ConstantsAssumption DEF Typed, TypeOK
<1>2. Stable(ws) \subseteq ws /\ Remaining(ws, c) \subseteq ws
  BY DEF Stable, Remaining
<1>3. /\ c \in 0..received /\ confirmed <= c
      /\ c = confirmed \/ c <= chunkTo
      /\ Stable(ws) # {} => EndOf(Stable(ws)) = c
  <2>1. CASE Stable(ws) = {}
    BY <1>1, <2>1 DEF Confirm
  <2>2. CASE Stable(ws) # {}
    <3>1. Stable(ws) \in SUBSET Word
      BY <1>2 DEF Usable
    <3>2. PICK w \in Stable(ws) : EndOf(Stable(ws)) = w.end
      BY <2>2, <3>1, EndOfLast
    <3>3. c = w.end
      BY <2>2, <3>2 DEF Confirm
    <3>4. w \in Word /\ confirmed + Tolerance < w.end /\ chunkFrom < w.end
      BY <1>2 DEF Usable
    <3>5. w.end \in Nat /\ w.end <= chunkTo - Guard
      BY <3>4 DEF Stable, Word
    <3>6. chunkTo <= received \/ chunkTo = chunkFrom
      BY DEF Round, InRound
    <3>. HIDE DEF c
    <3>. QED
      BY <1>1, <3>2, <3>3, <3>4, <3>5, <3>6
  <2>. QED
    BY <2>1, <2>2
<1>4. \A w \in Remaining(ws, c) : c + Tolerance < w.end
  <2>1. \A w \in Remaining(ws, c) : w \in Word /\ w.end > c + Tolerance
    BY DEF Remaining, Usable
  <2>2. \A w \in Remaining(ws, c) : w.end \in Nat
    BY <2>1 DEF Word
  <2>. HIDE DEF c
  <2>. QED
    BY <1>1, <1>3, <2>1, <2>2
<1>. QED
  BY <1>2, <1>3, <1>4

LEMMA PairIsConcat ==
  ASSUME NEW S, NEW a \in S, NEW b \in S
  PROVE  <<a>> \o <<b>> = <<a, b>>
<1>1. <<a>> \in Seq(S) /\ <<b>> \in Seq(S) /\ <<a, b>> \in Seq(S)
  OBVIOUS
<1>2. /\ <<a>> \o <<b>> \in Seq(S) /\ Len(<<a>> \o <<b>>) = 2
      /\ \A i \in 1..2 : (<<a>> \o <<b>>)[i] = IF i <= 1 THEN <<a>>[i]
                                                     ELSE <<b>>[i - 1]
  BY <1>1, ConcatProperties
<1>3. \A i \in 1..2 : (<<a>> \o <<b>>)[i] = <<a, b>>[i]
  BY <1>2
<1>. QED
  BY <1>1, <1>2, <1>3, SeqEqual

\* What becomes of a nonempty set of words.
Whole(ws) == [ends |-> {w.end : w \in ws}, end |-> EndOf(ws)]

LEMMA WholeIsFinal ==
  ASSUME NEW ws \in SUBSET Word, ws # {}
  PROVE  Whole(ws) \in Final
<1>1. PICK w \in ws : EndOf(ws) = w.end
  BY EndOfLast
<1>2. EndOf(ws) \in Nat /\ {w2.end : w2 \in ws} \subseteq Nat
  BY <1>1 DEF Word
<1>. QED
  BY <1>2 DEF Whole, Final

\* A round finalises nothing, the stable words, the rest, or both in order.
LEMMA CompletedShape ==
  ASSUME NEW stable \in SUBSET Word, NEW rest \in SUBSET Word
  PROVE  LET k == Completed(stable, rest) IN
         /\ k \in Seq(Final)
         /\ \/ k = <<>>
            \/ stable # {} /\ k = <<Whole(stable)>>
            \/ force /\ rest # {} /\ k = <<Whole(rest)>>
            \/ force /\ stable # {} /\ rest # {} /\ k = <<Whole(stable), Whole(rest)>>
<1>. DEFINE A == Segment(stable)
            B == IF force THEN Segment(rest) ELSE <<>>
            k == Completed(stable, rest)
<1>0. \A ws : Segment(ws) = IF ws = {} THEN <<>> ELSE <<Whole(ws)>>
  BY Zenon DEF Segment, Whole
<1>1. A = <<>> \/ (stable # {} /\ A = <<Whole(stable)>>)
  BY <1>0
<1>2. B = <<>> \/ (force /\ rest # {} /\ B = <<Whole(rest)>>)
  <2>1. CASE force
    BY <1>0, <2>1
  <2>2. CASE ~force
    BY <2>2
  <2>. QED
    BY <2>1, <2>2
<1>3. k = A \o B
  BY DEF Completed
<1>4. A \in Seq(Final) /\ B \in Seq(Final)
  <2>1. (stable # {} => Whole(stable) \in Final) /\ (rest # {} => Whole(rest) \in Final)
    BY WholeIsFinal
  <2>. HIDE DEF A, B
  <2>2. A \in Seq(Final)
    <3>1. CASE A = <<>>
      BY <3>1
    <3>2. CASE stable # {} /\ A = <<Whole(stable)>>
      BY <2>1, <3>2
    <3>. QED
      BY <1>1, <3>1, <3>2
  <2>3. B \in Seq(Final)
    <3>1. CASE B = <<>>
      BY <3>1
    <3>2. CASE rest # {} /\ B = <<Whole(rest)>>
      BY <2>1, <3>2
    <3>. QED
      BY <1>2, <3>1, <3>2
  <2>. QED
    BY <2>2, <2>3
<1>. HIDE DEF A, B, k
<1>5. k \in Seq(Final)
  BY <1>3, <1>4, ConcatProperties
<1>6. CASE B = <<>>
  <2>1. k = A
    BY <1>3, <1>4, <1>6, ConcatEmptySeq
  <2>. QED
    BY <1>1, <1>5, <2>1 DEF k
<1>7. CASE A = <<>> /\ B # <<>>
  <2>1. k = B
    BY <1>3, <1>4, <1>7, ConcatEmptySeq
  <2>. QED
    BY <1>2, <1>5, <1>7, <2>1 DEF k
<1>8. CASE A # <<>> /\ B # <<>>
  <2>1. /\ stable # {} /\ A = <<Whole(stable)>>
        /\ force /\ rest # {} /\ B = <<Whole(rest)>>
    BY <1>1, <1>2, <1>8
  <2>2. Whole(stable) \in Final /\ Whole(rest) \in Final
    BY <2>1, WholeIsFinal
  <2>3. <<Whole(stable)>> \o <<Whole(rest)>> = <<Whole(stable), Whole(rest)>>
    BY <2>2, PairIsConcat
  <2>. QED
    BY <1>3, <1>5, <2>1, <2>3 DEF k
<1>. QED
  BY <1>6, <1>7, <1>8

\* The cap keeps the type and only cuts what is longer; the slice past the
\* old length is the new part, when nothing was cut.
LEMMA CappedKeeps ==
  ASSUME NEW S, NEW t \in Seq(S)
  PROVE  /\ Capped(t) \in Seq(S)
         /\ Len(Capped(t)) <= MaxTranscript
         /\ Len(t) <= MaxTranscript => Capped(t) = t
<1>. DEFINE m == Most(1, Len(t) - MaxTranscript + 1)
<1>1. Len(t) \in Nat /\ MaxTranscript \in Nat \ {0} /\ m \in Nat /\ 1 <= m
      /\ Len(t) - MaxTranscript + 1 <= m
      /\ (m = 1 \/ m = Len(t) - MaxTranscript + 1)
  BY ConstantsAssumption, LeastMost, LenProperties DEF Most
<1>2. \A i \in m..Len(t) : t[i] \in S
  BY <1>1, ElementOfSeq
<1>3. Capped(t) = SubSeq(t, m, Len(t))
  BY DEF Capped
<1>. HIDE DEF m
<1>4. /\ SubSeq(t, m, Len(t)) \in Seq(S)
      /\ Len(SubSeq(t, m, Len(t))) = IF m <= Len(t) THEN Len(t) - m + 1 ELSE 0
  BY <1>1, <1>2, SubSeqProperties
<1>5. ASSUME Len(t) <= MaxTranscript PROVE SubSeq(t, m, Len(t)) = t
  <2>1. m = 1
    BY <1>1, <1>5
  <2>. QED
    BY <2>1, SubSeqFull
<1>. QED
  BY <1>1, <1>3, <1>4, <1>5

LEMMA FreshIsTail ==
  ASSUME NEW S, NEW t \in Seq(S), transcript \in Seq(S)
  PROVE  /\ Fresh(t) \in Seq(S)
         /\ \A k \in Seq(S) : t = transcript \o k => Fresh(t) = k
<1>1. Len(t) \in Nat /\ Len(transcript) \in Nat
  BY LenProperties
<1>2. \A i \in (Len(transcript) + 1)..Len(t) : t[i] \in S
  BY <1>1, ElementOfSeq
<1>3. Fresh(t) \in Seq(S)
  BY <1>1, <1>2, SubSeqProperties DEF Fresh
<1>4. ASSUME NEW k \in Seq(S), t = transcript \o k PROVE Fresh(t) = k
  <2>1. Len(k) \in Nat /\ Len(t) = Len(transcript) + Len(k)
    BY <1>4, ConcatProperties, LenProperties
  <2>2. CASE Len(k) = 0
    <3>1. k = <<>>
      BY <2>2, EmptySeq
    <3>2. Fresh(t) = <<>>
      BY <1>1, <2>1, <2>2, SubSeqEmpty DEF Fresh
    <3>. QED
      BY <3>1, <3>2
  <2>3. CASE Len(k) > 0
    <3>1. Fresh(t) = SubSeq(k, 1, Len(k))
      BY <1>1, <1>4, <2>1, <2>3, SubSeqOfConcat2 DEF Fresh
    <3>. QED
      BY <3>1, SubSeqFull
  <2>. QED
    BY <2>1, <2>2, <2>3
<1>. QED
  BY <1>3, <1>4

\* What a round finalises of the words ws, and what it leaves.
Until(ws) == Confirm(Stable(ws))
Rest(ws) == Remaining(ws, Until(ws))
Done(ws) == Completed(Stable(ws), Rest(ws))

LEMMA DoneIsFinal ==
  ASSUME NEW ws \in SUBSET Word
  PROVE  Done(ws) \in Seq(Final) /\ Rest(ws) \subseteq Word
<1>1. Stable(ws) \in SUBSET Word /\ Rest(ws) \in SUBSET Word
  BY DEF Stable, Rest, Remaining
<1>. QED
  BY <1>1, CompletedShape DEF Done

LEMMA RoundOfWords ==
  ASSUME Typed, ResultWords
  PROVE  \E ws \in SUBSET Word :
           /\ Usable(ws) /\ EndRound /\ asr = "decoding"
           /\ confirmed' = Until(ws) /\ previousWords' = Rest(ws)
           /\ transcript' = Capped(transcript \o Done(ws))
           /\ finals' = finals \o Done(ws)
           /\ delivered' = delivered \o Fresh(transcript')
           /\ timestampOffset' = NewAnchor(Until(ws))
<1>1. PICK h \in Hypotheses :
        /\ confirmed' = Until(NewWords(h)) /\ previousWords' = Rest(NewWords(h))
        /\ transcript' = Capped(transcript \o Done(NewWords(h)))
        /\ finals' = finals \o Done(NewWords(h))
        /\ delivered' = delivered \o Fresh(transcript')
        /\ timestampOffset' = NewAnchor(confirmed')
  BY Zenon DEF ResultWords, Until, Rest, Done
<1>2. Usable(NewWords(h)) /\ NewWords(h) \in SUBSET Word
  BY WordsOfRound DEF Usable
<1>3. EndRound /\ asr = "decoding"
  BY DEF ResultWords
<1>. QED
  BY <1>1, <1>2, <1>3

-----------------------------------------------------------------------------
(* Every step keeps the invariant *)

LEMMA InitIInv == Init => IInv /\ LInv
<1>. SUFFICES ASSUME Init PROVE IInv /\ LInv
  OBVIOUS
<1>. USE ConstantsAssumption DEF Init
<1>1. Typed
  <2>1. <<>> \in Seq(Final) /\ Len(<<>>) = 0
    BY EmptySeq
  <2>2. /\ received \in 0..MaxAudio /\ framesOffset \in 0..received
        /\ confirmed \in 0..received
    OBVIOUS
  <2>3. {force, flushRequested, flushCompleted, exit, overtaken, late}
             \subseteq BOOLEAN
    BY Zenon
  <2>. QED
    BY <2>1, <2>2, <2>3 DEF Typed, TypeOK, Words
<1>2. Round /\ Anchor /\ Followed
  BY DEF Round, Anchor, Followed, InRound
<1>3. LInv
  BY DEF LInv, Behind, FinalisedForward, Complete
<1>. QED
  BY <1>1, <1>2, <1>3 DEF IInv

\* Appending audio, with the trim of a full buffer.
LEMMA AddFramesStep == IInv /\ AddFrames => IInv'
<1>. SUFFICES ASSUME IInv, AddFrames PROVE IInv'
  OBVIOUS
<1>. USE ConstantsAssumption DEF anchorVars, stabilizerVars, flushVars, chunkVars
<1>1. Typed'
  <2>1. Words \subseteq Words'
    BY DEF AddFrames, IInv, Typed, TypeOK, Words
  <2>3. /\ transcript' \in Seq(Final)
        /\ finals' \in Seq(Final) /\ delivered' \in Seq(Final)
    BY DEF AddFrames, IInv, Typed, TypeOK
  <2>4. /\ framesOffset' \in 0..received' /\ framesOffset' <= timestampOffset'
        /\ timestampOffset' \in Nat
    BY DEF AddFrames, Trimmed, Most, IInv, Typed, TypeOK
  <2>5. received' \in 0..MaxAudio /\ confirmed' \in 0..received'
    BY DEF AddFrames, IInv, Typed, TypeOK
  <2>6. previousWords' \subseteq Word /\ heard' \subseteq Words'
    BY <2>1 DEF AddFrames, IInv, Typed, TypeOK, Words
  <2>7. /\ chunkFrom' \in Nat /\ chunkTo' \in Nat /\ chunkFrom' <= chunkTo'
        /\ {force', flushRequested', flushCompleted', exit', overtaken', late'}
             \subseteq BOOLEAN
        /\ asr' \in {"top", "captured", "decoding", "stopped"}
        /\ recv' \in {"receiving", "flushing", "closed"}
        /\ Len(transcript') <= MaxTranscript
    BY DEF AddFrames, IInv, Typed, TypeOK
  <2>. QED
    BY <2>3, <2>4, <2>5, <2>6, <2>7 DEF Typed, TypeOK, Words
<1>2. Round'
  BY DEF AddFrames, Round, InRound, IInv, Typed, TypeOK
<1>3. Anchor'
  <2>1. CASE received - framesOffset > MaxBuffer
    <3>1. CASE InRound
      BY <2>1, <3>1 DEF AddFrames, Anchor, InRound
    <3>2. CASE ~InRound
      <4>1. /\ framesOffset' = framesOffset + Trim
            /\ timestampOffset' = Most(timestampOffset, framesOffset + Trim)
            /\ heard' = heard /\ asr' = asr
            /\ received' = received + 1
        BY <2>1, <3>2 DEF AddFrames, Trimmed, InRound
      <4>3. overtaken => overtaken'
        BY <2>1 DEF AddFrames
      <4>2. ~overtaken => /\ timestampOffset' <= received'
                          /\ framesOffset'..(timestampOffset' - 1)
                               \subseteq framesOffset..(timestampOffset - 1)
        BY <2>1, <4>1 DEF Anchor, Most, IInv, Typed, TypeOK
      <4>. QED
        BY <3>2, <4>1, <4>2, <4>3 DEF IInv, Anchor, InRound
    <3>. QED
      BY <3>1, <3>2
  <2>2. CASE ~(received - framesOffset > MaxBuffer)
    BY <2>2 DEF AddFrames, Anchor, InRound, IInv, Typed, TypeOK
  <2>. QED
    BY <2>1, <2>2
<1>4. Followed'
  BY DEF AddFrames, Trimmed, Most, Followed, IInv, Typed, TypeOK
<1>. QED
  BY <1>1, <1>2, <1>3, <1>4 DEF IInv

\* The handler's other actions, and the loop's that take no decision.
LEMMA QuietStep ==
  ASSUME IInv, RequestFlush \/ FlushAnswers \/ FlushTimesOut \/ ConnectionLost
               \/ Exit \/ FlushNoAudio \/ TooShort \/ Wait \/ UNCHANGED vars
  PROVE  IInv'
<1>. USE DEF anchorVars, stabilizerVars, flushVars, chunkVars
<1>1. /\ received' = received /\ framesOffset' = framesOffset
      /\ timestampOffset' = timestampOffset /\ confirmed' = confirmed
      /\ previousWords' = previousWords /\ transcript' = transcript
      /\ finals' = finals /\ delivered' = delivered
      /\ chunkFrom' = chunkFrom /\ chunkTo' = chunkTo /\ heard' = heard
      /\ overtaken' = overtaken /\ force' = force
  BY DEF RequestFlush, FlushAnswers, FlushTimesOut, ConnectionLost, Close, Exit,
         FlushNoAudio, TooShort, Wait, Answer, vars
<1>2. /\ asr' \in {"top", "captured", "decoding", "stopped"}
      /\ asr' = asr \/ asr' \in {"top", "stopped"}
      /\ recv' \in {"receiving", "flushing", "closed"}
  BY DEF RequestFlush, FlushAnswers, FlushTimesOut, ConnectionLost, Close, Exit,
         FlushNoAudio, TooShort, Wait, Answer, vars, IInv, Typed, TypeOK
<1>3. {force', flushRequested', flushCompleted', exit', overtaken', late'}
        \subseteq BOOLEAN
  BY <1>1, Zenon
     DEF RequestFlush, FlushAnswers, FlushTimesOut, ConnectionLost, Close, Exit,
         FlushNoAudio, TooShort, Wait, Answer, vars, IInv, Typed, TypeOK
<1>4. Typed'
  BY <1>1, <1>2, <1>3 DEF IInv, Typed, TypeOK, Words
<1>5. Round' /\ Anchor' /\ Followed'
  BY <1>1, <1>2 DEF IInv, Round, Anchor, Followed, InRound
<1>. QED
  BY <1>4, <1>5 DEF IInv

LEMMA CaptureStep == IInv /\ Capture => IInv'
<1>. SUFFICES ASSUME IInv, Capture PROVE IInv'
  OBVIOUS
<1>. USE DEF anchorVars, stabilizerVars, flushVars, chunkVars
<1>1. Start = timestampOffset /\ Start \in Nat
  BY DEF Start, Most, IInv, Typed, TypeOK
<1>2. /\ chunkFrom' = timestampOffset /\ chunkTo' \in Nat
      /\ chunkFrom' <= chunkTo'
      /\ chunkTo' = chunkFrom' \/ chunkTo' <= received
  BY <1>1, ConstantsAssumption DEF Capture, Most, Least, IInv, Typed, TypeOK
<1>3. Typed'
  BY <1>1, <1>2 DEF Capture, IInv, Typed, TypeOK, Words
<1>4. Round' /\ Anchor' /\ Followed'
  BY <1>2 DEF Capture, IInv, Round, Anchor, Followed, InRound
<1>. QED
  BY <1>3, <1>4 DEF IInv

LEMMA DecodeStep == IInv /\ Decode => IInv'
<1>. SUFFICES ASSUME IInv, Decode PROVE IInv'
  OBVIOUS
<1>. USE DEF anchorVars, stabilizerVars, flushVars, chunkVars
<1>1. chunkFrom..(chunkTo - 1) \subseteq Words
  BY DEF Decode, IInv, Typed, TypeOK, Round, InRound, Words
<1>2. Typed'
  <2>1. force' \in BOOLEAN /\ asr' = "decoding" /\ heard' \subseteq Words
    BY <1>1 DEF Decode, IInv, Typed, TypeOK, Words
  <2>. QED
    BY <2>1 DEF Decode, IInv, Typed, TypeOK, Words
<1>3. Round' /\ Anchor' /\ Followed'
  BY DEF Decode, IInv, Round, Anchor, Followed, InRound
<1>. QED
  BY <1>2, <1>3 DEF IInv

\* A round ends at the top of the loop, or for good when it was forced.
LEMMA EndRoundFacts ==
  ASSUME IInv, EndRound
  PROVE  /\ asr = "decoding" /\ asr' \in {"top", "stopped"}
         /\ force => asr' = "stopped"
         /\ received' = received /\ framesOffset' = framesOffset
         /\ chunkFrom' = chunkFrom /\ chunkTo' = chunkTo
         /\ heard' = heard /\ overtaken' = overtaken /\ force' = force
         /\ recv' = recv
         /\ {force', flushRequested', flushCompleted', exit', overtaken', late'}
              \subseteq BOOLEAN
<1>. USE DEF EndRound, Forced, Answer, flushVars, chunkVars
<1>1. /\ asr = "decoding" /\ asr' \in {"top", "stopped"}
      /\ force => asr' = "stopped"
      /\ received' = received /\ framesOffset' = framesOffset
      /\ chunkFrom' = chunkFrom /\ chunkTo' = chunkTo
      /\ heard' = heard /\ overtaken' = overtaken /\ force' = force
      /\ recv' = recv
  OBVIOUS
<1>2. {force', flushRequested', flushCompleted', exit', overtaken', late'}
        \subseteq BOOLEAN
  BY Zenon DEF IInv, Typed, TypeOK
<1>. QED
  BY <1>1, <1>2

\* A round that moves the anchor forward, and not past its own window.
LEMMA AnchorOfRound ==
  ASSUME IInv, EndRound,
         timestampOffset' \in Nat, timestampOffset <= timestampOffset',
         ~overtaken => \/ timestampOffset' = timestampOffset
                       \/ timestampOffset' <= chunkTo
  PROVE  Round' /\ Anchor'
<1>1. asr' \notin {"captured", "decoding"}
  BY EndRoundFacts
<1>2. Round'
  BY <1>1 DEF Round, InRound
<1>3. ASSUME ~overtaken
      PROVE  /\ timestampOffset' <= received
             /\ framesOffset..(timestampOffset' - 1) \subseteq heard
  <2>1. /\ asr = "decoding" /\ chunkFrom = timestampOffset
        /\ timestampOffset <= received
        /\ framesOffset..(timestampOffset - 1) \subseteq heard
        /\ chunkFrom..(chunkTo - 1) \subseteq heard
        /\ chunkTo <= received \/ chunkTo = chunkFrom
    BY <1>3, EndRoundFacts DEF IInv, Anchor, Round, InRound
  <2>2. /\ framesOffset \in Int /\ timestampOffset \in Nat /\ chunkTo \in Nat
        /\ received \in Nat
    BY DEF IInv, Typed, TypeOK
  <2>3. timestampOffset' <= received
    BY <1>3, <2>1, <2>2
  <2>4. ASSUME NEW t \in framesOffset..(timestampOffset' - 1)
        PROVE  t \in heard
    <3>1. CASE t < timestampOffset
      <4>1. t \in framesOffset..(timestampOffset - 1)
        BY <2>2, <3>1
      <4>. QED
        BY <2>1, <4>1
    <3>2. CASE t >= timestampOffset
      <4>1. t \in chunkFrom..(chunkTo - 1)
        <5>1. t \in Int /\ t < timestampOffset'
          BY <2>2, <2>4, IntervalMember
        <5>2. timestampOffset' <= chunkTo
          BY <1>3, <2>2, <3>2, <5>1
        <5>. QED
          BY <2>1, <2>2, <3>2, <5>1, <5>2
      <4>. QED
        BY <2>1, <4>1
    <3>. QED
      BY <2>2, <3>1, <3>2
  <2>. QED
    BY <2>3, <2>4
<1>4. Anchor'
  BY <1>1, <1>3, EndRoundFacts DEF Anchor, InRound
<1>. QED
  BY <1>2, <1>4

LEMMA TypedOfRound ==
  ASSUME IInv, EndRound,
         timestampOffset' \in Nat, timestampOffset <= timestampOffset',
         confirmed' \in 0..received, previousWords' \subseteq Word,
         transcript' \in Seq(Final), Len(transcript') <= MaxTranscript,
         finals' \in Seq(Final), delivered' \in Seq(Final)
  PROVE  Typed'
<1>1. /\ received' = received /\ framesOffset' = framesOffset
      /\ chunkFrom' = chunkFrom /\ chunkTo' = chunkTo
      /\ heard' = heard /\ recv' = recv
      /\ asr' \in {"top", "captured", "decoding", "stopped"}
  BY EndRoundFacts
<1>2. {force', flushRequested', flushCompleted', exit', overtaken', late'}
        \subseteq BOOLEAN
  BY EndRoundFacts
<1>3. framesOffset <= timestampOffset'
  BY DEF IInv, Typed, TypeOK
<1>4. Words' = Words
  BY <1>1 DEF Words
<1>. QED
  BY <1>1, <1>2, <1>3, <1>4 DEF IInv, Typed, TypeOK, Words

LEMMA ResultNoneStep == IInv /\ ResultNone => IInv'
<1>. SUFFICES ASSUME IInv, ResultNone PROVE IInv'
  OBVIOUS
<1>1. EndRound
  BY DEF ResultNone
<1>2. /\ timestampOffset' = timestampOffset + (chunkTo - chunkFrom)
      /\ timestampOffset' \in Nat /\ timestampOffset <= timestampOffset'
  BY DEF ResultNone, AfterNone, IInv, Typed, TypeOK
<1>3. ~overtaken => timestampOffset' <= chunkTo
  BY <1>1, <1>2, EndRoundFacts DEF IInv, Anchor, InRound, Typed, TypeOK
<1>4. Round' /\ Anchor'
  BY <1>1, <1>2, <1>3, AnchorOfRound
<1>5. Typed'
  <2>1. /\ confirmed' \in 0..received /\ previousWords' \subseteq Word
        /\ transcript' \in Seq(Final) /\ Len(transcript') <= MaxTranscript
        /\ finals' \in Seq(Final) /\ delivered' \in Seq(Final)
    BY DEF ResultNone, stabilizerVars, IInv, Typed, TypeOK, Words
  <2>. QED
    BY <1>1, <1>2, <2>1, TypedOfRound
<1>6. Followed'
  BY <1>2, ConstantsAssumption
     DEF ResultNone, stabilizerVars, IInv, Followed, Typed, TypeOK
<1>. QED
  BY <1>4, <1>5, <1>6 DEF IInv

LEMMA ResultNothingStep == IInv /\ ResultNothing => IInv'
<1>. SUFFICES ASSUME IInv, ResultNothing PROVE IInv'
  OBVIOUS
<1>1. EndRound /\ timestampOffset' = timestampOffset
  BY DEF ResultNothing
<1>2. timestampOffset \in Nat
  BY DEF IInv, Typed, TypeOK
<1>3. Round' /\ Anchor'
  BY <1>1, <1>2, AnchorOfRound
<1>4. Typed' /\ Followed'
  BY <1>1, EndRoundFacts
     DEF ResultNothing, stabilizerVars, IInv, Followed, Typed, TypeOK, Words
<1>. QED
  BY <1>3, <1>4 DEF IInv

LEMMA ResultWordsStep == IInv /\ ResultWords => IInv'
<1>. SUFFICES ASSUME IInv, ResultWords PROVE IInv'
  OBVIOUS
<1>1. PICK ws \in SUBSET Word :
        /\ Usable(ws) /\ EndRound /\ asr = "decoding"
        /\ confirmed' = Until(ws) /\ previousWords' = Rest(ws)
        /\ transcript' = Capped(transcript \o Done(ws))
        /\ finals' = finals \o Done(ws)
        /\ delivered' = delivered \o Fresh(transcript')
        /\ timestampOffset' = NewAnchor(Until(ws))
  BY RoundOfWords DEF IInv
<1>2. EndRound /\ asr = "decoding"
  BY <1>1
<1>4. /\ Until(ws) \in 0..received /\ confirmed <= Until(ws)
      /\ Until(ws) = confirmed \/ Until(ws) <= chunkTo
  BY <1>1, ConfirmBounds DEF IInv, Until
<1>5. /\ timestampOffset' \in Nat /\ timestampOffset <= timestampOffset'
      /\ confirmed' > 0 => confirmed' - Retain <= timestampOffset'
      /\ timestampOffset' = timestampOffset \/ timestampOffset' <= chunkTo
  <2>1. confirmed' = Until(ws) /\ timestampOffset' = NewAnchor(Until(ws))
    BY <1>1
  <2>2. /\ timestampOffset \in Nat /\ confirmed \in Nat /\ chunkTo \in Nat
        /\ Retain \in Nat /\ Until(ws) \in Nat
        /\ confirmed > 0 => confirmed - Retain <= timestampOffset
    BY <1>4, ConstantsAssumption DEF IInv, Followed, Typed, TypeOK
  <2>3. CASE Until(ws) > 0
    <3>1. timestampOffset' = Most(timestampOffset, Until(ws) - Retain)
      BY <2>1, <2>3 DEF NewAnchor
    <3>. QED
      BY <1>4, <2>1, <2>2, <2>3, <3>1 DEF Most
  <2>4. CASE ~(Until(ws) > 0)
    <3>1. timestampOffset' = timestampOffset
      BY <2>1, <2>4 DEF NewAnchor
    <3>. QED
      BY <2>1, <2>2, <2>4, <3>1
  <2>. QED
    BY <2>3, <2>4
<1>6. Round' /\ Anchor'
  BY <1>2, <1>5, AnchorOfRound
<1>7. Followed'
  BY <1>5 DEF Followed
<1>8. Typed'
  <2>1. Done(ws) \in Seq(Final) /\ Rest(ws) \subseteq Word
    BY DoneIsFinal
  <2>2. /\ transcript \o Done(ws) \in Seq(Final)
        /\ finals' \in Seq(Final)
    BY <1>1, <2>1, ConcatProperties DEF IInv, Typed, TypeOK
  <2>3. transcript' \in Seq(Final) /\ Len(transcript') <= MaxTranscript
    BY <1>1, <2>2, CappedKeeps
  <2>4. Fresh(transcript') \in Seq(Final)
    BY <2>3, FreshIsTail DEF IInv, Typed, TypeOK
  <2>5. delivered' \in Seq(Final)
    BY <1>1, <2>4, ConcatProperties DEF IInv, Typed
  <2>6. confirmed' \in 0..received /\ previousWords' \subseteq Word
    BY <1>1, <1>4, <2>1
  <2>. QED
    BY <1>2, <1>5, <2>2, <2>3, <2>5, <2>6, TypedOfRound
<1>. QED
  BY <1>6, <1>7, <1>8 DEF IInv

LEMMA NextIInv == IInv /\ [Next]_vars => IInv'
<1>. SUFFICES ASSUME IInv, [Next]_vars PROVE IInv'
  OBVIOUS
<1>. QED
  BY AddFramesStep, QuietStep, CaptureStep, DecodeStep, ResultNoneStep,
     ResultNothingStep, ResultWordsStep
     DEF Next, Handler, Recognition

-----------------------------------------------------------------------------
(* What was finalised, and what was sent *)

\* Steps that finalise nothing.
LEMMA QuietFinals ==
  ASSUME LInv, UNCHANGED stabilizerVars, asr = "stopped" => asr' = "stopped"
  PROVE  LInv'
  BY DEF LInv, Behind, FinalisedForward, Complete, stabilizerVars

\* A round's words end after all that was finalised, and the promoted rest
\* comes last.
LEMMA FinalsStep ==
  ASSUME Typed, Round, asr = "decoding", Behind, FinalisedForward,
         NEW ws \in SUBSET Word, Usable(ws),
         confirmed' = Until(ws), finals' = finals \o Done(ws),
         force => asr' = "stopped"
  PROVE  Behind' /\ FinalisedForward'
<1>. DEFINE k == Done(ws)
            c == Until(ws)
            stable == Stable(ws)
            rest == Rest(ws)
<1>1. /\ c \in Nat /\ confirmed \in Nat /\ Tolerance \in Nat
      /\ confirmed <= c
      /\ stable # {} => EndOf(stable) = c
      /\ \A w \in rest : c + Tolerance < w.end
      /\ stable \subseteq ws /\ rest \subseteq ws
  <2>1. c \in 0..received /\ received \in Nat
    BY ConfirmBounds DEF Typed, TypeOK, Until
  <2>. QED
    BY <2>1, ConfirmBounds, ConstantsAssumption DEF Typed, TypeOK, Until, Rest
<1>2. /\ k \in Seq(Final)
      /\ \/ k = <<>>
         \/ stable # {} /\ k = <<Whole(stable)>>
         \/ force /\ rest # {} /\ k = <<Whole(rest)>>
         \/ force /\ stable # {} /\ rest # {} /\ k = <<Whole(stable), Whole(rest)>>
  <2>1. stable \in SUBSET Word /\ rest \in SUBSET Word
    BY <1>1
  <2>. QED
    BY <2>1, CompletedShape DEF Done
<1>3. /\ \A w \in ws : w \in Word /\ w.end \in Nat /\ confirmed + Tolerance < w.end
  BY DEF Usable, Word
<1>4. \A e \in Whole(stable).ends \cup Whole(rest).ends :
        e \in Nat /\ confirmed + Tolerance < e
  BY <1>1, <1>3 DEF Whole
<1>5. \A e \in Whole(rest).ends : c + Tolerance < e
  BY <1>1 DEF Whole
<1>6. Whole(stable).end = EndOf(stable)
  BY DEF Whole
<1>. HIDE DEF k, c, stable, rest
<1>7. /\ \A i \in DOMAIN k : \A e \in k[i].ends : e \in Nat /\ confirmed + Tolerance < e
      /\ ~force => \A i \in DOMAIN k : k[i].end <= c
      /\ \A i, j \in DOMAIN k : i < j =>
           \A e \in k[j].ends : k[i].end + Tolerance < e
  <2>1. CASE k = <<>>
    BY <2>1
  <2>2. CASE stable # {} /\ k = <<Whole(stable)>>
    BY <1>1, <1>4, <1>6, <2>2
  <2>3. CASE force /\ k = <<Whole(rest)>>
    BY <1>4, <2>3
  <2>4. CASE force /\ stable # {} /\ k = <<Whole(stable), Whole(rest)>>
    <3>1. DOMAIN k = {1, 2} /\ k[1] = Whole(stable) /\ k[2] = Whole(rest)
      BY <2>4
    <3>. QED
      BY <1>1, <1>4, <1>5, <1>6, <2>4, <3>1
  <2>. QED
    BY <1>2, <2>1, <2>2, <2>3, <2>4
<1>8. /\ DOMAIN finals = 1..Len(finals) /\ Len(finals) \in Nat
      /\ DOMAIN k = 1..Len(k) /\ Len(k) \in Nat
      /\ DOMAIN finals' = 1..(Len(finals) + Len(k))
      /\ \A i \in 1..(Len(finals) + Len(k)) :
           finals'[i] = IF i <= Len(finals) THEN finals[i]
                                            ELSE k[i - Len(finals)]
  <2>1. finals \in Seq(Final) /\ finals' = finals \o k
    BY DEF Typed, k
  <2>2. Len(finals') = Len(finals) + Len(k) /\ finals' \in Seq(Final)
    BY <1>2, <2>1, ConcatProperties
  <2>. QED
    BY <1>2, <2>1, <2>2, ConcatProperties, LenProperties
<1>9. /\ \A i \in DOMAIN finals : finals[i].end <= confirmed
      /\ \A i \in DOMAIN finals : finals[i].end \in Nat
  <2>1. \A i \in DOMAIN finals : finals[i] \in Final
    BY <1>8, ElementOfSeq DEF Typed
  <2>. QED
    BY <2>1 DEF Behind, Final
<1>10. ASSUME NEW i \in DOMAIN finals'
       PROVE  \/ i \in DOMAIN finals /\ finals'[i] = finals[i]
              \/ /\ i > Len(finals) /\ i - Len(finals) \in DOMAIN k
                 /\ finals'[i] = k[i - Len(finals)]
  BY <1>8
<1>11. Behind'
  <2>1. SUFFICES ASSUME asr' # "stopped", NEW i \in DOMAIN finals'
                 PROVE  finals'[i].end <= c
    BY DEF Behind, c
  <2>2. CASE i \in DOMAIN finals /\ finals'[i] = finals[i]
    BY <1>1, <1>9, <2>2
  <2>3. CASE i - Len(finals) \in DOMAIN k /\ finals'[i] = k[i - Len(finals)]
    BY <1>7, <2>1, <2>3
  <2>. QED
    BY <1>10, <2>2, <2>3
<1>12. FinalisedForward'
  <2>1. SUFFICES ASSUME NEW i \in DOMAIN finals', NEW j \in DOMAIN finals', i < j,
                        NEW e \in finals'[j].ends
                 PROVE  e > finals'[i].end + Tolerance
    BY DEF FinalisedForward
  <2>2. CASE j \in DOMAIN finals /\ finals'[j] = finals[j]
    <3>1. i \in DOMAIN finals /\ finals'[i] = finals[i]
      BY <1>8, <2>1, <2>2
    <3>. QED
      BY <2>1, <2>2, <3>1 DEF FinalisedForward
  <2>3. CASE /\ j > Len(finals) /\ j - Len(finals) \in DOMAIN k
             /\ finals'[j] = k[j - Len(finals)]
    <3>1. e \in Nat /\ confirmed + Tolerance < e
      BY <1>7, <2>1, <2>3
    <3>2. CASE i \in DOMAIN finals /\ finals'[i] = finals[i]
      BY <1>1, <1>9, <3>1, <3>2
    <3>3. CASE /\ i > Len(finals) /\ i - Len(finals) \in DOMAIN k
               /\ finals'[i] = k[i - Len(finals)]
      <4>1. i - Len(finals) < j - Len(finals)
        BY <1>8, <2>1, <2>3, <3>3
      <4>2. k[i - Len(finals)] \in Final
        BY <1>2, <1>8, <3>3, ElementOfSeq
      <4>3. k[i - Len(finals)].end \in Nat
        BY <4>2 DEF Final
      <4>4. k[i - Len(finals)].end + Tolerance < e
        BY <1>7, <2>1, <2>3, <3>3, <4>1
      <4>. QED
        BY <1>1, <3>1, <3>3, <4>3, <4>4
    <3>. QED
      BY <1>10, <3>2, <3>3
  <2>. QED
    BY <1>10, <2>2, <2>3
<1>. QED
  BY <1>11, <1>12

\* Until the cap is reached nothing is cut, and the client gets the rest.
LEMMA CompleteStep ==
  ASSUME Typed, Complete, NEW k \in Seq(Final),
         transcript' = Capped(transcript \o k),
         finals' = finals \o k,
         delivered' = delivered \o Fresh(transcript')
  PROVE  Complete'
<1>. DEFINE S == Final
<1>1. transcript \in Seq(S) /\ finals \in Seq(S) /\ delivered \in Seq(S)
  BY DEF Typed, TypeOK, Words
<1>2. /\ Len(finals') = Len(finals) + Len(k) /\ Len(k) \in Nat
      /\ Len(finals) \in Nat /\ finals' \in Seq(S)
  BY <1>1, ConcatProperties, LenProperties
<1>. HIDE DEF S
<1>3. SUFFICES ASSUME Len(finals') <= MaxTranscript
               PROVE  transcript' = finals' /\ delivered' = finals'
  BY DEF Complete
<1>4. transcript = finals /\ delivered = finals
  BY <1>2, <1>3, ConstantsAssumption DEF Complete
<1>5. transcript' = finals'
  <2>1. finals' = transcript \o k /\ transcript' = Capped(finals')
    BY <1>4
  <2>. QED
    BY <1>2, <1>3, <2>1, CappedKeeps
<1>6. Fresh(transcript') = k
  <2>1. transcript' = transcript \o k /\ k \in Seq(S)
    BY <1>4, <1>5 DEF S
  <2>. QED
    BY <1>1, <1>2, <1>5, <2>1, FreshIsTail
<1>. QED
  BY <1>4, <1>5, <1>6

LEMMA NextLInv == IInv /\ LInv /\ [Next]_vars => LInv'
<1>. SUFFICES ASSUME IInv, LInv, [Next]_vars PROVE LInv'
  OBVIOUS
<1>1. CASE ResultWords
  <2>1. PICK ws \in SUBSET Word :
          /\ Usable(ws) /\ EndRound /\ asr = "decoding"
          /\ confirmed' = Until(ws)
          /\ transcript' = Capped(transcript \o Done(ws))
          /\ finals' = finals \o Done(ws)
          /\ delivered' = delivered \o Fresh(transcript')
    BY <1>1, RoundOfWords DEF IInv
  <2>2. Typed /\ Round /\ (force => asr' = "stopped")
    BY <2>1, EndRoundFacts DEF IInv
  <2>3. Behind' /\ FinalisedForward'
    BY <2>1, <2>2, FinalsStep DEF LInv
  <2>4. Complete'
    BY <2>1, <2>2, DoneIsFinal, CompleteStep DEF LInv
  <2>. QED
    BY <2>3, <2>4 DEF LInv
<1>2. CASE ~ResultWords
  <2>1. UNCHANGED stabilizerVars /\ (asr = "stopped" => asr' = "stopped")
    BY <1>2
       DEF Next, Handler, Recognition, AddFrames, RequestFlush, FlushAnswers,
           FlushTimesOut, ConnectionLost, Close, Exit, FlushNoAudio, Capture,
           TooShort, Wait, Decode, ResultNone, ResultNothing, EndRound, Answer,
           Forced, vars, stabilizerVars
  <2>. QED
    BY <2>1, QuietFinals
<1>. QED
  BY <1>1, <1>2

-----------------------------------------------------------------------------
(* The theorems *)

LEMMA Invariance == Spec => [](IInv /\ LInv)
<1>1. Init => IInv /\ LInv
  BY InitIInv
<1>2. IInv /\ LInv /\ [Next]_vars => (IInv /\ LInv)'
  BY NextIInv, NextLInv
<1>. QED
  BY <1>1, <1>2, PTL DEF Spec

\* Every variable of the session keeps its type, whatever the limits: the
\* anchor never falls behind the buffer that add_frames trims.
THEOREM TypeCorrect == Spec => []TypeOK
<1>1. IInv => TypeOK
  BY DEF IInv, Typed
<1>. QED
  BY <1>1, Invariance, PTL

\* The anchor of get_audio_chunk_for_processing jumps over no audio the
\* recogniser was not given, as long as no trim falls into a round.
THEOREM NothingSkippedUnheard == Spec => []SkippedWasHeard
<1>1. IInv => SkippedWasHeard
  BY DEF IInv, Anchor, SkippedWasHeard
<1>. QED
  BY <1>1, Invariance, PTL

\* Whatever words the recogniser answers, with whatever texts and times, and
\* wherever the windows start, the local agreement finalises only forward: a
\* word becomes final again only when its end has moved past what is final.
THEOREM FinalityMovesForward == Spec => []FinalisedForward
<1>1. LInv => FinalisedForward
  BY DEF LInv
<1>. QED
  BY <1>1, Invariance, PTL

\* As long as a session has not finalised more segments than the transcript
\* keeps, handle_transcription_output sends the client every one of them.
THEOREM EverythingSentUpToTheCap == Spec => []SentUpToTheCap
<1>1. LInv => SentUpToTheCap
  BY DEF LInv, Complete, SentUpToTheCap
<1>. QED
  BY <1>1, Invariance, PTL

\* Neither thread ever moves the anchor back.
THEOREM AnchorMovesForward == Spec => AnchorMonotone
<1>1. IInv /\ [Next]_vars => [timestampOffset' >= timestampOffset]_vars
  <2>. SUFFICES ASSUME IInv, [Next]_vars PROVE timestampOffset' >= timestampOffset
    OBVIOUS
  <2>1. timestampOffset \in Nat /\ framesOffset \in Nat /\ confirmed \in Nat
    BY DEF IInv, Typed, TypeOK
  <2>2. CASE AddFrames
    BY <2>1, <2>2, ConstantsAssumption DEF AddFrames, Trimmed, Most, anchorVars
  <2>3. CASE ResultNone
    BY <2>3 DEF ResultNone, AfterNone, IInv, Typed, TypeOK
  <2>4. CASE ResultWords
    <3>1. PICK c : timestampOffset' = NewAnchor(c) /\ c = confirmed'
      BY <2>4 DEF ResultWords
    <3>2. c \in Nat
      <4>1. IInv'
        BY NextIInv
      <4>. QED
        BY <3>1, <4>1 DEF IInv, Typed, TypeOK
    <3>. QED
      <4>1. Most(timestampOffset, c - Retain) >= timestampOffset
        BY <2>1, <3>2, ConstantsAssumption, LeastMost
      <4>. QED
        BY <2>1, <3>1, <4>1 DEF NewAnchor
  <2>5. CASE ~(AddFrames \/ ResultNone \/ ResultWords)
    <3>1. timestampOffset' = timestampOffset
      BY <2>5
         DEF Next, Handler, Recognition, RequestFlush, FlushAnswers,
             FlushTimesOut, ConnectionLost, Close, Exit, FlushNoAudio, Capture,
             TooShort, Wait, Decode, ResultNothing, anchorVars, vars
    <3>. QED
      BY <2>1, <3>1
  <2>. QED
    BY <2>2, <2>3, <2>4, <2>5
<1>. QED
  BY <1>1, Invariance, PTL DEF Spec, AnchorMonotone

-----------------------------------------------------------------------------
(* The flush.  The window of the round reaches to the end of the audio, or *)
(* is as long as a window can be.                                          *)
Reaches == chunkTo >= Least(received, chunkFrom + Window)

(* A flush is asked for once, when no more audio comes, and answered by a  *)
(* loop that ends; a round that began with it has taken all there is.      *)
Flushing ==
  /\ flushRequested \in BOOLEAN /\ flushCompleted \in BOOLEAN
  /\ force \in BOOLEAN /\ late \in BOOLEAN
  /\ (flushRequested \/ flushCompleted) => recv # "receiving"
  /\ flushCompleted => asr = "stopped"
  /\ asr = "captured" /\ flushRequested /\ ~late => Reaches
  /\ asr = "decoding" /\ force => recv # "receiving"
  /\ asr = "decoding" /\ force /\ ~late => Reaches
  /\ flushCompleted /\ ~late => Reaches

LEMMA InitFlushing == Init => Flushing
  BY DEF Init, Flushing

(* Outside the capture and the handler's steps the window stays what it    *)
(* is, and only a loop that ends answers.                                  *)
LEMMA FlushStep == IInv /\ Flushing /\ [Next]_vars => Flushing'
<1>. SUFFICES ASSUME IInv, Flushing, [Next]_vars PROVE Flushing'
  OBVIOUS
<1>1. /\ received \in Nat /\ framesOffset \in Nat /\ timestampOffset \in Nat
      /\ chunkFrom \in Nat /\ chunkTo \in Nat /\ Window \in Nat
  BY ConstantsAssumption DEF IInv, Typed, TypeOK
<1>2. CASE AddFrames
  BY <1>2 DEF AddFrames, Flushing, flushVars, chunkVars
<1>3. CASE RequestFlush
  BY <1>3 DEF RequestFlush, Flushing, chunkVars, Reaches
<1>4. CASE FlushAnswers \/ FlushTimesOut \/ ConnectionLost
  BY <1>4 DEF FlushAnswers, FlushTimesOut, ConnectionLost, Close, Flushing,
              chunkVars, Reaches
<1>5. CASE Exit \/ Wait
  BY <1>5 DEF Exit, Wait, Flushing, flushVars, chunkVars, Reaches
<1>6. CASE FlushNoAudio
  <2>1. received = 0 /\ UNCHANGED <<received, chunkVars>>
    BY <1>6 DEF FlushNoAudio
  <2>2. Reaches'
    BY <1>1, <2>1 DEF Reaches, Least, chunkVars
  <2>. QED
    BY <1>6, <2>2 DEF FlushNoAudio, Answer, Flushing
<1>7. CASE Capture
  <2>1. Reaches'
    BY <1>1, <1>7 DEF Capture, Start, Most, Least, Reaches
  <2>. QED
    BY <1>7, <2>1 DEF Capture, Flushing, flushVars
<1>8. CASE TooShort
  BY <1>8 DEF TooShort, Answer, Flushing, flushVars, chunkVars, Reaches
<1>9. CASE Decode
  BY <1>9 DEF Decode, Flushing, flushVars, chunkVars, Reaches
<1>10. CASE ResultNone \/ ResultNothing \/ ResultWords
  <2>1. EndRound
    BY <1>10 DEF ResultNone, ResultNothing, ResultWords
  <2>. QED
    BY <2>1 DEF EndRound, Forced, Answer, Flushing, flushVars, chunkVars, Reaches
<1>11. CASE UNCHANGED vars
  BY <1>11 DEF vars, Flushing, flushVars, chunkVars, Reaches
<1>. QED
  BY <1>2, <1>3, <1>4, <1>5, <1>6, <1>7, <1>8, <1>9, <1>10, <1>11
     DEF Next, Handler, Recognition

\* For audio and windows of any length, a flush that is reported complete was
\* answered by a round that took everything the buffer held, up to a window,
\* unless it was asked for between the capture and the second look at the flag
\* (base.py:151-152).
THEOREM FlushTakesTheTail == Spec => []FlushSeesTheTail
<1>1. Flushing => FlushSeesTheTail
  BY DEF Flushing, FlushSeesTheTail, Reaches
<1>. QED
  BY <1>1, InitFlushing, FlushStep, Invariance, PTL DEF Spec
=============================================================================

----------------------------- MODULE Transcriber -----------------------------
(***************************************************************************)
(* transcribe() of transcriber_faster_whisper.py on one window of audio:   *)
(* the voice activity filter cuts the audio to its speech, the loop of     *)
(* generate_segments walks through it and restore_speech_timestamps puts   *)
(* the segments back on the time of the audio.                             *)
(*                                                                         *)
(* One unit is a frame, a timestamp token's step and a second; the token   *)
(* TextToken stands for any text and the others are timestamps.  The model *)
(* runtime and its word alignment are external: any token sequence its     *)
(* timestamp rules allow, any words in time order for any of the segments. *)
(***************************************************************************)
EXTENDS Ordering, Sequences, FiniteSetsExt

CONSTANTS
  Audio,            \* length of the audio
  MaxChunks,        \* bound of the model: stretches the filter keeps
  MaxFrames,        \* nb_max_frames: what one round decodes, 30 s
  MaxTokens,        \* bound of the model: tokens of a round
  Temperatures,     \* how many temperatures the options list
  Threshold,        \* hallucination_silence_threshold, 1 s
  Near,             \* the 2.0 s of the code around a window's edges
  Long,             \* the 0.5 s by which a word is too long for its segment
  MaxMedian         \* what the median duration of a word is capped at, 0.7 s

ASSUME TranscriberAssumption ==
  /\ Audio \in Nat /\ MaxChunks \in Nat
  /\ MaxFrames \in Nat \ {0} /\ MaxTokens \in Nat
  /\ Temperatures \in Nat \ {0}
  /\ Threshold \in Nat /\ Near \in Nat
  /\ Long \in Nat /\ MaxMedian \in Nat
  /\ Long <= MaxMedian /\ MaxMedian <= 2 * Long

VARIABLES
  wordTimestamps,   \* the option word_timestamps
  chunks,       \* speech_chunks: what the filter kept, in order
  seek,
  segments,     \* all_segments
  lastSpeech,   \* last_speech_timestamp
  restored,     \* the segments on the time of the audio
  rounds,       \* history: rounds of the loop
  phase         \* "called", "made", "decoding", "restoring" or "done"

callVars == <<wordTimestamps, chunks, seek, segments, lastSpeech, restored,
          rounds, phase>>

-----------------------------------------------------------------------------
(* The voice activity filter (external) and its time map *)

Chunk == {c \in [start : 0..Audio, end : 0..Audio] : c.start < c.end}

(* Every way to keep stretches with a gap between them. *)
SpeechChunks ==
  {k \in UNION {[1..n -> Chunk] : n \in 1..MaxChunks} :
     \A i, j \in DOMAIN k : i < j => k[i].end < k[j].start}

(* How much of the audio they hold: stretches do not overlap. *)
Content(k) ==
  Cardinality({t \in 0..(Audio - 1) :
                 \E i \in DOMAIN k : k[i].start <= t /\ t < k[i].end})

(* Where chunk i ends in the filtered audio, and the silence cut out       *)
(* before it.                                                              *)
FilteredEnd(i) == Content(SubSeq(chunks, 1, i))
SilenceBefore(i) == chunks[i].end - FilteredEnd(i)

(* get_chunk_index of a time given as twice its value. *)
ChunkAt(twice) ==
  Least(Len(chunks),
        1 + Cardinality({i \in DOMAIN chunks : 2 * FilteredEnd(i) <= twice}))

-----------------------------------------------------------------------------
(* What the model may answer *)

TextToken == -1
IsTime(t) == t >= 0

(* The runtime's timestamp rules: the first token is a timestamp; after a  *)
(* text and a timestamp comes another timestamp or the end, after two (or  *)
(* at the start) a text; times do not go back and a segment is not empty.  *)
Legal(ts) ==
  /\ ts # <<>> /\ IsTime(ts[1])
  /\ \A i \in 2..Len(ts) :
       /\ IsTime(ts[i]) /\ IsTime(ts[i - 1]) => i > 2 /\ ~IsTime(ts[i - 2])
       /\ \A j \in 1..(i - 1) :
            IsTime(ts[i]) /\ IsTime(ts[j]) =>
              ts[j] <= ts[i] /\ (j = i - 2 => ts[j] < ts[i])
       /\ ~IsTime(ts[i]) => IsTime(ts[i - 1])

Outputs ==
  {ts \in UNION {[1..n -> {TextToken} \cup 0..MaxFrames] : n \in 1..MaxTokens}
    : Legal(ts)}

(* A decoding result: too repetitive?  its log probability against the     *)
(* threshold (-1 below, 0 equal, 1 above); is it probably no speech?       *)
Quality == [repetitive : BOOLEAN, logprob : -1..1, silent : BOOLEAN]

(* generate_with_fallback: the first temperature whose result is neither   *)
(* repetitive nor improbable, or is silence; when all fail, the most       *)
(* probable of those that are not repetitive, or else of all.              *)
NeedsFallback(q) ==
  /\ q.repetitive \/ q.logprob < 0
  /\ ~(q.silent /\ q.logprob < 0)

Fallback(qs) ==
  LET good == {i \in DOMAIN qs : ~NeedsFallback(qs[i])}
      plain == {i \in DOMAIN qs : ~qs[i].repetitive}
      left == IF plain = {} THEN DOMAIN qs ELSE plain
      best == {i \in left : \A j \in left : qs[j].logprob <= qs[i].logprob}
  IN qs[Min(IF good # {} THEN good ELSE best)]

(* No speech, unless the text is probable all the same. *)
ShouldSkip(q) == q.silent /\ q.logprob <= 0

-----------------------------------------------------------------------------
(* _split_segments_by_timestamps *)

SingleEnding(ts) ==
  Len(ts) >= 2 /\ ~IsTime(ts[Len(ts) - 1]) /\ IsTime(ts[Len(ts)])

(* The last token of every slice: before the second of two timestamps, and *)
(* the end of the tokens when they end with a single one.                  *)
Slices(ts) ==
  LET pairs == {i \in 1..(Len(ts) - 1) : IsTime(ts[i]) /\ IsTime(ts[i + 1])}
  IN IF pairs = {} THEN <<>>
     ELSE InOrder(pairs \cup (IF SingleEnding(ts) THEN {Len(ts)} ELSE {}))

LastTime(ts) ==
  LET times == {i \in DOMAIN ts : IsTime(ts[i])}
  IN IF times = {} THEN 0 ELSE ts[Max(times)]

Split(ts, size) ==
  LET at == Slices(ts)
      from(i) == IF i = 1 THEN 1 ELSE at[i - 1] + 1
  IN IF at # <<>>
     THEN [segments |-> [i \in DOMAIN at |-> [start |-> ts[from(i)],
                                              end |-> ts[at[i]]]],
           seek |-> IF SingleEnding(ts) THEN size ELSE ts[at[Len(at)]],
           single |-> SingleEnding(ts)]
     ELSE [segments |-> <<[start |-> 0,
                           end |-> IF LastTime(ts) # 0 THEN LastTime(ts)
                                                       ELSE size]>>,
           seek |-> size,
           single |-> SingleEnding(ts)]

(* What the answers of the model amount to, for a window of every size;    *)
(* times are relative to its begin.                                        *)
Splits == [size \in 1..MaxFrames |-> {Split(ts, size) : ts \in Outputs}]

-----------------------------------------------------------------------------
(* Word timestamps *)

(* The times of a segment's first and last word; with one word they are    *)
(* the same.                                                               *)
Word(size) == {w \in [start : 0..size, end : 0..size] : w.start <= w.end}
WordPair(size) == {w \in [first : Word(size), last : Word(size)] :
                  w.first = w.last \/ w.first.end <= w.last.start}

Opening(w, t) == LET f == [w.first EXCEPT !.start = t]
                 IN [first |-> f, last |-> IF w.first = w.last THEN f ELSE w.last]
Closing(w, t) == LET l == [w.last EXCEPT !.end = t]
                 IN [first |-> IF w.first = w.last THEN l ELSE w.first, last |-> l]

(* Words after a pause are too long: the first one, or the first two.      *)
TooLong(w, median) == w.first.end - w.first.start > 2 * median
MayBeTooLong(w, median) ==
  TooLong(w, median) \/ (w.first # w.last /\ w.last.end - w.first.start > 4 * median)

(* Such a first word begins later, or even earlier (ago: how long before   *)
(* the window the audio began).  Where the end of the first word moves     *)
(* with it, the outcome is that of another alignment.                      *)
Shortened(w, median, ago) == Opening(w, Most(-ago, w.first.end - 2 * median))

(* The segment's own begin is preferred to that of a long first word, and  *)
(* its end to that of a long last word; otherwise it takes theirs.         *)
Begun(s, w, median, ago) ==
  IF s.start < w.first.end /\ s.start - Long > w.first.start
  THEN [start |-> s.start,
        words |-> Opening(w, Most(-ago, Least(w.first.end - median, s.start)))]
  ELSE [start |-> w.first.start, words |-> w]
Ended(s, w, median) ==
  IF s.end > w.last.start /\ s.end + Long < w.last.end
  THEN [end |-> s.end, words |-> Closing(w, Most(w.last.start + median, s.end))]
  ELSE [end |-> w.last.end, words |-> w]

(* A segment with words; odd is what is_segment_anomaly says of them.      *)
Timed(s, w, median, ago, odd) ==
  LET b == Begun(s, w, median, ago)
      e == Ended(s, b.words, median)
  IN [start |-> b.start, end |-> e.end,
      first |-> e.words.first, last |-> e.words.last,
      words |-> TRUE, text |-> TRUE, odd |-> odd]

(* A segment that gets no words, or all of them without word timestamps:   *)
(* the times are those of its tokens, and its text may be blank.           *)
Untimed(s, text) ==
  [start |-> s.start, end |-> s.end, first |-> s, last |-> s,
   words |-> FALSE, text |-> text, odd |-> FALSE]

(* The segments of a window with the words aligned, in time order, to some *)
(* of them, after speech up to past.                                       *)
Outcome(segs, ws, short, odd, text, median, ago) ==
  [i \in DOMAIN segs |->
     IF i \in DOMAIN ws
     THEN Timed(segs[i], IF i \in short THEN Shortened(ws[i], median, ago) ELSE ws[i],
                median, ago, i \in odd)
     ELSE Untimed(segs[i], i \in text)]

AfterPause(out, ws, i, median, past) ==
  LET before == {j \in DOMAIN ws : j < i}
  IN IF before = {} THEN ws[i].first.end - past > 4 * median
     ELSE \A j \in before : ws[i].first.end - out[j].end > 4 * median

(* What is shortened is too long, and what is too long is shortened. *)
Applied(out, ws, short, median, past) ==
  \A i \in DOMAIN ws :
    IF i \in short
    THEN AfterPause(out, ws, i, median, past) /\ MayBeTooLong(ws[i], median)
    ELSE ~AfterPause(out, ws, i, median, past) \/ ~TooLong(ws[i], median)

InTimeOrder(ws) ==
  \A i, j \in DOMAIN ws : i < j => ws[i].last.end <= ws[j].first.start

Aligned(segs, size, past, ago) ==
  UNION {
    {out \in {Outcome(segs, ws, short, odd, text, median, ago) :
                odd \in SUBSET DOMAIN ws, text \in SUBSET (DOMAIN segs \ DOMAIN ws)} :
       Applied(out, ws, short, median, past)} :
    ws \in {f \in UNION {[spoken -> WordPair(size)] : spoken \in SUBSET DOMAIN segs} :
              InTimeOrder(f)},
    short \in SUBSET DOMAIN segs, median \in 0..MaxMedian}

Plain(segs) ==
  {[i \in DOMAIN segs |-> Untimed(segs[i], i \in text)] :
     text \in SUBSET DOMAIN segs}

WithWords(segs) == {i \in DOMAIN segs : segs[i].words}

(* get_end: of the last word, or of the last segment. *)
GetEnd(segs) ==
  LET w == WithWords(segs)
  IN segs[IF w = {} THEN Len(segs) ELSE Max(w)].last.end

(* After an unfinished segment the loop goes on where the last word ended, *)
(* if that is any progress.                                                *)
WordSeek_Always(segs, split) ==
  IF ~split.single THEN GetEnd(segs) ELSE split.seek
WordSeek(segs, split) ==
  IF ~split.single /\ GetEnd(segs) > 0 THEN GetEnd(segs) ELSE split.seek

(* A possible hallucination with silence, or another one, on both sides. *)
Surrounded(segs, i, size, past, ago) ==
  LET before == {j \in WithWords(segs) : j < i}
      after == {j \in WithWords(segs) : j > i}
      lastEnd == IF before = {} THEN past ELSE segs[Max(before)].end
      nextStart == IF after = {} THEN size ELSE segs[Min(after)].first.start
      s == segs[i]
  IN /\ s.words /\ s.odd
     /\ \/ s.start - lastEnd > Threshold \/ ago + s.start < Threshold
        \/ s.start < Near
     /\ \/ nextStart - s.end > Threshold
        \/ after # {} /\ segs[Min(after)].odd
        \/ MaxFrames - s.end < Near

(* What the round keeps and how far it goes.  A leading silence before a   *)
(* possible hallucination is skipped and the round repeated from there; a  *)
(* surrounded one, and what follows it, is left out.                       *)
Judge(segs, next, size, left, past, ago) ==
  LET first == IF WithWords(segs) = {} THEN 0 ELSE Min(WithWords(segs))
      bad == {i \in DOMAIN segs : Surrounded(segs, i, size, past, ago)}
      b == Min(bad)
  IN IF first # 0 /\ segs[first].odd /\ segs[first].start > Threshold
     THEN [segments |-> <<>>, seek |-> segs[first].start]
     ELSE IF bad = {} THEN [segments |-> segs, seek |-> next]
     ELSE [segments |-> SubSeq(segs, 1, b - 1),
           seek |-> IF left - segs[b].end < Threshold THEN left
                    ELSE Most(1, segs[b].start)]

-----------------------------------------------------------------------------
(* generate_segments and restore_speech_timestamps *)

CallInit ==
  /\ wordTimestamps = FALSE /\ chunks = <<>>
  /\ seek = 0 /\ segments = <<>> /\ lastSpeech = 0
  /\ restored = <<>> /\ rounds = 0
  /\ phase = "called"

(* transcribe: audio without speech has no result; otherwise the caller    *)
(* gets a generator.  Language and prompt belong to the model's answers.   *)
Transcribe ==
  /\ phase = "called"
  /\ wordTimestamps' \in BOOLEAN
  /\ chunks' \in SpeechChunks \cup {<<>>}
  /\ phase' = IF chunks' = <<>> THEN "done" ELSE "made"
  /\ UNCHANGED <<seek, segments, lastSpeech, restored, rounds>>

(* The generator runs when its first segment is asked for; without         *)
(* clip_timestamps there is one clip, the whole content.                   *)
LoopBegins ==
  /\ phase = "made"
  /\ seek' = 0 /\ segments' = <<>> /\ lastSpeech' = 0
  /\ phase' = "decoding"
  /\ UNCHANGED <<wordTimestamps, chunks, restored, rounds>>

Size == Least(MaxFrames, Content(chunks) - seek)

NextResult == {Fallback(qs) : qs \in [1..Temperatures -> Quality]}

SkipSilence ==
  /\ phase = "decoding" /\ seek < Content(chunks)
  /\ \E q \in NextResult : ShouldSkip(q)
  /\ seek' = seek + Size
  /\ rounds' = rounds + 1
  /\ UNCHANGED <<wordTimestamps, chunks, segments, lastSpeech, restored, phase>>

(* Segments with a text and a duration, on the time of the filtered audio. *)
After(w) == [start |-> seek + w.start, end |-> seek + w.end]

Visible(segs) ==
  LET seen == {i \in DOMAIN segs : segs[i].text /\ segs[i].start # segs[i].end}
      Put(s) == [start |-> seek + s.start, end |-> seek + s.end,
                 first |-> After(s.first), last |-> After(s.last), words |-> s.words]
  IN [k \in 1..Cardinality(seen) |-> Put(ElementsAt(segs, seen)[k])]

(* The outcomes of a round with so much audio left, after speech up to     *)
(* past, that begins so long after the audio does: what it keeps, and how  *)
(* far it goes.                                                            *)
WordRounds(left, past, ago) ==
  LET size == Least(MaxFrames, left)
  IN UNION {{Judge(segs, WordSeek(segs, split), size, left, past, ago) :
               segs \in Aligned(split.segments, size, past, ago)} :
            split \in Splits[size]}

PlainRounds(left) ==
  UNION {{[segments |-> segs, seek |-> split.seek] :
            segs \in Plain(split.segments)} :
         split \in Splits[Least(MaxFrames, left)]}

(* The same as a table of constants, for the rounds that can be met. *)
Contexts == {c \in (1..Audio) \X (-Audio..MaxFrames) \X (0..Audio) :
               c[1] + c[3] <= Audio /\ c[2] + c[3] >= 0}
Table == [c \in Contexts |-> WordRounds(c[1], c[2], c[3])]

Rounds ==
  LET left == Content(chunks) - seek
      past == lastSpeech - seek
  IN IF ~wordTimestamps THEN PlainRounds(left)
     ELSE IF <<left, past, seek>> \in Contexts THEN Table[<<left, past, seek>>]
     ELSE WordRounds(left, past, seek)

Decode ==
  /\ phase = "decoding" /\ seek < Content(chunks)
  /\ \E q \in NextResult : ~ShouldSkip(q)
  /\ \E round \in Rounds :
       /\ seek' = seek + round.seek
       /\ segments' = segments \o Visible(round.segments)
       /\ lastSpeech' = IF wordTimestamps /\ round.segments # <<>>
                          THEN seek + GetEnd(round.segments) ELSE lastSpeech
  /\ rounds' = rounds + 1
  /\ UNCHANGED <<wordTimestamps, chunks, restored, phase>>

LoopEnds ==
  /\ phase = "decoding" /\ seek >= Content(chunks)
  /\ phase' = "restoring"
  /\ UNCHANGED <<wordTimestamps, chunks, seek, segments, lastSpeech, restored,
                 rounds>>

(* A word's two times are resolved to the chunk its middle is in. *)
OwnChunk_Each(t, a, b) == ChunkAt(2 * t)
OwnChunk(t, a, b) == ChunkAt(a + b)

(* A segment with words takes the times of its first and last one; one     *)
(* without has only its own.                                               *)
RestoredWord(w, own) ==
  LET Moved(t) == t + SilenceBefore(IF own THEN OwnChunk(t, w.start, w.end)
                                           ELSE ChunkAt(2 * t))
  IN [start |-> Moved(w.start), end |-> Moved(w.end)]

Restored(s) == [first |-> RestoredWord(s.first, s.words),
                last |-> RestoredWord(s.last, s.words)]

Restore ==
  /\ phase = "restoring"
  /\ restored' = [i \in DOMAIN segments |-> Restored(segments[i])]
  /\ phase' = "done"
  /\ UNCHANGED <<wordTimestamps, chunks, seek, segments, lastSpeech, rounds>>

CallNext ==
  Transcribe \/ LoopBegins \/ SkipSilence \/ Decode \/ LoopEnds \/ Restore

CallSpec == CallInit /\ [][CallNext]_callVars

-----------------------------------------------------------------------------
(* Properties *)

(* How far the times of the words of two segments may reach into each      *)
(* other.                                                                  *)
Growth == MaxMedian - Long
Overlap == IF wordTimestamps THEN 2 * Growth ELSE 0

(* Whatever the model answers, a segment ends after it begins.  Segments   *)
(* come in time order and do not overlap in the filtered audio, unless one *)
(* of them got no words; and on the time of the audio they are in order    *)
(* too, up to what the aligner's words grow.  Their words end with the     *)
(* audio, and no word is stretched over a silence that was cut out.        *)
SegmentsInOrder ==
  LET Aligned2(i, j) == wordTimestamps => segments[i].words /\ segments[j].words
  IN /\ \A i \in DOMAIN segments : segments[i].start < segments[i].end
     /\ \A i, j \in DOMAIN segments :
          i < j /\ Aligned2(i, j) => segments[i].end <= segments[j].start
     /\ \A i, j \in DOMAIN restored :
          i < j /\ Aligned2(i, j) =>
            restored[i].last.end <= restored[j].first.start + Overlap
     /\ \A i \in DOMAIN restored : LET r == restored[i] s == segments[i] IN
          /\ r.first.start <= r.last.end
          /\ s.words =>
               /\ r.last.end <= Audio + Growth
               /\ r.first.end - r.first.start = s.first.end - s.first.start
               /\ r.last.end - r.last.start = s.last.end - s.last.start

(* Every round of the loop, also one that keeps nothing, goes on by at     *)
(* least a frame: the recogniser returns, for every audio and every answer *)
(* of the model.                                                           *)
EveryRoundAdvances == rounds <= seek
=============================================================================

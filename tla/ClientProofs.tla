----------------------------- MODULE ClientProofs ------------------------------
(***************************************************************************)
(* Theorems about what becomes of the sound before a server hears it, and  *)
(* of the words a client gets: Capture, for every length of frames and     *)
(* chunks, every queue, hangover and lag of the clocks, and                *)
(* UpstreamClient, for any number of clients, messages and blocks.         *)
(*                                                                         *)
(* CInv, the inductive invariant of Capture, has one part per idea:        *)
(*   - CaptureTypes: what the variables hold;                              *)
(*   - EmptyIsLast: an empty frame comes from a failed recorder and        *)
(*     nothing comes after it, in hand, in the queue or in the window;     *)
(*   - LossKnown: what is missing between the device and the reader;       *)
(*   - InLine: the sound of the chunks, the window, the queue and the      *)
(*     producer's hand follow each other in time;                          *)
(*   - Dated: stamps are late by MaxLag at most, and the origin is the     *)
(*     stamp of the first frame ever read;                                 *)
(*   - ShortWindow: a window is cut as soon as it is long enough;          *)
(*   - HangoverHolds: how long ago the filter heard a voice.               *)
(* UpstreamClient has two, which meet nowhere: TextInv, on the cues of     *)
(* each client, and RecordingInv, on the blocks of the recording.          *)
(***************************************************************************)
EXTENDS Capture, UpstreamClient, SequenceTheorems, WellFoundedInduction, TLAPS

Frame == [from : Nat, len : {0, FrameLen}, stamp : Nat]
VadStates == {"off", "unloaded", "on", "disabled"}
Verdicts == [voice : BOOLEAN, passed : BOOLEAN, vad : VadStates,
             hangover : Nat]
ChunkRecord == [start : Nat, sound : [1..ChunkLen -> Nat], verdict : Verdicts]
Busy == [at : {"put", "evict", "retry"}, frame : Frame, lost : {0, FrameLen}]

CaptureTypes ==
  /\ device \in {"closed", "running", "failed", "stopped"}
  /\ time \in 0..MaxTime
  /\ producer = Idle \/ producer \in Busy
  /\ queue \in Seq(Frame) /\ window \in Seq(Frame)
  /\ received \in Nat /\ dropped \in Nat /\ refused \in Nat /\ read \in Nat
  /\ reader \in {"new", "reading", "done"}
  /\ origin \in Nat \cup {None}
  /\ chunks \in Seq(ChunkRecord)
  /\ vad \in VadStates /\ hangover \in 0..Hangover

EmptyIsLast ==
  /\ device = "closed" => producer = Idle
  /\ producer # Idle => (producer.frame.len = 0 <=> device = "failed")
  /\ \A i \in DOMAIN queue : queue[i].len = 0 =>
       i = Len(queue) /\ producer = Idle /\ device = "failed"
  /\ \A i \in DOMAIN window : window[i].len = 0 =>
       /\ i = Len(window) /\ queue = <<>>
       /\ producer = Idle /\ device = "failed"

InHand == IF producer = Idle THEN 0 ELSE producer.frame.len
Evicted == IF producer.at = "retry" THEN producer.lost ELSE 0
Report == IF device = "failed" /\ producer.at \in {"idle", "retry"}
            THEN FrameLen ELSE 0

LossKnown ==
  /\ producer.at \in {"evict", "retry"} => producer.lost = producer.frame.len
  /\ producer.at = "put" => producer.lost = 0
  /\ received - read - Duration(queue) - InHand <= dropped + Evicted + Report

\* A sequence of frames that follow each other in time.
Spaced(s) ==
  \A i, j \in DOMAIN s : i < j => s[i].from + FrameLen <= s[j].from

InLine ==
  /\ Spaced(queue) /\ Spaced(window)
  /\ \A i \in DOMAIN window : \A j \in DOMAIN queue :
       window[i].from + FrameLen <= queue[j].from
  /\ \A i \in DOMAIN queue : queue[i].from + queue[i].len <= time
  /\ \A i \in DOMAIN window : window[i].from + window[i].len <= time
  /\ producer # Idle =>
       /\ producer.frame.from + producer.frame.len <= time
       /\ \A i \in DOMAIN queue :
            queue[i].from + FrameLen <= producer.frame.from
       /\ \A i \in DOMAIN window :
            window[i].from + FrameLen <= producer.frame.from

ChunksInLine ==
  \A i \in DOMAIN chunks : \A m \in 1..ChunkLen :
    /\ chunks[i].sound[m] < time
    /\ \A j \in DOMAIN window : chunks[i].sound[m] < window[j].from
    /\ \A j \in DOMAIN queue : chunks[i].sound[m] < queue[j].from
    /\ producer # Idle => chunks[i].sound[m] < producer.frame.from

\* When the first sound ever read was heard.
FirstHeard == IF chunks # <<>> THEN chunks[1].sound[1] ELSE window[1].from

Stamped(f) == f.stamp - f.from \in 0..MaxLag

Dated ==
  /\ \A i \in DOMAIN queue : Stamped(queue[i])
  /\ \A i \in DOMAIN window : Stamped(window[i])
  /\ producer # Idle => Stamped(producer.frame)
  /\ origin = None => window = <<>> /\ chunks = <<>>
  /\ origin # None =>
       (chunks # <<>> \/ window # <<>>) /\ origin - FirstHeard \in 0..MaxLag

ShortWindow ==
  /\ Duration(window) < ChunkLen
  /\ refused <= Len(chunks) * (FrameLen - 1)

\* A voice not longer ago than Hangover chunks has left a hangover.
HangoverHolds ==
  /\ vad = "unloaded" => chunks = <<>>
  /\ \A i \in DOMAIN chunks :
       /\ chunks[i].verdict.vad = "disabled" => vad = "disabled"
       /\ vad = "on" /\ chunks[i].verdict.voice =>
            hangover + (Len(chunks) - i) >= Hangover

CInv == /\ CaptureTypes /\ EmptyIsLast /\ LossKnown
        /\ InLine /\ ChunksInLine /\ Dated /\ ShortWindow /\ HangoverHolds

\* Dividing by the length of a frame.
LEMMA DivMod ==
  ASSUME NEW F \in Nat \ {0}, NEW k \in Nat
  PROVE  /\ k \div F \in Nat /\ k % F \in 0..(F - 1)
         /\ k = (F * (k \div F)) + (k % F)
  OBVIOUS

\* The frame a unit lies in.
LEMMA DivLess ==
  ASSUME NEW F \in Nat \ {0}, NEW k \in Nat, NEW n \in Nat, k < n * F
  PROVE  k \div F < n
<1>1. k = (F * (k \div F)) + (k % F) /\ k \div F \in Nat /\ k % F \in 0..(F - 1)
  BY DivMod
<1>2. SUFFICES ASSUME n <= k \div F PROVE FALSE
  BY <1>1
<1>3. n * F <= (k \div F) * F
  BY <1>2, <1>1
<1> QED BY <1>1, <1>3

\* An element appended at the end.
LEMMA AppendFacts ==
  ASSUME NEW S, NEW s \in Seq(S), NEW e \in S
  PROVE  /\ Append(s, e) \in Seq(S) /\ Append(s, e) # <<>>
         /\ Len(s) \in Nat /\ DOMAIN s = 1..Len(s)
         /\ Len(Append(s, e)) = Len(s) + 1
         /\ DOMAIN Append(s, e) = 1..(Len(s) + 1)
         /\ \A i \in DOMAIN s : Append(s, e)[i] = s[i] /\ s[i] \in S
         /\ Append(s, e)[Len(s) + 1] = e
  OBVIOUS

\* What is left when the first element is taken.
LEMMA TailFacts ==
  ASSUME NEW S, NEW s \in Seq(S), s # <<>>
  PROVE  /\ Tail(s) \in Seq(S) /\ Head(s) = s[1] /\ Head(s) \in S
         /\ Len(s) \in Nat /\ DOMAIN s = 1..Len(s) /\ 1 \in DOMAIN s
         /\ Len(Tail(s)) = Len(s) - 1 /\ DOMAIN Tail(s) = 1..(Len(s) - 1)
         /\ \A i \in DOMAIN Tail(s) : Tail(s)[i] = s[i + 1] /\ i + 1 \in DOMAIN s
  OBVIOUS

\* The fields of a frame and of what the producer has in hand.
LEMMA Fields ==
  /\ \A f \in Frame : f.from \in Nat /\ f.len \in {0, FrameLen} /\ f.stamp \in Nat
  /\ \A p \in Busy : /\ p.at \in {"put", "evict", "retry"} /\ p # Idle
                     /\ p.frame \in Frame /\ p.lost \in {0, FrameLen}
  /\ Idle.at = "idle"
<1>1. \A f \in Frame : f.from \in Nat /\ f.len \in {0, FrameLen} /\ f.stamp \in Nat
  BY DEF Frame
<1>2. \A p \in Busy : /\ p.at \in {"put", "evict", "retry"}
                      /\ p.frame \in Frame /\ p.lost \in {0, FrameLen}
  BY DEF Busy
<1>3. Idle.at = "idle"
  BY DEF Idle
<1>4. \A p \in Busy : p # Idle
  BY <1>2, <1>3
<1> QED BY <1>1, <1>2, <1>3, <1>4

\* How many frames of a sequence hold sound, and how long they are.
LEMMA BlocksFacts ==
  ASSUME NEW s \in Seq(Frame)
  PROVE  /\ Blocks(s) \in Nat /\ Duration(s) \in Nat
         /\ s = <<>> => Duration(s) = 0
         /\ (\A i \in DOMAIN s : s[i].len # 0) => Blocks(s) = Len(s)
         /\ s # <<>> /\ s[Len(s)].len = 0 => Blocks(s) = Len(s) - 1
<1>1. FrameLen \in Nat
  BY CaptureAssumption
<1>2. /\ Len(s) \in Nat /\ DOMAIN s = 1..Len(s)
      /\ s # <<>> => Len(s) \in DOMAIN s /\ Len(s) # 0
      /\ s = <<>> => Len(s) = 0
  OBVIOUS
<1>3. Blocks(s) = IF s # <<>> /\ s[Len(s)].len = 0 THEN Len(s) - 1 ELSE Len(s)
  BY DEF Blocks, Last
<1>4. Blocks(s) \in Nat
  BY <1>2, <1>3
<1>5. Duration(s) \in Nat
  BY <1>1, <1>4 DEF Duration
<1>6. s = <<>> => Duration(s) = 0
  BY <1>1, <1>2, <1>3 DEF Duration
<1> QED BY <1>2, <1>3, <1>4, <1>5, <1>6

\* A frame appended to frames with sound adds its length.
LEMMA DurationAppend ==
  ASSUME NEW s \in Seq(Frame), NEW f \in Frame,
         \A i \in DOMAIN s : s[i].len # 0
  PROVE  Duration(Append(s, f)) = Duration(s) + f.len
<1>1. FrameLen \in Nat \ {0} /\ f.len \in {0, FrameLen}
  BY CaptureAssumption, Fields
<1> DEFINE w == Append(s, f)
<1>2. /\ w \in Seq(Frame) /\ w # <<>> /\ Len(w) = Len(s) + 1 /\ Len(s) \in Nat
      /\ w[Len(w)] = f
  BY AppendFacts
<1>3. Blocks(w) = IF f.len = 0 THEN Len(s) ELSE Len(s) + 1
  BY <1>2 DEF Blocks, Last
<1>4. Blocks(s) = Len(s)
  BY BlocksFacts
<1>5. CASE f.len = 0
  BY <1>2, <1>3, <1>4, <1>5, <1>1 DEF Duration
<1>6. CASE f.len = FrameLen
  BY <1>2, <1>3, <1>4, <1>6, <1>1 DEF Duration
<1> QED BY <1>1, <1>5, <1>6

\* Taking the first frame takes its length, when only the last may be empty.
LEMMA DurationTail ==
  ASSUME NEW s \in Seq(Frame), s # <<>>,
         \A i \in DOMAIN s : s[i].len = 0 => i = Len(s)
  PROVE  Duration(Tail(s)) = Duration(s) - Head(s).len
<1>1. FrameLen \in Nat \ {0} /\ Head(s).len \in {0, FrameLen}
  BY CaptureAssumption, Fields, TailFacts
<1>2. /\ Tail(s) \in Seq(Frame) /\ Head(s) = s[1] /\ Len(s) \in Nat
      /\ Len(Tail(s)) = Len(s) - 1 /\ DOMAIN s = 1..Len(s) /\ 1 \in DOMAIN s
      /\ DOMAIN Tail(s) = 1..(Len(s) - 1)
      /\ \A i \in DOMAIN Tail(s) : Tail(s)[i] = s[i + 1]
  BY TailFacts
<1>3. CASE Tail(s) = <<>>
  <2>1. Len(s) = 1
    BY <1>2, <1>3
  <2>2. Blocks(s) = IF Head(s).len = 0 THEN 0 ELSE 1
    BY <1>2, <2>1 DEF Blocks, Last
  <2>3. Duration(Tail(s)) = 0
    BY <1>2, <1>3, BlocksFacts
  <2> QED BY <1>1, <2>2, <2>3 DEF Duration
<1>4. CASE Tail(s) # <<>>
  <2>1. Len(s) > 1
    BY <1>2, <1>4
  <2>2. Tail(s)[Len(Tail(s))] = s[Len(s)]
    BY <1>2, <2>1
  <2>3. Head(s).len = FrameLen
    BY <1>1, <1>2, <2>1
  <2>4. /\ Blocks(Tail(s)) \in Nat /\ Blocks(s) = Blocks(Tail(s)) + 1
    BY <1>2, <1>4, <2>1, <2>2 DEF Blocks, Last
  <2> QED BY <1>1, <2>3, <2>4 DEF Duration
<1> QED BY <1>3, <1>4

\* A source begins in a state that satisfies the invariant.
LEMMA CaptureInit == Init => CInv
<1> SUFFICES ASSUME Init PROVE CInv
  OBVIOUS
<1>1. /\ device = "closed" /\ time = 0 /\ producer = Idle /\ queue = <<>>
      /\ received = 0 /\ dropped = 0 /\ reader = "new" /\ origin = None
      /\ window = <<>> /\ chunks = <<>> /\ refused = 0 /\ read = 0
      /\ vad \in {"off", "unloaded"} /\ hangover = 0
  BY DEF Init
<1>2. <<>> \in Seq(Frame) /\ <<>> \in Seq(ChunkRecord)
  OBVIOUS
<1>3. CaptureTypes
  BY <1>1, <1>2, CaptureAssumption DEF CaptureTypes, VadStates
<1>4. EmptyIsLast
  BY <1>1 DEF EmptyIsLast
<1>5. Duration(queue) = 0 /\ Duration(window) = 0
  BY <1>1, <1>2, BlocksFacts
<1>6. LossKnown
  BY <1>1, <1>5 DEF LossKnown, InHand, Evicted, Report, Idle
<1>7. InLine /\ ChunksInLine
  BY <1>1 DEF InLine, ChunksInLine, Spaced
<1>8. Dated
  BY <1>1 DEF Dated
<1>9. ShortWindow
  <2>1. Len(chunks) = 0
    BY <1>1
  <2>2. FrameLen \in Nat \ {0} /\ ChunkLen \in Nat /\ FrameLen <= ChunkLen
    BY CaptureAssumption
  <2> QED BY <1>1, <1>5, <2>1, <2>2 DEF ShortWindow
<1>10. HangoverHolds
  BY <1>1 DEF HangoverHolds
<1> QED BY <1>3, <1>4, <1>6, <1>7, <1>8, <1>9, <1>10 DEF CInv

-----------------------------------------------------------------------------
(* The reader's window *)

\* While the reader takes a frame, all the frames of its window hold sound,
\* and the frame makes it longer by what it holds.
LEMMA WindowFacts ==
  ASSUME CaptureTypes, EmptyIsLast, queue # <<>>,
         NEW w, w = Append(window, Head(queue))
  PROVE  /\ Head(queue) \in Frame /\ Head(queue) = queue[1]
         /\ 1 \in DOMAIN queue
         /\ \A i \in DOMAIN window : window[i] \in Frame /\ window[i].len = FrameLen
         /\ w \in Seq(Frame) /\ w # <<>> /\ Len(window) \in Nat
         /\ Len(w) = Len(window) + 1
         /\ DOMAIN window = 1..Len(window) /\ DOMAIN w = 1..(Len(window) + 1)
         /\ \A i \in DOMAIN window : w[i] = window[i]
         /\ w[Len(window) + 1] = Head(queue)
         /\ Duration(w) = Duration(window) + Head(queue).len
         /\ Duration(window) \in Nat
<1>1. queue \in Seq(Frame) /\ window \in Seq(Frame)
  BY DEF CaptureTypes
<1>2. Head(queue) \in Frame /\ Head(queue) = queue[1] /\ 1 \in DOMAIN queue
  BY <1>1, TailFacts
<1>3. /\ w \in Seq(Frame) /\ w # <<>> /\ Len(window) \in Nat
      /\ Len(w) = Len(window) + 1
      /\ DOMAIN window = 1..Len(window) /\ DOMAIN w = 1..(Len(window) + 1)
      /\ \A i \in DOMAIN window : w[i] = window[i] /\ window[i] \in Frame
      /\ w[Len(window) + 1] = Head(queue)
  BY <1>1, <1>2, AppendFacts
<1>4. \A i \in DOMAIN window : window[i].len # 0
  BY DEF EmptyIsLast
<1>5. \A i \in DOMAIN window : window[i].len = FrameLen
  BY <1>3, <1>4, Fields
<1>6. Duration(w) = Duration(window) + Head(queue).len
  BY <1>1, <1>2, <1>4, DurationAppend
<1>7. Duration(window) \in Nat
  BY <1>1, BlocksFacts
<1> QED BY <1>2, <1>3, <1>5, <1>6, <1>7

\* A window that becomes long enough does so with a frame of sound, and the
\* units of its chunk lie in its frames.
LEMMA EnoughFacts ==
  ASSUME CaptureTypes, EmptyIsLast, ShortWindow, queue # <<>>,
         NEW w, w = Append(window, Head(queue)), Enough(w)
  PROVE  /\ Head(queue).len = FrameLen
         /\ \A i \in DOMAIN w : w[i] \in Frame /\ w[i].len = FrameLen
         /\ 1 \in DOMAIN w /\ 1 \in 1..ChunkLen
         /\ Unit(w, 1) = w[1].from
         /\ \A n \in 1..ChunkLen : \E k \in DOMAIN w :
              /\ k = 1 + ((n - 1) \div FrameLen)
              /\ Unit(w, n) = w[k].from + ((n - 1) % FrameLen)
              /\ (n - 1) % FrameLen \in 0..(FrameLen - 1)
              /\ Unit(w, n) \in Nat
         /\ Duration(w) - ChunkLen \in 0..(FrameLen - 1)
<1>1. FrameLen \in Nat \ {0} /\ ChunkLen \in Nat /\ FrameLen <= ChunkLen
  BY CaptureAssumption
<1>2. /\ Head(queue) \in Frame /\ w \in Seq(Frame) /\ Len(window) \in Nat
      /\ w # <<>> /\ Len(w) = Len(window) + 1
      /\ DOMAIN window = 1..Len(window) /\ DOMAIN w = 1..(Len(window) + 1)
      /\ \A i \in DOMAIN window :
           w[i] = window[i] /\ window[i] \in Frame /\ window[i].len = FrameLen
      /\ w[Len(window) + 1] = Head(queue)
      /\ Duration(w) = Duration(window) + Head(queue).len
      /\ Duration(window) \in Nat
  BY WindowFacts
<1>3. Duration(window) < ChunkLen /\ Duration(w) >= ChunkLen
  BY DEF ShortWindow, Enough
<1>4. Head(queue).len \in {0, FrameLen}
  BY <1>2, Fields
<1>5. Head(queue).len = FrameLen
  BY <1>1, <1>2, <1>3, <1>4
<1>6. \A i \in DOMAIN w : w[i] \in Frame /\ w[i].len = FrameLen
  <2>1. \A i \in DOMAIN w : i \in DOMAIN window \/ i = Len(window) + 1
    BY <1>2
  <2> QED BY <1>2, <1>5, <2>1
<1>7. Duration(w) = Len(w) * FrameLen
  <2>1. \A i \in DOMAIN w : w[i].len # 0
    BY <1>1, <1>6
  <2>2. Blocks(w) = Len(w)
    BY <1>2, <2>1, BlocksFacts
  <2> QED BY <2>2 DEF Duration
<1>8. ASSUME NEW n \in 1..ChunkLen
      PROVE  \E k \in DOMAIN w :
               /\ k = 1 + ((n - 1) \div FrameLen)
               /\ Unit(w, n) = w[k].from + ((n - 1) % FrameLen)
               /\ (n - 1) % FrameLen \in 0..(FrameLen - 1)
               /\ Unit(w, n) \in Nat
  <2> DEFINE k == 1 + ((n - 1) \div FrameLen)
  <2>1. n - 1 \in Nat /\ n - 1 < Len(w) * FrameLen /\ Len(w) \in Nat
    BY <1>1, <1>2, <1>3, <1>7
  <2>2. (n - 1) \div FrameLen < Len(w)
    BY <1>1, <2>1, DivLess
  <2>3. /\ (n - 1) \div FrameLen \in Nat
        /\ (n - 1) % FrameLen \in 0..(FrameLen - 1)
    BY <1>1, <2>1, DivMod
  <2>4. k \in DOMAIN w
    BY <1>2, <2>2, <2>3
  <2>5. Unit(w, n) = w[k].from + ((n - 1) % FrameLen)
    BY DEF Unit
  <2>6. w[k].from \in Nat
    BY <1>6, <2>4, Fields
  <2>7. Unit(w, n) \in Nat
    <3>1. \A a \in Nat, b \in 0..(FrameLen - 1) : a + b \in Nat
      BY <1>1
    <3> QED BY <2>3, <2>5, <2>6, <3>1
  <2> QED BY <2>3, <2>4, <2>5, <2>7
<1>9. 1 \in DOMAIN w /\ 1 \in 1..ChunkLen
  BY <1>1, <1>2
<1>10. Unit(w, 1) = w[1].from
  <2>1. (1 - 1) \div FrameLen = 0 /\ (1 - 1) % FrameLen = 0
    <3>1. 0 = (FrameLen * (0 \div FrameLen)) + (0 % FrameLen)
      BY <1>1, DivMod
    <3>2. 0 \div FrameLen \in Nat /\ 0 % FrameLen \in Nat
      BY <1>1, DivMod
    <3>3. 0 \div FrameLen = 0 /\ 0 % FrameLen = 0
      BY <1>1, <3>1, <3>2
    <3> QED BY <3>3
  <2>2. Unit(w, 1) = w[1 + 0].from + 0
    BY <2>1 DEF Unit
  <2>3. w[1].from \in Nat
    BY <1>6, <1>9, Fields
  <2> QED BY <2>2, <2>3
<1>11. Duration(w) - ChunkLen \in 0..(FrameLen - 1)
  BY <1>1, <1>2, <1>3, <1>5
<1> QED BY <1>5, <1>6, <1>8, <1>9, <1>10, <1>11

\* The window with the frame the reader takes, and the stamp it is dated from.
Grown == Append(window, Head(queue))
OriginNow == IF origin = None THEN Head(queue).stamp ELSE origin

\* A reader's step, with what it takes and where it puts it.
LEMMA ReadFacts ==
  ASSUME ReadFrame
  PROVE  /\ reader = "reading" /\ queue # <<>> /\ queue' = Tail(queue)
         /\ origin' = OriginNow /\ read' = read + Head(queue).len
         /\ UNCHANGED <<device, time, producer, received, dropped, reader>>
         /\ \/ Enough(Grown) /\ CutWindow(Grown, OriginNow)
            \/ /\ ~Enough(Grown) /\ window' = Grown
               /\ UNCHANGED <<chunks, refused, vad, hangover>>
  BY DEF ReadFrame, Grown, OriginNow, deviceVars, vadVars

\* What the filter can make of a chunk.
LEMMA VerdictType ==
  ASSUME CaptureTypes, NEW v \in IsSpeech
  PROVE  v \in Verdicts /\ v.vad \in VadStates /\ v.hangover \in 0..Hangover
<1>1. Hangover \in Nat /\ hangover \in 0..Hangover /\ vad \in VadStates
  BY CaptureAssumption DEF CaptureTypes
<1>2. \E b, p \in BOOLEAN, a \in VadStates, h \in 0..Hangover :
        v = Verdict(b, p, a, h)
  <2>1. Held => hangover - 1 \in 0..Hangover
    BY <1>1 DEF Held
  <2>2. 0 \in 0..Hangover /\ Hangover \in 0..Hangover /\ Held \in BOOLEAN
    BY <1>1 DEF Held
  <2>3. {"off", "unloaded", "on", "disabled"} = VadStates
    BY DEF VadStates
  <2>4. \/ v = Verdict(FALSE, TRUE, vad, hangover)
        \/ v = Verdict(TRUE, TRUE, "on", Hangover)
        \/ v = Verdict(FALSE, Held, "on",
                       IF Held THEN hangover - 1 ELSE hangover)
        \/ v = Verdict(FALSE, TRUE, "disabled", Hangover)
        \/ v = Verdict(FALSE, TRUE, "disabled", 0)
    BY DEF IsSpeech
  <2>5. CASE v = Verdict(FALSE, TRUE, vad, hangover)
    BY <1>1, <2>5
  <2>6. CASE v = Verdict(TRUE, TRUE, "on", Hangover)
    BY <2>2, <2>3, <2>6
  <2>7. CASE v = Verdict(FALSE, Held, "on",
                         IF Held THEN hangover - 1 ELSE hangover)
    <3>1. (IF Held THEN hangover - 1 ELSE hangover) \in 0..Hangover
      BY <1>1, <2>1
    <3>2. "on" \in VadStates
      BY <2>3
    <3> QED BY <2>2, <2>7, <3>1, <3>2, Zenon
  <2>8. CASE v = Verdict(FALSE, TRUE, "disabled", Hangover)
    BY <2>2, <2>3, <2>8
  <2>9. CASE v = Verdict(FALSE, TRUE, "disabled", 0)
    BY <2>2, <2>3, <2>9
  <2> QED BY <2>4, <2>5, <2>6, <2>7, <2>8, <2>9
<1>3. PICK b \in BOOLEAN, p \in BOOLEAN, a \in VadStates, h \in 0..Hangover :
        v = Verdict(b, p, a, h)
  BY <1>2
<1>4. h \in Nat
  BY <1>1
<1> QED BY <1>3, <1>4 DEF Verdict, Verdicts

\* The frames a device makes.
LEMMA FramesType ==
  ASSUME NEW n \in {0, FrameLen}, CaptureTypes, NEW f \in Frames(time, n)
  PROVE  f \in Frame /\ f.from = time /\ f.len = n /\ Stamped(f)
<1>1. MaxLag \in Nat /\ time \in Nat
  BY CaptureAssumption DEF CaptureTypes
<1>2. PICK lag \in 0..MaxLag : f = [from |-> time, len |-> n, stamp |-> time + lag]
  BY <1>1 DEF Frames
<1>3. f.from = time /\ f.len = n /\ f.stamp = time + lag
  BY <1>2
<1>4. time + lag \in Nat /\ (time + lag) - time \in 0..MaxLag
  BY <1>1
<1> QED BY <1>1, <1>2, <1>3, <1>4 DEF Frame, Stamped

\* A chunk that is cut is a chunk, with the sound and the start of its window.
LEMMA CutFacts ==
  ASSUME CaptureTypes, EmptyIsLast, ShortWindow, ReadFrame, Enough(Grown)
  PROVE  \E v \in IsSpeech :
           LET c == [start |-> Start(Grown, OriginNow),
                     sound |-> [n \in 1..ChunkLen |-> Unit(Grown, n)],
                     verdict |-> v]
           IN  /\ c \in ChunkRecord /\ chunks' = Append(chunks, c)
               /\ refused' = refused + Duration(Grown) - ChunkLen
               /\ vad' = v.vad /\ hangover' = v.hangover /\ window' = <<>>
<1>1. queue # <<>> /\ CutWindow(Grown, OriginNow)
  BY ReadFacts
<1>2. PICK v \in IsSpeech :
        /\ chunks' = Append(chunks, [start |-> Start(Grown, OriginNow),
                             sound |-> [n \in 1..ChunkLen |-> Unit(Grown, n)],
                             verdict |-> v])
        /\ refused' = refused + Duration(Grown) - ChunkLen
        /\ vad' = v.vad /\ hangover' = v.hangover /\ window' = <<>>
  BY <1>1 DEF CutWindow
<1>3. v \in Verdicts
  BY VerdictType
<1>4. [n \in 1..ChunkLen |-> Unit(Grown, n)] \in [1..ChunkLen -> Nat]
  BY <1>1, EnoughFacts DEF Grown
<1>5. Start(Grown, OriginNow) \in Nat
  <2>1. Grown[1] \in Frame /\ Head(queue) \in Frame
    BY <1>1, EnoughFacts, WindowFacts DEF Grown
  <2>2. Grown[1].stamp \in Nat /\ Head(queue).stamp \in Nat
    BY <2>1, Fields
  <2>3. OriginNow \in Int
    BY <2>2 DEF OriginNow, CaptureTypes, None
  <2> QED BY <2>2, <2>3 DEF Start, Relative, Most
<1> QED BY <1>2, <1>3, <1>4, <1>5 DEF ChunkRecord

-----------------------------------------------------------------------------
(* The steps keep the invariant, part by part *)

\* What a step of the device that records nothing, the start and the end of
\* the reader and the stop leave alone.
Aside == \/ OpenStream \/ OpenRecorder \/ StopStream
         \/ StartReader \/ ReaderEnds \/ Stop

LEMMA AsideFacts ==
  ASSUME Aside \/ UNCHANGED vars
  PROVE  /\ UNCHANGED <<time, producer, queue, received, dropped, origin,
                        window, chunks, refused, read, vad, hangover>>
         /\ \/ device' = device
            \/ device = "closed" /\ device' \in {"running", "failed"}
            \/ device = "running" /\ device' = "stopped"
         /\ reader' \in {"new", "reading", "done", reader}
  BY DEF Aside, OpenStream, OpenRecorder, StopStream, StartReader, ReaderEnds,
         Stop, vars, deviceVars, queueVars, readerVars, vadVars

\* The other steps of the device and of the producer, one by one.
LEMMA RecordFacts ==
  ASSUME Record
  PROVE  /\ device = "running" /\ producer = Idle /\ device' = device
         /\ time' = time + FrameLen /\ time + FrameLen <= MaxTime
         /\ \E f \in Frames(time, FrameLen) :
              producer' = [at |-> "put", frame |-> f, lost |-> 0]
         /\ received' = received + FrameLen
         /\ UNCHANGED <<queue, dropped, reader, origin, window, chunks, refused,
                        read, vad, hangover>>
  BY DEF Record, readerVars, vadVars

LEMMA LoseFacts ==
  ASSUME LoseBlock
  PROVE  /\ device = "running" /\ device' = device /\ producer = Idle
         /\ time' = time + FrameLen /\ time + FrameLen <= MaxTime
         /\ dropped' = dropped \/ dropped' = dropped + FrameLen
         /\ UNCHANGED <<producer, queue, received, reader, origin, window,
                        chunks, refused, read, vad, hangover>>
  BY DEF LoseBlock, readerVars, vadVars

LEMMA FailFacts ==
  ASSUME RecorderFails
  PROVE  /\ device = "running" /\ producer = Idle /\ device' = "failed"
         /\ \E f \in Frames(time, 0) :
              producer' = [at |-> "put", frame |-> f, lost |-> 0]
         /\ UNCHANGED <<time, queue, received, dropped, reader, origin, window,
                        chunks, refused, read, vad, hangover>>
  BY DEF RecorderFails, readerVars, vadVars

LEMMA PutFacts ==
  ASSUME Put
  PROVE  /\ producer.at = "put"
         /\ \/ queue' = Append(queue, producer.frame) /\ producer' = Idle
            \/ /\ queue' = queue
               /\ producer' = [producer EXCEPT !.at = "evict",
                                               !.lost = producer.frame.len]
         /\ UNCHANGED <<device, time, received, dropped, reader, origin, window,
                        chunks, refused, read, vad, hangover>>
  BY DEF Put, deviceVars, readerVars, vadVars

LEMMA EvictFacts ==
  ASSUME Evict
  PROVE  /\ producer.at = "evict"
         /\ queue' = IF queue = <<>> THEN queue ELSE Tail(queue)
         /\ producer' = [producer EXCEPT !.at = "retry"]
         /\ UNCHANGED <<device, time, received, dropped, reader, origin, window,
                        chunks, refused, read, vad, hangover>>
  BY DEF Evict, deviceVars, readerVars, vadVars

LEMMA RetryFacts ==
  ASSUME Retry
  PROVE  /\ producer.at = "retry" /\ producer' = Idle
         /\ \/ /\ queue' = Append(queue, producer.frame)
               /\ dropped' = dropped + (producer.lost + 0)
            \/ /\ queue' = queue
               /\ dropped' = dropped + (producer.lost + producer.frame.len)
         /\ UNCHANGED <<device, time, received, reader, origin, window, chunks,
                        refused, read, vad, hangover>>
  BY DEF Retry, Lost, deviceVars, readerVars, vadVars

\* What the producer has in hand, as its put goes on.
LEMMA HandFacts ==
  ASSUME CaptureTypes, producer # Idle
  PROVE  /\ producer \in Busy /\ producer.frame \in Frame
         /\ producer.frame.from \in Nat /\ producer.frame.len \in {0, FrameLen}
         /\ producer.at \in {"put", "evict", "retry"}
         /\ \A p : (\/ p = [producer EXCEPT !.at = "retry"]
                    \/ p = [producer EXCEPT !.at = "evict",
                                            !.lost = producer.frame.len])
                => /\ p \in Busy /\ p # Idle /\ p.frame = producer.frame
                   /\ p.at \in {"retry", "evict"}
<1>1. producer \in Busy
  BY DEF CaptureTypes
<1>2. /\ producer.frame \in Frame /\ producer.lost \in {0, FrameLen}
      /\ producer.at \in {"put", "evict", "retry"}
  BY <1>1, Fields
<1>3. producer.frame.from \in Nat /\ producer.frame.len \in {0, FrameLen}
  BY <1>2, Fields
<1>4. ASSUME NEW p, p = [producer EXCEPT !.at = "retry"]
      PROVE  p \in Busy /\ p.frame = producer.frame /\ p.at \in {"retry", "evict"}
  BY <1>1, <1>4 DEF Busy
<1>5. ASSUME NEW p, p = [producer EXCEPT !.at = "evict",
                                         !.lost = producer.frame.len]
      PROVE  p \in Busy /\ p.frame = producer.frame /\ p.at \in {"retry", "evict"}
  BY <1>1, <1>3, <1>5 DEF Busy
<1> QED BY <1>1, <1>2, <1>3, <1>4, <1>5, Fields

\* A producer that is at a step of a put is not idle.
LEMMA AtWork == producer.at \in {"put", "evict", "retry"} => producer # Idle
  BY Fields

LEMMA TypesStep ==
  ASSUME CInv, [Next]_vars
  PROVE  CaptureTypes'
<1> USE DEF CInv
<1>0. /\ FrameLen \in Nat \ {0} /\ MaxTime \in Nat /\ ChunkLen \in Nat
      /\ FrameLen <= ChunkLen
  BY CaptureAssumption
<1>1. CASE Aside \/ UNCHANGED vars
  BY <1>1, AsideFacts DEF CaptureTypes
<1>2. CASE Record \/ RecorderFails
  <2>1. producer' \in Busy
    <3>1. \A n \in {0, FrameLen} : \A f \in Frames(time, n) :
            [at |-> "put", frame |-> f, lost |-> 0] \in Busy
      BY FramesType DEF Busy
    <3> QED BY <1>2, <3>1, RecordFacts, FailFacts
  <2>2. CASE Record
    BY <2>1, <2>2, <1>0, RecordFacts DEF CaptureTypes
  <2>3. CASE RecorderFails
    BY <2>1, <2>3, <1>0, FailFacts DEF CaptureTypes
  <2> QED BY <1>2, <2>2, <2>3
<1>3. CASE LoseBlock
  BY <1>3, <1>0, LoseFacts DEF CaptureTypes
<1>4. CASE Put
  <2>1. /\ producer # Idle /\ producer.frame \in Frame
        /\ Append(queue, producer.frame) \in Seq(Frame)
    BY <1>4, PutFacts, AtWork, HandFacts, AppendFacts DEF CaptureTypes
  <2>2. queue' \in Seq(Frame) /\ (producer' = Idle \/ producer' \in Busy)
    BY <1>4, <2>1, PutFacts, HandFacts DEF CaptureTypes
  <2> QED BY <1>4, <2>2, PutFacts DEF CaptureTypes
<1>5. CASE Evict
  <2>1. producer # Idle /\ producer' \in Busy
    BY <1>5, EvictFacts, AtWork, HandFacts
  <2>2. queue' \in Seq(Frame)
    <3>1. queue \in Seq(Frame)
      BY DEF CaptureTypes
    <3>2. queue # <<>> => Tail(queue) \in Seq(Frame)
      BY <3>1, TailFacts
    <3> QED BY <1>5, <3>1, <3>2, EvictFacts
  <2> QED BY <1>5, <2>1, <2>2, EvictFacts DEF CaptureTypes
<1>6. CASE Retry
  <2>1. /\ producer # Idle /\ producer.frame \in Frame
        /\ Append(queue, producer.frame) \in Seq(Frame)
        /\ producer.frame.len \in {0, FrameLen} /\ producer.lost \in {0, FrameLen}
    BY <1>6, RetryFacts, AtWork, HandFacts, AppendFacts, Fields
       DEF CaptureTypes
  <2>2. queue' \in Seq(Frame)
    BY <1>6, <2>1, RetryFacts DEF CaptureTypes
  <2>3. dropped' \in Nat
    <3>1. dropped \in Nat
      BY DEF CaptureTypes
    <3>2. \A a, b \in {0, FrameLen} : dropped + (a + b) \in Nat
      BY <1>0, <3>1
    <3>3. \E b \in {0, FrameLen} : dropped' = dropped + (producer.lost + b)
      BY <1>6, <2>1, RetryFacts
    <3> QED BY <2>1, <3>2, <3>3
  <2> QED BY <1>6, <2>2, <2>3, RetryFacts DEF CaptureTypes
<1>7. CASE ReadFrame
  <2>0. queue # <<>> /\ queue \in Seq(Frame)
    BY <1>7, ReadFacts DEF CaptureTypes
  <2>1. /\ queue # <<>> /\ Head(queue) \in Frame
        /\ Tail(queue) \in Seq(Frame) /\ Grown \in Seq(Frame)
        /\ Head(queue).stamp \in Nat /\ Head(queue).len \in Nat
    <3>1. Head(queue) \in Frame /\ Tail(queue) \in Seq(Frame)
      BY <2>0, TailFacts
    <3>2. Grown \in Seq(Frame)
      BY <2>0, WindowFacts DEF Grown
    <3> QED BY <2>0, <3>1, <3>2, <1>0, Fields
  <2>2. queue' \in Seq(Frame) /\ origin' \in Nat \cup {None} /\ read' \in Nat
    <3>1. /\ queue' = Tail(queue) /\ origin' = OriginNow
          /\ read' = read + Head(queue).len
      BY <1>7, ReadFacts
    <3>2. OriginNow \in Nat \cup {None}
      BY <2>1 DEF CaptureTypes, OriginNow
    <3>3. read' \in Nat
      BY <2>1, <3>1 DEF CaptureTypes
    <3> QED BY <2>1, <3>1, <3>2, <3>3
  <2>3. /\ window' \in Seq(Frame) /\ chunks' \in Seq(ChunkRecord)
        /\ refused' \in Nat /\ vad' \in VadStates /\ hangover' \in 0..Hangover
    <3>1. CASE Enough(Grown)
      <4>1. PICK v \in IsSpeech, c \in ChunkRecord :
              /\ chunks' = Append(chunks, c)
              /\ refused' = refused + Duration(Grown) - ChunkLen
              /\ vad' = v.vad /\ hangover' = v.hangover /\ window' = <<>>
        BY <1>7, <3>1, CutFacts
      <4>2. /\ Duration(Grown) - ChunkLen \in 0..(FrameLen - 1)
            /\ Duration(Grown) \in Nat
        BY <2>1, <3>1, EnoughFacts, BlocksFacts DEF Grown
      <4>3. refused' \in Nat
        BY <1>0, <4>1, <4>2 DEF CaptureTypes
      <4>4. chunks' \in Seq(ChunkRecord)
        BY <4>1, AppendFacts DEF CaptureTypes
      <4> QED BY <4>1, <4>3, <4>4, VerdictType
    <3>2. CASE ~Enough(Grown)
      BY <1>7, <2>1, <3>2, ReadFacts DEF CaptureTypes
    <3> QED BY <3>1, <3>2
  <2> QED BY <1>7, <2>2, <2>3, ReadFacts DEF CaptureTypes
<1> QED BY <1>1, <1>2, <1>3, <1>4, <1>5, <1>6, <1>7
        DEF Next, Device, Producer, Reader, Aside

LEMMA EmptyStep ==
  ASSUME CInv, [Next]_vars
  PROVE  EmptyIsLast'
<1> USE DEF CInv
<1>0. FrameLen \in Nat \ {0} /\ queue \in Seq(Frame) /\ window \in Seq(Frame)
  BY CaptureAssumption DEF CaptureTypes
<1>1. CASE Aside \/ UNCHANGED vars
  BY <1>1, AsideFacts DEF EmptyIsLast
<1>2. CASE Record
  <2>1. producer' # Idle /\ producer'.frame.len = FrameLen
    BY <1>2, RecordFacts, FramesType, Fields
  <2> QED BY <1>2, <1>0, <2>1, RecordFacts DEF EmptyIsLast
<1>3. CASE LoseBlock
  BY <1>3, LoseFacts DEF EmptyIsLast
<1>4. CASE RecorderFails
  <2>1. producer' # Idle /\ producer'.frame.len = 0
    BY <1>4, FailFacts, FramesType, Fields
  <2> QED BY <1>4, <2>1, FailFacts DEF EmptyIsLast
<1>5. CASE Put
  <2>1. producer # Idle /\ producer.frame \in Frame
    BY <1>5, PutFacts, AtWork, HandFacts
  <2>2. CASE queue' = Append(queue, producer.frame) /\ producer' = Idle
    <3>1. /\ Len(queue') = Len(queue) + 1 /\ DOMAIN queue' = 1..(Len(queue) + 1)
          /\ DOMAIN queue = 1..Len(queue) /\ Len(queue) \in Nat
          /\ \A i \in DOMAIN queue : queue'[i] = queue[i]
          /\ queue'[Len(queue) + 1] = producer.frame
      BY <1>0, <2>1, <2>2, AppendFacts
    <3>2. \A i \in DOMAIN queue' : i \in DOMAIN queue \/ i = Len(queue) + 1
      BY <3>1
    <3> QED BY <1>5, <2>1, <2>2, <3>1, <3>2, PutFacts DEF EmptyIsLast
  <2>3. CASE /\ queue' = queue
             /\ producer' = [producer EXCEPT !.at = "evict",
                                             !.lost = producer.frame.len]
    <3>1. producer' # Idle /\ producer'.frame = producer.frame
      BY <2>1, <2>3, HandFacts
    <3> QED BY <1>5, <2>1, <2>3, <3>1, PutFacts DEF EmptyIsLast
  <2> QED BY <1>5, <2>2, <2>3, PutFacts
<1>6. CASE Evict
  <2>1. /\ producer # Idle /\ producer' # Idle
        /\ producer'.frame = producer.frame
    BY <1>6, EvictFacts, AtWork, HandFacts
  <2>2. \A i \in DOMAIN queue' : queue'[i].len # 0
    <3>1. CASE queue = <<>>
      BY <1>6, <3>1, EvictFacts
    <3>2. CASE queue # <<>>
      <4>1. \A i \in DOMAIN Tail(queue) :
              Tail(queue)[i] = queue[i + 1] /\ i + 1 \in DOMAIN queue
        BY <1>0, <3>2, TailFacts
      <4> QED BY <1>6, <2>1, <3>2, <4>1, EvictFacts DEF EmptyIsLast
    <3> QED BY <3>1, <3>2
  <2> QED BY <1>6, <2>1, <2>2, EvictFacts DEF EmptyIsLast
<1>7. CASE Retry
  <2>1. producer # Idle /\ producer.frame \in Frame
    BY <1>7, RetryFacts, AtWork, HandFacts
  <2>2. CASE queue' = Append(queue, producer.frame)
    <3>1. /\ Len(queue') = Len(queue) + 1 /\ DOMAIN queue' = 1..(Len(queue) + 1)
          /\ DOMAIN queue = 1..Len(queue) /\ Len(queue) \in Nat
          /\ \A i \in DOMAIN queue : queue'[i] = queue[i]
          /\ queue'[Len(queue) + 1] = producer.frame
      BY <1>0, <2>1, <2>2, AppendFacts
    <3>2. \A i \in DOMAIN queue' : i \in DOMAIN queue \/ i = Len(queue) + 1
      BY <3>1
    <3> QED BY <1>7, <2>1, <2>2, <3>1, <3>2, RetryFacts DEF EmptyIsLast
  <2>3. CASE queue' = queue
    BY <1>7, <2>1, <2>3, RetryFacts DEF EmptyIsLast
  <2> QED BY <1>7, <2>2, <2>3, RetryFacts
<1>8. CASE ReadFrame
  <2>1. queue # <<>> /\ queue' = Tail(queue) /\ UNCHANGED <<producer, device>>
    BY <1>8, ReadFacts
  <2>2. /\ Head(queue) = queue[1] /\ 1 \in DOMAIN queue /\ Len(queue) \in Nat
        /\ Len(queue') = Len(queue) - 1 /\ DOMAIN queue' = 1..(Len(queue) - 1)
        /\ \A i \in DOMAIN queue' :
             queue'[i] = queue[i + 1] /\ i + 1 \in DOMAIN queue
    BY <1>0, <2>1, TailFacts
  <2>3. \A i \in DOMAIN queue' : queue'[i].len = 0 =>
          i = Len(queue') /\ producer' = Idle /\ device' = "failed"
    BY <2>1, <2>2 DEF EmptyIsLast
  <2>4. \A i \in DOMAIN window' : window'[i].len = 0 =>
          /\ i = Len(window') /\ queue' = <<>>
          /\ producer' = Idle /\ device' = "failed"
    <3>1. CASE Enough(Grown)
      <4>1. window' = <<>>
        BY <1>8, <3>1, CutFacts
      <4> QED BY <4>1
    <3>2. CASE ~Enough(Grown)
      <4>1. window' = Grown
        BY <1>8, <3>2, ReadFacts
      <4>2. /\ \A i \in DOMAIN window : Grown[i].len = FrameLen
            /\ Grown[Len(window) + 1] = Head(queue)
            /\ DOMAIN Grown = 1..(Len(window) + 1) /\ Len(window) \in Nat
            /\ Len(Grown) = Len(window) + 1 /\ DOMAIN window = 1..Len(window)
        BY <2>1, WindowFacts DEF Grown
      <4>3. \A i \in DOMAIN Grown : i \in DOMAIN window \/ i = Len(window) + 1
        BY <4>2
      <4>4. ASSUME Head(queue).len = 0
            PROVE  queue' = <<>> /\ producer' = Idle /\ device' = "failed"
        <5>1. Len(queue) = 1 /\ producer = Idle /\ device = "failed"
          BY <2>2, <4>4 DEF EmptyIsLast
        <5>2. queue' \in Seq(Frame) /\ Len(queue') = 0
          BY <1>0, <2>1, <2>2, <5>1, TailFacts
        <5> QED BY <2>1, <5>1, <5>2
      <4> QED BY <1>0, <4>1, <4>2, <4>3, <4>4
    <3> QED BY <3>1, <3>2
  <2> QED BY <2>1, <2>3, <2>4 DEF EmptyIsLast
<1> QED BY <1>1, <1>2, <1>3, <1>4, <1>5, <1>6, <1>7, <1>8
        DEF Next, Device, Producer, Reader, Aside

\* What a put and the taking of a frame do to the sound in the queue.
LEMMA QueueDuration ==
  ASSUME CaptureTypes, EmptyIsLast
  PROVE  /\ Duration(queue) \in Nat
         /\ producer # Idle =>
              Duration(Append(queue, producer.frame))
                = Duration(queue) + producer.frame.len
         /\ queue # <<>> => /\ Head(queue).len \in {0, FrameLen}
                            /\ Duration(Tail(queue))
                                 = Duration(queue) - Head(queue).len
<1>1. queue \in Seq(Frame)
  BY DEF CaptureTypes
<1>2. Duration(queue) \in Nat
  BY <1>1, BlocksFacts
<1>3. ASSUME producer # Idle
      PROVE  Duration(Append(queue, producer.frame))
               = Duration(queue) + producer.frame.len
  <2>1. producer.frame \in Frame /\ \A i \in DOMAIN queue : queue[i].len # 0
    BY <1>3, HandFacts DEF EmptyIsLast
  <2> QED BY <1>1, <2>1, DurationAppend
<1>4. ASSUME queue # <<>>
      PROVE  /\ Head(queue).len \in {0, FrameLen}
             /\ Duration(Tail(queue)) = Duration(queue) - Head(queue).len
  <2>1. \A i \in DOMAIN queue : queue[i].len = 0 => i = Len(queue)
    BY DEF EmptyIsLast
  <2>2. Duration(Tail(queue)) = Duration(queue) - Head(queue).len
    BY <1>1, <1>4, <2>1, DurationTail
  <2>3. Head(queue) \in Frame
    BY <1>1, <1>4, TailFacts
  <2> QED BY <2>2, <2>3, Fields
<1> QED BY <1>2, <1>3, <1>4

LEMMA LossStep ==
  ASSUME CInv, [Next]_vars
  PROVE  LossKnown'
<1> USE DEF CInv
<1>0. /\ FrameLen \in Nat \ {0} /\ Idle.at = "idle"
      /\ {received, read, dropped} \subseteq Nat /\ Duration(queue) \in Nat
  BY CaptureAssumption, Fields, QueueDuration DEF CaptureTypes
<1>a. /\ producer.at \in {"idle", "put", "evict", "retry"}
      /\ producer # Idle => /\ producer.at # "idle"
                            /\ producer.frame.len \in {0, FrameLen}
                            /\ producer.lost \in {0, FrameLen}
  BY Fields, HandFacts DEF CaptureTypes
<1>1. CASE Aside \/ UNCHANGED vars
  <2>1. UNCHANGED <<producer, queue, received, dropped, read>>
    BY <1>1, AsideFacts
  <2>2. device = "failed" => device' = "failed"
    BY <1>1, AsideFacts
  <2>3. Report' \in {0, FrameLen} /\ Report \in {0, FrameLen} /\ Report' >= Report
    BY <1>0, <2>1, <2>2 DEF Report
  <2>4. InHand' = InHand /\ Evicted' = Evicted /\ InHand \in Nat /\ Evicted \in Nat
    BY <1>0, <1>a, <2>1 DEF InHand, Evicted
  <2>5. Duration(queue)' = Duration(queue)
    BY <2>1 DEF Duration, Blocks
  <2> QED BY <1>0, <2>1, <2>3, <2>4, <2>5 DEF LossKnown
<1>2. CASE Record
  <2>1. /\ producer'.frame.len = FrameLen /\ producer'.at = "put"
        /\ producer' # Idle /\ producer'.lost = 0
    BY <1>2, <1>0, RecordFacts, FramesType
  <2>2. InHand = 0 /\ InHand' = FrameLen
    BY <1>2, <2>1, RecordFacts DEF InHand
  <2>3. Evicted = 0 /\ Evicted' = 0 /\ Report = 0 /\ Report' = 0
    BY <1>2, <1>0, <2>1, RecordFacts DEF Evicted, Report
  <2>4. Duration(queue)' = Duration(queue) /\ UNCHANGED <<read, dropped>>
        /\ received' = received + FrameLen
    BY <1>2, RecordFacts DEF Duration, Blocks
  <2> QED BY <1>0, <2>1, <2>2, <2>3, <2>4 DEF LossKnown
<1>3. CASE LoseBlock
  <2>1. UNCHANGED <<producer, device, received, read>>
        /\ Duration(queue)' = Duration(queue)
    BY <1>3, LoseFacts DEF Duration, Blocks
  <2>2. UNCHANGED <<InHand, Evicted, Report>>
    BY <2>1 DEF InHand, Evicted, Report
  <2>3. /\ InHand \in Nat /\ Evicted \in Nat /\ Report \in Nat
    BY <1>0, <1>a DEF InHand, Evicted, Report
  <2>4. dropped' \in Nat /\ dropped' >= dropped
    BY <1>0, <1>3, LoseFacts
  <2> QED BY <1>0, <2>1, <2>2, <2>3, <2>4 DEF LossKnown
<1>4. CASE RecorderFails
  <2>1. /\ producer'.frame.len = 0 /\ producer'.at = "put"
        /\ producer' # Idle /\ producer'.lost = 0
    BY <1>4, <1>0, FailFacts, FramesType
  <2>2. InHand = 0 /\ InHand' = 0
    BY <1>4, <2>1, FailFacts DEF InHand
  <2>3. Evicted = 0 /\ Evicted' = 0 /\ Report = 0 /\ Report' = 0
    BY <1>4, <1>0, <2>1, FailFacts DEF Evicted, Report
  <2>4. Duration(queue)' = Duration(queue) /\ UNCHANGED <<read, dropped, received>>
    BY <1>4, FailFacts DEF Duration, Blocks
  <2> QED BY <1>0, <2>1, <2>2, <2>3, <2>4 DEF LossKnown
<1>5. CASE Put
  <2>1. /\ producer.at = "put" /\ producer # Idle
        /\ UNCHANGED <<received, dropped, read, device>>
    BY <1>5, PutFacts, AtWork
  <2>2. InHand = producer.frame.len /\ Evicted = 0 /\ Report = 0
    BY <2>1 DEF InHand, Evicted, Report
  <2>3. CASE queue' = Append(queue, producer.frame) /\ producer' = Idle
    <3>1. InHand' = 0 /\ Evicted' = 0 /\ Report' \in {0, FrameLen}
      BY <1>0, <2>3 DEF InHand, Evicted, Report
    <3>2. Duration(queue') = Duration(queue) + producer.frame.len
      BY <2>1, <2>3, QueueDuration
    <3>3. Duration(queue)' = Duration(queue') /\ producer'.at = "idle"
      BY <1>0, <2>3 DEF Duration, Blocks
    <3> QED BY <1>0, <1>a, <2>1, <2>2, <3>1, <3>2, <3>3 DEF LossKnown
  <2>4. CASE /\ queue' = queue
             /\ producer' = [producer EXCEPT !.at = "evict",
                                             !.lost = producer.frame.len]
    <3>1. /\ producer'.at = "evict" /\ producer'.lost = producer'.frame.len
          /\ producer'.frame = producer.frame /\ producer' # Idle
      BY <2>1, <2>4, HandFacts DEF CaptureTypes, Busy
    <3>2. InHand' = InHand /\ Evicted' = 0 /\ Report' = 0
      BY <2>1, <3>1 DEF InHand, Evicted, Report
    <3> QED BY <1>0, <1>a, <2>1, <2>2, <2>4, <3>1, <3>2
            DEF LossKnown, Duration, Blocks
  <2> QED BY <1>5, <2>3, <2>4, PutFacts
<1>6. CASE Evict
  <2>1. /\ producer.at = "evict" /\ producer # Idle
        /\ UNCHANGED <<received, dropped, read, device>>
        /\ queue' = IF queue = <<>> THEN queue ELSE Tail(queue)
    BY <1>6, EvictFacts, AtWork
  <2>2. /\ producer'.at = "retry" /\ producer'.lost = producer.lost
        /\ producer'.frame = producer.frame /\ producer' # Idle
    BY <1>6, <2>1, EvictFacts, HandFacts DEF CaptureTypes, Busy
  <2>3. producer.lost = producer.frame.len
    BY <2>1 DEF LossKnown
  <2>4. /\ InHand = producer.frame.len /\ Evicted = 0 /\ Report = 0
        /\ InHand' = producer.frame.len /\ Evicted' = producer.frame.len
    BY <2>1, <2>2, <2>3 DEF InHand, Evicted, Report
  <2>5. producer.frame.len = 0 => Report' = FrameLen
    BY <2>1, <2>2 DEF Report, EmptyIsLast
  <2>6. Report' \in {0, FrameLen}
    BY DEF Report
  <2>7. Duration(queue') \in {Duration(queue), Duration(queue) - FrameLen}
    <3>1. CASE queue = <<>>
      BY <2>1, <3>1
    <3>2. CASE queue # <<>>
      BY <1>0, <2>1, <3>2, QueueDuration
    <3> QED BY <3>1, <3>2
  <2>8. Duration(queue)' = Duration(queue')
    BY DEF Duration, Blocks
  <2> QED BY <1>0, <1>a, <2>1, <2>2, <2>3, <2>4, <2>5, <2>6, <2>7, <2>8
          DEF LossKnown
<1>7. CASE Retry
  <2>1. /\ producer.at = "retry" /\ producer # Idle /\ producer' = Idle
        /\ UNCHANGED <<received, read, device>>
    BY <1>7, RetryFacts, AtWork
  <2>2. /\ InHand = producer.frame.len /\ Evicted = producer.lost
        /\ InHand' = 0 /\ Evicted' = 0 /\ Report' = Report
        /\ Report \in {0, FrameLen}
    BY <1>0, <2>1 DEF InHand, Evicted, Report
  <2>3. Duration(queue)' = Duration(queue')
    BY DEF Duration, Blocks
  <2>4. CASE /\ queue' = Append(queue, producer.frame)
             /\ dropped' = dropped + (producer.lost + 0)
    <3>1. Duration(queue') = Duration(queue) + producer.frame.len
      BY <2>1, <2>4, QueueDuration
    <3> QED BY <1>0, <1>a, <2>1, <2>2, <2>3, <2>4, <3>1, SMTT(30) DEF LossKnown
  <2>5. CASE /\ queue' = queue
             /\ dropped' = dropped + (producer.lost + producer.frame.len)
    BY <1>0, <1>a, <2>1, <2>2, <2>3, <2>5 DEF LossKnown
  <2> QED BY <1>7, <2>4, <2>5, RetryFacts
<1>8. CASE ReadFrame
  <2>1. /\ queue # <<>> /\ queue' = Tail(queue)
        /\ read' = read + Head(queue).len
        /\ UNCHANGED <<producer, received, dropped, device>>
    BY <1>8, ReadFacts
  <2>2. /\ Duration(queue') = Duration(queue) - Head(queue).len
        /\ Head(queue).len \in {0, FrameLen}
    BY <2>1, QueueDuration
  <2>3. /\ UNCHANGED <<InHand, Evicted, Report>>
        /\ InHand \in Nat /\ Evicted \in Nat /\ Report \in Nat
    BY <1>0, <1>a, <2>1 DEF InHand, Evicted, Report
  <2>4. Duration(queue)' = Duration(queue')
    BY DEF Duration, Blocks
  <2> QED BY <1>0, <2>1, <2>2, <2>3, <2>4, SMTT(30) DEF LossKnown
<1> QED BY <1>1, <1>2, <1>3, <1>4, <1>5, <1>6, <1>7, <1>8
        DEF Next, Device, Producer, Reader, Aside

\* Frames that follow each other still do when one that comes later is
\* appended, or when the first is taken.
LEMMA SpacedAppend ==
  ASSUME NEW s \in Seq(Frame), NEW f \in Frame, Spaced(s),
         \A i \in DOMAIN s : s[i].from + FrameLen <= f.from
  PROVE  Spaced(Append(s, f))
<1> DEFINE w == Append(s, f)
<1>1. /\ Len(s) \in Nat /\ DOMAIN s = 1..Len(s) /\ DOMAIN w = 1..(Len(s) + 1)
      /\ \A i \in DOMAIN s : w[i] = s[i]
      /\ w[Len(s) + 1] = f
  BY AppendFacts
<1> HIDE DEF w
<1>2. SUFFICES ASSUME NEW i \in DOMAIN w, NEW j \in DOMAIN w, i < j
               PROVE  w[i].from + FrameLen <= w[j].from
  BY DEF Spaced, w
<1>3. i \in DOMAIN s /\ (j \in DOMAIN s \/ j = Len(s) + 1)
  BY <1>1, <1>2
<1> QED BY <1>1, <1>2, <1>3 DEF Spaced

LEMMA SpacedTail ==
  ASSUME NEW s \in Seq(Frame), s # <<>>, Spaced(s)
  PROVE  /\ Spaced(Tail(s))
         /\ \A j \in DOMAIN Tail(s) : Head(s).from + FrameLen <= Tail(s)[j].from
<1>1. /\ Head(s) = s[1] /\ Len(s) \in Nat /\ DOMAIN s = 1..Len(s)
      /\ 1 \in DOMAIN s /\ DOMAIN Tail(s) = 1..(Len(s) - 1)
      /\ \A i \in DOMAIN Tail(s) : Tail(s)[i] = s[i + 1] /\ i + 1 \in DOMAIN s
  BY TailFacts
<1>2. \A i, j \in DOMAIN Tail(s) : i < j => i + 1 < j + 1
  BY <1>1
<1>3. \A j \in DOMAIN Tail(s) : 1 < j + 1
  BY <1>1
<1> QED BY <1>1, <1>2, <1>3 DEF Spaced

\* Putting the frame in hand at the end of the queue.
LEMMA LineAppend ==
  ASSUME CInv, producer # Idle, queue' = Append(queue, producer.frame),
         producer' = Idle, window' = window, time' = time
  PROVE  InLine'
<1> USE DEF CInv
<1> DEFINE f == producer.frame
<1>0. FrameLen \in Nat /\ queue \in Seq(Frame) /\ f \in Frame
  BY CaptureAssumption, HandFacts DEF CaptureTypes
<1>1. /\ Len(queue) \in Nat /\ DOMAIN queue = 1..Len(queue)
      /\ DOMAIN queue' = 1..(Len(queue) + 1)
      /\ \A i \in DOMAIN queue : queue'[i] = queue[i]
      /\ queue'[Len(queue) + 1] = f
  BY <1>0, AppendFacts
<1>2. \A i \in DOMAIN queue' : i \in DOMAIN queue \/ i = Len(queue) + 1
  BY <1>1
<1>3. Spaced(queue')
  BY <1>0, SpacedAppend DEF InLine
<1>4. \A i \in DOMAIN window' : \A j \in DOMAIN queue' :
        window'[i].from + FrameLen <= queue'[j].from
  BY <1>1, <1>2 DEF InLine
<1>5. \A i \in DOMAIN queue' : queue'[i].from + queue'[i].len <= time'
  BY <1>1, <1>2 DEF InLine
<1> QED BY <1>3, <1>4, <1>5 DEF InLine, Spaced

LEMMA LineStep ==
  ASSUME CInv, [Next]_vars
  PROVE  InLine'
<1> USE DEF CInv
<1>0. /\ FrameLen \in Nat \ {0} /\ time \in Nat
      /\ queue \in Seq(Frame) /\ window \in Seq(Frame)
  BY CaptureAssumption DEF CaptureTypes
<1>a. /\ \A i \in DOMAIN queue : /\ queue[i].from \in Nat
                                 /\ queue[i].len \in {0, FrameLen}
      /\ \A i \in DOMAIN window : /\ window[i].from \in Nat
                                  /\ window[i].len \in {0, FrameLen}
  <2>1. /\ \A i \in DOMAIN queue : queue[i] \in Frame
        /\ \A i \in DOMAIN window : window[i] \in Frame
    BY <1>0
  <2> QED BY <2>1, Fields
<1>c. /\ \A i \in DOMAIN queue : queue[i].from + queue[i].len <= time + FrameLen
      /\ \A i \in DOMAIN window :
           window[i].from + window[i].len <= time + FrameLen
  <2>1. \A a \in Nat : \A b \in {0, FrameLen} :
          a + b <= time => a + b <= time + FrameLen
    BY <1>0
  <2> QED BY <1>a, <2>1 DEF InLine
\* While the device runs, nothing waits that is empty.
<1>b. device = "running" =>
        /\ \A i \in DOMAIN queue : queue[i].from + FrameLen <= time
        /\ \A i \in DOMAIN window : window[i].from + FrameLen <= time
  BY <1>a DEF InLine, EmptyIsLast
<1>1. CASE Aside \/ UNCHANGED vars
  BY <1>1, AsideFacts DEF InLine, Spaced
<1>2. CASE Record
  <2>1. /\ producer'.frame.from = time /\ producer'.frame.len = FrameLen
        /\ time' = time + FrameLen /\ device = "running"
        /\ UNCHANGED <<queue, window>>
    BY <1>2, RecordFacts, FramesType
  <2>2. /\ \A i \in DOMAIN queue : queue[i].from + queue[i].len <= time'
        /\ \A i \in DOMAIN window : window[i].from + window[i].len <= time'
    BY <1>c, <2>1
  <2> QED BY <1>0, <1>b, <2>1, <2>2 DEF InLine, Spaced
<1>3. CASE LoseBlock
  <2>1. UNCHANGED <<producer, queue, window>> /\ time' = time + FrameLen
        /\ producer = Idle
    BY <1>3, LoseFacts
  <2>2. /\ \A i \in DOMAIN queue : queue[i].from + queue[i].len <= time'
        /\ \A i \in DOMAIN window : window[i].from + window[i].len <= time'
    BY <1>c, <2>1
  <2> QED BY <2>1, <2>2 DEF InLine, Spaced
<1>4. CASE RecorderFails
  <2>1. /\ producer'.frame.from = time /\ producer'.frame.len = 0
        /\ time' = time /\ device = "running"
        /\ UNCHANGED <<queue, window>>
    BY <1>4, FailFacts, FramesType
  <2> QED BY <1>0, <1>b, <2>1 DEF InLine, Spaced
<1>5. CASE Put
  <2>1. producer # Idle /\ UNCHANGED <<window, time>>
    BY <1>5, PutFacts, AtWork
  <2>2. CASE queue' = Append(queue, producer.frame) /\ producer' = Idle
    BY <2>1, <2>2, LineAppend
  <2>3. CASE /\ queue' = queue
             /\ producer' = [producer EXCEPT !.at = "evict",
                                             !.lost = producer.frame.len]
    <3>1. producer'.frame = producer.frame
      BY <2>1, <2>3, HandFacts
    <3> QED BY <2>1, <2>3, <3>1 DEF InLine, Spaced
  <2> QED BY <1>5, <2>2, <2>3, PutFacts
<1>6. CASE Evict
  <2>1. /\ producer # Idle /\ producer'.frame = producer.frame
        /\ UNCHANGED <<window, time>>
    BY <1>6, EvictFacts, AtWork, HandFacts
  <2>2. CASE queue = <<>>
    BY <1>6, <2>1, <2>2, EvictFacts DEF InLine, Spaced
  <2>3. CASE queue # <<>>
    <3>1. queue' = Tail(queue)
      BY <1>6, <2>3, EvictFacts
    <3>2. \A i \in DOMAIN queue' :
            queue'[i] = queue[i + 1] /\ i + 1 \in DOMAIN queue
      BY <1>0, <2>3, <3>1, TailFacts
    <3>3. Spaced(queue')
      BY <1>0, <2>3, <3>1, SpacedTail DEF InLine
    <3> QED BY <2>1, <3>2, <3>3 DEF InLine, Spaced
  <2> QED BY <2>2, <2>3
<1>7. CASE Retry
  <2>1. producer # Idle /\ producer' = Idle /\ UNCHANGED <<window, time>>
    BY <1>7, RetryFacts, AtWork
  <2>2. CASE queue' = Append(queue, producer.frame)
    BY <2>1, <2>2, LineAppend
  <2>3. CASE queue' = queue
    BY <2>1, <2>3 DEF InLine, Spaced
  <2> QED BY <1>7, <2>2, <2>3, RetryFacts
<1>8. CASE ReadFrame
  <2>1. queue # <<>> /\ queue' = Tail(queue) /\ UNCHANGED <<producer, time>>
    BY <1>8, ReadFacts
  <2>2. /\ \A i \in DOMAIN queue' :
             queue'[i] = queue[i + 1] /\ i + 1 \in DOMAIN queue
        /\ Head(queue) = queue[1] /\ 1 \in DOMAIN queue /\ Head(queue) \in Frame
    BY <1>0, <2>1, TailFacts
  <2>3. /\ Spaced(queue')
        /\ \A j \in DOMAIN queue' : Head(queue).from + FrameLen <= queue'[j].from
    BY <1>0, <2>1, SpacedTail DEF InLine
  <2>4. CASE window' = <<>>
    BY <2>1, <2>2, <2>3, <2>4 DEF InLine, Spaced
  <2>5. CASE window' = Grown
    <3>1. /\ Len(window) \in Nat /\ DOMAIN window = 1..Len(window)
          /\ DOMAIN window' = 1..(Len(window) + 1)
          /\ \A i \in DOMAIN window : window'[i] = window[i]
          /\ window'[Len(window) + 1] = Head(queue)
      BY <2>1, <2>5, WindowFacts DEF Grown
    <3>2. \A i \in DOMAIN window' : i \in DOMAIN window \/ i = Len(window) + 1
      BY <3>1
    <3>3. Spaced(window')
      <4>1. \A i \in DOMAIN window : window[i].from + FrameLen <= Head(queue).from
        BY <2>2 DEF InLine
      <4> QED BY <1>0, <2>2, <2>5, <4>1, SpacedAppend DEF InLine, Grown
    <3>4. \A i \in DOMAIN window' : \A j \in DOMAIN queue' :
            window'[i].from + FrameLen <= queue'[j].from
      BY <2>2, <2>3, <3>1, <3>2 DEF InLine
    <3>5. \A i \in DOMAIN window' : window'[i].from + window'[i].len <= time'
      BY <2>1, <2>2, <3>1, <3>2 DEF InLine
    <3>6. \A i \in DOMAIN queue' : queue'[i].from + queue'[i].len <= time'
      BY <2>1, <2>2 DEF InLine
    <3>7. producer' # Idle =>
            /\ \A i \in DOMAIN queue' :
                 queue'[i].from + FrameLen <= producer'.frame.from
            /\ \A i \in DOMAIN window' :
                 window'[i].from + FrameLen <= producer'.frame.from
      BY <2>1, <2>2, <3>1, <3>2 DEF InLine
    <3>8. producer' # Idle =>
            producer'.frame.from + producer'.frame.len <= time'
      BY <2>1 DEF InLine
    <3> QED BY <2>3, <3>3, <3>4, <3>5, <3>6, <3>7, <3>8 DEF InLine, Spaced
  <2> QED BY <1>8, <2>4, <2>5, ReadFacts, CutFacts
<1> QED BY <1>1, <1>2, <1>3, <1>4, <1>5, <1>6, <1>7, <1>8
        DEF Next, Device, Producer, Reader, Aside

-----------------------------------------------------------------------------
(* The chunks *)

\* A chunk that is cut begins with its window and lies in its frames.
LEMMA CutSound ==
  ASSUME CInv, ReadFrame, Enough(Grown)
  PROVE  \E c \in ChunkRecord :
           /\ chunks' = Append(chunks, c) /\ window' = <<>>
           /\ c.start = Start(Grown, OriginNow) /\ c.sound[1] = Grown[1].from
           /\ c.verdict \in IsSpeech
           /\ vad' = c.verdict.vad /\ hangover' = c.verdict.hangover
           /\ \A m \in 1..ChunkLen : \E k \in DOMAIN Grown :
                /\ k = 1 + ((m - 1) \div FrameLen)
                /\ c.sound[m] = Grown[k].from + ((m - 1) % FrameLen)
                /\ (m - 1) % FrameLen \in 0..(FrameLen - 1)
<1> USE DEF CInv
<1>1. PICK v \in IsSpeech :
        LET c == [start |-> Start(Grown, OriginNow),
                  sound |-> [n \in 1..ChunkLen |-> Unit(Grown, n)],
                  verdict |-> v]
        IN  /\ c \in ChunkRecord /\ chunks' = Append(chunks, c)
            /\ refused' = refused + Duration(Grown) - ChunkLen
            /\ vad' = v.vad /\ hangover' = v.hangover /\ window' = <<>>
  BY CutFacts
<1> DEFINE c == [start |-> Start(Grown, OriginNow),
                 sound |-> [n \in 1..ChunkLen |-> Unit(Grown, n)],
                 verdict |-> v]
<1>2. /\ c.start = Start(Grown, OriginNow) /\ c.verdict = v
      /\ \A m \in 1..ChunkLen : c.sound[m] = Unit(Grown, m)
  OBVIOUS
<1>3. c \in ChunkRecord /\ chunks' = Append(chunks, c)
  BY <1>1
<1>4. queue # <<>>
  BY ReadFacts
<1> HIDE DEF c
<1>5. /\ 1 \in 1..ChunkLen /\ Unit(Grown, 1) = Grown[1].from
      /\ \A n \in 1..ChunkLen : \E k \in DOMAIN Grown :
           /\ k = 1 + ((n - 1) \div FrameLen)
           /\ Unit(Grown, n) = Grown[k].from + ((n - 1) % FrameLen)
           /\ (n - 1) % FrameLen \in 0..(FrameLen - 1)
  BY <1>4, EnoughFacts DEF Grown
<1> QED BY <1>1, <1>2, <1>3, <1>5

\* Where the frames of the window and the one the reader takes lie.
LEMMA GrownFacts ==
  ASSUME CInv, queue # <<>>
  PROVE  /\ Grown \in Seq(Frame) /\ 1 \in DOMAIN Grown /\ Spaced(Grown)
         /\ \A k \in DOMAIN Grown :
              /\ Grown[k] \in Frame /\ Grown[k].from \in Nat /\ Stamped(Grown[k])
              /\ Grown[k].from + Grown[k].len <= time
              /\ \A j \in DOMAIN Tail(queue) :
                   Grown[k].from + FrameLen <= Tail(queue)[j].from
              /\ producer # Idle =>
                   Grown[k].from + FrameLen <= producer.frame.from
              /\ \A i \in DOMAIN chunks : \A m \in 1..ChunkLen :
                   chunks[i].sound[m] < Grown[k].from
<1> USE DEF CInv
<1>1. queue \in Seq(Frame) /\ window \in Seq(Frame)
  BY DEF CaptureTypes
<1>2. /\ Head(queue) \in Frame /\ Head(queue) = queue[1] /\ 1 \in DOMAIN queue
      /\ \A j \in DOMAIN Tail(queue) :
           Tail(queue)[j] = queue[j + 1] /\ j + 1 \in DOMAIN queue
  BY <1>1, TailFacts
<1>3. /\ Grown \in Seq(Frame) /\ Len(window) \in Nat
      /\ DOMAIN window = 1..Len(window) /\ DOMAIN Grown = 1..(Len(window) + 1)
      /\ \A i \in DOMAIN window : Grown[i] = window[i] /\ window[i] \in Frame
      /\ Grown[Len(window) + 1] = Head(queue)
  BY WindowFacts DEF Grown
<1>4. Spaced(Grown)
  <2>1. \A i \in DOMAIN window : window[i].from + FrameLen <= Head(queue).from
    BY <1>2 DEF InLine
  <2> QED BY <1>1, <1>2, <2>1, SpacedAppend DEF InLine, Grown
<1>5. \A j \in DOMAIN Tail(queue) :
        Head(queue).from + FrameLen <= Tail(queue)[j].from
  BY <1>1, SpacedTail DEF InLine
<1>6. ASSUME NEW k \in DOMAIN Grown
      PROVE  /\ Grown[k] \in Frame /\ Grown[k].from \in Nat /\ Stamped(Grown[k])
             /\ Grown[k].from + Grown[k].len <= time
             /\ \A j \in DOMAIN Tail(queue) :
                  Grown[k].from + FrameLen <= Tail(queue)[j].from
             /\ producer # Idle =>
                  Grown[k].from + FrameLen <= producer.frame.from
             /\ \A i \in DOMAIN chunks : \A m \in 1..ChunkLen :
                  chunks[i].sound[m] < Grown[k].from
  <2>1. k \in DOMAIN window \/ k = Len(window) + 1
    BY <1>3
  <2>2. CASE k \in DOMAIN window
    <3>1. Grown[k] = window[k] /\ window[k] \in Frame
      BY <1>3, <2>2
    <3>2. window[k].from \in Nat
      BY <3>1, Fields
    <3>3. \A j \in DOMAIN Tail(queue) :
            window[k].from + FrameLen <= Tail(queue)[j].from
      BY <1>2, <2>2 DEF InLine
    <3> QED BY <2>2, <3>1, <3>2, <3>3 DEF InLine, Dated, ChunksInLine
  <2>3. CASE k = Len(window) + 1
    <3>1. Grown[k] = queue[1] /\ queue[1] \in Frame /\ 1 \in DOMAIN queue
      BY <1>2, <1>3, <2>3
    <3>2. queue[1].from \in Nat
      BY <3>1, Fields
    <3>3. \A j \in DOMAIN Tail(queue) :
            queue[1].from + FrameLen <= Tail(queue)[j].from
      BY <1>2, <1>5
    <3> QED BY <3>1, <3>2, <3>3 DEF InLine, Dated, ChunksInLine
  <2> QED BY <2>1, <2>2, <2>3
<1>7. 1 \in DOMAIN Grown
  BY <1>3
<1> QED BY <1>3, <1>4, <1>6, <1>7

LEMMA ChunksStep ==
  ASSUME CInv, [Next]_vars
  PROVE  ChunksInLine'
<1> USE DEF CInv
<1>0. /\ FrameLen \in Nat \ {0} /\ time \in Nat /\ queue \in Seq(Frame)
      /\ chunks \in Seq(ChunkRecord)
  BY CaptureAssumption DEF CaptureTypes
<1>a. \A i \in DOMAIN chunks : \A m \in 1..ChunkLen :
        chunks[i].sound[m] \in Nat
  <2>1. \A c \in ChunkRecord : \A m \in 1..ChunkLen : c.sound[m] \in Nat
    BY DEF ChunkRecord
  <2> QED BY <1>0, <2>1
<1>b. \A i \in DOMAIN chunks : \A m \in 1..ChunkLen :
        chunks[i].sound[m] < time + FrameLen
  BY <1>0, <1>a DEF ChunksInLine
<1>1. CASE Aside \/ UNCHANGED vars
  BY <1>1, AsideFacts DEF ChunksInLine
<1>2. CASE Record
  <2>1. /\ producer'.frame.from = time /\ time' = time + FrameLen
        /\ UNCHANGED <<queue, window, chunks>>
    BY <1>2, RecordFacts, FramesType
  <2> QED BY <1>b, <2>1 DEF ChunksInLine
<1>3. CASE LoseBlock
  BY <1>3, <1>b, LoseFacts DEF ChunksInLine
<1>4. CASE RecorderFails
  <2>1. /\ producer'.frame.from = time /\ time' = time
        /\ UNCHANGED <<queue, window, chunks>>
    BY <1>4, FailFacts, FramesType
  <2> QED BY <2>1 DEF ChunksInLine
<1>5. CASE (Put \/ Retry) /\ queue' = Append(queue, producer.frame)
  <2>1. /\ producer # Idle /\ producer' = Idle
        /\ UNCHANGED <<window, chunks, time>>
    <3>1. producer.at \in {"put", "retry"} /\ UNCHANGED <<window, chunks, time>>
      BY <1>5, PutFacts, RetryFacts
    <3>2. producer # Idle /\ producer.frame \in Frame
      BY <3>1, AtWork, HandFacts
    <3>3. queue' # queue
      <4>1. Len(queue') = Len(queue) + 1 /\ Len(queue) \in Nat
        BY <1>0, <1>5, <3>2, AppendFacts
      <4> QED BY <4>1
    <3> QED BY <1>5, <3>1, <3>2, <3>3, PutFacts, RetryFacts
  <2>2. producer.frame \in Frame
    BY <2>1, HandFacts
  <2>3. /\ DOMAIN queue = 1..Len(queue) /\ Len(queue) \in Nat
        /\ DOMAIN queue' = 1..(Len(queue) + 1)
        /\ \A i \in DOMAIN queue : queue'[i] = queue[i]
        /\ queue'[Len(queue) + 1] = producer.frame
    BY <1>0, <1>5, <2>2, AppendFacts
  <2>4. \A j \in DOMAIN queue' : j \in DOMAIN queue \/ j = Len(queue) + 1
    BY <2>3
  <2> QED BY <2>1, <2>3, <2>4 DEF ChunksInLine
<1>6. CASE (Put \/ Retry) /\ queue' = queue
  <2>1. UNCHANGED <<window, chunks, time>> /\ producer # Idle
    BY <1>6, PutFacts, RetryFacts, AtWork
  <2>2. producer' # Idle => producer'.frame = producer.frame
    BY <1>6, <2>1, PutFacts, RetryFacts, HandFacts
  <2> QED BY <1>6, <2>1, <2>2 DEF ChunksInLine
<1>7. CASE Evict
  <2>1. /\ producer # Idle /\ producer'.frame = producer.frame
        /\ UNCHANGED <<window, chunks, time>>
    BY <1>7, EvictFacts, AtWork, HandFacts
  <2>2. \A j \in DOMAIN queue' : \E k \in DOMAIN queue : queue'[j] = queue[k]
    <3>1. CASE queue = <<>>
      BY <1>7, <3>1, EvictFacts
    <3>2. CASE queue # <<>>
      BY <1>0, <1>7, <3>2, EvictFacts, TailFacts
    <3> QED BY <3>1, <3>2
  <2> QED BY <2>1, <2>2 DEF ChunksInLine
<1>8. CASE ReadFrame
  <2>1. queue # <<>> /\ queue' = Tail(queue) /\ UNCHANGED <<producer, time>>
    BY <1>8, ReadFacts
  <2>2. \A j \in DOMAIN queue' :
          queue'[j] = queue[j + 1] /\ j + 1 \in DOMAIN queue
    BY <1>0, <2>1, TailFacts
  <2>3. CASE Enough(Grown)
    <3>1. PICK c \in ChunkRecord :
            /\ chunks' = Append(chunks, c) /\ window' = <<>>
            /\ \A m \in 1..ChunkLen : \E k \in DOMAIN Grown :
                 /\ c.sound[m] = Grown[k].from + ((m - 1) % FrameLen)
                 /\ (m - 1) % FrameLen \in 0..(FrameLen - 1)
      BY <1>8, <2>3, CutSound
    <3>2. /\ Len(chunks) \in Nat /\ DOMAIN chunks = 1..Len(chunks)
          /\ DOMAIN chunks' = 1..(Len(chunks) + 1)
          /\ \A i \in DOMAIN chunks : chunks'[i] = chunks[i]
          /\ chunks'[Len(chunks) + 1] = c
      BY <1>0, <3>1, AppendFacts
    <3>3. ASSUME NEW m \in 1..ChunkLen
          PROVE  /\ c.sound[m] < time
                 /\ \A j \in DOMAIN queue' : c.sound[m] < queue'[j].from
                 /\ producer # Idle => c.sound[m] < producer.frame.from
      <4>1. PICK k \in DOMAIN Grown : \E r \in 0..(FrameLen - 1) :
              c.sound[m] = Grown[k].from + r
        BY <3>1
      <4>2. /\ Grown[k].from \in Nat /\ Grown[k].len = FrameLen
            /\ Grown[k].from + Grown[k].len <= time
            /\ \A j \in DOMAIN queue' :
                 Grown[k].from + FrameLen <= queue'[j].from
            /\ producer # Idle =>
                 Grown[k].from + FrameLen <= producer.frame.from
        BY <2>1, <2>3, GrownFacts, EnoughFacts DEF Grown
      <4>3. c.sound[m] \in Nat /\ c.sound[m] < Grown[k].from + FrameLen
        BY <1>0, <4>1, <4>2
      <4>4. \A j \in DOMAIN queue' : queue'[j].from \in Nat
        <5>1. \A j \in DOMAIN queue : queue[j] \in Frame
          BY <1>0
        <5> QED BY <2>2, <5>1, Fields
      <4>5. producer # Idle => producer.frame.from \in Nat
        BY HandFacts
      <4> QED BY <1>0, <4>2, <4>3, <4>4, <4>5
    <3>4. \A i \in DOMAIN chunks' : i \in DOMAIN chunks \/ i = Len(chunks) + 1
      BY <3>2
    <3> QED BY <2>1, <2>2, <3>1, <3>2, <3>3, <3>4 DEF ChunksInLine
  <2>4. CASE ~Enough(Grown)
    <3>1. window' = Grown /\ chunks' = chunks
      BY <1>8, <2>4, ReadFacts
    <3>2. \A k \in DOMAIN Grown : \A i \in DOMAIN chunks : \A m \in 1..ChunkLen :
            chunks[i].sound[m] < Grown[k].from
      BY <2>1, GrownFacts
    <3> QED BY <2>1, <2>2, <3>1, <3>2 DEF ChunksInLine
  <2> QED BY <2>3, <2>4
<1> QED BY <1>1, <1>2, <1>3, <1>4, <1>5, <1>6, <1>7, <1>8, PutFacts, RetryFacts
        DEF Next, Device, Producer, Reader, Aside

\* The first sound ever read stays the first, and dates the session.
LEMMA FirstStays ==
  ASSUME CInv, ReadFrame
  PROVE  /\ chunks' # <<>> \/ window' # <<>>
         /\ FirstHeard' \in Nat
         /\ OriginNow \in Nat /\ OriginNow - FirstHeard' \in 0..MaxLag
         /\ FirstHeard' <= Grown[1].from
         /\ chunks # <<>> => FirstHeard' = FirstHeard
<1> USE DEF CInv
<1>0. /\ MaxLag \in Nat /\ FrameLen \in Nat /\ ChunkLen \in Nat \ {0}
      /\ chunks \in Seq(ChunkRecord) /\ window \in Seq(Frame)
  BY CaptureAssumption DEF CaptureTypes
<1>1. queue # <<>> /\ queue \in Seq(Frame) /\ origin' = OriginNow
  BY ReadFacts DEF CaptureTypes
<1>2. /\ Head(queue) \in Frame /\ Grown \in Seq(Frame) /\ Grown # <<>>
      /\ \A i \in DOMAIN window : Grown[i] = window[i]
      /\ Grown[Len(window) + 1] = Head(queue)
      /\ DOMAIN window = 1..Len(window) /\ Len(window) \in Nat
  BY <1>1, WindowFacts DEF Grown
<1>3. /\ window = <<>> => Grown[1] = Head(queue)
      /\ window # <<>> => Grown[1] = window[1] /\ 1 \in DOMAIN window
  <2>1. /\ window = <<>> => Len(window) = 0
        /\ window # <<>> => 1 \in DOMAIN window
    BY <1>0
  <2> QED BY <1>2, <2>1
<1>4. /\ Grown[1] \in Frame /\ Grown[1].from \in Nat /\ Grown[1].stamp \in Nat
      /\ Stamped(Grown[1])
      /\ \A i \in DOMAIN chunks : \A m \in 1..ChunkLen :
           chunks[i].sound[m] < Grown[1].from
  BY <1>1, GrownFacts, Fields
<1>5. chunks # <<>> =>
        /\ 1 \in DOMAIN chunks /\ chunks[1].sound[1] \in Nat
        /\ chunks[1].sound[1] < Grown[1].from
  <2>1. chunks # <<>> => 1 \in DOMAIN chunks
    BY <1>0
  <2>2. \A c \in ChunkRecord : c.sound[1] \in Nat
    BY <1>0 DEF ChunkRecord
  <2>3. 1 \in 1..ChunkLen
    BY <1>0
  <2> QED BY <1>0, <1>4, <2>1, <2>2, <2>3
<1>6. \/ chunks' = chunks /\ window' = Grown
      \/ \E c \in ChunkRecord : /\ chunks' = Append(chunks, c)
                                /\ c.sound[1] = Grown[1].from
  BY ReadFacts, CutSound
<1>7. chunks' # <<>> \/ window' # <<>>
  BY <1>0, <1>2, <1>6
<1>8. FirstHeard' = IF chunks # <<>> THEN chunks[1].sound[1] ELSE Grown[1].from
  <2>1. CASE chunks' = chunks /\ window' = Grown
    BY <2>1 DEF FirstHeard
  <2>2. CASE \E c \in ChunkRecord : /\ chunks' = Append(chunks, c)
                                    /\ c.sound[1] = Grown[1].from
    <3>1. PICK c \in ChunkRecord : /\ chunks' = Append(chunks, c)
                                   /\ c.sound[1] = Grown[1].from
      BY <2>2
    <3>2. /\ chunks' # <<>> /\ chunks # <<>> => chunks'[1] = chunks[1]
          /\ chunks = <<>> => chunks'[1] = c
      BY <1>0, <1>5, <3>1, AppendFacts
    <3> QED BY <3>1, <3>2 DEF FirstHeard
  <2> QED BY <1>6, <2>1, <2>2
<1>9. FirstHeard' \in Nat /\ FirstHeard' <= Grown[1].from
  BY <1>4, <1>5, <1>8
<1>10. OriginNow \in Nat /\ OriginNow - FirstHeard' \in 0..MaxLag
  <2>1. CASE origin = None
    <3>1. window = <<>> /\ chunks = <<>>
      BY <2>1 DEF Dated
    <3>2. OriginNow = Grown[1].stamp /\ FirstHeard' = Grown[1].from
      BY <1>3, <1>8, <2>1, <3>1 DEF OriginNow
    <3> QED BY <1>4, <3>2 DEF Stamped
  <2>2. CASE origin # None
    <3>1. /\ OriginNow = origin /\ origin \in Nat
          /\ chunks # <<>> \/ window # <<>>
          /\ origin - FirstHeard \in 0..MaxLag
      BY <2>2 DEF OriginNow, Dated, CaptureTypes
    <3>2. FirstHeard' = FirstHeard
      BY <1>3, <1>8, <3>1 DEF FirstHeard
    <3> QED BY <3>1, <3>2
  <2> QED BY <2>1, <2>2
<1>11. chunks # <<>> => FirstHeard' = FirstHeard
  BY <1>8 DEF FirstHeard
<1> QED BY <1>7, <1>9, <1>10, <1>11

LEMMA DatedStep ==
  ASSUME CInv, [Next]_vars
  PROVE  Dated'
<1> USE DEF CInv
<1>0. queue \in Seq(Frame) /\ window \in Seq(Frame)
  BY DEF CaptureTypes
<1>1. CASE Aside \/ UNCHANGED vars
  <2>1. UNCHANGED <<producer, queue, window, chunks, origin>>
    BY <1>1, AsideFacts
  <2> QED BY <2>1 DEF Dated, Stamped, FirstHeard
<1>2. CASE Record \/ RecorderFails
  <2>1. UNCHANGED <<queue, window, chunks, origin>>
    BY <1>2, RecordFacts, FailFacts
  <2>2. Stamped(producer'.frame)
    BY <1>2, RecordFacts, FailFacts, FramesType
  <2> QED BY <2>1, <2>2 DEF Dated, Stamped, FirstHeard
<1>3. CASE LoseBlock
  BY <1>3, LoseFacts DEF Dated, Stamped, FirstHeard
<1>4. CASE Put \/ Evict \/ Retry
  <2>1. UNCHANGED <<window, chunks, origin>> /\ producer # Idle
    BY <1>4, PutFacts, EvictFacts, RetryFacts, AtWork
  <2>2. producer' # Idle => producer'.frame = producer.frame
    BY <1>4, <2>1, PutFacts, EvictFacts, RetryFacts, HandFacts
  <2>3. Stamped(producer.frame) /\ producer.frame \in Frame
    BY <2>1, HandFacts DEF Dated
  <2>4. \/ queue' = Append(queue, producer.frame)
        \/ queue' = queue
        \/ queue # <<>> /\ queue' = Tail(queue)
    BY <1>4, PutFacts, EvictFacts, RetryFacts
  <2>5. \A i \in DOMAIN queue' : Stamped(queue'[i])
    <3>1. CASE queue' = Append(queue, producer.frame)
      <4>1. \A i \in DOMAIN queue' : \/ i \in DOMAIN queue /\ queue'[i] = queue[i]
                                     \/ queue'[i] = producer.frame
        <5>1. /\ DOMAIN queue = 1..Len(queue) /\ Len(queue) \in Nat
              /\ DOMAIN queue' = 1..(Len(queue) + 1)
              /\ \A i \in DOMAIN queue : queue'[i] = queue[i]
              /\ queue'[Len(queue) + 1] = producer.frame
          BY <1>0, <2>3, <3>1, AppendFacts
        <5>2. \A i \in DOMAIN queue' : i \in DOMAIN queue \/ i = Len(queue) + 1
          BY <5>1
        <5> QED BY <5>1, <5>2
      <4> QED BY <2>3, <4>1 DEF Dated
    <3>2. CASE queue' = queue
      BY <3>2 DEF Dated
    <3>3. CASE queue # <<>> /\ queue' = Tail(queue)
      BY <1>0, <3>3, TailFacts DEF Dated
    <3> QED BY <2>4, <3>1, <3>2, <3>3
  <2> QED BY <2>1, <2>2, <2>3, <2>5 DEF Dated, Stamped, FirstHeard
<1>5. CASE ReadFrame
  <2>1. queue # <<>> /\ queue' = Tail(queue) /\ producer' = producer
        /\ origin' = OriginNow
    BY <1>5, ReadFacts
  <2>2. \A i \in DOMAIN queue' : Stamped(queue'[i])
    BY <1>0, <2>1, TailFacts DEF Dated
  <2>3. \A i \in DOMAIN window' : Stamped(window'[i])
    <3>1. \A k \in DOMAIN Grown : Stamped(Grown[k])
      BY <2>1, GrownFacts
    <3>2. window' = <<>> \/ window' = Grown
      BY <1>5, ReadFacts, CutFacts
    <3>3. DOMAIN <<>> = {}
      OBVIOUS
    <3> QED BY <3>1, <3>2, <3>3
  <2>4. /\ chunks' # <<>> \/ window' # <<>>
        /\ origin' \in Nat /\ origin' - FirstHeard' \in 0..MaxLag
    BY <1>5, <2>1, FirstStays
  <2>5. origin' # None
    BY <2>4 DEF None
  <2> QED BY <2>1, <2>2, <2>3, <2>4, <2>5 DEF Dated, Stamped
<1> QED BY <1>1, <1>2, <1>3, <1>4, <1>5 DEF Next, Device, Producer, Reader, Aside

LEMMA ShortStep ==
  ASSUME CInv, [Next]_vars
  PROVE  ShortWindow'
<1> USE DEF CInv
<1>0. /\ FrameLen \in Nat \ {0} /\ ChunkLen \in Nat \ {0}
      /\ chunks \in Seq(ChunkRecord) /\ Len(chunks) \in Nat /\ refused \in Nat
  BY CaptureAssumption DEF CaptureTypes
<1>1. CASE ~ReadFrame
  <2>1. UNCHANGED <<window, chunks, refused>>
    BY <1>1, AsideFacts, RecordFacts, LoseFacts, FailFacts, PutFacts,
       EvictFacts, RetryFacts DEF Next, Device, Producer, Reader, Aside
  <2> QED BY <2>1 DEF ShortWindow, Duration, Blocks
<1>2. CASE ReadFrame /\ Enough(Grown)
  <2>1. PICK c \in ChunkRecord :
          /\ chunks' = Append(chunks, c) /\ window' = <<>>
          /\ refused' = refused + Duration(Grown) - ChunkLen
    BY <1>2, CutFacts
  <2>2. queue # <<>>
    BY <1>2, ReadFacts
  <2>3. /\ Duration(Grown) - ChunkLen \in 0..(FrameLen - 1)
        /\ Duration(Grown) \in Nat
    BY <1>2, <2>2, EnoughFacts, WindowFacts, BlocksFacts DEF Grown
  <2>4. Len(chunks') = Len(chunks) + 1
    BY <1>0, <2>1, AppendFacts
  <2>5. refused' <= Len(chunks') * (FrameLen - 1)
    <3>1. refused' <= refused + (FrameLen - 1)
      BY <1>0, <2>1, <2>3
    <3>2. Len(chunks') * (FrameLen - 1)
            = Len(chunks) * (FrameLen - 1) + (FrameLen - 1)
      BY <1>0, <2>4
    <3>3. Len(chunks) * (FrameLen - 1) \in Nat /\ refused' \in Nat
      BY <1>0, <2>1, <2>3
    <3> QED BY <1>0, <3>1, <3>2, <3>3 DEF ShortWindow
  <2>6. Duration(window)' = 0
    <3>1. window' = <<>>
      BY <2>1
    <3>2. Blocks(<<>>) = 0
      BY DEF Blocks
    <3>3. Duration(window)' = Blocks(<<>>) * FrameLen
      BY <3>1 DEF Duration, Blocks
    <3> QED BY <3>2, <3>3, CaptureAssumption
  <2> QED BY <1>0, <2>5, <2>6 DEF ShortWindow
<1>3. CASE ReadFrame /\ ~Enough(Grown)
  <2>1. window' = Grown /\ UNCHANGED <<chunks, refused>> /\ queue # <<>>
    BY <1>3, ReadFacts
  <2>2. Duration(Grown) \in Nat
    BY <2>1, WindowFacts, BlocksFacts DEF Grown
  <2>3. Duration(window)' = Duration(Grown)
    BY <2>1 DEF Duration, Blocks
  <2> QED BY <1>0, <1>3, <2>1, <2>2, <2>3 DEF ShortWindow, Enough
<1> QED BY <1>1, <1>2, <1>3

\* The filter's answer to a chunk, and what it leaves behind.
LEMMA VerdictFacts ==
  ASSUME CaptureTypes, NEW v \in IsSpeech
  PROVE  /\ v.vad # "unloaded"
         /\ vad = "disabled" => v.vad = "disabled"
         /\ vad = "off" => v.vad = "off"
         /\ v.vad = "on" /\ v.voice => v.hangover = Hangover
         /\ v.vad = "on" /\ ~v.voice =>
              /\ v.hangover >= hangover - 1 /\ vad \in {"on", "unloaded"}
         /\ ~v.passed => /\ ~v.voice /\ v.vad = "on" /\ hangover = 0
                         /\ vad \in {"on", "unloaded"}
<1>1. Hangover \in Nat /\ hangover \in 0..Hangover /\ vad \in VadStates
  BY CaptureAssumption DEF CaptureTypes
<1>2. vad \in {"off", "unloaded", "on", "disabled"}
  BY <1>1 DEF VadStates
<1>3. CASE vad \in {"off", "disabled"}
  <2>1. v = Verdict(FALSE, TRUE, vad, hangover)
    BY <1>3 DEF IsSpeech
  <2>2. /\ v.vad = vad /\ v.passed = TRUE /\ v.voice = FALSE
    BY <2>1 DEF Verdict
  <2> QED BY <1>3, <2>2
<1>4. CASE vad \notin {"off", "disabled"}
  <2>1. vad \in {"on", "unloaded"}
    BY <1>2, <1>4
  <2>2. \/ v = Verdict(TRUE, TRUE, "on", Hangover)
        \/ v = Verdict(FALSE, Held, "on",
                       IF Held THEN hangover - 1 ELSE hangover)
        \/ v = Verdict(FALSE, TRUE, "disabled", Hangover)
        \/ v = Verdict(FALSE, TRUE, "disabled", 0)
    BY <1>4 DEF IsSpeech
  <2>3. CASE v = Verdict(TRUE, TRUE, "on", Hangover)
    <3>1. /\ v.vad = "on" /\ v.passed = TRUE /\ v.voice = TRUE
          /\ v.hangover = Hangover
      BY <2>3 DEF Verdict
    <3> QED BY <2>1, <3>1
  <2>4. CASE v = Verdict(FALSE, Held, "on",
                         IF Held THEN hangover - 1 ELSE hangover)
    <3>1. /\ v.vad = "on" /\ v.passed = Held /\ v.voice = FALSE
          /\ v.hangover = IF Held THEN hangover - 1 ELSE hangover
      BY <2>4 DEF Verdict
    <3>2. v.hangover >= hangover - 1
      BY <1>1, <3>1
    <3>3. hangover # 0 => Held
      BY <1>1 DEF Held
    <3>4. ~v.passed => hangover = 0
      BY <3>1, <3>3, Zenon
    <3> QED BY <2>1, <3>1, <3>2, <3>4
  <2>5. CASE \/ v = Verdict(FALSE, TRUE, "disabled", Hangover)
             \/ v = Verdict(FALSE, TRUE, "disabled", 0)
    <3>1. v.vad = "disabled" /\ v.passed = TRUE /\ v.voice = FALSE
      BY <2>5 DEF Verdict
    <3> QED BY <2>1, <3>1
  <2> QED BY <2>2, <2>3, <2>4, <2>5
<1> QED BY <1>3, <1>4

LEMMA HangoverStep ==
  ASSUME CInv, [Next]_vars
  PROVE  HangoverHolds'
<1> USE DEF CInv
<1>0. /\ Hangover \in Nat /\ hangover \in 0..Hangover /\ Len(chunks) \in Nat
      /\ chunks \in Seq(ChunkRecord)
  BY CaptureAssumption DEF CaptureTypes
<1>1. CASE ~(ReadFrame /\ Enough(Grown))
  <2>1. UNCHANGED <<chunks, vad, hangover>>
    BY <1>1, AsideFacts, RecordFacts, LoseFacts, FailFacts, PutFacts,
       EvictFacts, RetryFacts, ReadFacts DEF Next, Device, Producer, Reader, Aside
  <2> QED BY <2>1 DEF HangoverHolds
<1>2. CASE ReadFrame /\ Enough(Grown)
  <2>1. PICK c \in ChunkRecord :
          /\ chunks' = Append(chunks, c) /\ c.verdict \in IsSpeech
          /\ vad' = c.verdict.vad /\ hangover' = c.verdict.hangover
    BY <1>2, CutSound
  <2> DEFINE n == Len(chunks) + 1
  <2>2. /\ Len(chunks') = n /\ DOMAIN chunks' = 1..n
        /\ DOMAIN chunks = 1..Len(chunks)
        /\ \A i \in DOMAIN chunks : chunks'[i] = chunks[i]
        /\ chunks'[n] = c
    BY <1>0, <2>1, AppendFacts
  <2>3. hangover' \in Nat
    BY <1>0, <2>1, VerdictType
  <2>4. \A i \in DOMAIN chunks :
          /\ chunks'[i].verdict.vad = "disabled" => vad' = "disabled"
          /\ vad' = "on" /\ chunks'[i].verdict.voice =>
               hangover' + (n - i) >= Hangover
    <3> SUFFICES ASSUME NEW i \in DOMAIN chunks
                 PROVE  /\ chunks[i].verdict.vad = "disabled" => vad' = "disabled"
                        /\ vad' = "on" /\ chunks[i].verdict.voice =>
                             hangover' + (n - i) >= Hangover
      BY <2>2
    <3>1. chunks[i].verdict.vad = "disabled" => vad' = "disabled"
      BY <2>1, VerdictFacts DEF HangoverHolds
    <3>2. ASSUME vad' = "on", chunks[i].verdict.voice
          PROVE  hangover' + (n - i) >= Hangover
      <4>1. i \in 1..Len(chunks)
        BY <2>2
      <4>2. CASE c.verdict.voice
        <5>1. hangover' = Hangover
          BY <2>1, <3>2, <4>2, VerdictFacts
        <5> QED BY <1>0, <4>1, <5>1
      <4>3. CASE ~c.verdict.voice
        <5>1. hangover' >= hangover - 1 /\ vad \in {"on", "unloaded"}
          BY <2>1, <3>2, <4>3, VerdictFacts
        <5>2. chunks # <<>>
          BY <4>1
        <5>3. hangover + (Len(chunks) - i) >= Hangover
          BY <3>2, <5>1, <5>2 DEF HangoverHolds
        <5> QED BY <1>0, <2>3, <4>1, <5>1, <5>3
      <4> QED BY <4>2, <4>3
    <3> QED BY <3>1, <3>2
  <2>5. /\ c.verdict.vad = "disabled" => vad' = "disabled"
        /\ vad' = "on" /\ c.verdict.voice => hangover' + (n - n) >= Hangover
    <3>1. vad' = "on" /\ c.verdict.voice => hangover' = Hangover
      BY <2>1, VerdictFacts
    <3> QED BY <1>0, <2>1, <3>1
  <2>6. vad' # "unloaded"
    BY <2>1, VerdictFacts
  <2>7. \A i \in DOMAIN chunks' : i \in DOMAIN chunks \/ i = n
    BY <1>0, <2>2
  <2> HIDE DEF n
  <2> QED BY <2>2, <2>4, <2>5, <2>6, <2>7 DEF HangoverHolds
<1> QED BY <1>1, <1>2

LEMMA CaptureStep ==
  ASSUME CInv, [Next]_vars
  PROVE  CInv'
  BY TypesStep, EmptyStep, LossStep, LineStep, ChunksStep, DatedStep, ShortStep,
     HangoverStep DEF CInv

-----------------------------------------------------------------------------
(* What the chunks say *)

\* A later unit lies in a later frame, or later in the same one.
LEMMA DivOrder ==
  ASSUME NEW F \in Nat \ {0}, NEW a \in Nat, NEW b \in Nat, a < b
  PROVE  a \div F < b \div F \/ (a \div F = b \div F /\ a % F < b % F)
<1>1. /\ a = (F * (a \div F)) + (a % F) /\ a \div F \in Nat /\ a % F \in 0..(F - 1)
      /\ b = (F * (b \div F)) + (b % F) /\ b \div F \in Nat /\ b % F \in 0..(F - 1)
  BY DivMod
<1>2. CASE b \div F < a \div F
  <2>1. F * (b \div F) + F <= F * (a \div F)
    <3>1. b \div F + 1 <= a \div F
      BY <1>1, <1>2
    <3>2. F * (b \div F + 1) <= F * (a \div F)
      BY <1>1, <3>1
    <3> QED BY <1>1, <3>2
  <2> QED BY <1>1, <2>1
<1>3. CASE b \div F = a \div F
  BY <1>1, <1>3
<1>4. CASE a \div F < b \div F
  BY <1>4
<1> QED BY <1>1, <1>2, <1>3, <1>4

\* A chunk that is cut holds its sound in the order it was heard, after that
\* of every chunk before it.
LEMMA NewSoundInOrder ==
  ASSUME CInv, ReadFrame, Enough(Grown), NEW c \in ChunkRecord,
         \A m \in 1..ChunkLen : \E k \in DOMAIN Grown :
           /\ k = 1 + ((m - 1) \div FrameLen)
           /\ c.sound[m] = Grown[k].from + ((m - 1) % FrameLen)
           /\ (m - 1) % FrameLen \in 0..(FrameLen - 1)
  PROVE  \A n \in 1..ChunkLen :
           /\ \A m \in 1..ChunkLen : m < n => c.sound[m] < c.sound[n]
           /\ \A i \in DOMAIN chunks : \A m \in 1..ChunkLen :
                chunks[i].sound[m] < c.sound[n]
<1>1. FrameLen \in Nat \ {0} /\ ChunkLen \in Nat
  BY CaptureAssumption
<1>2. queue # <<>> /\ Spaced(Grown)
  BY ReadFacts, GrownFacts
<1>3. \A k \in DOMAIN Grown :
        /\ Grown[k].from \in Nat
        /\ \A i \in DOMAIN chunks : \A m \in 1..ChunkLen :
             chunks[i].sound[m] < Grown[k].from
  BY <1>2, GrownFacts
<1>4. \A i \in DOMAIN chunks : \A m \in 1..ChunkLen : chunks[i].sound[m] \in Nat
  <2>1. \A i \in DOMAIN chunks : chunks[i] \in ChunkRecord
    BY DEF CInv, CaptureTypes
  <2> QED BY <2>1 DEF ChunkRecord
<1> SUFFICES ASSUME NEW n \in 1..ChunkLen
             PROVE  /\ \A m \in 1..ChunkLen : m < n => c.sound[m] < c.sound[n]
                    /\ \A i \in DOMAIN chunks : \A m \in 1..ChunkLen :
                         chunks[i].sound[m] < c.sound[n]
  OBVIOUS
<1>5. PICK l \in DOMAIN Grown :
        /\ l = 1 + ((n - 1) \div FrameLen)
        /\ c.sound[n] = Grown[l].from + ((n - 1) % FrameLen)
        /\ (n - 1) % FrameLen \in 0..(FrameLen - 1)
  OBVIOUS
<1>6. ASSUME NEW m \in 1..ChunkLen, m < n
      PROVE  c.sound[m] < c.sound[n]
  <2>1. PICK k \in DOMAIN Grown :
          /\ k = 1 + ((m - 1) \div FrameLen)
          /\ c.sound[m] = Grown[k].from + ((m - 1) % FrameLen)
          /\ (m - 1) % FrameLen \in 0..(FrameLen - 1)
    OBVIOUS
  <2>2. m - 1 \in Nat /\ n - 1 \in Nat /\ m - 1 < n - 1
    BY <1>1, <1>6
  <2>3. /\ (m - 1) \div FrameLen \in Nat /\ (n - 1) \div FrameLen \in Nat
        /\ \/ (m - 1) \div FrameLen < (n - 1) \div FrameLen
           \/ /\ (m - 1) \div FrameLen = (n - 1) \div FrameLen
              /\ (m - 1) % FrameLen < (n - 1) % FrameLen
    BY <1>1, <2>2, DivOrder, DivMod
  <2>4. Grown[k].from \in Nat /\ Grown[l].from \in Nat
    BY <1>3
  <2>5. CASE (m - 1) \div FrameLen < (n - 1) \div FrameLen
    <3>1. k < l
      BY <1>5, <2>1, <2>3, <2>5
    <3>2. Grown[k].from + FrameLen <= Grown[l].from
      BY <1>2, <3>1 DEF Spaced
    <3> QED BY <1>1, <1>5, <2>1, <2>4, <3>2
  <2>6. CASE /\ (m - 1) \div FrameLen = (n - 1) \div FrameLen
             /\ (m - 1) % FrameLen < (n - 1) % FrameLen
    <3>1. k = l
      BY <1>5, <2>1, <2>6
    <3> QED BY <1>1, <1>5, <2>1, <2>4, <2>6, <3>1
  <2> QED BY <2>3, <2>5, <2>6
<1>7. ASSUME NEW i \in DOMAIN chunks, NEW m \in 1..ChunkLen
      PROVE  chunks[i].sound[m] < c.sound[n]
  <2>1. /\ chunks[i].sound[m] < Grown[l].from /\ Grown[l].from \in Nat
        /\ chunks[i].sound[m] \in Nat
    BY <1>3, <1>4
  <2> QED BY <1>1, <1>5, <2>1
<1> QED BY <1>6, <1>7

\* Nothing but a cut changes what the chunks say.
LEMMA ChunksStay ==
  ASSUME [Next]_vars, ~(ReadFrame /\ Enough(Grown))
  PROVE  UNCHANGED <<chunks, refused, vad, hangover>>
  BY AsideFacts, RecordFacts, LoseFacts, FailFacts, PutFacts, EvictFacts,
     RetryFacts, ReadFacts DEF Next, Device, Producer, Reader, Aside

LEMMA PlaceStep ==
  ASSUME CInv, ChunkKeepsItsPlace, [Next]_vars
  PROVE  ChunkKeepsItsPlace'
<1>0. MaxLag \in Nat /\ chunks \in Seq(ChunkRecord) /\ Len(chunks) \in Nat
  BY CaptureAssumption DEF CInv, CaptureTypes
<1>1. CASE ~(ReadFrame /\ Enough(Grown))
  BY <1>1, ChunksStay DEF ChunkKeepsItsPlace
<1>2. CASE ReadFrame /\ Enough(Grown)
  <2>1. PICK c \in ChunkRecord :
          /\ chunks' = Append(chunks, c)
          /\ c.start = Start(Grown, OriginNow) /\ c.sound[1] = Grown[1].from
    BY <1>2, CutSound
  <2>2. /\ DOMAIN chunks = 1..Len(chunks)
        /\ DOMAIN chunks' = 1..(Len(chunks) + 1) /\ chunks' # <<>>
        /\ \A i \in DOMAIN chunks : chunks'[i] = chunks[i]
        /\ chunks'[Len(chunks) + 1] = c
    BY <1>0, <2>1, AppendFacts
  <2>3. /\ FirstHeard' \in Nat /\ OriginNow \in Nat
        /\ OriginNow - FirstHeard' \in 0..MaxLag /\ FirstHeard' <= Grown[1].from
    BY <1>2, FirstStays
  <2>4. FirstHeard' = chunks'[1].sound[1]
    BY <2>2 DEF FirstHeard
  <2>5. ASSUME NEW i \in DOMAIN chunks
        PROVE  chunks'[i].start - (chunks'[i].sound[1] - chunks'[1].sound[1])
                 \in -MaxLag..MaxLag
    <3>1. i \in 1..Len(chunks) /\ 1 \in DOMAIN chunks
      BY <1>0, <2>2
    <3>2. chunks'[i] = chunks[i] /\ chunks'[1] = chunks[1]
      BY <2>2, <3>1
    <3> QED BY <3>2 DEF ChunkKeepsItsPlace
  <2>6. c.start - (c.sound[1] - chunks'[1].sound[1]) \in -MaxLag..MaxLag
    <3>1. queue # <<>>
      BY <1>2, ReadFacts
    <3>2. /\ Grown[1] \in Frame /\ Grown[1].from \in Nat /\ Stamped(Grown[1])
      BY <3>1, GrownFacts
    <3>3. Grown[1].stamp \in Nat
      BY <3>2, Fields
    <3>4. c.start = IF 0 > Grown[1].stamp - OriginNow THEN 0
                    ELSE Grown[1].stamp - OriginNow
      BY <2>1 DEF Start, Relative, Most
    <3>5. Grown[1].stamp - Grown[1].from \in 0..MaxLag
      BY <3>2 DEF Stamped
    <3>6. \A stamp, from, org, heard \in Nat :
            /\ stamp - from \in 0..MaxLag /\ org - heard \in 0..MaxLag
            /\ heard <= from
            => (IF 0 > stamp - org THEN 0 ELSE stamp - org) - (from - heard)
                 \in -MaxLag..MaxLag
      BY <1>0
    <3>7. c.start - (Grown[1].from - FirstHeard') \in -MaxLag..MaxLag
      BY <2>3, <3>2, <3>3, <3>4, <3>5, <3>6
    <3> QED BY <2>1, <2>4, <3>7
  <2>7. \A i \in DOMAIN chunks' : i \in DOMAIN chunks \/ i = Len(chunks) + 1
    BY <1>0, <2>2
  <2> QED BY <2>2, <2>5, <2>6, <2>7 DEF ChunkKeepsItsPlace
<1> QED BY <1>1, <1>2

LEMMA OrderStep ==
  ASSUME CInv, SoundInOrder, [Next]_vars
  PROVE  SoundInOrder'
<1>0. chunks \in Seq(ChunkRecord) /\ Len(chunks) \in Nat
  BY DEF CInv, CaptureTypes
<1>1. CASE ~(ReadFrame /\ Enough(Grown))
  BY <1>1, ChunksStay DEF SoundInOrder
<1>2. CASE ReadFrame /\ Enough(Grown)
  <2>1. PICK c \in ChunkRecord :
          /\ chunks' = Append(chunks, c)
          /\ \A m \in 1..ChunkLen : \E k \in DOMAIN Grown :
               /\ k = 1 + ((m - 1) \div FrameLen)
               /\ c.sound[m] = Grown[k].from + ((m - 1) % FrameLen)
               /\ (m - 1) % FrameLen \in 0..(FrameLen - 1)
    BY <1>2, CutSound
  <2>2. /\ DOMAIN chunks = 1..Len(chunks)
        /\ DOMAIN chunks' = 1..(Len(chunks) + 1)
        /\ \A i \in DOMAIN chunks : chunks'[i] = chunks[i]
        /\ chunks'[Len(chunks) + 1] = c
    BY <1>0, <2>1, AppendFacts
  <2>3. \A n \in 1..ChunkLen :
          /\ \A m \in 1..ChunkLen : m < n => c.sound[m] < c.sound[n]
          /\ \A i \in DOMAIN chunks : \A m \in 1..ChunkLen :
               chunks[i].sound[m] < c.sound[n]
    BY <1>2, <2>1, NewSoundInOrder
  <2>4. ASSUME NEW i \in DOMAIN chunks', NEW j \in DOMAIN chunks',
               NEW m \in 1..ChunkLen, NEW n \in 1..ChunkLen,
               i < j \/ (i = j /\ m < n)
        PROVE  chunks'[i].sound[m] < chunks'[j].sound[n]
    <3>1. /\ i \in DOMAIN chunks \/ i = Len(chunks) + 1
          /\ j \in DOMAIN chunks \/ j = Len(chunks) + 1
      BY <1>0, <2>2
    <3>2. CASE j \in DOMAIN chunks
      <4>1. i \in DOMAIN chunks
        BY <1>0, <2>2, <2>4, <3>1, <3>2
      <4> QED BY <2>2, <2>4, <3>2, <4>1 DEF SoundInOrder
    <3>3. CASE j = Len(chunks) + 1
      <4>1. chunks'[j] = c
        BY <2>2, <3>3
      <4>2. CASE i \in DOMAIN chunks
        BY <2>2, <2>3, <4>1, <4>2
      <4>3. CASE i = Len(chunks) + 1
        <5>1. m < n /\ chunks'[i] = c
          BY <1>0, <2>2, <2>4, <3>3, <4>3
        <5> QED BY <2>3, <4>1, <5>1
      <4> QED BY <3>1, <4>2, <4>3
    <3> QED BY <3>1, <3>2, <3>3
  <2>5. refused' <= Len(chunks') * (FrameLen - 1)
    BY ShortStep DEF ShortWindow
  <2> QED BY <2>4, <2>5 DEF SoundInOrder
<1> QED BY <1>1, <1>2

\* Filtering a chunk.
LEMMA SpeechStep ==
  ASSUME CInv, SpeechIsAdmitted, [Next]_vars
  PROVE  SpeechIsAdmitted'
<1>0. /\ Hangover \in Nat /\ hangover \in Nat /\ CaptureTypes
      /\ chunks \in Seq(ChunkRecord) /\ Len(chunks) \in Nat
  BY CaptureAssumption DEF CInv, CaptureTypes
<1>1. CASE ~(ReadFrame /\ Enough(Grown))
  BY <1>1, ChunksStay DEF SpeechIsAdmitted
<1>2. CASE ReadFrame /\ Enough(Grown)
  <2>1. PICK c \in ChunkRecord :
          chunks' = Append(chunks, c) /\ c.verdict \in IsSpeech
    BY <1>2, CutSound
  <2>2. /\ DOMAIN chunks = 1..Len(chunks)
        /\ DOMAIN chunks' = 1..(Len(chunks) + 1)
        /\ \A i \in DOMAIN chunks : chunks'[i] = chunks[i]
        /\ chunks'[Len(chunks) + 1] = c
    BY <1>0, <2>1, AppendFacts
  <2>3. ASSUME NEW i \in DOMAIN chunks', ~chunks'[i].verdict.passed
        PROVE  /\ ~chunks'[i].verdict.voice
               /\ \A j \in 1..(i - 1) :
                    /\ chunks'[j].verdict.voice => i - j > Hangover
                    /\ chunks'[j].verdict.vad # "disabled"
    <3>1. i \in DOMAIN chunks \/ i = Len(chunks) + 1
      BY <1>0, <2>2
    <3>2. \A j \in 1..(i - 1) : j \in DOMAIN chunks
      BY <1>0, <2>2, <3>1
    <3>3. CASE i \in DOMAIN chunks
      <4>1. chunks'[i] = chunks[i] /\ \A j \in 1..(i - 1) : chunks'[j] = chunks[j]
        BY <2>2, <3>2, <3>3
      <4> QED BY <2>3, <3>3, <4>1 DEF SpeechIsAdmitted
    <3>4. CASE i = Len(chunks) + 1
      <4>1. chunks'[i] = c
        BY <2>2, <3>4
      <4>2. /\ ~c.verdict.voice /\ hangover = 0 /\ vad \in {"on", "unloaded"}
        BY <1>0, <2>1, <2>3, <4>1, VerdictFacts
      <4>3. ASSUME NEW j \in 1..(i - 1)
            PROVE  /\ chunks'[j].verdict.voice => i - j > Hangover
                   /\ chunks'[j].verdict.vad # "disabled"
        <5>1. j \in DOMAIN chunks /\ chunks'[j] = chunks[j] /\ j \in 1..Len(chunks)
          BY <2>2, <3>2
        <5>2. vad = "on"
          <6>1. chunks # <<>>
            BY <5>1
          <6> QED BY <4>2, <6>1 DEF CInv, HangoverHolds
        <5>3. chunks[j].verdict.vad # "disabled"
          BY <5>1, <5>2 DEF CInv, HangoverHolds
        <5>4. chunks[j].verdict.voice => hangover + (Len(chunks) - j) >= Hangover
          BY <5>1, <5>2 DEF CInv, HangoverHolds
        <5>5. ASSUME hangover + (Len(chunks) - j) >= Hangover
              PROVE  i - j > Hangover
          BY <1>0, <3>4, <4>2, <5>1, <5>5
        <5> QED BY <5>1, <5>3, <5>4, <5>5
      <4> QED BY <4>1, <4>2, <4>3
    <3> QED BY <3>1, <3>3, <3>4
  <2> QED BY <2>3 DEF SpeechIsAdmitted
<1> QED BY <1>1, <1>2

\* The queue holds no more than its size.
LEMMA QueueStep ==
  ASSUME CaptureTypes, Len(queue) <= QueueSize, [Next]_vars
  PROVE  Len(queue)' <= QueueSize
<1>0. queue \in Seq(Frame) /\ Len(queue) \in Nat /\ QueueSize \in Nat \ {0}
  BY CaptureAssumption DEF CaptureTypes
<1>1. CASE queue' = queue
  BY <1>1
<1>2. CASE queue # <<>> /\ queue' = Tail(queue)
  BY <1>0, <1>2
<1>3. CASE HasRoom /\ queue' = Append(queue, producer.frame)
  BY <1>0, <1>3 DEF HasRoom
<1>4. Put \/ Retry => \/ queue' = queue
                      \/ HasRoom /\ queue' = Append(queue, producer.frame)
  BY DEF Put, Retry
<1>5. queue' = queue \/ (queue # <<>> /\ queue' = Tail(queue))
        \/ (HasRoom /\ queue' = Append(queue, producer.frame))
  BY <1>4, AsideFacts, RecordFacts, LoseFacts, FailFacts, EvictFacts, ReadFacts
     DEF Next, Device, Producer, Reader, Aside
<1> QED BY <1>1, <1>2, <1>3, <1>5

-----------------------------------------------------------------------------
(* Theorems *)

\* CInv holds in every state.
THEOREM CaptureInvariant == Spec => []CInv
<1>1. Init => CInv
  BY CaptureInit
<1>2. CInv /\ [Next]_vars => CInv'
  BY CaptureStep
<1> QED BY <1>1, <1>2, PTL DEF Spec

\* The variables keep their types and put_latest_frame never makes the queue
\* longer than queue_size, whatever the reader does between its steps.
THEOREM CaptureTypeCorrect == Spec => []TypeOK
<1> DEFINE Bounded == Len(queue) <= QueueSize
<1>1. Init => Bounded
  <2>1. ASSUME Init PROVE Len(queue) = 0 /\ QueueSize \in Nat
    BY <2>1, CaptureAssumption DEF Init
  <2> QED BY <2>1
<1>2. CInv /\ Bounded /\ [Next]_vars => Bounded'
  BY QueueStep DEF CInv
<1>3. CInv /\ Bounded => TypeOK
  BY DEF CInv, CaptureTypes, TypeOK, VadStates
<1> HIDE DEF Bounded
<1> QED BY <1>1, <1>2, <1>3, CaptureInvariant, PTL DEF Spec

\* What the stream received and the reader does not see is counted as dropped,
\* but for one block that the report of a failed recorder may push out
\* (put_latest_frame against the reader).
THEOREM LostFramesAreCounted == Spec => []FrameLossIsCounted
<1>1. CInv => FrameLossIsCounted
  <2> SUFFICES ASSUME CInv PROVE FrameLossIsCounted
    OBVIOUS
  <2> DEFINE report == IF device = "failed" THEN FrameLen ELSE 0
  <2>1. received - read - Duration(queue) - InHand <= dropped + Evicted + Report
    BY DEF CInv, LossKnown
  <2>2. Report \in Nat /\ report \in Nat /\ Report <= report
    BY CaptureAssumption DEF Report
  <2>3. /\ received \in Nat /\ read \in Nat /\ dropped \in Nat
        /\ Duration(queue) \in Nat
    BY BlocksFacts DEF CInv, CaptureTypes
  <2>4. InHand \in Nat /\ Evicted \in Nat
    <3>1. producer # Idle =>
            producer.frame.len \in {0, FrameLen} /\ producer.lost \in {0, FrameLen}
      BY HandFacts DEF CInv, Busy
    <3>2. producer.at = "retry" => producer # Idle
      BY AtWork
    <3> QED BY <3>1, <3>2, CaptureAssumption DEF InHand, Evicted
  <2>5. received - read - Duration(queue) - InHand <= dropped + Evicted + report
    <3> HIDE DEF report
    <3> QED BY <2>1, <2>2, <2>3, <2>4
  <2> QED BY <2>5 DEF FrameLossIsCounted, InHand, Evicted
<1> QED BY <1>1, CaptureInvariant, PTL

\* A chunk's start is true to the time its sound was heard, by the lag of the
\* clock and no more, and the sound of the chunks is in the order it was heard
\* (AudioReader's windows, preprocess_frames).
THEOREM SoundStaysInPlace == Spec => []SoundKeepsItsPlace
<1>1. Init => ChunkKeepsItsPlace /\ SoundInOrder
  <2> SUFFICES ASSUME Init PROVE ChunkKeepsItsPlace /\ SoundInOrder
    OBVIOUS
  <2>1. chunks = <<>> /\ refused = 0
    BY DEF Init
  <2>2. DOMAIN chunks = {} /\ Len(chunks) = 0
    BY <2>1
  <2> QED BY <2>1, <2>2, CaptureAssumption DEF ChunkKeepsItsPlace, SoundInOrder
<1>2. CInv /\ (ChunkKeepsItsPlace /\ SoundInOrder) /\ [Next]_vars
        => (ChunkKeepsItsPlace /\ SoundInOrder)'
  BY PlaceStep, OrderStep
<1>3. ChunkKeepsItsPlace /\ SoundInOrder => SoundKeepsItsPlace
  BY DEF SoundKeepsItsPlace
<1> QED BY <1>1, <1>2, <1>3, CaptureInvariant, PTL DEF Spec

\* The filter holds back no voice, no chunk within a hangover of one, and
\* nothing once it has failed (is_speech).
THEOREM SpeechIsNotHeldBack == Spec => []SpeechIsAdmitted
<1>1. Init => SpeechIsAdmitted
  BY DEF Init, SpeechIsAdmitted
<1>2. CInv /\ SpeechIsAdmitted /\ [Next]_vars => SpeechIsAdmitted'
  BY SpeechStep
<1> QED BY <1>1, <1>2, CaptureInvariant, PTL DEF Spec

-----------------------------------------------------------------------------
(* UpstreamClient: process_segments, a fold over the segments of a message *)

\* Counting up: the least number that is not in G would follow one that is.
LEMMA UpTo ==
  ASSUME NEW m \in Nat, NEW G, 0 \in G,
         \A k \in 0..(m - 1) : k \in G => k + 1 \in G
  PROVE  \A k \in 0..m : k \in G
<1> DEFINE Less == {ss \in Nat \X Nat : ss[1] < ss[2]}
           Bad == {k \in 0..m : k \notin G}
<1>1. IsWellFoundedOn(Less, Nat)
  <2>1. IsWellFoundedOn({ss \in Nat \X Nat : ss[1] < ss[2]}, Nat)
    BY NatLessThanWellFounded, Zenon DEF OpToRel
  <2> QED BY <2>1
<1>2. \A j, k \in Nat : <<j, k>> \in Less <=> j < k
  OBVIOUS
<1>3. Bad \subseteq Nat
  OBVIOUS
<1> SUFFICES ASSUME Bad # {} PROVE FALSE
  OBVIOUS
<1>4. PICK k \in Bad : \A j \in Bad : ~(<<j, k>> \in Less)
  <2> HIDE DEF Less, Bad
  <2> QED BY <1>1, <1>3, WFMin
<1> HIDE DEF Less
<1>5. k \in 0..m /\ k \notin G /\ k # 0 /\ k - 1 \in 0..(m - 1)
  OBVIOUS
<1>6. k - 1 \notin Bad
  <2>1. k - 1 \in Nat /\ k \in Nat /\ k - 1 < k
    BY <1>5
  <2> QED BY <1>2, <1>4, <2>1
<1>7. k - 1 \in G
  BY <1>5, <1>6
<1>8. (k - 1) + 1 \in G /\ (k - 1) + 1 = k
  BY <1>5, <1>7
<1> QED BY <1>5, <1>8

LEMMA MaxIs ==
  ASSUME NEW m \in Nat, NEW T \in SUBSET (1..m), T # {}
  PROVE  Max(T) \in T /\ \A x \in T : x <= Max(T)
<1> DEFINE G == {k \in 0..m : \A S \in SUBSET (1..k) :
                   S # {} => \E x \in S : \A y \in S : x >= y}
<1>1. 0 \in G
  <2>1. 1..0 = {} /\ 0 \in 0..m
    OBVIOUS
  <2> QED BY <2>1
<1>2. \A k \in 0..(m - 1) : k \in G => k + 1 \in G
  <2> SUFFICES ASSUME NEW k \in 0..(m - 1), k \in G,
                      NEW S \in SUBSET (1..(k + 1)), S # {}
               PROVE  \E x \in S : \A y \in S : x >= y
    OBVIOUS
  <2>1. CASE k + 1 \in S
    BY <2>1
  <2>2. CASE k + 1 \notin S
    <3>1. S \in SUBSET (1..k)
      BY <2>2
    <3> QED BY <3>1
  <2> QED BY <2>1, <2>2
<1>3. m \in G
  <2> HIDE DEF G
  <2> QED BY <1>1, <1>2, UpTo
<1>4. \E x \in T : \A y \in T : x >= y
  BY <1>3
<1> QED BY <1>4 DEF Max

\* What is shown for a segment, and cues that follow each other in time.
Cue == [start : Nat, end : Nat, text : Texts]
Follow(t) ==
  /\ t \in Seq(Cue)
  /\ \A i \in 1..Len(t) : t[i].start <= t[i].end
  /\ \A i, j \in 1..Len(t) : i < j => t[i].end <= t[j].start

\* The segment is a cue, or a cue reaches into its time.
Shown(s, t) ==
  s \in ToSet(t) \/ \E x \in ToSet(t) : x.end > s.start

\* What process_segments does with the segment at place i of a message.
TakeOne(msg, u, i) ==
  IF i \in Taken(msg) /\ IsNew(msg[i], u) THEN Append(u, msg[i]) ELSE u

\* One segment leaves the cues in order and loses none of them.
LEMMA TakeOneFacts ==
  ASSUME NEW msg, NEW u, Follow(u), NEW i, msg[i] \in Cue,
         msg[i].start <= msg[i].end
  PROVE  LET w == TakeOne(msg, u, i) IN
         /\ Follow(w) /\ ToSet(u) \subseteq ToSet(w)
         /\ i \in Distinct(msg) => Shown(msg[i], w)
<1> DEFINE w == TakeOne(msg, u, i)
           n == Len(u)
           s == msg[i]
<1>1. /\ u \in Seq(Cue) /\ n \in Nat /\ DOMAIN u = 1..n
      /\ \A k \in 1..n : u[k] \in Cue
      /\ s \in Cue /\ s.start \in Nat /\ s.end \in Nat
  <2>1. u \in Seq(Cue) /\ s \in Cue
    BY DEF Follow
  <2>2. s.start \in Nat /\ s.end \in Nat
    BY DEF Cue
  <2> QED BY <2>1, <2>2
<1>2. \A k \in 1..n : u[k].start \in Nat /\ u[k].end \in Nat
  BY <1>1 DEF Cue
<1>3. /\ \A k \in 1..n : u[k].start <= u[k].end
      /\ \A k, l \in 1..n : k < l => u[k].end <= u[l].start
  BY DEF Follow
<1>4. CASE ~(i \in Taken(msg) /\ IsNew(s, u))
  <2>1. w = u
    BY <1>4 DEF TakeOne
  <2>2. ASSUME ~IsNew(s, u) PROVE Shown(s, u)
    <3>1. u # <<>> /\ ~(s.start >= Last(u).end)
      BY <2>2 DEF IsNew
    <3>2. n \in 1..n
      BY <1>1, <3>1
    <3>3. Last(u) = u[n] /\ u[n] \in ToSet(u)
      BY <1>1, <3>2 DEF Last, ToSet
    <3>4. u[n].end > s.start
      BY <1>1, <1>2, <3>1, <3>2, <3>3
    <3> QED BY <3>3, <3>4 DEF Shown
  <2> QED BY <1>4, <2>1, <2>2 DEF Taken
<1>5. CASE i \in Taken(msg) /\ IsNew(s, u)
  <2>1. w = Append(u, s)
    BY <1>5 DEF TakeOne
  <2>2. /\ Append(u, s) \in Seq(Cue) /\ Len(Append(u, s)) = n + 1
        /\ \A k \in 1..n : Append(u, s)[k] = u[k]
        /\ Append(u, s)[n + 1] = s
    BY <1>1
  <2>3. /\ w \in Seq(Cue) /\ Len(w) = n + 1 /\ DOMAIN w = 1..(n + 1)
        /\ \A k \in 1..n : w[k] = u[k]
        /\ w[n + 1] = s
    BY <2>1, <2>2
  <2>4. \A k \in 1..n : u[k].end <= s.start
    <3> SUFFICES ASSUME NEW k \in 1..n PROVE u[k].end <= s.start
      OBVIOUS
    <3>1. n \in 1..n /\ u # <<>>
      BY <1>1
    <3>2. u[n].end <= s.start
      BY <1>1, <1>2, <1>5, <3>1 DEF IsNew, Last
    <3>3. CASE k = n
      BY <3>2, <3>3
    <3>4. CASE k < n
      <4>1. u[k].end <= u[n].start /\ u[n].start <= u[n].end
        BY <1>3, <3>1, <3>4
      <4>2. /\ u[k].end \in Nat /\ u[n].start \in Nat /\ u[n].end \in Nat
            /\ s.start \in Nat
        BY <1>1, <1>2, <3>1
      <4> QED BY <3>2, <4>1, <4>2
    <3>5. k \in Nat /\ k <= n
      BY <1>1
    <3> HIDE DEF n
    <3> QED BY <1>1, <3>3, <3>4, <3>5
  <2> HIDE DEF w, n, s
  <2>5. \A k \in 1..(n + 1) : k \in 1..n \/ k = n + 1
    BY <1>1
  <2>6. \A k, l \in 1..(n + 1) : k < l => k \in 1..n
    BY <1>1
  <2>7. msg[i].start = s.start /\ msg[i].end = s.end /\ s.start <= s.end
    BY DEF s
  <2>8. \A k \in 1..(n + 1) : w[k].start <= w[k].end
    BY <1>3, <2>3, <2>5, <2>7
  <2>9. \A k, l \in 1..(n + 1) : k < l => w[k].end <= w[l].start
    BY <1>3, <2>3, <2>4, <2>5, <2>6
  <2>10. Follow(w)
    BY <2>3, <2>8, <2>9 DEF Follow
  <2>11. \A x \in ToSet(u) : x \in ToSet(w)
    <3>1. \A k \in 1..n : k \in 1..(n + 1)
      BY <1>1
    <3> QED BY <1>1, <2>3, <3>1 DEF ToSet
  <2>12. s \in ToSet(w)
    <3>1. n + 1 \in 1..(n + 1)
      BY <1>1
    <3> QED BY <2>3, <3>1 DEF ToSet
  <2>13. Shown(s, w)
    BY <2>12 DEF Shown
  <2> QED BY <2>7, <2>10, <2>11, <2>13 DEF w, s
<1> QED BY <1>4, <1>5

-----------------------------------------------------------------------------
\* A fold over the numbers up to m of what process_segments does.
Folds(f, t, msg, m) ==
  f = [T \in SUBSET (1..m) |->
         IF T = {} THEN t ELSE TakeOne(msg, f[T \ {Max(T)}], Max(T))]

LEMMA FoldExists ==
  ASSUME NEW m \in Nat, NEW t, NEW msg
  PROVE  \E f : Folds(f, t, msg, m)
<1> DEFINE G == {k \in 0..m : \E f : Folds(f, t, msg, k)}
<1>1. 0 \in G
  <2>1. Folds([T \in SUBSET (1..0) |-> t], t, msg, 0)
    BY DEF Folds
  <2> QED BY <2>1
<1>2. ASSUME NEW k \in 0..(m - 1), k \in G PROVE k + 1 \in G
  <2>1. PICK f : Folds(f, t, msg, k)
    BY <1>2
  <2> DEFINE g == [T \in SUBSET (1..(k + 1)) |->
                     IF k + 1 \in T THEN TakeOne(msg, f[T \ {k + 1}], k + 1)
                     ELSE f[T]]
  <2>2. ASSUME NEW T \in SUBSET (1..(k + 1))
        PROVE  g[T] = IF T = {} THEN t
                      ELSE TakeOne(msg, g[T \ {Max(T)}], Max(T))
    <3>1. CASE k + 1 \in T
      <4>1. Max(T) = k + 1
        <5>1. k + 1 \in Nat /\ Max(T) \in T /\ k + 1 <= Max(T)
          BY <3>1, MaxIs
        <5>2. \A x \in T : x \in Nat /\ x <= k + 1
          OBVIOUS
        <5>3. Max(T) \in Nat /\ Max(T) <= k + 1
          BY <5>1, <5>2
        <5> QED BY <5>1, <5>3
      <4>2. T \ {k + 1} \in SUBSET (1..(k + 1)) /\ k + 1 \notin T \ {k + 1}
        OBVIOUS
      <4>3. g[T \ {k + 1}] = f[T \ {k + 1}]
        BY <4>2
      <4>4. g[T] = TakeOne(msg, f[T \ {k + 1}], k + 1)
        BY <3>1
      <4> QED BY <3>1, <4>1, <4>3, <4>4
    <3>2. CASE k + 1 \notin T
      <4>1. T \in SUBSET (1..k) /\ g[T] = f[T]
        BY <3>2
      <4>2. f[T] = IF T = {} THEN t
                   ELSE TakeOne(msg, f[T \ {Max(T)}], Max(T))
        BY <2>1, <4>1 DEF Folds
      <4>3. /\ T \ {Max(T)} \in SUBSET (1..(k + 1))
            /\ k + 1 \notin T \ {Max(T)}
        BY <3>2
      <4>4. g[T \ {Max(T)}] = f[T \ {Max(T)}]
        BY <4>3
      <4> QED BY <4>1, <4>2, <4>4
    <3> QED BY <3>1, <3>2
  <2>3. g = [T \in SUBSET (1..(k + 1)) |->
               IF T = {} THEN t ELSE TakeOne(msg, g[T \ {Max(T)}], Max(T))]
    BY <2>2
  <2> HIDE DEF g
  <2>4. Folds(g, t, msg, k + 1)
    BY <2>3, Zenon DEF Folds
  <2>5. k + 1 \in 0..m
    OBVIOUS
  <2> QED BY <2>4, <2>5
<1>3. m \in G
  <2> HIDE DEF G
  <2> QED BY <1>1, <1>2, UpTo
<1> QED BY <1>3

\* Process, step by step.
LEMMA ProcessSteps ==
  ASSUME NEW m \in Nat, NEW t, NEW msg, DOMAIN msg = 1..m
  PROVE  \E u : /\ u[0] = t
                /\ \A k \in 1..m : u[k] = TakeOne(msg, u[k - 1], k)
                /\ Process(t, msg) = u[m]
<1> DEFINE f == CHOOSE g : Folds(g, t, msg, m)
           seq == [i \in DOMAIN msg |-> i]
           P(g) == g = [T \in SUBSET (DOMAIN seq) |->
                      IF T = {} THEN t
                      ELSE TakeOne(msg, g[T \ {Max(T)}], seq[Max(T)])]
<1>1. Folds(f, t, msg, m)
  BY FoldExists
<1>2. Process(t, msg) = (CHOOSE g : P(g))[DOMAIN seq]
  BY Zenon DEF Process, FoldLeft, MapThenFoldSet, TakeOne
<1>3. ASSUME NEW g PROVE P(g) <=> Folds(g, t, msg, m)
  <2>1. DOMAIN seq = 1..m
    OBVIOUS
  <2>2. \A T \in SUBSET (1..m) : T # {} => seq[Max(T)] = Max(T)
    BY MaxIs
  <2>3. [T \in SUBSET (DOMAIN seq) |->
                      IF T = {} THEN t
                      ELSE TakeOne(msg, g[T \ {Max(T)}], seq[Max(T)])]
        = [T \in SUBSET (1..m) |->
             IF T = {} THEN t ELSE TakeOne(msg, g[T \ {Max(T)}], Max(T))]
    <3> HIDE DEF seq
    <3> QED BY <2>1, <2>2
  <2> QED BY <2>3 DEF Folds
<1>4. Process(t, msg) = f[1..m]
  <2>1. (CHOOSE g : P(g)) = f
    <3> HIDE DEF P
    <3> QED BY <1>3
  <2>2. DOMAIN seq = 1..m
    OBVIOUS
  <2> QED BY <1>2, <2>1, <2>2
<1> HIDE DEF f
<1> DEFINE u == [k \in 0..m |-> f[1..k]]
<1>5. u[0] = t
  <2>1. 1..0 = {} /\ {} \in SUBSET (1..m)
    OBVIOUS
  <2>2. f[{}] = t
    BY <1>1, <2>1 DEF Folds
  <2> QED BY <2>1, <2>2
<1>6. ASSUME NEW k \in 1..m PROVE u[k] = TakeOne(msg, u[k - 1], k)
  <2>1. 1..k \in SUBSET (1..m) /\ 1..k # {} /\ k \in 1..k /\ k \in Nat
    OBVIOUS
  <2>2. Max(1..k) = k
    <3>1. Max(1..k) \in 1..k /\ k <= Max(1..k)
      BY <2>1, MaxIs
    <3> QED BY <3>1
  <2>3. (1..k) \ {k} = 1..(k - 1)
    OBVIOUS
  <2>4. f[1..k] = TakeOne(msg, f[1..(k - 1)], k)
    BY <1>1, <2>1, <2>2, <2>3 DEF Folds
  <2> QED BY <2>4
<1>7. u[m] = f[1..m]
  OBVIOUS
<1> QED BY <1>4, <1>5, <1>6, <1>7

\* What a message makes of the cues.
LEMMA MessageFacts ==
  ASSUME NEW msg \in SeqOf(Spoken, 2), NEW t, Follow(t)
  PROVE  LET w == Process(t, msg) IN
         /\ Follow(w) /\ ToSet(t) \subseteq ToSet(w)
         /\ \A i \in Distinct(msg) : Shown(msg[i], w)
<1> DEFINE w == Process(t, msg)
<1>1. PICK m \in 0..2 : msg \in [1..m -> Spoken]
  BY DEF SeqOf
<1>2. m \in Nat /\ DOMAIN msg = 1..m
  BY <1>1
<1>3. \A i \in 1..m : msg[i] \in Cue /\ msg[i].start <= msg[i].end
  <2>1. \A p \in Spans : p[1] \in Nat /\ p[2] \in Nat /\ p[1] <= p[2]
    BY UpstreamAssumption
  <2>2. \A p \in Spans, x \in Texts :
          Segment(p, x) \in Cue /\ Segment(p, x).start <= Segment(p, x).end
    BY <2>1 DEF Segment, Cue
  <2>3. \A s \in Spoken : s \in Cue /\ s.start <= s.end
    BY <2>2 DEF Spoken
  <2> QED BY <1>1, <2>3
<1>4. PICK u : /\ u[0] = t
               /\ \A k \in 1..m : u[k] = TakeOne(msg, u[k - 1], k)
               /\ w = u[m]
  <2>1. \E u : /\ u[0] = t
               /\ \A k \in 1..m : u[k] = TakeOne(msg, u[k - 1], k)
               /\ Process(t, msg) = u[m]
    BY <1>2, ProcessSteps
  <2> QED BY <2>1, Zenon
<1> DEFINE Good(k) == /\ Follow(u[k]) /\ ToSet(t) \subseteq ToSet(u[k])
                      /\ \A i \in 1..k : i \in Distinct(msg) => Shown(msg[i], u[k])
           G == {k \in 0..m : Good(k)}
<1>5. 0 \in G
  <2>1. 0 \in 0..m /\ 1..0 = {}
    BY <1>2
  <2> QED BY <1>4, <2>1
<1>6. ASSUME NEW k \in 0..(m - 1), k \in G PROVE k + 1 \in G
  <2> DEFINE v == u[k]
             x == u[k + 1]
  <2>1. k \in Nat /\ k + 1 \in 1..m /\ k + 1 \in 0..m /\ (k + 1) - 1 = k
    BY <1>2
  <2>2. x = TakeOne(msg, v, k + 1)
    BY <1>4, <2>1
  <2>3. Good(k)
    BY <1>6
  <2>4. /\ Follow(x) /\ ToSet(v) \subseteq ToSet(x)
        /\ k + 1 \in Distinct(msg) => Shown(msg[k + 1], x)
    BY <1>3, <2>1, <2>2, <2>3, TakeOneFacts
  <2>5. ToSet(t) \subseteq ToSet(x)
    BY <2>3, <2>4
  <2>6. ASSUME NEW i \in 1..(k + 1), i \in Distinct(msg) PROVE Shown(msg[i], x)
    <3>1. i \in 1..k \/ i = k + 1
      BY <2>1
    <3>2. CASE i \in 1..k
      <4>1. Shown(msg[i], v)
        BY <2>3, <2>6, <3>2
      <4> QED BY <2>4, <4>1 DEF Shown
    <3> QED BY <2>4, <2>6, <3>1, <3>2
  <2>7. Good(k + 1)
    BY <2>4, <2>5, <2>6
  <2> HIDE DEF Good
  <2> QED BY <2>1, <2>7
<1>7. m \in G
  <2> HIDE DEF G
  <2> QED BY <1>2, <1>5, <1>6, UpTo
<1>8. Good(m)
  BY <1>7
<1>9. Distinct(msg) \subseteq 1..m
  BY <1>2 DEF Distinct
<1> QED BY <1>4, <1>8, <1>9

-----------------------------------------------------------------------------
(* The cues of each client: until the subtitles are written they are in      *)
(* order, and each segment that was brought is one of them or begins before  *)
(* the end of one.                                                           *)

TextOf(c) ==
  Follow(transcript[c]) /\ \A s \in got[c] : Shown(s, transcript[c])

TextInv ==
  /\ transcript = [c \in C |-> transcript[c]]
  /\ got = [c \in C |-> got[c]]
  /\ Unwritten => \A c \in C : TextOf(c)

LEMMA TextInit == TeeInit => TextInv
<1> SUFFICES ASSUME TeeInit PROVE TextInv
  OBVIOUS
<1>1. \A c \in C : TextOf(c)
  BY DEF TeeInit, TextOf, Follow
<1> QED BY <1>1 DEF TeeInit, TextInv

\* A step that takes no message and writes no subtitles.
LEMMA TextKept ==
  ASSUME TextInv, UNCHANGED <<transcript, got>>, Unwritten' => Unwritten
  PROVE  TextInv'
BY DEF TextInv, TextOf

LEMMA SegmentsKeep ==
  ASSUME TextInv, NEW c \in C, Segments(c) PROVE TextInv'
<1>1. PICK msg \in SeqOf(Spoken, 2) :
        /\ transcript' = [transcript EXCEPT ![c] = Process(@, msg)]
        /\ got' = [got EXCEPT ![c] = @ \cup {msg[i] : i \in Distinct(msg)}]
  BY DEF Segments
<1> DEFINE w == Process(transcript[c], msg)
           heard == {msg[i] : i \in Distinct(msg)}
<1>2. /\ transcript'[c] = w /\ got'[c] = got[c] \cup heard
      /\ \A d \in C : d # c => /\ transcript'[d] = transcript[d]
                             /\ got'[d] = got[d]
  BY <1>1 DEF TextInv
<1>3. ASSUME TextOf(c) PROVE TextOf(c)'
  <2>1. /\ Follow(w) /\ ToSet(transcript[c]) \subseteq ToSet(w)
        /\ \A i \in Distinct(msg) : Shown(msg[i], w)
    BY <1>3, MessageFacts DEF TextOf
  <2>2. \A s \in heard : Shown(s, w)
    BY <2>1
  <2> HIDE DEF w, heard
  <2>3. \A s \in got[c] : Shown(s, w)
    BY <1>3, <2>1 DEF TextOf, Shown
  <2> QED BY <1>2, <2>1, <2>2, <2>3 DEF TextOf
<1>4. ASSUME NEW d \in C, d # c, TextOf(d) PROVE TextOf(d)'
  BY <1>2, <1>4 DEF TextOf
<1>5. Unwritten' => \A d \in C : TextOf(d)'
  <2>1. Unwritten' <=> Unwritten
    BY DEF Segments, mainVars, Unwritten
  <2> QED BY <1>3, <1>4, <2>1 DEF TextInv
<1>6. transcript' = [d \in C |-> transcript'[d]] /\ got' = [d \in C |-> got'[d]]
  <2>1. \A f, x : f = [d \in C |-> f[d]] =>
                 [f EXCEPT ![c] = x] = [d \in C |-> [f EXCEPT ![c] = x][d]]
    OBVIOUS
  <2>2. \E x : transcript' = [transcript EXCEPT ![c] = x]
    BY <1>1
  <2>3. \E x : got' = [got EXCEPT ![c] = x]
    BY <1>1
  <2> QED BY <2>1, <2>2, <2>3 DEF TextInv
<1> QED BY <1>5, <1>6 DEF TextInv

LEMMA TextStep == TextInv /\ [TeeNext]_teeVars => TextInv'
<1> SUFFICES ASSUME TextInv, [TeeNext]_teeVars PROVE TextInv'
  OBVIOUS
<1>1. ASSUME NEW c \in C, Callbacks(c) PROVE TextInv'
  <2>1. CASE Segments(c)
    BY <2>1, SegmentsKeep
  <2>2. CASE Opens(c) \/ Fails(c) \/ ServerCloses(c) \/ Ready(c) \/ Refused(c)
             \/ Overtime(c)
    <3>1. UNCHANGED <<transcript, got>> /\ UNCHANGED pc
      BY <2>2 DEF Opens, Fails, ServerCloses, Ready, Refused, Overtime, textVars,
                  mainVars
    <3> QED BY <3>1, TextKept DEF Unwritten
  <2> QED BY <1>1, <2>1, <2>2 DEF Callbacks
<1>2. ASSUME NEW c \in C, Thread(c) PROVE TextInv'
  <2>1. UNCHANGED <<transcript, got>> /\ UNCHANGED pc
    BY <1>2 DEF Thread, OnClose, Reconnect, textVars, mainVars
  <2> QED BY <2>1, TextKept DEF Unwritten
<1>3. CASE Await \/ Stream \/ StreamEnds \/ Drain \/ Join \/ Interrupt \/ Combine
           \/ SaveChunk \/ PickThread
  <2>1. UNCHANGED <<transcript, got>>
    BY <1>3 DEF Await, Stream, StreamEnds, Drain, Join, Interrupt, Combine, SaveChunk,
                PickThread, textVars
  <2>2. Unwritten' => Unwritten
    BY <1>3 DEF Await, Stream, StreamEnds, Drain, Join, Interrupt, Combine,
                SaveChunk, PickThread, GoTo, AfterClose, Unwritten, mainVars
  <2> QED BY <2>1, <2>2, TextKept
<1>4. CASE ReadBlock \/ KeepBlock \/ StartWriter \/ CountFile \/ ForgetFrames
  <2>1. UNCHANGED <<transcript, got>>
    BY <1>4 DEF ReadBlock, KeepBlock, StartWriter, CountFile, ForgetFrames, textVars
  <2>2. Unwritten
    BY <1>4 DEF ReadBlock, KeepBlock, StartWriter, CountFile, ForgetFrames,
                RecordStep, Unwritten
  <2> QED BY <2>1, <2>2, TextKept
<1>5. CASE WriteAll
  <2>1. ~Unwritten'
    BY <1>5 DEF WriteAll, GoTo, Unwritten
  <2>2. got' = got /\ transcript' = [c \in C |-> transcript'[c]]
    BY <1>5 DEF WriteAll
  <2> QED BY <2>1, <2>2 DEF TextInv
<1>6. CASE Close
  <2>1. UNCHANGED <<transcript, got>> /\ (Unwritten' => Unwritten)
    BY <1>6 DEF Close, textVars, Unwritten
  <2> QED BY <2>1, TextKept
<1>7. CASE UNCHANGED teeVars
  BY <1>7, TextKept DEF teeVars, textVars, mainVars, Unwritten
<1> QED BY <1>1, <1>2, <1>3, <1>4, <1>5, <1>6, <1>7 DEF TeeNext, Main

LEMMA InvText == TeeSpec => []TextInv
BY TextInit, TextStep, PTL DEF TeeSpec

(* Until the subtitles are written, the cues of a client follow each other   *)
(* in time, whatever the times of the segments and over connections that     *)
(* each count from 0, and a completed segment that is not the echo of its    *)
(* neighbour is lacking only if a cue reaches into its time                  *)
(* (process_segments).                                                       *)
THEOREM SubtitlesStayWhole == TeeSpec => []SubtitlesAreWhole
<1>1. ASSUME TextInv PROVE SubtitlesAreWhole
  <2>1. \A t : Follow(t) => DOMAIN t = 1..Len(t)
    BY DEF Follow
  <2>2. CuesInOrder
    BY <1>1, <2>1 DEF TextInv, TextOf, CuesInOrder, Follow
  <2>3. CompletedIsKept
    BY <1>1 DEF TextInv, TextOf, CompletedIsKept, Shown
  <2> QED BY <2>2, <2>3 DEF SubtitlesAreWhole
<1> QED BY <1>1, InvText, PTL

-----------------------------------------------------------------------------
(* The recording: the files, those that still are to be written and the      *)
(* blocks in hand follow each other from the first block to the last.        *)

\* The blocks after the l-th up to the h-th.
Run(l, h) == [i \in 1..(h - l) |-> l + i]

LEMMA RunFacts ==
  ASSUME NEW l \in Nat, NEW h \in Nat, l <= h
  PROVE  /\ Run(l, h) \in Seq(Nat) /\ Len(Run(l, h)) = h - l
         /\ DOMAIN Run(l, h) = 1..(h - l)
         /\ Append(Run(l, h), h + 1) = Run(l, h + 1)
         /\ Run(0, l) \o Run(l, h) = Run(0, h)
         /\ Run(l, h) = <<>> => l = h
<1>1. \A k, m \in Nat : k <= m =>
        /\ Run(k, m) \in Seq(Nat) /\ Len(Run(k, m)) = m - k
        /\ \A i \in 1..(m - k) : Run(k, m)[i] = k + i
  <2> SUFFICES ASSUME NEW k \in Nat, NEW m \in Nat, k <= m
               PROVE  /\ Run(k, m) \in Seq(Nat) /\ Len(Run(k, m)) = m - k
                      /\ \A i \in 1..(m - k) : Run(k, m)[i] = k + i
    OBVIOUS
  <2>1. m - k \in Nat
    OBVIOUS
  <2> QED BY <2>1 DEF Run
<1>2. Append(Run(l, h), h + 1) = Run(l, h + 1)
  <2>1. /\ Append(Run(l, h), h + 1) \in Seq(Nat)
        /\ Len(Append(Run(l, h), h + 1)) = h - l + 1
        /\ \A i \in 1..(h - l) : Append(Run(l, h), h + 1)[i] = Run(l, h)[i]
        /\ Append(Run(l, h), h + 1)[h - l + 1] = h + 1
    <3> DEFINE a == Run(l, h)
               d == h - l
    <3>1. a \in Seq(Nat) /\ Len(a) = d /\ d \in Nat /\ h + 1 \in Nat
      BY <1>1
    <3> HIDE DEF a, d
    <3>2. /\ Append(a, h + 1) \in Seq(Nat) /\ Len(Append(a, h + 1)) = d + 1
          /\ \A i \in 1..d : Append(a, h + 1)[i] = a[i]
          /\ Append(a, h + 1)[d + 1] = h + 1
      BY <3>1
    <3> QED BY <3>2 DEF a, d
  <2>2. /\ Run(l, h + 1) \in Seq(Nat) /\ Len(Run(l, h + 1)) = h - l + 1
        /\ \A i \in 1..(h - l + 1) : Run(l, h + 1)[i] = l + i
    BY <1>1
  <2>3. \A i \in 1..(h - l + 1) : Append(Run(l, h), h + 1)[i] = Run(l, h + 1)[i]
    <3> SUFFICES ASSUME NEW i \in 1..(h - l + 1)
                 PROVE  Append(Run(l, h), h + 1)[i] = Run(l, h + 1)[i]
      OBVIOUS
    <3>1. CASE i \in 1..(h - l)
      BY <1>1, <2>1, <2>2, <3>1
    <3>2. CASE i = h - l + 1
      BY <2>1, <2>2, <3>2
    <3>3. i \in 1..(h - l) \/ i = h - l + 1
      OBVIOUS
    <3> QED BY <3>1, <3>2, <3>3
  <2> QED BY <2>1, <2>2, <2>3, SeqEqual
<1>3. Run(0, l) \o Run(l, h) = Run(0, h)
  <2> DEFINE a == Run(0, l)
             c == Run(l, h)
  <2>1. /\ a \in Seq(Nat) /\ Len(a) = l /\ \A i \in 1..l : a[i] = i
        /\ c \in Seq(Nat) /\ Len(c) = h - l /\ \A i \in 1..(h - l) : c[i] = l + i
    <3>1. 0 <= l /\ l - 0 = l /\ \A i \in 1..l : 0 + i = i
      OBVIOUS
    <3>2. /\ a \in Seq(Nat) /\ Len(a) = l - 0
          /\ \A i \in 1..(l - 0) : a[i] = 0 + i
      BY <1>1, <3>1
    <3>3. /\ c \in Seq(Nat) /\ Len(c) = h - l
          /\ \A i \in 1..(h - l) : c[i] = l + i
      BY <1>1
    <3> HIDE DEF a, c
    <3> QED BY <3>1, <3>2, <3>3
  <2>2. /\ Run(0, h) \in Seq(Nat) /\ Len(Run(0, h)) = h
        /\ \A i \in 1..h : Run(0, h)[i] = i
    <3>1. 0 <= h /\ h - 0 = h /\ \A i \in 1..h : 0 + i = i
      OBVIOUS
    <3>2. /\ Run(0, h) \in Seq(Nat) /\ Len(Run(0, h)) = h - 0
          /\ \A i \in 1..(h - 0) : Run(0, h)[i] = 0 + i
      BY <1>1, <3>1
    <3> QED BY <3>1, <3>2
  <2> HIDE DEF a, c
  <2>3. /\ a \o c \in Seq(Nat) /\ Len(a \o c) = h
        /\ \A i \in 1..l : (a \o c)[i] = a[i]
        /\ \A i \in (l + 1)..h : (a \o c)[i] = c[i - l]
    BY <2>1
  <2>4. \A i \in 1..h : (a \o c)[i] = i
    <3> SUFFICES ASSUME NEW i \in 1..h PROVE (a \o c)[i] = i
      OBVIOUS
    <3>1. CASE i \in 1..l
      BY <2>1, <2>3, <3>1
    <3>2. CASE i \in (l + 1)..h
      <4>1. i - l \in 1..(h - l) /\ l + (i - l) = i
        BY <3>2
      <4> QED BY <2>1, <2>3, <3>2, <4>1
    <3>3. i \in 1..l \/ i \in (l + 1)..h
      OBVIOUS
    <3> QED BY <3>1, <3>2, <3>3
  <2>5. a \o c = Run(0, h)
    BY <2>2, <2>3, <2>4, SeqEqual
  <2> QED BY <2>5 DEF a, c
<1>4. DOMAIN Run(l, h) = 1..(h - l)
  BY DEF Run
<1>5. Run(l, h) = <<>> => l = h
  <2>1. Len(Run(l, h)) = h - l
    BY <1>1
  <2> QED BY <2>1
<1> QED BY <1>1, <1>2, <1>3, <1>4, <1>5

\* Putting consecutive runs together.
LEMMA FlattenIs ==
  ASSUME NEW n \in Nat, NEW b \in [0..n -> Nat], b[0] = 0,
         \A k \in 0..(n - 1) : b[k] <= b[k + 1],
         NEW seqs, seqs = [k \in 1..n |-> Run(b[k - 1], b[k])]
  PROVE  FlattenSeq(seqs) = Run(0, b[n])
<1> DEFINE IsFlat(f) == f = [i \in 1..Len(seqs) |-> IF i = 1 THEN seqs[i]
                                                ELSE f[i - 1] \o seqs[i]]
           g == [k \in 1..n |-> Run(0, b[k])]
           f == CHOOSE f : IsFlat(f)
<1>1. Len(seqs) = n /\ \A k \in 1..n : seqs[k] = Run(b[k - 1], b[k])
  OBVIOUS
<1>2. CASE n = 0
  <2>1. seqs = <<>> /\ Run(0, 0) = <<>>
    BY <1>2 DEF Run
  <2>2. FlattenSeq(seqs) = seqs
    BY <1>1, <1>2 DEF FlattenSeq
  <2> QED BY <1>2, <2>1, <2>2
<1>3. CASE n # 0
  <2>1. \A k \in 1..n : /\ k - 1 \in 0..n /\ k \in 0..n /\ k - 1 \in 0..(n - 1)
                        /\ (k - 1) + 1 = k
    OBVIOUS
  <2>2. \A k \in 1..n : /\ b[k - 1] \in Nat /\ b[k] \in Nat /\ b[k - 1] <= b[k]
                        /\ Run(0, b[k - 1]) \o Run(b[k - 1], b[k]) = Run(0, b[k])
    <3> SUFFICES ASSUME NEW k \in 1..n
                 PROVE  /\ b[k - 1] \in Nat /\ b[k] \in Nat /\ b[k - 1] <= b[k]
                        /\ Run(0, b[k - 1]) \o Run(b[k - 1], b[k]) = Run(0, b[k])
      OBVIOUS
    <3>1. b[k - 1] \in Nat /\ b[k] \in Nat
      BY <2>1
    <3>2. b[k - 1] <= b[k]
      BY <2>1
    <3> QED BY <3>1, <3>2, RunFacts
  <2>3. IsFlat(g)
    <3>1. ASSUME NEW i \in 1..n
          PROVE  g[i] = IF i = 1 THEN seqs[i] ELSE g[i - 1] \o seqs[i]
      <4>1. CASE i = 1
        <5>1. g[i] = Run(0, b[1]) /\ seqs[i] = Run(b[0], b[1])
          BY <1>1, <4>1
        <5> QED BY <4>1, <5>1
      <4>2. CASE i # 1
        <5>1. i - 1 \in 1..n
          BY <4>2
        <5>2. g[i - 1] = Run(0, b[i - 1]) /\ g[i] = Run(0, b[i])
          BY <5>1
        <5> HIDE DEF g
        <5> QED BY <1>1, <2>2, <4>2, <5>2
      <4> QED BY <4>1, <4>2
    <3> QED BY <1>1, <3>1
  <2> HIDE DEF IsFlat, g
  <2>4. IsFlat(f)
    BY <2>3
  <2>5. FlattenSeq(seqs) = f[n]
    BY <1>1, <1>3, Zenon DEF FlattenSeq, f, IsFlat
  <2> HIDE DEF f
  <2>6. \A i \in 1..n : f[i] = IF i = 1 THEN seqs[i] ELSE f[i - 1] \o seqs[i]
    BY <1>1, <2>4 DEF IsFlat
  <2> DEFINE G == {k \in 0..n : k # 0 => f[k] = Run(0, b[k])}
  <2>7. 0 \in G
    OBVIOUS
  <2>8. ASSUME NEW k \in 0..(n - 1), k \in G PROVE k + 1 \in G
    <3>1. k + 1 \in 1..n /\ k + 1 \in 0..n /\ (k + 1) - 1 = k /\ k \in 0..n
      OBVIOUS
    <3>2. CASE k = 0
      <4>1. f[1] = Run(b[0], b[1])
        BY <1>1, <2>6, <3>1, <3>2
      <4> QED BY <3>1, <3>2, <4>1
    <3>3. CASE k # 0
      <4>1. f[k] = Run(0, b[k]) /\ k + 1 # 1
        BY <2>8, <3>3
      <4>2. f[k + 1] = f[k] \o Run(b[k], b[k + 1])
        BY <1>1, <2>6, <3>1, <4>1
      <4>3. Run(0, b[k]) \o Run(b[k], b[k + 1]) = Run(0, b[k + 1])
        BY <2>2, <3>1
      <4> QED BY <3>1, <4>1, <4>2, <4>3
    <3> QED BY <3>2, <3>3
  <2>9. n \in G
    <3> HIDE DEF G
    <3>1. \A k \in 0..n : k \in G
      BY <2>7, <2>8, UpTo
    <3> QED BY <3>1
  <2> QED BY <1>3, <2>5, <2>9
<1> QED BY <1>2, <1>3

\* Where the files begin and end when there are k of them and the blocks f
\* after them: b[n] blocks are in the first n.
Kinds == {"file", "network", "live"}
Saved == files \cup writers
LaidOut(b, k, f) ==
  /\ b \in [0..k -> Nat] /\ b[0] = 0
  /\ \A n \in 0..(k - 1) : b[n] <= b[n + 1]
  /\ \A x \in Saved : /\ x.file \in 0..(k - 1)
                      /\ x.blocks = Run(b[x.file], b[x.file + 1])
  /\ \A n \in 0..(k - 1) : \E x \in Saved : x.file = n
  /\ b[k] <= blocksRead
  /\ f = Run(b[k], blocksRead)

Recording == {"stream", "keep", "save", "count", "forget"}
Closes == {"close", "pick", "join", "combine"}
Before == {"await", "abort", "abortpick", "abortjoin"} \cup Recording \cup Closes

\* The files there are, and the blocks in none of them: a writer was started
\* before its file is counted and its frames are forgotten.
FileCount == IF pc = "count" THEN number + 1 ELSE number
Unsaved == IF pc \in {"count", "forget"} THEN <<>> ELSE frames

RecordingInv ==
  /\ source \in Kinds /\ blocksRead \in Nat /\ number \in Nat
  /\ source # "live" => output = <<>> /\ pc # "combine"
  /\ source = "live" =>
       /\ pc \in Before => /\ output = <<>>
                           /\ twice \/ \E b : LaidOut(b, FileCount, Unsaved)
       /\ pc \in Recording \cup {"await"} => ~twice
       /\ pc = "count" => frames # <<>> /\ InFrames \in Saved
       /\ pc = "save" => frames # <<>>
       /\ pc \in Closes => frames = <<>>
       /\ pc \notin Before =>
            /\ pc \in {"write", "done"}
            /\ output # <<>> /\ ~missing /\ ~twice => output = Run(0, blocksRead)

\* What the invariant says of a live recording that is not put together yet.
LEMMA LiveFacts ==
  ASSUME RecordingInv, source = "live", pc \in Before
  PROVE  /\ output = <<>>
         /\ twice \/ \E b : LaidOut(b, FileCount, Unsaved)
         /\ pc \in Recording \cup {"await"} => ~twice
BY Zenon DEF RecordingInv

LEMMA RecordingInit == TeeInit => RecordingInv
<1> SUFFICES ASSUME TeeInit PROVE RecordingInv
  OBVIOUS
<1> DEFINE b == [k \in 0..0 |-> 0]
<1>1. /\ number = 0 /\ blocksRead = 0 /\ frames = <<>> /\ Saved = {} /\ output = <<>>
      /\ pc = "await" /\ source \in Kinds /\ twice = FALSE
  BY DEF TeeInit, Saved, Kinds
<1>2. LaidOut(b, 0, <<>>)
  <2>1. Run(0, 0) = <<>>
    BY DEF Run
  <2>2. b \in [0..0 -> Nat] /\ b[0] = 0 /\ 0 \in Nat /\ 0..(0 - 1) = {}
    OBVIOUS
  <2> HIDE DEF b
  <2> QED BY <1>1, <2>1, <2>2 DEF LaidOut
<1>3. FileCount = 0 /\ Unsaved = <<>>
  BY <1>1 DEF FileCount, Unsaved
<1> HIDE DEF b
<1> QED BY <1>1, <1>2, <1>3 DEF RecordingInv, Before, Recording, Closes

\* One more file, with the blocks that were in none.
LEMMA OneMoreFile ==
  ASSUME NEW k \in Nat, NEW f, blocksRead \in Nat, NEW b, LaidOut(b, k, f),
         blocksRead' = blocksRead,
         Saved' = Saved \cup {[file |-> k, blocks |-> f]}
  PROVE  \E d : LaidOut(d, k + 1, <<>>)'
<1> DEFINE x == [file |-> k, blocks |-> f]
           e == blocksRead
<1>0. PICK d : d = [n \in 0..(k + 1) |-> IF n = k + 1 THEN e ELSE b[n]]
  OBVIOUS
<1>1. b \in [0..k -> Nat] /\ b[0] = 0 /\ b[k] <= e /\ f = Run(b[k], e)
  BY DEF LaidOut
<1>2. /\ d \in [0..(k + 1) -> Nat] /\ d[0] = 0 /\ d[k + 1] = e
      /\ \A n \in 0..k : d[n] = b[n]
  BY <1>0, <1>1
<1>3. \A n \in 0..k : n \in 0..(k - 1) \/ n = k
  OBVIOUS
<1>4. /\ \A n \in 0..(k - 1) : n \in 0..k /\ n + 1 \in 0..k
      /\ k \in 0..k /\ (k + 1) - 1 = k
      /\ 0..(k - 1) \subseteq 0..k
  OBVIOUS
<1>5. \A n \in 0..k : d[n] <= d[n + 1]
  BY <1>1, <1>2, <1>3, <1>4 DEF LaidOut
<1>6. ASSUME NEW y \in Saved'
      PROVE  /\ y.file \in 0..k
             /\ y.blocks = Run(d[y.file], d[y.file + 1])
  <2>1. CASE y = x
    <3>1. y.file = k /\ y.blocks = Run(b[k], e)
      BY <1>1, <2>1
    <3> QED BY <1>2, <1>4, <3>1
  <2>2. CASE y \in Saved
    <3>1. y.file \in 0..(k - 1) /\ y.blocks = Run(b[y.file], b[y.file + 1])
      BY <2>2 DEF LaidOut
    <3> QED BY <1>2, <1>4, <3>1
  <2> HIDE DEF x
  <2>3. Saved' = Saved \cup {x}
    BY DEF x
  <2> QED BY <2>1, <2>2, <2>3
<1>7. ASSUME NEW n \in 0..k PROVE \E y \in Saved' : y.file = n
  <2>1. x \in Saved' /\ x.file = k
    OBVIOUS
  <2>2. n \in 0..(k - 1) => \E y \in Saved : y.file = n
    BY DEF LaidOut
  <2> HIDE DEF x
  <2> QED BY <1>3, <2>1, <2>2
<1>8. <<>> = Run(d[k + 1], blocksRead')
  <2>1. Run(e, e) = <<>>
    BY DEF Run
  <2> QED BY <1>2, <2>1
<1>9. LaidOut(d, k + 1, <<>>)'
  <2>1. d \in [0..(k + 1) -> Nat] /\ d[0] = 0 /\ (k + 1) - 1 = k
    BY <1>2, <1>4
  <2>2. d[k + 1] <= blocksRead'
    BY <1>2
  <2> QED BY <1>5, <1>6, <1>7, <1>8, <2>1, <2>2 DEF LaidOut
<1> QED BY <1>9

\* Files and blocks that stay what they are.
LEMMA LaidOutKept ==
  ASSUME NEW k, NEW f, NEW b, LaidOut(b, k, f), UNCHANGED <<Saved, blocksRead>>
  PROVE  LaidOut(b, k, f)'
BY DEF LaidOut

LEMMA StreamKeeps == RecordingInv /\ Stream => RecordingInv'
<1> SUFFICES ASSUME RecordingInv, Stream PROVE RecordingInv'
  OBVIOUS
<1> QED BY DEF Stream, RecordingInv, mainVars

\* The steps of record.
LEMMA RecordKeeps ==
  RecordingInv /\ (ReadBlock \/ KeepBlock \/ StartWriter \/ CountFile \/ ForgetFrames)
    => RecordingInv'
<1> SUFFICES ASSUME RecordingInv,
                    ReadBlock \/ KeepBlock \/ StartWriter \/ CountFile \/ ForgetFrames
             PROVE  RecordingInv'
  OBVIOUS
<1>1. /\ pc \in Recording /\ pc' \in Recording
      /\ UNCHANGED <<source, files, output, missing, twice>>
  BY DEF ReadBlock, KeepBlock, StartWriter, CountFile, ForgetFrames, RecordStep,
         Recording, recordVars
<1>2. source \in Kinds /\ blocksRead \in Nat /\ number \in Nat
  BY DEF RecordingInv
<1>3. CASE source # "live"
  <2>1. blocksRead' \in Nat /\ number' \in Nat
    BY <1>2 DEF ReadBlock, KeepBlock, StartWriter, CountFile, ForgetFrames, recordVars
  <2>2. pc' # "combine"
    BY <1>1 DEF Recording
  <2> QED BY <1>1, <1>2, <1>3, <2>1, <2>2 DEF RecordingInv
<1>4. CASE source = "live"
  <2>0. pc \in Before /\ pc \in Recording \cup {"await"}
    BY <1>1 DEF Before
  <2>1. output = <<>> /\ ~twice /\ \E b : LaidOut(b, FileCount, Unsaved)
    BY <1>4, <2>0, LiveFacts, Zenon
  <2>2. PICK k, f, b : LaidOut(b, k, f) /\ k = FileCount /\ f = Unsaved
    BY <2>1, Zenon
  <2>3. /\ pc = "count" => frames # <<>> /\ InFrames \in Saved
        /\ pc = "save" => frames # <<>>
    BY <1>4 DEF RecordingInv
  <2>4. ASSUME blocksRead' \in Nat, number' \in Nat,
               \E d : LaidOut(d, FileCount, Unsaved)',
               pc' = "count" => frames' # <<>> /\ InFrames' \in Saved',
               pc' = "save" => frames' # <<>>
        PROVE  RecordingInv'
    <3>1. pc' \notin Closes /\ pc' \in Before
      BY <1>1 DEF Recording, Closes, Before
    <3> QED BY <1>1, <1>2, <1>4, <2>1, <2>4, <3>1 DEF RecordingInv
  <2>5. CASE ReadBlock
    <3>1. /\ pc = "stream" /\ pc' = "keep"
          /\ UNCHANGED <<blocksRead, number, frames, writers>>
      BY <2>5 DEF ReadBlock, RecordStep, recordVars
    <3>2. UNCHANGED Saved /\ FileCount' = k /\ Unsaved' = f
      BY <1>1, <2>2, <3>1 DEF Saved, FileCount, Unsaved
    <3>3. LaidOut(b, k, f)'
      BY <2>2, <3>1, <3>2, LaidOutKept
    <3>4. LaidOut(b, FileCount, Unsaved)'
      BY <3>2, <3>3 DEF LaidOut
    <3> QED BY <1>2, <2>4, <3>1, <3>4
  <2>6. CASE KeepBlock
    <3>1. /\ pc = "keep" /\ pc' \in {"save", "stream"}
          /\ blocksRead' = blocksRead + 1 /\ frames' = Append(frames, blocksRead + 1)
          /\ UNCHANGED <<number, writers>>
      BY <2>6 DEF KeepBlock, RecordStep
    <3>2. UNCHANGED Saved /\ FileCount' = k /\ k = number /\ f = frames
          /\ Unsaved' = frames'
      BY <1>1, <2>2, <3>1 DEF Saved, FileCount, Unsaved
    <3>3. PICK l \in Nat : l = b[k] /\ l <= blocksRead /\ f = Run(l, blocksRead)
      <4>1. k \in 0..k /\ b \in [0..k -> Nat]
        BY <1>2, <2>2, <3>2 DEF LaidOut
      <4>2. b[k] \in Nat
        BY <4>1
      <4>3. b[k] <= blocksRead /\ f = Run(b[k], blocksRead)
        BY <2>2 DEF LaidOut
      <4> QED BY <4>2, <4>3
    <3>4. Append(f, blocksRead + 1) = Run(l, blocksRead + 1)
      BY <1>2, <3>3, RunFacts
    <3>5. blocksRead + 1 \in Nat /\ l <= blocksRead + 1 /\ number' \in Nat
          /\ blocksRead' \in Nat
      BY <1>2, <3>1, <3>3
    <3>6. LaidOut(b, FileCount, Unsaved)'
      BY <2>2, <3>1, <3>2, <3>3, <3>4, <3>5 DEF LaidOut
    <3>7. frames' # <<>>
      <4>1. Run(l, blocksRead + 1) # <<>>
        <5>1. blocksRead + 1 # l
          BY <1>2, <3>3
        <5> QED BY <3>5, <5>1, RunFacts
      <4> QED BY <3>1, <3>2, <3>4, <4>1
    <3> QED BY <2>4, <3>1, <3>5, <3>6, <3>7
  <2>7. CASE StartWriter
    <3>1. /\ pc = "save" /\ pc' = "count" /\ writers' = writers \cup {InFrames}
          /\ UNCHANGED <<blocksRead, number, frames>>
      BY <2>7 DEF StartWriter, RecordStep
    <3>2. /\ Saved' = Saved \cup {[file |-> k, blocks |-> f]}
          /\ k = number /\ f = frames /\ FileCount' = k + 1 /\ Unsaved' = <<>>
      BY <1>1, <2>2, <3>1 DEF Saved, FileCount, Unsaved, InFrames
    <3>3. \E d : LaidOut(d, k + 1, <<>>)'
      BY <1>2, <2>2, <3>1, <3>2, OneMoreFile
    <3>4. \E d : LaidOut(d, FileCount, Unsaved)'
      BY <3>2, <3>3 DEF LaidOut
    <3>5. frames' # <<>> /\ InFrames' \in Saved'
      BY <2>3, <3>1 DEF InFrames, Saved
    <3> QED BY <1>2, <2>4, <3>1, <3>4, <3>5
  <2>8. CASE CountFile
    <3>1. /\ pc = "count" /\ pc' = "forget" /\ number' = number + 1
          /\ UNCHANGED <<blocksRead, frames, writers>>
      BY <2>8 DEF CountFile, RecordStep
    <3>2. UNCHANGED Saved /\ FileCount' = k /\ Unsaved' = f
      BY <1>1, <2>2, <3>1 DEF Saved, FileCount, Unsaved
    <3>3. LaidOut(b, k, f)'
      BY <2>2, <3>1, <3>2, LaidOutKept
    <3>4. LaidOut(b, FileCount, Unsaved)'
      BY <3>2, <3>3 DEF LaidOut
    <3> QED BY <1>2, <2>4, <3>1, <3>4
  <2>9. CASE ForgetFrames
    <3>1. /\ pc = "forget" /\ pc' = "stream" /\ frames' = <<>>
          /\ UNCHANGED <<blocksRead, number, writers>>
      BY <2>9 DEF ForgetFrames, RecordStep
    <3>2. UNCHANGED Saved /\ FileCount' = k /\ Unsaved' = f
      BY <1>1, <2>2, <3>1 DEF Saved, FileCount, Unsaved
    <3>3. LaidOut(b, k, f)'
      BY <2>2, <3>1, <3>2, LaidOutKept
    <3>4. LaidOut(b, FileCount, Unsaved)'
      BY <3>2, <3>3 DEF LaidOut
    <3> QED BY <1>2, <2>4, <3>1, <3>4
  <2> QED BY <2>5, <2>6, <2>7, <2>8, <2>9
<1> QED BY <1>3, <1>4

LEMMA InterruptKeeps == RecordingInv /\ Interrupt => RecordingInv'
<1> SUFFICES ASSUME RecordingInv, Interrupt PROVE RecordingInv'
  OBVIOUS
<1>1. /\ pc \in Recording /\ source = "live" /\ pc' = "close" /\ frames' = <<>>
      /\ UNCHANGED <<source, output, missing, blocksRead, writers>>
      /\ blocksRead \in Nat /\ number \in Nat /\ source \in Kinds
      /\ twice' = (pc = "forget")
  BY DEF Interrupt, RecordingInv, GoTo, Recording
<1>2. PICK k, f, b : LaidOut(b, k, f) /\ k = FileCount /\ f = Unsaved
  <2>0. pc \in Before /\ pc \in Recording \cup {"await"}
    BY <1>1 DEF Before
  <2>1. ~twice /\ (twice \/ \E b : LaidOut(b, FileCount, Unsaved))
    BY <1>1, <2>0 DEF RecordingInv
  <2> QED BY <2>1, Zenon
<1>3. output = <<>>
  <2>1. pc \in Before
    BY <1>1 DEF Before
  <2> QED BY <1>1, <2>1, LiveFacts
<1>4. number' \in Nat
  BY <1>1 DEF Interrupt, Counted
<1>5. FileCount' = number' /\ Unsaved' = <<>>
  BY <1>1 DEF FileCount, Unsaved
<1>6. ASSUME pc # "forget" PROVE \E d : LaidOut(d, FileCount, Unsaved)'
  <2>1. CASE pc = "count"
    <3>1. frames # <<>> /\ InFrames \in Saved
      BY <1>1, <2>1 DEF RecordingInv
    <3>2. /\ number' = number + 1 /\ files' = files \cup {InFrames}
      BY <3>1 DEF Interrupt, Counted
    <3>3. UNCHANGED Saved /\ k = number + 1 /\ f = <<>>
      BY <1>1, <1>2, <2>1, <3>1, <3>2 DEF Saved, FileCount, Unsaved
    <3>4. LaidOut(b, k, f)'
      BY <1>1, <1>2, <3>3, LaidOutKept
    <3> QED BY <1>5, <3>2, <3>3, <3>4 DEF LaidOut
  <2>2. CASE pc # "count"
    <3>0. k = number /\ f = frames
      BY <1>2, <1>6, <2>2 DEF FileCount, Unsaved
    <3>1. CASE frames = <<>>
      <4>1. UNCHANGED <<number, Saved>>
        BY <1>1, <3>1 DEF Interrupt, Counted, Saved
      <4>2. LaidOut(b, k, f)'
        BY <1>1, <1>2, <4>1, LaidOutKept
      <4> QED BY <1>5, <3>0, <3>1, <4>1, <4>2 DEF LaidOut
    <3>2. CASE frames # <<>>
      <4>1. number' = number + 1 /\ files' = files \cup {InFrames}
        BY <3>2 DEF Interrupt, Counted
      <4>2. Saved' = Saved \cup {[file |-> k, blocks |-> f]}
        BY <1>1, <3>0, <4>1 DEF Saved, InFrames
      <4>3. \E d : LaidOut(d, k + 1, <<>>)'
        BY <1>1, <1>2, <3>0, <4>2, OneMoreFile
      <4> QED BY <1>5, <3>0, <4>1, <4>3 DEF LaidOut
    <3> QED BY <3>1, <3>2
  <2> QED BY <2>1, <2>2
<1>7. twice' \/ \E d : LaidOut(d, FileCount, Unsaved)'
  BY <1>1, <1>6
<1>8. pc' \in Before /\ pc' \in Closes /\ pc' \notin Recording \cup {"await"}
      /\ pc' # "count" /\ pc' # "save" /\ output' = <<>>
  BY <1>1, <1>3 DEF Before, Closes, Recording
<1> QED BY <1>1, <1>4, <1>7, <1>8 DEF RecordingInv

LEMMA CombineKeeps == RecordingInv /\ Combine => RecordingInv'
<1> SUFFICES ASSUME RecordingInv, Combine PROVE RecordingInv'
  OBVIOUS
<1>1. /\ pc = "combine" /\ source = "live" /\ pc' = "write"
      /\ UNCHANGED <<source, blocksRead, frames, number, writers, twice>>
      /\ blocksRead \in Nat /\ number \in Nat /\ source \in Kinds
      /\ frames = <<>> /\ missing' = (writers # {})
  BY DEF Combine, RecordingInv, GoTo, Closes
<1>2. FileCount = number /\ Unsaved = <<>>
  BY <1>1 DEF FileCount, Unsaved
<1> DEFINE Of(n) == {x \in files : x.file = n - 1}
           seqs == [n \in 1..number |->
                      LET f == Of(n) IN
                        IF f = {} THEN <<>> ELSE (CHOOSE x \in f : TRUE).blocks]
<1>3. output' = FlattenSeq(seqs)
  BY DEF Combine
<1>4. ASSUME ~missing', ~twice PROVE output' = Run(0, blocksRead)
  <2>0. PICK b : LaidOut(b, number, <<>>)
    BY <1>1, <1>2, <1>4 DEF RecordingInv, Before, Closes
  <2>1. Saved = files
    BY <1>1, <1>4 DEF Saved
  <2>2. ASSUME NEW n \in 1..number PROVE seqs[n] = Run(b[n - 1], b[n])
    <3>1. n - 1 \in 0..(number - 1) /\ (n - 1) + 1 = n
      BY <1>1
    <3>2. Of(n) # {}
      BY <2>0, <2>1, <3>1 DEF LaidOut
    <3> DEFINE x == CHOOSE x \in Of(n) : TRUE
    <3>3. x \in Of(n)
      BY <3>2
    <3>4. seqs[n] = x.blocks
      BY <3>2
    <3> HIDE DEF x
    <3>5. x \in Saved /\ x.file = n - 1
      BY <2>1, <3>3
    <3> QED BY <2>0, <3>1, <3>4, <3>5 DEF LaidOut
  <2>3. seqs = [n \in 1..number |-> Run(b[n - 1], b[n])]
    BY <2>2
  <2> HIDE DEF seqs
  <2>4. /\ b \in [0..number -> Nat] /\ b[0] = 0
        /\ \A k \in 0..(number - 1) : b[k] <= b[k + 1]
    BY <2>0 DEF LaidOut
  <2>5. output' = Run(0, b[number])
    BY <1>1, <1>3, <2>3, <2>4, FlattenIs
  <2>6. b[number] = blocksRead
    <3>1. b[number] \in Nat /\ b[number] <= blocksRead
          /\ Run(b[number], blocksRead) = <<>>
      BY <1>1, <2>0 DEF LaidOut
    <3> QED BY <1>1, <3>1, RunFacts
  <2> QED BY <2>5, <2>6
<1> HIDE DEF seqs
<1>5. pc' \notin Before /\ pc' \notin Closes /\ pc' \notin Recording \cup {"await"}
  BY <1>1 DEF Before, Closes, Recording
<1> QED BY <1>1, <1>4, <1>5 DEF RecordingInv

LEMMA RecordingStep == RecordingInv /\ [TeeNext]_teeVars => RecordingInv'
<1> SUFFICES ASSUME RecordingInv, [TeeNext]_teeVars PROVE RecordingInv'
  OBVIOUS
<1>1. ASSUME UNCHANGED <<source, recordVars>>,
             \/ pc' = pc
             \/ pc = "await" /\ pc' \in {"abort", "stream"}
             \/ pc = "abort" /\ pc' = "abortpick"
             \/ pc = "abortpick" /\ pc' = "abortjoin"
             \/ pc = "abortjoin" /\ pc' \in {"abort", "done"}
             \/ pc = "stream" /\ pc' = IF source = "live" THEN "write" ELSE "drain"
             \/ pc = "drain" /\ pc' \in {"drain", "write", "close"}
             \/ pc = "write" /\ pc' = IF source = "file" THEN "close" ELSE "done"
             \/ pc = "close" /\ pc' = "pick"
             \/ pc = "pick" /\ pc' = "join"
             \/ pc = "join" /\ pc' = "close"
             \/ pc = "join" /\ source = "live" /\ pc' = "combine"
             \/ pc = "join" /\ source # "live" /\ pc' \in {"write", "done"}
      PROVE  RecordingInv'
  <2>1. UNCHANGED <<source, blocksRead, frames, number, writers, files, output,
                    missing, twice>>
    BY <1>1 DEF recordVars
  <2>2. CASE source # "live"
    <3>1. pc' # "combine"
      BY <1>1, <2>2 DEF RecordingInv
    <3> QED BY <2>1, <2>2, <3>1 DEF RecordingInv
  <2>3. CASE source = "live"
    <3>1. UNCHANGED <<Saved, InFrames>>
      BY <2>1 DEF Saved, InFrames
    <3>2. ASSUME pc' \in Before PROVE
            /\ pc \in Before /\ UNCHANGED <<FileCount, Unsaved>>
            /\ pc' \in Recording \cup {"await"} => pc \in Recording \cup {"await"}
            /\ pc' = "count" => pc = "count"
            /\ pc' = "save" => pc = "save"
            /\ pc' \in Closes => pc \in Closes
      BY <1>1, <2>1, <2>3, <3>2 DEF Before, Recording, Closes, FileCount, Unsaved,
                                    RecordingInv
    <3>3. ASSUME pc' \in Before PROVE twice' \/ \E b : LaidOut(b, FileCount, Unsaved)'
      <4>1. \A b : LaidOut(b, FileCount, Unsaved) => LaidOut(b, FileCount, Unsaved)'
        BY <2>1, <3>1, <3>2, <3>3 DEF LaidOut
      <4> QED BY <2>1, <2>3, <3>2, <3>3, <4>1 DEF RecordingInv
    <3>4. ASSUME pc' \notin Before
          PROVE  /\ pc' \in {"write", "done"}
                 /\ output # <<>> /\ ~missing /\ ~twice => output = Run(0, blocksRead)
                 /\ pc' \notin Recording \cup {"await"} /\ pc' \notin Closes
                 /\ pc' # "count" /\ pc' # "save"
      <4>1. /\ pc' \in {"write", "done"}
            /\ pc \notin Before => (output # <<>> /\ ~missing /\ ~twice
                                       => output = Run(0, blocksRead))
            /\ pc \in Before => output = <<>>
        <5>1. pc' \in {"write", "done"}
          <6>1. pc \notin Before => pc \in {"write", "done"}
            BY <2>3, Zenon DEF RecordingInv
          <6> QED BY <1>1, <2>3, <3>4, <6>1 DEF Before, Recording, Closes
        <5>2. pc \notin Before => (output # <<>> /\ ~missing /\ ~twice
                                     => output = Run(0, blocksRead))
          BY <2>3, Zenon DEF RecordingInv
        <5> QED BY <2>3, <5>1, <5>2, LiveFacts
      <4>2. /\ pc' \notin Recording \cup {"await"} /\ pc' \notin Closes
            /\ pc' # "count" /\ pc' # "save"
        BY <4>1 DEF Recording, Closes
      <4> QED BY <4>1, <4>2
    <3>5. CASE pc' \in Before
      <4>1. pc \in Before => output = <<>>
        BY <2>3, LiveFacts
      <4>2. /\ pc' \in Recording \cup {"await"} => ~twice
            /\ pc' = "count" => frames # <<>> /\ InFrames \in Saved
            /\ pc' = "save" => frames # <<>>
            /\ pc' \in Closes => frames = <<>>
        BY <2>3, <3>2, <3>5 DEF RecordingInv
      <4>3. /\ source \in Kinds /\ blocksRead \in Nat /\ number \in Nat
        BY DEF RecordingInv
      <4> QED BY <2>1, <2>3, <3>1, <3>2, <3>3, <3>5, <4>1, <4>2, <4>3 DEF RecordingInv
    <3>6. CASE pc' \notin Before
      BY <2>1, <2>3, <3>4, <3>6 DEF RecordingInv
    <3> QED BY <3>5, <3>6
  <2> QED BY <2>2, <2>3
<1>2. ASSUME NEW c \in C, Callbacks(c) \/ Thread(c) PROVE RecordingInv'
  <2>1. UNCHANGED <<source, recordVars, pc>>
    BY <1>2 DEF Callbacks, Thread, Opens, Fails, Ready, Refused, Overtime,
                Segments, ServerCloses, OnClose, Reconnect, mainVars
  <2> QED BY <1>1, <2>1
<1>3. CASE Await
  BY <1>1, <1>3 DEF Await, GoTo
<1>4. CASE Stream
  BY <1>4, StreamKeeps
<1>5. CASE StreamEnds
  BY <1>1, <1>5 DEF StreamEnds, GoTo
<1>6. CASE Drain
  BY <1>1, <1>6 DEF Drain, GoTo
<1>7. CASE WriteAll
  BY <1>1, <1>7 DEF WriteAll, GoTo
<1>8. CASE Close \/ PickThread
  BY <1>1, <1>8 DEF Close, PickThread
<1>9. CASE Join
  <2>1. source \in Kinds
    BY DEF RecordingInv
  <2>2. UNCHANGED <<source, recordVars>>
    BY <1>9 DEF Join
  <2>3. CASE pc = "abortjoin"
    <3>1. pc' \in {"abort", "done"}
      BY <1>9, <2>3 DEF Join, GoTo, AfterClose
    <3> QED BY <1>1, <2>2, <2>3, <3>1
  <2>4. CASE pc = "join"
    <3>1. pc' = "close" \/ pc' = AfterClose
      BY <1>9, <2>4 DEF Join, GoTo
    <3>2. AfterClose = IF source = "network" THEN "write"
                       ELSE IF source = "live" THEN "combine" ELSE "done"
      BY <2>1, <2>4 DEF AfterClose, Kinds
    <3> QED BY <1>1, <2>2, <2>4, <3>1, <3>2
  <2> QED BY <1>9, <2>3, <2>4 DEF Join
<1>10. CASE Interrupt
  BY <1>10, InterruptKeeps
<1>11. CASE Combine
  BY <1>11, CombineKeeps
<1>12. CASE SaveChunk
  <2>1. UNCHANGED <<source, pc, blocksRead, frames, number, output, missing, twice>>
    BY <1>12 DEF SaveChunk, mainVars
  <2>2. Saved' = Saved /\ UNCHANGED <<FileCount, Unsaved, InFrames>>
    BY <1>12, <2>1 DEF SaveChunk, Saved, FileCount, Unsaved, InFrames
  <2>3. \A b : LaidOut(b, FileCount, Unsaved) => LaidOut(b, FileCount, Unsaved)'
    BY <2>1, <2>2 DEF LaidOut
  <2> QED BY <2>1, <2>2, <2>3 DEF RecordingInv
<1>13. CASE ReadBlock \/ KeepBlock \/ StartWriter \/ CountFile \/ ForgetFrames
  BY <1>13, RecordKeeps
<1>14. CASE UNCHANGED teeVars
  BY <1>1, <1>14 DEF teeVars, mainVars
<1> QED BY <1>2, <1>3, <1>4, <1>5, <1>6, <1>7, <1>8, <1>9, <1>10, <1>11, <1>12,
           <1>13, <1>14 DEF TeeNext, Main

LEMMA InvRecording == TeeSpec => []RecordingInv
BY RecordingInit, RecordingStep, PTL DEF TeeSpec

(* The output recording is what was kept of the microphone, in order and to  *)
(* the last block, in whatever order the threads write their files and       *)
(* wherever Ctrl+C comes, unless a thread had not written its file when the  *)
(* files were put together or Ctrl+C came between the count of a file and    *)
(* the reset of its frames (record, finalize_recording).                     *)
THEOREM RecordingStaysWhole == TeeSpec => []RecordingIsWhole
<1>1. ASSUME RecordingInv PROVE RecordingIsWhole
  <2>1. blocksRead - 0 = blocksRead /\ \A i \in 1..blocksRead : 0 + i = i
    BY <1>1 DEF RecordingInv
  <2>2. Run(0, blocksRead) = [i \in 1..blocksRead |-> i]
    BY <2>1 DEF Run
  <2>3. "write" \notin Before
    BY DEF Before, Recording, Closes
  <2> QED BY <1>1, <2>2, <2>3 DEF RecordingInv, RecordingIsWhole
<1> QED BY <1>1, InvRecording, PTL
=============================================================================

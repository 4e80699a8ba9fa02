-------------------------------- MODULE Capture -------------------------------
(***************************************************************************)
(* One source from the device to the chunks its reader queues              *)
(* (src/capture, src/preprocessing, whisper/capture.py): the audio         *)
(* callback or the loopback thread puts frames into a bounded queue that   *)
(* gives up its oldest, the reader thread collects a window of them, places*)
(* it on the session's clock, cuts it into chunks, and the client's voice  *)
(* activity filter decides which of them are sent.  What happens to a      *)
(* chunk from there on is ChunkPipeline.                                   *)
(*                                                                         *)
(* Audio is counted in units; unit t is the sound of time t.               *)
(***************************************************************************)
EXTENDS Integers, Sequences, FiniteSets, SequencesExt

CONSTANTS
  MaxTime,     \* bound of the model: units the device hears
  FrameLen,    \* block_size
  ChunkLen,    \* chunk_seconds, and min_chunk_seconds
  QueueSize,   \* queue_size of the capture stream, 64 in the code
  Hangover,    \* hangover_chunks
  MaxLag       \* how late a callback may look at the clock

ASSUME CaptureAssumption ==
  /\ MaxTime \in Nat /\ MaxLag \in Nat /\ Hangover \in Nat
  /\ FrameLen \in Nat \ {0} /\ QueueSize \in Nat \ {0}
  /\ ChunkLen \in Nat /\ FrameLen <= ChunkLen

VARIABLES
  kind,       \* "callback" (microphone) or "thread" (Windows loopback)
  adc,        \* does the device stamp its frames, or the callback?
  device,     \* "closed", "running", "failed" or "stopped"
  time,       \* what the device has heard
  producer,   \* where put_latest_frame is, and the frame it has
  queue,      \* the stream's queue
  received,   \* frames_received
  dropped,    \* frames_dropped
  reader,     \* "new", "reading" or "done"
  origin,     \* first_frame_timestamp, None before the first frame
  window,     \* the reader's buffer
  chunks,     \* history: every chunk cut, and what became of it
  refused,    \* history: units of windows that were "too_short"
  read,       \* history: units the reader took
  vad,        \* "off", "unloaded", "on" or "disabled"
  hangover,   \* _hangover_counter
  stop        \* stop_event

deviceVars == <<kind, adc, device, time>>
queueVars == <<producer, queue, received, dropped>>
readerVars == <<reader, origin, window, chunks, refused, read>>
vadVars == <<vad, hangover>>
vars == <<deviceVars, queueVars, readerVars, vadVars, stop>>

None == -1
Idle == [at |-> "idle"]
Most(a, b) == IF a > b THEN a ELSE b

Init ==
  /\ kind \in {"callback", "thread"} /\ adc \in BOOLEAN
  /\ kind = "thread" => ~adc
  /\ device = "closed" /\ time = 0
  /\ producer = Idle /\ queue = <<>> /\ received = 0 /\ dropped = 0
  /\ reader = "new" /\ origin = None /\ window = <<>>
  /\ chunks = <<>> /\ refused = 0 /\ read = 0
  /\ vad \in {"off", "unloaded"} /\ hangover = 0
  /\ stop = FALSE

-----------------------------------------------------------------------------
(* The device *)

(* A frame of n units heard from time t on, stamped on arrival unless the  *)
(* device did.                                                             *)
Frames(t, n) ==
  {[from |-> t, len |-> n, stamp |-> t + lag] :
     lag \in IF adc THEN {0} ELSE 0..MaxLag}

(* A callback stream: a device that cannot be opened leaves no stream. *)
OpenStream ==
  /\ kind = "callback" /\ device = "closed" /\ reader = "new" /\ ~stop
  /\ device' \in {"running", "failed"}
  /\ UNCHANGED <<kind, adc, time, queueVars, readerVars, vadVars, stop>>

(* A loopback: the recorder is opened before its thread is started. *)
OpenRecorder ==
  /\ kind = "thread" /\ device = "closed" /\ reader = "new" /\ ~stop
  /\ device' \in {"running", "failed"}
  /\ UNCHANGED <<kind, adc, time, queueVars, readerVars, vadVars, stop>>

Record ==
  /\ device = "running" /\ producer = Idle
  /\ time + FrameLen <= MaxTime
  /\ time' = time + FrameLen
  /\ \E f \in Frames(time, FrameLen) :
       producer' = [at |-> "put", frame |-> f, lost |-> 0]
  /\ received' = received + FrameLen
  /\ UNCHANGED <<kind, adc, device, queue, dropped, readerVars, vadVars, stop>>

(* The device itself loses a block (an overflow it only reports as status),*)
(* or a callback cannot normalise it.                                      *)
LoseBlock ==
  /\ device = "running" /\ producer = Idle
  /\ time + FrameLen <= MaxTime
  /\ time' = time + FrameLen
  /\ \/ UNCHANGED dropped
     \/ kind = "callback" /\ dropped' = dropped + FrameLen
  /\ UNCHANGED <<kind, adc, device, producer, queue, received, readerVars,
                 vadVars, stop>>

(* record() raises: the thread says so in an empty frame, and ends. *)
RecorderFails ==
  /\ kind = "thread" /\ device = "running" /\ producer = Idle
  /\ device' = "failed"
  /\ \E f \in Frames(time, 0) :
       producer' = [at |-> "put", frame |-> f, lost |-> 0]
  /\ UNCHANGED <<kind, adc, time, queue, received, dropped, readerVars,
                 vadVars, stop>>

(* The session stops: a callback stream waits for the callback that runs,  *)
(* the loopback's thread is waited for 2 s at most.                        *)
StopStream ==
  /\ stop /\ device = "running"
  /\ kind = "callback" => producer = Idle
  /\ device' = "stopped"
  /\ UNCHANGED <<kind, adc, time, queueVars, readerVars, vadVars, stop>>

-----------------------------------------------------------------------------
(* put_latest_frame, while the reader takes frames *)

HasRoom == Len(queue) < QueueSize

Put ==
  /\ producer.at = "put"
  /\ IF HasRoom
       THEN queue' = Append(queue, producer.frame) /\ producer' = Idle
       ELSE /\ producer' = [producer EXCEPT !.at = "evict",
                                            !.lost = producer.frame.len]
            /\ UNCHANGED queue
  /\ UNCHANGED <<deviceVars, received, dropped, readerVars, vadVars, stop>>

(* The oldest frame, if the reader has not emptied the queue meanwhile. *)
Evict ==
  /\ producer.at = "evict"
  /\ queue' = IF queue = <<>> THEN queue ELSE Tail(queue)
  /\ producer' = [producer EXCEPT !.at = "retry"]
  /\ UNCHANGED <<deviceVars, received, dropped, readerVars, vadVars, stop>>

(* What put_latest_frame returns is added to frames_dropped. *)
Lost_IfFull == IF HasRoom THEN 0 ELSE producer.frame.len
Lost == producer.lost + IF HasRoom THEN 0 ELSE producer.frame.len

Retry ==
  /\ producer.at = "retry"
  /\ queue' = IF HasRoom THEN Append(queue, producer.frame) ELSE queue
  /\ dropped' = dropped + Lost
  /\ producer' = Idle
  /\ UNCHANGED <<deviceVars, received, readerVars, vadVars, stop>>

-----------------------------------------------------------------------------
(* The voice activity filter *)

(* is_speech of one chunk whose loudest window has the model's voice or    *)
(* not, with what the chunk's verdict leaves behind.  The model is loaded  *)
(* on first use; without it, and after an inference that raises, every     *)
(* chunk passes.                                                           *)
Verdict(voice, passed, v, h) ==
  [voice |-> voice, passed |-> passed, vad |-> v, hangover |-> h]

Held_Early == hangover > 1
Held == hangover > 0

IsSpeech ==
  IF vad \in {"off", "disabled"} THEN {Verdict(FALSE, TRUE, vad, hangover)}
  ELSE {Verdict(TRUE, TRUE, "on", Hangover),
        Verdict(FALSE, Held, "on", IF Held THEN hangover - 1 ELSE hangover),
        Verdict(FALSE, TRUE, "disabled", Hangover)}
       \cup IF vad = "unloaded" THEN {Verdict(FALSE, TRUE, "disabled", 0)}
                                ELSE {}

-----------------------------------------------------------------------------
(* The reader *)

StartReader ==
  /\ reader = "new" /\ device # "closed"
  /\ reader' = "reading"
  /\ UNCHANGED <<deviceVars, queueVars, origin, window, chunks, refused, read,
                 vadVars, stop>>

(* A frame is a block of FrameLen units, except the empty one of a failed  *)
(* recorder, which is the last its stream sees.                            *)
Blocks(w) == IF w # <<>> /\ Last(w).len = 0 THEN Len(w) - 1 ELSE Len(w)
Duration(w) == Blocks(w) * FrameLen
Unit(w, n) == w[1 + ((n - 1) \div FrameLen)].from + ((n - 1) % FrameLen)

Enough(w) == Duration(w) >= ChunkLen

(* The window's first frame dates it, relative to the first frame of the   *)
(* session.  Frames without samples are left out: none of them is the      *)
(* first of a window that is long enough.                                  *)
Relative(f, first) == Most(0, f.stamp - first)
Start_Counted(w, first) == Len(chunks) * ChunkLen
Start(w, first) == Relative(w[1], first)

(* preprocess_frames: as frames are no longer than a chunk, a window makes *)
(* one chunk, and what is left of it is too short for another.             *)
CutWindow(w, first) ==
  \E verdict \in IsSpeech :
    /\ chunks' = Append(chunks, [start |-> Start(w, first),
                                 sound |-> [n \in 1..ChunkLen |-> Unit(w, n)],
                                 verdict |-> verdict])
    /\ refused' = refused + Duration(w) - ChunkLen
    /\ vad' = verdict.vad /\ hangover' = verdict.hangover
    /\ window' = <<>>

ReadFrame ==
  /\ reader = "reading" /\ ~stop /\ queue # <<>>
  /\ queue' = Tail(queue)
  /\ LET f == Head(queue)
         first == IF origin = None THEN f.stamp ELSE origin
         w == Append(window, f) IN
       /\ origin' = first
       /\ read' = read + f.len
       /\ IF Enough(w) THEN CutWindow(w, first)
            ELSE window' = w /\ UNCHANGED <<chunks, refused, vadVars>>
  /\ UNCHANGED <<deviceVars, producer, received, dropped, reader, stop>>

(* What is left is shorter than min_chunk_seconds. *)
ReaderEnds ==
  /\ reader = "reading" /\ stop
  /\ reader' = "done"
  /\ UNCHANGED <<deviceVars, queueVars, origin, window, chunks, refused, read,
                 vadVars, stop>>

Stop ==
  /\ ~stop /\ reader = "reading"
  /\ stop' = TRUE
  /\ UNCHANGED <<deviceVars, queueVars, readerVars, vadVars>>

-----------------------------------------------------------------------------
Device ==
  \/ OpenStream \/ OpenRecorder \/ Record \/ LoseBlock \/ RecorderFails
  \/ StopStream

Producer == Put \/ Evict \/ Retry

Reader == StartReader \/ ReadFrame \/ ReaderEnds

Next == Device \/ Producer \/ Reader \/ Stop

Spec == Init /\ [][Next]_vars

-----------------------------------------------------------------------------
(* Properties *)

(* The stream and its reader keep their types, the queue its size. *)
TypeOK ==
  /\ device \in {"closed", "running", "failed", "stopped"}
  /\ time \in 0..MaxTime /\ Len(queue) <= QueueSize
  /\ {received, dropped, refused, read} \subseteq Nat
  /\ reader \in {"new", "reading", "done"}
  /\ vad \in {"off", "unloaded", "on", "disabled"}
  /\ hangover \in 0..Hangover

(* Every frame the stream received and the reader will never see is in     *)
(* frames_dropped, wherever the reader is between the failed put, the      *)
(* eviction and the second put.  The count is that of the new frame, not   *)
(* of the evicted one: the empty frame that reports a failed recorder      *)
(* evicts one block for nothing.                                           *)
FrameLossIsCounted ==
  LET inHand == IF producer = Idle THEN 0 ELSE producer.frame.len
      evicted == IF producer.at = "retry" THEN producer.lost ELSE 0
      report == IF device = "failed" THEN FrameLen ELSE 0 IN
    received - read - Duration(queue) - inHand <= dropped + evicted + report

(* A chunk is dated by the time its first sound was heard, as seen from    *)
(* the session's first frame, however many frames the queue or the device  *)
(* lost before it: the error is that of the clock that stamps the frames,  *)
(* it does not add up.  (The loopback stamps the end of a block: the shift *)
(* is the same for all of them and not modelled.)                          *)
ChunkKeepsItsPlace ==
  \A i \in DOMAIN chunks :
    LET true == chunks[i].sound[1] - chunks[1].sound[1]
        error == chunks[i].start - true IN
      error \in -MaxLag..MaxLag

(* The sound of a source reaches its chunks in the order it was heard, and *)
(* no more of it is refused as too short than less than a frame a window.  *)
SoundInOrder ==
  /\ \A i, j \in DOMAIN chunks : \A m, n \in 1..ChunkLen :
       (i < j \/ (i = j /\ m < n)) => chunks[i].sound[m] < chunks[j].sound[n]
  /\ refused <= Len(chunks) * (FrameLen - 1)

(* The two together: a chunk of sound is where and when it was heard. *)
SoundKeepsItsPlace == ChunkKeepsItsPlace /\ SoundInOrder

(* The filter never holds back a chunk with a voice, nor one of the next   *)
(* Hangover chunks after it, nor anything after it has failed.             *)
SpeechIsAdmitted ==
  \A i \in DOMAIN chunks : ~chunks[i].verdict.passed =>
    /\ ~chunks[i].verdict.voice
    /\ \A j \in 1..(i - 1) :
         /\ chunks[j].verdict.voice => i - j > Hangover
         /\ chunks[j].verdict.vad # "disabled"
=============================================================================

# Formal model of ListenPLN (meet-transcript)

ListenPLN records the microphone and the loudspeaker of a meeting, streams
both to a WhisperLive speech recognition server and merges what comes back
into one transcript. This directory holds TLA+ models of the parts of the
program where threads, processes, locks, queues, connections and clocks meet,
the TLC configurations that check them on small instances, and proofs, checked
by TLAPS, of what holds for every instance. `PROJECT.json` ties every
definition to the lines it models, every property to a run and every proved
statement to its module.

Paths below are relative to the repository (`src/...` is the client,
`WhisperLive/...` the server).

## 1. Inventory

### 1.1 Client

| Component | State | Operations | Interacts with |
|---|---|---|---|
| Capture streams `src/capture/*.py` | one frame queue per device, counters | audio callback or loopback thread (`put_latest_frame`), `read_frame`, `stop` | reader threads |
| Reader threads `src/whisper/capture.py` | frames of the current window, first time stamp | read, preprocess, enqueue, drop the oldest when the queue is full | shared `chunk_queue`, `stats`, `stop_event` |
| Preprocessing and VAD `src/preprocessing/*.py` | hangover counter, loaded model | windows cut into chunks, chunks admitted or not | reader threads, main loop |
| Session `src/whisper/session.py`, `session_utils.py` | `chunk_queue`, `_stop`, `_muted_sources`, `clients`, merger, archive, candidates, stats | main loop, mute and stop commands, statuses, finalisation (drain, flush, END_OF_AUDIO, wait, merger flush, close) | all of the others |
| Reconnect client `src/whisper/client_reconnect.py` | lock, generation, stream client, backoff, fatal status, ring buffer, timeline | `connect_initial`, `send`, `flush_buffer`, `finish_audio`, `close`, status and transcript callbacks | main loop, receivers |
| Stream client `src/whisper/client_base.py` | socket, `_ready_event`, `_fatal_error`, `_closed`, receiver thread | `connect`, `send_chunk`, `finish_audio`, `close`, `_recv_loop` | server, reconnect client |
| Sent timeline `src/whisper/sent_timeline.py` | list of sent spans | `record_sent`, `map_to_real`, `reset` | reconnect client, transcript callback |
| Transcript merger `src/whisper/merger.py` | pending list, newest start seen, remembered keys | `add_result`, `pop_ready`, `flush` | receivers, main thread |
| Transcript log `src/utils/logging.py` | one file, a line per entry | `append_result`, `save`, `load_transcript_entries` | session, engine |
| Status channel `src/utils/status_ipc.py` | two pipes of lines | `emit_status`, `parse_status_line` | session process, engine |
| Desktop engine `src/core/engine.py` | module-level `STATE` | `start_live`, `stop_live`, `set_mute`, a monitor thread per process, archive to history | GUI, session process |
| GUI `src/qt_client.py` | record and mute buttons, flags of shown failures | clicks, runner threads, timer checks, error signal | engine |

### 1.2 Server

| Component | State | Operations |
|---|---|---|
| `ClientManager` and `TranscriptionServer` `whisper_live/server.py` | clients, start times, shared `use_vad`/`backend`, audio formats | handshake, capacity check, receive loop, timeout, cleanup |
| Recognition session `whisper_live/backend/base.py`, `faster_whisper_backend.py` | audio buffer with offsets, transcript, flush flags | `add_frames`, recognition loop, `update_segments`, final flush |
| Local agreement `whisper_live/local_agreement.py` | confirmed time, previous hypothesis | `update` |
| Post-processing `whisper_live/postprocessing.py` | recent and pending segments of a session | one call per segment |
| Batch inference `whisper_live/batch_inference.py` | request queue, one worker thread | `submit`, collect, process |
| Translation `whisper_live/backend/translation_backend.py` | a queue and a thread per session | `process_translation_queue`, cleanup |
| Transcriber `whisper_live/transcriber/transcriber_faster_whisper.py` | `seek` and the segments of one call | `transcribe`, `generate_segments`, `restore_speech_timestamps` |
| Upstream client `whisper_live/client.py` | transcript, flags, recording files | WebSocket callbacks, the tee's main thread |
| Diarisation, metrics, REST endpoints, other back ends | embeddings, counters | per-segment transforms, requests |

### 1.3 What is hard

* `send` keeps an RLock through a whole reconnect while receiver threads of
  several connections want the same lock, and the lock holder joins them.
* A connection is replaced while callbacks of its predecessor are still on
  their way.
* Queues with three different overflow policies sit in series between the
  device and the socket; two readers share one of them, and the protocol that
  drops the oldest takes three steps.
* Shutdown is a sequence of bounded waits (join 3 s, flush 5 s, drain,
  END_OF_AUDIO) that runs against threads that are still working.
* Every click of the user becomes a thread of its own and nothing orders them;
  the process they start, mute and stop may hang or die in the middle of a line.
* On the server the receive thread and the recognition thread share offsets and
  two flush flags, and trimming the buffer moves the offsets under a decode.
* All sessions hand their windows to one batch worker, wait 30 s, and go on
  without an answer.
* Texts and times are cut, held back and put together again: windows of audio,
  silence that is cut out and put back, words that are confirmed by a second
  hypothesis, segments that are held until they are heard twice.

### 1.4 What makes each component correct

* Reconnect client: audio is delivered in capture order and at most once over
  all connections; a chunk is delivered, waiting or counted as dropped; the
  oldest audio goes first; a refusal is final; a segment is placed on the
  timeline of the connection that heard it; calls return.
* Capture and session: a chunk keeps its place in time; speech is admitted; the
  client gets each source's chunks in order; what is lost is counted; at the
  end every chunk of a reader that ended was handled and archived; shutdown
  ends. The main loop sends nothing of a muted source.
* Merger: what is emitted is in timestamp order and emitted once; candidates
  do not repeat themselves.
* Desktop: one session at a time; the window says what the session does; no
  final entry is dropped before an archive of it was tried; a stop ends the
  session and its end is shown.
* Server: never more clients than allowed; a final flush answers once, and
  nothing confirmed is left unsent; what local agreement makes final only goes
  forward; a
  submitted request is answered with its own result; the anchor never runs
  ahead of the audio; every round of decoding moves on.

`PROJECT.json` lists every component with its sources and, under `hazards`,
the 40 places where this code can go wrong in a way a unit test hardly
reaches, each with its line and the properties aimed at it.

## 2. Plan

The order followed the audio: what loses or reorders speech came first, then
what hides it from the user, then what distorts it.

| | Module | Composes | Abstract specification | State |
|---|---|---|---|---|
| 1 | `ReconnectClient` | client, stream client, timeline, receivers | `AudioDelivery` | checked, refinement and safety proved |
| 2 | `ChunkPipeline` | readers, queue, main loop, statuses, archive, finalisation; the client as `AudioDelivery` promises it | | checked, safety proved |
| 3 | `TranscriptMerge`, `TranscriptEvents` | receivers, merger, transcript; candidates | `TranscriptMerge` | checked, refinement and safety proved |
| 4 | `ServerSessions` | handlers, registry, session start | | checked, safety proved |
| 5 | `AsrSession` | handler, recognition loop, local agreement | | checked, safety proved |
| 6 | `TranscriptLog`, `Desktop` | window, runners, engine, monitors, session processes, pipes, file | | checked, safety proved |
| 7 | `Workers` | recognition threads, batch worker, translation threads, cleanup | | checked, safety proved |
| 8 | `Transcriber` | filter, decoding loop, restored times | | checked, safety proved |
| 9 | `Capture` | device, queue, reader, cut into chunks, filter | | checked, safety proved |
| 10 | `Stabilizer`, `SegmentPath` | receive thread, recognition thread without local agreement, post-processing | | checked, safety proved |
| 11 | `UpstreamClient` | WebSocket threads, the tee's main thread, writers | | checked, safety proved |

What is left for whoever goes on: the arithmetic of `SentAudioTimeline` on
seconds; the clustering of `diarization.py` and its reuse of enrolled names; the
REST endpoints; the other back ends; and a composition in which `ChunkPipeline` uses
one instance of `AudioDelivery` per source.

## 3. Modules

Every module begins with a comment that says which threads it has and what
its data stand for. `map` in `PROJECT.json` gives the lines behind every
definition. The MC modules only give values to constants. A definition whose
name has an underscore (`RetryPut_Uncounted`) is a variant of the one before it
with a plausible mistake; no specification uses it, it serves to see that the
properties notice.

### 3.1 `AudioDelivery`: what a client promises

Four actions: accept a chunk, deliver the oldest waiting one to the current
connection, drop the oldest waiting one, open another connection. Its
invariants are that all connections together see an increasing sequence of
chunks (`InOrderOnce`), that each accepted chunk was delivered, waits, or was
dropped (`EveryChunkAccounted`), and that what was dropped is older than what
waits (`KeepsNewest`).

### 3.2 `ReconnectClient`: one source's connection

One calling thread and one receiver thread per connection epoch.

| In the code | In the model |
|---|---|
| `_lock` (RLock), held by `send` and `flush_buffer` from entry to return | `op`: `LockFree` is "neither of them runs" |
| position inside `send`, `_connect`, `_flush_locked` | `pc` |
| `_generation`, `_client`, `_connected`, `_attempt`, `_next_reconnect_at`, `_fatal_status` | `generation`, `client`, `connected`, `attempt`, `backoff`, `fatal` |
| `_buffer`, `_buffered_seconds` | `buffer`, `bufferedSeconds` |
| `SentAudioTimeline` | `timeline`, reset by every epoch |
| the socket of each `WhisperLiveStreamClient` | `link[g]`, and `wire[g]`, what was written to it |
| `_ready_event`, `_fatal_error`, `_closed` | `ready[g]`, `fatalError[g]`, `closed[g]` |
| the receiver thread | `recv[g]`: idle in `recv`, or with a message it wants the lock for |

Operations of the session are `ConnectInitial`, `Send`, `FlushBuffer`,
`FinishAudio`, `Close`. The rest of the actions are the steps of these calls
at which another thread can get in: a write and its failure, the joins, the
handshake and its ways to fail, and the steps of a receiver (message, lock,
application; for a segment also the generation check and, after the lock is
given back, the mapping). What raises out of `send` is caught by the session,
which counts the chunk as lost and goes on; what raises out of any other call ends
it (`Raise`). A write and the record of it in the timeline are one
step because `send` keeps the lock between the two. Time is abstract: a
backoff ends and a timeout expires at any moment.

### 3.3 `ChunkPipeline`: from the frames to the clients

Readers (`ReadFrame`, `PutChunk`, `EvictOldest`, `RetryPut`, `ReaderEnds`), the
main thread (`Connect`, `LoopTest`, `GetChunk`, `CheckMute`, `SendChunk`, then
`Finalise`, `JoinReaders`, `DrainChunk`, `DrainEnds`, `FlushClient`,
`FlushEnds`, `Finish`), the clients' threads (`HandleStatus`) and the user
(`SetMute`, `RequestStop`). `put`, `get_nowait` and `put_nowait` are separate
steps, as they are in `capture.py:345-369`. A reconnect client is reduced to
what `AudioDelivery` says of it. `HandleStatus` keeps of a status whether it
ends the session: `ERROR` does, and a lost connection when there is no
reconnect (`EndsSession`).

A chunk is handed to the rolling archive before it goes to its client
(`HandOver`); `Save` collects `SegmentChunks` of them and `FlushSource` writes
the file, which may raise: then the chunk is counted as lost and the ones
collected wait for the next file. `CloseArchive` is part of `Finish` and writes
the sources one after the other (`ArchiveOrder`).

History variables: `raced` counts readers that lost the room they had made,
`late` holds readers that outlasted their join, `writeFailed` remembers a file
that could not be written.

### 3.4 `TranscriptMerge` and `TranscriptEvents`: from the results to the transcript

`AddResult` is a receiver's `add_result` with its `pop_ready`, under
`transcript_lock`; `Emit` writes one entry, outside the lock; `BeginWait`,
`Flush` and `EndSession` are the main thread's finalisation. `maxSeen`,
`pending` and `remembered` are the merger's fields. `released` records the
order in which entries leave the merger, `timely` whether a result ever came
later than `reorder_delay_seconds` allows.

`TranscriptEvents` extends it to the whole of `handle_transcript`: a segment that
is not completed is a candidate, which its receiver writes unless the
deduplicator's bucket holds a similar text that is young enough (`Fresh`,
`AlreadySaved`, `SaveCandidate`). A text is a model value and `Similar` a symmetric,
reflexive relation that need not be transitive; `Tick` is the clock.

### 3.5 `ServerSessions`: the server's connections

One handler per connection: `Hello`, `CheckFull`, `BuildSession`, `SendReady`,
`CheckWorker`, `StartWorker`, `Register`, `NoSession`, the three ways out of
`recv_audio` (`Overtime`, `PeerGone`, `EndOfAudio`) and `Cleanup`; a peer may
leave at any moment (`PeerLeaves`). The registry, `use_vad` and the batch worker
are shared. `overlapped` records whether two handshakes were ever under way at
once.

### 3.6 `AsrSession`: one recognition session with local agreement

The handler (`AddFrames`, `RequestFlush`, `FlushAnswers`, `FlushTimesOut`,
`ConnectionLost`) and the recognition loop (`FlushNoAudio`, `Capture`,
`TooShort`, `Wait`, `Decode`, `ResultNone`, `ResultNothing`, `ResultWords`,
`Exit`). Audio is counted in slots. The recogniser may answer anything: `None`,
nothing or an exception, or a list of up to `MaxWords` words, each with a text, an
end in the window and a place in the list; the same sound may come back in the next
window with another text, another end or at another place. `NewWords` keeps what ends
after the confirmed point, `Stable` the prefix that has the same texts at the same
places as the last hypothesis and ends before the guard, `Remaining` what is tried
again, as `local_agreement.py` does. Texts are compared normalized, and a word's start
is left out, for nothing depends on it. The hop and speech-boundary timers only
postpone a decode, so `Wait` is free unless a flush is on.
`timestamp_offset += duration` is one step: nothing between the load and the
store of that attribute can switch threads in CPython. The window is longer
than `MaxBuffer - Trim`, as with the application's values (20 s and 45 s - 30 s).
`finals` keeps of every completed segment its end and the ends of its words.
History: `heard`, `finals`, `delivered`, `overtaken` (a trim fell into a round),
`late` (the flush was asked for between the capture and the second look at the
flag).

### 3.7 `TranscriptLog` and `Desktop`: the application around a session

`TranscriptLog` is the file: a sequence of lines, each the sequence of what was
written to it. A process that dies while it appends leaves a line without a newline
that ends in `Torn`, or in `Split` if it died inside a multi-byte character; what is
appended next is glued to it and the parser skips the whole line. A file with a
split character is not `Readable`: `read_text` raises. `Whole` is the set of the
entries the parser accepts of a file it can read, `Opened` the file a session begins
with. `Archive` puts the final entries of a file (not the candidates) into the
history, or fails, because the file cannot be read or the archive not be written;
then nothing tries again, and `unarchived` remembers what it held.

`Desktop` has the window, the engine, the monitors and the session processes.

| In the code | In the model |
|---|---|
| `CompactWidget`: the buttons, `*_notified` | `button`, `muted`, `notified` |
| `error_occurred` signals that are queued | `reverts` |
| the daemon threads that run `start_live`, `stop_live` and `set_mute` | `runners`, each with its position |
| `STATE`: process, `stop_requested`, connection state, failure details | `proc`, `stopReq`, `conn`, `notice` |
| `_monitor_process` | `monitor[p]`: `HandleLine`, `MonitorEnds` |
| the session process and its two pipes | `life[p]`, `stdin[p]`, `pipe[p]`, `pmuted[p]` |
| the transcript file and the history directory | `file`, `history` |

What the engine does under `STATE.lock` is one step. `PollExit` lets the wait for
the former session end early, as its budget may; `Spawn` then checks again and
refuses. A session boots, reports, obeys, writes entries, ends by itself, drains
and dies (`Boot` ... `Crash`); it may also hang anywhere, which is why `ForceExit`
exists. `rushed`, `overlap`, `crossed` and `late` record how clicks and aborts fell;
section 4.3 says what for.

### 3.8 `Workers`: the threads sessions share or start

The batch worker (`TakeFirst`, `TakeMore`, `CloseWindow`, then `ProcessSingle` for
one request or `Prepare`, `Encode`, `Generate`, `Dispatch` for several, and
`BatchFails` for what raises), the recognition threads (`Submit`, `Answered`,
`WaitExpires`), the translation threads (`LoopHead`, `GetTimesOut`, `TakeSegment`,
`Translate`) and the handler's cleanup. `pending`, `final` and `temperature` are
`pending_indices`, `final_results` and the round of the fallback: positions in the
list of pending items are not positions in the batch, which is what `OwnResult` is
about. A text is named by the request whose features it was decoded from.

### 3.9 `Transcriber`: one call of `transcribe`

`Transcribe` chooses what the voice activity filter keeps, `LoopBegins` starts the
generator, `SkipSilence` and `Decode` are rounds of its loop, `Restore` puts the
segments back on the time of the audio. A round takes any legal sequence of
timestamp and text tokens, any outcome of the fallback over the temperatures, and
any alignment of words in time order, for any of the segments: one may get none. Of
its words a segment has the first and the last. `Timed` is what `add_word_timestamps`
does with them: the first word after a pause is cut, or may begin earlier, when it
is too long (`Shortened`), the segment's own begin and end are preferred to those of
long words (`Begun`, `Ended`), and otherwise the segment takes the times of its words.
The median duration is any up to `MaxMedian`. `Split`, `WordSeek`, `Judge` and `OwnChunk` are
`_split_segments_by_timestamps`, the seek after the last word, the hallucination
filter and the choice of the speech chunk a time belongs to. A unit is a frame, a
timestamp step and a second at once. `chunks` is the filter's map, up to `MaxChunks`
stretches of speech; `rounds` counts rounds. `Table` holds the rounds of all contexts a
call can meet, so that TLC computes them once. `Ordering` holds what this module and
`SegmentPath` need of numbers: a finite set of them in order (`InOrder`), and the
elements a loop over a sequence keeps (`ElementsAt`).

### 3.10 `Capture`: from the device to the chunks

The device hears unit after unit and makes frames (`Record`), may lose a block of
its own (`LoseBlock`) or fail (`RecorderFails`, which puts an empty frame). The
producer puts a frame in up to three steps (`Put`, `Evict`, `Retry`), between which
the reader may take one. Every frame is a block of `FrameLen` units, except the empty
one, which is the last of its stream; `Blocks` counts the blocks of a window and
`Unit` finds its n-th unit by division. The reader (`ReadFrame`) dates the window by its first
frame, relative to the first frame ever, and cuts it (`CutWindow`); what is too short
is refused. The filter's verdict on a chunk is `IsSpeech` with its hangover
(`Held`), its lazy model and the fallbacks when it cannot be loaded or raises.
`chunks` records which sound every chunk holds and what became of it.

### 3.11 `Stabilizer` and `SegmentPath`: recognition without local agreement

`Stabilizer` is `SegmentStabilizer.__call__` as an operator on a record: what is dropped
whatever its score, what is held as pending for how many turns, what is let
through; with the segment it returns what was decided (`action`). The score of a text
is three numbers, as a partial, completed, and seen before, of which the last is the
greatest: stability and context are all that depends on the segment, and both are
full for a text that was seen. The loops over the pending texts that leave some
out (`NextTurn`, `Without`) are `ElementsAt` of the places that stay. `Known` says of a
text these scores and what the recogniser reports with it.

`SegmentPath` is the connection that uses it: `AddFrames` adds audio and trims,
`TakeAudio` takes everything from the anchor on (and clips it when
`clip_audio_if_no_valid_segment` is on), `Decoded` applies one of `Results`:
everything but the last segment is completed, the last one when it came out the
same more than `SameOutput` times (`Repeated`, `RepeatedEnd`). The transcript is cut at
its maximal length, and what is new is what lies past the length it had (`Trimmed`,
`New`), as in `AsrSession`. Four histories are
kept: `sent`, the completed segments that the stabilizer let through; `verdicts`, what it
decided of each completed segment it did not drop, and in which turn; `alongside`,
whether an output was ever completed because it repeated while other segments of its
result were completed too; `cut`, whether the transcript was ever cut.

### 3.12 `UpstreamClient`: the client that ships with WhisperLive

Each `Client` has a WebSocket thread whose callbacks are actions (`Opens`, `Ready`,
`Refused`, `Overtime`, `Segments`, `ServerCloses`, `Fails`, `OnClose`, `Reconnect`); the
tee's main thread waits for the servers (`Await`), streams, drains, writes the
subtitles, closes, joins and combines the recording (`Stream` ... `Combine`); the
`save_chunk` threads write a file each (`SaveChunk`). The segments a message completes
may have any times of `Spans`: the server counts from 0 after a retry, completes a
repeated output from the anchor on beside others, and finalises a word again that is
heard later. `IsNew`, `Taken` and `Process` are `process_segments`.

A file is played while somebody records, a network stream is read in any case. A
recording has a step for each place Ctrl+C may fall: a block is read (`ReadBlock`),
kept (`KeepBlock`), and when there are many a writer is started (`StartWriter`), the
file counted (`CountFile`) and the frames forgotten (`ForgetFrames`). `Close` closes the
socket there is, `PickThread` takes the thread there is by then, `Join` waits for it.
History: `missed`, a new connection came between the first two, or a socket connected
after it was closed; `missing`, a writer outlived the recording; `twice`, Ctrl+C fell
between the count of a file and the reset of its frames.

## 4. Runs

`CHECK_DEADLOCK FALSE` is in every configuration because the systems stop: the
client is closed, the session has ended, the handlers are done, the recognition
loop has left, the recording is over, the call returned. Where a thread must not
wait for ever, a liveness property says so.

Each run asks one component about all its hazards at once. The type invariants
are not among the properties of the runs: those of `ReconnectClient`,
`ChunkPipeline`, `ServerSessions`, `AsrSession`, `Desktop` and `Capture` are proved, the
others document the variables.

### 4.1 What the runs check

| Run | Asks | Bounds | Distinct states |
|---|---|---|---|
| `reconnect_safety` | order and delivery at most once, own-epoch mapping, terminal refusals, refinement of `AudioDelivery` | 3 chunks, 3 epochs, room for 2 | 2.2 million |
| `reconnect_buffer` | eviction policy of the ring buffer; every call returns | 5 chunks, one of 5 units and one of 4, room for 4, 2 epochs, slow callbacks, an exponent that overflows at the second attempt | 0.39 million |
| `pipeline_safety` | order per source, counted loss, complete drain, complete archive, termination | 2 + 1 chunks of two frames, queue of 1, ring of 1, files of 2 chunks, readers that outlast the join | 0.44 million |
| `merge_safety` | release order, everything written once, candidates that differ | 5 results of 2 sources, 4 additions, delay 1, 3 remembered keys; 4 candidates of which 3 differ, cache of 2, two instants, 6 events | 4.1 million |
| `server_safety` | capacity, `use_vad`, batch worker, release, handlers that end | 3 connections, 1 slot, batch inference on | 0.45 million |
| `asr_safety` | no audio skipped, finality forward, delivery, flush | 5 slots, buffer 3, trim 2, window 3, retain 1, guard 1, 2 words of 2 texts, transcript of 2 | 0.23 million |
| `desktop_safety` | one session, a window that tells the truth, transcripts kept, stops that end | 2 processes, 4 clicks (a failure for good counts as 2), the first process writes a candidate, an entry and one line | 1.1 million |
| `workers_safety` | own results, translations in order, nobody waits for ever | 2 sessions with 2 + 1 windows, one translated, batches of 2, 2 temperatures, translation queue of 1 | 0.14 million |
| `transcriber_safety` | segments in order before and after the silence is put back; progress | audio of 4, windows of 3, up to 6 tokens, one or two stretches of speech, medians up to 1 | 0.34 million |
| `capture_safety` | counted loss, chunks in their place and order, speech admitted | 12 units, frames of 2, chunks of 3, queue of 2, hangover 1, lag 1 | 1.4 million |
| `segments_safety` | anchor in the audio, nothing twice, what is heard is sent | 5 units of audio, 3 decodes of up to 3 segments, 4 texts, transcript of 3, buffer 3, trim 2, 1 segment remembered | 0.14 million |
| `upstream_safety` | subtitles, recording, calls that return | 2 clients, one retry, up to 2 segments with 3 pairs of times, 3 blocks of recording | 1.2 million |

Some properties are the conjunction of two that belong together:
`WrittenOnce` is `ReleasedOnce` and `ReleasedIsWritten`; `HandshakesAreSafe` is
`CapacityKept`, `OwnVad` and `OneWorker`; `WindowIsTrue` is `RecordingIsVisible` and
`MuteIsTrue`; `NobodyWaitsForEver` is
`EveryRequestAnswered` and `TranslatorEnds`; `SoundKeepsItsPlace` is
`ChunkKeepsItsPlace` and `SoundInOrder`; `SubtitlesAreWhole` is `CuesInOrder` and
`CompletedIsKept`; `HeardIsSent` is `ClearIsSent` and `AgreementDecides`.

Why the bounds are enough to make the interesting cases happen:

* Three epochs let a receiver of the first one act while the third is being
  built, and three chunks with room for two let one chunk be evicted, one be put
  back after a failed write and one be in hand. `reconnect_buffer` gives up one
  epoch for chunks of different length: the second is longer than the buffer and
  empties it of everything, itself included; the fifth needs all of it and evicts several
  that wait. The second attempt at a connection already overflows its backoff.
* A queue of one with two readers is the smallest in which both find it full and
  one fills the gap the other made. A frame shorter than a chunk gives a reader a
  partial window to end with. Files of two chunks leave one of the three outside
  a full file, for the end of the session.
* The five results contain two that are exactly the delay apart, a tie, and one
  that is late; with four additions and three remembered keys a repeated result
  can come back after its key was forgotten. Three candidates that are not similar
  against a cache of two crowd one out, and the fourth may say the forgotten one
  again; of two instants the second lies outside `Span = 0`; text b is similar to two
  that are not similar to each other.
* Three connections for one slot: one registered, one in its handshake, one that
  asks. More connections add no new kind of interleaving, the handlers only
  meet in the registry and the shared fields.
* Five slots are a trim of a buffer of three with audio left to come after it,
  several windows, and more segments than the transcript of two keeps. Two words of two
  texts agree in part, agree under other times, change place when one is confirmed,
  and come again with a later end;
  `MinFlush < MinDuration` so that a round too short without a flush is long
  enough with one.
* Two processes are one session and its successor: a later one meets only its
  predecessor. Four clicks are start, stop and start again with one more in
  between, or start, mute and a failure. What only the first process writes and
  reports is what its successor can lose or overwrite; it writes a candidate and a
  final entry, and may die in either, inside a character or not.
* Two sessions are the smallest number that makes a batch; two temperatures give
  a round in which one item passes and the other goes on, and positions shift; the
  second window of a session can be submitted while the answer of the first is
  still due; a translation queue of one is full at once.
* Audio of 4 and windows of 3 give a window that is cut short by the end and, with
  a gap, a segment that spans the place where silence was cut out. Six tokens are
  two complete segments. With medians of 0 and 1 and a tolerance of 1 (`Long`) every
  one of the cuts of long words happens; `MaxMedian = Long`, so that words do not grow
  (0.7 s and 0.5 s in the code; the proof is for any).
* Twelve units are six frames: more than the queue and a window hold together, so
  that frames are lost while a window is being filled. Frames of 2 and chunks of 3
  leave a remainder in every other window.
* Three decodes let a weak text be held, be heard again, and be heard a third time
  after it was forgotten; three units of buffer are trimmed before the five are
  there. The deduplicator remembers one segment (`RepeatWindow`; the default is 8),
  so that with three decodes a segment does come again after it was forgotten. A
  transcript of three is cut in the second decode that completes something.
* One client retries and one does not; two segments with times that are the same,
  follow each other or overlap tell a completed one, a repeated one, one that is
  refused and the last partial apart; three blocks with files of two leave one block for
  the last file.

`MaxChunks`, `MaxGen`, `MaxAdded`, `MaxAudio` (`AsrSession`, `SegmentPath`), `MaxTime`,
`MaxEvents`, `MaxProcesses`, `MaxClicks`, `FailureCost`, `MaxEntries`, `MaxLines`,
`MaxWords`, `Overrun`, `Spans`,
`MaxRequests`, `MaxTokens`, `MaxRounds`, `MaxSegments` and `MaxPackets` are bounds of the
model; the other constants are parameters of the code. `MaxExponent` stands for
the largest exponent for which `2**exponent` can still be multiplied with a float,
1023 in the code; the value in the configurations only decides whether the
exception is reached.

### 4.2 Where the code does something else than it says

`findings` in `PROJECT.json` quotes the line of the repository each of these
contradicts. They were seen as counterexamples while the properties of section
4.1 were worked out. No run keeps them: the properties that hold are stated
with the condition under which they do.

| Where | What the code does | What holds instead |
|---|---|---|
| `client_reconnect.py:245` | `_handle_status` does not know which connection a status comes from: a receiver that waited for the lock during a reconnect takes the new connection offline, and the next `send` tears it down | no audio is lost or reordered by it (`ImplementsDelivery`) |
| `client_reconnect.py:219` | segments of a former epoch are dropped as redundant; the audio of a write that succeeded is never sent again | every segment that is not dropped is mapped on its own epoch (`MapsInOwnEpoch`) |
| `session.py:887` | the final drain sends what is queued, muted or not | the drain is complete (`DrainComplete`) |
| `session.py:556` | entries are written after `transcript_lock` is released: the later batch can be written first | they are released in order and written once (`ReleasedInOrder`, `WrittenOnce`) |
| `faster_whisper_backend.py:202` | a peer that leaves while its model loads: `SERVER_READY` fails after the recognition thread was started, the session is never registered and its thread never stopped | what was registered is released (`EndedIsReleased`) |
| `faster_whisper_backend.py:381` | new segments are cut out of the transcript by its former length, which stops growing at 500: from then on nothing finalised is sent | up to the cap everything is sent (`SentUpToTheCap`, and with `SegmentPath` `HeardIsSent`: the standard path cuts the same way) |
| `qt_client.py:1646` | the flags of failures that were shown are reset when start is clicked, the failures themselves when the new session is spawned; a timer tick in between unchecks the button and stops nothing, and the new session records behind "Start Recording" | unless such an abort, or a click, falls while a start is pending (`rushed`), the window is true (`WindowIsTrue`) |
| `client.py:374` | a close closes the socket and then joins the thread there is; a retry that replaces both in between, or while the close waits, leaves it waiting for a connection nobody closes | the call returns unless a close misses the connection (`CallEnds`) |

### 4.3 Conditions in the properties

Some properties hold only under a condition, which is then part of the
property, and each condition marks a place where the code promises less than one
might think:

* `HandshakesAreSafe` holds as long as no two handshakes overlap. When they do,
  the server may admit more than `max_clients` (the check and the registration,
  server.py:490 and 400, have the loading of the model between them), build a
  session with another peer's `use_vad`, and start two workers. The application
  itself connects its two sources from two threads at once
  (`_connect_clients_parallel`).
* `SkippedWasHeard` excepts a trim of the buffer during a round (`overtaken`), and
  `AnchorInAudio` a trim during a decode (`jumped`): the anchor is moved by the
  receive thread, and the result is then added to the moved anchor.
* `FlushSeesTheTail` excepts a flush asked for between the capture of the window
  and the second look at the flag (`late`): its tail is not decoded. It also speaks
  of one window only, which is all a flush decodes.
* `SentUpToTheCap` ends where `MAX_TRANSCRIPT_LENGTH` is reached.
* `ReleasedInOrder` holds while no result is later than `reorder_delay_seconds`
  allows (`timely`), `WrittenOnce` counts releases once while the keys fit in the cache.
* `CandidatesDiffer` holds within the window and while not more than `max_cache`
  candidates came in between.
* `LossIsCounted` allows two uncounted chunks for each reader that lost the room
  it had made (capture.py:368 passes over the second `queue.Full`).
* `ArchiveIsComplete` allows chunks outside the files at the end only if a write
  failed (`writeFailed`).
* `MapsInOwnEpoch` is checked with callbacks that end within the 2 s join. A
  callback that outlasts it maps a segment of the old connection on the
  timeline of the new one.
* `WindowIsTrue` and `TranscriptKept` except clicks while a start is pending
  (`rushed`): nothing orders the threads of a start and of the stop after it, and a
  stop that comes first finds nothing to stop. The abort that shows a failure is
  such a stop: when the failure is that of an earlier session and a start is
  pending, it counts as rushed too. Transcripts are kept and mutes
  agree unless a start was clicked while a stop was pending (`overlap`: the new
  session may empty the file before it is archived), mutes agree unless two mute
  clicks were pending at once (`crossed`). That an unmuted window has an unmuted
  session excepts one more case (`late`): the start's runner has seen the button muted
  and has yet to send its mute (qt_client.py:1661-1662); an unmute in between may be sent
  before it, and the session stays muted.
* `TranscriptKept` speaks of final entries, since candidates are not archived, and
  excepts those a failed archive held (`unarchived`).
* `FrameLossIsCounted` excepts the block that the empty frame of a failed recorder
  evicts, and `ChunkKeepsItsPlace` is exact up to the lag of the clock that stamps
  the frames (`MaxLag`).
* `FinalisedForward` does not say that a sound is finalised once. The code knows a word
  again only by its end: one that is decoded again and ends more than 0.05 s after
  what is final is new (local_agreement.py:74).
* `SubtitlesAreWhole` allows a completed segment to be missing if a cue reaches into its
  time, and speaks of cues before the last partial is appended; `RecordingIsWhole`
  excepts a writer that outlived the recording (`missing`) and a file that is written
  twice (`twice`), and does not count a block that Ctrl+C finds read but not kept;
  `CallEnds` begins when the stream has started, because the wait for the servers may
  never end, and excepts a close that misses the connection (`missed`).
* `SegmentsInOrder` speaks of segments that got words, when words were asked for; one
  without may overlap its neighbours. On the time of the audio two segments may reach
  into each other by what the aligner lets words grow, `MaxMedian - Long` on each side.
* `HeardIsSent` says that clear speech is sent until the transcript is cut (`cut`).
* `SentOnce` excepts a segment that comes again more than `RepeatWindow` sent segments
  later, once an output has been completed because it repeated alongside other
  segments of its result (`alongside`): the anchor is then set to the end the output
  had when it first came, which may lie before the end of what was completed with it
  (base.py:702), and the same audio is decoded again.

### 4.4 Fairness

| Module | Fairness | Why |
|---|---|---|
| `ReconnectClient` | weak on the caller's steps, and on each receiver | threads are scheduled, joins and waits have timeouts; nothing is assumed of the network, the server, or the session's wish to send |
| `ChunkPipeline` | weak on the main thread | its joins, drain and flush are bounded in time; readers may hang in a device |
| `ServerSessions` | weak on each handler's own steps, model loading included | nothing is assumed of peers; a peer that stays silent keeps its handler |
| `AsrSession` | weak on the recognition loop, a decode returning included | nothing is assumed of the peer or of when a flush is asked for |
| `Desktop` | weak on the desktop's work as a whole: runners, monitors, the Qt loop's signals and timer checks | daemon threads are scheduled, their waits are bounded and each has finitely much to do, so that fairness to each of them follows; nothing is assumed of the user, and a session process may hang for ever |
| `Workers` | weak on the batch worker and on each translation thread | the recogniser and the translation model return or raise; nothing is assumed of when sessions submit or are cleaned up |
| `UpstreamClient` | weak on the main thread and on each WebSocket thread's own steps | nothing is assumed of what servers send or when they close; that a source ends (a file, `record_seconds`, a network stream) is assumed, as a model's source has finitely many blocks |

No strong fairness is used. `TranscriptMerge`, `TranscriptEvents`, `Transcriber`,
`Capture` and `SegmentPath` state no liveness and no fairness; that the loop of
`Transcriber` ends follows from the invariant `EveryRoundAdvances`.

## 5. Proofs

Checked by TLAPS for every value of the constants, under the assumptions each
module names (`ConstantsAssumption`, `WorkersAssumption`, ...; `TranscriptMerge` adds
that the main thread is no source). These are what the code's configuration
guarantees: counts are natural numbers, a queue has room for one, a trim is no
longer than the buffer.

**`ReconnectClientProofs`**: `TypeCorrect`, `FatalNeverReconnects`. `TypeOK` is not
inductive: that a client object belongs to an epoch whose handshake ended depends
on how the caller got there. `Control` ties `pc`, `op`, `cur` and `buffer` together;
`Epochs` says that epochs after `generation` have never been used, and that a caller
about to join or to open a socket has seen no refusal. The last part survives the
steps of the receivers for two different reasons: a reconnect holds the lock that a
receiver needs to set `fatal`, and `connect_initial`, which does not hold it, runs
before any receiver exists.

Its second part proves `SegmentsMapInOwnEpoch`, assuming that callbacks end within
the join's timeout (`~SlowCallback`; with a slower one the property is false). `Own`
says that the timeline is what the current epoch was sent, that a segment comes from
a stream that is ready and not refused, that an epoch whose handshake failed never
gets one, and that nobody is about to map when an epoch is opened: an old client is
joined first, so its receiver has ended or waits for the lock, which `send` and
`flush_buffer` keep until the new generation is set.

Its third part proves `DeliveryInOrder` and `DeliveryAccounts` of `AudioDelivery`, with
the client's expressions in the place of that module's variables. The order within
and across connections is inductive once `Admitted` is added to it: whatever is
written, waits or was dropped was admitted, and nothing is on a connection not yet
opened. `KeepsNewest` belongs to the same invariant, because what is delivered next
must be newer than what is already there.

Its fourth part proves `ClientImplementsDelivery`, and through it `AudioInOrder`,
`NoSilentLoss`, `NewestSurvives`. The mapping: what `AudioDelivery`
calls pending is the ring buffer followed by the chunk in `send`'s hand, the epoch
is the generation. A failed write with its put-back, every status and every
lock step is a stutter; a write delivers the oldest pending chunk (`PendingHead`);
an eviction drops it. The invariants of the abstract specification then hold of
the client without a second proof; `NoSilentLoss` (`EveryChunkAccounted`) is only
proved, no run repeats it.

**`ChunkPipelineProofs`**: `TypeCorrect`, `ChunksStayInOrder`, `ReadersAreDrained`,
`EveryLossIsCounted`, `ArchiveLacksNothing`. Order is not inductive, since what is
sent next may come from the main thread's hand, the queue or a reader. `Flow` says
where the chunks of one source may be: what the client and the archive hold is
ahead of what the main thread has in hand, that is ahead of what is queued, and that
is ahead of what the reader has in hand; all of it has been made. The archive holds
whatever the client holds, because `HandOver` saves before it sends. `Control`
says who has a chunk in hand, and that a reader that was joined has ended, which is
why an empty queue at the end of the drain means that nothing is left. For the
losses, each step names a finite set of chunks it may lose (`Loses`: at most the one
evicted, refused, muted or pushed out of a ring buffer), and the sum of the counters
grows by at least as many (`Counted`, `LosesMost`); that the readers are finitely
many is all the cardinalities need. `Closed` adds that a session that has closed
without a failed write left nothing for a next file.

**`TranscriptMergeProofs`**: `MergerReleasesInOrder`, `ResultsAreWrittenOnce`. What
keeps releases in order over several batches is the watermark, newest start minus
delay: while results are timely everything released lies at or below it and
everything pending lies above it (`Watermarked`). It never moves back, so a batch,
sorted, may be put after all the earlier ones, and the final flush releases only
what lies above it. That everything is written once needs another invariant
(`WInv`): entries carry the number of their addition, so what is pending and what
was released share none (`Numbered`); what was released is what was written and what
the threads hold, and no two of these share an entry (`Written`); the main thread
holds nothing before its flush (`MainWaits`); and while no key was forgotten every
key is remembered (`Remembered`).

`EventsImplementMerge` shows that `TranscriptEvents`, the emitter with its candidates,
refines the merger: a candidate is a stutter. `EventsMergeSafely` takes both
properties over. `CandidatesAreNotRepeated` (`CandidatesDiffer`) needs to know what the
bucket of a source is (`IsBucket`): the candidates at some increasing places of the
transcript, such that any other candidate of the source has expired or has at
least `max_cache` later ones behind it. Expiry takes the bucket's front, the cap takes its
front too, and a candidate is appended at the end of both, so the places keep
increasing (`BucketExpires`, `BucketPushes`, `BucketAppends`); a candidate that is let through
differs from all in the bucket, and those outside no longer count.

**`ServerProofs`** has a section for each of three models of the server.

Of `ServerSessions`: `TypeCorrect`, `RegisteredIsReleased`,
`SequentialHandshakesAreSafe`. `Registry` says what a handler holds at each of its
steps; `Alone` says that without overlap at most one connection is in its
handshake, so that what it saw at the check is still true when it registers
(`Safe`).

Of `Transcriber`: `RecognitionAdvances`, `SegmentsComeInOrder`. Most of the work is in
what one round makes of an answer. `SplitIsSound` says what
`_split_segments_by_timestamps` does with any legal tokens: its segments follow each
other inside the window, and seek moves. `AlignedFacts` and `PlainFacts` say the same
of the segments with and without words: what the aligner cuts, begins earlier or lets
end later leaves a moment between two segments that one does not pass and the other
does not begin before (`Parted`, `WellSpaced`), and each stays near its words. `WordSeekFacts` and
`JudgeFacts` that the seek after the last word and the hallucination filter move seek
forward and drop only segments from the end, `RoundFacts` sums up. The loop then
keeps `Walked`: the segments that have words are clear of each other (`ClearOf`) and over
where the speech heard so far ends and, while another round may come, where it begins
(`Passed`). `Brought` says where they are put at the end: a later chunk of the
filter has more silence before it (`SilenceGrows`, by counting the units outside
speech) and lies later (`ChunkAtFacts`), so that adding the silence keeps the order.
That a set of numbers can be put in order (`InOrderIs`) is proved from the
well-foundedness of `<`, by taking a smallest counterexample.

Of `SegmentPath`: `AnchorStaysInAudio`, `PathTypeCorrect`. While a result is awaited it
is the end of its window that lies in the audio (`Reach`), as the anchor may come
to be there; `OutputFacts` says that it comes no further, because the end of a
segment (`EndFacts`) and that of the repeated output are bounded by the window, and
because the repeated output has an end once it is counted.

Also of `SegmentPath`: `NothingIsSentTwice`, `HeardSpeechIsSent`. A result is sent by a fold
over its segments, which `SendSteps` unrolls as in `ClientProofs`; along it `SentFacts` keeps
`Sound`, which ties the stabilizer's three memories to the histories. `Remembers`: the
deduplicator holds the last segments that were sent, so that a segment it refuses was
sent as it is, and two equal ones are far apart (`Apart`). `Waits`: the pending texts are
those that were held in the last `MaxPendingAge` turns and not sent since, each with its
last turn. `Notes`: the reviewed texts are the last that were sent for review. From these
two `Decided` follows for one verdict after the other: `SeenBefore` looks at the deques,
`HeardBefore` at the history, and they agree (`SeenIff`). That a seen text scores no less
than an unseen one (`ScoreFacts`) makes the two thresholds of `Weak` decide.

One hypothesis is needed. The deque of pending texts drops its oldest when it is full,
and what it drops may be young enough to count. `PendingFew` shows that it never is full:
a turn holds one text at most and an item leaves after `MaxPendingAge` turns, so that
`MaxPendingAge < PendingWindow` (4 and 12 in postprocessing.py:72) is enough.
`HeardSpeechIsSent` assumes it; that clear speech is sent, and `NothingIsSentTwice`,
do not use it.

For the latter `Behind` says that until something is completed `alongside` all that was sent
lies behind the anchor, in segments that differ: the pieces kept of a result follow each
other (`KeptLine`) from the anchor to where it goes (`AppendedFacts`), and nothing puts it
back. After that `Apart` is all that holds.

**`AsrSessionProofs`**: `TypeCorrect`, `NothingSkippedUnheard`,
`FinalityMovesForward`, `EverythingSentUpToTheCap`, `FlushTakesTheTail`,
`AnchorMovesForward`. The invariant has one part per idea: `Round`, the window of
the round in progress lies inside the audio received; `Anchor`, nothing between the
start of the buffer and the anchor is unheard, and without a trim in the round the
window starts at the anchor; `Followed`, the anchor has reached the confirmed
point minus what is retained; `Behind`, every final segment ends by the confirmed
point, so that new words, which end beyond it, end after all that is final, whatever
texts and places they agree by;
`Complete`, until the cap is reached the transcript, the finals and what was
delivered are the same sequence; `Flushing`, once a flush is asked for no more audio
comes, and a round that will answer it has taken all there was, or the flush
came late. The lemma `GreatestExists` (a non-empty set of naturals with a bound has a
greatest member) is proved from the well-foundedness of `<`. `AnchorMovesForward`
(`AnchorMonotone`) is only proved.

**`WorkersProofs`**: `SessionsGetTheirOwn`, `SegmentsAreTranslatedInOrder`. `InPlace` is
the heart of the first: a result stands in `final` at the place of the request it
was decoded from, although the items of a later temperature are decoded at other
positions. `OwnAnswer` carries it on: an answer with a text carries the text of its
request; `Held` and `Submitted` say that the worker and the sessions only handle
requests that were made. An answer that comes after the 30 s goes to the old
request, and the session, which has a new one, does not look at it.

For the second, `Way` follows a segment: what is shown, then what the translator has
in hand, then what is queued, is what the session finalised, in that order and
without what a full queue dropped. Every step of the translator moves the
boundary between two parts of `Way` and leaves the whole alone. A dropped segment
must not be confused with a later one, which is what `Earlier` is for: a session
numbers its windows, and what it finalised or dropped has an earlier number than
the window it waits for.

**`DesktopProofs`**: `TypeCorrect`, `SessionsTakeTurns`, `NoSessionIsHidden`,
`TranscriptsAreKept`, `WindowTellsTheTruth`. One session at a time is not inductive:
`Known` adds that a process that lives is the one `STATE` holds. `Spawn` then needs
only its own look at that process, whatever the runners before it waited for.

That no session is hidden is a statement about the end of all runners; what holds
on the way is `Covered`: when the window does not show a session, or will not once
it has heard of a refused start, and a process lives, then some pending stop will
end that process (`Ends`: it has still to look, or it has looked and holds this
process). `OneStart` says that there is one pending start at most, which refuses
at most once. Both need that nobody clicked while a start was pending.

That transcripts are kept rests on when the file is emptied. `Resting` says that
when nothing is pending and no session is shown, none lives and all that was written
is in the history, was a candidate, or was in a file whose archive failed (`Archived`),
and that a process that has not booted finds it so. `OneStop` says
that a stop knows the process it ends, and archives when that one is dead;
`FileWhole` that a session finds no broken line before its own, so that its appends
(`AppendKeepsWhole`) do not make an entry unreadable; `AllKept` is the property.

For mute, `Muting` says that a session that runs behind a window which says muted
was told so last, or that a runner is under way that will tell it; `Unmuting` the same
of one that says unmuted, for which only a mute click will do; `InTime` that without a
late unmute no start is about to send a mute the window no longer shows; `OneMute`
that a single mute click is pending and says what the window shows. `Told` restates the
property over what was read and what is still in the pipe, where it follows each
append and each read.

**`ClientProofs`**: `CaptureTypeCorrect`, `LostFramesAreCounted`, `SoundStaysInPlace`,
`SpeechIsNotHeldBack`, `SubtitlesStayWhole`, `RecordingStaysWhole`. The invariant of
`Capture` has one part per idea. `EmptyIsLast`: an empty
frame comes from a failed recorder, and nothing comes after it. `LossKnown`: what was
heard and is neither read, nor queued, nor in the producer's hand, is counted, or
about to be, or is the one block the empty frame evicts. `InLine` and `ChunksInLine`:
the sound of the chunks, then of the window, of the queue and of the hand follow each
other in time, whatever was lost between. `Dated`: stamps are late by `MaxLag` at
most and the origin is the stamp of the first frame ever read, and that frame's first
unit is the first of the first chunk. `ShortWindow`: a window is cut as soon as it is
long enough, so that less than a frame is refused per chunk. From these a chunk that
is cut later starts later by at least what lies between: its position is that of its
sound up to the lag, which takes the division lemmas (`DivMod`, `DivLess` and others) to
say in which frame a unit lies. `HangoverHolds`: a chunk with a voice leaves a hangover that
shrinks by one per chunk, so that no chunk within it is held back.

Its second part is about `UpstreamClient`. `process_segments` is a fold over a message:
`FoldExists` shows that the fold takes one segment after the other, and
`ProcessSteps` carries a fact along them, counting up by the well-foundedness of `<`.
`TextInv` says that cues follow each other in time (`Follow`) whatever connection they come
from, since a segment is only taken from the end of the last cue on, and that each
completed segment that was received is a cue or begins before one ends (`Shown`): it was
refused for that reason or as a repeated one, and a cue stays. `MessageFacts` is the same
of one message. `RecordingInv` says that, unless a file was saved whose blocks the next
one repeats (`twice`), the files saved or still with a writer, then the blocks in hand, are
runs of consecutive numbers with no gap between (`LaidOut`), in the order of their
numbers and not of their writers. Between the start of a writer and the reset of
`frames`, the steps Ctrl+C may part, the blocks are with the writer already (`Unsaved`)
and the number is one too small until it is counted (`FileCount`). `FlattenIs` puts them together when the recording is combined.

What stays with TLC: every liveness property (`CallsReturn`, `SessionEnds`,
`HandlerEnds`, `FlushIsAnswered`, `EndsAreSeen`, `NobodyWaitsForEver`, `CallEnds`), since
fairness and ENABLED are out of the prover's reach. Every safety property that a run
checks is also proved. No module declares a RECURSIVE operator.

## 6. Seen while modelling, without a property of their own

On the client:

* **Remainders of windows.** A window may be longer than `chunk_seconds`;
  preprocessing cuts it and refuses a remainder below `min_chunk_seconds`
  (core.py:111). At 16 and 48 kHz this refuses about 12 ms of every half second,
  and the last partial window of a reader (capture.py:386) always. `SoundInOrder`
  bounds what is refused by less than a frame a window.
* **Backoff overflow.** After 1023 failed attempts `2**exponent` times a float
  raises `OverflowError` (client_reconnect.py:267). Out of `send` the session catches it,
  counts a dropped chunk and goes on (session.py:707-715). `reconnect_buffer` reaches this
  branch: the chunk is in the ring and is neither lost nor put out of order by it.
* **Late results.** A result that arrives after the only flush of the merger
  (session.py:752) stays in it and is never written, although the receivers still
  run.
* **A broken pipe during finalisation.** `_print` between the drain and
  `finish_audio` (session.py:733, 736) is not guarded: if stdout has gone, no
  END_OF_AUDIO is sent and the merger is not flushed.
* **Archive.** A write that fails drops the live chunk as well (session.py:683-690,
  counted). The archived file puts chunks next to each other without the gaps of
  mute and drops. `rolling_archive.close()` at the end is not guarded, but a raise
  skips only the summary.
* **Statuses.** `OUTDATED_CLIENT` and `CLIENT_TLS_ERROR` do not end the session;
  only `ERROR` does, or a lost connection without reconnect. The end of stdin
  stops nothing.
* **Transcript file.** `load_transcript_entries` says that broken lines are skipped
  (logging.py:490-494), but a process killed inside a multi-byte character makes
  `read_text` raise for the whole file (logging.py:500). The archive then fails, nothing tries it
  again, and the next session empties the file: all of it is lost.
* **A late unmute.** `start_live` looks at the button and then sends the mute; an unmute
  clicked in between may be sent first, and the session stays muted behind a window
  that says otherwise (qt_client.py:1661-1662).
* **Capture.** The empty frame that reports a failed recorder evicts a block that
  nobody counts, and the failure is only seen if that frame is the first of its
  window. A stream whose `start` fails is only logged (session.py:600-606) and its
  reader polls until the stop. `drain()` has no caller: what is queued at the stop
  is lost. `frames_dropped` is read nowhere. If a device stamped some frames and
  not others, the two clocks would be mixed and times clamped to 0.

On the server:

* **Formats.** A session whose construction raises is never registered, and
  `cleanup` only runs for what the registry knows (server.py:598): its entry in
  `audio_formats`, made at server.py:497, stays. So does its translation thread,
  which was started before (server.py:233-260). A failed TensorRT or OpenVINO
  construction switches `self.backend` for every later connection.
* **Silent peers.** The connection time is only tested between two frames
  (server.py:588): a peer that stays connected and sends nothing keeps its slot.
* **Long backlogs.** A final flush decodes one window and ends the loop
  (base.py:396): a backlog longer than the window is not decoded.
* **Silence.** With local agreement a window in which no word is recognised
  never confirms anything (local_agreement.py:77-79), so the anchor waits
  and audio past that window is not decoded until the buffer is trimmed at 45 s.
* **Batches.** A batch of several does not restore the times of the audio after
  the voice activity filter, and decodes the full audio when the filter finds no
  speech, unlike a batch of one. The worker keeps the transcriber of the first
  session. A request that is not answered in 30 s is passed over without a trace.
  `BatchInferenceWorker.stop()` has no caller.
* **Standard recognition.** The repeated output can complete a segment that
  overlaps one completed in the same round. `end_time_for_same_output` is relative
  to the anchor of an earlier round and can skip audio that was not transcribed,
  against the comment at base.py:669-670.
* **Post-processing.** A completed segment that is held as pending is never sent
  unless its text is heard again within four turns; a short partial without a good
  log probability is always pending (0.695 against 0.70). After 500 segments the
  standard path sends nothing completed either, whatever the stabilizer thinks of it.
* **Overlaps.** A word decoded again with a later end is finalised again under local
  agreement (local_agreement.py:74), a repeated output may be completed before the end of
  what was completed with it, and the aligner may let words of two segments reach into
  each other. The clients get segments that overlap.
* **Diarisation.** An id whose speaker was enrolled by name can be given again to
  a new one (`_next_speaker_id`, `enroll_speaker`).

The upstream client:

* A retry starts the server's time at 0, so completed segments are discarded until
  they pass the old timeline. `on_error` sets `server_error`, so a network error is
  never retried. A WAIT or ERROR that `on_close` resets before the next poll is not
  noticed, and `__call__` waits for ever. `close_websocket` with retries left can
  leave a new connection open, or wait for it for ever (section 4.2).
* A completed segment that begins before the last cue ends is not shown (client.py:185).
* Ctrl+C between the count of a file and the reset of `frames` (client.py:718-719) saves the
  same blocks again in the last file; a block that was read and not yet kept is lost.
* END_OF_AUDIO is sent and the subtitles are written at once, so what the flush
  brings is not in the file; the last partial, which may be stale, is. `record()`
  that ends by itself neither sends END_OF_AUDIO nor closes nor writes the recording.

## 7. Not modelled

* Signal processing, voice activity and diarisation models, resampling: numeric
  code without shared state. Their effect on control (a chunk is kept or not, a
  window is cut, a hypothesis contains a word, a score) is a free choice in the
  models, within what the code can make of it.
* Speaker clustering (`diarization.py`), metrics, logging and version comparison.
* The text of transcripts, where no property is about it: normalisation, regular
  expressions, formatting. In `AsrSession` a word is one of a few texts with a place and
  an end, in `Stabilizer` a text is what is known of it, its scores among it.
* In `Transcriber`, the cut of long words at the end of a sentence
  (transcriber_faster_whisper.py:1552-1570), which shortens words in place: the outcome is that
  of another alignment in time order, and any of those is taken.
* The arithmetic of `SentAudioTimeline` on seconds; in `ReconnectClient` a timeline
  is the sequence of chunks sent in the epoch.
* The preview, quality tracking, the debug archive of single chunks and statistics
  other than the counters `LossIsCounted` and `FrameLossIsCounted` need.
* Clock arithmetic: backoff delays, hop timers and drain times are moments that
  may come at any time. Bounds such as "within 5 s" are therefore not checked.
* Choosing and opening devices, the macOS stub, the one-shot recorder.
* Dialogs, rendering, settings and export of the GUI; building command lines and
  parsing options, files and status lines; the rotation of the process log.
* The TensorRT and OpenVINO back ends, the REST endpoints, the batched pipeline and
  the other vendored transcribers, model loading and conversion: not what the
  application runs, or third-party code.
* The replay of files, which sends one chunk after the other in one thread.

---------------------------- MODULE UpstreamClient ----------------------------
(***************************************************************************)
(* The client that ships with WhisperLive (client.py): one Client per      *)
(* server, each with a WebSocket thread whose callbacks fill the client's  *)
(* transcript, and the TranscriptionTeeClient whose main thread waits for  *)
(* the servers, streams a file or the microphone to all of them, waits for *)
(* the last words, writes the subtitles and closes.                        *)
(*                                                                         *)
(* A message brings completed segments and at most one partial after them  *)
(* (handle_transcription_output of the server).  Their times need not      *)
(* follow each other: a connection counts from 0, a repeated output is     *)
(* completed from the anchor on although others were completed beside it,  *)
(* and a word decoded again may come later than the one it repeats.  A     *)
(* callback runs as one step: the messages of a connection have one        *)
(* consumer.                                                               *)
(***************************************************************************)
EXTENDS Integers, Sequences, FiniteSets, SequencesExt

CONSTANTS
  Clients,      \* the number of clients of the tee
  MaxRetries,   \* max_retries of each client, 0 unless its caller asks for more
  MaxSegments,  \* bound of the model: segments a client is sent, for each
                \* source and client
  Spans,        \* bound of the model: pairs of times, from when to when a
                \* segment may be
  MaxPackets,   \* bound of the model: blocks each source has
  SaveAfter,    \* blocks that are saved as one file of the recording
  Texts         \* what a segment may say

ASSUME UpstreamAssumption ==
  /\ Clients \in Nat \ {0} /\ MaxRetries \in [1..Clients -> Nat]
  /\ \A s \in {"file", "network", "live"} :
       MaxPackets[s] \in Nat /\ MaxSegments[s] \in [1..Clients -> Nat]
  /\ SaveAfter \in Nat \ {0}
  /\ Spans # {} /\ Spans \subseteq {p \in Nat \X Nat : p[1] <= p[2]}

C == 1..Clients

VARIABLES
  net,          \* the connection and its thread
  recording, waiting, serverError, retries,
  threads,      \* WebSocket threads started so far
  done,         \* the server's side: segments completed for this client
  missed,       \* history: did a close miss the connection to be joined?
  transcript,   \* transcript
  last,         \* last_segment, a sequence of at most one
  got,          \* history: the completed segments the messages brought
  source,       \* "file", "network" or "live"
  pc,           \* the main thread
  next,         \* the client it deals with
  target,       \* the thread it joins
  blocksRead,   \* blocks read from the source and, live, kept in frames
  frames,       \* blocks not saved yet
  number,       \* n_audio_file
  writers,      \* save_chunk threads that have not written their file
  files,        \* the files of the directory "chunks"
  output,       \* the output recording
  missing,      \* history: did a writer outlive the recording?
  twice         \* history: was a file saved that the next one repeats?

clientVars == <<net, recording, waiting, serverError, retries, threads,
                done, missed>>
textVars == <<transcript, last, got>>
recordVars == <<blocksRead, frames, number, writers, files, output, missing,
                twice>>
mainVars == <<pc, next, target>>
teeVars == <<clientVars, textVars, source, mainVars, recordVars>>

TeeInit ==
  /\ net = [c \in C |-> "connecting"]
  /\ recording = [c \in C |-> FALSE] /\ waiting = [c \in C |-> FALSE]
  /\ serverError = [c \in C |-> FALSE] /\ retries = [c \in C |-> 0]
  /\ threads = [c \in C |-> 1]
  /\ done = [c \in C |-> 0] /\ missed = FALSE
  /\ transcript = [c \in C |-> <<>>] /\ last = [c \in C |-> <<>>]
  /\ got = [c \in C |-> {}]
  /\ source \in {"file", "network", "live"}
  /\ pc = "await" /\ next = 1 /\ target = 0
  /\ blocksRead = 0 /\ frames = <<>> /\ number = 0
  /\ writers = {} /\ files = {} /\ output = <<>>
  /\ missing = FALSE /\ twice = FALSE

-----------------------------------------------------------------------------
(* The callbacks of client c's WebSocket thread *)

Opens(c) ==
  /\ net[c] = "connecting"
  /\ net' = [net EXCEPT ![c] = "open"]
  /\ UNCHANGED <<recording, waiting, serverError, retries, threads, done,
                 missed, textVars, source, mainVars, recordVars>>

(* on_error: there is no server, or the network fails.  on_close follows.  *)
Fails(c) ==
  /\ net[c] \in {"connecting", "open", "ready"}
  /\ net' = [net EXCEPT ![c] = "shut"]
  /\ serverError' = [serverError EXCEPT ![c] = TRUE]
  /\ UNCHANGED <<recording, waiting, retries, threads, done, missed,
                 textVars, source, mainVars, recordVars>>

Ready(c) ==
  /\ net[c] = "open" /\ ~waiting[c] /\ ~serverError[c]
  /\ net' = [net EXCEPT ![c] = "ready"]
  /\ recording' = [recording EXCEPT ![c] = TRUE]
  /\ UNCHANGED <<waiting, serverError, retries, threads, done, missed,
                 textVars, source, mainVars, recordVars>>

(* WAIT and ERROR, which the server sends before it closes. *)
Refused(c) ==
  /\ net[c] = "open" /\ ~waiting[c] /\ ~serverError[c]
  /\ \/ waiting' = [waiting EXCEPT ![c] = TRUE] /\ UNCHANGED serverError
     \/ serverError' = [serverError EXCEPT ![c] = TRUE] /\ UNCHANGED waiting
  /\ UNCHANGED <<net, recording, retries, threads, done, missed, textVars,
                 source, mainVars, recordVars>>

(* DISCONNECT: the session was too long. *)
Overtime(c) ==
  /\ net[c] = "ready" /\ recording[c]
  /\ recording' = [recording EXCEPT ![c] = FALSE]
  /\ UNCHANGED <<net, waiting, serverError, retries, threads, done, missed,
                 textVars, source, mainVars, recordVars>>

(* What update_segments of the server may complete, in any order of time, *)
(* and send after it.  The time of a partial is of no consequence here.    *)
Segment(p, t) == [start |-> p[1], end |-> p[2], text |-> t]
Spoken == {Segment(p, t) : p \in Spans, t \in Texts}
Partial(t) == Segment(CHOOSE p \in Spans : TRUE, t)

(* A completed segment is taken if it starts after what is there already. *)
IsNew_Always(seg, t) == TRUE
IsNew(seg, t) == IF t = <<>> THEN TRUE ELSE seg.start >= Last(t).end

(* process_segments for the completed ones: of two in a row with the same  *)
(* text the second is passed over, and what is the last of the message is  *)
(* a partial only if it is not completed.                                  *)
Distinct(msg) ==
  {i \in DOMAIN msg : i = 1 \/ msg[i].text # msg[i - 1].text}
Taken(msg) == Distinct(msg)

Process(t, msg) ==
  FoldLeft(LAMBDA u, i : IF i \in Taken(msg) /\ IsNew(msg[i], u)
                           THEN Append(u, msg[i]) ELSE u,
           t, [i \in DOMAIN msg |-> i])

Segments(c) ==
  /\ net[c] = "ready"
  /\ \E msg \in SeqOf(Spoken, 2), partial \in SeqOf(Texts, 1) :
       LET echo == msg # <<>> /\ partial # <<>> /\ Last(msg).text = partial[1] IN
         /\ msg # <<>> \/ partial # <<>>
         /\ done[c] + Len(msg) + Len(partial) <= MaxSegments[source][c]
         /\ done' = [done EXCEPT ![c] = @ + Len(msg)]
         /\ transcript' = [transcript EXCEPT ![c] = Process(@, msg)]
         /\ last' = [last EXCEPT ![c] =
                       IF partial = <<>> \/ echo THEN @ ELSE <<Partial(partial[1])>>]
         /\ got' = [got EXCEPT ![c] = @ \cup {msg[i] : i \in Distinct(msg)}]
  /\ UNCHANGED <<net, recording, waiting, serverError, retries, threads,
                 missed, source, mainVars, recordVars>>

ServerCloses(c) ==
  /\ net[c] \in {"open", "ready"}
  /\ net' = [net EXCEPT ![c] = "shut"]
  /\ UNCHANGED <<recording, waiting, serverError, retries, threads, done,
                 missed, textVars, source, mainVars, recordVars>>

(* on_close, however the connection ended: after an error there is no      *)
(* further attempt.                                                        *)
Retries(c) == retries[c] < MaxRetries[c] /\ ~serverError[c]

OnClose(c) ==
  /\ net[c] = "shut"
  /\ recording' = [recording EXCEPT ![c] = FALSE]
  /\ waiting' = [waiting EXCEPT ![c] = FALSE]
  /\ IF Retries(c)
       THEN /\ retries' = [retries EXCEPT ![c] = @ + 1]
            /\ net' = [net EXCEPT ![c] = "sleeping"]
       ELSE net' = [net EXCEPT ![c] = "closed"] /\ UNCHANGED retries
  /\ UNCHANGED <<serverError, threads, done, missed, textVars, source,
                 mainVars, recordVars>>

(* After retry_delay the thread starts its successor and ends.  A close    *)
(* that has closed the old socket and has not picked its thread yet will   *)
(* pick the new one.                                                       *)
Reconnect(c) ==
  /\ net[c] = "sleeping"
  /\ net' = [net EXCEPT ![c] = "connecting"]
  /\ threads' = [threads EXCEPT ![c] = @ + 1]
  /\ missed' = (missed \/ (c = next /\ pc \in {"pick", "abortpick"}))
  /\ UNCHANGED <<recording, waiting, serverError, retries, done,
                 textVars, source, mainVars, recordVars>>

-----------------------------------------------------------------------------
(* The main thread: __call__ *)

GoTo(place, n) == pc' = place /\ next' = n

(* The loop polls the flags of one client after the other.  A refusal it   *)
(* does not see before on_close resets the flag leaves it waiting.         *)
Await ==
  /\ pc = "await"
  /\ \/ /\ recording[next]
        /\ IF next = Clients THEN GoTo("stream", 1) ELSE GoTo("await", next + 1)
     \/ /\ ~recording[next] /\ (waiting[next] \/ serverError[next])
        /\ GoTo("abort", 1)
  /\ UNCHANGED <<clientVars, textVars, source, target, recordVars>>

(* play_file and process_av_stream: one block, to every client that is     *)
(* recording.  A network stream is read on when there is none.             *)
Recorded == \E c \in C : recording[c]

Stream ==
  /\ pc = "stream" /\ source # "live"
  /\ blocksRead < MaxPackets[source] /\ (source = "network" \/ Recorded)
  /\ blocksRead' = blocksRead + 1
  /\ UNCHANGED <<clientVars, textVars, source, mainVars, frames, number,
                 writers, files, output, missing, twice>>

(* record, between whose steps Ctrl+C may come: a block of the microphone  *)
(* is read, kept for the recording (and sent, which changes nothing here), *)
(* and when there are many a thread is started that saves them, the file   *)
(* is counted and the frames are forgotten.                                *)
RecordStep(from, to) == pc = from /\ pc' = to /\ UNCHANGED <<next, target>>

ReadBlock ==
  /\ RecordStep("stream", "keep") /\ source = "live"
  /\ blocksRead < MaxPackets[source] /\ Recorded
  /\ UNCHANGED <<clientVars, textVars, source, recordVars>>

KeepBlock ==
  /\ RecordStep("keep", IF Len(frames) + 1 >= SaveAfter THEN "save" ELSE "stream")
  /\ blocksRead' = blocksRead + 1
  /\ frames' = Append(frames, blocksRead')
  /\ UNCHANGED <<clientVars, textVars, source, number, writers, files, output,
                 missing, twice>>

InFrames == [file |-> number, blocks |-> frames]

StartWriter ==
  /\ RecordStep("save", "count")
  /\ writers' = writers \cup {InFrames}
  /\ UNCHANGED <<clientVars, textVars, source, blocksRead, frames, number,
                 files, output, missing, twice>>

CountFile ==
  /\ RecordStep("count", "forget")
  /\ number' = number + 1
  /\ UNCHANGED <<clientVars, textVars, source, blocksRead, frames, writers,
                 files, output, missing, twice>>

ForgetFrames ==
  /\ RecordStep("forget", "stream")
  /\ frames' = <<>>
  /\ UNCHANGED <<clientVars, textVars, source, blocksRead, number, writers,
                 files, output, missing, twice>>

SaveChunk ==
  /\ \E w \in writers : writers' = writers \ {w} /\ files' = files \cup {w}
  /\ UNCHANGED <<clientVars, textVars, source, mainVars, blocksRead, frames,
                 number, output, missing, twice>>

(* The source ends, a network stream at any time, or nobody records any    *)
(* more.  A file or a network stream waits for the last words; the         *)
(* microphone just writes.                                                 *)
StreamEnds ==
  /\ pc = "stream"
  /\ source = "network" \/ blocksRead = MaxPackets[source] \/ ~Recorded
  /\ GoTo(IF source = "live" THEN "write" ELSE "drain", 1)
  /\ UNCHANGED <<clientVars, textVars, source, target, recordVars>>

(* wait_before_disconnect: 15 s without a new text, for each client. *)
Drain ==
  /\ pc = "drain"
  /\ IF next < Clients THEN GoTo("drain", next + 1)
     ELSE GoTo(IF source = "file" THEN "write" ELSE "close", 1)
  /\ UNCHANGED <<clientVars, textVars, source, target, recordVars>>

(* write_srt_file: the last partial, unless the last cue says the same. *)
Closing(c) ==
  LET t == transcript[c] IN
    IF last[c] # <<>> /\ (t = <<>> \/ Last(t).text # last[c][1].text)
      THEN t \o last[c] ELSE t

WriteAll ==
  /\ pc = "write"
  /\ transcript' = [c \in C |-> Closing(c)]
  /\ GoTo(IF source = "file" THEN "close" ELSE "done", 1)
  /\ UNCHANGED <<clientVars, last, got, source, target, recordVars>>

(* close_websocket: close the socket there is.  One that is not connected  *)
(* yet may connect all the same.                                           *)
Close ==
  /\ pc \in {"close", "abort"}
  /\ \/ /\ net' = [net EXCEPT ![next] =
                       IF @ \in {"connecting", "open", "ready"} THEN "shut" ELSE @]
        /\ UNCHANGED missed
     \/ net[next] = "connecting" /\ missed' = TRUE /\ UNCHANGED net
  /\ pc' = IF pc = "abort" THEN "abortpick" ELSE "pick"
  /\ UNCHANGED <<recording, waiting, serverError, retries, threads, done,
                 textVars, source, next, target, recordVars>>

(* Then pick the thread there is now, *)
PickThread ==
  /\ pc \in {"pick", "abortpick"}
  /\ target' = threads[next]
  /\ pc' = IF pc = "abortpick" THEN "abortjoin" ELSE "join"
  /\ UNCHANGED <<clientVars, textVars, source, next, recordVars>>

(* and join it.  A retry under way leaves a new connection open. *)
Ended_Current(c) == net[c] = "closed"
Ended(c) == net[c] = "closed" \/ threads[c] > target

AfterClose ==
  CASE pc = "join" /\ source = "network" -> "write"
    [] pc = "join" /\ source = "live" -> "combine"
    [] OTHER -> "done"

Join ==
  /\ pc \in {"join", "abortjoin"} /\ Ended(next)
  /\ IF next < Clients
       THEN GoTo(IF pc = "join" THEN "close" ELSE "abort", next + 1)
       ELSE GoTo(AfterClose, 1)
  /\ UNCHANGED <<clientVars, textVars, source, target, recordVars>>

(* Ctrl+C ends a live recording between any two of its steps: a block that *)
(* was read and not kept is lost, finalize_recording writes what is in     *)
(* frames, also what was saved and counted and not forgotten yet, and when *)
(* the clients are closed it puts the files together.                      *)
Counted_NotLast == number
Counted == IF frames = <<>> THEN number ELSE number + 1

Interrupt ==
  /\ pc \in {"stream", "keep", "save", "count", "forget"} /\ source = "live"
  /\ files' = IF frames = <<>> THEN files ELSE files \cup {InFrames}
  /\ number' = Counted
  /\ frames' = <<>>
  /\ twice' = (pc = "forget")
  /\ GoTo("close", 1)
  /\ UNCHANGED <<clientVars, textVars, source, target, blocksRead, writers,
                 output, missing>>

Combine ==
  /\ pc = "combine"
  /\ output' = FlattenSeq([n \in 1..number |->
                 LET f == {x \in files : x.file = n - 1} IN
                   IF f = {} THEN <<>> ELSE (CHOOSE x \in f : TRUE).blocks])
  /\ missing' = (writers # {})
  /\ files' = {}
  /\ GoTo("write", 1)
  /\ UNCHANGED <<clientVars, textVars, source, target, blocksRead, frames,
                 number, writers, twice>>

-----------------------------------------------------------------------------
Callbacks(c) ==
  \/ Opens(c) \/ Fails(c) \/ Ready(c) \/ Refused(c) \/ Overtime(c)
  \/ Segments(c) \/ ServerCloses(c)

Thread(c) == OnClose(c) \/ Reconnect(c)

Main ==
  \/ Await \/ Stream \/ StreamEnds \/ Drain \/ WriteAll
  \/ ReadBlock \/ KeepBlock \/ StartWriter \/ CountFile \/ ForgetFrames
  \/ Interrupt \/ Combine \/ Close \/ PickThread \/ Join

TeeNext == (\E c \in C : Callbacks(c) \/ Thread(c)) \/ Main \/ SaveChunk

TeeSpec == TeeInit /\ [][TeeNext]_teeVars

(* The main thread and the WebSocket threads run; what the server does and *)
(* when is its own affair.                                                 *)
FairTeeSpec ==
  TeeSpec /\ WF_teeVars(Main) /\ \A c \in C : WF_teeVars(Thread(c))

-----------------------------------------------------------------------------
(* Properties *)

(* The clients, the tee and the recording keep their types. *)
TeeTypeOK ==
  /\ net \in [C -> {"connecting", "open", "ready", "shut", "sleeping",
                 "closed"}]
  /\ {recording, waiting, serverError} \subseteq [C -> BOOLEAN]
  /\ \A c \in C : retries[c] \in 0..MaxRetries[c]
  /\ threads \in [C -> Nat \ {0}]
  /\ pc \in {"await", "abort", "abortpick", "abortjoin", "stream", "keep",
             "save", "count", "forget", "drain", "write", "close", "pick",
             "join", "combine", "done"}
  /\ next \in C /\ blocksRead \in 0..MaxPackets[source] /\ number \in Nat

Unwritten ==
  pc \in {"await", "abort", "abortpick", "abortjoin", "stream", "keep", "save",
          "count", "forget", "drain"}

(* The cues of completed segments follow each other in time without        *)
(* overlap, whatever times the segments have and over connections that     *)
(* each count from 0; only the partial that is added when the file is      *)
(* written may go back (process_segments).                                 *)
CuesInOrder ==
  Unwritten => \A c \in C : \A i, j \in DOMAIN transcript[c] :
    i < j => transcript[c][i].end <= transcript[c][j].start

(* Every completed segment that was not the echo of its neighbour is a cue *)
(* itself, or a cue reaches into its time: nothing is refused that could   *)
(* have been shown (process_segments).                                     *)
CompletedIsKept ==
  Unwritten => \A c \in C : \A s \in got[c] :
    s \in ToSet(transcript[c]) \/ \E t \in ToSet(transcript[c]) : t.end > s.start

(* The two together: the subtitles are in order and lack only what was     *)
(* said over them.                                                         *)
SubtitlesAreWhole == CuesInOrder /\ CompletedIsKept

(* The output recording is what was kept of the microphone, in order and   *)
(* to the last block (record, finalize_recording), unless a thread had not *)
(* written its file by then or Ctrl+C came between the count of a file and *)
(* the reset of its frames.                                                *)
RecordingIsWhole ==
  (pc = "write" /\ output # <<>> /\ ~missing /\ ~twice) =>
    output = [i \in 1..blocksRead |-> i]

(* Once the stream has started the call returns, whichever connections     *)
(* break, retry or say nothing more (close_websocket), unless a connection *)
(* begins that the close misses and whose thread it joins.                 *)
CallEnds == (pc = "stream") ~> (pc = "done" \/ missed)
=============================================================================

---------------------------- MODULE ChunkPipeline ----------------------------
(***************************************************************************)
(* A live session's audio path (capture.py, session.py): one reader thread *)
(* per source cuts the captured frames into chunks and puts them on the    *)
(* shared chunk_queue; the main thread takes them off, holds back what is  *)
(* muted, archives the rest and gives it to the source's reconnect client; *)
(* when the session stops, the main thread joins the readers, drains the   *)
(* queue, flushes the clients' ring buffers and closes the archive.        *)
(*                                                                         *)
(* A chunk is <<s, n>>, the n-th chunk that source s made.  Audio is       *)
(* counted in units of which a frame has FrameLen and a chunk ChunkLen.    *)
(* A reconnect client is what ReconnectClient promises of it: it delivers  *)
(* in order, and only its oldest chunks are dropped, when RingCap is       *)
(* exceeded.                                                               *)
(***************************************************************************)
EXTENDS Integers, Sequences, FiniteSets

CONSTANTS
  Sources,      \* the active sources, "mic" and "speaker" or one of them
  MaxChunks,    \* bound: chunks each source makes
  FrameLen,     \* audio units in one captured frame
  ChunkLen,     \* chunk_seconds, and also min_chunk_seconds
  QueueCap,     \* cfg.max_chunk_queue_size
  RingCap,      \* chunks that fit in a client's ring buffer
  SegmentChunks,\* chunks in segment_seconds of the rolling audio archive
  AutoReconnect,\* cfg.auto_reconnect
  SlowReader    \* may a reader outlast the 3 s join?

ASSUME ConstantsAssumption ==
  /\ Sources \subseteq {"mic", "speaker"}
  /\ MaxChunks \in [Sources -> Nat] /\ RingCap \in Nat
  /\ QueueCap \in Nat \ {0} /\ SegmentChunks \in Nat \ {0}
  /\ FrameLen \in Nat \ {0} /\ ChunkLen \in Nat /\ FrameLen <= ChunkLen
  /\ AutoReconnect \in BOOLEAN /\ SlowReader \in BOOLEAN

Chunk == UNION {{s} \X (1..MaxChunks[s]) : s \in Sources}

VARIABLES
  reader,        \* where each reader thread is
  window,        \* audio units in each reader's buffer
  made,          \* chunks each reader has cut so far
  hand,          \* the chunk number a reader is about to queue, 0 if none
  queue,         \* chunk_queue
  stop, muted,   \* stop_event and _muted_sources
  pc, cur,       \* the main thread, and the chunk it holds (<<>> if none)
  late,          \* readers still running when the main thread stopped joining
  pending, delivered,         \* each client's ring buffer, and what it sent
  held, filed,   \* the archive's buffers, and the chunks in its WAV files
  writeFailed,   \* history: a write of the archive raised
  chunksDropped, muteDropped, \* counters of WhisperLiveSessionStats
  raced          \* history: readers that lost the room they had made

readerVars == <<reader, window, made, hand>>
clientVars == <<pending, delivered>>
archiveVars == <<held, filed, writeFailed>>
statVars   == <<chunksDropped, muteDropped, raced>>
mainVars   == <<pc, cur, late>>
vars == <<readerVars, queue, stop, muted, mainVars, clientVars, statVars,
          archiveVars>>

Init ==
  /\ reader = [s \in Sources |-> "read"]
  /\ window = [s \in Sources |-> 0]
  /\ made = [s \in Sources |-> 0]
  /\ hand = [s \in Sources |-> 0]
  /\ queue = <<>> /\ stop = FALSE /\ muted = {}
  /\ pc = "connect" /\ cur = <<>> /\ late = {}
  /\ pending = [s \in Sources |-> <<>>]
  /\ delivered = [s \in Sources |-> <<>>]
  /\ chunksDropped = 0 /\ muteDropped = 0 /\ raced = 0
  /\ held = [s \in Sources |-> <<>>] /\ filed = [s \in Sources |-> <<>>]
  /\ writeFailed = FALSE

-----------------------------------------------------------------------------
(* Reader threads *)

\* The window is long enough: it becomes one chunk, unless preprocessing or
\* the voice activity filter refuses it.  What exceeds chunk_seconds is
\* shorter than min_chunk_seconds and is left out as "too_short".
CutWindow(s) ==
  /\ window' = [window EXCEPT ![s] = 0]
  /\ \/ UNCHANGED <<reader, made, hand>>
     \/ /\ made[s] < MaxChunks[s]
        /\ made' = [made EXCEPT ![s] = @ + 1]
        /\ hand' = [hand EXCEPT ![s] = made[s] + 1]
        /\ reader' = [reader EXCEPT ![s] = "put"]

ReadFrame(s) ==
  /\ reader[s] = "read" /\ ~stop
  /\ IF window[s] + FrameLen < ChunkLen
       THEN /\ window' = [window EXCEPT ![s] = @ + FrameLen]
            /\ UNCHANGED <<reader, made, hand>>
       ELSE CutWindow(s)
  /\ UNCHANGED <<queue, stop, muted, mainVars, clientVars, statVars,
                 archiveVars>>

\* The rest of the buffer is shorter than min_chunk_seconds: no last chunk.
ReaderEnds(s) ==
  /\ reader[s] = "read" /\ stop
  /\ reader' = [reader EXCEPT ![s] = "done"]
  /\ window' = [window EXCEPT ![s] = 0]
  /\ UNCHANGED <<made, hand, queue, stop, muted, mainVars, clientVars,
                 statVars, archiveVars>>

HasRoom == Len(queue) < QueueCap
Queued(s) == queue' = Append(queue, <<s, hand[s]>>)

\* put_nowait; queue.Full sends the reader into the except branch.
PutChunk(s) ==
  /\ reader[s] = "put"
  /\ IF HasRoom
       THEN /\ Queued(s)
            /\ hand' = [hand EXCEPT ![s] = 0]
            /\ reader' = [reader EXCEPT ![s] = "read"]
       ELSE /\ reader' = [reader EXCEPT ![s] = "evict"]
            /\ UNCHANGED <<queue, hand>>
  /\ UNCHANGED <<window, made, stop, muted, mainVars, clientVars,
                 statVars, archiveVars>>

\* get_nowait; queue.Empty is ignored.
EvictOldest(s) ==
  /\ reader[s] = "evict"
  /\ queue' = IF queue = <<>> THEN queue ELSE Tail(queue)
  /\ reader' = [reader EXCEPT ![s] = "retry"]
  /\ UNCHANGED <<window, made, hand, stop, muted, mainVars,
                 clientVars, statVars, archiveVars>>

\* The second put_nowait; a second queue.Full is ignored.
RetryPut_Uncounted(s) ==
  /\ reader[s] = "retry"
  /\ IF HasRoom
       THEN Queued(s) /\ UNCHANGED raced
       ELSE raced' = raced + 1 /\ UNCHANGED queue
  /\ hand' = [hand EXCEPT ![s] = 0]
  /\ reader' = [reader EXCEPT ![s] = "read"]
  /\ UNCHANGED <<window, made, stop, muted, mainVars, clientVars,
                 chunksDropped, muteDropped, archiveVars>>

RetryPut(s) ==
  /\ reader[s] = "retry"
  /\ IF HasRoom
       THEN /\ Queued(s) /\ chunksDropped' = chunksDropped + 1
            /\ UNCHANGED raced
       ELSE raced' = raced + 1 /\ UNCHANGED <<queue, chunksDropped>>
  /\ hand' = [hand EXCEPT ![s] = 0]
  /\ reader' = [reader EXCEPT ![s] = "read"]
  /\ UNCHANGED <<window, made, stop, muted, mainVars, clientVars,
                 muteDropped, archiveVars>>

Reader(s) == \/ ReadFrame(s) \/ ReaderEnds(s) \/ PutChunk(s)
             \/ EvictOldest(s) \/ RetryPut(s)

-----------------------------------------------------------------------------
(* The command reader, signals and status callbacks *)

SetMute(s) ==
  /\ ~stop
  /\ muted' = IF s \in muted THEN muted \ {s} ELSE muted \cup {s}
  /\ UNCHANGED <<readerVars, queue, stop, mainVars, clientVars, statVars,
                 archiveVars>>

\* The stop command or SIGINT; the end of stdin stops nothing.
RequestStop ==
  /\ ~stop
  /\ stop' = TRUE
  /\ UNCHANGED <<readerVars, queue, muted, mainVars, clientVars, statVars,
                 archiveVars>>

Lost == {"CLIENT_RECV_ERROR", "CLIENT_REMOTE_CLOSED", "DISCONNECT",
         "CLIENT_READY_TIMEOUT"}
Statuses == Lost \cup {"ERROR", "WAIT", "SERVER_READY", "OUTDATED_CLIENT",
                       "CLIENT_TLS_ERROR"}

\* A lost connection ends the session only if nobody will reconnect it, and a
\* failure for good does not end it: the desktop does.
EndsSession(status) ==
  status \in {"ERROR"} \cup (IF AutoReconnect THEN {} ELSE Lost)

\* handle_status, on a receiver thread or in a connect or send call.
HandleStatus ==
  /\ ~stop /\ pc # "closed"
  /\ \E status \in Statuses : stop' = EndsSession(status)
  /\ UNCHANGED <<readerVars, queue, muted, mainVars, clientVars, statVars,
                 archiveVars>>

-----------------------------------------------------------------------------
(* The reconnect client, as ReconnectClient lets its callers see it *)

Unsent_NewFirst(c) == <<c[2]>> \o pending[c[1]]
\* What is sent before c comes first.
Unsent(c) == Append(pending[c[1]], c[2])

\* send(c): some of what waits is written; the rest, with c, waits, without
\* what the ring buffer has no room for; a reconnect may then write more.  The
\* caller counts what was dropped, or one chunk if send raises after buffering.
ClientSend(c) ==
  LET s   == c[1]
      all == Unsent(c)
  IN  \E first \in 0..Len(all) :
        LET left == Len(all) - first
            over == IF left > RingCap THEN left - RingCap ELSE 0
        IN  \E more \in 0..(left - over), counted \in {over, 1} :
              /\ delivered' = [delivered EXCEPT ![s] =
                   @ \o SubSeq(all, 1, first)
                     \o SubSeq(all, first + over + 1, first + over + more)]
              /\ pending' = [pending EXCEPT ![s] =
                   SubSeq(all, first + over + more + 1, Len(all))]
              /\ chunksDropped' = chunksDropped + counted

-----------------------------------------------------------------------------
(* The rolling archive, a WAV file per source and segment_seconds *)

\* _flush_source_locked: what source s holds becomes a file; the metadata are
\* written afterwards.
FlushSource_Keeps(s, chunks) ==
  /\ filed' = [filed EXCEPT ![s] = @ \o chunks]
  /\ held' = [held EXCEPT ![s] = chunks]

FlushSource(s, chunks) ==
  /\ filed' = [filed EXCEPT ![s] = @ \o chunks]
  /\ held' = [held EXCEPT ![s] = <<>>]

\* save(c): a full buffer becomes a file.  The write of the file may raise,
\* and then the buffer keeps its chunks; that of the metadata may raise after
\* it.
Save(c, raised) ==
  LET s      == c[1]
      chunks == Append(held[s], c[2])
  IN  /\ IF Len(chunks) < SegmentChunks
           THEN raised = FALSE /\ UNCHANGED filed
                /\ held' = [held EXCEPT ![s] = chunks]
           ELSE \/ FlushSource(s, chunks)
                \/ /\ raised /\ UNCHANGED filed
                   /\ held' = [held EXCEPT ![s] = chunks]
      /\ writeFailed' = (writeFailed \/ raised)

\* A chunk that is not archived is not sent.  The debug archive of single
\* chunks may raise first.
HandOver(c) ==
  \/ Save(c, FALSE) /\ ClientSend(c)
  \/ /\ Save(c, TRUE) \/ UNCHANGED archiveVars
     /\ chunksDropped' = chunksDropped + 1
     /\ UNCHANGED clientVars

\* close() flushes one source after the other, and the first write that raises
\* ends it.
ArchiveOrder == <<"mic", "speaker">>
CloseArchive ==
  \E n \in 0..Len(ArchiveOrder) :
    LET closed == {ArchiveOrder[i] : i \in 1..n}
    IN  /\ filed' = [s \in Sources |->
                       filed[s] \o IF s \in closed THEN held[s] ELSE <<>>]
        /\ held' = [s \in Sources |->
                      IF s \in closed THEN <<>> ELSE held[s]]
        /\ writeFailed' = (writeFailed \/ n < Len(ArchiveOrder))

-----------------------------------------------------------------------------
(* The main thread *)

\* _connect_clients_parallel; a failure ends the session unless reconnect is on.
Connect ==
  /\ pc = "connect"
  /\ \E ok \in BOOLEAN : pc' = IF ok \/ AutoReconnect THEN "loop" ELSE "finally"
  /\ UNCHANGED <<readerVars, queue, stop, muted, cur, late, clientVars,
                 statVars, archiveVars>>

LoopTest ==
  /\ pc = "loop"
  /\ pc' = IF stop THEN "finally" ELSE "get"
  /\ UNCHANGED <<readerVars, queue, stop, muted, cur, late, clientVars,
                 statVars, archiveVars>>

\* chunk_queue.get(timeout=0.5)
GetChunk ==
  /\ pc = "get"
  /\ IF queue = <<>>
       THEN pc' = "loop" /\ UNCHANGED <<queue, cur>>
       ELSE pc' = "check" /\ cur' = Head(queue) /\ queue' = Tail(queue)
  /\ UNCHANGED <<readerVars, stop, muted, late, clientVars, statVars,
                 archiveVars>>

CheckMute ==
  /\ pc = "check"
  /\ IF cur[1] \in muted
       THEN pc' = "loop" /\ cur' = <<>> /\ muteDropped' = muteDropped + 1
       ELSE pc' = "send" /\ UNCHANGED <<cur, muteDropped>>
  /\ UNCHANGED <<readerVars, queue, stop, muted, late, clientVars,
                 chunksDropped, raced, archiveVars>>

SendChunk ==
  /\ pc = "send"
  /\ HandOver(cur)
  /\ pc' = "loop" /\ cur' = <<>>
  /\ UNCHANGED <<readerVars, queue, stop, muted, late, muteDropped, raced>>

\* stop_event is set and the streams are stopped.
Finalise ==
  /\ pc = "finally"
  /\ stop' = TRUE
  /\ pc' = "join"
  /\ UNCHANGED <<readerVars, queue, muted, cur, late, clientVars, statVars,
                 archiveVars>>

JoinReaders_NoTimeout ==
  /\ pc = "join"
  /\ \A s \in Sources : reader[s] = "done"
  /\ late' = {}
  /\ pc' = "drain"
  /\ UNCHANGED <<readerVars, queue, stop, muted, cur, clientVars, statVars,
                 archiveVars>>

\* thread.join(timeout=3.0) for every reader.
JoinReaders ==
  /\ pc = "join"
  /\ SlowReader \/ \A s \in Sources : reader[s] = "done"
  /\ late' = {s \in Sources : reader[s] # "done"}
  /\ pc' = "drain"
  /\ UNCHANGED <<readerVars, queue, stop, muted, cur, clientVars, statVars,
                 archiveVars>>

\* _drain_pending_chunks: muted or not, the chunk is sent.
DrainChunk ==
  /\ pc = "drain" /\ queue # <<>>
  /\ queue' = Tail(queue)
  /\ HandOver(Head(queue))
  /\ UNCHANGED <<readerVars, stop, muted, mainVars, muteDropped, raced>>

DrainEnds_Early ==
  /\ pc = "drain"
  /\ pc' = "flush"
  /\ UNCHANGED <<readerVars, queue, stop, muted, cur, late, clientVars,
                 statVars, archiveVars>>

DrainEnds ==
  /\ pc = "drain" /\ queue = <<>>
  /\ pc' = "flush"
  /\ UNCHANGED <<readerVars, queue, stop, muted, cur, late, clientVars,
                 statVars, archiveVars>>

\* One flush_buffer call of _flush_reconnect_buffers that gets something out.
FlushClient(s) ==
  /\ pc = "flush" /\ pending[s] # <<>>
  /\ \E n \in 1..Len(pending[s]) :
       /\ delivered' = [delivered EXCEPT ![s] = @ \o SubSeq(pending[s], 1, n)]
       /\ pending' = [pending EXCEPT ![s] = SubSeq(@, n + 1, Len(@))]
  /\ UNCHANGED <<readerVars, queue, stop, muted, mainVars, statVars,
                 archiveVars>>

Waiting == UNION {{<<s, pending[s][i]>> : i \in DOMAIN pending[s]} : s \in Sources}

\* Nothing waits any more, or the deadline has passed: the rest is counted.
FlushEnds ==
  /\ pc = "flush"
  /\ chunksDropped' = chunksDropped + Cardinality(Waiting)
  /\ pending' = [s \in Sources |-> <<>>]
  /\ pc' = "finish"
  /\ UNCHANGED <<readerVars, queue, stop, muted, cur, late, delivered,
                 muteDropped, raced, archiveVars>>

\* finish_audio, the wait for results, the last flush of the merger, the end
\* of the archive; an archive that raises skips the summary and no more.
Finish ==
  /\ pc = "finish"
  /\ CloseArchive
  /\ pc' = "closed"
  /\ UNCHANGED <<readerVars, queue, stop, muted, cur, late, clientVars,
                 statVars>>

Main == \/ Connect \/ LoopTest \/ GetChunk \/ CheckMute \/ SendChunk
        \/ Finalise \/ JoinReaders \/ DrainChunk \/ DrainEnds
        \/ FlushEnds \/ Finish
        \/ \E s \in Sources : FlushClient(s)

Next ==
  \/ Main
  \/ RequestStop \/ HandleStatus
  \/ \E s \in Sources : Reader(s) \/ SetMute(s)

Spec == Init /\ [][Next]_vars

\* The main thread is scheduled; every wait in it is bounded by a timeout.
\* Nothing is assumed of the readers.
FairSpec == Spec /\ WF_vars(Main)
-----------------------------------------------------------------------------
(* Properties *)

TypeOK ==
  /\ reader \in [Sources -> {"read", "put", "evict", "retry", "done"}]
  /\ window \in [Sources -> Nat] /\ \A s \in Sources : window[s] < ChunkLen
  /\ made \in [Sources -> Nat] /\ hand \in [Sources -> Nat]
  /\ \A s \in Sources : hand[s] <= made[s] /\ made[s] <= MaxChunks[s]
  /\ queue \in Seq(Chunk) /\ Len(queue) <= QueueCap
  /\ stop \in BOOLEAN /\ muted \subseteq Sources
  /\ pc \in {"connect", "loop", "get", "check", "send", "finally", "join",
             "drain", "flush", "finish", "closed"}
  /\ cur \in Chunk \cup {<<>>} /\ late \subseteq Sources
  /\ pending \in [Sources -> Seq(Nat)] /\ delivered \in [Sources -> Seq(Nat)]
  /\ \A s \in Sources : Len(pending[s]) <= RingCap
  /\ chunksDropped \in Nat /\ muteDropped \in Nat /\ raced \in Nat
  /\ held \in [Sources -> Seq(Nat)] /\ filed \in [Sources -> Seq(Nat)]
  /\ writeFailed \in BOOLEAN

\* Where the chunks of s are, from its server back to its reader.
Sent(s)    == delivered[s] \o pending[s]
InClient(s) == {Sent(s)[i] : i \in DOMAIN Sent(s)}
InMain(s)  == IF cur # <<>> /\ cur[1] = s THEN {cur[2]} ELSE {}
Mine(s)    == {i \in DOMAIN queue : queue[i][1] = s}
InQueue(s) == {queue[i][2] : i \in Mine(s)}
InHand(s)  == IF hand[s] # 0 THEN {hand[s]} ELSE {}

Increasing(q) == \A i, j \in DOMAIN q : i < j => q[i] < q[j]
Ahead(A, B) == \A m \in A, n \in B : m < n

\* Two readers, an eviction in between, the main loop and the final drain
\* leave the chunks of one source in the order in which they were captured,
\* and none of them is there twice (session.py:590, "FIFO").
SourceOrder ==
  \A s \in Sources :
    /\ Increasing(Sent(s))
    /\ \A i, j \in Mine(s) : i < j => queue[i][2] < queue[j][2]
    /\ Ahead(InClient(s), InMain(s) \cup InQueue(s) \cup InHand(s))
    /\ Ahead(InMain(s), InQueue(s) \cup InHand(s))
    /\ Ahead(InQueue(s), InHand(s))

\* Chunks that are neither delivered nor on their way.
OnTheWay(s) == InClient(s) \cup InMain(s) \cup InQueue(s) \cup InHand(s)
Gone == {c \in Chunk : c[2] <= made[c[1]] /\ c[2] \notin OnTheWay(c[1])}

\* No chunk disappears uncounted: evictions from the queue and from the ring
\* buffer, failed sends, mute and the end of the flush are all in the
\* statistics of the session's summary.  The chunk a reader has just evicted
\* is counted by its next step; only a reader that loses the room it made to
\* another one loses two chunks, the evicted and its own, that nobody counts.
Evicting == {s \in Sources : reader[s] = "retry"}
LossIsCounted ==
  Cardinality(Gone)
    <= chunksDropped + muteDropped + Cardinality(Evicting) + 2 * raced

\* Once the queue is drained, a reader that was joined has left nothing in it
\* and holds nothing, so END_OF_AUDIO comes after all of its chunks.
DrainComplete ==
  pc \in {"flush", "finish", "closed"} =>
    \A s \in Sources \ late :
      /\ hand[s] = 0
      /\ \A i \in DOMAIN queue : queue[i][1] # s

Kept(s) == filed[s] \o held[s]
InArchive(s) == {Kept(s)[i] : i \in DOMAIN Kept(s)}

\* The archive can replay the session (session_utils.py:170): it holds every
\* chunk that went to a client, in the order of the capture and once, whatever
\* the writes that failed in between; and unless a write failed, the end of
\* the session leaves nothing outside its files.
ArchiveIsComplete ==
  \A s \in Sources :
    /\ Increasing(Kept(s))
    /\ InClient(s) \subseteq InArchive(s)
    /\ pc = "closed" /\ ~writeFailed => held[s] = <<>>

\* Once a stop is requested the session ends, whatever its readers do.
SessionEnds == stop ~> pc = "closed"
=============================================================================

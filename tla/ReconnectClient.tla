--------------------------- MODULE ReconnectClient ---------------------------
(***************************************************************************)
(* One audio source's connection to the WhisperLive server:                *)
(* _BufferedReconnectClient (client_reconnect.py) together with the        *)
(* WhisperLiveStreamClient objects (client_base.py) it creates, one per    *)
(* connection epoch ("generation").                                        *)
(*                                                                         *)
(* Two kinds of thread run here.  The calling thread (the session's main   *)
(* loop) executes one operation at a time: connect_initial, send,          *)
(* flush_buffer, finish_audio, close.  Every epoch also has a receiver     *)
(* thread.  send and flush_buffer hold the client's RLock from entry to    *)
(* return, a blocking reconnect included; connect_initial and close take   *)
(* it only for single assignments.  A receiver needs the lock to apply a   *)
(* status and to compare its generation, and runs the transcript callback  *)
(* after giving the lock back.                                             *)
(*                                                                         *)
(* A chunk is its sequence number; its duration is Duration[c].  Time is   *)
(* abstract: the backoff delay elapses, and ready_timeout expires, at any  *)
(* moment.                                                                 *)
(***************************************************************************)
EXTENDS Integers, Sequences

CONSTANTS
  MaxChunks,      \* bound: chunks the capture side hands to send
  MaxGen,         \* bound: connection epochs that are opened
  Duration,       \* seconds (in some unit) of each chunk
  BufferSeconds,  \* policy.buffer_seconds
  Enabled,        \* policy.enabled (auto reconnect)
  MaxExponent,    \* largest e for which initial_backoff * 2**e is a float
  SlowCallback    \* may a transcript callback outlast the 2 s join timeout?

Chunks == 1..MaxChunks
Gens   == 1..MaxGen

ASSUME ConstantsAssumption ==
  /\ MaxChunks \in Nat
  /\ MaxGen \in Nat \ {0}
  /\ Duration \in [Chunks -> Nat]
  /\ BufferSeconds \in Nat
  /\ Enabled \in BOOLEAN
  /\ MaxExponent \in Nat
  /\ SlowCallback \in BOOLEAN

VARIABLES
  (* the calling thread *)
  pc,           \* where it is
  op,           \* the operation it executes, "none" between operations
  stage,        \* how far the session has brought this client
  cur,          \* the chunk send still has in hand, 0 if none
  admitted,     \* chunks handed to send so far
  (* _BufferedReconnectClient *)
  generation, client, connected, attempt, backoff, fatal,
  buffer, bufferedSeconds, dropped, timeline,
  (* one WhisperLiveStreamClient per generation *)
  link,         \* its socket, as the network sees it
  wire,         \* chunks written to the socket
  audioFinished, closed, ready, fatalError,
  recv,         \* its receiver thread: idle in recv(), holding a message, dead
  pos           \* position in wire[g] of the segment the receiver holds

callerVars == <<pc, op, stage, cur, admitted>>
bufferVars == <<buffer, bufferedSeconds, dropped>>
stateVars  == <<client, connected, attempt, backoff, fatal>>
epochVars  == <<generation, timeline>>
streamVars == <<link, wire, audioFinished, closed, ready, fatalError>>
recvVars   == <<recv, pos>>
vars == <<callerVars, bufferVars, stateVars, epochVars, streamVars, recvVars>>

Init ==
  /\ pc = "new" /\ op = "none" /\ stage = "live" /\ cur = 0 /\ admitted = 0
  /\ generation = 0 /\ client = FALSE /\ connected = FALSE
  /\ attempt = 0 /\ backoff = FALSE /\ fatal = FALSE
  /\ buffer = <<>> /\ bufferedSeconds = 0 /\ dropped = {} /\ timeline = <<>>
  /\ link = [g \in Gens |-> "none"]
  /\ wire = [g \in Gens |-> <<>>]
  /\ audioFinished = [g \in Gens |-> FALSE]
  /\ closed = [g \in Gens |-> FALSE]
  /\ ready = [g \in Gens |-> FALSE]
  /\ fatalError = [g \in Gens |-> FALSE]
  /\ recv = [g \in Gens |-> "none"]
  /\ pos = [g \in Gens |-> 0]

-----------------------------------------------------------------------------
(* Helpers *)

\* The `connected` property: _connected, a client object, and that is_ready.
IsConnected ==
  /\ connected
  /\ client
  /\ ready[generation]
  /\ ~fatalError[generation]

\* Nobody holds the RLock across steps.
LockFree == op \notin {"send", "flush_buffer"}

\* appendleft of a chunk that was popped.
PutBack_Last(c, rest) == Append(rest, c)
PutBack(c, rest) == <<c>> \o rest

NonNegative(x) == IF x < 0 THEN 0 ELSE x

\* send_chunk followed by sent_timeline.record_sent.
Transmit(c) ==
  /\ wire' = [wire EXCEPT ![generation] = Append(@, c)]
  /\ timeline' = Append(timeline, c)

\* The chunk whose audio the current timeline places at a server position.
MapToReal(k) == IF k \in 1..Len(timeline) THEN timeline[k] ELSE 0

\* 2**exponent does not convert to a float: the backoff computation raises.
BackoffOverflows == attempt - 1 > MaxExponent

\* _mark_disconnected_locked
MarkDisconnected ==
  /\ connected' = FALSE
  /\ backoff' = (backoff \/ ~BackoffOverflows)

\* The operation returns (and releases the lock) or goes on at label l.
Goto(l) == pc' = l /\ UNCHANGED op
Return  == pc' = "idle" /\ op' = "none"

\* It raises: of a send the session counts the chunk as lost and goes on
\* (session.py:707 and 950), whatever else raises is its end.
Raise == pc' = (IF op = "send" THEN "idle" ELSE "raised") /\ op' = "none"

\* After _flush_locked: send's own chunk comes next, if it is still in hand.
AfterFlush == IF cur # 0 THEN Goto("send") ELSE Return

\* After _connect: connect_initial returns, the others flush.
AfterConnect == IF op = "initial" THEN Return ELSE Goto("flush")

-----------------------------------------------------------------------------
(* The session's calls *)

ConnectInitial ==
  /\ pc = "new"
  /\ pc' = "connect" /\ op' = "initial"
  /\ UNCHANGED <<stage, cur, admitted, bufferVars, stateVars, epochVars,
                 streamVars, recvVars>>

Send ==
  /\ pc = "idle" /\ stage = "live"
  /\ admitted < MaxChunks
  /\ admitted' = admitted + 1
  /\ cur' = admitted + 1
  /\ pc' = "flush" /\ op' = "send"
  /\ UNCHANGED <<stage, bufferVars, stateVars, epochVars, streamVars, recvVars>>

\* Called by the session only once capture has stopped.
FlushBuffer ==
  /\ pc = "idle" /\ stage \in {"live", "draining"}
  /\ stage' = "draining"
  /\ op' = "flush_buffer"
  /\ pc' = IF ~IsConnected /\ Enabled THEN "connect" ELSE "flush"
  /\ UNCHANGED <<cur, admitted, bufferVars, stateVars, epochVars, streamVars,
                 recvVars>>

\* finish_audio: END_OF_AUDIO, at most once per stream; a failing socket
\* leaves _audio_finished unset and is only reported.
EndAudio(g) ==
  \E ok \in BOOLEAN :
    /\ ok => link[g] # "none"
    /\ ~ok => link[g] # "up" \/ audioFinished[g]
    /\ audioFinished' = [audioFinished EXCEPT ![g] = @ \/ ok]

FinishAudio ==
  /\ pc = "idle" /\ stage \in {"live", "draining"}
  /\ stage' = "finished"
  /\ IF IsConnected THEN EndAudio(generation) ELSE UNCHANGED audioFinished
  /\ UNCHANGED <<pc, op, cur, admitted, bufferVars, stateVars, epochVars,
                 link, wire, closed, ready, fatalError, recvVars>>

\* close(): forget the client under the lock, close it outside the lock.
Close ==
  /\ pc \in {"idle", "raised"}
  /\ op' = "close"
  /\ client' = FALSE /\ connected' = FALSE
  /\ IF client
       THEN /\ EndAudio(generation)
            /\ closed' = [closed EXCEPT ![generation] = TRUE]
            /\ pc' = "end"
       ELSE /\ UNCHANGED <<audioFinished, closed>>
            /\ pc' = "closed"
  /\ UNCHANGED <<stage, cur, admitted, bufferVars, attempt, backoff, fatal,
                 epochVars, link, wire, ready, fatalError, recvVars>>

-----------------------------------------------------------------------------
(* _flush_locked, the direct send and _buffer_chunk_locked *)

FlushDone ==
  /\ pc = "flush"
  /\ ~IsConnected \/ buffer = <<>>
  /\ AfterFlush
  /\ UNCHANGED <<stage, cur, admitted, bufferVars, stateVars, epochVars,
                 streamVars, recvVars>>

\* A write to a dead link may still be accepted by the operating system.
FlushChunk ==
  /\ pc = "flush"
  /\ IsConnected /\ buffer # <<>>
  /\ Transmit(Head(buffer))
  /\ buffer' = Tail(buffer)
  /\ bufferedSeconds' = NonNegative(bufferedSeconds - Duration[Head(buffer)])
  /\ UNCHANGED <<callerVars, dropped, stateVars, generation, link,
                 audioFinished, closed, ready, fatalError, recvVars>>

\* The write raises: the chunk goes back to the front of the buffer.
FlushFails ==
  /\ pc = "flush"
  /\ IsConnected /\ buffer # <<>>
  /\ link[generation] # "up"
  /\ buffer' = PutBack(Head(buffer), Tail(buffer))
  /\ bufferedSeconds' = NonNegative(bufferedSeconds - Duration[Head(buffer)])
                          + Duration[Head(buffer)]
  /\ MarkDisconnected
  /\ AfterFlush
  /\ UNCHANGED <<stage, cur, admitted, dropped, client, attempt, fatal,
                 epochVars, streamVars, recvVars>>

SendChunk ==
  /\ pc = "send"
  /\ IsConnected
  /\ Transmit(cur)
  /\ cur' = 0
  /\ Return
  /\ UNCHANGED <<stage, admitted, bufferVars, stateVars, generation, link,
                 audioFinished, closed, ready, fatalError, recvVars>>

SendFails ==
  /\ pc = "send"
  /\ \/ IsConnected /\ link[generation] # "up" /\ MarkDisconnected
     \/ ~IsConnected /\ UNCHANGED <<connected, backoff>>
  /\ Goto("buffer")
  /\ UNCHANGED <<stage, cur, admitted, bufferVars, client, attempt, fatal,
                 epochVars, streamVars, recvVars>>

Overflowing == bufferedSeconds + Duration[cur] > BufferSeconds

EvictNewest ==
  /\ pc = "buffer"
  /\ BufferSeconds > 0 /\ buffer # <<>> /\ Overflowing
  /\ LET n == Len(buffer)
     IN  /\ dropped' = dropped \cup {buffer[n]}
         /\ bufferedSeconds' = NonNegative(bufferedSeconds - Duration[buffer[n]])
         /\ buffer' = SubSeq(buffer, 1, n - 1)
  /\ UNCHANGED <<callerVars, stateVars, epochVars, streamVars, recvVars>>

EvictOldest ==
  /\ pc = "buffer"
  /\ BufferSeconds > 0 /\ buffer # <<>> /\ Overflowing
  /\ dropped' = dropped \cup {Head(buffer)}
  /\ bufferedSeconds' = NonNegative(bufferedSeconds - Duration[Head(buffer)])
  /\ buffer' = Tail(buffer)
  /\ UNCHANGED <<callerVars, stateVars, epochVars, streamVars, recvVars>>

BufferChunk ==
  /\ pc = "buffer"
  /\ BufferSeconds = 0 \/ buffer = <<>> \/ ~Overflowing
  /\ IF BufferSeconds = 0 \/ Duration[cur] > BufferSeconds
       THEN /\ dropped' = dropped \cup {cur}
            /\ UNCHANGED <<buffer, bufferedSeconds>>
       ELSE /\ buffer' = Append(buffer, cur)
            /\ bufferedSeconds' = bufferedSeconds + Duration[cur]
            /\ UNCHANGED dropped
  /\ cur' = 0
  /\ IF Enabled THEN Goto("connect") ELSE Return
  /\ UNCHANGED <<stage, admitted, stateVars, epochVars, streamVars, recvVars>>

-----------------------------------------------------------------------------
(* _connect and WhisperLiveStreamClient.connect *)

\* Early returns of _connect; running out of epochs is the model's bound and
\* looks like a backoff that has not elapsed.
MayConnect_AfterFatal ==
  /\ op = "initial" \/ ~backoff
  /\ generation < MaxGen

MayConnect ==
  /\ ~fatal
  /\ op = "initial" \/ ~backoff
  /\ generation < MaxGen

SkipConnect ==
  /\ pc = "connect"
  /\ ~MayConnect
  /\ AfterConnect
  /\ UNCHANGED <<stage, cur, admitted, bufferVars, stateVars, epochVars,
                 streamVars, recvVars>>

\* close(send_end_of_audio=False) of the previous epoch's client.
BeginConnect ==
  /\ pc = "connect"
  /\ MayConnect
  /\ attempt' = attempt + 1
  /\ client' = FALSE /\ connected' = FALSE
  /\ closed' = IF client THEN [closed EXCEPT ![generation] = TRUE] ELSE closed
  /\ Goto(IF client THEN "join" ELSE "open")
  /\ UNCHANGED <<stage, cur, admitted, bufferVars, backoff, fatal, epochVars,
                 link, wire, audioFinished, ready, fatalError, recvVars>>

\* thread.join(timeout=2.0): a receiver that waits for the lock its joiner
\* holds never ends in time.
WaitsForLock(g) ==
  recv[g] \in {"ready", "outdated", "lost", "disconnect", "segment"}

JoinReturns_NoTimeout(g) == recv[g] = "dead"

JoinReturns(g) ==
  \/ recv[g] = "dead"
  \/ WaitsForLock(g) /\ ~LockFree
  \/ recv[g] = "mapping" /\ SlowCallback

JoinOld ==
  /\ pc = "join"
  /\ JoinReturns(generation)
  /\ Goto("open")
  /\ UNCHANGED <<stage, cur, admitted, bufferVars, stateVars, epochVars,
                 streamVars, recvVars>>

NewEpoch_KeepsTimeline == generation' = generation + 1 /\ UNCHANGED timeline

\* A new epoch: generation, a clean timeline, a new stream client.
NewEpoch ==
  /\ generation' = generation + 1
  /\ timeline' = <<>>

OpenSocket ==
  /\ pc = "open"
  /\ NewEpoch
  /\ link' = [link EXCEPT ![generation + 1] = "up"]
  /\ recv' = [recv EXCEPT ![generation + 1] = "run"]
  /\ Goto("await")
  /\ UNCHANGED <<stage, cur, admitted, bufferVars, stateVars, wire,
                 audioFinished, closed, ready, fatalError, pos>>

\* The attempt failed for good: the version or the certificate is refused.
Reject ==
  /\ fatal' = TRUE
  /\ client' = FALSE /\ connected' = FALSE
  /\ IF Enabled THEN AfterConnect ELSE Raise
  /\ UNCHANGED <<attempt, backoff>>

\* The attempt failed and another one may follow, if reconnect is enabled and
\* its delay can be computed.
GiveUp ==
  /\ client' = FALSE
  /\ IF Enabled /\ ~BackoffOverflows THEN AfterConnect ELSE Raise
  /\ UNCHANGED <<attempt, fatal>>

\* The handshake fails, or the options cannot be sent.
Fail ==
  /\ GiveUp
  /\ connected' = FALSE
  /\ backoff' = (backoff \/ (Enabled /\ ~BackoffOverflows))

OpenFails ==
  /\ pc = "open"
  /\ NewEpoch
  /\ Reject \/ Fail
  /\ UNCHANGED <<stage, cur, admitted, bufferVars, streamVars, recvVars>>

\* connect() stops waiting for _ready_event: it is set, or ready_timeout has
\* passed.  It looks at _fatal_error first and at _ready_event second.
WaitEnds ==
  /\ pc = "await"
  /\ IF fatalError[generation]
       THEN /\ EndAudio(generation)
            /\ closed' = [closed EXCEPT ![generation] = TRUE]
            /\ Goto("reject")
       ELSE UNCHANGED <<audioFinished, closed>> /\ Goto("checkReady")
  /\ UNCHANGED <<stage, cur, admitted, bufferVars, stateVars, epochVars, link,
                 wire, ready, fatalError, recvVars>>

Rejected ==
  /\ pc = "reject"
  /\ JoinReturns(generation)
  /\ Reject
  /\ UNCHANGED <<stage, cur, admitted, bufferVars, epochVars, streamVars,
                 recvVars>>

ConnectSucceeds ==
  /\ pc = "checkReady"
  /\ ready[generation]
  /\ client' = TRUE /\ connected' = TRUE
  /\ attempt' = 0 /\ backoff' = FALSE
  /\ AfterConnect
  /\ UNCHANGED <<stage, cur, admitted, bufferVars, fatal, epochVars,
                 streamVars, recvVars>>

ConnectExpires ==
  /\ pc = "checkReady"
  /\ ~ready[generation]
  /\ EndAudio(generation)
  /\ closed' = [closed EXCEPT ![generation] = TRUE]
  /\ Goto("expire")
  /\ UNCHANGED <<stage, cur, admitted, bufferVars, stateVars, epochVars, link,
                 wire, ready, fatalError, recvVars>>

\* The stream reports CLIENT_READY_TIMEOUT to _handle_status, then raises.
Expired ==
  /\ pc = "expire"
  /\ JoinReturns(generation)
  /\ MarkDisconnected
  /\ GiveUp
  /\ UNCHANGED <<stage, cur, admitted, bufferVars, epochVars, streamVars,
                 recvVars>>

CloseJoins ==
  /\ pc = "end"
  /\ JoinReturns(generation)
  /\ pc' = "closed"
  /\ UNCHANGED <<op, stage, cur, admitted, bufferVars, stateVars, epochVars,
                 streamVars, recvVars>>

BackoffElapses ==
  /\ backoff
  /\ backoff' = FALSE
  /\ UNCHANGED <<callerVars, bufferVars, client, connected, attempt, fatal,
                 epochVars, streamVars, recvVars>>

-----------------------------------------------------------------------------
(* The network, the server and the receiver threads *)

LinkDrops(g) ==
  /\ link[g] = "up"
  /\ link' = [link EXCEPT ![g] = "down"]
  /\ UNCHANGED <<callerVars, bufferVars, stateVars, epochVars, wire,
                 audioFinished, closed, ready, fatalError, recvVars>>

\* A message of the server reaches the receiver of epoch g.
Receives(g) == recv[g] = "run" /\ link[g] = "up" /\ ~closed[g]

\* _ready_event is set before the status is emitted, without the lock.
RecvReady(g) ==
  /\ Receives(g) /\ ~ready[g]
  /\ ready' = [ready EXCEPT ![g] = TRUE]
  /\ recv' = [recv EXCEPT ![g] = "ready"]
  /\ UNCHANGED <<callerVars, bufferVars, stateVars, epochVars, link, wire,
                 audioFinished, closed, fatalError, pos>>

RecvOutdated(g) ==
  /\ Receives(g) /\ ~ready[g]
  /\ fatalError' = [fatalError EXCEPT ![g] = TRUE]
  /\ ready' = [ready EXCEPT ![g] = TRUE]
  /\ recv' = [recv EXCEPT ![g] = "outdated"]
  /\ UNCHANGED <<callerVars, bufferVars, stateVars, epochVars, link, wire,
                 audioFinished, closed, pos>>

\* The server says DISCONNECT to an overtime client and closes the socket.
RecvDisconnect(g) ==
  /\ Receives(g) /\ ready[g] /\ ~fatalError[g]
  /\ recv' = [recv EXCEPT ![g] = "disconnect"]
  /\ link' = [link EXCEPT ![g] = "down"]
  /\ UNCHANGED <<callerVars, bufferVars, stateVars, epochVars, wire,
                 audioFinished, closed, ready, fatalError, pos>>

RecvSegment(g) ==
  /\ Receives(g) /\ ready[g] /\ ~fatalError[g]
  /\ \E k \in 1..Len(wire[g]) : pos' = [pos EXCEPT ![g] = k]
  /\ recv' = [recv EXCEPT ![g] = "segment"]
  /\ UNCHANGED <<callerVars, bufferVars, stateVars, epochVars, streamVars>>

\* recv() raises or returns nothing; a closed client says nothing about it.
RecvEnds(g) ==
  /\ recv[g] = "run"
  /\ closed[g] \/ link[g] = "down"
  /\ recv' = [recv EXCEPT ![g] = IF closed[g] THEN "dead" ELSE "lost"]
  /\ UNCHANGED <<callerVars, bufferVars, stateVars, epochVars, streamVars, pos>>

(* _handle_status: whatever epoch the status comes from *)
StatusReady(g) ==
  /\ recv[g] = "ready" /\ LockFree
  /\ connected' = TRUE
  /\ recv' = [recv EXCEPT ![g] = "run"]
  /\ UNCHANGED <<callerVars, bufferVars, client, attempt, backoff, fatal,
                 epochVars, streamVars, pos>>

StatusOutdated(g) ==
  /\ recv[g] = "outdated" /\ LockFree
  /\ fatal' = TRUE /\ connected' = FALSE
  /\ recv' = [recv EXCEPT ![g] = "run"]
  /\ UNCHANGED <<callerVars, bufferVars, client, attempt, backoff, epochVars,
                 streamVars, pos>>

StatusLost(g) ==
  /\ recv[g] \in {"lost", "disconnect"} /\ LockFree
  /\ MarkDisconnected
  /\ recv' = [recv EXCEPT ![g] =
                IF recv[g] = "lost" \/ BackoffOverflows THEN "dead" ELSE "run"]
  /\ UNCHANGED <<callerVars, bufferVars, client, attempt, fatal, epochVars,
                 streamVars, pos>>

\* _forward_transcript: the generation is compared under the lock, ...
CheckGeneration(g) ==
  /\ recv[g] = "segment" /\ LockFree
  /\ IF g = generation
       THEN recv' = [recv EXCEPT ![g] = "mapping"] /\ UNCHANGED pos
       ELSE /\ recv' = [recv EXCEPT ![g] = "run"]
            /\ pos' = [pos EXCEPT ![g] = 0]
  /\ UNCHANGED <<callerVars, bufferVars, stateVars, epochVars, streamVars>>

\* ... and the callback maps the segment with the timeline it then finds.
ForwardTranscript(g) ==
  /\ recv[g] = "mapping"
  /\ recv' = [recv EXCEPT ![g] = "run"]
  /\ pos' = [pos EXCEPT ![g] = 0]
  /\ UNCHANGED <<callerVars, bufferVars, stateVars, epochVars, streamVars>>

-----------------------------------------------------------------------------
Calls   == ConnectInitial \/ Send \/ FlushBuffer \/ FinishAudio \/ Close
Running == \/ FlushDone \/ FlushChunk \/ FlushFails
           \/ SendChunk \/ SendFails \/ EvictOldest \/ BufferChunk
           \/ SkipConnect \/ BeginConnect \/ JoinOld \/ OpenSocket \/ OpenFails
           \/ WaitEnds \/ Rejected \/ ConnectSucceeds \/ ConnectExpires
           \/ Expired \/ CloseJoins

Server(g)   == \/ RecvReady(g) \/ RecvOutdated(g) \/ RecvDisconnect(g)
               \/ RecvSegment(g)
Receiver(g) == \/ RecvEnds(g) \/ StatusReady(g) \/ StatusOutdated(g)
               \/ StatusLost(g) \/ CheckGeneration(g) \/ ForwardTranscript(g)

Next ==
  \/ Calls
  \/ Running
  \/ BackoffElapses
  \/ \E g \in Gens : LinkDrops(g) \/ Server(g) \/ Receiver(g)

Spec == Init /\ [][Next]_vars

\* The threads are scheduled: an operation that can go on goes on, a receiver
\* that can act acts.  Nothing is assumed of the network, of the server or of
\* the session's calls.
FairSpec ==
  /\ Spec
  /\ WF_vars(Running)
  /\ \A g \in Gens : WF_vars(Receiver(g))
-----------------------------------------------------------------------------
(* Type invariant *)

Labels == {"new", "idle", "flush", "send", "buffer", "connect", "join", "open",
           "await", "reject", "checkReady", "expire", "raised", "end", "closed"}
Ops    == {"none", "initial", "send", "flush_buffer", "close"}
Stages == {"live", "draining", "finished"}
RecvStates == {"none", "run", "ready", "outdated", "lost", "disconnect",
               "segment", "mapping", "dead"}

\* Every variable holds a value of its kind; a client object is only ever the
\* one of an epoch whose handshake ended with _ready_event set.
TypeOK ==
  /\ pc \in Labels /\ op \in Ops /\ stage \in Stages
  /\ admitted \in 0..MaxChunks /\ cur \in 0..admitted
  /\ generation \in 0..MaxGen /\ attempt \in 0..MaxGen
  /\ client \in BOOLEAN /\ (client => generation > 0 /\ ready[generation])
  /\ connected \in BOOLEAN
  /\ backoff \in BOOLEAN /\ fatal \in BOOLEAN
  /\ buffer \in Seq(Chunks) /\ bufferedSeconds \in Nat
  /\ dropped \subseteq Chunks /\ timeline \in Seq(Chunks)
  /\ link \in [Gens -> {"none", "up", "down"}]
  /\ wire \in [Gens -> Seq(Chunks)]
  /\ audioFinished \in [Gens -> BOOLEAN] /\ closed \in [Gens -> BOOLEAN]
  /\ ready \in [Gens -> BOOLEAN] /\ fatalError \in [Gens -> BOOLEAN]
  /\ recv \in [Gens -> RecvStates]
  /\ pos \in [Gens -> Nat]

(* Safety *)

\* The chunks send has accepted and neither written nor dropped.
Pending == IF cur = 0 THEN buffer ELSE Append(buffer, cur)

Delivery == INSTANCE AudioDelivery WITH pending <- Pending, epoch <- generation

\* Locks, failed writes, put-backs, evictions and reconnects together deliver
\* audio as AudioDelivery says: in order, once, dropping only the oldest.
ImplementsDelivery == Delivery!Spec

\* Over all epochs together, the server gets the chunks in capture order and
\* none of them twice, and what still waits comes after what was sent: a
\* chunk put back after a failed write, or flushed after a reconnect, never
\* overtakes another (client_reconnect.py:20, the buffer is resent FIFO).
FifoAcrossEpochs == Delivery!InOrderOnce

\* Every chunk ever handed to send was written to some epoch's socket, waits
\* in the ring buffer or in send's hand, or is counted as dropped; failed
\* writes and failed reconnects in between lose none silently.
EveryChunkAccounted == Delivery!EveryChunkAccounted

\* What the full buffer gives up is older than what it keeps, so the newest
\* audio survives a long outage (README.md:365 and 423-424).
KeepsNewest == Delivery!KeepsNewest

\* A refusal of the version or of the certificate is terminal: once
\* _fatal_status is set no further epoch is ever opened, not even by an
\* operation that had passed the check before.
FatalIsTerminal == [][fatal => generation' = generation]_vars

\* A segment is placed on the timeline of the epoch that produced it, the
\* generation check being made before, and the mapping after, the lock is
\* released (client_reconnect.py:147-151 and 207-216).
MapsInOwnEpoch ==
  \A g \in Gens : recv[g] = "mapping" => MapToReal(pos[g]) = wire[g][pos[g]]

(* Liveness *)

\* Every call returns, close included: a lock holder that joins a receiver
\* which waits for that same lock does not wait for ever.
Busy == pc \notin {"new", "idle", "raised", "closed"}
CallsReturn == Busy ~> ~Busy
==============================================================================

------------------------ MODULE ReconnectClientProofs ------------------------
(***************************************************************************)
(* Theorems about ReconnectClient for every number of chunks and epochs,   *)
(* every duration and buffer size, reconnect on or off.                    *)
(*                                                                         *)
(* IInv, the inductive invariant, adds to TypeOK                           *)
(*   - Control: which operation runs at which label, who holds the lock,   *)
(*     what send has in hand, and that send writes its chunk directly only *)
(*     when nothing waits in the buffer;                                   *)
(*   - Epochs: what is known of the current epoch, of those to come and of *)
(*     the receivers, label by label.                                      *)
(* The second part is about the timelines; the third proves what           *)
(* AudioDelivery promises, and that the client implements it.              *)
(***************************************************************************)
EXTENDS ReconnectClient, TLAPS

Connecting == {"connect", "join", "open", "await", "reject", "checkReady",
               "expire"}

Control ==
  /\ pc \in {"send", "buffer"} => op = "send" /\ cur # 0
  /\ pc \in {"new", "idle", "raised"} => op = "none"
  /\ pc = "flush" => op \in {"send", "flush_buffer"}
  /\ pc \in Connecting => op \in {"initial", "send", "flush_buffer"}
  /\ pc \in {"end", "closed"} => op = "close"
  /\ cur # 0 => pc \in {"flush", "send", "buffer"} /\ op = "send" /\ cur = admitted
  /\ pc = "send" /\ IsConnected => buffer = <<>>
  /\ BufferSeconds = 0 => buffer = <<>>

Epochs ==
  /\ pc \in Connecting \ {"connect"} => ~client
  /\ pc \in {"await", "reject", "checkReady", "expire", "join", "end"} =>
       generation \in Gens
  /\ pc \in {"join", "open"} => /\ generation < MaxGen /\ ~fatal
                                 /\ attempt <= generation + 1
  /\ pc \notin {"join", "open"} => attempt <= generation
  /\ (pc = "new" \/ (op = "initial" /\ pc \in {"connect", "open"})) =>
       generation = 0 /\ ~client
  /\ pc = "join" => op # "initial"
  /\ \A g \in Gens : g > generation => wire[g] = <<>> /\ recv[g] = "none"

IInv == TypeOK /\ Control /\ Epochs

\* The head and the tail of a sequence, and putting the head back.
LEMMA HeadTail ==
  ASSUME NEW S, NEW s \in Seq(S), s # <<>>
  PROVE  /\ Head(s) \in S /\ Tail(s) \in Seq(S)
         /\ PutBack(Head(s), Tail(s)) = s
  BY DEF PutBack

\* Appending keeps the type.
LEMMA AppendType ==
  ASSUME NEW S, NEW s \in Seq(S), NEW c \in S
  PROVE  Append(s, c) \in Seq(S)
  OBVIOUS

\* Durations are natural numbers, and so is what is left of a difference.
LEMMA Seconds ==
  ASSUME ConstantsAssumption, NEW c \in Chunks, NEW n \in Nat
  PROVE  /\ Duration[c] \in Nat
         /\ n + Duration[c] \in Nat
         /\ NonNegative(n - Duration[c]) \in Nat
         /\ NonNegative(n - Duration[c]) + Duration[c] \in Nat
  BY DEF ConstantsAssumption, NonNegative

\* The client starts in a state that satisfies the invariant.
LEMMA InitIInv == ASSUME ConstantsAssumption PROVE Init => IInv
<1> SUFFICES ASSUME Init PROVE IInv
  OBVIOUS
<1>1. TypeOK
  <2>1. 0 \in 0..MaxGen /\ 0 \in 0..MaxChunks /\ 0 \in 0..0
    BY DEF ConstantsAssumption
  <2>2. <<>> \in Seq(Chunks)
    OBVIOUS
  <2>3. wire \in [Gens -> Seq(Chunks)] /\ pos \in [Gens -> Nat]
    BY <2>2 DEF Init
  <2> QED BY <2>1, <2>2, <2>3
          DEF Init, TypeOK, Labels, Ops, Stages, RecvStates
<1>2. Control
  BY DEF Init, Control, Connecting, IsConnected
<1>3. Epochs
  BY DEF ConstantsAssumption, Init, Epochs, Connecting, Gens
<1> QED BY <1>1, <1>2, <1>3 DEF IInv

\* Every step keeps the types.
LEMMA TypeNext == ASSUME ConstantsAssumption, IInv, [Next]_vars PROVE TypeOK'
<1> USE DEF IInv, TypeOK, Labels, Ops, Stages, RecvStates, vars, callerVars, bufferVars, stateVars, epochVars, streamVars, recvVars
<1>1. CASE ConnectInitial
  BY <1>1 DEF ConnectInitial
<1>2. CASE Send
  BY <1>2 DEF Send
<1>3. CASE FlushBuffer
  BY <1>3 DEF FlushBuffer
<1>4. CASE FinishAudio
  BY <1>4 DEF FinishAudio, EndAudio
<1>5. CASE Close
  BY <1>5 DEF Close, EndAudio
<1>6. CASE FlushDone
  BY <1>6 DEF FlushDone, AfterFlush, Goto, Return
<1>7. CASE FlushChunk
  <2>1. generation \in Gens
    BY <1>7 DEF FlushChunk, IsConnected, Gens
  <2>2. Head(buffer) \in Chunks /\ Tail(buffer) \in Seq(Chunks)
    BY <1>7, HeadTail DEF FlushChunk
  <2>3. bufferedSeconds' \in Nat
    BY <1>7, <2>2, Seconds DEF FlushChunk
  <2>4. wire' \in [Gens -> Seq(Chunks)] /\ timeline' \in Seq(Chunks)
    BY <1>7, <2>1, <2>2, AppendType DEF FlushChunk, Transmit
  <2> QED BY <1>7, <2>2, <2>3, <2>4 DEF FlushChunk
<1>8. CASE FlushFails
  BY <1>8, HeadTail, Seconds DEF FlushFails, MarkDisconnected,
      BackoffOverflows, AfterFlush, Goto, Return, PutBack
<1>9. CASE SendChunk
  <2>1. generation \in Gens
    BY <1>9 DEF SendChunk, IsConnected, Gens
  <2>2. cur \in Chunks /\ 0 \in 0..admitted
    BY <1>9 DEF SendChunk, Control, Chunks, ConstantsAssumption
  <2>3. wire' \in [Gens -> Seq(Chunks)] /\ timeline' \in Seq(Chunks)
    BY <1>9, <2>1, <2>2, AppendType DEF SendChunk, Transmit
  <2> QED BY <1>9, <2>2, <2>3 DEF SendChunk, Return
<1>10. CASE SendFails
  BY <1>10 DEF SendFails, MarkDisconnected, BackoffOverflows, Goto
<1>11. CASE EvictOldest
  BY <1>11, HeadTail, Seconds DEF EvictOldest
<1>12. CASE BufferChunk
  <2>1. cur \in Chunks /\ 0 \in 0..admitted
    BY <1>12 DEF BufferChunk, Control, Chunks, ConstantsAssumption
  <2>2. bufferedSeconds' \in Nat
    BY <1>12, <2>1, Seconds DEF BufferChunk
  <2>3. buffer' \in Seq(Chunks) /\ dropped' \subseteq Chunks
    <3>1. CASE BufferSeconds = 0 \/ Duration[cur] > BufferSeconds
      BY <1>12, <2>1, <3>1 DEF BufferChunk
    <3>2. CASE ~(BufferSeconds = 0 \/ Duration[cur] > BufferSeconds)
      <4>1. buffer' = Append(buffer, cur) /\ UNCHANGED dropped
        BY <1>12, <3>2 DEF BufferChunk
      <4> QED BY <4>1, <2>1, AppendType
    <3> QED BY <3>1, <3>2
  <2> QED BY <1>12, <2>1, <2>2, <2>3 DEF BufferChunk, Goto, Return
<1>13. CASE SkipConnect
  BY <1>13 DEF SkipConnect, AfterConnect, Goto, Return
<1>14. CASE BeginConnect
  <2>1. attempt' \in 0..MaxGen
    BY <1>14 DEF BeginConnect, MayConnect, Epochs, ConstantsAssumption
  <2> QED BY <1>14, <2>1 DEF BeginConnect, Goto
<1>15. CASE JoinOld
  BY <1>15 DEF JoinOld, Goto, JoinReturns
<1>16. CASE OpenSocket
  <2>1. generation' \in 0..MaxGen /\ ~client /\ timeline' \in Seq(Chunks)
    BY <1>16 DEF OpenSocket, NewEpoch, Epochs, Connecting, ConstantsAssumption
  <2> QED BY <1>16, <2>1 DEF OpenSocket, Goto
<1>17. CASE OpenFails
  <2>1. generation' \in 0..MaxGen /\ ~client' /\ timeline' \in Seq(Chunks)
    BY <1>17 DEF OpenFails, NewEpoch, Reject, Fail, GiveUp, Epochs,
                 ConstantsAssumption
  <2>2. pc' \in Labels /\ op' \in Ops /\ UNCHANGED attempt
    BY <1>17 DEF OpenFails, Reject, Fail, GiveUp, AfterConnect, Goto, Return, Raise
  <2>3. client' \in BOOLEAN /\ connected' \in BOOLEAN
        /\ backoff' \in BOOLEAN /\ fatal' \in BOOLEAN
    BY <1>17 DEF OpenFails, Reject, Fail, GiveUp
  <2> QED BY <1>17, <2>1, <2>2, <2>3 DEF OpenFails
<1>18. CASE WaitEnds
  BY <1>18 DEF WaitEnds, EndAudio, Goto
<1>19. CASE Rejected
  BY <1>19 DEF Rejected, Reject, AfterConnect, Goto, Return, Raise
<1>20. CASE ConnectSucceeds
  <2>1. generation > 0 /\ attempt' \in 0..MaxGen
    BY <1>20 DEF ConnectSucceeds, Epochs, Gens, Connecting, ConstantsAssumption
  <2> QED BY <1>20, <2>1 DEF ConnectSucceeds, AfterConnect, Goto, Return
<1>21. CASE ConnectExpires
  BY <1>21 DEF ConnectExpires, EndAudio, Goto
<1>22. CASE Expired
  BY <1>22 DEF Expired, MarkDisconnected, GiveUp, AfterConnect, Goto, Return, Raise
<1>23. CASE CloseJoins
  BY <1>23 DEF CloseJoins
<1>24. CASE BackoffElapses
  BY <1>24 DEF BackoffElapses
<1>25. ASSUME NEW g \in Gens, LinkDrops(g) PROVE TypeOK'
  BY <1>25 DEF LinkDrops
<1>26. ASSUME NEW g \in Gens, RecvReady(g) PROVE TypeOK'
  BY <1>26 DEF RecvReady, Receives
<1>27. ASSUME NEW g \in Gens, RecvOutdated(g) PROVE TypeOK'
  BY <1>27 DEF RecvOutdated, Receives
<1>28. ASSUME NEW g \in Gens, RecvDisconnect(g) PROVE TypeOK'
  BY <1>28 DEF RecvDisconnect, Receives
<1>29. ASSUME NEW g \in Gens, RecvSegment(g) PROVE TypeOK'
  BY <1>29 DEF RecvSegment, Receives
<1>30. ASSUME NEW g \in Gens, RecvEnds(g) PROVE TypeOK'
  BY <1>30 DEF RecvEnds
<1>31. ASSUME NEW g \in Gens, StatusReady(g) PROVE TypeOK'
  BY <1>31 DEF StatusReady, LockFree
<1>32. ASSUME NEW g \in Gens, StatusOutdated(g) PROVE TypeOK'
  BY <1>32 DEF StatusOutdated, LockFree
<1>33. ASSUME NEW g \in Gens, StatusLost(g) PROVE TypeOK'
  BY <1>33 DEF StatusLost, MarkDisconnected, BackoffOverflows, LockFree
<1>34. ASSUME NEW g \in Gens, CheckGeneration(g) PROVE TypeOK'
  <2>1. recv' \in [Gens -> RecvStates] /\ pos' \in [Gens -> Nat]
    <3>1. CASE g = generation
      BY <1>34, <3>1 DEF CheckGeneration
    <3>2. CASE g # generation
      <4>1. recv' = [recv EXCEPT ![g] = "run"] /\ pos' = [pos EXCEPT ![g] = 0]
        BY <1>34, <3>2 DEF CheckGeneration
      <4>2. recv' \in [Gens -> RecvStates]
        BY <4>1
      <4>3. pos' \in [Gens -> Nat]
        BY <4>1
      <4> QED BY <4>2, <4>3
    <3> QED BY <3>1, <3>2
  <2> QED BY <1>34, <2>1 DEF CheckGeneration
<1>35. ASSUME NEW g \in Gens, ForwardTranscript(g) PROVE TypeOK'
  BY <1>35 DEF ForwardTranscript
<1>36. CASE UNCHANGED vars
  BY <1>36
<1> QED BY <1>1, <1>2, <1>3, <1>4, <1>5, <1>6, <1>7, <1>8, <1>9, <1>10, <1>11,
    <1>12, <1>13, <1>14, <1>15, <1>16, <1>17, <1>18, <1>19, <1>20, <1>21,
    <1>22, <1>23, <1>24, <1>25, <1>26, <1>27, <1>28, <1>29, <1>30, <1>31,
    <1>32, <1>33, <1>34, <1>35, <1>36 DEF Next, Calls, Running, Server,
    Receiver

\* Every step keeps the control part.
LEMMA ControlNext == ASSUME ConstantsAssumption, IInv, [Next]_vars PROVE Control'
<1> USE DEF IInv, Control, Connecting, vars, callerVars, bufferVars, stateVars, epochVars, streamVars, recvVars
<1>1. CASE ConnectInitial
  BY <1>1 DEF ConnectInitial, IsConnected
<1>2. CASE Send
  BY <1>2 DEF Send, TypeOK, IsConnected
<1>3. CASE FlushBuffer
  BY <1>3 DEF FlushBuffer, IsConnected
<1>4. CASE FinishAudio
  BY <1>4 DEF FinishAudio, EndAudio, IsConnected
<1>5. CASE Close
  BY <1>5 DEF Close, EndAudio, IsConnected
<1>6. CASE FlushDone
  BY <1>6 DEF FlushDone, AfterFlush, Goto, Return, IsConnected
<1>7. CASE FlushChunk
  BY <1>7 DEF FlushChunk, Transmit, IsConnected
<1>8. CASE FlushFails
  BY <1>8 DEF FlushFails, MarkDisconnected, BackoffOverflows, AfterFlush,
      Goto, Return, PutBack, TypeOK, IsConnected
<1>9. CASE SendChunk
  BY <1>9 DEF SendChunk, Transmit, Return, IsConnected
<1>10. CASE SendFails
  BY <1>10 DEF SendFails, MarkDisconnected, BackoffOverflows, Goto,
      IsConnected
<1>11. CASE EvictOldest
  BY <1>11 DEF EvictOldest, TypeOK, IsConnected
<1>12. CASE BufferChunk
  BY <1>12 DEF BufferChunk, Goto, Return, TypeOK, IsConnected
<1>13. CASE SkipConnect
  BY <1>13 DEF SkipConnect, AfterConnect, Goto, Return, IsConnected
<1>14. CASE BeginConnect
  BY <1>14 DEF BeginConnect, Goto, MayConnect, IsConnected
<1>15. CASE JoinOld
  BY <1>15 DEF JoinOld, Goto, JoinReturns, IsConnected
<1>16. CASE OpenSocket
  BY <1>16 DEF OpenSocket, Goto, NewEpoch, IsConnected
<1>17. CASE OpenFails
  BY <1>17 DEF OpenFails, NewEpoch, Reject, Fail, GiveUp, AfterConnect, Goto, Return,
      Raise, IsConnected
<1>18. CASE WaitEnds
  BY <1>18 DEF WaitEnds, EndAudio, Goto, IsConnected
<1>19. CASE Rejected
  BY <1>19 DEF Rejected, Reject, AfterConnect, Goto, Return, Raise,
      IsConnected
<1>20. CASE ConnectSucceeds
  BY <1>20 DEF ConnectSucceeds, AfterConnect, Goto, Return, IsConnected
<1>21. CASE ConnectExpires
  BY <1>21 DEF ConnectExpires, EndAudio, Goto, IsConnected
<1>22. CASE Expired
  BY <1>22 DEF Expired, MarkDisconnected, GiveUp, AfterConnect, Goto, Return, Raise, IsConnected
<1>23. CASE CloseJoins
  BY <1>23 DEF CloseJoins, IsConnected
<1>24. CASE BackoffElapses
  BY <1>24 DEF BackoffElapses, IsConnected
<1>25. ASSUME NEW g \in Gens, LinkDrops(g) PROVE Control'
  BY <1>25 DEF LinkDrops, IsConnected
<1>26. ASSUME NEW g \in Gens, RecvReady(g) PROVE Control'
  BY <1>26 DEF RecvReady, Receives, TypeOK, IsConnected
<1>27. ASSUME NEW g \in Gens, RecvOutdated(g) PROVE Control'
  BY <1>27 DEF RecvOutdated, Receives, TypeOK, IsConnected
<1>28. ASSUME NEW g \in Gens, RecvDisconnect(g) PROVE Control'
  BY <1>28 DEF RecvDisconnect, Receives, IsConnected
<1>29. ASSUME NEW g \in Gens, RecvSegment(g) PROVE Control'
  BY <1>29 DEF RecvSegment, Receives, IsConnected
<1>30. ASSUME NEW g \in Gens, RecvEnds(g) PROVE Control'
  BY <1>30 DEF RecvEnds, IsConnected
<1>31. ASSUME NEW g \in Gens, StatusReady(g) PROVE Control'
  BY <1>31 DEF StatusReady, LockFree, IsConnected
<1>32. ASSUME NEW g \in Gens, StatusOutdated(g) PROVE Control'
  BY <1>32 DEF StatusOutdated, LockFree, IsConnected
<1>33. ASSUME NEW g \in Gens, StatusLost(g) PROVE Control'
  BY <1>33 DEF StatusLost, MarkDisconnected, BackoffOverflows, LockFree,
      IsConnected
<1>34. ASSUME NEW g \in Gens, CheckGeneration(g) PROVE Control'
  BY <1>34 DEF CheckGeneration, LockFree, IsConnected
<1>35. ASSUME NEW g \in Gens, ForwardTranscript(g) PROVE Control'
  BY <1>35 DEF ForwardTranscript, IsConnected
<1>36. CASE UNCHANGED vars
  BY <1>36 DEF IsConnected
<1> QED BY <1>1, <1>2, <1>3, <1>4, <1>5, <1>6, <1>7, <1>8, <1>9, <1>10, <1>11,
    <1>12, <1>13, <1>14, <1>15, <1>16, <1>17, <1>18, <1>19, <1>20, <1>21,
    <1>22, <1>23, <1>24, <1>25, <1>26, <1>27, <1>28, <1>29, <1>30, <1>31,
    <1>32, <1>33, <1>34, <1>35, <1>36 DEF Next, Calls, Running, Server,
    Receiver

\* Every step keeps the epoch part.
LEMMA EpochsNext == ASSUME ConstantsAssumption, IInv, [Next]_vars PROVE Epochs'
<1> USE DEF IInv, Epochs, Connecting, vars, callerVars, bufferVars, stateVars, epochVars, streamVars, recvVars
<1>1. CASE ConnectInitial
  BY <1>1 DEF ConnectInitial, TypeOK, Gens
<1>2. CASE Send
  BY <1>2 DEF Send, TypeOK, Gens
<1>3. CASE FlushBuffer
  BY <1>3 DEF FlushBuffer, TypeOK, Gens
<1>4. CASE FinishAudio
  BY <1>4 DEF FinishAudio, EndAudio, TypeOK, Gens
<1>5. CASE Close
  <2>1. client => generation \in Gens
    BY <1>5 DEF TypeOK, Gens
  <2> QED BY <1>5, <2>1 DEF Close, Control, Labels
<1>6. CASE FlushDone
  BY <1>6 DEF FlushDone, AfterFlush, Goto, Return, TypeOK, Gens
<1>7. CASE FlushChunk
  <2>1. \A g \in Gens : g > generation => wire'[g] = wire[g]
    BY <1>7 DEF FlushChunk, Transmit, TypeOK, Gens
  <2> QED BY <1>7, <2>1 DEF FlushChunk, TypeOK
<1>8. CASE FlushFails
  BY <1>8 DEF FlushFails, MarkDisconnected, BackoffOverflows, AfterFlush,
      Goto, Return, PutBack, TypeOK, Gens
<1>9. CASE SendChunk
  <2>1. \A g \in Gens : g > generation => wire'[g] = wire[g]
    BY <1>9 DEF SendChunk, Transmit, TypeOK, Gens
  <2> QED BY <1>9, <2>1 DEF SendChunk, Return, TypeOK
<1>10. CASE SendFails
  BY <1>10 DEF SendFails, MarkDisconnected, BackoffOverflows, Goto, TypeOK,
      Gens
<1>11. CASE EvictOldest
  BY <1>11 DEF EvictOldest, TypeOK, Gens
<1>12. CASE BufferChunk
  BY <1>12 DEF BufferChunk, Goto, Return, Control, TypeOK, Gens
<1>13. CASE SkipConnect
  BY <1>13 DEF SkipConnect, AfterConnect, Goto, Return, TypeOK, Gens
<1>14. CASE BeginConnect
  <2>1. client => generation \in Gens
    BY <1>14 DEF TypeOK, Gens
  <2>2. attempt' <= generation + 1
    BY <1>14 DEF BeginConnect, TypeOK
  <2>3. generation < MaxGen /\ ~fatal
    BY <1>14 DEF BeginConnect, MayConnect
  <2> QED BY <1>14, <2>1, <2>2, <2>3 DEF BeginConnect, Goto
<1>15. CASE JoinOld
  BY <1>15 DEF JoinOld, Goto, JoinReturns, TypeOK, Gens
<1>16. CASE OpenSocket
  <2>1. generation' = generation + 1 /\ generation' \in Gens
    BY <1>16 DEF OpenSocket, NewEpoch, TypeOK, Gens, ConstantsAssumption
  <2>2. \A g \in Gens : g > generation' => wire'[g] = <<>> /\ recv'[g] = "none"
    <3> SUFFICES ASSUME NEW g \in Gens, g > generation'
                 PROVE  wire'[g] = <<>> /\ recv'[g] = "none"
      OBVIOUS
    <3>1. g > generation /\ g # generation + 1
      BY <2>1 DEF TypeOK, Gens
    <3>2. wire'[g] = wire[g] /\ recv'[g] = recv[g]
      BY <1>16, <3>1 DEF OpenSocket, TypeOK
    <3> QED BY <3>1, <3>2
  <2> QED BY <1>16, <2>1, <2>2 DEF OpenSocket, Goto
<1>17. CASE OpenFails
  <2>1. generation' = generation + 1 /\ attempt' <= generation'
    BY <1>17 DEF OpenFails, NewEpoch, Reject, Fail, GiveUp
  <2>2. pc' \in {"flush", "idle", "raised"} /\ ~client'
    BY <1>17 DEF OpenFails, Reject, Fail, GiveUp, AfterConnect, Goto, Return, Raise
  <2>3. \A g \in Gens : g > generation' => wire'[g] = <<>> /\ recv'[g] = "none"
    <3> SUFFICES ASSUME NEW g \in Gens, g > generation'
                 PROVE  wire'[g] = <<>> /\ recv'[g] = "none"
      OBVIOUS
    <3>1. g > generation
      BY <2>1 DEF TypeOK, Gens
    <3> QED BY <1>17, <3>1 DEF OpenFails
  <2>4. op' # "initial" \/ pc' \in {"idle", "raised"}
    BY <2>2, <1>17 DEF OpenFails, Reject, Fail, GiveUp, AfterConnect, Goto, Return,
                       Raise
  <2> QED BY <1>17, <2>1, <2>2, <2>3, <2>4 DEF OpenFails
<1>18. CASE WaitEnds
  BY <1>18 DEF WaitEnds, EndAudio, Goto, TypeOK, Gens
<1>19. CASE Rejected
  BY <1>19 DEF Rejected, Reject, AfterConnect, Goto, Return, Raise, TypeOK,
      Gens
<1>20. CASE ConnectSucceeds
  BY <1>20 DEF ConnectSucceeds, AfterConnect, Goto, Return, TypeOK, Gens
<1>21. CASE ConnectExpires
  BY <1>21 DEF ConnectExpires, EndAudio, Goto, TypeOK, Gens
<1>22. CASE Expired
  BY <1>22 DEF Expired, MarkDisconnected, GiveUp, AfterConnect, Goto, Return, Raise, TypeOK, Gens
<1>23. CASE CloseJoins
  BY <1>23 DEF CloseJoins, TypeOK, Gens
<1>24. CASE BackoffElapses
  BY <1>24 DEF BackoffElapses, TypeOK, Gens
<1>25. ASSUME NEW g \in Gens, LinkDrops(g) PROVE Epochs'
  BY <1>25 DEF LinkDrops, TypeOK, Gens
<1>26. ASSUME NEW g \in Gens, RecvReady(g) PROVE Epochs'
  BY <1>26 DEF RecvReady, Receives, TypeOK, Gens
<1>27. ASSUME NEW g \in Gens, RecvOutdated(g) PROVE Epochs'
  BY <1>27 DEF RecvOutdated, Receives, TypeOK, Gens
<1>28. ASSUME NEW g \in Gens, RecvDisconnect(g) PROVE Epochs'
  BY <1>28 DEF RecvDisconnect, Receives, TypeOK, Gens
<1>29. ASSUME NEW g \in Gens, RecvSegment(g) PROVE Epochs'
  BY <1>29 DEF RecvSegment, Receives, TypeOK, Gens
<1>30. ASSUME NEW g \in Gens, RecvEnds(g) PROVE Epochs'
  BY <1>30 DEF RecvEnds, TypeOK, Gens
<1>31. ASSUME NEW g \in Gens, StatusReady(g) PROVE Epochs'
  BY <1>31 DEF StatusReady, LockFree, TypeOK, Gens
<1>32. ASSUME NEW g \in Gens, StatusOutdated(g) PROVE Epochs'
  <2>1. pc \notin {"join", "open"}
    BY <1>32 DEF StatusOutdated, LockFree, Control, Gens
  <2>2. \A h \in Gens : h > generation => wire'[h] = <<>> /\ recv'[h] = "none"
    BY <1>32 DEF StatusOutdated, TypeOK
  <2> QED BY <1>32, <2>1, <2>2 DEF StatusOutdated
<1>33. ASSUME NEW g \in Gens, StatusLost(g) PROVE Epochs'
  BY <1>33 DEF StatusLost, MarkDisconnected, BackoffOverflows, LockFree,
      TypeOK, Gens
<1>34. ASSUME NEW g \in Gens, CheckGeneration(g) PROVE Epochs'
  BY <1>34 DEF CheckGeneration, LockFree, Control, TypeOK, Gens
<1>35. ASSUME NEW g \in Gens, ForwardTranscript(g) PROVE Epochs'
  BY <1>35 DEF ForwardTranscript, TypeOK, Gens
<1>36. CASE UNCHANGED vars
  BY <1>36 DEF TypeOK, Gens
<1> QED BY <1>1, <1>2, <1>3, <1>4, <1>5, <1>6, <1>7, <1>8, <1>9, <1>10, <1>11,
    <1>12, <1>13, <1>14, <1>15, <1>16, <1>17, <1>18, <1>19, <1>20, <1>21,
    <1>22, <1>23, <1>24, <1>25, <1>26, <1>27, <1>28, <1>29, <1>30, <1>31,
    <1>32, <1>33, <1>34, <1>35, <1>36 DEF Next, Calls, Running, Server,
    Receiver

\* IInv is inductive, so it holds in every reachable state.
LEMMA Invariance == ASSUME ConstantsAssumption PROVE Spec => []IInv
<1>1. Init => IInv
  BY InitIInv
<1>2. IInv /\ [Next]_vars => IInv'
  BY TypeNext, ControlNext, EpochsNext DEF IInv
<1> QED BY <1>1, <1>2, PTL DEF Spec

\* Type correctness: in particular a client object is only ever the one of an
\* epoch whose server said it was ready.
THEOREM TypeCorrect == ASSUME ConstantsAssumption PROVE Spec => []TypeOK
<1>1. IInv => TypeOK
  BY DEF IInv
<1> QED BY <1>1, Invariance, PTL

\* Once the version or the certificate is refused no epoch is opened any
\* more: at the two labels from which an epoch is opened, _connect has seen
\* no fatal status, and no receiver can set one in between, because send and
\* flush_buffer hold its lock and connect_initial has no receiver yet.
THEOREM FatalNeverReconnects ==
  ASSUME ConstantsAssumption PROVE Spec => FatalIsTerminal
<1>1. IInv /\ [Next]_vars => [fatal => generation' = generation]_vars
  <2> SUFFICES ASSUME IInv, [Next]_vars, fatal
               PROVE  generation' = generation
    OBVIOUS
  <2>1. ~OpenSocket /\ ~OpenFails
    BY DEF IInv, Epochs, OpenSocket, OpenFails
  <2> QED
    BY <2>1 DEF Next, Calls, Running, Server, Receiver, vars, epochVars,
         ConnectInitial, Send, FlushBuffer, FinishAudio, Close, FlushDone,
         FlushChunk, FlushFails, SendChunk, SendFails, EvictOldest,
         BufferChunk, SkipConnect, BeginConnect, JoinOld, WaitEnds, Rejected,
         ConnectSucceeds, ConnectExpires, Expired, CloseJoins, BackoffElapses,
         LinkDrops, RecvReady, RecvOutdated, RecvDisconnect, RecvSegment,
         RecvEnds, StatusReady, StatusOutdated, StatusLost, CheckGeneration,
         ForwardTranscript
<1> QED BY <1>1, Invariance, PTL DEF Spec, FatalIsTerminal

-----------------------------------------------------------------------------
(***************************************************************************)
(* The timeline a segment is mapped with, when every callback ends within  *)
(* the 2 s a join waits.  Own adds to IInv                                 *)
(*   - OwnTimeline: the timeline records what the current epoch was sent;  *)
(*   - Segments: a segment comes from a stream that is ready and speaks of *)
(*     chunks written to it;                                               *)
(*   - Attempts: an epoch whose handshake failed never gets a segment;     *)
(*   - Mapping: when a new epoch is opened, nobody is about to map.        *)
(***************************************************************************)
OwnTimeline == generation \in Gens => timeline = wire[generation]

Segments ==
  \A g \in Gens : recv[g] \in {"segment", "mapping"} =>
    ready[g] /\ ~fatalError[g] /\ pos[g] \in 1..Len(wire[g])

Failed(g) == fatalError[g] \/ recv[g] = "none" \/ (closed[g] /\ ~ready[g])

Attempts ==
  /\ pc = "expire" => closed[generation] /\ ~ready[generation]
  /\ pc = "reject" => fatalError[generation]
  /\ pc \in {"idle", "flush", "send", "buffer", "connect", "raised"}
       /\ ~client /\ generation \in Gens => Failed(generation)

Mapping ==
  \A g \in Gens : recv[g] = "mapping" => g = generation /\ pc # "open"

Own == OwnTimeline /\ Segments /\ Attempts /\ Mapping

\* The client starts without an epoch.
LEMMA InitOwn == ASSUME ConstantsAssumption PROVE Init => Own
  BY DEF Init, Own, OwnTimeline, Segments, Attempts, Mapping, Gens

\* A chunk is written to the current epoch and recorded in its timeline.
LEMMA WriteOwn ==
  ASSUME ConstantsAssumption, IInv, Own, FlushChunk \/ SendChunk PROVE Own'
<1>1. /\ generation \in Gens /\ client
      /\ generation' = generation /\ recv' = recv /\ pos' = pos /\ client' = client
      /\ ready' = ready /\ fatalError' = fatalError /\ closed' = closed
      /\ pc' \in {"flush", "idle"}
  BY DEF IInv, TypeOK, FlushChunk, SendChunk, IsConnected, Gens, Return,
         callerVars, stateVars, recvVars
<1>2. PICK c \in Chunks : /\ wire' = [wire EXCEPT ![generation] = Append(@, c)]
                          /\ timeline' = Append(timeline, c)
  <2>1. CASE FlushChunk
    BY <2>1, HeadTail DEF FlushChunk, Transmit, IInv, TypeOK
  <2>2. CASE SendChunk
    <3>1. cur \in Chunks
      BY <2>2 DEF IInv, TypeOK, Control, SendChunk, Chunks, ConstantsAssumption
    <3> QED BY <2>2, <3>1 DEF SendChunk, Transmit
  <2> QED BY <2>1, <2>2
<1>3. wire \in [Gens -> Seq(Chunks)]
  BY DEF IInv, TypeOK
<1>4. wire'[generation] = Append(wire[generation], c)
  BY <1>1, <1>2, <1>3
<1>5. OwnTimeline'
  BY <1>1, <1>2, <1>4 DEF Own, OwnTimeline
<1>6. ASSUME NEW g \in Gens PROVE 1..Len(wire[g]) \subseteq 1..Len(wire'[g])
  <2>1. CASE g = generation
    <3>1. Len(wire[g]) \in Nat /\ Len(wire'[g]) = Len(wire[g]) + 1
      BY <1>3, <1>4, <2>1
    <3> QED BY <3>1
  <2>2. CASE g # generation
    BY <1>2, <1>3, <2>2
  <2> QED BY <2>1, <2>2
<1>7. Segments'
  BY <1>1, <1>6 DEF Own, Segments
<1>8. Attempts' /\ Mapping'
  BY <1>1 DEF Own, Attempts, Mapping
<1> QED BY <1>5, <1>7, <1>8 DEF Own

\* A new epoch starts with an empty timeline, and nobody is about to map.
LEMMA EpochOwn ==
  ASSUME ConstantsAssumption, IInv, Own, OpenSocket \/ OpenFails PROVE Own'
<1>1. /\ pc = "open" /\ generation' = generation + 1 /\ timeline' = <<>>
      /\ wire' = wire /\ pos' = pos /\ ready' = ready
      /\ fatalError' = fatalError /\ closed' = closed
  BY DEF OpenSocket, OpenFails, NewEpoch, streamVars, recvVars
<1>2. generation \in Nat /\ generation' \in Gens /\ generation < generation'
  BY <1>1 DEF IInv, TypeOK, Epochs, Gens, ConstantsAssumption
<1>3. \A g \in Gens : recv[g] # "mapping"
  BY <1>1 DEF Own, Mapping
<1>4. wire[generation'] = <<>> /\ recv[generation'] = "none"
  BY <1>2 DEF IInv, Epochs
<1>5. recv' = recv \/ recv' = [recv EXCEPT ![generation'] = "run"]
  BY <1>1 DEF OpenSocket, OpenFails, recvVars
<1>6. \A g \in Gens : /\ recv'[g] # "mapping"
                      /\ recv'[g] = "segment" => recv[g] = "segment"
  BY <1>3, <1>5 DEF IInv, TypeOK
<1>7. OwnTimeline' /\ Segments' /\ Mapping'
  BY <1>1, <1>2, <1>4, <1>6 DEF Own, OwnTimeline, Segments, Mapping
<1>8. Attempts'
  <2>1. CASE OpenSocket
    BY <2>1 DEF OpenSocket, Goto, Attempts
  <2>2. CASE OpenFails
    <3>1. pc' \in {"flush", "idle", "raised"} /\ recv' = recv
      BY <2>2 DEF OpenFails, Reject, Fail, GiveUp, AfterConnect, Goto, Return,
                  Raise, recvVars
    <3> QED BY <1>4, <3>1 DEF Attempts, Failed
  <2> QED BY <2>1, <2>2
<1> QED BY <1>7, <1>8 DEF Own

\* What the caller's other steps must leave alone.
LEMMA QuietOwn ==
  ASSUME IInv, Own, generation' = generation, timeline' = timeline, wire' = wire,
         recv' = recv, pos' = pos, ready' = ready, fatalError' = fatalError,
         Attempts', pc' = "open" => \A g \in Gens : recv[g] # "mapping"
  PROVE  Own'
BY DEF Own, OwnTimeline, Segments, Mapping

Quiet == UNCHANGED <<generation, timeline, wire, recv, pos, ready, fatalError>>

\* Steps of the caller between two connections.
LEMMA CallerOwn ==
  ASSUME ConstantsAssumption, IInv, Own,
         \/ Calls \/ FlushDone \/ FlushFails \/ SendFails \/ EvictOldest
         \/ BufferChunk \/ SkipConnect
  PROVE  Own'
<1> USE DEF epochVars, streamVars, recvVars, callerVars, stateVars, bufferVars
<1>1. /\ Quiet
      /\ pc' # "open"
  BY DEF Quiet, Calls, ConnectInitial, Send, FlushBuffer, FinishAudio, Close, FlushDone,
         FlushFails, SendFails, EvictOldest, BufferChunk, SkipConnect,
         AfterFlush, AfterConnect, Goto, Return, IInv, Control, Epochs
<1>2. Attempts'
  <2>1. CASE ConnectInitial
    BY <2>1, <1>1 DEF ConnectInitial, Own, Attempts, IInv, Epochs, Gens, Quiet
  <2>2. CASE Close
    BY <2>2 DEF Close, Attempts
  <2>3. CASE \/ Send \/ FlushBuffer \/ FinishAudio \/ FlushDone \/ FlushFails
             \/ SendFails \/ EvictOldest \/ BufferChunk \/ SkipConnect
    <3>1. /\ pc \in {"idle", "flush", "send", "buffer", "connect", "raised"}
          /\ pc' \in {"idle", "flush", "send", "buffer", "connect", "raised"}
          /\ client' = client /\ closed' = closed
      BY <2>3 DEF Send, FlushBuffer, FinishAudio, FlushDone, FlushFails, SendFails,
           EvictOldest, BufferChunk, SkipConnect, AfterFlush, AfterConnect,
           Goto, Return
    <3> QED BY <1>1, <3>1 DEF Own, Attempts, Failed, Quiet
  <2> QED BY <2>1, <2>2, <2>3 DEF Calls
<1> QED BY <1>1, <1>2, QuietOwn DEF Quiet

\* Steps of a connection attempt.  When the old client is joined, its receiver
\* has ended or waits for the lock; without an old client there is no segment.
LEMMA ConnectOwn ==
  ASSUME ConstantsAssumption, ~SlowCallback, IInv, Own,
         \/ BeginConnect \/ JoinOld \/ WaitEnds \/ Rejected \/ ConnectSucceeds
         \/ ConnectExpires \/ Expired \/ CloseJoins \/ BackoffElapses
  PROVE  Own'
<1> USE DEF epochVars, streamVars, recvVars, callerVars, stateVars, bufferVars
<1>1. Quiet
  BY DEF Quiet, BeginConnect, JoinOld, WaitEnds, Rejected, ConnectSucceeds,
         ConnectExpires, Expired, CloseJoins, BackoffElapses
<1>2. Attempts'
  <2>1. CASE BeginConnect \/ JoinOld \/ CloseJoins
    BY <2>1 DEF BeginConnect, JoinOld, CloseJoins, Goto, Attempts
  <2>2. CASE WaitEnds
    BY <2>2, <1>1 DEF WaitEnds, Goto, Attempts, Quiet
  <2>3. CASE Rejected
    BY <2>3, <1>1 DEF Rejected, Reject, AfterConnect, Goto, Return, Raise, Own,
                      Attempts, Failed, Quiet
  <2>4. CASE ConnectSucceeds
    BY <2>4 DEF ConnectSucceeds, AfterConnect, Goto, Return, Attempts
  <2>5. CASE ConnectExpires
    <3>1. generation \in Gens
      BY <2>5 DEF ConnectExpires, IInv, Epochs
    <3>2. closed'[generation] /\ ~ready[generation] /\ pc' = "expire"
      BY <2>5, <3>1 DEF ConnectExpires, Goto, IInv, TypeOK
    <3> QED BY <1>1, <3>2 DEF Attempts, Quiet
  <2>6. CASE Expired
    <3>1. closed[generation] /\ ~ready[generation] /\ closed' = closed
      BY <2>6 DEF Expired, Own, Attempts
    <3>2. pc' \in {"idle", "flush", "raised"}
      BY <2>6 DEF Expired, GiveUp, AfterConnect, Goto, Return, Raise
    <3> QED BY <1>1, <3>1, <3>2 DEF Attempts, Failed, Quiet
  <2>7. CASE BackoffElapses
    BY <2>7, <1>1 DEF BackoffElapses, Own, Attempts, Failed, Quiet
  <2> QED BY <2>1, <2>2, <2>3, <2>4, <2>5, <2>6, <2>7
<1>3. ASSUME pc' = "open", NEW g \in Gens PROVE recv[g] # "mapping"
  <2>1. CASE BeginConnect
    <3>1. pc = "connect" /\ ~client
      BY <1>3, <2>1 DEF BeginConnect, Goto
    <3> QED BY <3>1 DEF Own, Attempts, Failed, Segments, Mapping
  <2>2. CASE JoinOld
    <3>1. recv[generation] # "mapping"
      BY <2>2 DEF JoinOld, JoinReturns, WaitsForLock
    <3> QED BY <3>1 DEF Own, Mapping
  <2>3. CASE \/ WaitEnds \/ Rejected \/ ConnectSucceeds \/ ConnectExpires
             \/ Expired \/ CloseJoins
    BY <1>3, <2>3 DEF WaitEnds, Rejected, ConnectSucceeds, ConnectExpires,
         Expired, CloseJoins, Reject, GiveUp, AfterConnect, Goto, Return, Raise
  <2>4. CASE BackoffElapses
    BY <1>3, <2>4 DEF BackoffElapses, Own, Mapping
  <2> QED BY <2>1, <2>2, <2>3, <2>4
<1> QED BY <1>1, <1>2, <1>3, QuietOwn DEF Quiet

\* Steps of the network, the server and a receiver.
LEMMA ReceiverOwn ==
  ASSUME ConstantsAssumption, IInv, Own, NEW g \in Gens,
         LinkDrops(g) \/ Server(g) \/ Receiver(g)
  PROVE  Own'
<1> USE DEF epochVars, streamVars, recvVars, callerVars, stateVars, bufferVars
<1>1. /\ generation' = generation /\ timeline' = timeline /\ wire' = wire
      /\ pc' = pc /\ op' = op /\ client' = client /\ closed' = closed
  BY DEF LinkDrops, Server, Receiver, RecvReady, RecvOutdated, RecvDisconnect,
         RecvSegment, RecvEnds, StatusReady, StatusOutdated, StatusLost,
         CheckGeneration, ForwardTranscript
<1>2. /\ recv \in [Gens -> RecvStates] /\ pos \in [Gens -> Nat]
      /\ ready \in [Gens -> BOOLEAN] /\ fatalError \in [Gens -> BOOLEAN]
  BY DEF IInv, TypeOK
<1>3. /\ \A h \in Gens \ {g} : /\ recv'[h] = recv[h] /\ pos'[h] = pos[h]
                               /\ ready'[h] = ready[h]
                               /\ fatalError'[h] = fatalError[h]
      /\ recv'[g] # "none" => recv[g] # "none"
      /\ fatalError[g] => fatalError'[g]
      /\ ready'[g] => ready[g] \/ ~closed[g]
      /\ recv'[g] \in {"segment", "mapping"} =>
           ready'[g] /\ ~fatalError'[g] /\ pos'[g] \in 1..Len(wire[g])
      /\ recv'[g] = "mapping" =>
           recv[g] = "mapping" \/ (g = generation /\ LockFree)
  <2>1. CASE LinkDrops(g)
    BY <2>1, <1>2 DEF LinkDrops, Own, Segments
  <2>2. CASE RecvReady(g)
    BY <2>2, <1>2 DEF RecvReady, Receives
  <2>3. CASE RecvOutdated(g)
    BY <2>3, <1>2 DEF RecvOutdated, Receives
  <2>4. CASE RecvDisconnect(g)
    BY <2>4, <1>2 DEF RecvDisconnect, Receives
  <2>5. CASE RecvSegment(g)
    BY <2>5, <1>2 DEF RecvSegment, Receives
  <2>6. CASE RecvEnds(g)
    BY <2>6, <1>2 DEF RecvEnds
  <2>7. CASE StatusReady(g) \/ StatusOutdated(g) \/ StatusLost(g)
    BY <2>7, <1>2 DEF StatusReady, StatusOutdated, StatusLost
  <2>8. CASE CheckGeneration(g)
    <3>1. CASE g = generation
      BY <2>8, <3>1, <1>2 DEF CheckGeneration, Own, Segments
    <3>2. CASE g # generation
      BY <2>8, <3>2, <1>2 DEF CheckGeneration
    <3> QED BY <3>1, <3>2
  <2>9. CASE ForwardTranscript(g)
    BY <2>9, <1>2 DEF ForwardTranscript
  <2> QED BY <2>1, <2>2, <2>3, <2>4, <2>5, <2>6, <2>7, <2>8, <2>9
          DEF Server, Receiver
<1>4. OwnTimeline' /\ Segments'
  BY <1>1, <1>3 DEF Own, OwnTimeline, Segments
<1>5. Attempts'
  <2>1. \A h \in Gens : Failed(h) => Failed(h)'
    BY <1>1, <1>3 DEF Failed
  <2>2. pc \in {"expire", "reject"} => generation \in Gens
    BY DEF IInv, Epochs
  <2> QED BY <1>1, <1>3, <2>1, <2>2 DEF Own, Attempts
<1>6. Mapping'
  <2>1. pc = "open" /\ LockFree => generation \notin Gens
    BY DEF IInv, Control, Epochs, Connecting, LockFree, Gens
  <2> QED BY <1>1, <1>3, <2>1 DEF Own, Mapping
<1> QED BY <1>4, <1>5, <1>6 DEF Own

\* While callbacks end within the time a join waits, a segment is mapped with
\* the timeline of the epoch it comes from, although the generation is compared
\* under the lock and the callback runs after it was given back.
THEOREM SegmentsMapInOwnEpoch ==
  ASSUME ConstantsAssumption, ~SlowCallback PROVE Spec => []MapsInOwnEpoch
<1>1. Init => Own
  BY InitOwn
<1>2. IInv /\ Own /\ [Next]_vars => Own'
  <2> SUFFICES ASSUME IInv, Own, [Next]_vars PROVE Own'
    OBVIOUS
  <2>1. CASE UNCHANGED vars
    BY <2>1 DEF vars, callerVars, bufferVars, stateVars, epochVars, streamVars,
                recvVars, Own, OwnTimeline, Segments, Attempts, Failed, Mapping
  <2>2. CASE Next
    BY <2>2, WriteOwn, EpochOwn, CallerOwn, ConnectOwn, ReceiverOwn
       DEF Next, Running
  <2> QED BY <2>1, <2>2
<1>3. IInv /\ Own => MapsInOwnEpoch
  <2> SUFFICES ASSUME IInv, Own, NEW g \in Gens, recv[g] = "mapping"
               PROVE  MapToReal(pos[g]) = wire[g][pos[g]]
    BY DEF MapsInOwnEpoch
  <2>1. timeline = wire[g] /\ pos[g] \in 1..Len(wire[g])
    BY DEF Own, OwnTimeline, Segments, Mapping
  <2> QED BY <2>1 DEF MapToReal
<1> QED BY <1>1, <1>2, <1>3, Invariance, PTL DEF Spec

-----------------------------------------------------------------------------
(***************************************************************************)
(* What AudioDelivery promises, whatever Pending and generation stand for: *)
(* only its own definitions are used, over the chunks that wait and the    *)
(* current connection.  DInv is inductive: the order within and across     *)
(* connections needs to know that everything written or waiting was        *)
(* admitted, and that nothing is on a connection not yet opened.           *)
(***************************************************************************)

Admitted ==
  /\ \A i \in DOMAIN Pending : Pending[i] <= admitted
  /\ \A g \in Delivery!Gens : \A i \in DOMAIN wire[g] : wire[g][i] <= admitted
  /\ \A g \in Delivery!Gens : g > generation => wire[g] = <<>>
  /\ dropped \subseteq 1..admitted

DInv == /\ Delivery!TypeOK /\ Admitted
        /\ Delivery!InOrderOnce /\ Delivery!KeepsNewest

\* The bounds are natural numbers.
Bounds == MaxChunks \in Nat /\ MaxGen \in Nat

\* AudioDelivery starts in a state that satisfies the invariant.
LEMMA InitDInv == ASSUME Bounds PROVE Delivery!Init => DInv
  BY DEF Bounds, Delivery!Init, DInv, Delivery!TypeOK, Delivery!InOrderOnce,
         Admitted, Delivery!KeepsNewest, Delivery!Increasing,
         Delivery!AllBefore, Delivery!Chunks, Delivery!Gens

\* The head and the tail of a sequence.
LEMMA HeadThenTail ==
  ASSUME NEW S, NEW s \in Seq(S), s # <<>>
  PROVE  /\ Head(s) \in S /\ Head(s) = s[1] /\ 1 \in DOMAIN s
         /\ Tail(s) \in Seq(S)
         /\ Len(Tail(s)) = Len(s) - 1
         /\ DOMAIN Tail(s) = 1..(Len(s) - 1)
         /\ \A i \in DOMAIN Tail(s) : Tail(s)[i] = s[i+1] /\ i + 1 \in DOMAIN s
  OBVIOUS

\* An element appended at the end.
LEMMA AppendFacts ==
  ASSUME NEW S, NEW s \in Seq(S), NEW e \in S
  PROVE  /\ Append(s, e) \in Seq(S)
         /\ DOMAIN Append(s, e) = DOMAIN s \cup {Len(s) + 1}
         /\ \A i \in DOMAIN s : Append(s, e)[i] = s[i] /\ i < Len(s) + 1
         /\ Append(s, e)[Len(s) + 1] = e
         /\ DOMAIN s = 1..Len(s) /\ Len(s) \in Nat
  OBVIOUS

\* Appending an element newer than all keeps a sequence increasing.
LEMMA AppendIncreasing ==
  ASSUME NEW S, S \subseteq Nat, NEW s \in Seq(S), NEW e \in S,
         Delivery!Increasing(s), \A i \in DOMAIN s : s[i] < e
  PROVE  Delivery!Increasing(Append(s, e))
  BY AppendFacts DEF Delivery!Increasing

\* An element appended to the earlier of two sequences.
LEMMA AppendBefore ==
  ASSUME NEW S, NEW s \in Seq(S), NEW e \in S, NEW t,
         Delivery!AllBefore(s, t), \A j \in DOMAIN t : e < t[j]
  PROVE  Delivery!AllBefore(Append(s, e), t)
  BY AppendFacts DEF Delivery!AllBefore

\* An element appended to the later of two sequences.
LEMMA BeforeAppend ==
  ASSUME NEW S, NEW s, NEW t \in Seq(S), NEW e \in S,
         Delivery!AllBefore(s, t), \A i \in DOMAIN s : s[i] < e
  PROVE  Delivery!AllBefore(s, Append(t, e))
  BY AppendFacts DEF Delivery!AllBefore

\* Accepting a chunk preserves the invariant: it is newer than all others.
LEMMA AcceptDInv == ASSUME Bounds, DInv, Delivery!Accept PROVE DInv'
<1> USE DEF Bounds, DInv, Delivery!Accept
<1>1. /\ admitted + 1 \in Delivery!Chunks
      /\ admitted \in Nat /\ admitted' = admitted + 1
  BY DEF Delivery!TypeOK, Delivery!Chunks
<1>2. /\ Pending \in Seq(Delivery!Chunks)
      /\ wire \in [Delivery!Gens -> Seq(Delivery!Chunks)]
  BY DEF Delivery!TypeOK
<1>3. /\ Pending' \in Seq(Delivery!Chunks)
      /\ DOMAIN Pending' = DOMAIN Pending \cup {Len(Pending) + 1}
      /\ \A i \in DOMAIN Pending :
           Pending'[i] = Pending[i] /\ i < Len(Pending) + 1
      /\ Pending'[Len(Pending) + 1] = admitted + 1
      /\ DOMAIN Pending = 1..Len(Pending) /\ Len(Pending) \in Nat
  BY <1>1, <1>2, AppendFacts
<1>4. Delivery!TypeOK'
  BY <1>3 DEF Delivery!TypeOK
<1>5. \A i \in DOMAIN Pending : Pending[i] \in Nat /\ Pending[i] < admitted + 1
  BY <1>1, <1>2 DEF Admitted, Delivery!Chunks
<1>6. \A g \in Delivery!Gens : \A i \in DOMAIN wire[g] :
        wire[g][i] \in Nat /\ wire[g][i] < admitted + 1
  BY <1>1, <1>2 DEF Admitted, Delivery!Chunks
<1>7. Delivery!Increasing(Pending')
  <2>1. Delivery!Chunks \subseteq Nat
    BY DEF Delivery!Chunks
  <2>2. /\ Delivery!Increasing(Pending)
        /\ \A i \in DOMAIN Pending : Pending[i] < admitted + 1
    BY <1>5 DEF Delivery!InOrderOnce
  <2>3. Delivery!Increasing(Append(Pending, admitted + 1))
    BY <2>1, <2>2, <1>1, <1>2, AppendIncreasing
  <2> QED BY <2>3
<1>8. \A g \in Delivery!Gens : Delivery!AllBefore(wire[g], Pending')
  BY <1>1, <1>2, <1>6, BeforeAppend DEF Delivery!InOrderOnce
<1>9. Delivery!InOrderOnce'
  BY <1>7, <1>8 DEF Delivery!InOrderOnce
<1>10. Admitted'
  <2>1. dropped' \subseteq 1..admitted'
    BY <1>1 DEF Admitted
  <2>2. \A i \in DOMAIN Pending' : Pending'[i] <= admitted'
    BY <1>1, <1>3, <1>5
  <2> QED BY <2>1, <2>2, <1>1, <1>6 DEF Admitted
<1>11. Delivery!KeepsNewest'
  BY <1>1, <1>3 DEF Delivery!KeepsNewest, Admitted
<1> QED BY <1>4, <1>9, <1>10, <1>11

\* Writing the oldest waiting chunk to the current connection preserves it.
LEMMA DeliverDInv == ASSUME Bounds, DInv, Delivery!Deliver PROVE DInv'
<1> USE DEF Bounds, DInv, Delivery!Deliver
<1> DEFINE c == Head(Pending)
<1>1. /\ Pending \in Seq(Delivery!Chunks) /\ Pending # <<>>
      /\ wire \in [Delivery!Gens -> Seq(Delivery!Chunks)]
      /\ wire[generation] \in Seq(Delivery!Chunks)
      /\ generation \in Delivery!Gens
  BY DEF Delivery!TypeOK
<1>2. /\ c \in Delivery!Chunks /\ c = Pending[1] /\ 1 \in DOMAIN Pending
      /\ Pending' \in Seq(Delivery!Chunks)
      /\ \A i \in DOMAIN Pending' :
           Pending'[i] = Pending[i+1] /\ i + 1 \in DOMAIN Pending
      /\ DOMAIN Pending' \subseteq Nat \ {0}
  BY <1>1, HeadThenTail
<1>3. /\ wire'[generation] = Append(wire[generation], c)
      /\ \A g \in Delivery!Gens : g # generation => wire'[g] = wire[g]
      /\ wire' \in [Delivery!Gens -> Seq(Delivery!Chunks)]
  BY <1>1, <1>2
<1>4. /\ DOMAIN wire'[generation]
           = DOMAIN wire[generation] \cup {Len(wire[generation]) + 1}
      /\ \A i \in DOMAIN wire[generation] :
           /\ wire'[generation][i] = wire[generation][i]
                                       /\ i < Len(wire[generation]) + 1
      /\ wire'[generation][Len(wire[generation]) + 1] = c
      /\ DOMAIN wire[generation] = 1..Len(wire[generation])
      /\ Len(wire[generation]) \in Nat
  BY <1>1, <1>2, <1>3, AppendFacts
<1>5. Delivery!TypeOK'
  BY <1>2, <1>3 DEF Delivery!TypeOK
<1>6. \A i \in DOMAIN Pending' : c < Pending'[i]
  BY <1>1, <1>2 DEF Delivery!InOrderOnce, Delivery!Increasing
<1>7. \A g \in Delivery!Gens : \A i \in DOMAIN wire[g] : wire[g][i] < c
  BY <1>1, <1>2 DEF Delivery!InOrderOnce, Delivery!AllBefore
<1>8. Delivery!Increasing(Pending')
  BY <1>1, <1>2 DEF Delivery!InOrderOnce, Delivery!Increasing
<1>9. \A g \in Delivery!Gens : Delivery!Increasing(wire'[g])
  <2>1. Delivery!Increasing(wire'[generation])
    <3>1. Delivery!Chunks \subseteq Nat
      BY DEF Delivery!Chunks
    <3>2. Delivery!Increasing(wire[generation])
      BY <1>1 DEF Delivery!InOrderOnce
    <3>3. Delivery!Increasing(Append(wire[generation], c))
      BY <3>1, <3>2, <1>1, <1>2, <1>7, AppendIncreasing
    <3> QED BY <3>3, <1>3
  <2> QED BY <2>1, <1>3 DEF Delivery!InOrderOnce
<1>10. \A g \in Delivery!Gens : Delivery!AllBefore(wire'[g], Pending')
  <2>1. \A g \in Delivery!Gens : Delivery!AllBefore(wire[g], Pending')
    BY <1>1, <1>2 DEF Delivery!InOrderOnce, Delivery!AllBefore
  <2>2. Delivery!AllBefore(wire'[generation], Pending')
    BY <2>1, <1>1, <1>2, <1>3, <1>6, AppendBefore
  <2> QED BY <2>1, <2>2, <1>3
<1>11. \A g, h \in Delivery!Gens :
         g < h => Delivery!AllBefore(wire'[g], wire'[h])
  <2> SUFFICES ASSUME NEW g \in Delivery!Gens, NEW h \in Delivery!Gens, g < h
               PROVE  Delivery!AllBefore(wire'[g], wire'[h])
    OBVIOUS
  <2>1. CASE h = generation
    <3>1. wire'[g] = wire[g]
      BY <2>1, <1>3 DEF Delivery!Gens
    <3>2. Delivery!AllBefore(wire[g], wire[generation])
      BY <2>1 DEF Delivery!InOrderOnce
    <3>3. Delivery!AllBefore(wire[g], wire'[generation])
      BY <3>2, <1>1, <1>2, <1>3, <1>7, BeforeAppend
    <3> QED BY <3>1, <3>3, <2>1
  <2>2. CASE h # generation /\ g = generation
    <3>1. wire'[h] = <<>>
      BY <2>2, <1>3 DEF Admitted, Delivery!Gens
    <3> QED BY <3>1 DEF Delivery!AllBefore
  <2>3. CASE h # generation /\ g # generation
    BY <2>3, <1>3 DEF Delivery!InOrderOnce
  <2> QED BY <2>1, <2>2, <2>3
<1>12. Delivery!InOrderOnce'
  BY <1>8, <1>9, <1>10, <1>11 DEF Delivery!InOrderOnce
<1>13. Admitted'
  <2>1. \A i \in DOMAIN Pending' : Pending'[i] <= admitted
    BY <1>2 DEF Admitted
  <2>2. c <= admitted
    BY <1>2 DEF Admitted
  <2>3. \A i \in DOMAIN wire'[generation] : wire'[generation][i] <= admitted
    BY <2>2, <1>1, <1>4 DEF Admitted
  <2>4. \A g \in Delivery!Gens : g > generation => wire'[g] = <<>>
    BY <1>1, <1>3 DEF Admitted, Delivery!Gens
  <2> QED BY <2>1, <2>3, <2>4, <1>3 DEF Admitted
<1>14. Delivery!KeepsNewest'
  BY <1>2 DEF Delivery!KeepsNewest
<1> QED BY <1>5, <1>12, <1>13, <1>14

\* Giving up the oldest waiting chunk preserves it.
LEMMA DropDInv == ASSUME Bounds, DInv, Delivery!DropOldest PROVE DInv'
<1> USE DEF Bounds, DInv, Delivery!DropOldest
<1> DEFINE c == Head(Pending)
<1>1. Pending \in Seq(Delivery!Chunks) /\ Pending # <<>> /\ admitted \in Nat
  BY DEF Delivery!TypeOK
<1>2. /\ c \in Delivery!Chunks /\ c = Pending[1] /\ 1 \in DOMAIN Pending
      /\ Pending' \in Seq(Delivery!Chunks)
      /\ \A i \in DOMAIN Pending' :
           Pending'[i] = Pending[i+1] /\ i + 1 \in DOMAIN Pending
      /\ DOMAIN Pending' \subseteq Nat \ {0}
  BY <1>1, HeadThenTail
<1>3. Delivery!TypeOK'
  BY <1>2 DEF Delivery!TypeOK
<1>4. Delivery!InOrderOnce'
  <2>1. Delivery!Increasing(Pending')
    BY <1>1, <1>2 DEF Delivery!InOrderOnce, Delivery!Increasing
  <2>2. \A g \in Delivery!Gens : Delivery!AllBefore(wire[g], Pending')
    BY <1>1, <1>2 DEF Delivery!InOrderOnce, Delivery!AllBefore
  <2> QED BY <2>1, <2>2 DEF Delivery!InOrderOnce
<1>5. Admitted'
  <2>1. c \in 1..admitted
    BY <1>1, <1>2 DEF Admitted, Delivery!Chunks
  <2>2. \A i \in DOMAIN Pending' : Pending'[i] <= admitted
    BY <1>2 DEF Admitted
  <2> QED BY <2>1, <2>2 DEF Admitted
<1>6. Delivery!KeepsNewest'
  <2>1. \A i \in DOMAIN Pending' : c < Pending'[i]
    BY <1>1, <1>2 DEF Delivery!InOrderOnce, Delivery!Increasing
  <2> QED BY <2>1, <1>2 DEF Delivery!KeepsNewest
<1> QED BY <1>3, <1>4, <1>5, <1>6

\* Every step of AudioDelivery preserves the invariant.
LEMMA NextDInv ==
  ASSUME Bounds, DInv, [Delivery!Next]_Delivery!vars PROVE DInv'
<1>1. CASE Delivery!Accept
  BY <1>1, AcceptDInv
<1>2. CASE Delivery!Deliver
  BY <1>2, DeliverDInv
<1>3. CASE Delivery!DropOldest
  BY <1>3, DropDInv
<1>4. CASE Delivery!Reconnect
  BY <1>4 DEF Delivery!Reconnect, Bounds, DInv, Delivery!TypeOK, Admitted,
              Delivery!InOrderOnce, Delivery!KeepsNewest, Delivery!Gens
<1>5. CASE UNCHANGED Delivery!vars
  BY <1>5 DEF Delivery!vars, DInv, Delivery!TypeOK, Admitted,
              Delivery!InOrderOnce, Delivery!KeepsNewest
<1> QED BY <1>1, <1>2, <1>3, <1>4, <1>5 DEF Delivery!Next

\* For all numbers of chunks and connections, AudioDelivery writes the chunks
\* in capture order, none twice, and gives up only the oldest.
THEOREM DeliveryInOrder ==
  ASSUME Bounds
  PROVE  Delivery!Spec => [](Delivery!InOrderOnce /\ Delivery!KeepsNewest)
<1>1. Delivery!Init => DInv
  BY InitDInv
<1>2. DInv /\ [Delivery!Next]_Delivery!vars => DInv'
  BY NextDInv
<1>3. DInv => Delivery!InOrderOnce /\ Delivery!KeepsNewest
  BY DEF DInv
<1> QED BY <1>1, <1>2, <1>3, PTL DEF Delivery!Spec

-----------------------------------------------------------------------------
(* Accounting *)

\* The chunks written or waiting.
Kept == (UNION {Delivery!Elements(wire[g]) : g \in Delivery!Gens})
          \cup Delivery!Elements(Pending)

\* What a sequence holds after an append, and before its head is taken.
LEMMA ElementsFacts ==
  ASSUME NEW S, NEW s \in Seq(S)
  PROVE  /\ \A e \in S :
              Delivery!Elements(Append(s, e)) = Delivery!Elements(s) \cup {e}
         /\ s # <<>> => Delivery!Elements(s)
                          = {Head(s)} \cup Delivery!Elements(Tail(s))
<1>1. ASSUME NEW e \in S
      PROVE  Delivery!Elements(Append(s, e)) = Delivery!Elements(s) \cup {e}
  <2>1. /\ DOMAIN Append(s, e) = DOMAIN s \cup {Len(s) + 1}
        /\ \A i \in DOMAIN s : Append(s, e)[i] = s[i]
        /\ Append(s, e)[Len(s) + 1] = e
    BY AppendFacts
  <2> QED BY <2>1 DEF Delivery!Elements
<1>2. ASSUME s # <<>>
      PROVE  Delivery!Elements(s) = {Head(s)} \cup Delivery!Elements(Tail(s))
  <2>1. /\ Head(s) = s[1] /\ 1 \in DOMAIN s
        /\ DOMAIN Tail(s) = 1..(Len(s) - 1)
        /\ \A i \in DOMAIN Tail(s) : Tail(s)[i] = s[i+1] /\ i + 1 \in DOMAIN s
    BY <1>2, HeadThenTail
  <2>2. \A i \in DOMAIN s : i = 1 \/ (i - 1 \in DOMAIN Tail(s) /\ (i - 1) + 1 = i)
    BY <2>1
  <2>3. \A i \in DOMAIN s : i = 1 \/ s[i] = Tail(s)[i - 1]
    BY <2>1, <2>2
  <2>4. Delivery!Elements(s) \subseteq {Head(s)} \cup Delivery!Elements(Tail(s))
    BY <2>1, <2>2, <2>3 DEF Delivery!Elements
  <2>5. {Head(s)} \cup Delivery!Elements(Tail(s)) \subseteq Delivery!Elements(s)
    BY <2>1 DEF Delivery!Elements
  <2> QED BY <2>4, <2>5
<1> QED BY <1>1, <1>2

\* No step loses a chunk or gives up one that is kept.
LEMMA AccountedNext ==
  ASSUME Bounds, DInv, Delivery!EveryChunkAccounted,
         [Delivery!Next]_Delivery!vars
  PROVE  Delivery!EveryChunkAccounted'
<1>0. /\ Pending \in Seq(Delivery!Chunks)
      /\ wire \in [Delivery!Gens -> Seq(Delivery!Chunks)]
      /\ admitted \in Nat /\ dropped \subseteq 1..admitted
      /\ Kept \cup dropped = 1..admitted /\ Kept \cap dropped = {}
  BY DEF DInv, Delivery!TypeOK, Admitted, Delivery!EveryChunkAccounted, Kept
<1>6. /\ \A x : x \in Kept <=>
             \/ \E g \in Delivery!Gens : x \in Delivery!Elements(wire[g])
             \/ x \in Delivery!Elements(Pending)
      /\ \A x : x \in Kept' <=>
             \/ \E g \in Delivery!Gens : x \in Delivery!Elements(wire'[g])
             \/ x \in Delivery!Elements(Pending')
  BY DEF Kept
<1>1. CASE Delivery!Accept
  <2>1. admitted + 1 \in Delivery!Chunks
    BY <1>1, <1>0 DEF Delivery!Accept, Delivery!Chunks, Bounds
  <2>2. Delivery!Elements(Pending')
          = Delivery!Elements(Pending) \cup {admitted + 1}
    BY <1>1, <1>0, <2>1, ElementsFacts DEF Delivery!Accept
  <2>3. Kept' = Kept \cup {admitted + 1}
    <3>1. wire' = wire
      BY <1>1 DEF Delivery!Accept
    <3>2. \A x : x \in Kept' <=> x \in Kept \/ x = admitted + 1
      BY <1>6, <2>2, <3>1
    <3> QED BY <3>2
  <2>4. /\ 1..admitted' = 1..admitted \cup {admitted + 1}
        /\ admitted + 1 \notin 1..admitted
    BY <1>0, <1>1 DEF Delivery!Accept
  <2>5. Kept' \cup dropped' = 1..admitted' /\ Kept' \cap dropped' = {}
    BY <1>1, <1>0, <2>3, <2>4 DEF Delivery!Accept
  <2> QED BY <2>5 DEF Delivery!EveryChunkAccounted, Kept
<1>2. CASE Delivery!Deliver
  <2>1. /\ generation \in Delivery!Gens
        /\ Pending # <<>> /\ Head(Pending) \in Delivery!Chunks
    BY <1>0, <1>2, HeadThenTail DEF Delivery!Deliver
  <2>2. Delivery!Elements(Pending)
          = {Head(Pending)} \cup Delivery!Elements(Pending')
    BY <1>0, <1>2, <2>1, ElementsFacts DEF Delivery!Deliver
  <2>3. Delivery!Elements(wire'[generation])
          = Delivery!Elements(wire[generation]) \cup {Head(Pending)}
    BY <1>0, <1>2, <2>1, ElementsFacts DEF Delivery!Deliver
  <2>4. \A g \in Delivery!Gens : g # generation => wire'[g] = wire[g]
    BY <1>0, <1>2 DEF Delivery!Deliver
  <2>5. \A x : (\E g \in Delivery!Gens : x \in Delivery!Elements(wire'[g]))
              <=> \/ \E g \in Delivery!Gens : x \in Delivery!Elements(wire[g])
                  \/ x = Head(Pending)
    BY <2>1, <2>3, <2>4
  <2>6. Kept' = Kept
    <3>1. \A x : x \in Kept' <=> x \in Kept
      BY <1>6, <2>2, <2>5
    <3> QED BY <3>1
  <2> QED BY <1>0, <1>2, <2>6 DEF Delivery!EveryChunkAccounted, Kept, Delivery!Deliver
<1>3. CASE Delivery!DropOldest
  <2> DEFINE c == Head(Pending)
  <2>0. Pending' = Tail(Pending) /\ Pending # <<>>
    BY <1>3 DEF Delivery!DropOldest
  <2>1. /\ c = Pending[1] /\ 1 \in DOMAIN Pending /\ c \in Delivery!Chunks
        /\ \A i \in DOMAIN Pending' :
             Pending'[i] = Pending[i+1] /\ i + 1 \in DOMAIN Pending
        /\ DOMAIN Pending' \subseteq Nat \ {0}
    BY <1>0, <2>0, HeadThenTail
  <2>2. Delivery!Elements(Pending) = {c} \cup Delivery!Elements(Pending')
    BY <1>0, <1>3, ElementsFacts DEF Delivery!DropOldest
  <2>3. c \notin Delivery!Elements(Pending')
    <3>1. \A i \in DOMAIN Pending' : c < Pending'[i]
      BY <2>1, <1>0 DEF DInv, Delivery!InOrderOnce, Delivery!Increasing
    <3> QED BY <3>1, <2>1 DEF Delivery!Elements, Delivery!Chunks
  <2>4. \A g \in Delivery!Gens : c \notin Delivery!Elements(wire[g])
    <3>1. \A g \in Delivery!Gens : \A i \in DOMAIN wire[g] : wire[g][i] < c
      BY <2>1 DEF DInv, Delivery!InOrderOnce, Delivery!AllBefore
    <3> QED BY <3>1, <2>1 DEF Delivery!Elements, Delivery!Chunks
  <2>5. Kept = Kept' \cup {c} /\ c \notin Kept'
    <3>1. wire' = wire
      BY <1>3 DEF Delivery!DropOldest
    <3>2. \A x : x \in Kept <=> x \in Kept' \/ x = c
      BY <1>6, <2>2, <3>1
    <3>3. c \notin Kept'
      BY <1>6, <2>3, <2>4, <3>1
    <3> QED BY <3>2, <3>3
  <2>6. dropped' = dropped \cup {c} /\ admitted' = admitted
    BY <1>3 DEF Delivery!DropOldest
  <2>7. Kept' \cup dropped' = 1..admitted' /\ Kept' \cap dropped' = {}
    BY <1>0, <2>5, <2>6
  <2> QED BY <2>7 DEF Delivery!EveryChunkAccounted, Kept
<1>4. CASE Delivery!Reconnect
  BY <1>4 DEF Delivery!Reconnect, Delivery!EveryChunkAccounted
<1>5. CASE UNCHANGED Delivery!vars
  BY <1>5 DEF Delivery!vars, Delivery!EveryChunkAccounted
<1> QED BY <1>1, <1>2, <1>3, <1>4, <1>5 DEF Delivery!Next

\* For all numbers of chunks and connections, every accepted chunk is written,
\* waits, or was given up, and only one of these.
THEOREM DeliveryAccounts ==
  ASSUME Bounds PROVE Delivery!Spec => []Delivery!EveryChunkAccounted
<1>1. Delivery!Init => DInv /\ Delivery!EveryChunkAccounted
  <2>1. Delivery!Init => Delivery!EveryChunkAccounted
    BY DEF Delivery!Init, Delivery!EveryChunkAccounted, Delivery!Elements
  <2> QED BY <2>1, InitDInv
<1>2. DInv /\ Delivery!EveryChunkAccounted /\ [Delivery!Next]_Delivery!vars
        => DInv' /\ Delivery!EveryChunkAccounted'
  BY NextDInv, AccountedNext
<1> QED BY <1>1, <1>2, PTL DEF Delivery!Spec

-----------------------------------------------------------------------------
(***************************************************************************)
(* ReconnectClient implements AudioDelivery, for every value of the        *)
(* constants: the chunks that wait are the ring buffer followed by the     *)
(* chunk send has in hand, and the connection is the generation.  What     *)
(* AudioDelivery promises is then a property of the client.                *)
(***************************************************************************)

\* The variables AudioDelivery sees.
delivery == <<admitted, Pending, generation, wire, dropped>>

\* The head and the tail of a sequence followed by one more element.
LEMMA HeadTailAppend ==
  ASSUME NEW S, NEW s \in Seq(S), NEW c \in S
  PROVE  /\ Append(s, c) # <<>>
         /\ s # <<>> => /\ Head(Append(s, c)) = Head(s)
                        /\ Tail(Append(s, c)) = Append(Tail(s), c)
         /\ s = <<>> => /\ Head(Append(s, c)) = c
                        /\ Tail(Append(s, c)) = <<>>
  OBVIOUS

\* Taking the oldest chunk from the buffer takes it from all that waits.
LEMMA PendingHead ==
  ASSUME IInv, MaxChunks \in Nat, buffer # <<>>,
         buffer' = Tail(buffer), cur' = cur
  PROVE  /\ Pending # <<>>
         /\ Head(Pending) = Head(buffer)
         /\ Pending' = Tail(Pending)
<1>1. buffer \in Seq(Chunks) /\ (cur # 0 => cur \in Chunks)
  BY DEF IInv, TypeOK, Chunks
<1>2. CASE cur = 0
  BY <1>2, <1>1 DEF Pending
<1>3. CASE cur # 0
  BY <1>3, <1>1, HeadTailAppend DEF Pending
<1> QED BY <1>2, <1>3

\* Initial states are initial states of AudioDelivery.
LEMMA InitDelivery == Init => Delivery!Init
  BY DEF Init, Delivery!Init, Pending, Gens, Delivery!Gens

\* A write of a waiting chunk, from flush or from send, is a Deliver.
LEMMA WritesDeliver ==
  ASSUME ConstantsAssumption, IInv, FlushChunk \/ SendChunk
  PROVE  Delivery!Deliver
<1>1. generation \in Gens
  BY DEF IInv, TypeOK, Gens, FlushChunk, SendChunk, IsConnected
<1>2. CASE FlushChunk
  <2>1. Pending # <<>> /\ Head(Pending) = Head(buffer) /\ Pending' = Tail(Pending)
    BY <1>2, PendingHead DEF FlushChunk, callerVars, ConstantsAssumption
  <2> QED BY <1>1, <1>2, <2>1 DEF FlushChunk, Transmit, Delivery!Deliver,
             callerVars, Delivery!Gens, Gens
<1>3. CASE SendChunk
  <2>1. buffer = <<>> /\ cur # 0 /\ cur \in Chunks
    BY <1>3 DEF SendChunk, IInv, Control, TypeOK, Chunks, ConstantsAssumption
  <2>2. Pending = Append(buffer, cur)
    BY <2>1 DEF Pending
  <2>3. Pending # <<>> /\ Head(Pending) = cur /\ Tail(Pending) = <<>>
    BY <2>1, <2>2, HeadTailAppend
  <2>4. Pending' = <<>>
    BY <1>3, <2>1 DEF SendChunk, Pending, bufferVars
  <2> QED BY <1>1, <1>3, <2>3, <2>4 DEF SendChunk, Transmit,
             Delivery!Deliver, bufferVars, Delivery!Gens, Gens
<1> QED BY <1>2, <1>3

\* Buffering a chunk changes nothing AudioDelivery sees, or drops that chunk,
\* and then it is the only one that waits.
LEMMA BufferDrops ==
  ASSUME ConstantsAssumption, IInv, BufferChunk
  PROVE  Delivery!DropOldest \/ UNCHANGED delivery
<1>1. cur # 0 /\ cur \in Chunks /\ cur' = 0 /\ buffer \in Seq(Chunks)
  BY DEF BufferChunk, IInv, Control, TypeOK, Chunks, ConstantsAssumption
<1>2. Pending = Append(buffer, cur) /\ Pending' = buffer'
  BY <1>1 DEF Pending
<1>3. CASE BufferSeconds = 0 \/ Duration[cur] > BufferSeconds
  <2>1. buffer = <<>>
    BY <1>1, <1>3 DEF BufferChunk, Overflowing, IInv, Control, TypeOK,
                      ConstantsAssumption
  <2>2. Pending # <<>> /\ Head(Pending) = cur /\ Tail(Pending) = <<>>
    BY <1>1, <1>2, <2>1, HeadTailAppend
  <2>3. dropped' = dropped \cup {cur} /\ buffer' = buffer
    BY <1>3 DEF BufferChunk
  <2> QED BY <1>2, <2>1, <2>2, <2>3
          DEF BufferChunk, Delivery!DropOldest, epochVars, streamVars
<1>4. CASE ~(BufferSeconds = 0 \/ Duration[cur] > BufferSeconds)
  <2>1. buffer' = Append(buffer, cur) /\ UNCHANGED dropped
    BY <1>4 DEF BufferChunk
  <2> QED BY <1>2, <2>1 DEF BufferChunk, delivery, epochVars, streamVars
<1> QED BY <1>3, <1>4

\* Every step of the client is a step of AudioDelivery or one it does not see.
LEMMA StepDelivery ==
  ASSUME ConstantsAssumption, IInv, [Next]_vars
  PROVE  [Delivery!Next]_delivery
<1> USE DEF vars, callerVars, bufferVars, stateVars, epochVars, streamVars,
            recvVars
<1>1. CASE Send
  <2>1. cur = 0 /\ cur' # 0
    BY <1>1 DEF Send, IInv, Control, TypeOK
  <2>2. Pending = buffer /\ Pending' = Append(buffer, admitted + 1)
    BY <1>1, <2>1 DEF Send, Pending
  <2> QED BY <1>1, <2>2 DEF Send, Delivery!Next, Delivery!Accept
<1>2. CASE FlushChunk \/ SendChunk
  BY <1>2, WritesDeliver DEF Delivery!Next
<1>3. CASE EvictOldest
  <2>1. Pending # <<>> /\ Head(Pending) = Head(buffer) /\ Pending' = Tail(Pending)
    BY <1>3, PendingHead DEF EvictOldest, ConstantsAssumption
  <2> QED BY <1>3, <2>1 DEF EvictOldest, Delivery!Next, Delivery!DropOldest
<1>4. CASE BufferChunk
  BY <1>4, BufferDrops DEF Delivery!Next
<1>5. CASE OpenSocket \/ OpenFails
  <2>1. UNCHANGED Pending /\ generation < MaxGen
    BY <1>5 DEF OpenSocket, OpenFails, Pending, IInv, Epochs
  <2> QED BY <1>5, <2>1 DEF OpenSocket, OpenFails, NewEpoch, Delivery!Next,
                            Delivery!Reconnect
<1>6. CASE FlushFails
  <2>1. buffer' = buffer
    BY <1>6, HeadTail DEF FlushFails, IInv, TypeOK
  <2> QED BY <1>6, <2>1 DEF FlushFails, delivery, Pending
<1>7. CASE \/ ConnectInitial \/ FlushBuffer \/ FinishAudio \/ Close \/ FlushDone
           \/ SendFails \/ SkipConnect \/ BeginConnect \/ JoinOld \/ WaitEnds
           \/ Rejected \/ ConnectSucceeds \/ ConnectExpires \/ Expired
           \/ CloseJoins \/ BackoffElapses
  BY <1>7 DEF delivery, Pending, ConnectInitial, FlushBuffer, FinishAudio,
       Close, FlushDone, SendFails, SkipConnect, BeginConnect, JoinOld,
       WaitEnds, Rejected, ConnectSucceeds, ConnectExpires, Expired,
       CloseJoins, BackoffElapses
<1>8. ASSUME NEW g \in Gens, LinkDrops(g) \/ Server(g) \/ Receiver(g)
      PROVE  UNCHANGED delivery
  BY <1>8 DEF delivery, Pending, LinkDrops, Server, Receiver, RecvReady,
       RecvOutdated, RecvDisconnect, RecvSegment, RecvEnds, StatusReady,
       StatusOutdated, StatusLost, CheckGeneration, ForwardTranscript
<1>9. CASE UNCHANGED vars
  BY <1>9 DEF delivery, Pending
<1> QED BY <1>1, <1>2, <1>3, <1>4, <1>5, <1>6, <1>7, <1>8, <1>9
        DEF Next, Calls, Running

\* The client implements AudioDelivery.
THEOREM ClientImplementsDelivery ==
  ASSUME ConstantsAssumption PROVE Spec => ImplementsDelivery
<1>1. Init => Delivery!Init
  BY InitDelivery
<1>2. IInv /\ [Next]_vars => [Delivery!Next]_Delivery!vars
  BY StepDelivery DEF delivery, Delivery!vars
<1> QED BY <1>1, <1>2, Invariance, PTL
        DEF Spec, ImplementsDelivery, Delivery!Spec

\* What AudioDelivery promises holds of the client.
LEMMA DeliveryHolds ==
  ASSUME ConstantsAssumption
  PROVE  Spec => [](FifoAcrossEpochs /\ KeepsNewest /\ EveryChunkAccounted)
<1>1. Bounds
  BY DEF Bounds, ConstantsAssumption
<1>2. Delivery!Spec => [](Delivery!InOrderOnce /\ Delivery!KeepsNewest)
  BY <1>1, DeliveryInOrder
<1>3. Delivery!Spec => []Delivery!EveryChunkAccounted
  BY <1>1, DeliveryAccounts
<1> QED BY <1>2, <1>3, ClientImplementsDelivery, PTL
        DEF ImplementsDelivery, FifoAcrossEpochs, KeepsNewest,
            EveryChunkAccounted

\* Over all epochs the server gets the chunks in capture order, none twice.
THEOREM AudioInOrder ==
  ASSUME ConstantsAssumption PROVE Spec => []FifoAcrossEpochs
  BY DeliveryHolds, PTL

\* No chunk handed to send is lost without being counted as dropped.
THEOREM NoSilentLoss ==
  ASSUME ConstantsAssumption PROVE Spec => []EveryChunkAccounted
  BY DeliveryHolds, PTL

\* A full buffer gives up the oldest audio first.
THEOREM NewestSurvives ==
  ASSUME ConstantsAssumption PROVE Spec => []KeepsNewest
  BY DeliveryHolds, PTL
==============================================================================

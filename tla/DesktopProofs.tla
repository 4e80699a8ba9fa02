---------------------------- MODULE DesktopProofs ----------------------------
(***************************************************************************)
(* However many clicks, runners and processes there are: the variables     *)
(* keep their types, two sessions never run at once, no session runs       *)
(* behind a button that does not say so, what is written is kept and mute   *)
(* is what the window says it is.                                          *)
(***************************************************************************)
EXTENDS Desktop, TLAPS

RunnerRecord ==
  [kind : {"start", "stop", "mute"},
   pc : {"await", "poll", "spawn", "check", "mute", "set", "ask", "write",
         "wait", "archive"},
   proc : Process \cup {None}, say : {"", "on", "off"}]

(* The engine knows every process that lives. *)
Known == \A p \in Process : Alive(p) => p = proc

(* The threads of the window and of the engine, the processes. *)
Threads ==
  /\ reverts \in Nat /\ runners \in Seq(RunnerRecord)
  /\ button \in BOOLEAN /\ muted \in BOOLEAN /\ notified \subseteq Kinds

Engine ==
  /\ proc \in Process \cup {None} /\ stopReq \in BOOLEAN
  /\ conn \in {"CONNECTING", "CONNECTED", "ERROR", "DISCONNECTED"}
  /\ notice \in [Kinds -> Process \cup {None}]
  /\ monitor \in [Process -> {"none", "reading", "done"}]

Processes ==
  /\ life \in [Process -> {"unborn", "boot", "run", "drain", "exited"}]
  /\ wrote \in [Process -> Nat] /\ said \in [Process -> Nat]
  /\ \A p \in Process : wrote[p] <= MaxEntries[p] /\ said[p] <= MaxLines[p]

IInv == Threads /\ Engine /\ Processes /\ Known

LEMMA InvariantImpliesType == IInv => TypeOK
<1> SUFFICES ASSUME IInv PROVE TypeOK
  OBVIOUS
<1>1. \A p \in Process : wrote[p] \in 0..MaxEntries[p] /\ said[p] \in 0..MaxLines[p]
  BY ConstantsAssumption DEF IInv, Processes
<1>2. runners \in Seq(RunnerRecord)
  BY DEF IInv, Threads
<1> QED BY <1>1, <1>2, Zenon
        DEF IInv, Threads, Engine, Processes, TypeOK, RunnerRecord

(* No process is the one that is none. *)
LEMMA NoneIsNoProcess == None \notin Process
  BY DEF None, Process

LEMMA InitEstablishes == Init => IInv
<1> SUFFICES ASSUME Init PROVE IInv
  OBVIOUS
<1>1. Threads
  <2>1. runners \in Seq(RunnerRecord) /\ reverts \in Nat
    BY DEF Init
  <2> QED BY <2>1, Zenon DEF Init, Threads
<1>2. Engine
  BY DEF Init, Engine
<1>3. Processes
  BY ConstantsAssumption DEF Init, Processes
<1>4. Known
  BY DEF Init, Known, Alive
<1> QED BY <1>1, <1>2, <1>3, <1>4 DEF IInv

-----------------------------------------------------------------------------
(* Operations on the runners *)

LEMMA RunnerAdded ==
  ASSUME Threads, NEW r \in RunnerRecord, runners' = Append(runners, r)
  PROVE  runners' \in Seq(RunnerRecord)
  BY DEF Threads

LEMMA StartIsRunner == Runner("start", "await", "") \in RunnerRecord
  BY DEF Runner, RunnerRecord
LEMMA StopIsRunner == Runner("stop", "ask", "") \in RunnerRecord
  BY DEF Runner, RunnerRecord
LEMMA MuteIsRunner ==
  ASSUME NEW say \in {"on", "off"}
  PROVE  Runner("mute", "set", say) \in RunnerRecord
  BY DEF Runner, RunnerRecord

LEMMA RunnerMoves ==
  ASSUME Threads, NEW i \in DOMAIN runners,
         NEW pc \in {"await", "poll", "spawn", "check", "mute", "set", "ask",
                     "write", "wait", "archive"},
         NEW p \in Process \cup {None},
         Goto(i, pc) \/ GotoWith(i, pc, p)
  PROVE  runners' \in Seq(RunnerRecord)
<1> DEFINE r == runners[i]
           new == [kind |-> r.kind, pc |-> pc, proc |-> runners'[i].proc,
                   say |-> r.say]
<1>1. r \in RunnerRecord
  BY DEF Threads
<1>2. CASE Goto(i, pc)
  <2>1. [r EXCEPT !.pc = pc] \in RunnerRecord
    BY <1>1 DEF RunnerRecord
  <2>2. runners' = [runners EXCEPT ![i] = [r EXCEPT !.pc = pc]]
    BY <1>2 DEF Goto
  <2> QED BY <2>1, <2>2 DEF Threads
<1>3. CASE GotoWith(i, pc, p)
  <2> DEFINE moved == [[r EXCEPT !.pc = pc] EXCEPT !.proc = p]
  <2>1. moved \in RunnerRecord
    BY <1>1 DEF RunnerRecord
  <2>2. runners' = [runners EXCEPT ![i] = moved]
    BY <1>3 DEF GotoWith, Threads
  <2> QED BY <2>1, <2>2 DEF Threads
<1> QED BY <1>2, <1>3

LEMMA RunnerReturns ==
  ASSUME Threads, NEW i \in DOMAIN runners, Return(i)
  PROVE  runners' \in Seq(RunnerRecord)
<1>1. runners \in Seq(RunnerRecord) /\ i \in 1..Len(runners)
  BY DEF Threads
<1>2. SubSeq(runners, 1, i - 1) \in Seq(RunnerRecord)
  BY <1>1
<1>3. SubSeq(runners, i + 1, Len(runners)) \in Seq(RunnerRecord)
  BY <1>1
<1> QED BY <1>2, <1>3 DEF Return, RemoveAt

-----------------------------------------------------------------------------
(* What a step leaves alone keeps its part of the invariant. *)
LEMMA EngineKept ==
  ASSUME Engine, UNCHANGED <<stateVars, monitor>>
  PROVE  Engine'
  BY DEF Engine, stateVars

LEMMA ProcessesKept ==
  ASSUME Processes, UNCHANGED procVars
  PROVE  Processes'
  BY DEF Processes, procVars

LEMMA KnownKept ==
  ASSUME Known, proc' = proc,
         \A p \in Process : Alive(p)' => Alive(p)
  PROVE  Known'
  BY DEF Known

LEMMA LifeKept ==
  ASSUME Known, UNCHANGED <<proc, life>>
  PROVE  Known'
  BY DEF Known, Alive

-----------------------------------------------------------------------------
(* The window *)

LEMMA WindowKeeps ==
  ASSUME IInv,
         ToggleRecord \/ ToggleMute \/ OnError
           \/ \E k \in Kinds : CheckNotice(k)
  PROVE  IInv'
<1> USE DEF IInv
<1>1. UNCHANGED <<stateVars, monitor, procVars>>
  BY DEF ToggleRecord, ToggleMute, OnError, CheckNotice
<1>2. Engine' /\ Processes' /\ Known'
  BY <1>1, EngineKept, ProcessesKept, LifeKept DEF stateVars, procVars
<1>3. Threads'
  <2>1. CASE ToggleRecord
    <3>1. runners' \in Seq(RunnerRecord)
      BY <2>1, RunnerAdded, StartIsRunner, StopIsRunner
         DEF ToggleRecord, StartLive, StopLive
    <3>2. button' \in BOOLEAN /\ notified' \subseteq Kinds
      BY <2>1, Zenon DEF ToggleRecord, StartLive, Threads
    <3> QED BY <2>1, <3>1, <3>2, Zenon DEF ToggleRecord, Threads
  <2>2. CASE ToggleMute
    <3>1. runners' \in Seq(RunnerRecord)
      <4>1. CASE button
        <5> DEFINE say == IF muted THEN "off" ELSE "on"
        <5>1. runners' = Append(runners, Runner("mute", "set", say))
          BY <2>2, <4>1, Zenon DEF ToggleMute
        <5> QED BY <5>1, RunnerAdded, MuteIsRunner
      <4>2. CASE ~button
        BY <2>2, <4>2 DEF ToggleMute, Threads
      <4> QED BY <4>1, <4>2
    <3> QED BY <2>2, <3>1, Zenon DEF ToggleMute, Threads
  <2>3. CASE OnError
    <3>1. reverts' \in Nat
      BY <2>3 DEF OnError, Threads
    <3> QED BY <2>3, <3>1, Zenon DEF OnError, Threads
  <2>4. ASSUME NEW k \in Kinds, CheckNotice(k) PROVE Threads'
    <3>1. runners' \in Seq(RunnerRecord)
      BY <2>4, RunnerAdded, StopIsRunner DEF CheckNotice, StopLive, Threads
    <3>2. button' \in BOOLEAN /\ notified' \subseteq Kinds
      BY <2>4, Zenon DEF CheckNotice, Threads
    <3> QED BY <2>4, <3>1, <3>2, Zenon DEF CheckNotice, Threads
  <2> QED BY <2>1, <2>2, <2>3, <2>4
<1> QED BY <1>2, <1>3

-----------------------------------------------------------------------------
(* The runners *)

(* A runner that only moves on or returns. *)
LEMMA RunnerOnly ==
  ASSUME IInv, NEW i \in DOMAIN runners,
         AwaitStop(i) \/ PollExit(i) \/ StartFails(i) \/ CheckMuted(i)
           \/ WaitExit(i) \/ Archive(i)
  PROVE  IInv'
<1> USE DEF IInv
<1>1. UNCHANGED <<stateVars, monitor, procVars, button, muted, notified>>
  BY DEF AwaitStop, PollExit, StartFails, CheckMuted, WaitExit, Archive, winVars
<1>2. Engine' /\ Processes' /\ Known'
  BY <1>1, EngineKept, ProcessesKept, LifeKept DEF stateVars, procVars
<1>3. runners' \in Seq(RunnerRecord)
  <2>1. CASE Return(i)
    BY <2>1, RunnerReturns
  <2>2. CASE ~Return(i)
    <3>1. \E pc \in {"spawn", "mute", "archive"} : Goto(i, pc)
          \/ GotoWith(i, "poll", proc)
      BY <2>2 DEF AwaitStop, PollExit, StartFails, CheckMuted, WaitExit, Archive
    <3> QED BY <3>1, RunnerMoves DEF Engine
  <2> QED BY <2>1, <2>2
<1>4. reverts' \in Nat
  BY DEF AwaitStop, PollExit, StartFails, CheckMuted, WaitExit, Archive, winVars,
         Threads
<1> QED BY <1>1, <1>2, <1>3, <1>4, Zenon DEF Threads

LEMMA SpawnKeeps ==
  ASSUME IInv, NEW i \in DOMAIN runners, Spawn(i)
  PROVE  IInv'
<1> USE DEF IInv
<1> DEFINE n == NextProcess
<1>1. /\ n \in Process /\ ~Alive(proc) /\ proc' = n
      /\ life' = [life EXCEPT ![n] = "boot"]
      /\ monitor' = [monitor EXCEPT ![n] = "reading"]
      /\ stopReq' = FALSE /\ conn' = "CONNECTING"
      /\ notice' = [k \in Kinds |-> None]
      /\ Goto(i, "check")
      /\ UNCHANGED <<winVars, wrote, said>>
  BY DEF Spawn, Refused
<1> HIDE DEF n
<1>2. Threads'
  <2>1. runners' \in Seq(RunnerRecord)
    BY <1>1, RunnerMoves
  <2> QED BY <1>1, <2>1, Zenon DEF Threads, winVars
<1>3. Engine'
  BY <1>1 DEF Engine
<1>4. Processes'
  BY <1>1 DEF Processes
<1>5. Known'
  <2>1. ASSUME NEW p \in Process, p # n PROVE ~Alive(p)'
    <3>1. ~Alive(p)
      BY <1>1 DEF Known
    <3>2. life'[p] = life[p]
      BY <1>1, <2>1 DEF Processes
    <3> QED BY <3>1, <3>2 DEF Alive
  <2> QED BY <1>1, <2>1 DEF Known
<1> QED BY <1>2, <1>3, <1>4, <1>5

LEMMA MuteKeeps ==
  ASSUME IInv, NEW i \in DOMAIN runners, ApplyMute(i)
  PROVE  IInv'
<1> USE DEF IInv
<1>1. /\ Return(i)
      /\ UNCHANGED <<winVars, stateVars, monitor, life, wrote, said>>
  BY DEF ApplyMute
<1>2. Engine' /\ Known'
  BY <1>1, EngineKept, LifeKept DEF stateVars
<1>3. Processes'
  BY <1>1 DEF Processes
<1>4. runners' \in Seq(RunnerRecord)
  BY <1>1, RunnerReturns
<1> QED BY <1>1, <1>2, <1>3, <1>4, Zenon DEF Threads, winVars

LEMMA AskKeeps ==
  ASSUME IInv, NEW i \in DOMAIN runners, AskStop(i)
  PROVE  IInv'
<1> USE DEF IInv
<1>1. /\ UNCHANGED <<winVars, proc, notice, monitor, procVars>>
      /\ conn' = "DISCONNECTED" /\ stopReq' \in {TRUE, stopReq}
      /\ GotoWith(i, "write", proc) \/ Goto(i, "archive")
  BY DEF AskStop
<1>2. runners' \in Seq(RunnerRecord)
  BY <1>1, RunnerMoves DEF Engine
<1>3. Threads'
  BY <1>1, <1>2, Zenon DEF Threads, winVars
<1>4. Engine'
  <2>1. stopReq' \in BOOLEAN
    BY <1>1, Zenon DEF Engine
  <2> QED BY <1>1, <2>1, Zenon DEF Engine
<1>5. Processes' /\ Known'
  BY <1>1, ProcessesKept, LifeKept DEF procVars
<1> QED BY <1>3, <1>4, <1>5

(* A process that exits, or begins to drain, is not made alive by it. *)
LEMMA EndingKeeps ==
  ASSUME Processes, Known, NEW p \in Process \cup {None},
         NEW to \in {"drain", "exited"},
         to = "drain" => (p # None /\ life[p] = "run"),
         life' = [life EXCEPT ![p] = to], UNCHANGED <<proc, wrote, said>>
  PROVE  Processes' /\ Known'
<1>1. Processes'
  BY DEF Processes
<1>2. ASSUME NEW q \in Process, Alive(q)' PROVE Alive(q)
  <2>1. CASE q = p
    <3>1. life'[q] = to
      BY <2>1 DEF Processes
    <3> QED BY <1>2, <2>1, <3>1 DEF Alive
  <2>2. CASE q # p
    <3>1. life'[q] = life[q]
      BY <2>2 DEF Processes
    <3> QED BY <1>2, <3>1 DEF Alive
  <2> QED BY <2>1, <2>2
<1> QED BY <1>1, <1>2, KnownKept

LEMMA WriteKeeps ==
  ASSUME IInv, NEW i \in DOMAIN runners, WriteStop(i)
  PROVE  IInv'
<1> USE DEF IInv
<1> DEFINE p == runners[i].proc
<1>1. /\ Goto(i, "wait")
      /\ UNCHANGED <<winVars, stateVars, monitor, wrote, said>>
      /\ \/ UNCHANGED life
         \/ life' = [life EXCEPT ![p] = IF @ = "run" THEN "drain" ELSE @]
         \/ life' = [life EXCEPT ![p] = "exited"]
  BY DEF WriteStop, Exit
<1>2. p \in Process \cup {None}
  <2>1. runners[i] \in RunnerRecord
    BY DEF Threads
  <2> QED BY <2>1 DEF RunnerRecord
<1>3. runners' \in Seq(RunnerRecord)
  BY <1>1, RunnerMoves, NoneIsNoProcess
<1> HIDE DEF p
<1>4. Threads'
  BY <1>1, <1>3, Zenon DEF Threads, winVars
<1>5. Engine'
  BY <1>1, EngineKept
<1>6. Processes' /\ Known'
  <2>1. CASE UNCHANGED life
    BY <1>1, <2>1, LifeKept DEF Processes, stateVars
  <2>2. CASE life' = [life EXCEPT ![p] = "exited"]
    BY <1>1, <1>2, <2>2, EndingKeeps DEF stateVars
  <2>3. CASE life' = [life EXCEPT ![p] = IF @ = "run" THEN "drain" ELSE @]
    <3>1. CASE p \in Process /\ life[p] = "run"
      <4>1. life' = [life EXCEPT ![p] = "drain"]
        BY <2>3, <3>1 DEF Processes
      <4>2. p # None
        BY <3>1, NoneIsNoProcess
      <4> QED BY <1>1, <1>2, <3>1, <4>1, <4>2, EndingKeeps DEF stateVars
    <3>2. CASE ~(p \in Process /\ life[p] = "run")
      <4>1. life' = life
        BY <2>3, <3>2 DEF Processes
      <4> QED BY <1>1, <4>1, LifeKept DEF Processes, stateVars
    <3> QED BY <3>1, <3>2
  <2> QED BY <1>1, <2>1, <2>2, <2>3
<1> QED BY <1>4, <1>5, <1>6

LEMMA ForceKeeps ==
  ASSUME IInv, NEW i \in DOMAIN runners, ForceExit(i)
  PROVE  IInv'
<1> USE DEF IInv
<1>1. /\ Goto(i, "archive")
      /\ UNCHANGED <<winVars, stateVars, monitor, wrote, said>>
      /\ life' = [life EXCEPT ![runners[i].proc] = "exited"]
  BY DEF ForceExit, Exit
<1>2. runners[i].proc \in Process \cup {None}
  <2>1. runners[i] \in RunnerRecord
    BY DEF Threads
  <2> QED BY <2>1 DEF RunnerRecord
<1>3. runners' \in Seq(RunnerRecord)
  BY <1>1, RunnerMoves
<1>4. Threads'
  BY <1>1, <1>3, Zenon DEF Threads, winVars
<1>5. Engine'
  BY <1>1, EngineKept
<1>6. Processes' /\ Known'
  BY <1>1, <1>2, EndingKeeps DEF stateVars
<1> QED BY <1>4, <1>5, <1>6

-----------------------------------------------------------------------------
(* Monitors and processes *)

LEMMA MonitorKeeps ==
  ASSUME IInv, NEW p \in Process, Monitor(p)
  PROVE  IInv'
<1> USE DEF IInv
<1>1. UNCHANGED <<winVars, runners, proc, stopReq, life, wrote, said>>
  BY DEF Monitor, HandleLine, MonitorEnds, procVars
<1>2. Threads'
  BY <1>1, Zenon DEF Threads, winVars
<1>3. Processes' /\ Known'
  BY <1>1, LifeKept DEF Processes
<1>4. Engine'
  <2>1. /\ conn' \in {"CONNECTED", "DISCONNECTED", "ERROR"}
        /\ monitor' \in {monitor, [monitor EXCEPT ![p] = "done"]}
        /\ notice' = notice
             \/ \E k \in Kinds : notice' = [notice EXCEPT ![k] = p]
    BY DEF Monitor, HandleLine, MonitorEnds, StatusOf
  <2>2. notice' \in [Kinds -> Process \cup {None}]
    BY <2>1 DEF Engine
  <2>3. monitor' \in [Process -> {"none", "reading", "done"}]
    BY <2>1 DEF Engine
  <2> QED BY <1>1, <2>1, <2>2, <2>3, Zenon DEF Engine
<1> QED BY <1>2, <1>3, <1>4

LEMMA SessionKeeps ==
  ASSUME IInv, NEW p \in Process, Session(p)
  PROVE  IInv'
<1> USE DEF IInv
<1>1. UNCHANGED <<winVars, runners, stateVars, monitor>>
  BY DEF Session, Boot, Report, ReadCommand, WriteEntry, EndBySelf, Finish, Crash
<1>2. Threads' /\ Engine'
  BY <1>1, EngineKept, Zenon DEF Threads, winVars
<1>3. p # None
  BY NoneIsNoProcess
<1>4. CASE Boot(p)
  <2>1. /\ life[p] = "boot" /\ life' = [life EXCEPT ![p] = "run"]
        /\ UNCHANGED <<wrote, said>>
    BY <1>4 DEF Boot
  <2>2. Processes'
    BY <2>1 DEF Processes
  <2>3. ASSUME NEW q \in Process, Alive(q)' PROVE Alive(q)
    <3>1. CASE q = p
      BY <1>3, <2>1, <3>1 DEF Alive
    <3>2. CASE q # p
      <4>1. life'[q] = life[q]
        BY <2>1, <3>2 DEF Processes
      <4> QED BY <2>3, <4>1 DEF Alive
    <3> QED BY <3>1, <3>2
  <2> QED BY <1>1, <1>2, <2>2, <2>3, KnownKept DEF stateVars
<1>5. CASE Report(p) \/ WriteEntry(p)
  <2>1. /\ UNCHANGED life
        /\ \/ /\ said[p] < MaxLines[p] /\ wrote' = wrote
              /\ said' = [said EXCEPT ![p] = @ + 1]
           \/ /\ wrote[p] < MaxEntries[p] /\ said' = said
              /\ wrote' = [wrote EXCEPT ![p] = @ + 1]
    BY <1>5 DEF Report, WriteEntry
  <2>2. Processes'
    BY <2>1, ConstantsAssumption DEF Processes
  <2> QED BY <1>1, <1>2, <2>1, <2>2, LifeKept DEF stateVars
<1>6. CASE ReadCommand(p)
  <2>1. /\ UNCHANGED <<wrote, said>>
        /\ life' = life
             \/ (life[p] = "run" /\ life' = [life EXCEPT ![p] = "drain"])
    BY <1>6 DEF ReadCommand
  <2>2. CASE life' = life
    BY <1>1, <1>2, <2>1, <2>2, LifeKept DEF Processes, stateVars
  <2>3. CASE life' # life
    BY <1>1, <1>2, <1>3, <2>1, <2>3, EndingKeeps DEF stateVars
  <2> QED BY <2>2, <2>3
<1>7. CASE EndBySelf(p)
  BY <1>1, <1>2, <1>3, <1>7, EndingKeeps DEF EndBySelf, stateVars
<1>8. CASE Finish(p) \/ Crash(p)
  BY <1>1, <1>2, <1>8, EndingKeeps DEF Finish, Crash, Exit, stateVars
<1> QED BY <1>4, <1>5, <1>6, <1>7, <1>8 DEF Session

-----------------------------------------------------------------------------
LEMMA StepKeeps ==
  ASSUME IInv, [Next]_vars
  PROVE  IInv'
<1>1. ASSUME NEW i \in DOMAIN runners, RunnerStep(i) PROVE IInv'
  BY <1>1, RunnerOnly, SpawnKeeps, MuteKeeps, AskKeeps, WriteKeeps, ForceKeeps
     DEF RunnerStep
<1>2. CASE UNCHANGED vars
  <2>1. UNCHANGED <<winVars, runners, stateVars, monitor, procVars>>
    BY <1>2 DEF vars
  <2>2. Threads'
    BY <2>1, Zenon DEF IInv, Threads, winVars
  <2> QED BY <2>1, <2>2, EngineKept, ProcessesKept, LifeKept
          DEF IInv, stateVars, procVars
<1> QED BY <1>1, <1>2, WindowKeeps, MonitorKeeps, SessionKeeps DEF Next

(* The window, the engine and the processes keep their types. *)
THEOREM TypeCorrect == Spec => []TypeOK
  BY InitEstablishes, StepKeeps, InvariantImpliesType, PTL DEF Spec

(* Whatever runners are pending and however the processes end, no two      *)
(* sessions run at once: start_live looks at the process and spawns under  *)
(* one lock (engine.py:315).                                               *)
THEOREM SessionsTakeTurns == Spec => []OneSession
<1>1. IInv => OneSession
  <2> SUFFICES ASSUME IInv, NEW p \in Process, NEW q \in Process,
                      Alive(p), Alive(q)
               PROVE  p = q
    BY DEF OneSession
  <2> QED BY DEF IInv, Known
<1> QED BY <1>1, InitEstablishes, StepKeeps, PTL DEF Spec

-----------------------------------------------------------------------------
(* What a step does to the runners *)

LEMMA AfterMove ==
  ASSUME Threads, NEW i \in DOMAIN runners, NEW pc, NEW p,
         Goto(i, pc) \/ GotoWith(i, pc, p)
  PROVE  /\ DOMAIN runners' = DOMAIN runners
         /\ \A j \in DOMAIN runners : j # i => runners'[j] = runners[j]
         /\ runners'[i].kind = runners[i].kind /\ runners'[i].pc = pc
         /\ runners'[i].say = runners[i].say
         /\ Goto(i, pc) => runners'[i].proc = runners[i].proc
         /\ GotoWith(i, pc, p) => runners'[i].proc = p
<1> DEFINE r == runners[i]
           moved == [r EXCEPT !.pc = pc]
           sent == [moved EXCEPT !.proc = p]
<1>1. r \in RunnerRecord
  BY DEF Threads
<1>2. /\ moved.kind = r.kind /\ moved.pc = pc /\ moved.say = r.say
      /\ moved.proc = r.proc
      /\ sent.kind = r.kind /\ sent.pc = pc /\ sent.say = r.say
      /\ sent.proc = p
  BY <1>1 DEF RunnerRecord
<1>3. CASE Goto(i, pc)
  <2>1. runners' = [runners EXCEPT ![i] = moved]
    BY <1>3 DEF Goto
  <2>2. runners'[i] = moved
    BY <2>1
  <2>3. GotoWith(i, pc, p) => runners'[i] = sent
    BY DEF GotoWith, Threads
  <2> HIDE DEF moved, sent
  <2> QED BY <1>2, <2>1, <2>2, <2>3
<1>4. CASE ~Goto(i, pc)
  <2>1. runners' = [runners EXCEPT ![i] = sent]
    BY <1>4 DEF GotoWith, Threads
  <2>2. runners'[i] = sent
    BY <2>1
  <2> HIDE DEF moved, sent
  <2> QED BY <1>2, <1>4, <2>1, <2>2
<1> QED BY <1>3, <1>4

(* The place a runner had before runner i returned. *)
Place(k, i) == IF k < i THEN k ELSE k + 1

LEMMA AfterReturn ==
  ASSUME Threads, NEW i \in DOMAIN runners, Return(i)
  PROVE  /\ \A k \in DOMAIN runners' :
              /\ Place(k, i) \in DOMAIN runners \ {i}
              /\ runners'[k] = runners[Place(k, i)]
         /\ \A k, l \in DOMAIN runners' : Place(k, i) = Place(l, i) => k = l
         /\ \A j \in DOMAIN runners \ {i} :
              \E k \in DOMAIN runners' : runners'[k] = runners[j]
<1> DEFINE n == Len(runners)
           front == SubSeq(runners, 1, i - 1)
           back == SubSeq(runners, i + 1, n)
<1>1. runners \in Seq(RunnerRecord) /\ n \in Nat /\ i \in 1..n /\ DOMAIN runners = 1..n
  BY DEF Threads
<1>2. /\ front \in Seq(RunnerRecord) /\ Len(front) = i - 1
      /\ \A k \in 1..(i - 1) : front[k] = runners[k]
  BY <1>1
<1>3. /\ back \in Seq(RunnerRecord) /\ Len(back) = n - i
      /\ \A k \in 1..(n - i) : back[k] = runners[i + k]
  BY <1>1
<1>4. runners' = front \o back
  BY DEF Return, RemoveAt
<1> HIDE DEF front, back
<1>5. /\ DOMAIN runners' = 1..(n - 1)
      /\ \A k \in 1..(n - 1) :
           runners'[k] = IF k < i THEN front[k] ELSE back[k - (i - 1)]
  <2> HIDE DEF n
  <2>1. /\ DOMAIN runners' = 1..(Len(front) + Len(back))
        /\ \A k \in 1..(Len(front) + Len(back)) :
             runners'[k] = IF k <= Len(front) THEN front[k]
                                             ELSE back[k - Len(front)]
    <3>1. \A a, b \in Seq(RunnerRecord) :
            /\ DOMAIN (a \o b) = 1..(Len(a) + Len(b))
            /\ \A k \in 1..(Len(a) + Len(b)) :
                 (a \o b)[k] = IF k <= Len(a) THEN a[k] ELSE b[k - Len(a)]
      OBVIOUS
    <3> QED BY <1>2, <1>3, <1>4, <3>1
  <2>2. Len(front) + Len(back) = n - 1
    BY <1>1, <1>2, <1>3
  <2>3. \A k \in 1..(n - 1) : (k <= i - 1) <=> (k < i)
    BY <1>1
  <2> QED BY <1>2, <2>1, <2>2, <2>3
<1> HIDE DEF n
<1>6. ASSUME NEW k \in 1..(n - 1)
      PROVE  Place(k, i) \in DOMAIN runners \ {i} /\ runners'[k] = runners[Place(k, i)]
  <2>1. CASE k < i
    BY <1>1, <1>2, <1>5, <2>1 DEF Place
  <2>2. CASE ~(k < i)
    <3>1. k - (i - 1) \in 1..(n - i) /\ i + (k - (i - 1)) = k + 1
      BY <1>1, <2>2
    <3>2. runners'[k] = runners[k + 1]
      BY <1>3, <1>5, <2>2, <3>1
    <3> QED BY <1>1, <2>2, <3>2 DEF Place
  <2> QED BY <2>1, <2>2
<1>7. \A k, l \in 1..(n - 1) : Place(k, i) = Place(l, i) => k = l
  BY <1>1 DEF Place
<1>8. ASSUME NEW j \in DOMAIN runners \ {i}
      PROVE  \E k \in DOMAIN runners' : runners'[k] = runners[j]
  <2>1. CASE j < i
    <3>1. j \in 1..(n - 1) /\ Place(j, i) = j
      BY <1>1, <2>1 DEF Place
    <3> QED BY <1>5, <1>6, <3>1
  <2>2. CASE ~(j < i)
    <3>1. j - 1 \in 1..(n - 1) /\ Place(j - 1, i) = j
      BY <1>1, <2>2 DEF Place
    <3>2. runners'[j - 1] = runners[j]
      BY <1>6, <3>1
    <3> QED BY <1>5, <3>1, <3>2
  <2> QED BY <2>1, <2>2
<1> QED BY <1>5, <1>6, <1>7, <1>8

LEMMA AfterAppend ==
  ASSUME Threads, NEW r, runners' = Append(runners, r)
  PROVE  /\ Len(runners) + 1 \notin DOMAIN runners
         /\ DOMAIN runners' = DOMAIN runners \cup {Len(runners) + 1}
         /\ \A j \in DOMAIN runners : runners'[j] = runners[j]
         /\ runners'[Len(runners) + 1] = r
<1>1. runners \in Seq(RunnerRecord)
  BY DEF Threads
<1> QED BY <1>1

-----------------------------------------------------------------------------
(* The button.  A start that is pending shows as "Stop Recording", and it is *)
(* alone.  A session that the window does not show, or will not show once   *)
(* it has heard of a refused start, is one that a pending stop will end.    *)

(* A start that has not spawned. *)
Early(r) == r.kind = "start" /\ r.pc \in {"await", "poll", "spawn"}
(* A stop that will have ended process p when it is done. *)
Ends(r, p) == r.kind = "stop" /\ (r.pc = "ask" \/ (r.pc \in {"write", "wait"} /\ r.proc = p))

Unseen == ~button \/ reverts > 0 \/ \E i \in DOMAIN runners : Early(runners[i])
WillEnd(p) == \E i \in DOMAIN runners : Ends(runners[i], p)

OneStart ==
  /\ \A i, j \in Pending({"start"}) : i = j
  /\ reverts > 0 => Pending({"start"}) = {}
  /\ reverts <= 1
  /\ StartOpen => button
Covered == Unseen /\ Alive(proc) => WillEnd(proc)
Seen == ~rushed => OneStart /\ Covered

(* Stop is clicked, or a failed session aborted: a stop is added, and hides  *)
(* what it will end.                                                       *)
LEMMA StopSeen ==
  ASSUME IInv, Seen, ~StartOpen, button' = FALSE, StopLive,
         UNCHANGED <<reverts, proc, life>>
  PROVE  OneStart' /\ Covered'
<1> USE DEF IInv
<1> DEFINE n == Len(runners) + 1
           r == Runner("stop", "ask", "")
<1>1. /\ n \notin DOMAIN runners
      /\ DOMAIN runners' = DOMAIN runners \cup {n}
      /\ \A j \in DOMAIN runners : runners'[j] = runners[j]
      /\ runners'[n] = r
  BY AfterAppend DEF StopLive
<1>2. r.kind = "stop" /\ r.pc = "ask"
  BY DEF Runner
<1> HIDE DEF n, r
<1>3. Pending({"start"})' = {}
  BY <1>1, <1>2 DEF StartOpen, Pending
<1>4. reverts = 0
  BY DEF StartOpen, Threads
<1>5. OneStart'
  BY <1>3, <1>4 DEF OneStart, StartOpen
<1>6. WillEnd(proc)'
  BY <1>1, <1>2 DEF WillEnd, Ends
<1> QED BY <1>5, <1>6 DEF Covered

LEMMA ClickSeen ==
  ASSUME IInv, Seen, ToggleRecord
  PROVE  Seen'
<1> USE DEF IInv
<1> SUFFICES ASSUME ~rushed' PROVE OneStart' /\ Covered'
  BY DEF Seen
<1>1. /\ ~rushed /\ ~StartOpen /\ button' = ~button
      /\ UNCHANGED <<reverts, proc, life>>
  BY DEF ToggleRecord, stateVars, procVars
<1>2. OneStart /\ Covered
  BY <1>1 DEF Seen
<1>3. CASE button
  BY <1>1, <1>3, StopSeen DEF ToggleRecord
<1>4. CASE ~button
  <2> DEFINE n == Len(runners) + 1
             r == Runner("start", "await", "")
  <2>1. runners' = Append(runners, r)
    BY <1>4 DEF ToggleRecord, StartLive
  <2>2. /\ n \notin DOMAIN runners
        /\ DOMAIN runners' = DOMAIN runners \cup {n}
        /\ \A j \in DOMAIN runners : runners'[j] = runners[j]
        /\ runners'[n] = r
    BY <2>1, AfterAppend
  <2>3. r.kind = "start"
    BY DEF Runner
  <2> HIDE DEF n, r
  <2>4. Pending({"start"})' = {n}
    BY <1>1, <2>2, <2>3 DEF StartOpen, Pending
  <2>5. reverts' = 0 /\ button'
    <3>1. reverts = 0
      BY <1>1 DEF StartOpen, Threads
    <3>2. button'
      BY <1>1, <1>4, Zenon
    <3> QED BY <1>1, <3>1, <3>2
  <2>6. OneStart'
    BY <2>4, <2>5 DEF OneStart, StartOpen
  <2>7. ASSUME Alive(proc)' PROVE WillEnd(proc)'
    <3>1. Alive(proc) /\ Unseen
      BY <1>1, <1>4, <2>7 DEF Alive, Unseen
    <3> QED BY <1>1, <1>2, <2>2, <3>1 DEF Covered, WillEnd
  <2> QED BY <2>6, <2>7 DEF Covered
<1> QED BY <1>3, <1>4

LEMMA MuteClickSeen ==
  ASSUME IInv, Seen, ToggleMute
  PROVE  Seen'
<1> USE DEF IInv
<1> SUFFICES ASSUME ~rushed' PROVE OneStart' /\ Covered'
  BY DEF Seen
<1>1. ~rushed /\ UNCHANGED <<reverts, proc, life, button>>
  BY DEF ToggleMute, stateVars, procVars
<1>2. OneStart /\ Covered
  BY <1>1 DEF Seen
<1>3. /\ \A j \in DOMAIN runners : j \in DOMAIN runners' /\ runners'[j] = runners[j]
      /\ \A j \in DOMAIN runners' \ DOMAIN runners : runners'[j].kind = "mute"
  <2>1. CASE button
    <3> DEFINE r == Runner("mute", "set", IF muted THEN "off" ELSE "on")
    <3>1. runners' = Append(runners, r)
      BY <2>1, Zenon DEF ToggleMute
    <3>2. r.kind = "mute"
      BY DEF Runner
    <3> HIDE DEF r
    <3> QED BY <3>1, <3>2, AfterAppend
  <2>2. CASE ~button
    BY <2>2 DEF ToggleMute
  <2> QED BY <2>1, <2>2
<1>4. Pending({"start"})' = Pending({"start"})
  BY <1>3 DEF Pending
<1>5. OneStart'
  BY <1>1, <1>2, <1>4 DEF OneStart, StartOpen
<1>6. Unseen' => Unseen
  BY <1>1, <1>3 DEF Unseen, Early
<1>7. WillEnd(proc) => WillEnd(proc)'
  BY <1>1, <1>3 DEF WillEnd, Ends
<1> QED BY <1>1, <1>2, <1>5, <1>6, <1>7 DEF Covered, Alive

LEMMA NoticeSeen ==
  ASSUME IInv, Seen, NEW k \in Kinds, CheckNotice(k)
  PROVE  Seen'
<1> USE DEF IInv
<1> SUFFICES ASSUME ~rushed' PROVE OneStart' /\ Covered'
  BY DEF Seen
<1>1. /\ ~rushed /\ (button => ~StartOpen)
      /\ UNCHANGED <<reverts, proc, life>>
  BY DEF CheckNotice, stateVars, procVars
<1>2. OneStart /\ Covered
  BY <1>1 DEF Seen
<1>3. CASE button
  BY <1>1, <1>3, StopSeen DEF CheckNotice
<1>4. CASE ~button
  <2>1. UNCHANGED <<runners, button>>
    BY <1>4, Zenon DEF CheckNotice
  <2> QED BY <1>1, <1>2, <2>1
          DEF OneStart, Covered, StartOpen, Pending, Unseen, WillEnd, Alive
<1> QED BY <1>3, <1>4

LEMMA ErrorSeen ==
  ASSUME IInv, Seen, OnError
  PROVE  Seen'
<1> USE DEF IInv
<1> SUFFICES ASSUME ~rushed' PROVE OneStart' /\ Covered'
  BY DEF Seen
<1>1. /\ ~rushed /\ reverts > 0 /\ reverts' = reverts - 1 /\ button' = FALSE
      /\ UNCHANGED <<runners, proc, life>>
  BY DEF OnError, stateVars, procVars, userVars
<1>2. OneStart /\ Covered /\ reverts = 1 /\ Unseen
  BY <1>1 DEF Seen, OneStart, Unseen, Threads
<1>3. OneStart'
  BY <1>1, <1>2 DEF OneStart, StartOpen, Pending
<1> QED BY <1>1, <1>2, <1>3 DEF Covered, WillEnd, Alive

(* A runner that begins a stop is not lost unless it returns or gives up. *)
LEMMA OthersEnd ==
  ASSUME IInv, NEW i \in DOMAIN runners, NEW pc, NEW p, NEW q,
         Return(i) \/ Goto(i, pc) \/ GotoWith(i, pc, p),
         NEW j \in DOMAIN runners, j # i, Ends(runners[j], q)
  PROVE  \E l \in DOMAIN runners' : Ends(runners'[l], q)
  BY AfterMove, AfterReturn DEF IInv

(* A start runner that moves or returns. *)
LEMMA StarterSeen ==
  ASSUME IInv, Seen, NEW i \in DOMAIN runners,
         AwaitStop(i) \/ PollExit(i) \/ StartFails(i) \/ CheckMuted(i)
           \/ ApplyMute(i)
  PROVE  Seen'
<1> USE DEF IInv
<1> SUFFICES ASSUME ~rushed' PROVE OneStart' /\ Covered'
  BY DEF Seen
<1>1. /\ ~rushed /\ UNCHANGED <<button, proc, life>>
      /\ runners[i].kind \in {"start", "mute"}
  BY DEF AwaitStop, PollExit, StartFails, CheckMuted, ApplyMute, At, winVars,
         stateVars, procVars, userVars
<1>2. OneStart /\ Covered
  BY <1>1 DEF Seen
<1>3. ASSUME NEW q, WillEnd(q)
      PROVE  \E l \in DOMAIN runners' : Ends(runners'[l], q)
  <2>1. PICK j \in DOMAIN runners : Ends(runners[j], q)
    BY <1>3 DEF WillEnd
  <2>2. j # i
    BY <1>1, <2>1 DEF Ends
  <2>3. \E pc, p : Return(i) \/ Goto(i, pc) \/ GotoWith(i, pc, p)
    BY DEF AwaitStop, PollExit, StartFails, CheckMuted, ApplyMute
  <2> QED BY <2>1, <2>2, <2>3, OthersEnd
<1>4. WillEnd(proc) => WillEnd(proc)'
  BY <1>1, <1>3 DEF WillEnd
<1>5. CASE ~StartFails(i)
  <2>1. reverts' = reverts
    BY <1>5 DEF AwaitStop, PollExit, CheckMuted, ApplyMute, winVars
  <2>2. CASE Return(i)
    <3>1. \A k, l \in Pending({"start"})' : k = l
      BY <1>2, <2>2, AfterReturn DEF OneStart, Pending
    <3>2. Pending({"start"})' # {} => Pending({"start"}) # {}
      BY <2>2, AfterReturn DEF Pending
    <3>3. Unseen' => Unseen
      BY <1>1, <2>1, <2>2, AfterReturn DEF Unseen
    <3> QED BY <1>1, <1>2, <1>4, <2>1, <3>1, <3>2, <3>3
            DEF OneStart, StartOpen, Covered, Alive
  <2>3. CASE ~Return(i)
    <3>1. PICK pc \in {"poll", "spawn", "mute"} :
            /\ Goto(i, pc) \/ GotoWith(i, pc, proc)
            /\ pc \in {"poll", "spawn"} => Early(runners[i])
      BY <1>5, <2>3 DEF AwaitStop, PollExit, CheckMuted, ApplyMute, At, Early
    <3>2. /\ DOMAIN runners' = DOMAIN runners
          /\ \A j \in DOMAIN runners : j # i => runners'[j] = runners[j]
          /\ runners'[i].kind = runners[i].kind /\ runners'[i].pc = pc
      BY <3>1, AfterMove
    <3>3. Pending({"start"})' = Pending({"start"})
      BY <3>2 DEF Pending
    <3>4. Unseen' => Unseen
      BY <1>1, <2>1, <3>1, <3>2 DEF Unseen, Early
    <3> QED BY <1>1, <1>2, <1>4, <2>1, <3>3, <3>4
            DEF OneStart, StartOpen, Covered, Alive
  <2> QED BY <2>2, <2>3
<1>6. CASE StartFails(i)
  <2>1. /\ reverts' = reverts + 1 /\ Return(i)
        /\ runners[i].kind = "start" /\ runners[i].pc = "spawn"
    BY <1>6 DEF StartFails, At
  <2>2. i \in Pending({"start"}) /\ Early(runners[i])
    BY <2>1 DEF Pending, Early
  <2>3. reverts = 0 /\ button /\ Unseen
    BY <1>2, <2>2 DEF OneStart, StartOpen, Unseen, Threads
  <2>4. Pending({"start"})' = {}
    BY <1>2, <2>1, <2>2, AfterReturn DEF OneStart, Pending
  <2>5. OneStart'
    BY <1>1, <2>1, <2>3, <2>4 DEF OneStart, StartOpen
  <2> QED BY <1>1, <1>2, <1>4, <2>3, <2>5 DEF Covered, Alive
<1> QED BY <1>5, <1>6

LEMMA SpawnSeen ==
  ASSUME IInv, Seen, NEW i \in DOMAIN runners, Spawn(i)
  PROVE  Seen'
<1> USE DEF IInv
<1> SUFFICES ASSUME ~rushed' PROVE OneStart' /\ Covered'
  BY DEF Seen
<1>1. /\ ~rushed /\ UNCHANGED <<button, reverts>> /\ Goto(i, "check")
      /\ runners[i].kind = "start"
  BY DEF Spawn, At, winVars, userVars
<1>2. OneStart /\ i \in Pending({"start"})
  BY <1>1 DEF Seen, Pending
<1>3. /\ DOMAIN runners' = DOMAIN runners
      /\ \A j \in DOMAIN runners : j # i => runners'[j] = runners[j]
      /\ runners'[i].kind = "start" /\ runners'[i].pc = "check"
  BY <1>1, AfterMove
<1>4. Pending({"start"})' = Pending({"start"})
  BY <1>1, <1>3 DEF Pending
<1>5. OneStart'
  BY <1>1, <1>2, <1>4 DEF OneStart, StartOpen
<1>6. reverts = 0 /\ button
  BY <1>2 DEF OneStart, StartOpen, Threads
<1>7. ~Unseen'
  <2>1. \A j \in DOMAIN runners : Early(runners[j]) => j = i
    BY <1>2 DEF OneStart, Pending, Early
  <2>2. \A j \in DOMAIN runners' : ~Early(runners'[j])
    BY <1>3, <2>1 DEF Early
  <2> QED BY <1>1, <1>6, <2>2 DEF Unseen
<1> QED BY <1>5, <1>7 DEF Covered

(* A stop runner that moves or returns. *)
LEMMA StopperSeen ==
  ASSUME IInv, Seen, NEW i \in DOMAIN runners,
         AskStop(i) \/ WriteStop(i) \/ WaitExit(i) \/ ForceExit(i)
           \/ Archive(i)
  PROVE  Seen'
<1> USE DEF IInv
<1> SUFFICES ASSUME ~rushed' PROVE OneStart' /\ Covered'
  BY DEF Seen
<1>1. /\ ~rushed /\ UNCHANGED <<button, reverts, proc>>
      /\ runners[i].kind = "stop"
  BY DEF AskStop, WriteStop, WaitExit, ForceExit, Archive, At, winVars,
         stateVars, userVars
<1>2. OneStart /\ Covered
  BY <1>1 DEF Seen
<1>3. PICK pc \in {"write", "wait", "archive"}, p \in Process \cup {None} :
        Return(i) \/ Goto(i, pc) \/ GotoWith(i, pc, p)
  BY DEF AskStop, WriteStop, WaitExit, ForceExit, Archive, Engine
<1>4. /\ \A k, l \in Pending({"start"})' : k = l
      /\ Pending({"start"})' # {} => Pending({"start"}) # {}
      /\ Unseen' => Unseen
  <2>1. CASE Return(i)
    <3>1. \A k, l \in Pending({"start"})' : k = l
      BY <1>2, <2>1, AfterReturn DEF OneStart, Pending
    <3>2. Pending({"start"})' # {} => Pending({"start"}) # {}
      BY <2>1, AfterReturn DEF Pending
    <3>3. Unseen' => Unseen
      BY <1>1, <2>1, AfterReturn DEF Unseen
    <3> QED BY <3>1, <3>2, <3>3
  <2>2. CASE ~Return(i)
    <3>1. /\ DOMAIN runners' = DOMAIN runners
          /\ \A j \in DOMAIN runners : j # i => runners'[j] = runners[j]
          /\ runners'[i].kind = "stop"
      BY <1>1, <1>3, <2>2, AfterMove
    <3>2. Pending({"start"})' = Pending({"start"})
      BY <1>1, <3>1 DEF Pending
    <3>3. Unseen' => Unseen
      BY <1>1, <3>1 DEF Unseen, Early
    <3> QED BY <1>2, <3>2, <3>3 DEF OneStart
  <2> QED BY <2>1, <2>2
<1>5. OneStart'
  BY <1>1, <1>2, <1>4 DEF OneStart, StartOpen
<1>6. ASSUME Unseen', Alive(proc)' PROVE WillEnd(proc)'
  <2>1. Alive(proc)
    <3>1. CASE UNCHANGED life
      BY <1>1, <1>6, <3>1 DEF Alive
    <3>2. CASE ~UNCHANGED life
      <4>1. \E q : \/ life' = [life EXCEPT ![q] = IF @ = "run" THEN "drain" ELSE @]
                   \/ life' = [life EXCEPT ![q] = "exited"]
        BY <3>2 DEF AskStop, WriteStop, WaitExit, ForceExit, Archive, procVars, Exit
      <4>2. proc \in Process
        BY <1>1, <1>6 DEF Engine, Alive
      <4> QED BY <1>1, <1>6, <4>1, <4>2 DEF Alive, Processes
    <3> QED BY <3>1, <3>2
  <2>2. WillEnd(proc)
    BY <1>2, <1>4, <1>6, <2>1 DEF Covered
  <2>3. PICK j \in DOMAIN runners : Ends(runners[j], proc)
    BY <2>2 DEF WillEnd
  <2>4. CASE j # i
    <3>1. \E l \in DOMAIN runners' : Ends(runners'[l], proc)
      BY <1>3, <2>3, <2>4, OthersEnd
    <3> QED BY <1>1, <3>1 DEF WillEnd
  <2>5. CASE j = i
    <3>1. CASE AskStop(i)
      <4>1. GotoWith(i, "write", proc)
        BY <2>1, <3>1 DEF AskStop
      <4>2. /\ i \in DOMAIN runners' /\ runners'[i].kind = "stop"
            /\ runners'[i].pc = "write" /\ runners'[i].proc = proc
        BY <1>1, <4>1, AfterMove
      <4> QED BY <1>1, <4>2 DEF WillEnd, Ends
    <3>2. CASE WriteStop(i)
      <4>1. Goto(i, "wait") /\ runners[i].proc = proc
        BY <2>3, <2>5, <3>2 DEF WriteStop, At, Ends
      <4>2. /\ i \in DOMAIN runners' /\ runners'[i].kind = "stop"
            /\ runners'[i].pc = "wait" /\ runners'[i].proc = proc
        BY <1>1, <4>1, AfterMove
      <4> QED BY <1>1, <4>2 DEF WillEnd, Ends
    <3>3. CASE WaitExit(i)
      BY <2>1, <2>3, <2>5, <3>3 DEF WaitExit, At, Ends
    <3>4. CASE ForceExit(i)
      <4>1. runners[i].proc = proc /\ life' = [life EXCEPT ![proc] = "exited"]
        BY <2>3, <2>5, <3>4 DEF ForceExit, At, Ends, Exit
      <4> QED BY <1>1, <1>6, <4>1 DEF Alive, Processes, Engine
    <3>5. CASE Archive(i)
      BY <2>3, <2>5, <3>5 DEF Archive, At, Ends
    <3> QED BY <3>1, <3>2, <3>3, <3>4, <3>5
  <2> QED BY <2>4, <2>5
<1> QED BY <1>5, <1>6 DEF Covered

(* No process is made alive by itself. *)
LEMMA SessionEndsOnly ==
  ASSUME IInv, NEW p \in Process, Session(p), NEW q \in Process, Alive(q)'
  PROVE  Alive(q)
<1> USE DEF IInv
<1>1. CASE UNCHANGED life
  BY <1>1 DEF Alive
<1>2. CASE ~UNCHANGED life
  <2>1. \E to \in {"run", "drain", "exited"} : life' = [life EXCEPT ![p] = to]
    BY <1>2 DEF Session, Boot, Report, ReadCommand, WriteEntry, EndBySelf,
                Finish, Crash, Exit
  <2>2. CASE q = p
    BY <1>2, <2>2, NoneIsNoProcess
       DEF Session, Boot, Report, ReadCommand, WriteEntry, EndBySelf, Finish,
           Crash, Alive
  <2>3. CASE q # p
    BY <2>1, <2>3 DEF Alive, Processes
  <2> QED BY <2>2, <2>3
<1> QED BY <1>1, <1>2

LEMMA StepSeen ==
  ASSUME IInv, Seen, [Next]_vars
  PROVE  Seen'
<1> USE DEF IInv
<1>1. CASE /\ UNCHANGED <<winVars, runners, proc, rushed>>
           /\ Alive(proc)' => Alive(proc)
  BY <1>1 DEF Seen, OneStart, Covered, StartOpen, Pending, Unseen, WillEnd, winVars
<1>2. ASSUME NEW p \in Process, Monitor(p) \/ Session(p) PROVE Seen'
  <2>1. UNCHANGED <<winVars, runners, proc, rushed>>
    BY <1>2 DEF Monitor, HandleLine, MonitorEnds, Session, Boot, Report,
                ReadCommand, WriteEntry, EndBySelf, Finish, Crash, stateVars,
                userVars
  <2>2. Alive(proc)' => Alive(proc)
    <3>1. CASE Monitor(p)
      BY <2>1, <3>1 DEF Monitor, HandleLine, MonitorEnds, procVars, Alive
    <3>2. CASE Session(p)
      <4>1. \A q \in Process : Alive(q)' => Alive(q)
        BY <3>2, SessionEndsOnly
      <4> QED BY <2>1, <4>1 DEF Alive, Engine
    <3> QED BY <1>2, <3>1, <3>2
  <2> QED BY <1>1, <2>1, <2>2
<1>3. CASE UNCHANGED vars
  BY <1>1, <1>3 DEF vars, stateVars, procVars, userVars, Alive
<1>4. ASSUME NEW i \in DOMAIN runners, RunnerStep(i) PROVE Seen'
  BY <1>4, StarterSeen, SpawnSeen, StopperSeen DEF RunnerStep
<1> QED BY <1>2, <1>3, <1>4, ClickSeen, MuteClickSeen, NoticeSeen, ErrorSeen DEF Next

LEMMA InitSeen == Init => Seen
  BY DEF Init, Seen, OneStart, Covered, StartOpen, Pending, Unseen, Alive

(* Once the runners are done, no session records behind a button that reads *)
(* "Start Recording" (qt_client.py:1424).                                  *)
THEOREM NoSessionIsHidden == Spec => []RecordingIsVisible
<1>1. IInv /\ Seen => RecordingIsVisible
  <2> SUFFICES ASSUME IInv, Seen, ~rushed, ~button, Idle,
                      NEW p \in Process, Alive(p)
               PROVE  FALSE
    BY DEF RecordingIsVisible, HiddenSession
  <2>1. Alive(proc)
    BY DEF IInv, Known
  <2>2. WillEnd(proc)
    BY <2>1 DEF Seen, Covered, Unseen
  <2> QED BY <2>2 DEF WillEnd, Ends, Idle, Pending
<1> QED BY <1>1, InitEstablishes, StepKeeps, InitSeen, StepSeen, PTL DEF Spec

-----------------------------------------------------------------------------
(* The transcript.  Unless clicks are rushed or overlap, at most one stop is *)
(* pending, on the session that runs; and when nothing is pending and the    *)
(* window shows no session, none runs and all that was written is archived, *)
(* which is what the next session needs, since it empties the file.        *)

LifeOnlyEnds ==
  \A p \in Process : /\ life'[p] = "boot" => life[p] = "boot"
                     /\ life'[p] \in {"run", "drain"} => life[p] \in {"run", "drain"}

(* A candidate, an entry of the history, or one of an archive that failed. *)
Past(e) == e \in Candidates \cup unarchived \/ InHistory(e)
Archived == \A p \in Process : \A n \in 1..wrote[p] : Past(<<p, n>>)

OneStop ==
  /\ \A i, j \in Pending({"stop"}) : i = j
  /\ Pending({"stop"}) # {} => ~button
  /\ \A i \in Pending({"stop"}) :
       /\ runners[i].pc \in {"write", "wait"} => runners[i].proc = proc
       /\ runners[i].pc = "archive" => ~Alive(proc)
Settled == Unseen /\ Pending({"stop"}) = {}
Resting ==
  /\ Settled => ~Alive(proc) /\ Archived
  /\ \A p \in Process : life[p] = "boot" => Archived

Item == (Process \X Nat) \cup Part
FileWhole ==
  /\ file \in Seq(Seq(Item))
  /\ \A p \in Process :
       life[p] \in {"run", "drain"} => \A i \in DOMAIN file : Parses(file[i])

AllKept == \A p \in Process : \A n \in 1..wrote[p] :
             InFile(<<p, n>>) \/ Past(<<p, n>>)
Kept == ~rushed /\ ~overlap => OneStop /\ Resting /\ FileWhole /\ AllKept

LEMMA PairIsNoPart == \A p, n : <<p, n>> \notin Part
<1> SUFFICES ASSUME NEW p, NEW n PROVE <<p, n>> \notin Part
  OBVIOUS
<1>1. Len(<<p, n>>) = 2 /\ Len(Torn) = 0 /\ Len(Split) = 1
  BY DEF Torn, Split
<1> QED BY <1>1 DEF Part

(* An entry that was read from a file has a line of its own there. *)
LEMMA LineIffWhole ==
  ASSUME NEW p \in Process, NEW n \in Nat,
         NEW f \in Seq(Seq(Item))
  PROVE  <<p, n>> \in Whole(f) <=> \E i \in DOMAIN f : f[i] = <<<<p, n>>>>
<1> DEFINE e == <<p, n>>
<1>1. e \notin Part /\ e \in Item
  BY PairIsNoPart DEF Item
<1> HIDE DEF e
<1>2. ASSUME NEW i \in DOMAIN f, f[i] = <<e>>
      PROVE  e \in Whole(f)
  BY <1>1, <1>2 DEF Whole, Parses
<1>3. ASSUME e \in Whole(f)
      PROVE  \E i \in DOMAIN f : f[i] = <<e>>
  <2>1. PICK i \in DOMAIN f : Parses(f[i]) /\ f[i][1] = e
    BY <1>3 DEF Whole
  <2>2. f[i] \in Seq(Item) /\ Len(f[i]) = 1
    BY <2>1 DEF Parses
  <2>3. f[i] = <<f[i][1]>>
    BY <2>2
  <2> QED BY <2>1, <2>3
<1> QED BY <1>2, <1>3 DEF e

LEMMA FrameKept ==
  ASSUME IInv, Resting, FileWhole, AllKept, LifeOnlyEnds,
         UNCHANGED <<wrote, file, history, unarchived, proc>>, Settled' => Settled
  PROVE  Resting' /\ FileWhole' /\ AllKept'
<1>1. Alive(proc)' => Alive(proc)
  BY DEF Alive, LifeOnlyEnds, IInv, Engine
<1>2. Archived => Archived'
  BY DEF Archived, Past, InHistory
<1>3. Resting'
  BY <1>1, <1>2 DEF Resting, LifeOnlyEnds
<1>4. FileWhole'
  BY DEF FileWhole, LifeOnlyEnds
<1>5. AllKept'
  BY DEF AllKept, InFile, Past, InHistory
<1> QED BY <1>3, <1>4, <1>5

(* A runner that is no stop leaves the stops alone. *)
LEMMA StopsKept ==
  ASSUME IInv, OneStop, NEW i \in DOMAIN runners, runners[i].kind # "stop",
         NEW pc, NEW p, Return(i) \/ Goto(i, pc) \/ GotoWith(i, pc, p),
         UNCHANGED <<button, proc, life>>
  PROVE  OneStop' /\ (Pending({"stop"})' = {} <=> Pending({"stop"}) = {})
<1> USE DEF IInv
<1>1. CASE Return(i)
  <2>1. /\ \A k \in Pending({"stop"})' :
             /\ Place(k, i) \in Pending({"stop"})
             /\ runners'[k] = runners[Place(k, i)]
        /\ \A k, l \in Pending({"stop"})' : Place(k, i) = Place(l, i) => k = l
    BY <1>1, AfterReturn DEF Pending
  <2>2. \A j \in Pending({"stop"}) : Pending({"stop"})' # {}
    BY <1>1, AfterReturn DEF Pending
  <2>3. OneStop'
    BY <2>1 DEF OneStop, Alive
  <2> QED BY <2>1, <2>2, <2>3
<1>2. CASE ~Return(i)
  <2>1. /\ DOMAIN runners' = DOMAIN runners
        /\ \A j \in DOMAIN runners : j # i => runners'[j] = runners[j]
        /\ runners'[i].kind = runners[i].kind
    BY <1>2, AfterMove
  <2>2. /\ Pending({"stop"})' = Pending({"stop"})
        /\ \A j \in Pending({"stop"}) : runners'[j] = runners[j]
    BY <2>1 DEF Pending
  <2> QED BY <2>2 DEF OneStop, Alive
<1> QED BY <1>1, <1>2

(* A start that moves shows no less than before. *)
LEMMA StarterUnseen ==
  ASSUME IInv, NEW i \in DOMAIN runners,
         AwaitStop(i) \/ PollExit(i) \/ StartFails(i) \/ CheckMuted(i)
           \/ ApplyMute(i),
         Unseen'
  PROVE  Unseen
<1> USE DEF IInv
<1>1. UNCHANGED button
  BY DEF AwaitStop, PollExit, StartFails, CheckMuted, ApplyMute, winVars
<1>2. CASE StartFails(i)
  BY <1>2 DEF StartFails, At, Unseen, Early
<1>3. CASE ~StartFails(i)
  <2>1. reverts' = reverts
    BY <1>3 DEF AwaitStop, PollExit, CheckMuted, ApplyMute, winVars
  <2>2. CASE Return(i)
    BY <1>1, <2>1, <2>2, AfterReturn DEF Unseen
  <2>3. CASE ~Return(i)
    <3>1. PICK pc \in {"poll", "spawn", "mute"} :
            /\ Goto(i, pc) \/ GotoWith(i, pc, proc)
            /\ pc \in {"poll", "spawn"} => Early(runners[i])
      BY <1>3, <2>3 DEF AwaitStop, PollExit, CheckMuted, ApplyMute, At, Early
    <3>2. /\ DOMAIN runners' = DOMAIN runners
          /\ \A j \in DOMAIN runners : j # i => runners'[j] = runners[j]
          /\ runners'[i].pc = pc
      BY <3>1, AfterMove
    <3> QED BY <1>1, <2>1, <3>1, <3>2 DEF Unseen, Early
  <2> QED BY <2>2, <2>3
<1> QED BY <1>2, <1>3

LEMMA StarterKept ==
  ASSUME IInv, Kept, NEW i \in DOMAIN runners,
         AwaitStop(i) \/ PollExit(i) \/ StartFails(i) \/ CheckMuted(i)
           \/ ApplyMute(i)
  PROVE  Kept'
<1> USE DEF IInv
<1>1. /\ UNCHANGED <<button, proc, life, wrote, file, history, unarchived, rushed, overlap>>
      /\ runners[i].kind \in {"start", "mute"}
  BY DEF AwaitStop, PollExit, StartFails, CheckMuted, ApplyMute, At, winVars,
         stateVars, procVars, fileVars, userVars
<1> SUFFICES ASSUME ~rushed, ~overlap
             PROVE  OneStop' /\ Resting' /\ FileWhole' /\ AllKept'
  BY <1>1 DEF Kept
<1>2. OneStop /\ Resting /\ FileWhole /\ AllKept
  BY DEF Kept
<1>3. \E pc, p : Return(i) \/ Goto(i, pc) \/ GotoWith(i, pc, p)
  BY DEF AwaitStop, PollExit, StartFails, CheckMuted, ApplyMute
<1>4. OneStop' /\ (Pending({"stop"})' = {} <=> Pending({"stop"}) = {})
  BY <1>1, <1>2, <1>3, StopsKept
<1>5. Settled' => Settled
  BY <1>4, StarterUnseen DEF Settled
<1>6. LifeOnlyEnds
  BY <1>1 DEF LifeOnlyEnds
<1> QED BY <1>1, <1>2, <1>4, <1>5, <1>6, FrameKept

(* A stop is clicked, or a failed session aborted. *)
LEMMA StopClickKept ==
  ASSUME IInv, Kept, ~rushed, ~overlap, button, button' = FALSE, StopLive,
         UNCHANGED <<proc, life, wrote, file, history, unarchived>>
  PROVE  OneStop' /\ Resting' /\ FileWhole' /\ AllKept'
<1> USE DEF IInv
<1> DEFINE n == Len(runners) + 1
           r == Runner("stop", "ask", "")
<1>1. /\ n \notin DOMAIN runners
      /\ DOMAIN runners' = DOMAIN runners \cup {n}
      /\ \A j \in DOMAIN runners : runners'[j] = runners[j]
      /\ runners'[n] = r
  BY AfterAppend DEF StopLive
<1>2. r.kind = "stop" /\ r.pc = "ask"
  BY DEF Runner
<1> HIDE DEF n, r
<1>3. OneStop /\ Resting /\ FileWhole /\ AllKept
  BY DEF Kept
<1>4. Pending({"stop"}) = {}
  BY <1>3 DEF OneStop
<1>5. Pending({"stop"})' = {n}
  BY <1>1, <1>2, <1>4 DEF Pending
<1>6. OneStop'
  BY <1>1, <1>2, <1>5 DEF OneStop
<1>7. ~Settled'
  BY <1>5 DEF Settled
<1>8. LifeOnlyEnds
  BY DEF LifeOnlyEnds
<1> QED BY <1>3, <1>6, <1>7, <1>8, FrameKept

LEMMA WindowKept ==
  ASSUME IInv, Seen, Kept,
         ToggleRecord \/ ToggleMute \/ OnError
           \/ \E k \in Kinds : CheckNotice(k)
  PROVE  Kept'
<1> USE DEF IInv
<1>1. UNCHANGED <<proc, life, wrote, file, history, unarchived>>
  BY DEF ToggleRecord, ToggleMute, OnError, CheckNotice, stateVars, procVars,
         fileVars, userVars
<1> SUFFICES ASSUME ~rushed', ~overlap'
             PROVE  OneStop' /\ Resting' /\ FileWhole' /\ AllKept'
  BY DEF Kept
<1>2. ~rushed /\ ~overlap
  <2>1. ASSUME NEW k \in Kinds, CheckNotice(k) PROVE ~rushed /\ ~overlap
    BY <2>1 DEF CheckNotice
  <2>2. CASE ToggleRecord
    BY <2>2 DEF ToggleRecord
  <2>3. CASE ToggleMute
    BY <2>3 DEF ToggleMute
  <2>4. CASE OnError
    BY <2>4 DEF OnError, userVars
  <2> QED BY <2>1, <2>2, <2>3, <2>4
<1>3. OneStop /\ Resting /\ FileWhole /\ AllKept /\ OneStart
  BY <1>2 DEF Kept, Seen
<1>4. LifeOnlyEnds
  BY <1>1 DEF LifeOnlyEnds
<1>5. CASE ToggleRecord /\ button
  BY <1>1, <1>2, <1>5, StopClickKept DEF ToggleRecord
<1>6. ASSUME NEW k \in Kinds, CheckNotice(k), button PROVE OneStop' /\ Resting' /\ FileWhole' /\ AllKept'
  BY <1>1, <1>2, <1>6, StopClickKept DEF CheckNotice
<1>7. ASSUME NEW k \in Kinds, CheckNotice(k), ~button PROVE OneStop' /\ Resting' /\ FileWhole' /\ AllKept'
  <2>1. UNCHANGED <<runners, button, reverts>>
    BY <1>7, Zenon DEF CheckNotice
  <2>2. OneStop' /\ (Settled' => Settled)
    BY <1>1, <1>3, <2>1 DEF OneStop, Settled, Unseen, Pending, Alive
  <2> QED BY <1>1, <1>3, <1>4, <2>2, FrameKept
<1>8. CASE ToggleRecord /\ ~button
  <2> DEFINE n == Len(runners) + 1
             r == Runner("start", "await", "")
  <2>1. runners' = Append(runners, r)
    BY <1>8 DEF ToggleRecord, StartLive
  <2>2. /\ n \notin DOMAIN runners
        /\ DOMAIN runners' = DOMAIN runners \cup {n}
        /\ \A j \in DOMAIN runners : runners'[j] = runners[j]
        /\ runners'[n] = r
    BY <2>1, AfterAppend
  <2>3. r.kind = "start"
    BY DEF Runner
  <2> HIDE DEF n, r
  <2>4. Pending({"stop"}) = {}
    BY <1>8 DEF ToggleRecord
  <2>5. Pending({"stop"})' = {}
    BY <2>2, <2>3, <2>4 DEF Pending
  <2>6. OneStop' /\ Settled
    BY <1>8, <2>4, <2>5 DEF OneStop, Settled, Unseen
  <2> QED BY <1>1, <1>3, <1>4, <2>6, FrameKept
<1>9. CASE ToggleMute
  <2>1. UNCHANGED <<button, reverts>>
    BY <1>9 DEF ToggleMute
  <2>2. /\ \A j \in DOMAIN runners : j \in DOMAIN runners' /\ runners'[j] = runners[j]
        /\ \A j \in DOMAIN runners' \ DOMAIN runners : runners'[j].kind = "mute"
    <3>1. CASE button
      <4> DEFINE r == Runner("mute", "set", IF muted THEN "off" ELSE "on")
      <4>1. runners' = Append(runners, r)
        BY <1>9, <3>1, Zenon DEF ToggleMute
      <4>2. r.kind = "mute"
        BY DEF Runner
      <4> HIDE DEF r
      <4> QED BY <4>1, <4>2, AfterAppend
    <3>2. CASE ~button
      BY <1>9, <3>2 DEF ToggleMute
    <3> QED BY <3>1, <3>2
  <2>3. /\ Pending({"stop"})' = Pending({"stop"})
        /\ \A j \in Pending({"stop"}) : runners'[j] = runners[j]
    BY <2>2 DEF Pending
  <2>4. Unseen' => Unseen
    BY <2>1, <2>2 DEF Unseen, Early
  <2>5. OneStop' /\ (Settled' => Settled)
    BY <1>1, <1>3, <2>1, <2>3, <2>4 DEF OneStop, Settled, Alive
  <2> QED BY <1>1, <1>3, <1>4, <2>5, FrameKept
<1>10. CASE OnError
  <2>1. reverts > 0 /\ UNCHANGED runners
    BY <1>10 DEF OnError
  <2>2. Unseen /\ button
    BY <1>3, <2>1 DEF Unseen, OneStart, StartOpen
  <2>3. Settled /\ Pending({"stop"})' = {}
    BY <1>3, <2>1, <2>2 DEF Settled, OneStop, Pending
  <2>4. OneStop'
    BY <2>3 DEF OneStop
  <2> QED BY <1>1, <1>3, <1>4, <2>3, <2>4, FrameKept
<1> QED BY <1>5, <1>6, <1>7, <1>8, <1>9, <1>10

LEMMA SpawnKept ==
  ASSUME IInv, Seen, Kept, NEW i \in DOMAIN runners, Spawn(i)
  PROVE  Kept'
<1> USE DEF IInv
<1> SUFFICES ASSUME ~rushed', ~overlap'
             PROVE  OneStop' /\ Resting' /\ FileWhole' /\ AllKept'
  BY DEF Kept
<1> DEFINE n == NextProcess
<1>1. /\ ~rushed /\ ~overlap /\ n \in Process /\ ~Alive(proc)
      /\ UNCHANGED <<button, reverts, wrote, file, history, unarchived>>
      /\ life' = [life EXCEPT ![n] = "boot"]
      /\ Goto(i, "check")
      /\ runners[i].kind = "start" /\ runners[i].pc = "spawn"
  BY DEF Spawn, At, Refused, winVars, fileVars, userVars
<1> HIDE DEF n
<1>2. OneStop /\ Resting /\ FileWhole /\ AllKept /\ OneStart
  BY <1>1 DEF Kept, Seen
<1>3. i \in Pending({"start"}) /\ Unseen /\ button
  BY <1>1, <1>2 DEF Pending, Unseen, Early, OneStart, StartOpen
<1>4. Pending({"stop"}) = {}
  BY <1>2, <1>3 DEF OneStop
<1>5. Archived /\ Archived'
  BY <1>1, <1>2, <1>3, <1>4 DEF Resting, Settled, Archived, Past, InHistory
<1>6. /\ DOMAIN runners' = DOMAIN runners
      /\ \A j \in DOMAIN runners : j # i => runners'[j] = runners[j]
      /\ runners'[i].kind = "start" /\ runners'[i].pc = "check"
  BY <1>1, AfterMove
<1>7. OneStop'
  <2>1. Pending({"stop"})' = {}
    BY <1>4, <1>6 DEF Pending
  <2> QED BY <2>1 DEF OneStop
<1>8. ~Settled'
  <2>1. \A j \in DOMAIN runners : Early(runners[j]) => j = i
    BY <1>2, <1>3 DEF OneStart, Pending, Early
  <2>2. \A j \in DOMAIN runners' : ~Early(runners'[j])
    BY <1>6, <2>1 DEF Early
  <2>3. reverts = 0
    BY <1>2, <1>3 DEF OneStart, Threads
  <2> QED BY <1>1, <1>3, <2>2, <2>3 DEF Settled, Unseen
<1>9. FileWhole'
  <2>1. ASSUME NEW p \in Process, life'[p] \in {"run", "drain"} PROVE FALSE
    <3>1. life[p] \in {"run", "drain"}
      BY <1>1, <2>1 DEF Processes
    <3>2. Alive(p)
      BY <3>1, NoneIsNoProcess DEF Alive
    <3> QED BY <1>1, <3>2 DEF Known
  <2> QED BY <1>1, <1>2, <2>1 DEF FileWhole
<1>10. AllKept'
  BY <1>1, <1>2 DEF AllKept, InFile, Past, InHistory
<1> QED BY <1>5, <1>7, <1>8, <1>9, <1>10 DEF Resting

(* A process that ends, as the operating system or a stop does it. *)
LEMMA EndsKeepLife ==
  ASSUME IInv, NEW p, NEW to \in {"drain", "exited"},
         to = "drain" => life[p] = "run",
         life' = [life EXCEPT ![p] = to]
  PROVE  LifeOnlyEnds
  BY DEF IInv, Processes, LifeOnlyEnds

LEMMA StopperKept ==
  ASSUME IInv, Kept, NEW i \in DOMAIN runners,
         AskStop(i) \/ WriteStop(i) \/ WaitExit(i) \/ ForceExit(i)
  PROVE  Kept'
<1> USE DEF IInv
<1> SUFFICES ASSUME ~rushed', ~overlap'
             PROVE  OneStop' /\ Resting' /\ FileWhole' /\ AllKept'
  BY DEF Kept
<1>1. /\ ~rushed /\ ~overlap /\ UNCHANGED <<button, proc, wrote, file, history, unarchived>>
      /\ runners[i].kind = "stop"
  BY DEF AskStop, WriteStop, WaitExit, ForceExit, At, winVars, stateVars,
         procVars, fileVars, userVars
<1>2. OneStop /\ Resting /\ FileWhole /\ AllKept
  BY <1>1 DEF Kept
<1>3. /\ i \in Pending({"stop"}) /\ ~button
      /\ \A j \in Pending({"stop"}) : j = i
      /\ runners[i].pc \in {"write", "wait"} => runners[i].proc = proc
  BY <1>1, <1>2 DEF Pending, OneStop
<1>4. PICK pc \in {"write", "wait", "archive"} :
        \/ Goto(i, pc) /\ ~AskStop(i)
        \/ GotoWith(i, pc, proc) /\ AskStop(i)
        \/ Goto(i, "archive") /\ ~Alive(proc) /\ pc = "archive" /\ AskStop(i)
  BY DEF AskStop, WriteStop, WaitExit, ForceExit
<1>5. /\ DOMAIN runners' = DOMAIN runners
      /\ \A j \in DOMAIN runners : j # i => runners'[j] = runners[j]
      /\ runners'[i].kind = "stop" /\ runners'[i].pc = pc
      /\ AskStop(i) => runners'[i].proc = proc \/ pc = "archive"
      /\ ~AskStop(i) => runners'[i].proc = runners[i].proc
  BY <1>1, <1>4, AfterMove
<1>6. Pending({"stop"})' = Pending({"stop"})
  BY <1>1, <1>5 DEF Pending
<1>7. LifeOnlyEnds
  <2>1. CASE UNCHANGED life
    BY <2>1 DEF LifeOnlyEnds
  <2>2. CASE ~UNCHANGED life
    <3>1. \E q : \/ life' = [life EXCEPT ![q] = IF @ = "run" THEN "drain" ELSE @]
                 \/ life' = [life EXCEPT ![q] = "exited"]
      BY <2>2 DEF AskStop, WriteStop, WaitExit, ForceExit, procVars, Exit
    <3> QED BY <3>1 DEF LifeOnlyEnds, Processes
  <2> QED BY <2>1, <2>2
<1>8. Alive(proc)' => Alive(proc)
  BY <1>1, <1>7 DEF Alive, LifeOnlyEnds, Engine
<1>9. OneStop'
  <2>1. pc \in {"write", "wait"} => runners'[i].proc = proc
    <3>1. CASE AskStop(i)
      BY <1>5, <3>1
    <3>2. CASE WriteStop(i)
      BY <1>3, <1>5, <3>2 DEF WriteStop, AskStop, At
    <3>3. CASE WaitExit(i) \/ ForceExit(i)
      BY <1>3, <1>5, <3>3 DEF WaitExit, ForceExit, AskStop, At
    <3> QED BY <3>1, <3>2, <3>3
  <2>2. pc = "archive" => ~Alive(proc)'
    <3>1. CASE AskStop(i)
      <4>1. pc = "archive" => ~Alive(proc)
        <5>1. ASSUME pc = "archive", Alive(proc) PROVE FALSE
          <6>1. GotoWith(i, "write", proc)
            BY <3>1, <5>1 DEF AskStop
          <6>2. runners'[i].pc = "write"
            BY <6>1, AfterMove
          <6> QED BY <1>5, <5>1, <6>2
        <5> QED BY <5>1
      <4> QED BY <1>8, <4>1
    <3>2. CASE WriteStop(i)
      <4>1. Goto(i, "wait")
        BY <3>2 DEF WriteStop
      <4>2. runners'[i].pc = "wait"
        BY <4>1, AfterMove
      <4> QED BY <1>5, <4>2
    <3>3. CASE WaitExit(i)
      BY <1>3, <1>8, <3>3 DEF WaitExit, At
    <3>4. CASE ForceExit(i)
      <4>1. runners[i].proc = proc /\ life' = [life EXCEPT ![proc] = "exited"]
        BY <1>3, <3>4 DEF ForceExit, At, Exit
      <4> QED BY <1>1, <4>1 DEF Alive, Processes, Engine
    <3> QED BY <3>1, <3>2, <3>3, <3>4
  <2> QED BY <1>1, <1>3, <1>5, <1>6, <2>1, <2>2 DEF OneStop
<1>10. ~Settled'
  BY <1>3, <1>6 DEF Settled
<1> QED BY <1>1, <1>2, <1>7, <1>9, <1>10, FrameKept

LEMMA ArchiveKept ==
  ASSUME IInv, Kept, NEW i \in DOMAIN runners, Archive(i)
  PROVE  Kept'
<1> USE DEF IInv
<1> SUFFICES ASSUME ~rushed', ~overlap'
             PROVE  OneStop' /\ Resting' /\ FileWhole' /\ AllKept'
  BY DEF Kept
<1>1. /\ ~rushed /\ ~overlap
      /\ UNCHANGED <<button, proc, life, wrote, file, reverts>>
      /\ runners[i].kind = "stop" /\ runners[i].pc = "archive" /\ Return(i)
  BY DEF Archive, At, winVars, stateVars, procVars, userVars
<1>2. OneStop /\ Resting /\ FileWhole /\ AllKept
  BY <1>1 DEF Kept
<1>3. /\ i \in Pending({"stop"}) /\ ~Alive(proc)
      /\ \A j \in Pending({"stop"}) : j = i
  BY <1>1, <1>2 DEF Pending, OneStop
<1>4. Pending({"stop"})' = {}
  BY <1>1, <1>3, AfterReturn DEF Pending
<1>5. \A e : InFile(e) \/ Past(e) => Past(e)'
  <2> DEFINE final == Whole(file) \ Candidates
  <2>1. \/ history' = history \cup ({final} \ {{}}) /\ UNCHANGED unarchived
        \/ unarchived' = unarchived \cup final /\ UNCHANGED history
    BY DEF Archive
  <2> HIDE DEF final
  <2>2. ASSUME NEW e, Past(e) PROVE Past(e)'
    BY <2>1, <2>2 DEF Past, InHistory
  <2>3. ASSUME NEW e, InFile(e) PROVE Past(e)'
    <3>1. e \in Candidates \/ e \in final
      BY <2>3 DEF InFile, final
    <3>2. CASE e \in final
      <4>1. final # {}
        BY <3>2
      <4> QED BY <2>1, <3>2, <4>1 DEF Past, InHistory
    <3> QED BY <3>1, <3>2 DEF Past
  <2> QED BY <2>2, <2>3
<1>6. Archived'
  BY <1>1, <1>2, <1>5 DEF AllKept, Archived
<1>7. OneStop' /\ ~Alive(proc)'
  BY <1>1, <1>3, <1>4 DEF OneStop, Alive
<1>8. AllKept'
  BY <1>6 DEF Archived, AllKept
<1>9. FileWhole'
  BY <1>1, <1>2 DEF FileWhole
<1> QED BY <1>6, <1>7, <1>8, <1>9 DEF Resting

-----------------------------------------------------------------------------
(* The session and its file *)

(* A whole file takes the next entry, or part of it, in a line of its own. *)
LEMMA WholeAppends ==
  ASSUME NEW f \in Seq(Seq(Item)), \A i \in DOMAIN f : Parses(f[i]), NEW e
  PROVE  AppendLine(f, e) = Append(f, <<e>>)
<1>1. CASE f = <<>>
  BY <1>1 DEF AppendLine, OpenEnded
<1>2. CASE f # <<>>
  <2>1. Len(f) \in DOMAIN f
    BY <1>2
  <2>2. Len(f[Len(f)]) = 1 /\ f[Len(f)][1] \notin Part
    BY <2>1 DEF Parses
  <2> QED BY <2>2 DEF AppendLine, OpenEnded
<1> QED BY <1>1, <1>2

(* What had a line still has it. *)
LEMMA AppendKeepsWhole ==
  ASSUME NEW f \in Seq(Seq(Item)), NEW x \in Item
  PROVE  /\ Append(f, <<x>>) \in Seq(Seq(Item))
         /\ Whole(f) \subseteq Whole(Append(f, <<x>>))
         /\ x \notin Part =>
              /\ x \in Whole(Append(f, <<x>>))
              /\ (\A i \in DOMAIN f : Parses(f[i]))
                   => \A i \in DOMAIN Append(f, <<x>>) :
                        Parses(Append(f, <<x>>)[i])
<1> DEFINE line == <<x>>
           g == Append(f, line)
           n == Len(f) + 1
<1>1. line \in Seq(Item) /\ Len(line) = 1 /\ line[1] = x
  OBVIOUS
<1> HIDE DEF line
<1>2. /\ g \in Seq(Seq(Item)) /\ DOMAIN g = DOMAIN f \cup {n} /\ g[n] = line
      /\ \A i \in DOMAIN f : g[i] = f[i]
  BY <1>1
<1> HIDE DEF g, n
<1>3. Whole(f) \subseteq Whole(g)
  BY <1>2 DEF Whole
<1>4. ASSUME x \notin Part PROVE x \in Whole(g) /\ Parses(g[n])
  <2>1. Parses(g[n])
    BY <1>1, <1>2, <1>4 DEF Parses
  <2> QED BY <1>1, <1>2, <2>1 DEF Whole
<1> QED BY <1>2, <1>3, <1>4 DEF g, line

(* The session that runs is alone, nothing is settled, none is starting. *)
LEMMA RunsAlone ==
  ASSUME IInv, Resting, NEW p \in Process, life[p] \in {"run", "drain"}
  PROVE  /\ p = proc /\ Alive(proc) /\ ~Settled
         /\ \A q \in Process : life[q] = "boot" => FALSE
         /\ \A q \in Process : life[q] \in {"run", "drain"} => q = p
<1>1. Alive(p)
  BY NoneIsNoProcess DEF Alive
<1>2. p = proc
  BY <1>1 DEF IInv, Known
<1>3. \A q \in Process : life[q] \in {"boot", "run", "drain"} => q = p
  BY <1>2, NoneIsNoProcess DEF IInv, Known, Alive
<1> QED BY <1>1, <1>2, <1>3 DEF Resting

LEMMA EntryKept ==
  ASSUME IInv, Kept, NEW p \in Process, WriteEntry(p)
  PROVE  Kept'
<1> USE DEF IInv
<1> SUFFICES ASSUME ~rushed', ~overlap'
             PROVE  OneStop' /\ Resting' /\ FileWhole' /\ AllKept'
  BY DEF Kept
<1> DEFINE e == <<p, wrote[p] + 1>>
<1>1. /\ ~rushed /\ ~overlap /\ life[p] \in {"run", "drain"}
      /\ UNCHANGED <<button, reverts, runners, proc, life, history, unarchived>>
      /\ wrote' = [wrote EXCEPT ![p] = @ + 1]
      /\ file' = AppendLine(file, e)
  BY DEF WriteEntry, winVars, stateVars, userVars
<1>2. OneStop /\ Resting /\ FileWhole /\ AllKept
  BY <1>1 DEF Kept
<1>3. e \in Item /\ e \notin Part
  BY PairIsNoPart DEF Item, Processes
<1>4. file' = Append(file, <<e>>)
  BY <1>1, <1>2, WholeAppends DEF FileWhole
<1> HIDE DEF e
<1>5. /\ file' \in Seq(Seq(Item)) /\ Whole(file) \subseteq Whole(file')
      /\ e \in Whole(file') /\ \A i \in DOMAIN file' : Parses(file'[i])
  BY <1>1, <1>2, <1>3, <1>4, AppendKeepsWhole DEF FileWhole
<1>6. OneStop' /\ (Settled' => Settled)
  BY <1>1, <1>2 DEF OneStop, Settled, Unseen, Pending, Alive
<1>7. Resting'
  BY <1>1, <1>2, <1>6, RunsAlone DEF Resting
<1>8. FileWhole'
  BY <1>5 DEF FileWhole
<1>9. AllKept'
  <2> SUFFICES ASSUME NEW q \in Process, NEW n \in 1..wrote'[q]
               PROVE  InFile(<<q, n>>)' \/ Past(<<q, n>>)'
    BY DEF AllKept
  <2>1. CASE q = p /\ n = wrote[p] + 1
    BY <1>5, <2>1 DEF InFile, e
  <2>2. CASE ~(q = p /\ n = wrote[p] + 1)
    <3>1. n \in 1..wrote[q]
      BY <1>1, <2>2 DEF Processes
    <3>2. InFile(<<q, n>>) \/ Past(<<q, n>>)
      BY <1>2, <3>1 DEF AllKept
    <3> QED BY <1>1, <1>5, <3>2 DEF InFile, Past, InHistory
  <2> QED BY <2>1, <2>2
<1> QED BY <1>6, <1>7, <1>8, <1>9

LEMMA BootKept ==
  ASSUME IInv, Kept, NEW p \in Process, Boot(p)
  PROVE  Kept'
<1> USE DEF IInv
<1> SUFFICES ASSUME ~rushed', ~overlap'
             PROVE  OneStop' /\ Resting' /\ FileWhole' /\ AllKept'
  BY DEF Kept
<1>1. /\ ~rushed /\ ~overlap /\ life[p] = "boot"
      /\ UNCHANGED <<button, reverts, runners, proc, wrote, history, unarchived>>
      /\ life' = [life EXCEPT ![p] = "run"] /\ file' = <<>>
  BY DEF Boot, Opened, winVars, stateVars, userVars
<1>2. OneStop /\ Resting /\ FileWhole /\ AllKept
  BY <1>1 DEF Kept
<1>3. Archived /\ Archived'
  BY <1>1, <1>2 DEF Resting, Archived, Past, InHistory
<1>4. Alive(p) /\ p = proc
  BY <1>1, NoneIsNoProcess DEF Alive, Known
<1>5. OneStop' /\ (Settled' => Settled)
  BY <1>1, <1>2, <1>4 DEF OneStop, Settled, Unseen, Pending
<1>6. Resting'
  BY <1>2, <1>3, <1>4, <1>5 DEF Resting
<1>7. FileWhole'
  BY <1>1 DEF FileWhole
<1>8. AllKept'
  BY <1>3 DEF Archived, AllKept
<1> QED BY <1>5, <1>6, <1>7, <1>8

LEMMA CrashKept ==
  ASSUME IInv, Kept, NEW p \in Process, Crash(p)
  PROVE  Kept'
<1> USE DEF IInv
<1> SUFFICES ASSUME ~rushed', ~overlap'
             PROVE  OneStop' /\ Resting' /\ FileWhole' /\ AllKept'
  BY DEF Kept
<1>1. /\ ~rushed /\ ~overlap
      /\ UNCHANGED <<button, reverts, runners, proc, wrote, history, unarchived>>
      /\ life' = [life EXCEPT ![p] = "exited"]
      /\ \/ UNCHANGED file
         \/ life[p] \in {"run", "drain"}
              /\ \E part \in Part : file' = AppendLine(file, part)
  BY DEF Crash, Exit, TearLine, winVars, stateVars, userVars
<1>2. OneStop /\ Resting /\ FileWhole /\ AllKept
  BY <1>1 DEF Kept
<1>3. LifeOnlyEnds
  BY <1>1, EndsKeepLife
<1>4. Alive(proc)' => Alive(proc)
  BY <1>1, <1>3 DEF Alive, LifeOnlyEnds, Engine
<1>5. OneStop' /\ (Settled' => Settled)
  BY <1>1, <1>2, <1>4 DEF OneStop, Settled, Unseen, Pending
<1>6. CASE UNCHANGED file
  BY <1>1, <1>2, <1>3, <1>5, <1>6, FrameKept
<1>7. ASSUME life[p] \in {"run", "drain"}, NEW part \in Part,
             file' = AppendLine(file, part)
      PROVE  OneStop' /\ Resting' /\ FileWhole' /\ AllKept'
  <2>1. file' = Append(file, <<part>>)
    BY <1>2, <1>7, WholeAppends DEF FileWhole
  <2>2. part \in Item
    BY <1>7 DEF Item
  <2>3. file' \in Seq(Seq(Item)) /\ Whole(file) \subseteq Whole(file')
    BY <1>2, <2>1, <2>2, AppendKeepsWhole DEF FileWhole
  <2>4. \A q \in Process : life'[q] \notin {"boot", "run", "drain"}
    BY <1>1, <1>2, <1>7, RunsAlone DEF Processes
  <2>5. FileWhole'
    BY <2>3, <2>4 DEF FileWhole
  <2>6. AllKept'
    BY <1>1, <1>2, <2>3 DEF AllKept, InFile, Past, InHistory
  <2>7. Resting'
    BY <1>1, <1>2, <1>5, <1>7, <2>4, RunsAlone DEF Resting
  <2> QED BY <1>5, <2>5, <2>6, <2>7
<1> QED BY <1>1, <1>6, <1>7

(* The other steps of a session, and the monitors: the file stays. *)
LEMMA OthersKept ==
  ASSUME IInv, Kept, LifeOnlyEnds,
         UNCHANGED <<winVars, runners, proc, wrote, fileVars, rushed, overlap>>
  PROVE  Kept'
<1> USE DEF IInv
<1> SUFFICES ASSUME ~rushed, ~overlap
             PROVE  OneStop' /\ Resting' /\ FileWhole' /\ AllKept'
  BY DEF Kept
<1>1. OneStop /\ Resting /\ FileWhole /\ AllKept
  BY DEF Kept
<1>2. Alive(proc)' => Alive(proc)
  BY DEF Alive, LifeOnlyEnds, Engine
<1>3. OneStop' /\ (Settled' => Settled)
  BY <1>1, <1>2 DEF OneStop, Settled, Unseen, Pending, winVars
<1> QED BY <1>1, <1>3, FrameKept DEF fileVars

LEMMA StepKept ==
  ASSUME IInv, Seen, Kept, [Next]_vars
  PROVE  Kept'
<1> USE DEF IInv
<1>1. CASE UNCHANGED vars
  <2>1. LifeOnlyEnds
    BY <1>1 DEF LifeOnlyEnds, vars, procVars
  <2> QED BY <1>1, <2>1, OthersKept DEF vars, stateVars, procVars, userVars
<1>2. ASSUME NEW p \in Process, Monitor(p) PROVE Kept'
  <2>1. /\ UNCHANGED <<winVars, runners, proc, wrote, fileVars, rushed, overlap>>
        /\ UNCHANGED life
    BY <1>2 DEF Monitor, HandleLine, MonitorEnds, procVars, userVars
  <2>2. LifeOnlyEnds
    BY <2>1 DEF LifeOnlyEnds
  <2> QED BY <2>1, <2>2, OthersKept
<1>3. ASSUME NEW p \in Process, Session(p) PROVE Kept'
  <2>1. CASE Report(p) \/ ReadCommand(p) \/ EndBySelf(p) \/ Finish(p)
    <3>1. UNCHANGED <<winVars, runners, proc, wrote, fileVars, rushed, overlap>>
      BY <2>1 DEF Report, ReadCommand, EndBySelf, Finish, stateVars, userVars,
                  fileVars
    <3>2. LifeOnlyEnds
      <4>1. CASE UNCHANGED life
        BY <4>1 DEF LifeOnlyEnds
      <4>2. CASE ~UNCHANGED life
        <5>1. \/ life[p] = "run" /\ life' = [life EXCEPT ![p] = "drain"]
              \/ life' = [life EXCEPT ![p] = "exited"]
          BY <2>1, <4>2 DEF Report, ReadCommand, EndBySelf, Finish, Exit
        <5> QED BY <5>1, EndsKeepLife
      <4> QED BY <4>1, <4>2
    <3> QED BY <3>1, <3>2, OthersKept
  <2> QED BY <1>3, <2>1, BootKept, EntryKept, CrashKept DEF Session
<1>4. ASSUME NEW i \in DOMAIN runners, RunnerStep(i) PROVE Kept'
  BY <1>4, StarterKept, SpawnKept, StopperKept, ArchiveKept DEF RunnerStep
<1> QED BY <1>1, <1>2, <1>3, <1>4, WindowKept DEF Next

LEMMA InitKept == Init => Kept
<1> SUFFICES ASSUME Init PROVE OneStop /\ Resting /\ FileWhole /\ AllKept
  BY DEF Kept
<1>1. Archived /\ AllKept
  BY DEF Init, Archived, AllKept
<1> QED BY <1>1 DEF Init, OneStop, Resting, FileWhole, Pending, Alive

(* Every final entry a session wrote keeps its line in the file until an    *)
(* archive of it was tried, however the session ends, and even if it dies   *)
(* inside a line: no start empties the file before (qt_client.py:1670,     *)
(* logging.py:443).  It is in the history unless that archive failed.      *)
THEOREM TranscriptsAreKept == Spec => []TranscriptKept
<1>1. Kept => TranscriptKept
  BY DEF Kept, AllKept, TranscriptKept, Past
<1> QED BY <1>1, InitEstablishes, StepKeeps, InitSeen, StepSeen, InitKept,
           StepKept, PTL DEF Spec

-----------------------------------------------------------------------------
(* Mute.  Unless mute clicks cross, at most one is pending and it says what  *)
(* the window shows; a session that runs while the window says muted is      *)
(* muted, or will be told so by a runner that has not got there yet.        *)

Command == {"", "on", "off", "stop"}
Commands == stdin \in [Process -> Seq(Command)] /\ pmuted \in [Process -> BOOLEAN]

OneMute ==
  /\ \A i, j \in Pending({"mute"}) : i = j
  /\ \A i \in Pending({"mute"}) : muted <=> (runners[i].say = "on")

Mutes(r) == r.kind = "mute" \/ (r.kind = "start" /\ r.pc \in {"check", "mute"})
WillMute == \E i \in DOMAIN runners : Mutes(runners[i])
Muting == muted /\ button /\ Alive(proc) => MuteOf(proc) \/ WillMute

(* A session that runs while the window says unmuted is not muted, or will   *)
(* be told so; no start that has not seen the unmute is about to mute it,   *)
(* and a process that has not begun was told nothing.                       *)
Unmuting == ~muted /\ button /\ Alive(proc) => ~MuteOf(proc) \/ Pending({"mute"}) # {}
InTime == ~muted => \A i \in DOMAIN runners : runners[i].pc # "mute"
Untold == \A p \in Process : ~Alive(p) => stdin[p] = <<>> /\ pmuted[p] = FALSE

Muted == /\ Commands /\ Untold
         /\ ~crossed => OneMute
         /\ ~late => InTime
         /\ ~crossed /\ ~rushed /\ ~overlap => Muting
         /\ ~crossed /\ ~rushed /\ ~overlap /\ ~late => Unmuting

(* MuteOf, of what was read and what is still in the pipe. *)
Told(s, m) == \E i \in 0..Len(s) : /\ \A j \in i + 1..Len(s) : s[j] = "stop"
                                   /\ IF i = 0 THEN m ELSE s[i] = "on"

LEMMA MuteOfTold ==
  ASSUME NEW p \in Process
  PROVE  MuteOf(p) <=> Told(stdin[p], pmuted[p])
  BY DEF MuteOf, Told

LEMMA LastCommand ==
  ASSUME NEW s \in Seq(Command), NEW c \in Command
  PROVE  /\ Append(s, c) \in Seq(Command)
         /\ Len(s) \in Nat /\ Len(Append(s, c)) = Len(s) + 1
         /\ Append(s, c)[Len(s) + 1] = c
  OBVIOUS

(* A command to mute is the last word. *)
LEMMA ToldMute ==
  ASSUME NEW s \in Seq(Command), NEW m
  PROVE  Told(Append(s, "on"), m)
<1> DEFINE n == Len(s) + 1
           g == Append(s, "on")
<1>1. n \in Nat /\ n # 0 /\ Len(g) = n /\ g[n] = "on"
  <2>1. "on" \in Command
    BY DEF Command
  <2> QED BY <2>1, LastCommand
<1> HIDE DEF n, g
<1> QED BY <1>1 DEF Told, g

(* A command to unmute is, too. *)
LEMMA ToldUnmute ==
  ASSUME NEW s \in Seq(Command), NEW m, NEW c \in Command, c \notin {"on", "stop"}
  PROVE  ~Told(Append(s, c), m)
<1> DEFINE n == Len(s) + 1
           g == Append(s, c)
<1>1. n \in Nat /\ n # 0 /\ Len(g) = n /\ g[n] = c
  BY LastCommand
<1> HIDE DEF n, g
<1>2. ASSUME NEW i \in 0..n, \A j \in i + 1..n : g[j] = "stop",
             IF i = 0 THEN m ELSE g[i] = "on"
      PROVE  FALSE
  <2>1. CASE i = n
    BY <1>1, <1>2, <2>1
  <2>2. CASE i # n
    <3>1. n \in i + 1..n
      BY <1>1, <2>2
    <3> QED BY <1>1, <1>2, <3>1
  <2> QED BY <2>1, <2>2
<1> QED BY <1>1, <1>2 DEF Told, g

(* A command that is read is not forgotten. *)
LEMMA ToldRead ==
  ASSUME NEW s \in Seq(Command), s # <<>>, NEW m, Told(s, m)
  PROVE  Told(Tail(s), IF Head(s) = "stop" THEN m ELSE Head(s) = "on")
<1> DEFINE t == Tail(s)
<1>1. /\ Len(s) \in Nat \ {0} /\ Len(t) = Len(s) - 1 /\ Head(s) = s[1]
      /\ \A j \in 1..(Len(s) - 1) : t[j] = s[j + 1]
  OBVIOUS
<1> HIDE DEF t
<1>2. PICK i \in 0..Len(s) : /\ \A j \in i + 1..Len(s) : s[j] = "stop"
                             /\ IF i = 0 THEN m ELSE s[i] = "on"
  BY DEF Told
<1>3. CASE i <= 1
  <2>1. \A j \in 0 + 1..Len(t) : t[j] = "stop"
    BY <1>1, <1>2, <1>3
  <2>2. IF Head(s) = "stop" THEN m ELSE Head(s) = "on"
    BY <1>1, <1>2, <1>3
  <2>3. 0 \in 0..Len(t)
    BY <1>1
  <2> QED BY <2>1, <2>2, <2>3 DEF Told, t
<1>4. CASE i > 1
  <2>1. i - 1 \in 0..Len(t) /\ i - 1 # 0 /\ t[i - 1] = "on"
    BY <1>1, <1>2, <1>4
  <2>2. \A j \in (i - 1) + 1..Len(t) : t[j] = "stop"
    BY <1>1, <1>2, <1>4
  <2> QED BY <2>1, <2>2 DEF Told, t
<1> QED BY <1>2, <1>3, <1>4

(* And reading one is not to be told another. *)
LEMMA ToldBefore ==
  ASSUME NEW s \in Seq(Command), s # <<>>, NEW m,
         Told(Tail(s), IF Head(s) = "stop" THEN m ELSE Head(s) = "on")
  PROVE  Told(s, m)
<1> DEFINE t == Tail(s)
<1>1. /\ Len(s) \in Nat \ {0} /\ Len(t) = Len(s) - 1 /\ Head(s) = s[1]
      /\ \A j \in 1..(Len(s) - 1) : t[j] = s[j + 1]
  OBVIOUS
<1> HIDE DEF t
<1>2. PICK i \in 0..Len(t) :
        /\ \A j \in i + 1..Len(t) : t[j] = "stop"
        /\ IF i = 0 THEN IF Head(s) = "stop" THEN m ELSE Head(s) = "on"
                    ELSE t[i] = "on"
  BY DEF Told, t
<1>3. \A j \in i + 2..Len(s) : s[j] = "stop"
  <2> SUFFICES ASSUME NEW j \in i + 2..Len(s) PROVE s[j] = "stop"
    OBVIOUS
  <2>1. j - 1 \in i + 1..Len(t) /\ t[j - 1] = s[j]
    BY <1>1, <1>2
  <2> QED BY <1>2, <2>1
<1>4. CASE i > 0
  <2>1. i + 1 \in 0..Len(s) /\ i + 1 # 0 /\ s[i + 1] = "on"
    BY <1>1, <1>2, <1>4
  <2>2. \A j \in (i + 1) + 1..Len(s) : s[j] = "stop"
    BY <1>2, <1>3
  <2> QED BY <2>1, <2>2 DEF Told
<1>5. CASE i = 0 /\ Head(s) = "stop"
  <2>1. m /\ 0 \in 0..Len(s)
    BY <1>1, <1>2, <1>5
  <2>2. \A j \in 0 + 1..Len(s) : s[j] = "stop"
    BY <1>1, <1>3, <1>5
  <2> QED BY <2>1, <2>2 DEF Told
<1>6. CASE i = 0 /\ Head(s) # "stop"
  <2>1. 1 \in 0..Len(s) /\ s[1] = "on"
    BY <1>1, <1>2, <1>6
  <2>2. \A j \in 1 + 1..Len(s) : s[j] = "stop"
    BY <1>3, <1>6
  <2> QED BY <2>1, <2>2 DEF Told
<1> QED BY <1>2, <1>4, <1>5, <1>6

-----------------------------------------------------------------------------
(* A function of which one value is replaced. *)
LEMMA Replaced ==
  ASSUME NEW D, NEW S, NEW f \in [D -> S], NEW p, NEW v, p \in D => v \in S
  PROVE  [f EXCEPT ![p] = v] \in [D -> S]
  OBVIOUS

(* The commands are commands. *)
LEMMA CommandsKept ==
  ASSUME IInv, Commands, [Next]_vars
  PROVE  Commands'
<1> USE DEF IInv
<1>1. CASE UNCHANGED <<stdin, pmuted>>
  BY <1>1 DEF Commands
<1>2. ASSUME NEW p, stdin' = [stdin EXCEPT ![p] = <<>>],
             pmuted' = pmuted \/ pmuted' = [pmuted EXCEPT ![p] = FALSE]
      PROVE  Commands'
  <2>1. stdin' \in [Process -> Seq(Command)]
    <3>1. stdin \in [Process -> Seq(Command)] /\ <<>> \in Seq(Command)
      BY DEF Commands
    <3>2. stdin' = [stdin EXCEPT ![p] = <<>>]
      BY <1>2
    <3> QED BY <3>1, <3>2, Replaced
  <2>2. pmuted' \in [Process -> BOOLEAN]
    BY <1>2, Zenon DEF Commands
  <2> QED BY <2>1, <2>2 DEF Commands
<1>3. ASSUME NEW p, NEW c \in Command,
             stdin' = [stdin EXCEPT ![p] = Append(@, c)], UNCHANGED pmuted
      PROVE  Commands'
  <2>1. stdin' \in [Process -> Seq(Command)]
    <3>1. stdin \in [Process -> Seq(Command)]
      BY DEF Commands
    <3>2. p \in Process => Append(stdin[p], c) \in Seq(Command)
      BY <3>1
    <3>3. stdin' = [stdin EXCEPT ![p] = Append(stdin[p], c)]
      BY <1>3
    <3> QED BY <3>1, <3>2, <3>3, Replaced
  <2>2. pmuted' \in [Process -> BOOLEAN]
    BY <1>3, Zenon DEF Commands
  <2> QED BY <2>1, <2>2 DEF Commands
<1>4. ASSUME NEW i \in DOMAIN runners, RunnerStep(i) PROVE Commands'
  <2>1. CASE ApplyMute(i)
    <3>1. runners[i].say \in Command
      <4>1. runners[i] \in RunnerRecord
        BY DEF Threads
      <4> QED BY <4>1 DEF RunnerRecord, Command
    <3>2. PICK c \in Command : SetMute(c) /\ UNCHANGED pmuted
      BY <2>1, <3>1 DEF ApplyMute, Command
    <3> QED BY <1>1, <1>3, <3>2 DEF SetMute
  <2>2. CASE WriteStop(i)
    <3>1. "stop" \in Command
      BY DEF Command
    <3> QED BY <1>1, <1>2, <1>3, <2>2, <3>1 DEF WriteStop, Exit
  <2>3. CASE ForceExit(i)
    BY <1>2, <2>3 DEF ForceExit, Exit
  <2>4. CASE ~(ApplyMute(i) \/ WriteStop(i) \/ ForceExit(i))
    BY <1>1, <1>4, <2>4
       DEF RunnerStep, AwaitStop, PollExit, StartFails, Spawn, CheckMuted,
           AskStop, WaitExit, Archive, procVars
  <2> QED BY <2>1, <2>2, <2>3, <2>4
<1>5. ASSUME NEW p \in Process, Session(p) PROVE Commands'
  <2>1. CASE ReadCommand(p)
    <3>1. stdin' = [stdin EXCEPT ![p] = Tail(@)] /\ stdin[p] # <<>>
      BY <2>1 DEF ReadCommand
    <3>2. \/ UNCHANGED pmuted
          \/ pmuted' = [pmuted EXCEPT ![p] = (Head(stdin[p]) = "on")]
      BY <2>1 DEF ReadCommand
    <3>3. stdin' \in [Process -> Seq(Command)]
      BY <3>1 DEF Commands
    <3>4. pmuted' \in [Process -> BOOLEAN]
      BY <3>2, Zenon DEF Commands
    <3> QED BY <3>3, <3>4 DEF Commands
  <2>2. CASE Finish(p) \/ Crash(p)
    BY <1>2, <2>2 DEF Finish, Crash, Exit
  <2>3. CASE ~(ReadCommand(p) \/ Finish(p) \/ Crash(p))
    BY <1>1, <1>5, <2>3 DEF Session, Boot, Report, WriteEntry, EndBySelf
  <2> QED BY <2>1, <2>2, <2>3
<1>6. CASE ToggleRecord \/ ToggleMute \/ OnError \/ \E k \in Kinds : CheckNotice(k)
  BY <1>1, <1>6 DEF ToggleRecord, ToggleMute, OnError, CheckNotice, procVars
<1>7. ASSUME NEW p \in Process, Monitor(p) PROVE Commands'
  BY <1>1, <1>7 DEF Monitor, HandleLine, MonitorEnds, procVars
<1> QED BY <1>1, <1>4, <1>5, <1>6, <1>7 DEF Next, vars, procVars

(* What the clicks have been once, they have been. *)
LEMMA FlagsStay ==
  ASSUME [Next]_vars
  PROVE  /\ ~rushed' => ~rushed
         /\ ~overlap' => ~overlap
         /\ ~crossed' => ~crossed
         /\ ~late' => ~late
<1>1. CASE UNCHANGED <<rushed, overlap, crossed, late>>
  BY <1>1
<1>2. CASE ToggleRecord
  BY <1>2 DEF ToggleRecord
<1>3. CASE ToggleMute
  BY <1>3 DEF ToggleMute
<1>4. ASSUME NEW k \in Kinds, CheckNotice(k)
      PROVE  /\ ~rushed' => ~rushed
             /\ UNCHANGED <<overlap, crossed, late>>
  BY <1>4 DEF CheckNotice
<1>5. ASSUME NEW i \in DOMAIN runners, RunnerStep(i)
      PROVE  UNCHANGED <<rushed, overlap, crossed, late>>
  BY <1>5 DEF RunnerStep, AwaitStop, PollExit, StartFails, Spawn, CheckMuted,
              ApplyMute, AskStop, WriteStop, WaitExit, ForceExit, Archive,
              userVars
<1>6. ASSUME NEW p \in Process, Monitor(p) \/ Session(p)
      PROVE  UNCHANGED <<rushed, overlap, crossed, late>>
  BY <1>6 DEF Monitor, HandleLine, MonitorEnds, Session, Boot, Report,
              ReadCommand, WriteEntry, EndBySelf, Finish, Crash, userVars
<1>7. CASE OnError \/ UNCHANGED vars
  BY <1>1, <1>7 DEF OnError, vars, userVars
<1> QED BY <1>1, <1>2, <1>3, <1>4, <1>5, <1>6, <1>7 DEF Next

(* At most one click on mute is pending, and says what the window shows. *)
LEMMA OneMuteKept ==
  ASSUME IInv, Muted, [Next]_vars, ~crossed'
  PROVE  OneMute' /\ ~crossed
<1> USE DEF IInv
<1>1. ~crossed /\ OneMute
  <2>1. ~crossed
    BY FlagsStay
  <2> QED BY <2>1 DEF Muted
<1>2. CASE UNCHANGED <<runners, muted>>
  BY <1>1, <1>2 DEF OneMute, Pending
<1>3. ASSUME NEW r, r.kind # "mute", runners' = Append(runners, r), UNCHANGED muted
      PROVE  OneMute'
  <2>1. /\ Pending({"mute"})' = Pending({"mute"})
        /\ \A j \in Pending({"mute"}) : runners'[j] = runners[j]
    BY <1>3, AfterAppend DEF Pending
  <2> QED BY <1>1, <1>3, <2>1 DEF OneMute
<1>4. CASE ToggleRecord
  <2>1. Runner("start", "await", "").kind # "mute" /\ Runner("stop", "ask", "").kind # "mute"
    BY DEF Runner
  <2> QED BY <1>3, <1>4, <2>1 DEF ToggleRecord, StartLive, StopLive
<1>5. ASSUME NEW k \in Kinds, CheckNotice(k) PROVE OneMute'
  <2>1. Runner("stop", "ask", "").kind # "mute"
    BY DEF Runner
  <2> QED BY <1>2, <1>3, <1>5, <2>1 DEF CheckNotice, StopLive
<1>6. CASE ToggleMute
  <2>1. Pending({"mute"}) = {}
    BY <1>6 DEF ToggleMute
  <2>2. muted' = ~muted
    BY <1>6 DEF ToggleMute
  <2>3. CASE button
    <3> DEFINE say == IF muted THEN "off" ELSE "on"
               r == Runner("mute", "set", say)
    <3>1. runners' = Append(runners, r)
      BY <1>6, <2>3, Zenon DEF ToggleMute
    <3>2. r.kind = "mute" /\ (muted' <=> (r.say = "on"))
      BY <2>2 DEF Runner, Threads
    <3> HIDE DEF r
    <3>3. /\ Pending({"mute"})' = {Len(runners) + 1}
          /\ runners'[Len(runners) + 1] = r
      BY <2>1, <3>1, <3>2, AfterAppend DEF Pending
    <3>4. \A j \in Pending({"mute"})' : j = Len(runners) + 1 /\ runners'[j] = r
      BY <3>3
    <3>5. \A i, j \in Pending({"mute"})' : i = j
      BY <3>4
    <3>6. \A i \in Pending({"mute"})' : muted' <=> (runners'[i].say = "on")
      BY <3>2, <3>4, Zenon
    <3> QED BY <1>1, <3>5, <3>6 DEF OneMute
  <2>4. CASE ~button
    <3>1. Pending({"mute"})' = {}
      BY <1>6, <2>1, <2>4 DEF ToggleMute, Pending
    <3>2. \A i \in Pending({"mute"})' : FALSE
      BY <3>1
    <3>3. \A i \in Pending({"mute"})' : muted' <=> (runners'[i].say = "on")
      BY <3>2, Zenon
    <3> QED BY <1>1, <3>2, <3>3 DEF OneMute
  <2> QED BY <2>3, <2>4
<1>7. ASSUME NEW i \in DOMAIN runners, RunnerStep(i) PROVE OneMute'
  <2>1. UNCHANGED muted
    BY <1>7 DEF RunnerStep, AwaitStop, PollExit, StartFails, Spawn, CheckMuted,
                ApplyMute, AskStop, WriteStop, WaitExit, ForceExit, Archive,
                winVars
  <2>2. PICK pc, p : Return(i) \/ Goto(i, pc) \/ GotoWith(i, pc, p)
    BY <1>7 DEF RunnerStep, AwaitStop, PollExit, StartFails, Spawn, CheckMuted,
                ApplyMute, AskStop, WriteStop, WaitExit, ForceExit, Archive
  <2>3. CASE Return(i)
    <3>1. /\ \A k \in Pending({"mute"})' :
               /\ Place(k, i) \in Pending({"mute"})
               /\ runners'[k] = runners[Place(k, i)]
          /\ \A k, l \in Pending({"mute"})' : Place(k, i) = Place(l, i) => k = l
      BY <2>3, AfterReturn DEF Pending
    <3> QED BY <1>1, <2>1, <3>1 DEF OneMute
  <2>4. CASE ~Return(i)
    <3>1. /\ DOMAIN runners' = DOMAIN runners
          /\ \A j \in DOMAIN runners : /\ runners'[j].kind = runners[j].kind
                                       /\ runners'[j].say = runners[j].say
      BY <2>2, <2>4, AfterMove
    <3>2. /\ Pending({"mute"})' = Pending({"mute"})
          /\ \A j \in Pending({"mute"}) : runners'[j].say = runners[j].say
      BY <3>1 DEF Pending
    <3> QED BY <1>1, <2>1, <3>2 DEF OneMute
  <2> QED BY <2>3, <2>4
<1>8. CASE OnError
  BY <1>2, <1>8 DEF OnError
<1>9. ASSUME NEW p \in Process, Monitor(p) \/ Session(p) PROVE OneMute'
  BY <1>2, <1>9 DEF Monitor, HandleLine, MonitorEnds, Session, Boot, Report,
                    ReadCommand, WriteEntry, EndBySelf, Finish, Crash, winVars
<1>10. CASE UNCHANGED vars
  BY <1>2, <1>10 DEF vars, winVars
<1> QED BY <1>1, <1>4, <1>5, <1>6, <1>7, <1>8, <1>9, <1>10 DEF Next

(* A session does not change what it was told, whatever it does. *)
LEMMA SessionTells ==
  ASSUME IInv, Commands, NEW p \in Process, Session(p), Alive(proc)'
  PROVE  /\ UNCHANGED <<muted, button, runners, proc>> /\ Alive(proc)
         /\ MuteOf(proc) => MuteOf(proc)'
         /\ MuteOf(proc)' => MuteOf(proc)
<1> USE DEF IInv
<1>1. UNCHANGED <<muted, button, runners, proc>>
  BY DEF Session, Boot, Report, ReadCommand, WriteEntry, EndBySelf,
         Finish, Crash, winVars, stateVars
<1>2. proc \in Process
  BY <1>1 DEF Alive, Engine
<1>3. Alive(proc)
  <2>1. \A q \in Process : Alive(q)' => Alive(q)
    BY SessionEndsOnly
  <2> QED BY <1>1, <1>2, <2>1 DEF Alive
<1>4. CASE stdin'[proc] = stdin[proc] /\ pmuted'[proc] = pmuted[proc]
  BY <1>1, <1>3, <1>4 DEF MuteOf
<1>5. CASE Finish(p) \/ Crash(p)
  <2>1. life' = [life EXCEPT ![p] = "exited"]
    BY <1>5 DEF Finish, Crash, Exit
  <2>2. p # proc
    BY <1>1, <1>2, <2>1 DEF Alive, Processes
  <2>3. stdin'[proc] = stdin[proc] /\ pmuted'[proc] = pmuted[proc]
    BY <1>2, <1>5, <2>2 DEF Finish, Crash, Exit, Commands
  <2> QED BY <1>4, <2>3
<1>6. CASE ReadCommand(p) /\ p = proc
  <2> DEFINE s == stdin[proc]
             m == IF Head(s) = "stop" THEN pmuted[proc] ELSE Head(s) = "on"
  <2>1. s \in Seq(Command) /\ s # <<>>
    BY <1>2, <1>6 DEF ReadCommand, Commands
  <2>2. Told(Tail(s), m) <=> Told(s, pmuted[proc])
    BY <2>1, ToldRead, ToldBefore
  <2>3. stdin'[proc] = Tail(s)
    BY <1>2, <1>6 DEF ReadCommand, Commands
  <2>4. CASE Head(s) = "stop"
    <3>1. pmuted' = pmuted
      BY <1>6, <2>4 DEF ReadCommand
    <3>2. Told(stdin'[proc], pmuted'[proc]) <=> Told(s, pmuted[proc])
      BY <2>2, <2>3, <2>4, <3>1
    <3> QED BY <1>1, <1>3, <3>2 DEF MuteOf, Told
  <2>5. CASE Head(s) # "stop"
    <3>1. pmuted' = [pmuted EXCEPT ![proc] = (Head(s) = "on")]
      BY <1>6, <2>5 DEF ReadCommand
    <3>2. pmuted'[proc] = (Head(s) = "on")
      BY <1>2, <3>1 DEF Commands
    <3>3. Told(stdin'[proc], pmuted'[proc]) <=> Told(s, pmuted[proc])
      BY <2>2, <2>3, <2>5, <3>2
    <3> QED BY <1>1, <1>3, <3>3 DEF MuteOf, Told
  <2> QED BY <2>4, <2>5
<1>7. CASE ReadCommand(p) /\ p # proc
  <2>1. stdin'[proc] = stdin[proc] /\ pmuted'[proc] = pmuted[proc]
    BY <1>2, <1>7 DEF ReadCommand, Commands
  <2> QED BY <1>4, <2>1
<1>8. CASE ~(ReadCommand(p) \/ Finish(p) \/ Crash(p))
  <2>1. UNCHANGED <<stdin, pmuted>>
    BY <1>8 DEF Session, Boot, Report, WriteEntry, EndBySelf
  <2> QED BY <1>4, <2>1
<1> QED BY <1>5, <1>6, <1>7, <1>8

(* What a runner says is in the pipe of the session that runs. *)
LEMMA MutingStep ==
  ASSUME IInv, Seen, Kept, Muted, [Next]_vars,
         ~crossed', ~rushed', ~overlap', muted', button', Alive(proc)'
  PROVE  MuteOf(proc)' \/ WillMute'
<1> USE DEF IInv
<1>1. /\ OneMute /\ Commands /\ OneStart /\ OneStop /\ Resting /\ Muting
      /\ ~rushed /\ ~overlap /\ ~crossed
  <2>1. ~crossed /\ ~rushed /\ ~overlap
    BY FlagsStay
  <2> QED BY <2>1 DEF Muted, Seen, Kept
<1>2. CASE UNCHANGED <<winVars, runners, proc, life, stdin, pmuted>>
  BY <1>1, <1>2 DEF Muting, WillMute, MuteOf, Alive, winVars
<1>3. CASE ToggleRecord
  <2>1. ~button /\ UNCHANGED <<proc, life>> /\ Pending({"stop"}) = {}
    BY <1>3 DEF ToggleRecord, stateVars, procVars
  <2>2. ~Alive(proc)
    BY <1>1, <2>1 DEF Resting, Settled, Unseen
  <2> QED BY <2>1, <2>2 DEF Alive
<1>4. CASE ToggleMute
  <2> DEFINE r == Runner("mute", "set", IF muted THEN "off" ELSE "on")
  <2>1. button
    BY <1>4 DEF ToggleMute
  <2>2. runners' = Append(runners, r)
    BY <1>4, <2>1, Zenon DEF ToggleMute
  <2>3. Mutes(r)
    BY DEF Mutes, Runner
  <2> HIDE DEF r
  <2>4. Len(runners) + 1 \in DOMAIN runners' /\ runners'[Len(runners) + 1] = r
    BY <2>2, AfterAppend
  <2> QED BY <2>3, <2>4 DEF WillMute
<1>5. ASSUME NEW k \in Kinds, CheckNotice(k) PROVE MuteOf(proc)' \/ WillMute'
  <2>1. UNCHANGED <<button, runners>>
    <3>1. CASE button
      BY <1>5, <3>1 DEF CheckNotice
    <3>2. CASE ~button
      BY <1>5, <3>2, Zenon DEF CheckNotice
    <3> QED BY <3>1, <3>2
  <2> QED BY <1>2, <1>1, <1>5, <2>1
          DEF CheckNotice, Muting, WillMute, MuteOf, Alive, stateVars, procVars
<1>6. CASE OnError
  BY <1>6 DEF OnError
<1>7. ASSUME NEW i \in DOMAIN runners, runners[i].kind = "stop", button' = button
      PROVE  FALSE
  <2>1. i \in Pending({"stop"})
    BY <1>7 DEF Pending
  <2> QED BY <1>1, <1>7, <2>1 DEF OneStop
<1>8. ASSUME NEW i \in DOMAIN runners,
             AskStop(i) \/ WriteStop(i) \/ WaitExit(i) \/ ForceExit(i) \/ Archive(i)
      PROVE  FALSE
  BY <1>7, <1>8 DEF AskStop, WriteStop, WaitExit, ForceExit, Archive, At, winVars
<1>9. ASSUME NEW i \in DOMAIN runners, Spawn(i) PROVE WillMute'
  <2>1. Goto(i, "check") /\ runners[i].kind = "start"
    BY <1>9 DEF Spawn, At
  <2>2. i \in DOMAIN runners' /\ runners'[i].kind = "start" /\ runners'[i].pc = "check"
    BY <2>1, AfterMove
  <2> QED BY <2>2 DEF WillMute, Mutes
<1>10. ASSUME NEW i \in DOMAIN runners, CheckMuted(i) PROVE WillMute'
  <2>1. muted
    BY <1>10 DEF CheckMuted, winVars
  <2>2. Goto(i, "mute") /\ runners[i].kind = "start"
    BY <1>10, <2>1 DEF CheckMuted, At
  <2>3. i \in DOMAIN runners' /\ runners'[i].kind = "start" /\ runners'[i].pc = "mute"
    BY <2>2, AfterMove
  <2> QED BY <2>3 DEF WillMute, Mutes
<1>11. ASSUME NEW i \in DOMAIN runners, AwaitStop(i) \/ PollExit(i) \/ StartFails(i)
       PROVE  MuteOf(proc)' \/ WillMute'
  <2>1. /\ UNCHANGED <<muted, button, proc, life, stdin, pmuted>>
        /\ ~Mutes(runners[i])
        /\ \E pc, p : Return(i) \/ Goto(i, pc) \/ GotoWith(i, pc, p)
    BY <1>11 DEF AwaitStop, PollExit, StartFails, At, Mutes, winVars, stateVars,
                 procVars
  <2>2. MuteOf(proc) \/ WillMute
    BY <1>1, <2>1 DEF Muting, Alive
  <2>3. CASE MuteOf(proc)
    BY <2>1, <2>3 DEF MuteOf
  <2>4. CASE WillMute
    <3>1. PICK j \in DOMAIN runners : Mutes(runners[j]) /\ j # i
      BY <2>1, <2>4 DEF WillMute
    <3>2. \E l \in DOMAIN runners' : Mutes(runners'[l])
      BY <2>1, <3>1, AfterReturn, AfterMove
    <3> QED BY <3>2 DEF WillMute
  <2> QED BY <2>2, <2>3, <2>4
<1>12. ASSUME NEW i \in DOMAIN runners, ApplyMute(i) PROVE MuteOf(proc)'
  <2>1. UNCHANGED <<muted, button, proc, life, pmuted>>
    BY <1>12 DEF ApplyMute, winVars, stateVars
  <2>2. SetMute("on")
    <3>1. CASE At(i, "mute", "set")
      <4>1. i \in Pending({"mute"})
        BY <3>1 DEF At, Pending
      <4>2. runners[i].say = "on"
        BY <1>1, <2>1, <4>1, Zenon DEF OneMute
      <4> QED BY <1>12, <3>1, <4>2 DEF ApplyMute, At
    <3>2. CASE ~At(i, "mute", "set")
      BY <1>12, <3>2 DEF ApplyMute
    <3> QED BY <3>1, <3>2
  <2>3. Alive(proc) /\ proc \in Process
    BY <2>1 DEF Alive, Engine
  <2>4. stdin'[proc] = Append(stdin[proc], "on") /\ stdin[proc] \in Seq(Command)
    BY <1>1, <2>2, <2>3 DEF SetMute, Commands
  <2>5. Told(stdin'[proc], pmuted[proc])
    BY <2>4, ToldMute
  <2> QED BY <2>1, <2>5 DEF MuteOf, Told
<1>13. ASSUME NEW p \in Process, Session(p) PROVE MuteOf(proc)' \/ WillMute'
  <2>1. /\ UNCHANGED <<muted, button, runners, proc>> /\ Alive(proc)
        /\ MuteOf(proc) => MuteOf(proc)'
    BY <1>1, <1>13, SessionTells
  <2>2. MuteOf(proc) \/ WillMute
    BY <1>1, <2>1 DEF Muting
  <2> QED BY <2>1, <2>2 DEF WillMute
<1>14. ASSUME NEW p \in Process, Monitor(p) PROVE MuteOf(proc)' \/ WillMute'
  BY <1>2, <1>14 DEF Monitor, HandleLine, MonitorEnds, procVars
<1>15. CASE UNCHANGED vars
  BY <1>2, <1>15 DEF vars, stateVars, procVars
<1>16. ASSUME NEW i \in DOMAIN runners, RunnerStep(i)
       PROVE  MuteOf(proc)' \/ WillMute'
  BY <1>8, <1>9, <1>10, <1>11, <1>12, <1>16 DEF RunnerStep
<1> QED BY <1>3, <1>4, <1>5, <1>6, <1>13, <1>14, <1>15, <1>16 DEF Next

(* Nobody tells a process anything before it begins or after it ended. *)
LEMMA UntoldKept ==
  ASSUME IInv, Commands, Untold, [Next]_vars
  PROVE  Untold'
<1> USE DEF IInv
<1>1. CASE UNCHANGED <<life, stdin, pmuted>>
  BY <1>1 DEF Untold, Alive
<1>2. ASSUME NEW p \in Process, Exit(p) PROVE Untold'
  BY <1>2 DEF Untold, Alive, Exit, Processes, Commands
<1>3. ASSUME NEW p \in Process, Alive(p), UNCHANGED life,
             \A q \in Process : q # p => stdin'[q] = stdin[q] /\ pmuted'[q] = pmuted[q]
      PROVE  Untold'
  BY <1>3 DEF Untold, Alive
<1>4. ASSUME NEW p, NEW to \in {"boot", "run", "drain"},
             life' = [life EXCEPT ![p] = to], UNCHANGED <<stdin, pmuted>>
      PROVE  Untold'
  BY <1>4 DEF Untold, Alive, Processes
<1>5. ASSUME NEW i \in DOMAIN runners, ApplyMute(i) PROVE Untold'
  <2>1. PICK c : SetMute(c) /\ UNCHANGED <<life, pmuted>>
    BY <1>5 DEF ApplyMute
  <2>2. CASE Alive(proc)
    <3>1. proc \in Process /\ stdin' = [stdin EXCEPT ![proc] = Append(@, c)]
      BY <2>1, <2>2 DEF SetMute, Alive, Engine
    <3> QED BY <1>3, <2>1, <2>2, <3>1 DEF Commands
  <2> QED BY <1>1, <2>1, <2>2 DEF SetMute
<1>6. ASSUME NEW i \in DOMAIN runners, WriteStop(i) PROVE Untold'
  <2> DEFINE p == runners[i].proc
  <2>0. p \in Process \cup {None}
    <3>1. runners[i] \in RunnerRecord
      BY DEF Threads
    <3> QED BY <3>1 DEF RunnerRecord
  <2>1. CASE /\ Alive(p) /\ stdin' = [stdin EXCEPT ![p] = Append(@, "stop")]
             /\ UNCHANGED <<life, pmuted>>
    <3>1. p \in Process
      BY <2>0, <2>1 DEF Alive
    <3> QED BY <1>3, <2>1, <3>1 DEF Commands
  <2>2. CASE /\ life' = [life EXCEPT ![p] = IF @ = "run" THEN "drain" ELSE @]
             /\ UNCHANGED <<stdin, pmuted>>
    BY <2>2 DEF Untold, Alive, Processes
  <2>3. CASE Exit(p)
    <3>1. CASE p \in Process
      BY <1>2, <2>3, <3>1
    <3>2. CASE p \notin Process
      BY <1>1, <2>3, <3>2 DEF Exit, Processes, Commands
    <3> QED BY <3>1, <3>2
  <2> QED BY <1>6, <2>1, <2>2, <2>3 DEF WriteStop
<1>7. ASSUME NEW i \in DOMAIN runners, ForceExit(i) PROVE Untold'
  <2>1. runners[i] \in RunnerRecord /\ Alive(runners[i].proc) /\ Exit(runners[i].proc)
    BY <1>7 DEF ForceExit, Threads
  <2>2. runners[i].proc \in Process
    BY <2>1 DEF RunnerRecord, Alive
  <2> QED BY <1>2, <2>1, <2>2
<1>8. ASSUME NEW i \in DOMAIN runners, Spawn(i) PROVE Untold'
  BY <1>4, <1>8 DEF Spawn
<1>9. ASSUME NEW i \in DOMAIN runners, RunnerStep(i) PROVE Untold'
  <2>1. CASE ~(ApplyMute(i) \/ WriteStop(i) \/ ForceExit(i) \/ Spawn(i))
    BY <1>1, <1>9, <2>1
       DEF RunnerStep, AwaitStop, PollExit, StartFails, CheckMuted, AskStop,
           WaitExit, Archive, procVars
  <2> QED BY <1>5, <1>6, <1>7, <1>8, <2>1
<1>10. ASSUME NEW p \in Process, Session(p) PROVE Untold'
  <2>1. CASE Finish(p) \/ Crash(p)
    BY <1>2, <2>1 DEF Finish, Crash
  <2>2. CASE ReadCommand(p)
    <3>1. Alive(p)
      BY <2>2, NoneIsNoProcess DEF ReadCommand, Alive
    <3>2. /\ life' = life \/ life' = [life EXCEPT ![p] = "drain"]
          /\ \A q \in Process : q # p => stdin'[q] = stdin[q] /\ pmuted'[q] = pmuted[q]
      BY <2>2 DEF ReadCommand, Commands
    <3>3. \A q \in Process : q # p => life'[q] = life[q]
      BY <3>2 DEF Processes
    <3>4. Alive(p)'
      BY <2>2, <3>2, <3>1 DEF ReadCommand, Alive, Processes
    <3> QED BY <3>2, <3>3, <3>4 DEF Untold, Alive
  <2>3. CASE Boot(p) \/ EndBySelf(p)
    BY <1>4, <2>3 DEF Boot, EndBySelf
  <2>4. CASE Report(p) \/ WriteEntry(p)
    BY <1>1, <2>4 DEF Report, WriteEntry
  <2> QED BY <1>10, <2>1, <2>2, <2>3, <2>4 DEF Session
<1>11. CASE ToggleRecord \/ ToggleMute \/ OnError \/ \E k \in Kinds : CheckNotice(k)
  BY <1>1, <1>11 DEF ToggleRecord, ToggleMute, OnError, CheckNotice, procVars
<1>12. ASSUME NEW p \in Process, Monitor(p) PROVE Untold'
  BY <1>1, <1>12 DEF Monitor, HandleLine, MonitorEnds, procVars
<1> QED BY <1>1, <1>9, <1>10, <1>11, <1>12 DEF Next, vars, procVars

(* A start is about to mute only if the window says muted: it looked, and    *)
(* no unmute fell in between.                                              *)
LEMMA InTimeKept ==
  ASSUME IInv, Muted, [Next]_vars, ~late', ~muted'
  PROVE  \A i \in DOMAIN runners' : runners'[i].pc # "mute"
<1> USE DEF IInv
<1>1. ~late /\ InTime
  <2>1. ~late
    BY FlagsStay
  <2> QED BY <2>1 DEF Muted
<1>2. CASE UNCHANGED <<runners, muted>>
  BY <1>1, <1>2 DEF InTime
<1>3. ASSUME \A i \in DOMAIN runners : runners[i].pc # "mute",
             NEW r, r.pc # "mute", runners' = Append(runners, r)
      PROVE  \A i \in DOMAIN runners' : runners'[i].pc # "mute"
  BY <1>3, AfterAppend
<1>4. CASE ToggleRecord
  <2>1. Runner("start", "await", "").pc # "mute" /\ Runner("stop", "ask", "").pc # "mute"
    BY DEF Runner
  <2>2. ~muted
    BY <1>4 DEF ToggleRecord
  <2> QED BY <1>1, <1>3, <1>4, <2>1, <2>2 DEF ToggleRecord, StartLive, StopLive, InTime
<1>5. ASSUME NEW k \in Kinds, CheckNotice(k)
      PROVE  \A i \in DOMAIN runners' : runners'[i].pc # "mute"
  <2>1. Runner("stop", "ask", "").pc # "mute"
    BY DEF Runner
  <2>2. ~muted
    BY <1>5 DEF CheckNotice
  <2> QED BY <1>1, <1>2, <1>3, <1>5, <2>1, <2>2 DEF CheckNotice, StopLive, InTime
<1>6. CASE ToggleMute
  <2>1. \A i \in DOMAIN runners : runners[i].pc # "mute"
    BY <1>6 DEF ToggleMute, Threads
  <2>2. CASE button
    <3> DEFINE r == Runner("mute", "set", IF muted THEN "off" ELSE "on")
    <3>1. runners' = Append(runners, r)
      BY <1>6, <2>2, Zenon DEF ToggleMute
    <3>2. r.pc # "mute"
      BY DEF Runner
    <3> HIDE DEF r
    <3> QED BY <1>3, <2>1, <3>1, <3>2
  <2>3. CASE ~button
    BY <1>6, <2>1, <2>3 DEF ToggleMute
  <2> QED BY <2>2, <2>3
<1>7. ASSUME NEW i \in DOMAIN runners, RunnerStep(i)
      PROVE  \A j \in DOMAIN runners' : runners'[j].pc # "mute"
  <2>1. UNCHANGED muted
    BY <1>7 DEF RunnerStep, AwaitStop, PollExit, StartFails, Spawn, CheckMuted,
                ApplyMute, AskStop, WriteStop, WaitExit, ForceExit, Archive,
                winVars
  <2>2. \A j \in DOMAIN runners : runners[j].pc # "mute"
    BY <1>1, <2>1 DEF InTime
  <2>3. ~Return(i) =>
          \/ \E pc \in {"poll", "spawn", "check", "write", "wait", "archive"} : Goto(i, pc)
          \/ \E pc \in {"poll", "write"} : GotoWith(i, pc, proc)
    <3>1. CASE CheckMuted(i)
      <4>1. ~muted
        BY <2>1
      <4> QED BY <3>1, <4>1 DEF CheckMuted
    <3>2. CASE AwaitStop(i)
      BY <3>2 DEF AwaitStop
    <3>3. CASE AskStop(i)
      BY <3>3 DEF AskStop
    <3>4. CASE ~(CheckMuted(i) \/ AwaitStop(i) \/ AskStop(i))
      BY <1>7, <3>4 DEF RunnerStep, PollExit, StartFails, Spawn, ApplyMute,
                        WriteStop, WaitExit, ForceExit, Archive
    <3> QED BY <3>1, <3>2, <3>3, <3>4
  <2>4. CASE Return(i)
    BY <2>2, <2>4, AfterReturn
  <2>5. CASE \E pc \in {"poll", "spawn", "check", "write", "wait", "archive"} : Goto(i, pc)
    <3>1. PICK pc \in {"poll", "spawn", "check", "write", "wait", "archive"} : Goto(i, pc)
      BY <2>5
    <3>2. Goto(i, pc) \/ GotoWith(i, pc, proc)
      BY <3>1
    <3>3. pc # "mute"
      BY <3>1
    <3>4. /\ DOMAIN runners' = DOMAIN runners
          /\ \A j \in DOMAIN runners : j # i => runners'[j] = runners[j]
          /\ runners'[i].pc = pc
      BY <3>2, AfterMove, Zenon DEF IInv
    <3> HIDE DEF IInv
    <3> QED BY <2>2, <3>3, <3>4
  <2>6. CASE \E pc \in {"poll", "write"} : GotoWith(i, pc, proc)
    <3>1. PICK pc \in {"poll", "write"} : GotoWith(i, pc, proc)
      BY <2>6
    <3>2. Goto(i, pc) \/ GotoWith(i, pc, proc)
      BY <3>1
    <3>3. pc # "mute"
      BY <3>1
    <3>4. /\ DOMAIN runners' = DOMAIN runners
          /\ \A j \in DOMAIN runners : j # i => runners'[j] = runners[j]
          /\ runners'[i].pc = pc
      BY <3>2, AfterMove, Zenon DEF IInv
    <3> HIDE DEF IInv
    <3> QED BY <2>2, <3>3, <3>4
  <2> QED BY <2>3, <2>4, <2>5, <2>6
<1>8. CASE OnError
  BY <1>2, <1>8 DEF OnError
<1>9. ASSUME NEW p \in Process, Monitor(p) \/ Session(p)
      PROVE  UNCHANGED <<runners, muted>>
  BY <1>9 DEF Monitor, HandleLine, MonitorEnds, Session, Boot, Report,
              ReadCommand, WriteEntry, EndBySelf, Finish, Crash, winVars
<1>10. CASE UNCHANGED vars
  BY <1>2, <1>10 DEF vars, winVars
<1> QED BY <1>2, <1>4, <1>5, <1>6, <1>7, <1>8, <1>9, <1>10 DEF Next

(* An unmute is told to the session that runs, and nothing mutes it after.   *)
LEMMA UnmutingStep ==
  ASSUME IInv, Seen, Kept, Muted, [Next]_vars,
         ~crossed', ~rushed', ~overlap', ~late', ~muted', button', Alive(proc)'
  PROVE  ~MuteOf(proc)' \/ Pending({"mute"})' # {}
<1> USE DEF IInv
<1>1. /\ OneMute /\ Commands /\ Untold /\ OneStop /\ Resting /\ Unmuting /\ InTime
      /\ ~rushed /\ ~overlap /\ ~crossed /\ ~late
  <2>1. ~crossed /\ ~rushed /\ ~overlap /\ ~late
    BY FlagsStay
  <2> QED BY <2>1 DEF Muted, Kept
<1>2. CASE UNCHANGED <<winVars, runners, proc, life, stdin, pmuted>>
  BY <1>1, <1>2 DEF Unmuting, Pending, MuteOf, Alive, winVars
<1>3. CASE ToggleRecord
  <2>1. ~button /\ UNCHANGED <<proc, life>> /\ Pending({"stop"}) = {}
    BY <1>3 DEF ToggleRecord, stateVars, procVars
  <2>2. ~Alive(proc)
    BY <1>1, <2>1 DEF Resting, Settled, Unseen
  <2> QED BY <2>1, <2>2 DEF Alive
<1>4. CASE ToggleMute
  <2> DEFINE r == Runner("mute", "set", IF muted THEN "off" ELSE "on")
  <2>1. button
    BY <1>4 DEF ToggleMute
  <2>2. runners' = Append(runners, r)
    BY <1>4, <2>1, Zenon DEF ToggleMute
  <2>3. r.kind = "mute"
    BY DEF Runner
  <2> HIDE DEF r
  <2>4. Len(runners) + 1 \in DOMAIN runners' /\ runners'[Len(runners) + 1] = r
    BY <2>2, AfterAppend
  <2>5. Len(runners) + 1 \in Pending({"mute"})'
    BY <2>3, <2>4 DEF Pending
  <2> QED BY <2>5
<1>5. ASSUME NEW k \in Kinds, CheckNotice(k)
      PROVE  ~MuteOf(proc)' \/ Pending({"mute"})' # {}
  <2>1. UNCHANGED <<button, runners>>
    <3>1. CASE button
      BY <1>5, <3>1 DEF CheckNotice
    <3>2. CASE ~button
      BY <1>5, <3>2, Zenon DEF CheckNotice
    <3> QED BY <3>1, <3>2
  <2> QED BY <1>1, <1>5, <2>1
          DEF CheckNotice, Unmuting, Pending, MuteOf, Alive, stateVars, procVars
<1>6. CASE OnError
  BY <1>6 DEF OnError
<1>7. ASSUME NEW i \in DOMAIN runners, runners[i].kind = "stop", button' = button
      PROVE  FALSE
  <2>1. i \in Pending({"stop"})
    BY <1>7 DEF Pending
  <2> QED BY <1>1, <1>7, <2>1 DEF OneStop
<1>8. ASSUME NEW i \in DOMAIN runners,
             AskStop(i) \/ WriteStop(i) \/ WaitExit(i) \/ ForceExit(i) \/ Archive(i)
      PROVE  FALSE
  BY <1>7, <1>8 DEF AskStop, WriteStop, WaitExit, ForceExit, Archive, At, winVars
<1>9. ASSUME NEW i \in DOMAIN runners, Spawn(i) PROVE ~MuteOf(proc)'
  <2>1. /\ ~Alive(proc) /\ proc' \in Process
        /\ UNCHANGED <<stdin, pmuted>>
    BY <1>9 DEF Spawn, Refused
  <2>2. ~Alive(proc')
    BY <2>1 DEF Known
  <2>3. stdin[proc'] = <<>> /\ pmuted[proc'] = FALSE
    BY <1>1, <2>1, <2>2 DEF Untold
  <2>4. ~Told(stdin[proc'], pmuted[proc'])
    BY <2>3 DEF Told
  <2> QED BY <2>1, <2>4 DEF MuteOf, Told
<1>10. ASSUME NEW i \in DOMAIN runners,
              AwaitStop(i) \/ PollExit(i) \/ StartFails(i) \/ CheckMuted(i)
       PROVE  ~MuteOf(proc)' \/ Pending({"mute"})' # {}
  <2>1. /\ UNCHANGED <<muted, button, proc, life, stdin, pmuted>>
        /\ runners[i].kind # "mute"
        /\ \E pc, p : Return(i) \/ Goto(i, pc) \/ GotoWith(i, pc, p)
    BY <1>10 DEF AwaitStop, PollExit, StartFails, CheckMuted, At, winVars,
                 stateVars, procVars
  <2>2. ~MuteOf(proc) \/ Pending({"mute"}) # {}
    BY <1>1, <2>1 DEF Unmuting, Alive
  <2>3. CASE ~MuteOf(proc)
    BY <2>1, <2>3 DEF MuteOf
  <2>4. CASE Pending({"mute"}) # {}
    <3>1. PICK j \in DOMAIN runners : runners[j].kind = "mute" /\ j # i
      BY <2>1, <2>4 DEF Pending
    <3>2. \E l \in DOMAIN runners' : runners'[l].kind = "mute"
      BY <2>1, <3>1, AfterReturn, AfterMove
    <3> QED BY <3>2 DEF Pending
  <2> QED BY <2>2, <2>3, <2>4
<1>11. ASSUME NEW i \in DOMAIN runners, ApplyMute(i) PROVE ~MuteOf(proc)'
  <2>1. UNCHANGED <<muted, button, proc, life, pmuted>>
    BY <1>11 DEF ApplyMute, winVars, stateVars
  <2>2. PICK c \in Command : SetMute(c) /\ c \notin {"on", "stop"}
    <3>1. ~At(i, "start", "mute")
      BY <1>1, <2>1 DEF InTime, At
    <3>2. At(i, "mute", "set")
      BY <1>11, <3>1 DEF ApplyMute
    <3>3. i \in Pending({"mute"})
      BY <3>2 DEF At, Pending
    <3>4. runners[i].say # "on"
      BY <1>1, <2>1, <3>3, Zenon DEF OneMute
    <3>5. runners[i].say \in Command /\ runners[i].say \notin {"on", "stop"}
      <4>1. runners[i] \in RunnerRecord
        BY DEF Threads
      <4> QED BY <3>4, <4>1 DEF RunnerRecord, Command
    <3>6. SetMute(runners[i].say)
      BY <1>11, <3>1 DEF ApplyMute
    <3> QED BY <3>5, <3>6
  <2>3. Alive(proc) /\ proc \in Process
    BY <2>1 DEF Alive, Engine
  <2>4. stdin'[proc] = Append(stdin[proc], c) /\ stdin[proc] \in Seq(Command)
    BY <1>1, <2>2, <2>3 DEF SetMute, Commands
  <2>5. ~Told(stdin'[proc], pmuted[proc])
    BY <2>2, <2>4, ToldUnmute
  <2> QED BY <2>1, <2>5 DEF MuteOf, Told
<1>12. ASSUME NEW p \in Process, Session(p)
       PROVE  ~MuteOf(proc)' \/ Pending({"mute"})' # {}
  <2>1. /\ UNCHANGED <<muted, button, runners, proc>> /\ Alive(proc)
        /\ MuteOf(proc)' => MuteOf(proc)
    BY <1>1, <1>12, SessionTells
  <2>2. ~MuteOf(proc) \/ Pending({"mute"}) # {}
    BY <1>1, <2>1 DEF Unmuting
  <2> QED BY <2>1, <2>2 DEF Pending
<1>13. ASSUME NEW p \in Process, Monitor(p)
       PROVE  ~MuteOf(proc)' \/ Pending({"mute"})' # {}
  BY <1>2, <1>13 DEF Monitor, HandleLine, MonitorEnds, procVars
<1>14. CASE UNCHANGED vars
  BY <1>2, <1>14 DEF vars, stateVars, procVars
<1>15. ASSUME NEW i \in DOMAIN runners, RunnerStep(i)
       PROVE  ~MuteOf(proc)' \/ Pending({"mute"})' # {}
  BY <1>8, <1>9, <1>10, <1>11, <1>15 DEF RunnerStep
<1> QED BY <1>3, <1>4, <1>5, <1>6, <1>12, <1>13, <1>14, <1>15 DEF Next

LEMMA StepMuted ==
  ASSUME IInv, Seen, Kept, Muted, [Next]_vars
  PROVE  Muted'
<1>1. Commands' /\ Untold'
  BY CommandsKept, UntoldKept DEF Muted
<1>2. ~crossed' => OneMute'
  BY OneMuteKept
<1>3. ~late' => InTime'
  BY InTimeKept DEF InTime
<1>4. ~crossed' /\ ~rushed' /\ ~overlap' => Muting'
  BY MutingStep DEF Muting
<1>5. ~crossed' /\ ~rushed' /\ ~overlap' /\ ~late' => Unmuting'
  BY UnmutingStep DEF Unmuting
<1> QED BY <1>1, <1>2, <1>3, <1>4, <1>5 DEF Muted

LEMMA InitMuted == Init => Muted
<1> SUFFICES ASSUME Init
             PROVE  Commands /\ Untold /\ OneMute /\ InTime /\ Muting /\ Unmuting
  BY DEF Muted
<1>1. Commands
  BY DEF Init, Commands
<1>2. Pending({"mute"}) = {}
  BY DEF Init, Pending
<1>3. Untold
  BY DEF Init, Untold
<1> QED BY <1>1, <1>2, <1>3 DEF Init, OneMute, InTime, Muting, Unmuting

(* Once the clicks are worked off, no session records behind a button that   *)
(* reads "Start Recording", and the session behind one that reads "Stop     *)
(* Recording" is muted exactly if the window says so, with the exceptions   *)
(* that the property names (qt_client.py:1424, 1636, 1661).                 *)
THEOREM WindowTellsTheTruth == Spec => []WindowIsTrue
<1>1. IInv /\ Muted => MuteIsTrue
  <2> SUFFICES ASSUME Muted, button, Idle, ~crossed, ~rushed, ~overlap,
                      Alive(proc)
               PROVE  /\ muted => MuteOf(proc)
                      /\ ~muted /\ ~late => ~MuteOf(proc)
    BY DEF MuteIsTrue
  <2>1. ~WillMute /\ Pending({"mute"}) = {}
    BY DEF Idle, Pending, WillMute, Mutes
  <2> QED BY <2>1 DEF Muted, Muting, Unmuting
<1>2. Spec => []MuteIsTrue
  BY <1>1, InitEstablishes, StepKeeps, InitSeen, StepSeen, InitKept, StepKept,
     InitMuted, StepMuted, PTL DEF Spec
<1>3. RecordingIsVisible /\ MuteIsTrue => WindowIsTrue
  BY DEF WindowIsTrue
<1> QED BY <1>2, <1>3, NoSessionIsHidden, PTL
=============================================================================

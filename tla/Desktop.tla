------------------------------- MODULE Desktop -------------------------------
(***************************************************************************)
(* The desktop application around a live session: the window (qt_client.py,*)
(* CompactWidget), the engine that spawns and stops the session process    *)
(* (core/engine.py), the lines the two exchange (utils/status_ipc.py) and  *)
(* the transcript file the session writes (TranscriptLog).                 *)
(*                                                                         *)
(* Handlers of the window run on the Qt thread, one at a time.  Start,     *)
(* stop and mute are each handed to a new daemon thread, a runner, and     *)
(* nothing orders the runners.  A monitor thread per process reads its     *)
(* stdout.  Everything the engine does under STATE.lock is one step.       *)
(*                                                                         *)
(* Processes are numbered in the order in which they are spawned; 0 is     *)
(* none.  The entry <<p, n>> is the n-th that process p writes.            *)
(***************************************************************************)
EXTENDS TranscriptLog, FiniteSets, SequencesExt

CONSTANTS
  Kinds,         \* failures for good: outdated client, TLS, microphone
  MaxProcesses,  \* bound: processes spawned
  MaxClicks,     \* bound: clicks of the user
  FailureCost,   \* a failure for good counts as so many of them
  MaxEntries,    \* bound: entries each process writes
  Candidates,    \* the entries written with completed = False
  MaxLines       \* bound: status lines each process emits

Process == 1..MaxProcesses
None == 0

ASSUME ConstantsAssumption ==
  /\ MaxProcesses \in Nat \ {0} /\ MaxClicks \in Nat /\ FailureCost \in Nat
  /\ MaxEntries \in [Process -> Nat] /\ MaxLines \in [Process -> Nat]
  /\ Candidates \subseteq Process \X Nat
  /\ Kinds \cap {"ready", "lost"} = {}

VARIABLES
  button, muted, notified,         \* the window: recording?, muted, *_notified
  reverts,                         \* queued error_occurred signals that revert
  runners,                         \* the runner threads, in order of creation
  proc, stopReq, conn, notice,     \* LiveProcessState
  monitor,                         \* the monitor thread of each process
  life, stdin, pipe, pmuted, wrote, said,      \* the processes
  file, history,                   \* the transcript file and the archived ones
  clicks,
  rushed, overlap, crossed, late,  \* history: how clicks and aborts fell
  unarchived                       \* history: entries of failed archives

winVars == <<button, muted, notified, reverts>>
stateVars == <<proc, stopReq, conn, notice>>
procVars == <<life, stdin, pipe, pmuted, wrote, said>>
fileVars == <<file, history, unarchived>>
userVars == <<clicks, rushed, overlap, crossed, late>>
vars == <<winVars, runners, stateVars, monitor, procVars, fileVars, userVars>>

Alive(p) == p # None /\ life[p] \in {"boot", "run", "drain"}

Pending(kinds) == {i \in DOMAIN runners :
                     runners[i].kind \in kinds}

\* A start was clicked and the window does not know its outcome yet.
StartOpen == Pending({"start"}) # {} \/ reverts > 0

Runner(kind, pc, say) == [kind |-> kind, pc |-> pc, proc |-> None, say |-> say]

Init ==
  /\ button = FALSE /\ muted = FALSE /\ notified = {} /\ reverts = 0
  /\ runners = <<>>
  /\ proc = None /\ stopReq = FALSE /\ conn = "DISCONNECTED"
  /\ notice = [k \in Kinds |-> None]
  /\ monitor = [p \in Process |-> "none"]
  /\ life = [p \in Process |-> "unborn"]
  /\ stdin = [p \in Process |-> <<>>] /\ pipe = [p \in Process |-> <<>>]
  /\ pmuted = [p \in Process |-> FALSE]
  /\ wrote = [p \in Process |-> 0] /\ said = [p \in Process |-> 0]
  /\ file = <<>> /\ history = {} /\ unarchived = {}
  /\ clicks = 0
  /\ rushed = FALSE /\ overlap = FALSE /\ crossed = FALSE /\ late = FALSE

-----------------------------------------------------------------------------
(* The window *)

StartLive == /\ notified' = {}
             /\ runners' = Append(runners, Runner("start", "await", ""))

StopLive == runners' = Append(runners, Runner("stop", "ask", ""))

\* toggle_record.  A click that the microphone permission refuses changes
\* nothing.
ToggleRecord ==
  /\ clicks < MaxClicks
  /\ clicks' = clicks + 1
  /\ button' = ~button
  /\ IF button
       THEN StopLive /\ UNCHANGED <<notified, overlap>>
       ELSE StartLive /\ overlap' = (overlap \/ Pending({"stop"}) # {})
  /\ rushed' = (rushed \/ StartOpen)
  /\ UNCHANGED <<muted, reverts, stateVars, monitor, procVars, fileVars,
                 crossed, late>>

\* late: an unmute that falls between a start's look at the button and the
\* mute command this start sends.
ToggleMute ==
  /\ clicks < MaxClicks
  /\ clicks' = clicks + 1
  /\ muted' = ~muted
  /\ runners' =
       LET say == IF muted THEN "off" ELSE "on"
       IN  IF button THEN Append(runners, Runner("mute", "set", say))
                     ELSE runners
  /\ crossed' = (crossed \/ Pending({"mute"}) # {})
  /\ late' = (late \/ (muted /\ \E i \in DOMAIN runners : runners[i].pc = "mute"))
  /\ UNCHANGED <<button, notified, reverts, stateVars, monitor, procVars,
                 fileVars, rushed, overlap>>

\* refresh finds a failure it has not told the user about since the last click
\* on Start: _check_outdated_client, _check_tls_error, _check_mic_error, with
\* _abort_session_and_warn.
CheckNotice(k) ==
  /\ notice[k] # None /\ k \notin notified
  /\ notified' = notified \cup {k}
  /\ IF button THEN button' = FALSE /\ StopLive
               ELSE UNCHANGED <<button, runners>>
  /\ rushed' = (rushed \/ (button /\ StartOpen))
  /\ UNCHANGED <<muted, reverts, stateVars, monitor, procVars, fileVars,
                 clicks, overlap, crossed, late>>

\* _on_error with revert_recording, delivered on the Qt thread.
OnError ==
  /\ reverts > 0
  /\ reverts' = reverts - 1
  /\ button' = FALSE
  /\ UNCHANGED <<muted, notified, runners, stateVars, monitor, procVars,
                 fileVars, userVars>>

-----------------------------------------------------------------------------
(* Runner threads: start_live *)

Goto(i, pc) == runners' = [runners EXCEPT ![i].pc = pc]
GotoWith(i, pc, p) == runners' = [runners EXCEPT ![i].pc = pc, ![i].proc = p]
Return(i) == runners' = RemoveAt(runners, i)
At(i, kind, pc) ==
  i \in DOMAIN runners /\ runners[i].kind = kind /\ runners[i].pc = pc

\* _await_stop_in_progress reads STATE.
AwaitStop(i) ==
  /\ At(i, "start", "await")
  /\ IF proc # None /\ stopReq THEN GotoWith(i, "poll", proc)
                               ELSE Goto(i, "spawn")
  /\ UNCHANGED <<winVars, stateVars, monitor, procVars, fileVars, userVars>>

\* The process has exited, or the budget is spent.
PollExit(i) ==
  /\ At(i, "start", "poll")
  /\ Goto(i, "spawn")
  /\ UNCHANGED <<winVars, stateVars, monitor, procVars, fileVars, userVars>>

NextProcess == Cardinality({p \in Process : life[p] # "unborn"}) + 1

Refused_Never == FALSE
\* "live session is already running"
Refused == Alive(proc)

\* start_live raises: it refuses, or the command cannot be executed.
StartFails(i) ==
  /\ At(i, "start", "spawn")
  /\ reverts' = reverts + 1
  /\ Return(i)
  /\ UNCHANGED <<button, muted, notified, stateVars, monitor, procVars,
                 fileVars, userVars>>

Spawn(i) ==
  /\ At(i, "start", "spawn") /\ ~Refused /\ NextProcess \in Process
  /\ proc' = NextProcess
  /\ life' = [life EXCEPT ![NextProcess] = "boot"]
  /\ monitor' = [monitor EXCEPT ![NextProcess] = "reading"]
  /\ stopReq' = FALSE /\ conn' = "CONNECTING"
  /\ notice' = [k \in Kinds |-> None]
  /\ Goto(i, "check")
  /\ UNCHANGED <<winVars, stdin, pipe, pmuted, wrote, said, fileVars,
                 userVars>>

\* "if self.muted", read by the runner.
CheckMuted(i) ==
  /\ At(i, "start", "check")
  /\ IF muted THEN Goto(i, "mute") ELSE Return(i)
  /\ UNCHANGED <<winVars, stateVars, monitor, procVars, fileVars, userVars>>

\* set_mute: false if no session runs, or if the pipe is broken.
SetMute(say) ==
  stdin' = IF Alive(proc) THEN [stdin EXCEPT ![proc] = Append(@, say)]
                          ELSE stdin

ApplyMute(i) ==
  /\ \/ At(i, "start", "mute") /\ SetMute("on")
     \/ At(i, "mute", "set") /\ SetMute(runners[i].say)
  /\ Return(i)
  /\ UNCHANGED <<winVars, stateVars, monitor, life, pipe, pmuted, wrote, said,
                 fileVars, userVars>>

-----------------------------------------------------------------------------
(* Runner threads: stop_live and archive_transcript_to_history *)

AskStop(i) ==
  /\ At(i, "stop", "ask")
  /\ conn' = "DISCONNECTED"
  /\ IF Alive(proc) THEN stopReq' = TRUE /\ GotoWith(i, "write", proc)
                    ELSE UNCHANGED stopReq /\ Goto(i, "archive")
  /\ UNCHANGED <<winVars, proc, notice, monitor, procVars, fileVars,
                 userVars>>

\* What was not read of the commands goes with the process.
Exit(p) == /\ life' = [life EXCEPT ![p] = "exited"]
           /\ stdin' = [stdin EXCEPT ![p] = <<>>]
           /\ pmuted' = [pmuted EXCEPT ![p] = FALSE]

\* The stop command; a signal if the pipe is gone; terminate if that fails.
WriteStop(i) ==
  /\ At(i, "stop", "write")
  /\ LET p == runners[i].proc
     IN  \/ /\ Alive(p)
            /\ stdin' = [stdin EXCEPT ![p] = Append(@, "stop")]
            /\ UNCHANGED <<life, pmuted>>
         \/ /\ life' = [life EXCEPT ![p] = IF @ = "run" THEN "drain" ELSE @]
            /\ UNCHANGED <<stdin, pmuted>>
         \/ Exit(p)
  /\ Goto(i, "wait")
  /\ UNCHANGED <<winVars, stateVars, monitor, pipe, wrote, said, fileVars,
                 userVars>>

WaitExit_Skipped(i) ==
  /\ At(i, "stop", "wait")
  /\ Goto(i, "archive")
  /\ UNCHANGED <<winVars, stateVars, monitor, procVars, fileVars, userVars>>

WaitExit(i) ==
  /\ At(i, "stop", "wait") /\ ~Alive(runners[i].proc)
  /\ Goto(i, "archive")
  /\ UNCHANGED <<winVars, stateVars, monitor, procVars, fileVars, userVars>>

ForceExit_NotKilled(i) ==
  /\ At(i, "stop", "wait") /\ Alive(runners[i].proc)
  /\ Goto(i, "archive")
  /\ UNCHANGED <<winVars, stateVars, monitor, procVars, fileVars, userVars>>

\* The wait timed out: terminate, and kill a second later.
ForceExit(i) ==
  /\ At(i, "stop", "wait") /\ Alive(runners[i].proc)
  /\ Exit(runners[i].proc)
  /\ Goto(i, "archive")
  /\ UNCHANGED <<winVars, stateVars, monitor, pipe, wrote, said, fileVars,
                 userVars>>

\* Candidates are not archived, nor is a transcript without any other entry;
\* names are never reused.  Reading the file or writing the archive may fail:
\* the function returns None, and nothing tries again.
Archive(i) ==
  /\ At(i, "stop", "archive")
  /\ LET final == Whole(file) \ Candidates
     IN  \/ /\ Readable(file)
            /\ history' = history \cup ({final} \ {{}})
            /\ UNCHANGED unarchived
         \/ unarchived' = unarchived \cup final /\ UNCHANGED history
  /\ Return(i)
  /\ UNCHANGED <<winVars, stateVars, monitor, procVars, file, userVars>>

RunnerStep(i) ==
  \/ AwaitStop(i) \/ PollExit(i) \/ StartFails(i) \/ Spawn(i) \/ CheckMuted(i)
  \/ ApplyMute(i)
  \/ AskStop(i) \/ WriteStop(i) \/ WaitExit(i) \/ ForceExit(i) \/ Archive(i)

-----------------------------------------------------------------------------
(* Monitor threads *)

\* _CONNECTION_STATE_BY_CODE
StatusOf(line) == CASE line = "ready" -> "CONNECTED"
                    [] line = "lost" -> "DISCONNECTED"
                    [] OTHER -> "ERROR"

\* _handle_monitor_line works on STATE, whatever process it holds by now.
HandleLine(p) ==
  /\ monitor[p] = "reading" /\ pipe[p] # <<>>
  /\ LET line == Head(pipe[p])
     IN  /\ conn' = StatusOf(line)
         /\ notice' = IF line \in Kinds THEN [notice EXCEPT ![line] = p]
                                        ELSE notice
  /\ pipe' = [pipe EXCEPT ![p] = Tail(@)]
  /\ UNCHANGED <<winVars, runners, proc, stopReq, monitor, life, stdin,
                 pmuted, wrote, said, fileVars, userVars>>

MonitorEnds_StatusKept(p) ==
  /\ monitor[p] = "reading" /\ pipe[p] = <<>> /\ ~Alive(p)
  /\ monitor' = [monitor EXCEPT ![p] = "done"]
  /\ UNCHANGED <<winVars, runners, proc, stopReq, conn, notice, procVars,
                 fileVars, userVars>>

\* End of file, process.wait, then STATE.
MonitorEnds(p) ==
  /\ monitor[p] = "reading" /\ pipe[p] = <<>> /\ ~Alive(p)
  /\ monitor' = [monitor EXCEPT ![p] = "done"]
  /\ conn' = "DISCONNECTED"
  /\ UNCHANGED <<winVars, runners, proc, stopReq, notice, procVars, fileVars,
                 userVars>>

Monitor(p) == HandleLine(p) \/ MonitorEnds(p)

-----------------------------------------------------------------------------
(* The session process, as far as the desktop can tell (session.py) *)

Boot(p) ==
  /\ life[p] = "boot"
  /\ life' = [life EXCEPT ![p] = "run"]
  /\ file' = Opened(file, FALSE)
  /\ UNCHANGED <<winVars, runners, stateVars, monitor, stdin, pipe, pmuted,
                 wrote, said, history, unarchived, userVars>>

Report(p) ==
  /\ life[p] \in {"run", "drain"} /\ said[p] < MaxLines[p]
  /\ said' = [said EXCEPT ![p] = @ + 1]
  /\ \E line \in Kinds \cup {"ready", "lost"} :
       /\ pipe' = [pipe EXCEPT ![p] = Append(@, line)]
       /\ clicks' = IF line \in Kinds THEN clicks + FailureCost ELSE clicks
  /\ clicks' <= MaxClicks
  /\ UNCHANGED <<winVars, runners, stateVars, monitor, life, stdin, pmuted,
                 wrote, fileVars, rushed, overlap, crossed, late>>

\* _command_reader_thread reads one line.
ReadCommand(p) ==
  /\ life[p] = "run" /\ stdin[p] # <<>>
  /\ stdin' = [stdin EXCEPT ![p] = Tail(@)]
  /\ IF Head(stdin[p]) = "stop"
       THEN life' = [life EXCEPT ![p] = "drain"] /\ UNCHANGED pmuted
       ELSE /\ pmuted' = [pmuted EXCEPT ![p] = Head(stdin[p]) = "on"]
            /\ UNCHANGED life
  /\ UNCHANGED <<winVars, runners, stateVars, monitor, pipe, wrote, said,
                 fileVars, userVars>>

WriteEntry(p) ==
  /\ life[p] \in {"run", "drain"} /\ wrote[p] < MaxEntries[p]
  /\ wrote' = [wrote EXCEPT ![p] = @ + 1]
  /\ file' = AppendLine(file, <<p, wrote[p] + 1>>)
  /\ UNCHANGED <<winVars, runners, stateVars, monitor, life, stdin, pipe,
                 pmuted, said, history, unarchived, userVars>>

\* A status that ends the session, without the desktop asking for it.
EndBySelf(p) ==
  /\ life[p] = "run"
  /\ life' = [life EXCEPT ![p] = "drain"]
  /\ UNCHANGED <<winVars, runners, stateVars, monitor, stdin, pipe, pmuted,
                 wrote, said, fileVars, userVars>>

\* The process ends after its drain.
Finish(p) ==
  /\ life[p] = "drain" /\ Exit(p)
  /\ UNCHANGED <<winVars, runners, stateVars, monitor, pipe, wrote, said,
                 fileVars, userVars>>

\* It dies, maybe while it writes, maybe inside a character.
Crash(p) ==
  /\ life[p] \in {"boot", "run", "drain"} /\ Exit(p)
  /\ \/ UNCHANGED file
     \/ life[p] # "boot" /\ \E part \in Part : file' = TearLine(file, part)
  /\ UNCHANGED <<winVars, runners, stateVars, monitor, pipe, wrote, said,
                 history, unarchived, userVars>>

Session(p) ==
  \/ Boot(p) \/ Report(p) \/ ReadCommand(p) \/ WriteEntry(p) \/ EndBySelf(p)
  \/ Finish(p) \/ Crash(p)

Next ==
  \/ ToggleRecord \/ ToggleMute \/ OnError
  \/ \E k \in Kinds : CheckNotice(k)
  \/ \E i \in DOMAIN runners : RunnerStep(i)
  \/ \E p \in Process : Monitor(p) \/ Session(p)

Spec == Init /\ [][Next]_vars

\* The desktop's own work: the runners, the monitors, the Qt loop's signals and
\* its timer.
Work == \/ \E i \in DOMAIN runners : RunnerStep(i)
        \/ \E p \in Process : Monitor(p)
        \/ OnError \/ \E k \in Kinds : CheckNotice(k)

\* Threads are scheduled and their waits are bounded, so work that is left goes
\* on; which thread goes first is open, and fairness to each follows, as each
\* has finitely much to do.  A session process may hang for ever.
FairSpec == Spec /\ WF_vars(Work)
-----------------------------------------------------------------------------
(* Properties *)

TypeOK ==
  /\ button \in BOOLEAN /\ muted \in BOOLEAN /\ notified \subseteq Kinds
  /\ reverts \in Nat
  /\ runners \in Seq([kind : {"start", "stop", "mute"},
                      pc : {"await", "poll", "spawn", "check", "mute", "set",
                            "ask", "write", "wait", "archive"},
                      proc : Process \cup {None}, say : {"", "on", "off"}])
  /\ proc \in Process \cup {None} /\ stopReq \in BOOLEAN
  /\ conn \in {"CONNECTING", "CONNECTED", "ERROR", "DISCONNECTED"}
  /\ notice \in [Kinds -> Process \cup {None}]
  /\ monitor \in [Process -> {"none", "reading", "done"}]
  /\ life \in [Process -> {"unborn", "boot", "run", "drain", "exited"}]
  /\ \A p \in Process : /\ wrote[p] \in 0..MaxEntries[p]
                        /\ said[p] \in 0..MaxLines[p]

\* Two sessions never run at once, whatever runners are pending: they would
\* write the same transcript file and hold the same devices (engine.py:315).
OneSession == \A p, q \in Process : Alive(p) /\ Alive(q) => p = q

Idle == reverts = 0 /\ Pending({"start", "stop", "mute"}) = {}

\* Once the runners are done, no session records behind a button that reads
\* "Start Recording", unless a click or the abort of a failed session unchecked
\* it while a start was pending (qt_client.py:1424).
HiddenSession == ~button /\ Idle /\ \E p \in Process : Alive(p)
RecordingIsVisible == ~rushed => ~HiddenSession

\* Every final entry a session wrote has a whole line in the file or is in the
\* history, whether the session ended by itself, was stopped, killed or died in
\* the middle of a line: the next start, which empties the file, takes none that
\* no archive was tried for.  What a failed archive held is excepted
\* (engine.py:554, 571: the call returns None and the next start drops it), and
\* so is everything once a start was clicked while a stop was pending
\* (qt_client.py:1670), or a start was pending at a click or an abort.
InHistory(e) == \E h \in history : e \in h
InFile(e) == e \in Whole(file)
TranscriptKept ==
  ~rushed /\ ~overlap =>
    \A p \in Process : \A n \in 1..wrote[p] :
      <<p, n>> \in Candidates \cup unarchived
        \/ InFile(<<p, n>>) \/ InHistory(<<p, n>>)

\* What the session was last told, or will be when it has read its stdin: what
\* follows the command i is no mute command.  0 stands for what it has read.
MuteOf(p) ==
  \E i \in 0..Len(stdin[p]) :
    /\ \A j \in i + 1..Len(stdin[p]) : stdin[p][j] = "stop"
    /\ IF i = 0 THEN pmuted[p] ELSE stdin[p][i] = "on"

\* When nothing is pending, the session behind a button that reads "Stop
\* Recording" is muted if the window says so, also if mute was clicked before
\* or during the start (qt_client.py:1659), and is not muted if the window says
\* that it is not.  Excepted: two mute clicks crossed, a start was pending at a
\* click on record or an abort, or was clicked while a stop was pending; and,
\* for a window that says unmuted, an unmute fell between the start's look at
\* the button and its own mute command (qt_client.py:1661: "off" may reach the
\* session before this "on").
MuteIsTrue ==
  button /\ Idle /\ ~crossed /\ ~rushed /\ ~overlap /\ Alive(proc)
    => IF muted THEN MuteOf(proc) ELSE MuteOf(proc) => late

\* The two together: once the clicks are worked off, no session hides behind
\* "Start Recording", and one behind "Stop Recording" is muted as shown.
WindowIsTrue == RecordingIsVisible /\ MuteIsTrue

\* A session that was asked to stop ends even if it hangs, and once the last
\* one has ended the window comes to say so, whatever lines were still in the
\* pipes and in whatever order the monitors end; unless another session was
\* started, which nobody has asked to stop.
Ended == \A p \in Process : ~Alive(p)
EndsAreSeen ==
  stopReq \/ Ended
    ~> (Ended /\ conn = "DISCONNECTED") \/ (Alive(proc) /\ ~stopReq)
=============================================================================

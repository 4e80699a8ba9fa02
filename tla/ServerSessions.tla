--------------------------- MODULE ServerSessions ----------------------------
(***************************************************************************)
(* The recognition server's connections (server.py): every connection has  *)
(* a handler thread that reads the options, checks the capacity, builds a  *)
(* session (which starts a recognition thread), registers it, receives     *)
(* audio and cleans up.  The handlers share the registry of ClientManager, *)
(* the server's use_vad field and the batch worker.                        *)
(*                                                                         *)
(* What a session does with its audio is AsrSession's matter.              *)
(***************************************************************************)
EXTENDS Integers, FiniteSets

CONSTANTS
  Conns,       \* the connections, each with its handler thread
  MaxClients,  \* max_clients
  WantVad,     \* the use_vad option each peer sends
  Batch        \* is batch inference configured (with one shared model)?

ASSUME ConstantsAssumption ==
  /\ IsFiniteSet(Conns)
  /\ MaxClients \in Nat \ {0}
  /\ WantVad \in [Conns -> BOOLEAN]
  /\ Batch \in BOOLEAN

VARIABLES
  pc,          \* where each handler is
  open,        \* is the peer still connected?
  useVad,      \* TranscriptionServer.use_vad
  clients,     \* keys of ClientManager.clients and start_times
  formats,     \* keys of audio_formats
  vad,         \* the use_vad each session was built with
  threads,     \* connections whose recognition thread was started
  exit,        \* connections whose recognition thread was told to end
  worker,      \* is BATCH_WORKER set?
  started,     \* history: batch workers started
  served,      \* history: connections that were registered
  overlapped   \* history: were two handshakes ever under way at once?

sharedVars == <<clients, formats, useVad, worker>>
historyVars == <<started, served, overlapped>>
vars == <<pc, open, vad, threads, exit, sharedVars, historyVars>>

Init ==
  /\ pc = [c \in Conns |-> "hello"]
  /\ open = [c \in Conns |-> TRUE]
  /\ useVad = TRUE
  /\ clients = {} /\ formats = {}
  /\ vad = [c \in Conns |-> TRUE]
  /\ threads = {} /\ exit = {}
  /\ worker = FALSE
  /\ started = 0 /\ served = {} /\ overlapped = FALSE

At(c, l) == pc[c] = l
Goto(c, l) == pc' = [pc EXCEPT ![c] = l]

Handshaking == {c \in Conns : pc[c] \in
                  {"full", "build", "ready", "worker", "start", "register"}}

-----------------------------------------------------------------------------
(* handle_new_connection *)

\* The options: unreadable or from an outdated client, or the server takes
\* over what the peer says about voice activity detection.
Hello(c) ==
  /\ At(c, "hello")
  /\ \/ /\ Goto(c, "done")
        /\ open' = [open EXCEPT ![c] = FALSE]
        /\ UNCHANGED <<useVad, overlapped>>
     \/ /\ open[c]
        /\ useVad' = WantVad[c]
        /\ overlapped' = (overlapped \/ Handshaking # {})
        /\ Goto(c, "full")
        /\ UNCHANGED open
  /\ UNCHANGED <<vad, threads, exit, clients, formats, worker, started, served>>

IsFull_OffByOne == Cardinality(clients) > MaxClients
\* is_server_full; the lock is given back before the session is built.
IsFull == Cardinality(clients) >= MaxClients

CheckFull(c) ==
  /\ At(c, "full")
  /\ IF IsFull
       THEN /\ Goto(c, "done") /\ open' = [open EXCEPT ![c] = FALSE]
            /\ UNCHANGED formats
       ELSE \/ /\ Goto(c, "build") /\ formats' = formats \cup {c}
               /\ UNCHANGED open
            \/ /\ Goto(c, "done") /\ open' = [open EXCEPT ![c] = FALSE]
               /\ UNCHANGED formats          \* unsupported audio_format
  /\ UNCHANGED <<vad, threads, exit, clients, useVad, worker, historyVars>>

\* The shared field, read when the session is built.
SessionVad(c) == useVad

\* The session's constructor: the model loads and the recognition thread is
\* started, or the peer is told that it did not load and is closed; telling a
\* peer that has gone raises, and initialize_client returns without a session.
BuildSession(c) ==
  /\ At(c, "build")
  /\ vad' = [vad EXCEPT ![c] = SessionVad(c)]
  /\ \/ /\ threads' = threads \cup {c}
        /\ Goto(c, "ready")
        /\ UNCHANGED open
     \/ /\ open' = [open EXCEPT ![c] = FALSE]
        /\ Goto(c, "worker")
        /\ UNCHANGED threads
     \/ /\ ~open[c]
        /\ Goto(c, "serve")
        /\ UNCHANGED <<threads, open>>
  /\ UNCHANGED <<exit, sharedVars, historyVars>>

\* SERVER_READY, from the constructor: it raises if the peer has gone.
SendReady(c) ==
  /\ At(c, "ready")
  /\ \/ Goto(c, "worker")
     \/ ~open[c] /\ Goto(c, "serve")
  /\ UNCHANGED <<open, vad, threads, exit, sharedVars, historyVars>>

ModelLoaded == threads # {}

\* The first session with a loaded model starts the batch worker.
CheckWorker(c) ==
  /\ At(c, "worker")
  /\ Goto(c, IF Batch /\ ~worker /\ ModelLoaded THEN "start" ELSE "register")
  /\ UNCHANGED <<open, vad, threads, exit, sharedVars, historyVars>>

StartWorker(c) ==
  /\ At(c, "start")
  /\ started' = started + 1 /\ worker' = TRUE
  /\ Goto(c, "register")
  /\ UNCHANGED <<open, vad, threads, exit, clients, formats, useVad, served,
                 overlapped>>

\* add_client
Register(c) ==
  /\ At(c, "register")
  /\ clients' = clients \cup {c} /\ served' = served \cup {c}
  /\ Goto(c, "serve")
  /\ UNCHANGED <<open, vad, threads, exit, formats, useVad, worker, started,
                 overlapped>>

-----------------------------------------------------------------------------
(* recv_audio *)

\* is_client_timeout raises KeyError for a connection without a session.
NoSession(c) ==
  /\ At(c, "serve") /\ c \notin clients
  /\ Goto(c, "finally")
  /\ UNCHANGED <<open, vad, threads, exit, sharedVars, historyVars>>

\* The connection has lasted too long: DISCONNECT is sent.
Overtime(c) ==
  /\ At(c, "serve") /\ c \in clients
  /\ Goto(c, "finally")
  /\ UNCHANGED <<open, vad, threads, exit, sharedVars, historyVars>>

PeerGone_Ignored(c) ==
  /\ At(c, "serve") /\ c \in clients /\ ~open[c]
  /\ UNCHANGED vars
\* recv raises ConnectionClosed.
PeerGone(c) ==
  /\ At(c, "serve") /\ c \in clients /\ ~open[c]
  /\ Goto(c, "finally")
  /\ UNCHANGED <<open, vad, threads, exit, sharedVars, historyVars>>

\* END_OF_AUDIO: the recognition thread finishes what it has and ends by
\* itself, unless the wait for it is over first.
EndOfAudio(c) ==
  /\ At(c, "serve") /\ c \in clients /\ open[c]
  /\ \/ exit' = exit \cup {c}
     \/ UNCHANGED exit
  /\ Goto(c, "finally")
  /\ UNCHANGED <<open, vad, threads, sharedVars, historyVars>>

Cleanup_Registry(c) ==
  /\ At(c, "finally")
  /\ IF c \in clients
       THEN /\ clients' = clients \ {c} /\ formats' = formats \ {c}
            /\ open' = [open EXCEPT ![c] = FALSE]
       ELSE UNCHANGED <<clients, formats, open>>
  /\ Goto(c, "done")
  /\ UNCHANGED <<vad, threads, exit, useVad, worker, historyVars>>

\* The finally clause: cleanup, if the registry knows the connection.
Cleanup(c) ==
  /\ At(c, "finally")
  /\ IF c \in clients
       THEN /\ clients' = clients \ {c} /\ formats' = formats \ {c}
            /\ exit' = exit \cup {c}
            /\ open' = [open EXCEPT ![c] = FALSE]
       ELSE UNCHANGED <<clients, formats, exit, open>>
  /\ Goto(c, "done")
  /\ UNCHANGED <<vad, threads, useVad, worker, historyVars>>

-----------------------------------------------------------------------------
(* Peers *)

PeerLeaves(c) ==
  /\ open[c]
  /\ open' = [open EXCEPT ![c] = FALSE]
  /\ UNCHANGED <<pc, vad, threads, exit, sharedVars, historyVars>>

Handler(c) ==
  \/ Hello(c) \/ CheckFull(c) \/ BuildSession(c) \/ SendReady(c)
  \/ CheckWorker(c) \/ StartWorker(c) \/ Register(c)
  \/ NoSession(c) \/ Overtime(c) \/ PeerGone(c) \/ EndOfAudio(c)
  \/ Cleanup(c)

Next == \E c \in Conns : Handler(c) \/ PeerLeaves(c)

Spec == Init /\ [][Next]_vars

\* What a handler does without waiting for its peer.
HandlerRuns(c) ==
  \/ ~open[c] /\ Hello(c)
  \/ CheckFull(c) \/ BuildSession(c) \/ SendReady(c) \/ CheckWorker(c)
  \/ StartWorker(c) \/ Register(c) \/ NoSession(c) \/ PeerGone(c)
  \/ Cleanup(c)

\* Handler threads are scheduled, and loading a model ends.  A peer may be
\* silent or stay for ever.
FairSpec == Spec /\ \A c \in Conns : WF_vars(HandlerRuns(c))
-----------------------------------------------------------------------------
(* Properties *)

TypeOK ==
  /\ pc \in [Conns -> {"hello", "full", "build", "ready", "worker", "start",
                       "register", "serve", "finally", "done"}]
  /\ open \in [Conns -> BOOLEAN] /\ useVad \in BOOLEAN
  /\ clients \subseteq Conns /\ formats \subseteq Conns
  /\ vad \in [Conns -> BOOLEAN]
  /\ threads \subseteq Conns /\ exit \subseteq Conns
  /\ worker \in BOOLEAN /\ started \in Nat /\ served \subseteq Conns
  /\ overlapped \in BOOLEAN
  /\ \A c \in clients : pc[c] \in {"serve", "finally"}

\* The capacity check and the registration are far apart; handshakes that do
\* not overlap never admit more than max_clients (server.py:68).
CapacityKept == ~overlapped => Cardinality(clients) <= MaxClients

\* use_vad goes through a field all handlers share; handshakes that do not
\* overlap give each session the setting its own peer asked for.
OwnVad ==
  ~overlapped =>
    \A c \in threads : vad[c] = WantVad[c]

\* Handshakes that do not overlap start one batch worker (server.py:363).
OneWorker == ~overlapped => started <= 1

\* The three together: what handshakes share (the registry, the use_vad field,
\* the worker) serves each of them right as long as they do not overlap.
HandshakesAreSafe == CapacityKept /\ OwnVad /\ OneWorker

\* Every way out of a registered connection (end of audio, overtime, a peer
\* that leaves, at any moment) frees its slot and its format and tells its
\* recognition thread to stop.
EndedIsReleased ==
  \A c \in served :
    pc[c] = "done" => c \notin clients \cup formats /\ c \in exit

\* A peer that leaves, whatever the handler is doing, does not hold its
\* handler, and with it its slot.
HandlerEnds == \A c \in Conns : ~open[c] ~> pc[c] = "done"
=============================================================================

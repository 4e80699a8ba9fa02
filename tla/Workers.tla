------------------------------- MODULE Workers -------------------------------
(***************************************************************************)
(* The threads of the server that sessions share or start: the one batch   *)
(* worker all recognition threads submit their windows to                  *)
(* (batch_inference.py), and each session's translation thread             *)
(* (backend/translation_backend.py), between the session's recognition     *)
(* loop and the handler that cleans both up (server.py).                   *)
(*                                                                         *)
(* A request is <<session, number>>.  What the recogniser makes of it is   *)
(* one of a text, nothing, or an exception; a text is named by the request *)
(* whose features it was decoded from.                                     *)
(***************************************************************************)
EXTENDS Naturals, Sequences, FiniteSets, SequencesExt

CONSTANTS
  Sessions,       \* the connected sessions
  Translated,     \* those of them that asked for a translation
  MaxRequests,    \* bound of the model: the windows a session submits
  MaxBatch,       \* max_batch_size, 8 in the code
  Temperatures,   \* how many temperatures the fallback tries, 6 in the code
  QueueSize       \* MAX_TRANSLATION_QUEUE_SIZE, 100 in the code

ASSUME WorkersAssumption ==
  /\ Translated \subseteq Sessions
  /\ MaxRequests \in [Sessions -> Nat] /\ MaxBatch \in Nat \ {0}
  /\ Temperatures \in Nat \ {0} /\ QueueSize \in Nat \ {0}

Requests == UNION {{s} \X (1..MaxRequests[s]) : s \in Sessions}
Exit == <<>>                    \* None in the translation queue

VARIABLES
  queue,        \* requests the worker has not taken
  worker,       \* where the worker's loop is
  batch,        \* the requests it took and has not prepared yet
  ready,        \* preprocessed: the requests that are decoded together
  pending,      \* pending_indices
  temperature,  \* the round of the fallback
  final,        \* final_results: the request each result was decoded from
  answer,       \* result and error of every request
  future,       \* the requests whose future is set
  thread,       \* a session's recognition thread
  number,       \* requests it has submitted
  language,     \* has the session's language been determined?
  finals,       \* what the session finalised: request and decoded request
  tqueue,       \* the session's translation queue
  dropped,      \* finals that found it full
  translator,   \* the session's translation thread
  hand,         \* the segment it is translating
  shown,        \* history: segments translated, in order
  texit,        \* the translation client's exit flag
  exit          \* the session's exit flag

workerVars == <<worker, batch, ready, pending, temperature, final>>
answerVars == <<answer, future>>
sessionVars == <<thread, number, language, finals>>
translationVars == <<tqueue, dropped, translator, hand, shown, texit>>
vars == <<queue, workerVars, answerVars, sessionVars, translationVars, exit>>

NoAnswer == [kind |-> "none", of |-> Exit]
Text(r) == [kind |-> "text", of |-> r]
Empty == [kind |-> "empty", of |-> Exit]
Error == [kind |-> "error", of |-> Exit]

Init ==
  /\ queue = <<>> /\ worker = "idle" /\ batch = <<>> /\ ready = <<>>
  /\ pending = <<>> /\ temperature = 1 /\ final = <<>>
  /\ answer = [r \in Requests |-> NoAnswer] /\ future = {}
  /\ thread = [s \in Sessions |-> "looping"]
  /\ number = [s \in Sessions |-> 0]
  /\ language = [s \in Sessions |-> FALSE]
  /\ finals = [s \in Sessions |-> <<>>]
  /\ tqueue = [s \in Sessions |-> <<>>] /\ dropped = {}
  /\ translator =
       [s \in Sessions |-> IF s \in Translated THEN "top" ELSE "stopped"]
  /\ hand = [s \in Sessions |-> <<>>] /\ shown = [s \in Sessions |-> <<>>]
  /\ texit = [s \in Sessions |-> FALSE] /\ exit = [s \in Sessions |-> FALSE]

-----------------------------------------------------------------------------
(* The batch worker *)

Reply(r, a) ==
  /\ answer' = [answer EXCEPT ![r] = a]
  /\ future' = future \cup {r}

TakeFirst ==
  /\ worker = "idle" /\ queue # <<>>
  /\ batch' = <<Head(queue)>>
  /\ queue' = Tail(queue)
  /\ worker' = "collecting"
  /\ UNCHANGED <<ready, pending, temperature, final, answerVars, sessionVars,
                 translationVars, exit>>

(* Another request arrives within the batch window. *)
TakeMore ==
  /\ worker = "collecting" /\ queue # <<>>
  /\ Len(batch) < MaxBatch
  /\ batch' = Append(batch, Head(queue))
  /\ queue' = Tail(queue)
  /\ UNCHANGED <<worker, ready, pending, temperature, final, answerVars,
                 sessionVars, translationVars, exit>>

(* The window ends, or the batch is full: _process_batch. *)
CloseWindow ==
  /\ worker = "collecting"
  /\ worker' = IF Len(batch) = 1 THEN "single" ELSE "preparing"
  /\ UNCHANGED <<queue, batch, ready, pending, temperature, final, answerVars,
                 sessionVars, translationVars, exit>>

(* A batch of one goes the way of transcribe(), and is answered whatever   *)
(* happens there.                                                          *)
ProcessSingle ==
  /\ worker = "single"
  /\ \E a \in {Text(batch[1]), Empty, Error} : Reply(batch[1], a)
  /\ worker' = "idle" /\ batch' = <<>>
  /\ UNCHANGED <<queue, ready, pending, temperature, final, sessionVars,
                 translationVars, exit>>

(* The features of one item; without audio, or with an exception, it is    *)
(* answered at once and leaves the batch.                                  *)
Prepare ==
  /\ worker = "preparing" /\ batch # <<>>
  /\ \/ ready' = Append(ready, Head(batch)) /\ UNCHANGED answerVars
     \/ \E a \in {Empty, Error} : Reply(Head(batch), a) /\ UNCHANGED ready
  /\ batch' = Tail(batch)
  /\ UNCHANGED <<queue, worker, pending, temperature, final, sessionVars,
                 translationVars, exit>>

NobodyLeft ==
  /\ worker = "preparing" /\ batch = <<>> /\ ready = <<>>
  /\ worker' = "idle"
  /\ UNCHANGED <<queue, batch, ready, pending, temperature, final, answerVars,
                 sessionVars, translationVars, exit>>

(* encode() of the whole batch, and a prompt for each item. *)
Encode ==
  /\ worker = "preparing" /\ batch = <<>> /\ ready # <<>>
  /\ worker' = "generating"
  /\ pending' = [i \in DOMAIN ready |-> i]
  /\ temperature' = 1
  /\ final' = [i \in DOMAIN ready |-> Exit]
  /\ UNCHANGED <<queue, batch, ready, answerVars, sessionVars,
                 translationVars, exit>>

(* One temperature: the pending items are decoded together, in the order   *)
(* of pending_indices.  Those that pass the thresholds keep the result and *)
(* the others go to the next temperature; the last one takes them all.     *)
DecodedAt(j) == ready[pending[j]]
FinalIndex_Position(j) == j
FinalIndex(j) == pending[j]

Accepted ==
  IF temperature = Temperatures THEN {DOMAIN pending}
                                ELSE SUBSET DOMAIN pending

Generate ==
  /\ worker = "generating"
  /\ \E ok \in Accepted :
       /\ final' = [i \in DOMAIN final |->
                      LET at == {j \in ok : FinalIndex(j) = i} IN
                        IF at = {} THEN final[i]
                                   ELSE DecodedAt(CHOOSE j \in at : TRUE)]
       /\ pending' = SelectSeq(pending, LAMBDA i :
                       \A j \in ok : pending[j] # i)
  /\ IF pending' = <<>>
       THEN worker' = "dispatching" /\ temperature' = 1
       ELSE worker' = "generating" /\ temperature' = temperature + 1
  /\ UNCHANGED <<queue, batch, ready, answerVars, sessionVars,
                 translationVars, exit>>

(* encode(), detect_language() or generate() raises: everyone who has not  *)
(* been answered gets the exception.                                       *)
Unanswered_Pending == {ready[pending[j]] : j \in DOMAIN pending}
Unanswered == ToSet(ready) \ future

BatchFails ==
  /\ \/ worker = "preparing" /\ batch = <<>> /\ ready # <<>>
     \/ worker = "generating"
  /\ answer' = [r \in Requests |->
                  IF r \in Unanswered THEN Error ELSE answer[r]]
  /\ future' = future \cup Unanswered
  /\ worker' = "idle" /\ ready' = <<>> /\ pending' = <<>> /\ final' = <<>>
  /\ temperature' = 1
  /\ UNCHANGED <<queue, batch, sessionVars, translationVars, exit>>

(* The segments of one item, or the exception their parsing raised. *)
Dispatch ==
  /\ worker = "dispatching"
  /\ \E a \in {Text(final[1]), Empty, Error} :
       Reply(ready[1], IF final[1] = Exit THEN Error ELSE a)
  /\ ready' = Tail(ready) /\ final' = Tail(final)
  /\ worker' = IF Len(ready) = 1 THEN "idle" ELSE "dispatching"
  /\ UNCHANGED <<queue, batch, pending, temperature, sessionVars,
                 translationVars, exit>>

-----------------------------------------------------------------------------
(* A session's recognition thread: transcribe_audio and what follows *)

Current(s) == <<s, number[s]>>

Submit(s) ==
  /\ thread[s] = "looping" /\ ~exit[s]
  /\ number[s] < MaxRequests[s]
  /\ number' = [number EXCEPT ![s] = @ + 1]
  /\ queue' = Append(queue, <<s, number[s] + 1>>)
  /\ thread' = [thread EXCEPT ![s] = "waiting"]
  /\ UNCHANGED <<workerVars, answerVars, language, finals,
                 translationVars, exit>>

(* translation_queue.put(segment, timeout=0.1), given up when it is full. *)
Put_Oldest(s, segment) ==
  IF s \notin Translated THEN UNCHANGED <<tqueue, dropped>>
  ELSE /\ tqueue' = [tqueue EXCEPT ![s] =
                       IF Len(@) < QueueSize THEN Append(@, segment)
                                             ELSE Append(Tail(@), segment)]
       /\ UNCHANGED dropped
Put(s, segment) ==
  IF s \notin Translated THEN UNCHANGED <<tqueue, dropped>>
  ELSE IF Len(tqueue[s]) < QueueSize
    THEN /\ tqueue' = [tqueue EXCEPT ![s] = Append(@, segment)]
         /\ UNCHANGED dropped
    ELSE dropped' = dropped \cup {segment} /\ UNCHANGED tqueue

(* The wait for the answer ends: with it, or after 30 s without.  A window *)
(* nobody answered, and one whose language is not known, is passed over;   *)
(* after an exception the window is decoded again.                         *)
Resume(s) ==
  /\ thread' = [thread EXCEPT ![s] = "looping"]
  /\ LET a == answer[Current(s)] IN
       \/ /\ a.kind = "error"
          /\ UNCHANGED <<language, finals, tqueue, dropped>>
       \/ /\ a.kind = "none" \/ (a.kind # "error" /\ ~language[s])
          /\ UNCHANGED <<language, finals, tqueue, dropped>>
       \/ /\ a.kind = "empty"
          /\ language' = [language EXCEPT ![s] = TRUE]
          /\ UNCHANGED <<finals, tqueue, dropped>>
       \/ /\ a.kind = "text"
          /\ language' = [language EXCEPT ![s] = TRUE]
          /\ finals' = [finals EXCEPT ![s] =
                          Append(@, [asked |-> Current(s), got |-> a.of])]
          /\ Put(s, Current(s))
  /\ UNCHANGED <<queue, workerVars, answerVars, number, translator, hand,
                 shown, texit, exit>>

Answered(s) ==
  /\ thread[s] = "waiting" /\ Current(s) \in future
  /\ Resume(s)

WaitExpires(s) ==
  /\ thread[s] = "waiting" /\ Current(s) \notin future
  /\ Resume(s)

ThreadExits(s) ==
  /\ thread[s] = "looping" /\ exit[s]
  /\ thread' = [thread EXCEPT ![s] = "stopped"]
  /\ UNCHANGED <<queue, workerVars, answerVars, number, language,
                 finals, translationVars, exit>>

-----------------------------------------------------------------------------
(* A session's translation thread *)

(* Each round looks at the flag and then waits for a segment, a second at  *)
(* most.                                                                   *)
MustEnd(s) == texit[s]

LoopHead(s) ==
  /\ translator[s] = "top"
  /\ translator' =
       [translator EXCEPT ![s] = IF MustEnd(s) THEN "stopped" ELSE "getting"]
  /\ UNCHANGED <<queue, workerVars, answerVars, sessionVars, tqueue, dropped,
                 hand, shown, texit, exit>>

GetTimesOut(s) ==
  /\ translator[s] = "getting" /\ tqueue[s] = <<>>
  /\ translator' = [translator EXCEPT ![s] = "top"]
  /\ UNCHANGED <<queue, workerVars, answerVars, sessionVars, tqueue, dropped,
                 hand, shown, texit, exit>>

TakeSegment(s) ==
  /\ translator[s] = "getting" /\ tqueue[s] # <<>>
  /\ tqueue' = [tqueue EXCEPT ![s] = Tail(@)]
  /\ IF Head(tqueue[s]) = Exit
       THEN /\ translator' = [translator EXCEPT ![s] = "stopped"]
            /\ UNCHANGED hand
       ELSE /\ translator' = [translator EXCEPT ![s] = "translating"]
            /\ hand' = [hand EXCEPT ![s] = <<Head(tqueue[s])>>]
  /\ UNCHANGED <<queue, workerVars, answerVars, sessionVars, dropped, shown,
                 texit, exit>>

(* translate_text returns the translation, or the text when it fails (also *)
(* because cleanup took the model away): either way it is appended.        *)
Translate(s) ==
  /\ translator[s] = "translating"
  /\ shown' = [shown EXCEPT ![s] = @ \o hand[s]]
  /\ hand' = [hand EXCEPT ![s] = <<>>]
  /\ translator' = [translator EXCEPT ![s] = "top"]
  /\ UNCHANGED <<queue, workerVars, answerVars, sessionVars, tqueue, dropped,
                 texit, exit>>

-----------------------------------------------------------------------------
(* The handler's cleanup: the translation first, then the session *)

CleanTranslation(s) ==
  /\ s \in Translated /\ ~texit[s] /\ ~exit[s]
  /\ texit' = [texit EXCEPT ![s] = TRUE]
  /\ tqueue' = IF Len(tqueue[s]) < QueueSize
                 THEN [tqueue EXCEPT ![s] = Append(@, Exit)] ELSE tqueue
  /\ UNCHANGED <<queue, workerVars, answerVars, sessionVars, dropped,
                 translator, hand, shown, exit>>

(* The translation thread is joined for 2 s at most. *)
CleanSession(s) ==
  /\ ~exit[s] /\ s \in Translated => texit[s]
  /\ exit' = [exit EXCEPT ![s] = TRUE]
  /\ UNCHANGED <<queue, workerVars, answerVars, sessionVars, translationVars>>

-----------------------------------------------------------------------------
Worker ==
  \/ TakeFirst \/ TakeMore \/ CloseWindow \/ ProcessSingle \/ Prepare
  \/ NobodyLeft \/ Encode \/ Generate \/ BatchFails \/ Dispatch

Recognition(s) ==
  Submit(s) \/ Answered(s) \/ WaitExpires(s) \/ ThreadExits(s)

Translation(s) ==
  LoopHead(s) \/ GetTimesOut(s) \/ TakeSegment(s) \/ Translate(s)

Handler(s) == CleanTranslation(s) \/ CleanSession(s)

Next ==
  \/ Worker
  \/ \E s \in Sessions : Recognition(s) \/ Translation(s) \/ Handler(s)

Spec == Init /\ [][Next]_vars

(* The worker and the translators are threads of their own, the recogniser *)
(* and the translation model return or raise.                              *)
FairSpec ==
  /\ Spec
  /\ WF_vars(Worker)
  /\ \A s \in Sessions : WF_vars(Translation(s))

-----------------------------------------------------------------------------
(* Properties *)

(* The worker's state and every session's keep their types. *)
TypeOK ==
  /\ queue \in Seq(Requests) /\ batch \in Seq(Requests)
  /\ ready \in Seq(Requests) /\ pending \in Seq(Nat \ {0})
  /\ worker \in {"idle", "collecting", "single", "preparing", "generating",
                 "dispatching"}
  /\ temperature \in 1..Temperatures
  /\ future \subseteq Requests /\ dropped \subseteq Requests
  /\ \A s \in Sessions : number[s] \in 0..MaxRequests[s]
  /\ thread \in [Sessions -> {"looping", "waiting", "stopped"}]
  /\ translator \in [Sessions -> {"top", "getting", "translating", "stopped"}]
  /\ \A s \in Sessions : Len(tqueue[s]) <= QueueSize

(* The words a session finalises were decoded from the window it asked     *)
(* for, however the batch was put together and however often the fallback  *)
(* left out those that had already passed.                                 *)
OwnResult ==
  \A s \in Sessions : \A i \in DOMAIN finals[s] :
    finals[s][i].got = finals[s][i].asked

(* Windows are in the order they were submitted in, each at most once; an  *)
(* exit signal may be anywhere between them.                               *)
InWindowOrder(q) ==
  \A i, j \in DOMAIN q :
    i < j /\ q[i] # Exit /\ q[j] # Exit => q[i][2] < q[j][2]

Asked(s) == [i \in DOMAIN finals[s] |-> finals[s][i].asked]

(* Every finalised segment of a translated session is translated once and  *)
(* in order, is on its way, or was dropped at a full queue.                *)
TranslatedInOrder ==
  \A s \in Translated :
    LET way == shown[s] \o hand[s] \o tqueue[s] IN
      /\ InWindowOrder(Asked(s)) /\ InWindowOrder(way)
      /\ ToSet(way) \ {Exit} = ToSet(Asked(s)) \ dropped

(* Every window that was submitted is answered, whatever raises where. *)
EveryRequestAnswered ==
  \A r \in Requests : (number[r[1]] >= r[2]) ~> (r \in future)

(* The translation thread of a session that is cleaned up ends, also when  *)
(* its queue had no room for the exit signal.                              *)
TranslatorEnds ==
  \A s \in Sessions : exit[s] ~> translator[s] = "stopped"

(* The two together: no thread waits for ever for the other end of one of  *)
(* the two queues.                                                         *)
NobodyWaitsForEver == EveryRequestAnswered /\ TranslatorEnds
=============================================================================

---------------------------- MODULE WorkersProofs ----------------------------
(***************************************************************************)
(* A session only ever finalises what was decoded from its own window,     *)
(* whatever the number of sessions, the size of the batch and the number   *)
(* of temperatures; and what it finalised is translated in order, once, or *)
(* was dropped at a full queue.                                            *)
(***************************************************************************)
EXTENDS Workers, SequenceTheorems, TLAPS

Answers == [kind : {"none", "text", "empty", "error"},
            of : Requests \cup {Exit}]

(* What the threads hold are requests that were made. *)
Held ==
  /\ queue \in Seq(Requests)
  /\ batch \in Seq(Requests)
  /\ ready \in Seq(Requests)
  /\ worker \in {"collecting", "single"} => batch # <<>>

(* A session waits for a request it has submitted. *)
Submitted ==
  /\ number \in [Sessions -> Nat]
  /\ \A s \in Sessions : number[s] <= MaxRequests[s]
  /\ thread \in [Sessions -> {"looping", "waiting", "stopped"}]
  /\ \A s \in Sessions : thread[s] = "waiting" => number[s] > 0

(* A result stands at the place of the request it was decoded from. *)
InPlace ==
  worker \in {"generating", "dispatching"} =>
    /\ final \in Seq(Requests \cup {Exit})
    /\ Len(final) = Len(ready) /\ ready # <<>>
    /\ \A i \in DOMAIN final : final[i] # Exit => final[i] = ready[i]

(* An answer with a text carries the text of its request. *)
OwnAnswer ==
  /\ answer \in [Requests -> Answers]
  /\ \A r \in Requests : answer[r].kind = "text" => answer[r].of = r

OwnFinal ==
  /\ finals \in [Sessions -> Seq([asked : Requests, got : Requests])]
  /\ OwnResult

IInv == Held /\ Submitted /\ InPlace /\ OwnAnswer /\ OwnFinal

-----------------------------------------------------------------------------
(* The numbers a session gives its requests. *)
LEMMA RequestNumbers ==
  ASSUME NEW s \in Sessions, NEW n \in 1..MaxRequests[s]
  PROVE  <<s, n>> \in Requests
  BY DEF Requests

(* A request is a pair, the exit signal is not. *)
LEMMA ExitIsNoRequest == Exit \notin Requests
<1> SUFFICES ASSUME Exit \in Requests PROVE FALSE
  OBVIOUS
<1>1. PICK s \in Sessions : Exit \in {s} \X (1..MaxRequests[s])
  BY DEF Requests
<1>2. PICK n \in 1..MaxRequests[s] : Exit = <<s, n>>
  BY <1>1
<1> QED BY <1>2 DEF Exit

(* One answer more, to the request it is an answer of. *)
LEMMA ReplyKeepsOwn ==
  ASSUME OwnAnswer, NEW r \in Requests,
         NEW a \in {Text(r), Empty, Error}, Reply(r, a)
  PROVE  OwnAnswer'
<1>1. a \in Answers
  BY DEF Text, Empty, Error, Answers
<1>2. a.kind = "text" => a.of = r
  BY DEF Text, Empty, Error
<1> QED BY <1>1, <1>2 DEF OwnAnswer, Reply

LEMMA InitEstablishes == Init => IInv
<1> SUFFICES ASSUME Init PROVE IInv
  OBVIOUS
<1>1. Held
  BY DEF Init, Held
<1>2. Submitted
  BY WorkersAssumption DEF Init, Submitted
<1>3. InPlace
  BY DEF Init, InPlace
<1>4. OwnAnswer
  BY DEF Init, OwnAnswer, Answers, NoAnswer
<1>5. OwnFinal
  BY DEF Init, OwnFinal, OwnResult
<1> QED BY <1>1, <1>2, <1>3, <1>4, <1>5 DEF IInv

-----------------------------------------------------------------------------
(* The steps of the batch worker *)

LEMMA WorkerKeeps ==
  ASSUME IInv, Worker
  PROVE  IInv'
<1> USE DEF IInv
<1>1. CASE TakeFirst
  <2>1. Held'
    BY <1>1 DEF TakeFirst, Held
  <2>2. Submitted' /\ InPlace' /\ OwnAnswer' /\ OwnFinal'
    BY <1>1 DEF TakeFirst, Submitted, InPlace, OwnAnswer, OwnFinal, OwnResult,
                sessionVars, answerVars
  <2> QED BY <2>1, <2>2
<1>2. CASE TakeMore
  <2>1. Held'
    BY <1>2 DEF TakeMore, Held
  <2>2. Submitted' /\ InPlace' /\ OwnAnswer' /\ OwnFinal'
    BY <1>2 DEF TakeMore, Submitted, InPlace, OwnAnswer, OwnFinal, OwnResult,
                sessionVars, answerVars
  <2> QED BY <2>1, <2>2
<1>3. CASE CloseWindow
  BY <1>3 DEF CloseWindow, Held, Submitted, InPlace, OwnAnswer, OwnFinal,
              OwnResult, sessionVars, answerVars
<1>4. CASE ProcessSingle
  <2>1. batch[1] \in Requests
    BY <1>4 DEF ProcessSingle, Held
  <2>2. OwnAnswer'
    BY <1>4, <2>1, ReplyKeepsOwn DEF ProcessSingle
  <2>3. Held'
    BY <1>4 DEF ProcessSingle, Held
  <2>4. Submitted' /\ InPlace' /\ OwnFinal'
    BY <1>4 DEF ProcessSingle, Submitted, InPlace, OwnFinal, OwnResult,
                sessionVars
  <2> QED BY <2>2, <2>3, <2>4
<1>5. CASE Prepare
  <2>1. Head(batch) \in Requests
    BY <1>5 DEF Prepare, Held
  <2>2. OwnAnswer'
    BY <1>5, <2>1, ReplyKeepsOwn DEF Prepare, OwnAnswer, answerVars
  <2>3. Held'
    <3>1. /\ batch \in Seq(Requests) /\ batch # <<>> /\ ready \in Seq(Requests)
          /\ batch' = Tail(batch) /\ queue' = queue /\ worker' = "preparing"
          /\ ready' \in {ready, Append(ready, Head(batch))}
      BY <1>5 DEF Prepare, Held
    <3>2. batch' \in Seq(Requests) /\ ready' \in Seq(Requests)
      BY <2>1, <3>1
    <3> QED BY <3>1, <3>2 DEF Held
  <2>4. Submitted' /\ InPlace' /\ OwnFinal'
    BY <1>5 DEF Prepare, Submitted, InPlace, OwnFinal, OwnResult, sessionVars
  <2> QED BY <2>2, <2>3, <2>4
<1>6. CASE NobodyLeft
  BY <1>6 DEF NobodyLeft, Held, Submitted, InPlace, OwnAnswer, OwnFinal,
              OwnResult, sessionVars, answerVars
<1>7. CASE Encode
  <2>1. InPlace'
    BY <1>7 DEF Encode, InPlace, Held
  <2>2. Held' /\ Submitted' /\ OwnAnswer' /\ OwnFinal'
    BY <1>7 DEF Encode, Held, Submitted, OwnAnswer, OwnFinal, OwnResult,
                sessionVars, answerVars
  <2> QED BY <2>1, <2>2
<1>8. CASE Generate
  <2>1. InPlace'
    <3>1. PICK ok \in Accepted :
            final' = [i \in DOMAIN final |->
                       LET at == {j \in ok : FinalIndex(j) = i} IN
                         IF at = {} THEN final[i]
                                    ELSE DecodedAt(CHOOSE j \in at : TRUE)]
      BY <1>8 DEF Generate
    <3>2. ready' = ready
      BY <1>8 DEF Generate
    <3>3. /\ final \in Seq(Requests \cup {Exit})
          /\ Len(final) = Len(ready) /\ ready # <<>>
          /\ \A i \in DOMAIN final : final[i] # Exit => final[i] = ready[i]
      BY <1>8 DEF Generate, InPlace
    <3>4. ASSUME NEW i \in DOMAIN final
          PROVE  final'[i] = final[i] \/ final'[i] = ready[i]
      <4> DEFINE at == {j \in ok : FinalIndex(j) = i}
      <4>1. CASE at = {}
        BY <3>1, <4>1
      <4>2. CASE at # {}
        <5>1. (CHOOSE j \in at : TRUE) \in at
          BY <4>2
        <5>2. pending[CHOOSE j \in at : TRUE] = i
          BY <5>1 DEF FinalIndex
        <5> QED BY <3>1, <4>2, <5>2 DEF DecodedAt
      <4> QED BY <4>1, <4>2
    <3>5. DOMAIN final' = 1..Len(final) /\ DOMAIN final = 1..Len(ready)
      BY <3>1, <3>3
    <3>6. \A i \in 1..Len(final) : final'[i] \in Requests \cup {Exit}
      BY <3>3, <3>4, <3>5 DEF Held
    <3>7. final' \in Seq(Requests \cup {Exit}) /\ Len(final') = Len(final)
      <4>1. final' = [i \in 1..Len(final) |-> final'[i]]
        BY <3>1, <3>5
      <4> QED BY <3>3, <3>6, <4>1
    <3> QED BY <3>2, <3>3, <3>4, <3>5, <3>7 DEF InPlace
  <2>2. Held' /\ Submitted' /\ OwnAnswer' /\ OwnFinal'
    BY <1>8 DEF Generate, Held, Submitted, OwnAnswer, OwnFinal, OwnResult,
                sessionVars, answerVars
  <2> QED BY <2>1, <2>2
<1>9. CASE BatchFails
  <2>1. OwnAnswer'
    <3>1. Error \in Answers /\ Error.kind # "text"
      BY DEF Error, Answers
    <3> QED BY <1>9, <3>1 DEF BatchFails, OwnAnswer
  <2>2. Held'
    BY <1>9 DEF BatchFails, Held
  <2>3. Submitted' /\ InPlace' /\ OwnFinal'
    BY <1>9 DEF BatchFails, Submitted, InPlace, OwnFinal, OwnResult, sessionVars
  <2> QED BY <2>1, <2>2, <2>3
<1>10. CASE Dispatch
  <2>1. /\ final \in Seq(Requests \cup {Exit})
        /\ Len(final) = Len(ready) /\ ready # <<>>
        /\ \A i \in DOMAIN final : final[i] # Exit => final[i] = ready[i]
    BY <1>10 DEF Dispatch, InPlace
  <2>2. ready[1] \in Requests /\ (final[1] # Exit => final[1] = ready[1])
    BY <2>1 DEF Held
  <2>3. PICK a \in {Text(final[1]), Empty, Error} :
          Reply(ready[1], IF final[1] = Exit THEN Error ELSE a)
    BY <1>10 DEF Dispatch
  <2>4. (IF final[1] = Exit THEN Error ELSE a)
          \in {Text(ready[1]), Empty, Error}
    BY <2>2
  <2>5. OwnAnswer'
    BY <2>2, <2>3, <2>4, ReplyKeepsOwn
  <2>6. InPlace'
    <3>1. ready' = Tail(ready) /\ final' = Tail(final)
      BY <1>10 DEF Dispatch
    <3>2. worker' = "dispatching" => Len(ready) # 1
      BY <1>10 DEF Dispatch
    <3>3. worker' \in {"idle", "dispatching"}
      BY <1>10 DEF Dispatch
    <3>4. \A i \in DOMAIN final' : final'[i] = final[i + 1]
                                   /\ ready'[i] = ready[i + 1]
                                   /\ i + 1 \in DOMAIN final
      BY <2>1, <3>1 DEF Held
    <3>5. /\ final' \in Seq(Requests \cup {Exit})
          /\ Len(final') = Len(ready')
      BY <2>1, <3>1 DEF Held
    <3>6. ASSUME worker' = "dispatching" PROVE ready' # <<>>
      <4>1. ready \in Seq(Requests) /\ Len(ready) > 1
        BY <2>1, <3>2, <3>6 DEF Held
      <4>2. Len(Tail(ready)) = Len(ready) - 1
        BY <4>1
      <4> QED BY <3>1, <4>1, <4>2
    <3> QED BY <2>1, <3>3, <3>4, <3>5, <3>6 DEF InPlace
  <2>7. Held'
    <3>1. /\ ready' = Tail(ready) /\ queue' = queue /\ batch' = batch
          /\ worker' \in {"idle", "dispatching"}
      BY <1>10 DEF Dispatch
    <3>2. ready' \in Seq(Requests)
      BY <2>1, <3>1 DEF Held
    <3> QED BY <3>1, <3>2 DEF Held
  <2>8. Submitted' /\ OwnFinal'
    BY <1>10 DEF Dispatch, Submitted, OwnFinal, OwnResult, sessionVars
  <2> QED BY <2>5, <2>6, <2>7, <2>8
<1> QED BY <1>1, <1>2, <1>3, <1>4, <1>5, <1>6, <1>7, <1>8, <1>9, <1>10 DEF Worker

-----------------------------------------------------------------------------
(* The steps of the sessions *)

LEMMA SubmitKeeps ==
  ASSUME IInv, NEW s \in Sessions, Submit(s)
  PROVE  IInv'
<1> USE DEF IInv
<1>1. number[s] + 1 \in 1..MaxRequests[s]
  <2>1. number[s] < MaxRequests[s]
    BY DEF Submit
  <2>2. number[s] \in Nat /\ MaxRequests[s] \in Nat
    BY WorkersAssumption DEF Submitted, WorkersAssumption
  <2> QED BY <2>1, <2>2
<1>2. <<s, number[s] + 1>> \in Requests
  BY <1>1, RequestNumbers
<1>3. Held'
  <2>1. /\ queue' = Append(queue, <<s, number[s] + 1>>)
        /\ worker' = worker /\ batch' = batch /\ ready' = ready
    BY DEF Submit, workerVars
  <2> QED BY <1>2, <2>1 DEF Held
<1>4. Submitted'
  <2>1. /\ number' = [number EXCEPT ![s] = @ + 1]
        /\ thread' = [thread EXCEPT ![s] = "waiting"]
    BY DEF Submit
  <2> QED BY <1>1, <2>1, WorkersAssumption DEF Submitted
<1>5. InPlace' /\ OwnAnswer' /\ OwnFinal'
  BY DEF Submit, workerVars, answerVars, InPlace, OwnAnswer, OwnFinal, OwnResult
<1> QED BY <1>3, <1>4, <1>5

LEMMA ResumeKeeps ==
  ASSUME IInv, NEW s \in Sessions, thread[s] = "waiting", Resume(s)
  PROVE  IInv'
<1> USE DEF IInv
<1>1. Current(s) \in Requests
  <2>1. number[s] \in 1..MaxRequests[s]
    BY WorkersAssumption DEF Submitted
  <2> QED BY <2>1, RequestNumbers DEF Current
<1>2. Held' /\ InPlace' /\ OwnAnswer'
  BY DEF Resume, Held, InPlace, OwnAnswer, workerVars, answerVars
<1>3. Submitted'
  <2>1. number' = number /\ thread' = [thread EXCEPT ![s] = "looping"]
    BY DEF Resume
  <2> QED BY <2>1 DEF Submitted
<1>4. OwnFinal'
  <2>1. CASE finals' = finals
    BY <2>1 DEF OwnFinal, OwnResult
  <2>2. CASE finals' # finals
    <3>1. /\ answer[Current(s)].kind = "text"
          /\ finals' = [finals EXCEPT ![s] =
                          Append(@, [asked |-> Current(s),
                                     got |-> answer[Current(s)].of])]
      BY <2>2 DEF Resume
    <3>2. answer[Current(s)].of = Current(s)
      BY <1>1, <3>1 DEF OwnAnswer
    <3> DEFINE new == [asked |-> Current(s), got |-> Current(s)]
    <3>3. finals' = [finals EXCEPT ![s] = Append(@, new)]
      BY <3>1, <3>2
    <3>4. new \in [asked : Requests, got : Requests]
      BY <1>1
    <3>5. new.got = new.asked
      OBVIOUS
    <3> HIDE DEF new
    <3>6. finals' \in [Sessions -> Seq([asked : Requests, got : Requests])]
      <4> DEFINE Pairs == [asked : Requests, got : Requests]
      <4>1. finals \in [Sessions -> Seq(Pairs)] /\ new \in Pairs
        BY <3>4 DEF OwnFinal
      <4> HIDE DEF Pairs
      <4>2. Append(finals[s], new) \in Seq(Pairs)
        BY <4>1
      <4>3. finals' \in [Sessions -> Seq(Pairs)]
        BY <3>3, <4>1, <4>2
      <4> QED BY <4>3 DEF Pairs
    <3>7. ASSUME NEW t \in Sessions, NEW i \in DOMAIN finals'[t]
          PROVE  finals'[t][i].got = finals'[t][i].asked
      <4>1. CASE t = s
        <5>1. finals'[s] = Append(finals[s], new)
          BY <3>3 DEF OwnFinal
        <5>2. i = Len(finals[s]) + 1 \/ i \in DOMAIN finals[s]
          BY <3>4, <4>1, <5>1 DEF OwnFinal
        <5> QED BY <3>4, <3>5, <4>1, <5>1, <5>2 DEF OwnFinal, OwnResult
      <4>2. CASE t # s
        BY <3>3, <4>2 DEF OwnFinal, OwnResult
      <4> QED BY <4>1, <4>2
    <3> QED BY <3>6, <3>7 DEF OwnFinal, OwnResult
  <2> QED BY <2>1, <2>2
<1> QED BY <1>2, <1>3, <1>4

(* The translation threads and the cleanup touch none of it. *)
LEMMA OthersKeep ==
  ASSUME IInv, UNCHANGED <<queue, workerVars, answer, number, thread, finals>>
  PROVE  IInv'
  BY DEF IInv, Held, Submitted, InPlace, OwnAnswer, OwnFinal, OwnResult,
         workerVars

-----------------------------------------------------------------------------
LEMMA StepKeeps ==
  ASSUME IInv, [Next]_vars
  PROVE  IInv'
<1>1. CASE Worker
  BY <1>1, WorkerKeeps
<1>2. ASSUME NEW s \in Sessions, Recognition(s) PROVE IInv'
  <2>1. CASE Submit(s)
    BY <2>1, SubmitKeeps
  <2>2. CASE Answered(s) \/ WaitExpires(s)
    BY <2>2, ResumeKeeps DEF Answered, WaitExpires
  <2>3. CASE ThreadExits(s)
    <3>1. number' = number /\ thread' = [thread EXCEPT ![s] = "stopped"]
      BY <2>3 DEF ThreadExits
    <3>2. Submitted'
      BY <3>1 DEF Submitted, IInv
    <3>3. UNCHANGED <<queue, workerVars, answer, finals>>
      BY <2>3 DEF ThreadExits, answerVars
    <3> QED BY <3>2, <3>3 DEF IInv, Held, InPlace, OwnAnswer, OwnFinal,
                OwnResult, workerVars
  <2> QED BY <1>2, <2>1, <2>2, <2>3 DEF Recognition
<1>3. ASSUME NEW s \in Sessions, Translation(s) \/ Handler(s) PROVE IInv'
  BY <1>3, OthersKeep
     DEF Translation, Handler, LoopHead, GetTimesOut, TakeSegment, Translate,
         CleanTranslation, CleanSession, answerVars, sessionVars
<1>4. CASE UNCHANGED vars
  BY <1>4, OthersKeep DEF vars, answerVars, sessionVars
<1> QED BY <1>1, <1>2, <1>3, <1>4 DEF Next

(* Whatever raises, passes or fails in a batch, and however long an answer *)
(* takes, a session finalises only what was decoded from the window it     *)
(* asked for (batch_inference.py:367).                                     *)
THEOREM SessionsGetTheirOwn == Spec => []OwnResult
<1>1. IInv => OwnResult
  BY DEF IInv, OwnFinal
<1> QED BY <1>1, InitEstablishes, StepKeeps, PTL DEF Spec

-----------------------------------------------------------------------------
(* The way of a translated segment: from the queue through the translator's *)
(* hand to what is shown.                                                   *)
Item == Requests \cup {Exit}
Way(s) == shown[s] \o hand[s] \o tqueue[s]

TranslationTypes ==
  /\ tqueue \in [Sessions -> Seq(Item)]
  /\ hand \in [Sessions -> Seq(Item)] /\ shown \in [Sessions -> Seq(Item)]
  /\ translator \in [Sessions -> {"top", "getting", "translating", "stopped"}]
  /\ \A s \in Sessions : translator[s] # "translating" => hand[s] = <<>>

(* A number is used for one window: what was finalised or dropped has an    *)
(* earlier one than the window its session waits for.                       *)
IsPast(r, num, thr) ==
  /\ r[2] <= num[r[1]]
  /\ thr[r[1]] = "waiting" => r[2] < num[r[1]]

Earlier ==
  /\ dropped \subseteq Requests
  /\ \A r \in dropped : IsPast(r, number, thread)
  /\ \A s \in Sessions : \A i \in DOMAIN finals[s] :
       finals[s][i].asked[1] = s /\ IsPast(finals[s][i].asked, number, thread)

TInv == IInv /\ TranslationTypes /\ Earlier /\ TranslatedInOrder

LEMMA RequestParts ==
  ASSUME NEW r \in Requests
  PROVE  /\ r[1] \in Sessions /\ r[2] \in Nat /\ r # Exit
         /\ \A q \in Requests : r[1] = q[1] /\ r[2] = q[2] => r = q
<1>1. PICK s \in Sessions : r \in {s} \X (1..MaxRequests[s])
  BY DEF Requests
<1>2. r[1] = s /\ r[2] \in Nat /\ r = <<r[1], r[2]>>
  BY <1>1, WorkersAssumption
<1>3. \A q \in Requests : q = <<q[1], q[2]>>
  BY DEF Requests
<1> QED BY <1>2, <1>3, ExitIsNoRequest

Final == [asked : Requests, got : Requests]

LEMMA FinalTypes ==
  ASSUME IInv, NEW s \in Sessions
  PROVE  /\ finals \in [Sessions -> Seq(Final)]
         /\ DOMAIN finals[s] = 1..Len(finals[s]) /\ Len(finals[s]) \in Nat
         /\ \A i \in DOMAIN finals[s] : finals[s][i].asked \in Requests
<1>1. finals \in [Sessions -> Seq(Final)]
  BY DEF IInv, OwnFinal, Final
<1>2. \A x \in Final : x.asked \in Requests
  BY DEF Final
<1> QED BY <1>1, <1>2

LEMMA ItemsOfConcat ==
  ASSUME NEW S, NEW a \in Seq(S), NEW b \in Seq(S)
  PROVE  ToSet(a \o b) = ToSet(a) \cup ToSet(b)
<1>1. /\ a \o b \in Seq(S) /\ Len(a \o b) = Len(a) + Len(b)
      /\ Len(a) \in Nat /\ Len(b) \in Nat
      /\ \A i \in 1..Len(a) : (a \o b)[i] = a[i]
      /\ \A i \in 1..Len(b) : (a \o b)[Len(a) + i] = b[i]
  OBVIOUS
<1>2. ASSUME NEW i \in 1..Len(a \o b)
      PROVE  (a \o b)[i] \in ToSet(a) \cup ToSet(b)
  <2>1. CASE i <= Len(a)
    BY <1>1, <2>1 DEF ToSet
  <2>2. CASE i > Len(a)
    <3>1. i - Len(a) \in 1..Len(b) /\ Len(a) + (i - Len(a)) = i
      BY <1>1, <2>2
    <3> QED BY <1>1, <3>1 DEF ToSet
  <2> QED BY <1>1, <2>1, <2>2
<1>3. ASSUME NEW i \in 1..Len(a) PROVE a[i] \in ToSet(a \o b)
  BY <1>1 DEF ToSet
<1>4. ASSUME NEW i \in 1..Len(b) PROVE b[i] \in ToSet(a \o b)
  <2>1. Len(a) + i \in DOMAIN (a \o b)
    BY <1>1
  <2> QED BY <1>1, <2>1 DEF ToSet
<1>5. /\ ToSet(a \o b) = {(a \o b)[i] : i \in 1..Len(a \o b)}
      /\ ToSet(a) = {a[i] : i \in 1..Len(a)}
      /\ ToSet(b) = {b[i] : i \in 1..Len(b)}
  BY <1>1 DEF ToSet
<1> QED BY <1>2, <1>3, <1>4, <1>5

(* One more item at the end: an exit signal, or a window later than all.    *)
LEMMA OrderAppends ==
  ASSUME NEW q \in Seq(Item), InWindowOrder(q), NEW x \in Item,
         x # Exit => \A y \in ToSet(q) : y # Exit => y[2] < x[2]
  PROVE  InWindowOrder(Append(q, x)) /\ ToSet(Append(q, x)) = ToSet(q) \cup {x}
<1> DEFINE w == Append(q, x)
<1>1. /\ DOMAIN w = 1..(Len(q) + 1) /\ DOMAIN q = 1..Len(q) /\ Len(q) \in Nat
      /\ \A i \in 1..Len(q) : w[i] = q[i]
      /\ w[Len(q) + 1] = x
  OBVIOUS
<1> HIDE DEF w
<1>2. ASSUME NEW i \in DOMAIN w, NEW j \in DOMAIN w, i < j,
             w[i] # Exit, w[j] # Exit
      PROVE  w[i][2] < w[j][2]
  <2>1. i \in 1..Len(q)
    BY <1>1, <1>2
  <2>2. CASE j \in 1..Len(q)
    BY <1>1, <1>2, <2>1, <2>2 DEF InWindowOrder
  <2>3. CASE j = Len(q) + 1
    BY <1>1, <1>2, <2>1, <2>3 DEF ToSet
  <2> QED BY <1>1, <2>2, <2>3
<1>3. ToSet(w) = ToSet(q) \cup {x}
  <2>1. ASSUME NEW i \in DOMAIN w PROVE w[i] \in ToSet(q) \cup {x}
    <3>1. i \in 1..Len(q) \/ i = Len(q) + 1
      BY <1>1
    <3> QED BY <1>1, <3>1 DEF ToSet
  <2>2. \A i \in DOMAIN q : q[i] \in ToSet(w)
    BY <1>1 DEF ToSet
  <2>3. x \in ToSet(w)
    <3>1. Len(q) + 1 \in DOMAIN w
      BY <1>1
    <3> QED BY <1>1, <3>1 DEF ToSet
  <2> QED BY <2>1, <2>2, <2>3 DEF ToSet
<1> QED BY <1>2, <1>3 DEF InWindowOrder, w

(* Taking an exit signal out of the middle.                                 *)
LEMMA OrderWithoutExit ==
  ASSUME NEW a \in Seq(Item), NEW b \in Seq(Item),
         InWindowOrder(a \o (<<Exit>> \o b))
  PROVE  InWindowOrder(a \o b)
<1> DEFINE w == a \o b
           v == a \o (<<Exit>> \o b)
           At(i) == IF i <= Len(a) THEN i ELSE i + 1
<1>1. /\ DOMAIN w = 1..(Len(a) + Len(b)) /\ DOMAIN v = 1..(Len(a) + Len(b) + 1)
      /\ Len(a) \in Nat /\ Len(b) \in Nat
      /\ \A i \in DOMAIN w : At(i) \in DOMAIN v /\ v[At(i)] = w[i]
  <2>1. /\ <<Exit>> \o b \in Seq(Item) /\ Len(<<Exit>> \o b) = Len(b) + 1
        /\ \A i \in 1..Len(b) : (<<Exit>> \o b)[i + 1] = b[i]
    <3>1. Exit \in Item
      BY DEF Item
    <3> QED BY <3>1
  <2> DEFINE c == <<Exit>> \o b
  <2>5. \A i \in 1..Len(b) : c[i + 1] = b[i]
    BY <2>1
  <2> HIDE DEF c
  <2>2. /\ DOMAIN (a \o c) = 1..(Len(a) + Len(b) + 1)
        /\ \A i \in 1..Len(a) : (a \o c)[i] = a[i]
        /\ \A i \in 1..(Len(b) + 1) : (a \o c)[Len(a) + i] = c[i]
    BY <2>1 DEF c
  <2>3. /\ DOMAIN w = 1..(Len(a) + Len(b)) /\ Len(a) \in Nat /\ Len(b) \in Nat
        /\ \A i \in 1..Len(a) : w[i] = a[i]
        /\ \A i \in 1..Len(b) : w[Len(a) + i] = b[i]
    OBVIOUS
  <2>4. ASSUME NEW i \in DOMAIN w
        PROVE  At(i) \in DOMAIN (a \o c) /\ (a \o c)[At(i)] = w[i]
    <3>1. CASE i <= Len(a)
      BY <2>2, <2>3, <3>1
    <3>2. CASE i > Len(a)
      <4>1. i - Len(a) \in 1..Len(b) /\ i + 1 = Len(a) + (i - Len(a) + 1)
            /\ Len(a) + (i - Len(a)) = i /\ i - Len(a) + 1 \in 1..(Len(b) + 1)
        BY <2>3, <3>2
      <4>2. (a \o c)[i + 1] = c[i - Len(a) + 1] /\ w[i] = b[i - Len(a)]
        BY <2>2, <2>3, <4>1
      <4>3. c[i - Len(a) + 1] = b[i - Len(a)]
        BY <2>5, <4>1
      <4>4. At(i) = i + 1 /\ i + 1 \in DOMAIN (a \o c)
        BY <2>2, <2>3, <3>2
      <4> QED BY <4>2, <4>3, <4>4
    <3> QED BY <2>3, <3>1, <3>2
  <2> QED BY <2>2, <2>3, <2>4 DEF c
<1>2. \A i, j \in DOMAIN w : i < j => At(i) < At(j)
  BY <1>1
<1> HIDE DEF w, v, At
<1>3. InWindowOrder(v)
  BY DEF v
<1>4. InWindowOrder(w)
  BY <1>1, <1>2, <1>3 DEF InWindowOrder
<1> QED BY <1>4 DEF w

-----------------------------------------------------------------------------
LEMMA InitTInv == Init => TInv
<1> SUFFICES ASSUME Init PROVE TInv
  OBVIOUS
<1>1. IInv
  BY InitEstablishes
<1>2. TranslationTypes
  BY DEF Init, TranslationTypes
<1>3. Earlier
  BY DEF Init, Earlier
<1>4. ASSUME NEW s \in Sessions
      PROVE  /\ InWindowOrder(Asked(s)) /\ InWindowOrder(Way(s))
             /\ ToSet(Way(s)) \ {Exit} = ToSet(Asked(s)) \ dropped
  <2>1. finals[s] = <<>> /\ shown[s] = <<>> /\ hand[s] = <<>> /\ tqueue[s] = <<>>
    BY DEF Init
  <2>2. Way(s) = <<>> /\ Asked(s) = <<>>
    BY <2>1 DEF Way, Asked
  <2> QED BY <2>2 DEF InWindowOrder, ToSet
<1> QED BY <1>1, <1>2, <1>3, <1>4, WorkersAssumption
        DEF TInv, TranslatedInOrder, Way

(* The way as a whole, and what the invariant says of it. *)
LEMMA WayTypes ==
  ASSUME TInv, NEW s \in Translated
  PROVE  /\ s \in Sessions
         /\ tqueue[s] \in Seq(Item) /\ hand[s] \in Seq(Item)
         /\ shown[s] \in Seq(Item) /\ Way(s) \in Seq(Item)
         /\ Way(s) = shown[s] \o (hand[s] \o tqueue[s])
         /\ InWindowOrder(Asked(s)) /\ InWindowOrder(Way(s))
         /\ ToSet(Way(s)) \ {Exit} = ToSet(Asked(s)) \ dropped
         /\ Asked(s) \in Seq(Requests)
<1>1. s \in Sessions
  BY WorkersAssumption
<1>2. tqueue[s] \in Seq(Item) /\ hand[s] \in Seq(Item) /\ shown[s] \in Seq(Item)
  BY <1>1 DEF TInv, TranslationTypes
<1>3. Way(s) = shown[s] \o (hand[s] \o tqueue[s])
  <2>1. \A a, b, c \in Seq(Item) : (a \o b) \o c = a \o (b \o c)
    BY ConcatAssociative
  <2> QED BY <1>2, <2>1, Zenon DEF Way
<1>5. Way(s) \in Seq(Item)
  <2>1. shown[s] \o hand[s] \in Seq(Item)
    BY <1>2, ConcatProperties
  <2> QED BY <1>2, <2>1, ConcatProperties DEF Way
<1>4. Asked(s) \in Seq(Requests)
  BY <1>1, FinalTypes DEF TInv, Asked
<1> QED BY <1>1, <1>2, <1>3, <1>4, <1>5 DEF TInv, TranslatedInOrder, Way

(* What neither finalises nor moves a segment keeps the order. *)
LEMMA UnmovedKeeps ==
  ASSUME TInv, UNCHANGED <<finals, tqueue, hand, shown, dropped>>
  PROVE  TranslatedInOrder'
<1>1. TranslatedInOrder
  BY DEF TInv
<1>2. ASSUME NEW s \in Translated
      PROVE  /\ Way(s)' = Way(s) /\ Asked(s)' = Asked(s)
  BY DEF Way, Asked
<1>3. dropped' = dropped
  OBVIOUS
<1>4. ASSUME NEW s \in Translated
      PROVE  /\ InWindowOrder(Asked(s)') /\ InWindowOrder(Way(s)')
             /\ ToSet(Way(s)') \ {Exit} = ToSet(Asked(s)') \ dropped'
  BY <1>1, <1>2, <1>3, Zenon DEF TranslatedInOrder, Way
<1> QED BY <1>4, Zenon DEF TranslatedInOrder, Way, InWindowOrder

LEMMA SubmitTInv ==
  ASSUME TInv, NEW s \in Sessions, Submit(s)
  PROVE  TInv'
<1>1. IInv'
  BY SubmitKeeps DEF TInv
<1>2. UNCHANGED <<finals, tqueue, dropped, translator, hand, shown>>
  BY DEF Submit, translationVars
<1>3. TranslationTypes'
  BY <1>2 DEF TInv, TranslationTypes
<1>4. /\ number' = [number EXCEPT ![s] = @ + 1]
      /\ thread' = [thread EXCEPT ![s] = "waiting"]
  BY DEF Submit
<1>5. ASSUME NEW r \in Requests, IsPast(r, number, thread)
      PROVE  IsPast(r, number', thread')
  <2>1. r[2] \in Nat /\ r[1] \in Sessions /\ number[r[1]] \in Nat
    BY RequestParts DEF TInv, IInv, Submitted
  <2>2. /\ number'[r[1]] = IF r[1] = s THEN number[r[1]] + 1 ELSE number[r[1]]
        /\ r[1] # s => thread'[r[1]] = thread[r[1]]
    BY <1>4, <2>1 DEF TInv, IInv, Submitted
  <2> QED BY <1>5, <2>1, <2>2 DEF IsPast
<1>6. Earlier'
  <2>1. \A u \in Sessions : \A i \in DOMAIN finals[u] :
          finals[u][i].asked \in Requests
    BY FinalTypes DEF TInv
  <2> QED BY <1>2, <1>5, <2>1 DEF TInv, Earlier
<1> QED BY <1>1, <1>2, <1>3, <1>6, UnmovedKeeps DEF TInv

LEMMA ResumeTInv ==
  ASSUME TInv, NEW s \in Sessions, thread[s] = "waiting", Resume(s)
  PROVE  TInv'
<1> DEFINE r == Current(s)
           new == [asked |-> r, got |-> answer[r].of]
<1>1. IInv'
  BY ResumeKeeps DEF TInv
<1>2. UNCHANGED <<number, translator, hand, shown>>
      /\ thread' = [thread EXCEPT ![s] = "looping"]
  BY DEF Resume
<1>3. r \in Requests /\ r[1] = s /\ r[2] = number[s] /\ r # Exit
  <2>1. number[s] \in 1..MaxRequests[s]
    BY WorkersAssumption DEF TInv, IInv, Submitted
  <2> QED BY <2>1, RequestNumbers, RequestParts DEF Current
<1>4. ASSUME NEW q \in Requests, IsPast(q, number, thread)
      PROVE  IsPast(q, number', thread')
  <2>1. q[1] \in Sessions
    BY RequestParts
  <2>2. thread'[q[1]] = "waiting" => thread[q[1]] = "waiting"
    BY <1>2, <2>1 DEF TInv, IInv, Submitted
  <2> QED BY <1>2, <1>4, <2>2 DEF IsPast
<1>5. \A u \in Sessions : \A i \in DOMAIN finals[u] :
        finals[u][i].asked \in Requests
  BY FinalTypes DEF TInv
<1>6. CASE UNCHANGED <<finals, tqueue, dropped>>
  <2>1. TranslationTypes'
    BY <1>2, <1>6 DEF TInv, TranslationTypes
  <2>2. Earlier'
    BY <1>4, <1>5, <1>6 DEF TInv, Earlier
  <2> QED BY <1>1, <1>2, <1>6, <2>1, <2>2, UnmovedKeeps DEF TInv
<1>7. CASE answer[r].kind = "text"
           /\ finals' = [finals EXCEPT ![s] = Append(@, new)] /\ Put(s, r)
  <2> HIDE DEF r
  <2>1. /\ tqueue' = tqueue \/ tqueue' = [tqueue EXCEPT ![s] = Append(@, r)]
        /\ dropped' = dropped \/ dropped' = dropped \cup {r}
        /\ s \in Translated =>
             \/ tqueue' = [tqueue EXCEPT ![s] = Append(@, r)] /\ dropped' = dropped
             \/ tqueue' = tqueue /\ dropped' = dropped \cup {r}
    BY <1>7 DEF Put
  <2>2. TranslationTypes'
    <3>1. r \in Item
      BY <1>3 DEF Item
    <3>2. tqueue' \in [Sessions -> Seq(Item)]
      <4>1. tqueue \in [Sessions -> Seq(Item)]
        BY DEF TInv, TranslationTypes
      <4>2. Append(tqueue[s], r) \in Seq(Item)
        BY <3>1, <4>1
      <4> QED BY <2>1, <4>1, <4>2
    <3> QED BY <1>2, <3>2 DEF TInv, TranslationTypes
  <2>3. /\ \A u \in Sessions : u # s => finals'[u] = finals[u]
        /\ finals'[s] = Append(finals[s], new)
    BY <1>7 DEF TInv, IInv, OwnFinal
  <2>4. finals[s] \in Seq(Final)
    BY FinalTypes DEF TInv
  <2>5. /\ DOMAIN finals'[s] = 1..(Len(finals[s]) + 1)
        /\ DOMAIN finals[s] = 1..Len(finals[s]) /\ Len(finals[s]) \in Nat
        /\ \A i \in 1..Len(finals[s]) : finals'[s][i] = finals[s][i]
        /\ finals'[s][Len(finals[s]) + 1] = new
    <3> HIDE DEF new
    <3> QED BY <2>3, <2>4
  <2>6. IsPast(r, number', thread')
    <3>1. number[s] \in Nat /\ thread'[s] = "looping" /\ number'[s] = number[s]
      BY <1>2 DEF TInv, IInv, Submitted
    <3> QED BY <1>3, <3>1 DEF IsPast
  <2>7. Earlier'
    <3>1. dropped' \subseteq Requests
      BY <1>3, <2>1 DEF TInv, Earlier
    <3>2. ASSUME NEW q \in dropped' PROVE IsPast(q, number', thread')
      <4>1. q = r \/ q \in dropped
        BY <2>1
      <4> QED BY <1>4, <2>6, <4>1 DEF TInv, Earlier
    <3>3. ASSUME NEW u \in Sessions, NEW i \in DOMAIN finals'[u]
          PROVE  /\ finals'[u][i].asked[1] = u
                 /\ IsPast(finals'[u][i].asked, number', thread')
      <4>1. CASE u = s /\ i = Len(finals[s]) + 1
        BY <1>3, <2>5, <2>6, <4>1
      <4>2. CASE u # s \/ i # Len(finals[s]) + 1
        <5>1. finals'[u][i] = finals[u][i] /\ i \in DOMAIN finals[u]
          BY <2>3, <2>5, <4>2
        <5> QED BY <1>4, <1>5, <5>1 DEF TInv, Earlier
      <4> QED BY <4>1, <4>2
    <3> QED BY <3>1, <3>2, <3>3 DEF Earlier
  <2>8. TranslatedInOrder'
    <3>1. ASSUME NEW u \in Translated, u # s
          PROVE  /\ InWindowOrder(Asked(u)') /\ InWindowOrder(Way(u)')
                 /\ ToSet(Way(u)') \ {Exit} = ToSet(Asked(u)') \ dropped'
      <4>1. u \in Sessions
        BY WorkersAssumption
      <4>2. Asked(u)' = Asked(u) /\ Way(u)' = Way(u)
        BY <1>2, <2>1, <2>3, <3>1, <4>1 DEF Asked, Way, TInv, TranslationTypes
      <4>3. r \notin ToSet(Asked(u))
        BY <1>3, <3>1, <4>1 DEF Asked, ToSet, TInv, Earlier
      <4> QED BY <2>1, <4>2, <4>3, WayTypes
    <3>2. ASSUME s \in Translated
          PROVE  /\ InWindowOrder(Asked(s)') /\ InWindowOrder(Way(s)')
                 /\ ToSet(Way(s)') \ {Exit} = ToSet(Asked(s)') \ dropped'
      <4>1. \A y \in ToSet(Asked(s)) : y \in Requests /\ y[2] < r[2]
        <5>1. \A i \in DOMAIN finals[s] : /\ finals[s][i].asked \in Requests
                                          /\ finals[s][i].asked[2] < r[2]
          BY <1>3, <1>5 DEF TInv, Earlier, IsPast
        <5> QED BY <5>1 DEF Asked, ToSet
      <4>2. r \notin dropped /\ r \notin ToSet(Asked(s))
        <5>1. r[2] \in Nat
          BY <1>3, RequestParts
        <5>2. r \in dropped => r[2] < r[2]
          BY <1>3 DEF TInv, Earlier, IsPast
        <5> QED BY <4>1, <5>1, <5>2
      <4>3. Asked(s)' = Append(Asked(s), r)
        <5>1. Asked(s)' = [i \in 1..(Len(finals[s]) + 1) |-> finals'[s][i].asked]
          BY <2>5 DEF Asked
        <5> DEFINE q == Asked(s)
                   n == Len(finals[s])
        <5>2. q = [i \in 1..n |-> finals[s][i].asked] /\ n \in Nat
          BY <2>5 DEF Asked
        <5>3. q \in Seq(Requests)
          BY <3>2, WayTypes
        <5>4. \A i \in 1..n : q[i] = finals'[s][i].asked
          BY <2>5, <5>2
        <5>5. finals'[s][n + 1].asked = r
          BY <2>5
        <5> HIDE DEF q, n
        <5>6. Len(q) = n
          BY <5>2, <5>3
        <5>7. Append(q, r) = [i \in 1..(n + 1) |-> finals'[s][i].asked]
          BY <5>2, <5>3, <5>4, <5>5, <5>6
        <5> QED BY <5>1, <5>7 DEF q, n
      <4>4. /\ InWindowOrder(Asked(s)')
            /\ ToSet(Asked(s)') = ToSet(Asked(s)) \cup {r}
        <5>1. r \in Item /\ Requests \subseteq Item
          BY <1>3 DEF Item
        <5>2. Asked(s) \in Seq(Requests) /\ InWindowOrder(Asked(s))
          BY <3>2, WayTypes
        <5>3. Asked(s) \in Seq(Item)
          BY <5>1, <5>2
        <5> QED BY <4>1, <4>3, <5>1, <5>2, <5>3, OrderAppends
      <4>5. CASE tqueue' = tqueue /\ dropped' = dropped \cup {r}
        <5>1. Way(s)' = Way(s)
          BY <1>2, <4>5 DEF Way
        <5> QED BY <3>2, <4>2, <4>4, <4>5, <5>1, WayTypes
      <4>6. CASE tqueue' = [tqueue EXCEPT ![s] = Append(@, r)]
                 /\ dropped' = dropped
        <5>1. Way(s)' = Append(Way(s), r)
          <6>1. tqueue'[s] = Append(tqueue[s], r)
            BY <4>6 DEF TInv, TranslationTypes
          <6>2. r \in Item
            BY <1>3 DEF Item
          <6>3. \A a \in Seq(Item), b \in Seq(Item) :
                  a \o Append(b, r) = Append(a \o b, r)
            BY <6>2
          <6>4. shown[s] \o hand[s] \in Seq(Item) /\ tqueue[s] \in Seq(Item)
            BY <3>2, WayTypes, ConcatProperties
          <6> QED BY <1>2, <6>1, <6>3, <6>4 DEF Way
        <5>2. \A y \in ToSet(Way(s)) : y # Exit => y[2] < r[2]
          BY <3>2, <4>1, WayTypes
        <5>3. /\ InWindowOrder(Way(s)')
              /\ ToSet(Way(s)') = ToSet(Way(s)) \cup {r}
          <6>1. r \in Item
            BY <1>3 DEF Item
          <6> QED BY <3>2, <5>1, <5>2, <6>1, WayTypes, OrderAppends
        <5> QED BY <1>3, <3>2, <4>2, <4>4, <4>6, <5>3, WayTypes
      <4> QED BY <2>1, <3>2, <4>5, <4>6
    <3> QED BY <3>1, <3>2 DEF TranslatedInOrder, Way
  <2> QED BY <1>1, <2>2, <2>7, <2>8 DEF TInv
<1> QED BY <1>6, <1>7 DEF Resume

(* The translator's own steps and the exit signal. *)
LEMMA TranslatorTInv ==
  ASSUME TInv, NEW s \in Sessions,
         TakeSegment(s) \/ Translate(s) \/ CleanTranslation(s)
  PROVE  TInv'
<1>1. UNCHANGED <<queue, workerVars, answer, number, thread, finals, dropped>>
  BY DEF TakeSegment, Translate, CleanTranslation, answerVars, sessionVars
<1>2. IInv'
  BY <1>1, OthersKeep DEF TInv
<1>3. Earlier'
  BY <1>1 DEF TInv, Earlier
<1>4. /\ tqueue \in [Sessions -> Seq(Item)] /\ Exit \in Item
      /\ hand \in [Sessions -> Seq(Item)] /\ shown \in [Sessions -> Seq(Item)]
      /\ translator \in [Sessions -> {"top", "getting", "translating", "stopped"}]
      /\ \A u \in Sessions : translator[u] # "translating" => hand[u] = <<>>
  BY DEF TInv, TranslationTypes, Item
<1>5. \A u \in Sessions : u # s =>
        Way(u)' = Way(u) /\ UNCHANGED <<translator[u], hand[u]>>
  BY <1>4 DEF TakeSegment, Translate, CleanTranslation, Way
<1>6. \A u \in Sessions : Asked(u)' = Asked(u)
  BY <1>1 DEF Asked
<1>7. CASE CleanTranslation(s)
  <2>1. TranslationTypes'
    <3>1. Append(tqueue[s], Exit) \in Seq(Item)
      BY <1>4
    <3> QED BY <1>4, <1>7, <3>1 DEF CleanTranslation, TranslationTypes
  <2>2. ASSUME NEW u \in Translated
        PROVE  /\ InWindowOrder(Way(u)')
               /\ ToSet(Way(u)') \ {Exit} = ToSet(Way(u)) \ {Exit}
    <3>1. CASE Way(u)' = Way(u)
      BY <3>1, WayTypes
    <3>2. CASE Way(u)' = Append(Way(u), Exit)
      BY <1>4, <3>2, OrderAppends, WayTypes
    <3>3. Way(u)' = Way(u) \/ Way(u)' = Append(Way(u), Exit)
      <4>1. tqueue'[u] = tqueue[u] \/ tqueue'[u] = Append(tqueue[u], Exit)
        BY <1>4, <1>7, WayTypes DEF CleanTranslation
      <4>2. \A a \in Seq(Item), b \in Seq(Item) :
              a \o Append(b, Exit) = Append(a \o b, Exit)
        BY <1>4
      <4>3. shown[u] \o hand[u] \in Seq(Item) /\ tqueue[u] \in Seq(Item)
        BY WayTypes, ConcatProperties
      <4>4. shown' = shown /\ hand' = hand
        BY <1>7 DEF CleanTranslation
      <4> QED BY <4>1, <4>2, <4>3, <4>4 DEF Way
    <3> QED BY <3>1, <3>2, <3>3
  <2>3. TranslatedInOrder'
    BY <1>1, <1>6, <2>2, WayTypes, WorkersAssumption DEF TranslatedInOrder, Way
  <2> QED BY <1>2, <1>3, <2>1, <2>3 DEF TInv
<1>8. CASE TakeSegment(s)
  <2>1. /\ tqueue[s] # <<>> /\ tqueue' = [tqueue EXCEPT ![s] = Tail(@)]
        /\ shown' = shown /\ hand[s] = <<>>
        /\ \/ /\ Head(tqueue[s]) = Exit /\ hand' = hand
              /\ translator' = [translator EXCEPT ![s] = "stopped"]
           \/ /\ Head(tqueue[s]) # Exit
              /\ translator' = [translator EXCEPT ![s] = "translating"]
              /\ hand' = [hand EXCEPT ![s] = <<Head(tqueue[s])>>]
    BY <1>4, <1>8 DEF TakeSegment
  <2>2. /\ Head(tqueue[s]) \in Item /\ Tail(tqueue[s]) \in Seq(Item)
        /\ tqueue[s] = <<Head(tqueue[s])>> \o Tail(tqueue[s])
    BY <1>4, <2>1
  <2>3. TranslationTypes'
    <3>1. <<Head(tqueue[s])>> \in Seq(Item)
      BY <2>2
    <3>2. tqueue' \in [Sessions -> Seq(Item)] /\ shown' \in [Sessions -> Seq(Item)]
      BY <1>4, <2>1, <2>2
    <3>3. hand' \in [Sessions -> Seq(Item)]
      BY <1>4, <2>1, <3>1
    <3>4. /\ translator' \in [Sessions -> {"top", "getting", "translating",
                                           "stopped"}]
          /\ \A u \in Sessions : translator'[u] # "translating" => hand'[u] = <<>>
      BY <1>4, <2>1
    <3> QED BY <3>2, <3>3, <3>4 DEF TranslationTypes
  <2>4. ASSUME s \in Translated
        PROVE  /\ InWindowOrder(Way(s)')
               /\ ToSet(Way(s)') \ {Exit} = ToSet(Way(s)) \ {Exit}
    <3> DEFINE t == Tail(tqueue[s])
    <3>1. tqueue'[s] = t
      BY <1>4, <2>1
    <3>2. Way(s) = shown[s] \o (<<Head(tqueue[s])>> \o t)
      <4>1. hand[s] \o tqueue[s] = tqueue[s]
        BY <1>4, <2>1, ConcatEmptySeq
      <4> QED BY <2>2, <2>4, <4>1, WayTypes
    <3>3. CASE Head(tqueue[s]) = Exit
      <4>1. Way(s)' = shown[s] \o t
        <5>1. shown[s] \o <<>> = shown[s]
          BY <1>4, ConcatEmptySeq
        <5> QED BY <2>1, <3>1, <3>3, <5>1 DEF Way
      <4>2. /\ t \in Seq(Item) /\ shown[s] \in Seq(Item)
            /\ Way(s) = shown[s] \o (<<Exit>> \o t)
        BY <1>4, <2>2, <3>2, <3>3
      <4> HIDE DEF t
      <4>3. InWindowOrder(Way(s)')
        <5>1. InWindowOrder(shown[s] \o (<<Exit>> \o t))
          BY <2>4, <4>2, WayTypes
        <5>2. InWindowOrder(shown[s] \o t)
          BY <4>2, <5>1, OrderWithoutExit
        <5> QED BY <4>1, <5>2
      <4>4. ToSet(Way(s)) = ToSet(shown[s]) \cup ({Exit} \cup ToSet(t))
        <5> DEFINE e == <<Exit>>
        <5>1. e \in Seq(Item) /\ ToSet(e) = {Exit} /\ Way(s) = shown[s] \o (e \o t)
          BY <1>4, <4>2 DEF ToSet
        <5> HIDE DEF e
        <5>2. \A x, y \in Seq(Item) : /\ x \o y \in Seq(Item)
                                      /\ ToSet(x \o y) = ToSet(x) \cup ToSet(y)
          BY ItemsOfConcat, ConcatProperties
        <5>3. e \o t \in Seq(Item) /\ ToSet(e \o t) = {Exit} \cup ToSet(t)
          BY <4>2, <5>1, <5>2
        <5> QED BY <4>2, <5>1, <5>2, <5>3
      <4>5. ToSet(Way(s)') = ToSet(shown[s]) \cup ToSet(t)
        <5>1. ToSet(shown[s] \o t) = ToSet(shown[s]) \cup ToSet(t)
          BY <4>2, ItemsOfConcat
        <5> QED BY <4>1, <5>1
      <4> QED BY <4>3, <4>4, <4>5
    <3>4. CASE Head(tqueue[s]) # Exit
      <4>1. hand'[s] = <<Head(tqueue[s])>> /\ shown'[s] = shown[s]
        BY <1>4, <2>1, <3>4
      <4>2. Way(s)' = (shown[s] \o <<Head(tqueue[s])>>) \o t
        BY <3>1, <4>1 DEF Way
      <4>3. \A a, b, c \in Seq(Item) : (a \o b) \o c = a \o (b \o c)
        BY ConcatAssociative
      <4>4. Way(s)' = Way(s)
        <5>1. <<Head(tqueue[s])>> \in Seq(Item) /\ shown[s] \in Seq(Item)
          BY <1>4, <2>2
        <5> QED BY <2>2, <3>2, <4>2, <4>3, <5>1, Zenon
      <4> QED BY <2>4, <4>4, WayTypes
    <3> QED BY <3>3, <3>4
  <2>5. TranslatedInOrder'
    BY <1>1, <1>5, <1>6, <2>4, WayTypes, WorkersAssumption
       DEF TranslatedInOrder, Way
  <2> QED BY <1>2, <1>3, <2>3, <2>5 DEF TInv
<1>9. CASE Translate(s)
  <2>1. /\ shown' = [shown EXCEPT ![s] = @ \o hand[s]]
        /\ hand' = [hand EXCEPT ![s] = <<>>] /\ tqueue' = tqueue
        /\ translator' = [translator EXCEPT ![s] = "top"]
    BY <1>9 DEF Translate
  <2>2. shown[s] \o hand[s] \in Seq(Item)
    BY <1>4, ConcatProperties
  <2>3. TranslationTypes'
    BY <1>4, <2>1, <2>2 DEF TranslationTypes
  <2>4. Way(s)' = Way(s)
    <3>1. (shown[s] \o hand[s]) \o <<>> = shown[s] \o hand[s]
      BY <2>2, ConcatEmptySeq
    <3> QED BY <1>4, <2>1, <3>1 DEF Way
  <2>5. TranslatedInOrder'
    BY <1>1, <1>5, <1>6, <2>4, WayTypes, WorkersAssumption
       DEF TranslatedInOrder, Way
  <2> QED BY <1>2, <1>3, <2>3, <2>5 DEF TInv
<1> QED BY <1>7, <1>8, <1>9

LEMMA StepTInv ==
  ASSUME TInv, [Next]_vars
  PROVE  TInv'
<1>1. ASSUME UNCHANGED <<finals, tqueue, dropped, hand, shown, number>>, IInv',
             translator' = translator /\ thread' = thread
      PROVE  TInv'
  <2>1. TranslationTypes' /\ Earlier'
    BY <1>1 DEF TInv, TranslationTypes, Earlier
  <2> QED BY <1>1, <2>1, UnmovedKeeps DEF TInv
<1>2. IInv'
  BY StepKeeps DEF TInv
<1>3. CASE Worker
  BY <1>1, <1>2, <1>3
     DEF Worker, TakeFirst, TakeMore, CloseWindow, ProcessSingle, Prepare,
         NobodyLeft, Encode, Generate, BatchFails, Dispatch, sessionVars,
         translationVars
<1>4. ASSUME NEW s \in Sessions, Recognition(s) PROVE TInv'
  <2>1. CASE Submit(s)
    BY <2>1, SubmitTInv
  <2>2. CASE Answered(s) \/ WaitExpires(s)
    BY <2>2, ResumeTInv DEF Answered, WaitExpires
  <2>3. CASE ThreadExits(s)
    <3>1. /\ UNCHANGED <<finals, tqueue, dropped, hand, shown, number, translator>>
          /\ thread' = [thread EXCEPT ![s] = "stopped"]
      BY <2>3 DEF ThreadExits, translationVars
    <3>2. ASSUME NEW r \in Requests, IsPast(r, number, thread)
          PROVE  IsPast(r, number', thread')
      <4>1. r[1] \in Sessions
        BY RequestParts
      <4>2. thread'[r[1]] = "waiting" => thread[r[1]] = "waiting"
        BY <3>1, <4>1 DEF TInv, IInv, Submitted
      <4> QED BY <3>1, <3>2, <4>2 DEF IsPast
    <3>3. \A u \in Sessions : \A i \in DOMAIN finals[u] :
            finals[u][i].asked \in Requests
      BY FinalTypes DEF TInv
    <3>4. Earlier'
      BY <3>1, <3>2, <3>3 DEF TInv, Earlier
    <3>5. TranslationTypes'
      BY <3>1 DEF TInv, TranslationTypes
    <3> QED BY <1>2, <3>1, <3>4, <3>5, UnmovedKeeps DEF TInv
  <2> QED BY <1>4, <2>1, <2>2, <2>3 DEF Recognition
<1>5. ASSUME NEW s \in Sessions, Translation(s) \/ Handler(s) PROVE TInv'
  <2>1. CASE TakeSegment(s) \/ Translate(s) \/ CleanTranslation(s)
    BY <2>1, TranslatorTInv
  <2>2. CASE CleanSession(s)
    BY <1>1, <1>2, <2>2 DEF CleanSession, sessionVars, translationVars
  <2>3. CASE LoopHead(s) \/ GetTimesOut(s)
    <3>1. /\ UNCHANGED <<finals, tqueue, dropped, hand, shown, number, thread>>
          /\ translator[s] # "translating"
          /\ \E p \in {"top", "getting", "stopped"} :
               translator' = [translator EXCEPT ![s] = p]
      BY <2>3 DEF LoopHead, GetTimesOut, sessionVars
    <3>2. TranslationTypes' /\ Earlier'
      BY <3>1 DEF TInv, TranslationTypes, Earlier
    <3> QED BY <1>2, <3>1, <3>2, UnmovedKeeps DEF TInv
  <2> QED BY <1>5, <2>1, <2>2, <2>3 DEF Translation, Handler
<1>6. CASE UNCHANGED vars
  BY <1>1, <1>2, <1>6 DEF vars, sessionVars, translationVars
<1> QED BY <1>3, <1>4, <1>5, <1>6 DEF Next

(* Whatever is answered late or not at all, whenever the queue is full and  *)
(* the session is cleaned up: what a session finalised is in the order of   *)
(* its windows, and each of these segments is translated once, in order, or *)
(* on its way, unless the queue was full (base.py:642).                     *)
THEOREM SegmentsAreTranslatedInOrder == Spec => []TranslatedInOrder
<1>1. TInv => TranslatedInOrder
  BY DEF TInv
<1> QED BY <1>1, InitTInv, StepTInv, PTL DEF Spec
=============================================================================

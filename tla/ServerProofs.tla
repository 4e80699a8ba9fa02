----------------------------- MODULE ServerProofs -----------------------------
(***************************************************************************)
(* Theorems about the server, one section for each of its models.          *)
(*                                                                         *)
(* ServerSessions, for any number of connections and any max_clients: what *)
(* a registered connection held is released on every way out, and          *)
(* handshakes that do not overlap keep the capacity, give every session    *)
(* its own voice activity setting and start one batch worker.              *)
(*                                                                         *)
(* Transcriber, for every recording, every number and place of the         *)
(* stretches of speech and every answer of the model: each round moves     *)
(* seek forward, and the segments that got their words come in order, on   *)
(* the time of the whole recording up to what the aligner's words grow.    *)
(*                                                                         *)
(* SegmentPath, for every number of texts, segments and rounds and every   *)
(* setting of the buffer and the clipping: timestamp_offset does not run   *)
(* ahead of the audio unless a trim of the buffer moved it in a decode.    *)
(* And for every sequence of results, whatever the texts are worth: no     *)
(* segment is sent twice while the deduplicator can know it, what is clear *)
(* is sent until the transcript is cut, and what is not is sent exactly    *)
(* when it was heard before.                                               *)
(***************************************************************************)
EXTENDS ServerSessions, Transcriber, SegmentPath, FiniteSetTheorems,
        SequenceTheorems, WellFoundedInduction, TLAPS

-----------------------------------------------------------------------------
(* ServerSessions: the registry and the handshakes *)

\* A handler that is past the capacity check and not yet in the registry.
Admitted == {"build", "ready", "worker", "start", "register"}

\* The registry holds what was registered and has not been cleaned up.
Registry ==
  \A c \in Conns :
    /\ c \in clients <=> c \in served /\ pc[c] \in {"serve", "finally"}
    /\ c \in served => pc[c] \in {"serve", "finally", "done"}

\* What keeps handshakes that do not overlap safe.
Alone ==
  ~overlapped =>
    /\ \A c, d \in Handshaking : c = d
    /\ \A c \in Conns :
         /\ pc[c] \in Admitted => Cardinality(clients) < MaxClients
         /\ pc[c] \in {"full", "build"} => useVad = WantVad[c]
         /\ pc[c] = "start" => started = 0
    /\ started = 1 => worker

Safe == CapacityKept /\ OwnVad /\ OneWorker

IInv == TypeOK /\ Registry /\ EndedIsReleased /\ Alone /\ Safe

LEMMA InitIInv == Init => IInv
<1>. SUFFICES ASSUME Init PROVE IInv
  OBVIOUS
<1>1. Cardinality(clients) = 0 /\ MaxClients \in Nat \ {0}
  BY FS_EmptySet, ConstantsAssumption DEF Init
<1>2. TypeOK
  BY DEF Init, TypeOK
<1>3. Registry /\ EndedIsReleased
  BY DEF Init, Registry, EndedIsReleased
<1>4. Alone
  <2>1. Handshaking = {} /\ \A c \in Conns : pc[c] = "hello"
    BY DEF Init, Handshaking
  <2>. QED
    BY <2>1 DEF Alone, Admitted, Init
<1>5. Safe
  BY <1>1 DEF Safe, CapacityKept, OwnVad, OneWorker, Init
<1>. QED
  BY <1>2, <1>3, <1>4, <1>5 DEF IInv

\* Every part of the type invariant, step by step.
LEMMA TypeStep == TypeOK /\ [Next]_vars => TypeOK'
<1>. SUFFICES ASSUME TypeOK, [Next]_vars PROVE TypeOK'
  OBVIOUS
<1>. USE ConstantsAssumption DEF TypeOK, At, Goto, sharedVars, historyVars
<1>1. ASSUME NEW c \in Conns, Hello(c) PROVE TypeOK'
  BY <1>1 DEF Hello
<1>2. ASSUME NEW c \in Conns, CheckFull(c) PROVE TypeOK'
  BY <1>2 DEF CheckFull
<1>3. ASSUME NEW c \in Conns, BuildSession(c) PROVE TypeOK'
  BY <1>3 DEF BuildSession, SessionVad
<1>4. ASSUME NEW c \in Conns, SendReady(c) PROVE TypeOK'
  BY <1>4 DEF SendReady
<1>5. ASSUME NEW c \in Conns, CheckWorker(c) PROVE TypeOK'
  BY <1>5 DEF CheckWorker
<1>6. ASSUME NEW c \in Conns, StartWorker(c) PROVE TypeOK'
  BY <1>6 DEF StartWorker
<1>7. ASSUME NEW c \in Conns, Register(c) PROVE TypeOK'
  BY <1>7 DEF Register
<1>8. ASSUME NEW c \in Conns, NoSession(c) \/ Overtime(c) \/ PeerGone(c)
      PROVE  TypeOK'
  BY <1>8 DEF NoSession, Overtime, PeerGone
<1>9. ASSUME NEW c \in Conns, EndOfAudio(c) PROVE TypeOK'
  BY <1>9 DEF EndOfAudio
<1>10. ASSUME NEW c \in Conns, Cleanup(c) PROVE TypeOK'
  <2>1. CASE c \in clients
    BY <1>10, <2>1 DEF Cleanup
  <2>2. CASE c \notin clients
    BY <1>10, <2>2 DEF Cleanup
  <2>. QED
    BY <2>1, <2>2
<1>11. ASSUME NEW c \in Conns, PeerLeaves(c) PROVE TypeOK'
  BY <1>11 DEF PeerLeaves
<1>12. CASE UNCHANGED vars
  BY <1>12 DEF vars
<1>. QED
  BY <1>1, <1>2, <1>3, <1>4, <1>5, <1>6, <1>7, <1>8, <1>9, <1>10, <1>11, <1>12
     DEF Next, Handler

\* The handlers' and the registry's variables keep their types.
THEOREM TypeCorrect == Spec => []TypeOK
<1>1. Init => TypeOK
  BY InitIInv DEF IInv
<1>. QED
  BY <1>1, TypeStep, PTL DEF Spec

\* What a registered connection held.
LEMMA ReleaseStep ==
  TypeOK /\ Registry /\ EndedIsReleased /\ [Next]_vars
    => Registry' /\ EndedIsReleased'
<1>. SUFFICES ASSUME TypeOK, Registry, EndedIsReleased, [Next]_vars
              PROVE  Registry' /\ EndedIsReleased'
  OBVIOUS
<1>. USE DEF TypeOK, Registry, EndedIsReleased, At, Goto, sharedVars, historyVars
<1>1. ASSUME NEW c \in Conns, Hello(c) PROVE Registry' /\ EndedIsReleased'
  BY <1>1 DEF Hello
<1>2. ASSUME NEW c \in Conns, CheckFull(c) PROVE Registry' /\ EndedIsReleased'
  BY <1>2 DEF CheckFull
<1>3. ASSUME NEW c \in Conns, BuildSession(c) PROVE Registry' /\ EndedIsReleased'
  BY <1>3 DEF BuildSession
<1>4. ASSUME NEW c \in Conns, SendReady(c) PROVE Registry' /\ EndedIsReleased'
  BY <1>4 DEF SendReady
<1>5. ASSUME NEW c \in Conns, CheckWorker(c) PROVE Registry' /\ EndedIsReleased'
  BY <1>5 DEF CheckWorker
<1>6. ASSUME NEW c \in Conns, StartWorker(c) PROVE Registry' /\ EndedIsReleased'
  BY <1>6 DEF StartWorker
<1>7. ASSUME NEW c \in Conns, Register(c) PROVE Registry' /\ EndedIsReleased'
  BY <1>7 DEF Register
<1>8. ASSUME NEW c \in Conns, NoSession(c) \/ Overtime(c) \/ PeerGone(c)
      PROVE  Registry' /\ EndedIsReleased'
  BY <1>8 DEF NoSession, Overtime, PeerGone
<1>9. ASSUME NEW c \in Conns, EndOfAudio(c) PROVE Registry' /\ EndedIsReleased'
  BY <1>9 DEF EndOfAudio
<1>10. ASSUME NEW c \in Conns, Cleanup(c) PROVE Registry' /\ EndedIsReleased'
  BY <1>10 DEF Cleanup
<1>11. ASSUME NEW c \in Conns, PeerLeaves(c) PROVE Registry' /\ EndedIsReleased'
  BY <1>11 DEF PeerLeaves
<1>12. CASE UNCHANGED vars
  BY <1>12 DEF vars
<1>. QED
  BY <1>1, <1>2, <1>3, <1>4, <1>5, <1>6, <1>7, <1>8, <1>9, <1>10, <1>11, <1>12
     DEF Next, Handler

\* Every way out of a registered connection releases its slot and its format
\* and tells its recognition thread to stop.
THEOREM RegisteredIsReleased == Spec => []EndedIsReleased
<1>1. Init => TypeOK /\ Registry /\ EndedIsReleased
  BY InitIInv DEF IInv
<1>. QED
  BY <1>1, TypeStep, ReleaseStep, PTL DEF Spec

-----------------------------------------------------------------------------
(* Handshakes that do not overlap *)

\* The registry is finite, and one connection more or less counts as one.
LEMMA ClientsFinite ==
  ASSUME TypeOK
  PROVE  /\ IsFiniteSet(clients) /\ Cardinality(clients) \in Nat
         /\ \A c : Cardinality(clients \cup {c}) <= Cardinality(clients) + 1
         /\ \A c : Cardinality(clients \ {c}) <= Cardinality(clients)
         /\ \A c : Cardinality(clients \cup {c}) \in Nat
         /\ \A c : Cardinality(clients \ {c}) \in Nat
<1>1. IsFiniteSet(clients) /\ Cardinality(clients) \in Nat
  BY ConstantsAssumption, FS_Subset, FS_CardinalityType DEF TypeOK
<1>2. ASSUME NEW c
      PROVE  /\ Cardinality(clients \cup {c}) <= Cardinality(clients) + 1
             /\ Cardinality(clients \cup {c}) \in Nat
  BY <1>1, FS_AddElement, FS_CardinalityType
<1>3. ASSUME NEW c
      PROVE  /\ Cardinality(clients \ {c}) <= Cardinality(clients)
             /\ Cardinality(clients \ {c}) \in Nat
  <2>1. clients \ {c} \subseteq clients
    OBVIOUS
  <2>. QED
    BY <1>1, <2>1, FS_Subset, FS_CardinalityType
<1>. QED
  BY <1>1, <1>2, <1>3

LEMMA AloneStep == IInv /\ [Next]_vars => Alone' /\ Safe'
<1>. SUFFICES ASSUME IInv, [Next]_vars, ~overlapped' PROVE Alone' /\ Safe'
  BY DEF Alone, Safe, CapacityKept, OwnVad, OneWorker
<1>. USE DEF At, Goto, sharedVars, historyVars
<1>a. /\ TypeOK /\ MaxClients \in Nat /\ Cardinality(clients) \in Nat
      /\ \A c : Cardinality(clients \cup {c}) <= Cardinality(clients) + 1
      /\ \A c : Cardinality(clients \ {c}) <= Cardinality(clients)
      /\ \A c : Cardinality(clients \cup {c}) \in Nat
      /\ \A c : Cardinality(clients \ {c}) \in Nat
  BY ClientsFinite, ConstantsAssumption DEF IInv
\* No step takes overlapped back.
<1>b. ~overlapped
  BY <1>a DEF Next, Handler, vars, TypeOK, Hello, CheckFull, BuildSession,
       SendReady, CheckWorker, StartWorker, Register, NoSession, Overtime,
       PeerGone, EndOfAudio, Cleanup, PeerLeaves
<1>c. Alone /\ Safe
  BY DEF IInv
<1>. USE <1>a, <1>b, <1>c DEF TypeOK, Alone, Safe, CapacityKept, OwnVad,
       OneWorker, Handshaking, Admitted
<1>1. ASSUME NEW c \in Conns, Hello(c) PROVE Alone' /\ Safe'
  BY <1>1 DEF Hello
<1>2. ASSUME NEW c \in Conns, CheckFull(c) PROVE Alone' /\ Safe'
  BY <1>2 DEF CheckFull, IsFull
<1>3. ASSUME NEW c \in Conns, BuildSession(c) PROVE Alone' /\ Safe'
  BY <1>3 DEF BuildSession, SessionVad
<1>4. ASSUME NEW c \in Conns, SendReady(c) PROVE Alone' /\ Safe'
  BY <1>4 DEF SendReady
<1>5. ASSUME NEW c \in Conns, CheckWorker(c) PROVE Alone' /\ Safe'
  BY <1>5 DEF CheckWorker
<1>6. ASSUME NEW c \in Conns, StartWorker(c) PROVE Alone' /\ Safe'
  BY <1>6 DEF StartWorker
<1>7. ASSUME NEW c \in Conns, Register(c) PROVE Alone' /\ Safe'
  <2>1. c \in Handshaking /\ pc[c] \in Admitted
    BY <1>7 DEF Register
  <2>2. Cardinality(clients') <= MaxClients
    <3>1. Cardinality(clients) < MaxClients
      BY <2>1
    <3>2. clients' = clients \cup {c}
      BY <1>7 DEF Register
    <3>3. /\ Cardinality(clients \cup {c}) <= Cardinality(clients) + 1
          /\ Cardinality(clients \cup {c}) \in Nat
      BY <1>a, Zenon
    <3>. QED
      BY <3>1, <3>2, <3>3
  <2>3. Handshaking' = {}
    BY <1>7, <2>1 DEF Register
  <2>4. \A d \in Conns : pc'[d] \notin Admitted \cup {"full"}
    BY <2>3
  <2>5. Alone'
    BY <1>7, <2>3, <2>4 DEF Register
  <2>. QED
    BY <1>7, <2>2, <2>5 DEF Register
<1>8. ASSUME NEW c \in Conns, NoSession(c) \/ Overtime(c) \/ PeerGone(c)
      PROVE  Alone' /\ Safe'
  BY <1>8 DEF NoSession, Overtime, PeerGone
<1>9. ASSUME NEW c \in Conns, EndOfAudio(c) PROVE Alone' /\ Safe'
  BY <1>9 DEF EndOfAudio
<1>10. ASSUME NEW c \in Conns, Cleanup(c) PROVE Alone' /\ Safe'
  <2>1. Cardinality(clients') <= Cardinality(clients) /\ Cardinality(clients') \in Nat
    BY <1>10 DEF Cleanup
  <2>2. Handshaking' = Handshaking /\ \A d \in Handshaking : pc'[d] = pc[d]
    BY <1>10 DEF Cleanup
  <2>3. \A d \in Conns : pc'[d] \in Admitted \cup {"full"} => pc'[d] = pc[d]
    BY <1>10 DEF Cleanup
  <2>4. UNCHANGED <<vad, threads, useVad, worker, started, overlapped>>
    BY <1>10 DEF Cleanup
  <2>5. Alone'
    <3>1. \A d \in Conns :
            pc'[d] \in Admitted => Cardinality(clients') < MaxClients
      BY <2>1, <2>3
    <3>2. \A d \in Conns :
            /\ pc'[d] \in {"full", "build"} => useVad = WantVad[d]
            /\ pc'[d] = "start" => started = 0
      BY <2>3
    <3>. QED
      BY <2>2, <2>4, <3>1, <3>2
  <2>6. CapacityKept'
    BY <2>1, <2>4
  <2>. QED
    BY <2>4, <2>5, <2>6
<1>11. ASSUME NEW c \in Conns, PeerLeaves(c) PROVE Alone' /\ Safe'
  BY <1>11 DEF PeerLeaves
<1>12. CASE UNCHANGED vars
  BY <1>12 DEF vars
<1>. QED
  BY <1>1, <1>2, <1>3, <1>4, <1>5, <1>6, <1>7, <1>8, <1>9, <1>10, <1>11, <1>12
     DEF Next, Handler

\* Handshakes that do not overlap keep the capacity, give each session its own
\* voice activity setting and start one batch worker.
THEOREM SequentialHandshakesAreSafe ==
  Spec => []HandshakesAreSafe
<1>1. IInv /\ [Next]_vars => IInv'
  BY TypeStep, ReleaseStep, AloneStep DEF IInv
<1>2. IInv => HandshakesAreSafe
  BY DEF IInv, Safe, HandshakesAreSafe
<1>. QED
  BY InitIInv, <1>1, <1>2, PTL DEF Spec

-----------------------------------------------------------------------------
(* Finite sets of numbers, and numbers in order *)

LEMMA MinMaxOf ==
  ASSUME NEW b \in Nat, NEW S \in SUBSET (0..b), S # {}
  PROVE  /\ Min(S) \in S /\ \A x \in S : Min(S) <= x
         /\ Max(S) \in S /\ \A x \in S : x <= Max(S)
<1> DEFINE Less == {ss \in Nat \X Nat : ss[1] < ss[2]}
<1>1. IsWellFoundedOn(Less, Nat)
  <2>1. IsWellFoundedOn({ss \in Nat \X Nat : ss[1] < ss[2]}, Nat)
    BY NatLessThanWellFounded, Zenon DEF OpToRel
  <2> QED BY <2>1
<1>2. \A m, n \in Nat : <<m, n>> \in Less <=> m < n
  OBVIOUS
<1> HIDE DEF Less
<1>3. \A T \in SUBSET Nat : T # {} => \E x \in T : \A y \in T : x <= y
  <2> SUFFICES ASSUME NEW T \in SUBSET Nat, T # {}
               PROVE  \E x \in T : \A y \in T : x <= y
    OBVIOUS
  <2>1. PICK x \in T : \A y \in T : ~(<<y, x>> \in Less)
    BY <1>1, WFMin
  <2>2. \A y \in T : ~(y < x)
    BY <2>1, <1>2
  <2>3. \A y \in T : x <= y
    BY <2>2
  <2> QED BY <2>3
<1>4. \E x \in S : \A y \in S : x <= y
  BY <1>3
<1>5. \E x \in S : \A y \in S : x >= y
  <2> DEFINE T == {n \in Nat : b - n \in S}
  <2>1. PICK x \in S : TRUE
    OBVIOUS
  <2>2. b - x \in T /\ T \in SUBSET Nat
    BY <2>1
  <2>3. PICK n \in T : \A m \in T : n <= m
    <3> HIDE DEF T
    <3> QED BY <2>2, <1>3
  <2>4. \A y \in S : b - y \in T
    OBVIOUS
  <2>5. b - n \in S /\ n \in Nat
    OBVIOUS
  <2> HIDE DEF T
  <2>6. \A y \in S : b - n >= y
    BY <2>3, <2>4, <2>5
  <2> QED BY <2>5, <2>6
<1> QED BY <1>4, <1>5 DEF Min, Max

LEMMA BoundedIsFinite ==
  ASSUME NEW b \in Nat, NEW S \in SUBSET (0..b)
  PROVE  IsFiniteSet(S) /\ Cardinality(S) \in Nat
<1>1. IsFiniteSet(0..b)
  BY FS_Interval
<1>2. IsFiniteSet(S)
  BY <1>1, FS_Subset
<1> QED BY <1>2, FS_CardinalityType

\* Every finite set of numbers can be put in order.
IsOrder(s, S) ==
  /\ s \in [1..Cardinality(S) -> S]
  /\ \A i, j \in 1..Cardinality(S) : i < j => s[i] < s[j]

LEMMA OrderGrows ==
  ASSUME NEW b \in Nat, NEW S \in SUBSET (0..b), S # {},
         NEW t, IsOrder(t, S \ {Max(S)})
  PROVE  \E s : IsOrder(s, S)
<1> DEFINE m == Max(S)
           R == S \ {m}
           n == Cardinality(R)
           s == [i \in 1..(n + 1) |-> IF i = n + 1 THEN m ELSE t[i]]
<1>1. m \in S /\ \A x \in S : x <= m
  BY MinMaxOf
<1>2. IsFiniteSet(S) /\ Cardinality(S) \in Nat
  BY BoundedIsFinite
<1>3. IsFiniteSet(R) /\ n = Cardinality(S) - 1 /\ n \in Nat
  BY <1>1, <1>2, FS_RemoveElement, FS_CardinalityType
<1>4. t \in [1..n -> R] /\ \A i, j \in 1..n : i < j => t[i] < t[j]
  BY DEF IsOrder
<1>5. \A x \in R : x \in S /\ x < m
  <2>1. \A x \in S : x \in Int
    OBVIOUS
  <2>2. \A x \in R : x \in S /\ x # m
    OBVIOUS
  <2>3. \A k, l \in Int : k <= l /\ k # l => k < l
    OBVIOUS
  <2> HIDE DEF m, R
  <2>4. ASSUME NEW x \in R PROVE x \in S /\ x < m
    <3>1. x \in Int /\ m \in Int /\ x # m /\ x <= m /\ x \in S
      BY <1>1, <2>1, <2>2
    <3> QED BY <3>1, <2>3
  <2> QED BY <2>4
<1> HIDE DEF m, R, n
<1>6. s \in [1..(n + 1) -> S]
  BY <1>1, <1>3, <1>4, <1>5
<1>7. \A i, j \in 1..(n + 1) : i < j => s[i] < s[j]
  BY <1>1, <1>3, <1>4, <1>5
<1>8. Cardinality(S) = n + 1
  BY <1>2, <1>3
<1> QED BY <1>6, <1>7, <1>8 DEF IsOrder

LEMMA InOrderIs ==
  ASSUME NEW b \in Nat, NEW S \in SUBSET (0..b)
  PROVE  IsOrder(InOrder(S), S)
<1> DEFINE Less == {ss \in Nat \X Nat : ss[1] < ss[2]}
           Bad == {n \in Nat : \E T \in SUBSET (0..b) :
                     Cardinality(T) = n /\ ~\E s : IsOrder(s, T)}
<1>1. \A T \in SUBSET (0..b) : IsFiniteSet(T) /\ Cardinality(T) \in Nat
  BY BoundedIsFinite
<1>2. Bad = {}
  <2> SUFFICES ASSUME Bad # {} PROVE FALSE
    OBVIOUS
  <2>1. IsWellFoundedOn(Less, Nat)
    <3>1. IsWellFoundedOn({ss \in Nat \X Nat : ss[1] < ss[2]}, Nat)
      BY NatLessThanWellFounded, Zenon DEF OpToRel
    <3> QED BY <3>1
  <2>2. PICK n \in Bad : \A m \in Bad : ~(<<m, n>> \in Less)
    <3> HIDE DEF Less, Bad
    <3>1. Bad \subseteq Nat
      BY DEF Bad
    <3> QED BY <2>1, <3>1, WFMin
  <2>3. PICK T \in SUBSET (0..b) : Cardinality(T) = n /\ ~\E s : IsOrder(s, T)
    OBVIOUS
  <2>4. T # {}
    <3> SUFFICES ASSUME T = {} PROVE FALSE
      OBVIOUS
    <3>1. Cardinality(T) = 0
      BY FS_EmptySet
    <3>2. IsOrder([i \in 1..0 |-> 0], T)
      BY <3>1 DEF IsOrder
    <3> QED BY <2>3, <3>2
  <2> DEFINE R == T \ {Max(T)}
  <2>5. R \in SUBSET (0..b) /\ Cardinality(R) = n - 1 /\ n - 1 \in Nat
    <3>1. Max(T) \in T
      BY <2>4, MinMaxOf
    <3>2. Cardinality(R) = n - 1 /\ IsFiniteSet(R)
      BY <3>1, <2>3, <1>1, FS_RemoveElement
    <3> QED BY <3>2, FS_CardinalityType
  <2>6. n - 1 \notin Bad
    <3>1. n \in Nat /\ <<n - 1, n>> \in Less
      BY <2>5
    <3> HIDE DEF Bad, Less
    <3> QED BY <2>2, <3>1
  <2>7. \E t : IsOrder(t, R)
    BY <2>5, <2>6
  <2> QED BY <2>3, <2>4, <2>7, OrderGrows
<1>3. \E s : IsOrder(s, S)
  BY <1>1, <1>2
<1> QED BY <1>3 DEF IsOrder, InOrder

-----------------------------------------------------------------------------
(* What the model may answer, and how it is split *)

Token == {TextToken} \cup 0..MaxFrames

LEMMA AnswerFacts ==
  ASSUME NEW ts \in Outputs
  PROVE  /\ ts \in Seq(Token) /\ Len(ts) \in Nat \ {0}
         /\ \A i \in 1..Len(ts) : ts[i] \in Token /\ ts[i] \in Int
         /\ IsTime(ts[1])
         /\ \A i, j \in 1..Len(ts) :
              j < i /\ IsTime(ts[i]) /\ IsTime(ts[j]) => ts[j] <= ts[i]
         /\ \A i \in 1..(Len(ts) - 1) :
              IsTime(ts[i]) /\ IsTime(ts[i + 1]) => ts[i] > 0
<1>1. PICK n \in 1..MaxTokens : ts \in [1..n -> Token]
  BY DEF Outputs, Token
<1>2. n \in Nat \ {0} /\ ts \in Seq(Token) /\ Len(ts) = n
  BY <1>1, TranscriberAssumption
<1>3. \A i \in 1..n : ts[i] \in Token /\ ts[i] \in Int
  <2>1. \A t \in Token : t \in Int
    BY TranscriberAssumption DEF Token, TextToken
  <2> QED BY <1>1, <2>1
<1>4. Legal(ts)
  BY DEF Outputs
<1>5. IsTime(ts[1])
  BY <1>4 DEF Legal
<1>6. \A i, j \in 1..n : j < i /\ IsTime(ts[i]) /\ IsTime(ts[j]) => ts[j] <= ts[i]
  BY <1>2, <1>4 DEF Legal
<1>7. ASSUME NEW i \in 1..(n - 1), IsTime(ts[i]), IsTime(ts[i + 1])
      PROVE  ts[i] > 0
  <2>1. i + 1 \in 2..n /\ i + 1 - 1 = i /\ i + 1 - 2 = i - 1
    BY <1>2
  <2>2. i > 1 /\ ~IsTime(ts[i - 1])
    BY <1>2, <1>4, <1>7, <2>1 DEF Legal
  <2>3. i # 2 /\ i - 1 \in 2..n
    BY <1>2, <1>5, <2>2
  <2>4. IsTime(ts[i - 2])
    <3>1. i - 1 - 1 = i - 2
      BY <1>2
    <3> QED BY <1>2, <1>4, <2>2, <2>3, <3>1 DEF Legal
  <2>5. ts[i - 2] < ts[i]
    <3>1. i \in 2..Len(ts) /\ i - 2 \in 1..(i - 1)
      BY <1>2, <2>3
    <3> QED BY <1>4, <1>7, <2>4, <3>1 DEF Legal
  <2>6. i - 2 \in 1..n /\ i \in 1..n
    BY <1>2, <2>3
  <2> QED BY <1>3, <2>4, <2>5, <2>6 DEF IsTime
<1> QED BY <1>2, <1>3, <1>5, <1>6, <1>7

\* Where the slices of an answer end.
LEMMA SliceFacts ==
  ASSUME NEW ts \in Outputs, Slices(ts) # <<>>
  PROVE  LET at == Slices(ts) IN
         /\ at \in Seq(1..Len(ts)) /\ Len(at) \in Nat \ {0}
         /\ \A i \in 1..Len(at) : at[i] \in 1..Len(ts) /\ IsTime(ts[at[i]])
         /\ \A i, j \in 1..Len(at) : i < j => at[i] < at[j]
         /\ \A i \in 1..Len(at) :
              i < Len(at) \/ ~SingleEnding(ts) =>
                at[i] < Len(ts) /\ IsTime(ts[at[i] + 1])
<1> DEFINE n == Len(ts)
           pairs == {i \in 1..(n - 1) : IsTime(ts[i]) /\ IsTime(ts[i + 1])}
           ends == pairs \cup (IF SingleEnding(ts) THEN {n} ELSE {})
           at == Slices(ts)
<1>1. n \in Nat \ {0}
  BY AnswerFacts
<1>2. pairs # {} /\ at = InOrder(ends)
  BY DEF Slices
<1>3. /\ \A e \in ends : e \in 1..n /\ IsTime(ts[e])
      /\ \A e \in ends : e < n \/ ~SingleEnding(ts) =>
                           e < n /\ IsTime(ts[e + 1])
  BY <1>1 DEF SingleEnding
<1>4. ends # {} /\ ends \in SUBSET (0..n)
  <2>1. ends # {}
    BY <1>2
  <2> HIDE DEF ends
  <2>2. \A e \in ends : e \in 0..n
    BY <1>1, <1>3
  <2> QED BY <2>1, <2>2
<1> HIDE DEF ends, pairs
<1>5. IsOrder(at, ends) /\ IsFiniteSet(ends) /\ Cardinality(ends) \in Nat
  BY <1>1, <1>2, <1>4, InOrderIs, BoundedIsFinite
<1>6. Cardinality(ends) # 0
  BY <1>4, <1>5, FS_EmptySet
<1> DEFINE m == Cardinality(ends)
<1>7. /\ m \in Nat \ {0} /\ at \in [1..m -> ends]
      /\ \A i, j \in 1..m : i < j => at[i] < at[j]
  BY <1>5, <1>6 DEF IsOrder
<1> HIDE DEF at, m
<1>8. at \in Seq(ends) /\ Len(at) = m
  BY <1>7
<1>9. at \in Seq(1..n)
  BY <1>3, <1>7
<1>10. \A i \in 1..m : i < m => at[i] < n
  <2> SUFFICES ASSUME NEW i \in 1..m, i < m PROVE at[i] < n
    OBVIOUS
  <2>1. m \in 1..m /\ at[i] < at[m]
    BY <1>7
  <2>2. at[m] \in 1..n /\ at[i] \in 1..n
    BY <1>3, <1>7, <2>1
  <2> QED BY <1>1, <2>1, <2>2
<1>11. \A i \in 1..m : at[i] \in ends
  BY <1>7
<1>12. \A i \in 1..m : i < m \/ ~SingleEnding(ts) =>
                         at[i] < n /\ IsTime(ts[at[i] + 1])
  BY <1>3, <1>10, <1>11
<1> QED BY <1>3, <1>7, <1>8, <1>9, <1>11, <1>12 DEF at, n

\* A split: its segments follow each other, and the window goes on behind
\* them, or behind all the audio it decoded.
Stretch == [start : Nat, end : Nat]
SplitSound(sp, size) ==
  /\ sp.segments \in Seq(Stretch) /\ Len(sp.segments) \in Nat \ {0}
  /\ sp.seek \in Nat \ {0}
  /\ \A i \in 1..Len(sp.segments) :
       /\ sp.segments[i].start <= sp.segments[i].end
       /\ sp.segments[i].end <= MaxFrames
       /\ sp.seek = size \/ sp.segments[i].end <= sp.seek
  /\ \A i, j \in 1..Len(sp.segments) :
       i < j => sp.segments[i].end <= sp.segments[j].start
  /\ sp.single => sp.seek = size

LEMMA LastTimeType ==
  ASSUME NEW ts \in Outputs
  PROVE  LastTime(ts) \in 0..MaxFrames
<1> DEFINE n == Len(ts)
           times == {i \in DOMAIN ts : IsTime(ts[i])}
<1>1. /\ n \in Nat \ {0} /\ DOMAIN ts = 1..n
      /\ \A i \in 1..n : ts[i] \in Token
  BY AnswerFacts
<1>2. CASE times = {}
  BY <1>2, TranscriberAssumption DEF LastTime
<1>3. CASE times # {}
  <2>1. Max(times) \in times
    BY <1>1, <1>3, MinMaxOf, times \in SUBSET (0..n)
  <2>2. LastTime(ts) = ts[Max(times)]
    BY <1>3 DEF LastTime
  <2>3. Max(times) \in 1..n /\ IsTime(ts[Max(times)])
    BY <1>1, <2>1
  <2> HIDE DEF times
  <2>4. \A t \in Token : IsTime(t) => t \in 0..MaxFrames
    BY TranscriberAssumption DEF IsTime, Token, TextToken
  <2> QED BY <1>1, <2>2, <2>3, <2>4
<1> QED BY <1>2, <1>3

LEMMA SplitIsSound ==
  ASSUME NEW ts \in Outputs, NEW size \in 1..MaxFrames
  PROVE  SplitSound(Split(ts, size), size)
<1> DEFINE n == Len(ts)
           at == Slices(ts)
           sp == Split(ts, size)
<1>1. /\ n \in Nat \ {0} /\ size \in Nat \ {0} /\ size <= MaxFrames
      /\ MaxFrames \in Nat
      /\ \A i \in 1..n : ts[i] \in Token /\ ts[i] \in Int
      /\ \A i \in 1..n : IsTime(ts[i]) => ts[i] \in 0..MaxFrames
  <2>1. \A t \in Token : IsTime(t) => t \in 0..MaxFrames
    BY TranscriberAssumption DEF IsTime, Token, TextToken
  <2> QED BY <2>1, AnswerFacts, TranscriberAssumption
<1>2. CASE at = <<>>
  <2> DEFINE e == IF LastTime(ts) # 0 THEN LastTime(ts) ELSE size
  <2>1. sp = [segments |-> <<[start |-> 0, end |-> e]>>, seek |-> size,
              single |-> SingleEnding(ts)]
    BY <1>2 DEF Split
  <2>2. e \in Nat /\ 0 <= e /\ e <= MaxFrames
    BY <1>1, LastTimeType
  <2> HIDE DEF e, sp
  <2> DEFINE seg == [start |-> 0, end |-> e]
  <2>3. seg \in Stretch /\ seg.start = 0 /\ seg.end = e
    BY <2>2 DEF Stretch
  <2> HIDE DEF seg
  <2>4. /\ sp.segments = <<seg>> /\ sp.seek = size
    BY <2>1 DEF seg
  <2>5. /\ <<seg>> \in Seq(Stretch) /\ Len(<<seg>>) = 1 /\ <<seg>>[1] = seg
    BY <2>3
  <2>6. /\ \A i \in 1..1 : sp.segments[i] = seg
        /\ sp.segments \in Seq(Stretch) /\ Len(sp.segments) = 1
    BY <2>4, <2>5
  <2>7. /\ \A i \in 1..1 : /\ sp.segments[i].start <= sp.segments[i].end
                           /\ sp.segments[i].end <= MaxFrames
        /\ ~\E i, j \in 1..1 : i < j
    BY <2>2, <2>3, <2>6
  <2>8. SplitSound(sp, size)
    BY <1>1, <2>1, <2>4, <2>6, <2>7 DEF SplitSound
  <2> QED BY <2>8 DEF sp
<1>3. CASE at # <<>>
  <2> DEFINE m == Len(at)
             from(i) == IF i = 1 THEN 1 ELSE at[i - 1] + 1
             segs == [i \in DOMAIN at |-> [start |-> ts[from(i)], end |-> ts[at[i]]]]
             seek0 == IF SingleEnding(ts) THEN size ELSE ts[at[m]]
  <2>1. sp = [segments |-> segs, seek |-> seek0, single |-> SingleEnding(ts)]
    BY <1>3 DEF Split
  <2>2. /\ at \in Seq(1..n) /\ m \in Nat \ {0} /\ DOMAIN at = 1..m
        /\ \A i \in 1..m : at[i] \in 1..n /\ IsTime(ts[at[i]])
        /\ \A i, j \in 1..m : i < j => at[i] < at[j]
        /\ \A i \in 1..m : i < m \/ ~SingleEnding(ts) =>
                             at[i] < n /\ IsTime(ts[at[i] + 1])
    BY <1>3, SliceFacts
  <2>3. \A i \in 1..m : ts[at[i]] \in 0..MaxFrames
    BY <1>1, <2>2
  <2>4. \A i, j \in 1..n : i <= j /\ IsTime(ts[i]) /\ IsTime(ts[j]) => ts[i] <= ts[j]
    BY <1>1, AnswerFacts
  <2>5. \A i \in 1..m : /\ from(i) \in 1..n /\ IsTime(ts[from(i)])
                        /\ from(i) <= at[i]
    <3> SUFFICES ASSUME NEW i \in 1..m
                 PROVE /\ from(i) \in 1..n /\ IsTime(ts[from(i)])
                       /\ from(i) <= at[i]
      OBVIOUS
    <3>1. CASE i = 1
      <4>1. from(i) = 1 /\ IsTime(ts[1]) /\ at[i] \in 1..n
        BY <2>2, <3>1, AnswerFacts
      <4> HIDE DEF at, from
      <4> QED BY <1>1, <4>1
    <3>2. CASE i # 1
      <4>1. i - 1 \in 1..m /\ i - 1 < m /\ i - 1 < i
        BY <2>2, <3>2
      <4>2. at[i - 1] < n /\ IsTime(ts[at[i - 1] + 1]) /\ at[i - 1] \in 1..n
        BY <2>2, <4>1
      <4>3. at[i - 1] < at[i] /\ at[i] \in 1..n
        BY <2>2, <4>1
      <4>4. from(i) = at[i - 1] + 1
        BY <3>2
      <4> HIDE DEF at, from
      <4> QED BY <1>1, <4>2, <4>3, <4>4
    <3> QED BY <3>1, <3>2
  <2>6. \A i \in 1..m : ts[from(i)] \in 0..MaxFrames
    BY <1>1, <2>5
  <2>7. \A i \in 1..m : ts[from(i)] <= ts[at[i]]
    BY <2>2, <2>4, <2>5
  <2>8. \A i, j \in 1..m : i < j => at[i] <= from(j)
    <3> SUFFICES ASSUME NEW i \in 1..m, NEW j \in 1..m, i < j
                 PROVE  at[i] <= from(j)
      OBVIOUS
    <3>1. j # 1 /\ j - 1 \in 1..m /\ (i = j - 1 \/ i < j - 1)
      BY <2>2
    <3>2. from(j) = at[j - 1] + 1
      BY <3>1
    <3>3. at[i] \in 1..n /\ at[j - 1] \in 1..n
      BY <2>2, <3>1
    <3>4. i = j - 1 \/ at[i] < at[j - 1]
      BY <2>2, <3>1
    <3>5. i = j - 1 => at[i] = at[j - 1]
      OBVIOUS
    <3> HIDE DEF at, from
    <3> QED BY <1>1, <3>2, <3>3, <3>4, <3>5
  <2>9. \A i, j \in 1..m : i < j => ts[at[i]] <= ts[from(j)]
    BY <2>2, <2>4, <2>5, <2>8
  <2>10. seek0 \in Nat \ {0} /\ (SingleEnding(ts) => seek0 = size)
    <3>1. CASE SingleEnding(ts)
      BY <1>1, <3>1
    <3>2. CASE ~SingleEnding(ts)
      <4>1. at[m] \in 1..(n - 1) /\ IsTime(ts[at[m]]) /\ IsTime(ts[at[m] + 1])
        BY <1>1, <2>2, <3>2
      <4>2. ts[at[m]] > 0 /\ ts[at[m]] \in Int
        BY <1>1, <2>2, <4>1, AnswerFacts
      <4> QED BY <3>2, <4>2
    <3> QED BY <3>1, <3>2
  <2>11. \A i \in 1..m : seek0 = size \/ ts[at[i]] <= seek0
    <3>1. CASE SingleEnding(ts)
      BY <3>1
    <3>2. CASE ~SingleEnding(ts)
      <4>1. m \in 1..m /\ \A i \in 1..m : at[i] <= at[m]
        BY <2>2
      <4>2. \A i \in 1..m : ts[at[i]] <= ts[at[m]]
        BY <2>2, <2>4, <4>1
      <4> QED BY <3>2, <4>2
    <3> QED BY <3>1, <3>2
  <2>12. /\ segs \in Seq(Stretch) /\ Len(segs) = m
         /\ \A i \in 1..m : segs[i].start = ts[from(i)] /\ segs[i].end = ts[at[i]]
    <3>1. \A i \in 1..m : [start |-> ts[from(i)], end |-> ts[at[i]]] \in Stretch
      BY <2>3, <2>6 DEF Stretch
    <3> DEFINE seg(i) == [start |-> ts[from(i)], end |-> ts[at[i]]]
    <3>2. segs = [i \in 1..m |-> seg(i)]
      BY <2>2
    <3>3. \A i \in 1..m : seg(i).start = ts[from(i)] /\ seg(i).end = ts[at[i]]
      OBVIOUS
    <3> HIDE DEF seg, segs
    <3>4. \A i \in 1..m : seg(i) \in Stretch
      BY <3>1 DEF seg
    <3>5. segs \in Seq(Stretch) /\ Len(segs) = m
      BY <2>2, <3>2, <3>4
    <3> QED BY <3>2, <3>3, <3>5
  <2>13. sp.segments = segs /\ sp.seek = seek0 /\ sp.single = SingleEnding(ts)
    BY <2>1
  <2> HIDE DEF sp, segs, seek0, at, from
  <2>14. \A i \in 1..m : /\ segs[i].start <= segs[i].end
                         /\ segs[i].end <= MaxFrames
                         /\ seek0 = size \/ segs[i].end <= seek0
    BY <2>3, <2>7, <2>11, <2>12
  <2>15. \A i, j \in 1..m : i < j => segs[i].end <= segs[j].start
    BY <2>9, <2>12
  <2>16. Len(segs) \in Nat \ {0}
    BY <2>2, <2>12
  <2> HIDE DEF m
  <2>17. SplitSound(sp, size)
    BY <2>10, <2>12, <2>13, <2>14, <2>15, <2>16 DEF SplitSound
  <2> QED BY <2>17 DEF sp
<1> QED BY <1>2, <1>3

-----------------------------------------------------------------------------
(* A round *)

Span == [start : Int, end : Int]
Pair == [first : Span, last : Span]
Spoken == [start : Int, end : Int, first : Span, last : Span,
           words : BOOLEAN, text : BOOLEAN, odd : BOOLEAN]

\* The first and the last word: one word, or one before the other.
Forward(w) ==
  /\ w.first.start <= w.first.end /\ w.last.start <= w.last.end
  /\ w.first = w.last \/ w.first.end <= w.last.start

LEMMA GrowthFacts ==
  /\ Growth \in Nat /\ Growth = MaxMedian - Long
  /\ Long \in Nat /\ MaxMedian \in Nat /\ MaxMedian <= 2 * Long
  BY TranscriberAssumption DEF Growth

LEMMA SpanFacts ==
  ASSUME NEW w \in Pair
  PROVE  /\ w.first \in Span /\ w.last \in Span
         /\ w.first.start \in Int /\ w.first.end \in Int
         /\ w.last.start \in Int /\ w.last.end \in Int
<1>1. w.first \in Span /\ w.last \in Span
  BY DEF Pair
<1> QED BY <1>1 DEF Span

LEMMA OpeningFacts ==
  ASSUME NEW w \in Pair, NEW t \in Int
  PROVE  /\ Opening(w, t) \in Pair
         /\ Opening(w, t).first.start = t
         /\ Opening(w, t).first.end = w.first.end
         /\ Opening(w, t).last.end = w.last.end
         /\ w.first = w.last => Opening(w, t).first = Opening(w, t).last
         /\ w.first # w.last => Opening(w, t).last = w.last
<1> DEFINE f == [w.first EXCEPT !.start = t]
           l == IF w.first = w.last THEN f ELSE w.last
           o == [first |-> f, last |-> l]
<1>1. f \in Span /\ f.start = t /\ f.end = w.first.end
  BY SpanFacts DEF Span
<1>2. l \in Span /\ l.end = w.last.end /\ (w.first = w.last => l = f)
      /\ (w.first # w.last => l = w.last)
  BY <1>1, SpanFacts
<1>3. Opening(w, t) = o
  BY DEF Opening
<1> HIDE DEF f, l
<1>4. o \in Pair /\ o.first = f /\ o.last = l
  BY <1>1, <1>2 DEF Pair
<1> HIDE DEF o
<1> QED BY <1>1, <1>2, <1>3, <1>4

LEMMA ClosingFacts ==
  ASSUME NEW w \in Pair, NEW t \in Int
  PROVE  /\ Closing(w, t) \in Pair
         /\ Closing(w, t).last.end = t
         /\ Closing(w, t).last.start = w.last.start
         /\ Closing(w, t).first.start = w.first.start
         /\ w.first = w.last => Closing(w, t).first = Closing(w, t).last
         /\ w.first # w.last => Closing(w, t).first = w.first
<1> DEFINE l == [w.last EXCEPT !.end = t]
           f == IF w.first = w.last THEN l ELSE w.first
           o == [first |-> f, last |-> l]
<1>1. l \in Span /\ l.end = t /\ l.start = w.last.start
  BY SpanFacts DEF Span
<1>2. f \in Span /\ f.start = w.first.start /\ (w.first = w.last => f = l)
      /\ (w.first # w.last => f = w.first)
  BY <1>1, SpanFacts
<1>3. Closing(w, t) = o
  BY DEF Closing
<1> HIDE DEF f, l
<1>4. o \in Pair /\ o.first = f /\ o.last = l
  BY <1>1, <1>2 DEF Pair
<1> HIDE DEF o
<1> QED BY <1>1, <1>2, <1>3, <1>4

\* Where the first word's begin moves to.
LEMMA BegunFacts ==
  ASSUME NEW s \in Stretch, NEW w \in Pair, Forward(w), w.first.end >= 0,
         NEW median \in 0..MaxMedian, NEW ago \in Nat
  PROVE  LET b == Begun(s, w, median, ago)
             lo == w.first.start IN
         /\ b.start \in Int /\ b.words \in Pair /\ Forward(b.words)
         /\ b.words.first.end = w.first.end /\ b.words.last.end = w.last.end
         /\ lo <= b.start /\ lo <= b.words.first.start + Growth
         /\ 2 * lo <= b.words.first.start + w.first.end
         /\ 2 * lo <= 2 * b.words.first.start + median
         /\ \/ b.start = s.start /\ s.start < w.first.end
            \/ b.start = lo /\ b.words = w
<1> DEFINE lo == w.first.start
           t == Most(-ago, Least(w.first.end - median, s.start))
           b == Begun(s, w, median, ago)
<1>1. /\ s.start \in Nat /\ lo \in Int /\ w.first.end \in Int /\ w.first.end >= 0
      /\ w.last.start \in Int /\ w.last.end \in Int /\ median \in Nat
      /\ median <= MaxMedian /\ lo <= w.first.end
  BY SpanFacts, GrowthFacts DEF Stretch, Forward
<1>2. CASE s.start < w.first.end /\ s.start - Long > lo
  <2>1. b = [start |-> s.start, words |-> Opening(w, t)]
    BY <1>2 DEF Begun
  <2>2. /\ t \in Int /\ t <= w.first.end
        /\ t >= w.first.end - median \/ t >= s.start
    BY <1>1 DEF Most, Least
  <2> HIDE DEF t, lo
  <2> DEFINE o == Opening(w, t)
  <2>3. /\ o \in Pair /\ o.first.start = t /\ o.first.end = w.first.end
        /\ o.last.end = w.last.end
        /\ w.first = w.last => o.first = o.last
        /\ w.first # w.last => o.last = w.last
    BY <2>2, OpeningFacts
  <2>4. b.start = s.start /\ b.words = o
    BY <2>1
  <2> HIDE DEF o, b
  <2>5. Forward(o)
    <3>1. CASE w.first = w.last
      BY <1>1, <2>2, <2>3, <3>1 DEF Forward
    <3>2. CASE w.first # w.last
      BY <1>1, <2>2, <2>3, <3>2 DEF Forward
    <3> QED BY <3>1, <3>2
  <2>6. /\ lo <= s.start /\ lo <= t + Growth /\ 2 * lo <= t + w.first.end
        /\ 2 * lo <= 2 * t + median
    BY <1>1, <1>2, <2>2, GrowthFacts
  <2> QED BY <1>1, <1>2, <2>3, <2>4, <2>5, <2>6 DEF b, lo
<1>3. CASE ~(s.start < w.first.end /\ s.start - Long > lo)
  <2>1. b = [start |-> lo, words |-> w]
    BY <1>3 DEF Begun
  <2>2. b.start = lo /\ b.words = w
    BY <2>1
  <2> HIDE DEF b
  <2>3. lo <= lo + Growth /\ 2 * lo <= lo + w.first.end /\ 2 * lo <= 2 * lo + median
    BY <1>1, GrowthFacts
  <2> QED BY <1>1, <2>2, <2>3 DEF b
<1> QED BY <1>2, <1>3

\* Where the last word's end moves to.
LEMMA EndedFacts ==
  ASSUME NEW s \in Stretch, NEW w \in Pair, Forward(w),
         NEW median \in 0..MaxMedian
  PROVE  LET e == Ended(s, w, median)
             hi == w.last.end IN
         /\ e.end \in Int /\ e.words \in Pair /\ Forward(e.words)
         /\ e.words.first.start = w.first.start
         /\ e.words.last.start = w.last.start
         /\ e.end <= hi /\ e.words.last.end <= hi + Growth
         /\ w.last.start + e.words.last.end <= 2 * hi
         /\ e.end <= e.words.last.end /\ e.words.last.end <= e.end + median
         /\ \/ e.words.first.end = w.first.end
            \/ e.words.first.end >= w.first.start + median
         /\ \/ e.end = s.end /\ s.end > w.last.start
            \/ e.end = hi /\ e.words = w
<1> DEFINE hi == w.last.end
           t == Most(w.last.start + median, s.end)
           e == Ended(s, w, median)
<1>1. /\ s.end \in Nat /\ hi \in Int /\ w.first.end \in Int /\ w.first.start \in Int
      /\ w.last.start \in Int /\ median \in Nat
      /\ median <= MaxMedian /\ w.last.start <= hi
  BY SpanFacts, GrowthFacts DEF Stretch, Forward
<1>2. CASE s.end > w.last.start /\ s.end + Long < hi
  <2>1. e = [end |-> s.end, words |-> Closing(w, t)]
    BY <1>2 DEF Ended
  <2>2. /\ t \in Int /\ t >= w.last.start + median /\ t >= s.end
        /\ t = w.last.start + median \/ t = s.end
    BY <1>1 DEF Most
  <2> HIDE DEF t, hi
  <2> DEFINE o == Closing(w, t)
  <2>3. /\ o \in Pair /\ o.last.end = t /\ o.last.start = w.last.start
        /\ o.first.start = w.first.start
        /\ w.first = w.last => o.first = o.last
        /\ w.first # w.last => o.first = w.first
    BY <2>2, ClosingFacts
  <2>4. e.end = s.end /\ e.words = o
    BY <2>1
  <2> HIDE DEF o, e
  <2>5. Forward(o) /\ (o.first.end = w.first.end \/ o.first.end >= w.first.start + median)
    <3>1. CASE w.first = w.last
      <4>1. o.first = o.last /\ w.first.start = w.last.start
        BY <2>3, <3>1
      <4> QED BY <1>1, <2>2, <2>3, <4>1 DEF Forward
    <3>2. CASE w.first # w.last
      BY <1>1, <2>2, <2>3, <3>2 DEF Forward
    <3> QED BY <3>1, <3>2
  <2>6. /\ s.end <= hi /\ t <= hi + Growth /\ w.last.start + t <= 2 * hi
        /\ s.end <= t /\ t <= s.end + median
    BY <1>1, <1>2, <2>2, GrowthFacts
  <2> QED BY <1>1, <1>2, <2>3, <2>4, <2>5, <2>6 DEF e, hi
<1>3. CASE ~(s.end > w.last.start /\ s.end + Long < hi)
  <2>1. e = [end |-> hi, words |-> w]
    BY <1>3 DEF Ended
  <2>2. e.end = hi /\ e.words = w
    BY <2>1
  <2> HIDE DEF e
  <2>3. hi <= hi + Growth /\ w.last.start + hi <= 2 * hi /\ hi <= hi + median
    BY <1>1, GrowthFacts
  <2> QED BY <1>1, <2>2, <2>3 DEF e
<1> QED BY <1>2, <1>3

\* A segment's times: none goes back.
Sane(s) ==
  /\ s.start <= s.end
  /\ s.first.start <= s.first.end /\ s.last.start <= s.last.end
  /\ s.first = s.last \/ s.first.end <= s.last.start
  /\ s.end <= s.last.end
  /\ ~s.words => /\ s.start = s.first.start /\ s.end = s.first.end
                 /\ s.first = s.last

\* A segment that is over at a time, and one that begins there: the words of
\* both may pass it by Growth, their middles do not.
Over(s, m) ==
  /\ s.end <= m /\ s.last.end <= m + Growth /\ s.last.start + s.last.end <= 2 * m
Begins(s, m) ==
  /\ m <= s.start /\ m <= s.first.start + Growth
  /\ 2 * m <= s.first.start + s.first.end

LEMMA SpokenFacts ==
  ASSUME NEW s \in Spoken
  PROVE  /\ s.start \in Int /\ s.end \in Int /\ s.first \in Span /\ s.last \in Span
         /\ s.first.start \in Int /\ s.first.end \in Int
         /\ s.last.start \in Int /\ s.last.end \in Int
         /\ s.words \in BOOLEAN /\ s.text \in BOOLEAN /\ s.odd \in BOOLEAN
<1>1. /\ s.start \in Int /\ s.end \in Int /\ s.first \in Span /\ s.last \in Span
      /\ s.words \in BOOLEAN /\ s.text \in BOOLEAN /\ s.odd \in BOOLEAN
  BY DEF Spoken
<1>2. \A x \in Span : x.start \in Int /\ x.end \in Int
  BY DEF Span
<1> QED BY <1>1, <1>2

LEMMA OverLater ==
  ASSUME NEW s \in Spoken, NEW m \in Int, NEW n \in Int, m <= n, Over(s, m)
  PROVE  Over(s, n)
BY SpokenFacts, GrowthFacts DEF Over

LEMMA BeginsEarlier ==
  ASSUME NEW s \in Spoken, NEW m \in Int, NEW n \in Int, n <= m, Begins(s, m)
  PROVE  Begins(s, n)
BY SpokenFacts, GrowthFacts DEF Begins

\* A segment with words, made of the words w that begin it at w.first.start.
LEMMA TimedFacts ==
  ASSUME NEW s \in Stretch, s.start <= s.end, NEW w \in Pair, Forward(w),
         w.first.end >= 0, NEW median \in 0..MaxMedian, NEW ago \in Nat,
         NEW odd \in BOOLEAN
  PROVE  LET x == Timed(s, w, median, ago, odd) IN
         /\ x \in Spoken /\ x.words /\ Sane(x)
         /\ Over(x, w.last.end) /\ Begins(x, w.first.start)
         /\ x.last.end <= x.end + median
<1> DEFINE b == Begun(s, w, median, ago)
           e == Ended(s, b.words, median)
           x == Timed(s, w, median, ago, odd)
           lo == w.first.start
           hi == w.last.end
<1>1. /\ b.start \in Int /\ b.words \in Pair /\ Forward(b.words)
      /\ b.words.first.end = w.first.end /\ b.words.last.end = hi
      /\ lo <= b.start /\ lo <= b.words.first.start + Growth
      /\ 2 * lo <= b.words.first.start + w.first.end
      /\ 2 * lo <= 2 * b.words.first.start + median
      /\ \/ b.start = s.start /\ s.start < w.first.end
         \/ b.start = lo /\ b.words = w
  BY BegunFacts
<1> HIDE DEF b
<1>2. /\ e.end \in Int /\ e.words \in Pair /\ Forward(e.words)
      /\ e.words.first.start = b.words.first.start
      /\ e.words.last.start = b.words.last.start
      /\ e.end <= hi /\ e.words.last.end <= hi + Growth
      /\ b.words.last.start + e.words.last.end <= 2 * hi
      /\ e.end <= e.words.last.end /\ e.words.last.end <= e.end + median
      /\ \/ e.words.first.end = w.first.end
         \/ e.words.first.end >= b.words.first.start + median
      /\ \/ e.end = s.end /\ s.end > b.words.last.start
         \/ e.end = hi /\ e.words = b.words
  <2> DEFINE v == b.words
  <2>1. v \in Pair /\ Forward(v) /\ v.last.end = hi /\ v.first.end = w.first.end
    BY <1>1
  <2> HIDE DEF v
  <2>2. LET e2 == Ended(s, v, median) IN
        /\ e2.end \in Int /\ e2.words \in Pair /\ Forward(e2.words)
        /\ e2.words.first.start = v.first.start
        /\ e2.words.last.start = v.last.start
        /\ e2.end <= v.last.end /\ e2.words.last.end <= v.last.end + Growth
        /\ v.last.start + e2.words.last.end <= 2 * v.last.end
        /\ e2.end <= e2.words.last.end /\ e2.words.last.end <= e2.end + median
        /\ \/ e2.words.first.end = v.first.end
           \/ e2.words.first.end >= v.first.start + median
        /\ \/ e2.end = s.end /\ s.end > v.last.start
           \/ e2.end = v.last.end /\ e2.words = v
    BY <2>1, EndedFacts
  <2> QED BY <2>1, <2>2 DEF v
<1>3. x = [start |-> b.start, end |-> e.end,
           first |-> e.words.first, last |-> e.words.last,
           words |-> TRUE, text |-> TRUE, odd |-> odd]
  BY DEF Timed, b
<1> HIDE DEF e, x
<1>4. /\ x.start = b.start /\ x.end = e.end /\ x.first = e.words.first
      /\ x.last = e.words.last /\ x.words = TRUE
  BY <1>3
<1>5. x \in Spoken
  <2>1. e.words.first \in Span /\ e.words.last \in Span
    BY <1>2, SpanFacts
  <2> QED BY <1>1, <1>2, <1>3, <2>1 DEF Spoken
<1>6. /\ lo \in Int /\ hi \in Int /\ w.first.end \in Int /\ w.last.start \in Int
      /\ s.start \in Int /\ s.end \in Int /\ median \in Nat
      /\ w.first.end <= hi /\ lo <= w.first.end /\ lo <= w.last.start
      /\ b.words.first.start \in Int /\ b.words.last.start \in Int
      /\ e.words.first.end \in Int /\ e.words.last.end \in Int
      /\ e.words.first.start \in Int /\ e.words.last.start \in Int
  <2>1. /\ lo \in Int /\ hi \in Int /\ w.first.end \in Int /\ w.last.start \in Int
        /\ s.start \in Int /\ s.end \in Int /\ median \in Nat
    BY SpanFacts, GrowthFacts DEF Stretch
  <2>2. /\ b.words.first.start \in Int /\ b.words.last.start \in Int
        /\ e.words.first.end \in Int /\ e.words.last.end \in Int
        /\ e.words.first.start \in Int /\ e.words.last.start \in Int
    BY <1>1, <1>2, SpanFacts
  <2>3. w.first.end <= hi /\ lo <= w.first.end /\ lo <= w.last.start
    <3>1. CASE w.first = w.last
      BY <2>1, <3>1 DEF Forward
    <3>2. CASE w.first.end <= w.last.start
      BY <2>1, <3>2 DEF Forward
    <3> QED BY <3>1, <3>2 DEF Forward
  <2> QED BY <2>1, <2>2, <2>3
<1>7. x.start <= x.end
  <2>1. CASE b.start = s.start /\ s.start < w.first.end
    BY <1>2, <1>4, <1>6, <2>1
  <2>2. CASE b.start = lo /\ b.words = w
    BY <1>2, <1>4, <1>6, <2>2
  <2> QED BY <1>1, <2>1, <2>2
<1>8. Sane(x)
  BY <1>2, <1>4, <1>7 DEF Sane, Forward
<1>9. Over(x, hi)
  BY <1>2, <1>4, <1>6 DEF Over
<1>10. Begins(x, lo)
  <2>1. 2 * lo <= b.words.first.start + e.words.first.end
    BY <1>1, <1>2, <1>6
  <2> QED BY <1>1, <1>2, <1>4, <2>1 DEF Begins
<1>11. x.words /\ x.last.end <= x.end + median
  BY <1>2, <1>4
<1> HIDE DEF lo, hi
<1> QED BY <1>5, <1>8, <1>9, <1>10, <1>11 DEF x, lo, hi

\* The segments of a window, those of W in time order and behind the begin of
\* the window or the speech before it.
Parted(s, t) == \E m \in Int : Over(s, m) /\ Begins(t, m)
Started(s, past) == Begins(s, 0) \/ Begins(s, past)
WellSpaced(segs, W, past) ==
  /\ segs \in Seq(Spoken)
  /\ \A i \in 1..Len(segs) : Sane(segs[i]) /\ (~segs[i].words => segs[i].start >= 0)
  /\ W \in SUBSET (1..Len(segs))
  /\ \A i, j \in W : i < j => Parted(segs[i], segs[j])
  /\ \A i \in W : Started(segs[i], past)

LEMMA UntimedFacts ==
  ASSUME NEW s \in Stretch, s.start <= s.end, NEW text \in BOOLEAN
  PROVE  LET x == Untimed(s, text) IN
         /\ x \in Spoken /\ ~x.words /\ Sane(x)
         /\ x.start = s.start /\ x.end = s.end
         /\ x.first.start = s.start /\ x.first.end = s.end /\ x.last = x.first
<1> DEFINE x == Untimed(s, text)
<1>1. s.start \in Nat /\ s.end \in Nat /\ s \in Span
  BY DEF Stretch, Span
<1>2. x = [start |-> s.start, end |-> s.end, first |-> s, last |-> s,
           words |-> FALSE, text |-> text, odd |-> FALSE]
  BY DEF Untimed
<1> HIDE DEF x
<1>3. /\ x.start = s.start /\ x.end = s.end /\ x.first = s /\ x.last = s
      /\ x.words = FALSE
  BY <1>2
<1>4. x \in Spoken
  BY <1>1, <1>2 DEF Spoken
<1>5. Sane(x)
  BY <1>1, <1>3 DEF Sane
<1> QED BY <1>3, <1>4, <1>5 DEF x

LEMMA WordsFacts ==
  ASSUME NEW size \in Nat, NEW w \in WordPair(size)
  PROVE  /\ w \in Pair /\ Forward(w)
         /\ w.first.start >= 0 /\ w.first.end >= 0 /\ w.last.end <= size
<1>1. /\ w \in [first : Word(size), last : Word(size)]
      /\ w.first = w.last \/ w.first.end <= w.last.start
  BY DEF WordPair
<1>2. w.first \in Word(size) /\ w.last \in Word(size)
  BY <1>1
<1>3. \A v \in Word(size) : /\ v \in Span /\ v.start <= v.end
                            /\ v.start >= 0 /\ v.end >= 0 /\ v.end <= size
  <2> SUFFICES ASSUME NEW v \in Word(size)
               PROVE  /\ v \in Span /\ v.start <= v.end
                      /\ v.start >= 0 /\ v.end >= 0 /\ v.end <= size
    OBVIOUS
  <2>1. v \in [start : 0..size, end : 0..size] /\ v.start <= v.end
    BY DEF Word
  <2>2. v.start \in 0..size /\ v.end \in 0..size
    BY <2>1
  <2>3. 0..size \subseteq Int
    OBVIOUS
  <2>4. v \in Span
    BY <2>1, <2>3, Zenon DEF Span
  <2> QED BY <2>1, <2>2, <2>4
<1>4. w \in Pair
  BY <1>1, <1>3, Zenon DEF Pair
<1> QED BY <1>1, <1>2, <1>3, <1>4 DEF Forward

\* The begin of a first word that is shortened after a pause.
LEMMA ShortenedFacts ==
  ASSUME NEW w \in Pair, Forward(w), w.first.end >= 0,
         NEW median \in Nat, NEW ago \in Nat
  PROVE  LET v == Shortened(w, median, ago) IN
         /\ v \in Pair /\ Forward(v)
         /\ v.first.end = w.first.end /\ v.last.end = w.last.end
         /\ v.first.start >= w.first.end - 2 * median
<1> DEFINE t == Most(-ago, w.first.end - 2 * median)
           v == Opening(w, t)
<1>1. /\ w.first.start \in Int /\ w.first.end \in Int
      /\ w.last.start \in Int /\ w.last.end \in Int
  BY SpanFacts
<1>2. /\ t \in Int /\ t <= w.first.end /\ t >= w.first.end - 2 * median
  BY <1>1 DEF Most
<1>3. Shortened(w, median, ago) = v
  BY DEF Shortened
<1> HIDE DEF t
<1>4. /\ v \in Pair /\ v.first.start = t /\ v.first.end = w.first.end
      /\ v.last.end = w.last.end
      /\ w.first = w.last => v.first = v.last
      /\ w.first # w.last => v.last = w.last
  BY <1>2, OpeningFacts
<1> HIDE DEF v
<1>5. Forward(v)
  <2>1. CASE w.first = w.last
    BY <1>1, <1>2, <1>4, <2>1 DEF Forward
  <2>2. CASE w.first # w.last
    BY <1>1, <1>2, <1>4, <2>2 DEF Forward
  <2> QED BY <2>1, <2>2
<1> QED BY <1>2, <1>3, <1>4, <1>5

LEMMA AlignedFacts ==
  ASSUME NEW size \in Nat, NEW past \in Int, NEW ago \in Nat,
         NEW sp, SplitSound(sp, size),
         NEW out \in Aligned(sp.segments, size, past, ago)
  PROVE  /\ WellSpaced(out, WithWords(out), past) /\ Len(out) \in Nat \ {0}
         /\ \A i \in WithWords(out) : Over(out[i], size)
<1> DEFINE given == sp.segments
           n == Len(given)
<1>1. /\ given \in Seq(Stretch) /\ n \in Nat \ {0} /\ DOMAIN given = 1..n
      /\ \A i \in 1..n : given[i] \in Stretch /\ given[i].start <= given[i].end
  BY DEF SplitSound
<1>2. PICK ws, short, median, odd, text :
        /\ ws \in UNION {[spoken -> WordPair(size)] : spoken \in SUBSET (1..n)}
        /\ InTimeOrder(ws) /\ median \in 0..MaxMedian
        /\ out = Outcome(given, ws, short, odd, text, median, ago)
        /\ Applied(out, ws, short, median, past)
  <2> DEFINE f(ws) == ws \in UNION {[spoken -> WordPair(size)] : spoken \in SUBSET (1..n)}
             O(ws, short, median) ==
               {Outcome(given, ws, short, odd, text, median, ago) :
                  odd \in SUBSET DOMAIN ws, text \in SUBSET (DOMAIN given \ DOMAIN ws)}
             A(ws, short, median) ==
               {o \in O(ws, short, median) : Applied(o, ws, short, median, past)}
             F == {g \in UNION {[spoken -> WordPair(size)] : spoken \in SUBSET (1..n)} :
                     InTimeOrder(g)}
  <2>1. Aligned(given, size, past, ago)
          = UNION {A(ws, short, median) :
                     ws \in F, short \in SUBSET (1..n), median \in 0..MaxMedian}
    BY <1>1 DEF Aligned
  <2> HIDE DEF A, F
  <2>2. PICK ws \in F, short \in SUBSET (1..n), median \in 0..MaxMedian :
          out \in A(ws, short, median)
    BY <2>1
  <2> HIDE DEF O
  <2>3. out \in O(ws, short, median) /\ Applied(out, ws, short, median, past)
    BY <2>2 DEF A
  <2>4. PICK odd, text : out = Outcome(given, ws, short, odd, text, median, ago)
    BY <2>3 DEF O
  <2>5. /\ ws \in UNION {[spoken -> WordPair(size)] : spoken \in SUBSET (1..n)}
        /\ InTimeOrder(ws)
    BY <2>2 DEF F
  <2> QED BY <2>2, <2>3, <2>4, <2>5
<1> DEFINE W == DOMAIN ws
           v(i) == IF i \in short THEN Shortened(ws[i], median, ago) ELSE ws[i]
           timed(i) == Timed(given[i], v(i), median, ago, i \in odd)
           plain(i) == Untimed(given[i], i \in text)
<1>3. W \in SUBSET (1..n) /\ \A i \in W : ws[i] \in WordPair(size)
  BY <1>2
<1>4. median \in Nat /\ median <= MaxMedian /\ MaxMedian \in Nat
  BY <1>2, GrowthFacts
<1>5. out = [i \in 1..n |-> IF i \in W THEN timed(i) ELSE plain(i)]
  BY <1>1, <1>2 DEF Outcome
<1> HIDE DEF W, given, n
<1>6. ASSUME NEW i \in W
      PROVE  /\ v(i) \in Pair /\ Forward(v(i)) /\ v(i).first.end >= 0
             /\ v(i).first.end = ws[i].first.end
             /\ v(i).last.end = ws[i].last.end /\ v(i).last.end <= size
             /\ i \notin short => v(i) = ws[i] /\ v(i).first.start >= 0
             /\ i \in short => v(i).first.start >= ws[i].first.end - 2 * median
  <2>1. /\ ws[i] \in Pair /\ Forward(ws[i]) /\ ws[i].first.start >= 0
        /\ ws[i].first.end >= 0 /\ ws[i].last.end <= size
    BY <1>3, WordsFacts
  <2>2. CASE i \in short
    <3> DEFINE u == ws[i]
    <3>1. u \in Pair /\ Forward(u) /\ u.first.end >= 0 /\ u.last.end <= size
      BY <2>1
    <3> HIDE DEF u
    <3>2. LET x == Shortened(u, median, ago) IN
          /\ x \in Pair /\ Forward(x)
          /\ x.first.end = u.first.end /\ x.last.end = u.last.end
          /\ x.first.start >= u.first.end - 2 * median
      BY <1>4, <3>1, ShortenedFacts
    <3>3. v(i) = Shortened(u, median, ago)
      BY <2>2 DEF u
    <3> HIDE DEF v
    <3>4. /\ v(i) \in Pair /\ Forward(v(i))
          /\ v(i).first.end = u.first.end /\ v(i).last.end = u.last.end
          /\ v(i).first.start >= u.first.end - 2 * median
      BY <3>2, <3>3
    <3> QED BY <2>2, <3>1, <3>4 DEF u
  <2>3. CASE i \notin short
    BY <2>1, <2>3
  <2> QED BY <2>2, <2>3
<1> HIDE DEF v
<1>7. ASSUME NEW i \in W
      PROVE  /\ i \in 1..n /\ out[i] = timed(i) /\ out[i] \in Spoken
             /\ out[i].words /\ Sane(out[i])
             /\ Over(out[i], ws[i].last.end) /\ Begins(out[i], v(i).first.start)
             /\ out[i].last.end <= out[i].end + median
  <2> DEFINE s == given[i]
             u == v(i)
             o == i \in odd
  <2>1. /\ s \in Stretch /\ s.start <= s.end /\ u \in Pair /\ Forward(u)
        /\ u.first.end >= 0 /\ o \in BOOLEAN /\ i \in 1..n
        /\ u.last.end = ws[i].last.end
    BY <1>1, <1>3, <1>6
  <2>2. out[i] = timed(i)
    BY <1>5, <2>1
  <2>3. timed(i) = Timed(s, u, median, ago, o)
    OBVIOUS
  <2> HIDE DEF s, u, o, timed
  <2>4. LET x == Timed(s, u, median, ago, o) IN
        /\ x \in Spoken /\ x.words /\ Sane(x)
        /\ Over(x, u.last.end) /\ Begins(x, u.first.start)
        /\ x.last.end <= x.end + median
    BY <1>2, <2>1, TimedFacts
  <2> QED BY <2>1, <2>2, <2>3, <2>4 DEF u
<1>8. ASSUME NEW i \in 1..n, i \notin W
      PROVE  out[i] \in Spoken /\ ~out[i].words /\ Sane(out[i]) /\ out[i].start >= 0
  <2> DEFINE s == given[i]
             t == i \in text
  <2>1. s \in Stretch /\ s.start <= s.end /\ t \in BOOLEAN
    BY <1>1
  <2>2. out[i] = Untimed(s, t)
    BY <1>5, <1>8
  <2>3. s.start >= 0
    BY <2>1 DEF Stretch
  <2> HIDE DEF s, t
  <2>4. LET x == Untimed(s, t) IN
        x \in Spoken /\ ~x.words /\ Sane(x) /\ x.start = s.start
    BY <2>1, UntimedFacts
  <2> QED BY <2>2, <2>3, <2>4
<1> HIDE DEF timed, plain
<1>9. out \in Seq(Spoken) /\ Len(out) = n /\ DOMAIN out = 1..n
  <2>1. \A i \in 1..n : out[i] \in Spoken
    BY <1>7, <1>8
  <2>2. DOMAIN out = 1..n /\ out = [i \in 1..n |-> out[i]]
    BY <1>5
  <2> QED BY <1>1, <2>1, <2>2
<1>10. W = WithWords(out)
  BY <1>3, <1>7, <1>8, <1>9 DEF WithWords
<1>11. \A i \in W : /\ out[i].start \in Int /\ out[i].end \in Int
                    /\ out[i].last.start \in Int /\ out[i].last.end \in Int
                    /\ out[i].start <= out[i].end
                    /\ out[i].last.start <= out[i].last.end
                    /\ v(i).first.start \in Int /\ ws[i].first.end \in Int
                    /\ ws[i].first.start \in Int /\ ws[i].last.end \in Int
                    /\ v(i).first.start <= out[i].start
  <2> SUFFICES ASSUME NEW i \in W
               PROVE  /\ out[i].start \in Int /\ out[i].end \in Int
                      /\ out[i].last.start \in Int /\ out[i].last.end \in Int
                      /\ out[i].start <= out[i].end
                      /\ out[i].last.start <= out[i].last.end
                      /\ v(i).first.start \in Int /\ ws[i].first.end \in Int
                      /\ ws[i].first.start \in Int /\ ws[i].last.end \in Int
                      /\ v(i).first.start <= out[i].start
    OBVIOUS
  <2>1. out[i] \in Spoken /\ v(i) \in Pair /\ ws[i] \in Pair
    BY <1>3, <1>6, <1>7, WordsFacts
  <2>2. /\ v(i).first.start \in Int /\ ws[i].first.end \in Int
        /\ ws[i].first.start \in Int /\ ws[i].last.end \in Int
    BY <2>1, SpanFacts
  <2> QED BY <1>7, <2>1, <2>2, SpokenFacts DEF Sane, Begins
<1>12. ASSUME NEW i \in W, NEW j \in W, i < j, j \in short
       PROVE  v(j).first.start > out[i].end + 2 * median
  <2>1. AfterPause(out, ws, j, median, past)
    BY <1>2, <1>12 DEF Applied, W
  <2>2. ws[j].first.end - out[i].end > 4 * median
    BY <1>12, <2>1 DEF AfterPause, W
  <2> QED BY <1>4, <1>6, <1>11, <1>12, <2>2
<1>13. ASSUME NEW i \in W, NEW j \in W, i < j
       PROVE  Parted(out[i], out[j])
  <2>1. Begins(out[j], v(j).first.start) /\ v(j).first.start \in Int
    BY <1>7, <1>11
  <2>2. Over(out[i], v(j).first.start)
    <3>1. CASE j \in short
      <4>1. v(j).first.start > out[i].end + 2 * median
        BY <1>12, <1>13, <3>1
      <4>2. out[i].last.end <= out[i].end + median
        BY <1>7
      <4> QED BY <1>4, <1>11, <4>1, <4>2, GrowthFacts DEF Over
    <3>2. CASE j \notin short
      <4>1. ws[i].last.end <= ws[j].first.start /\ v(j) = ws[j]
        BY <1>2, <1>6, <1>13, <3>2 DEF InTimeOrder, W
      <4>2. out[i] \in Spoken /\ Over(out[i], ws[i].last.end)
        BY <1>7
      <4> QED BY <1>11, <4>1, <4>2, OverLater
    <3> QED BY <3>1, <3>2
  <2> QED BY <2>1, <2>2 DEF Parted
<1>14. ASSUME NEW i \in W
       PROVE  Started(out[i], past)
  <2>1. W # {} /\ W \in SUBSET (0..n)
    BY <1>1, <1>3
  <2> DEFINE k == Min(W)
  <2>2. k \in W /\ \A x \in W : k <= x
    BY <1>1, <2>1, MinMaxOf
  <2> HIDE DEF k
  <2>3. \A x \in W : x \notin short => Begins(out[x], 0)
    BY <1>6, <1>7, <1>11, BeginsEarlier
  <2>4. k \in short => Begins(out[k], past)
    <3> SUFFICES ASSUME k \in short PROVE Begins(out[k], past)
      OBVIOUS
    <3>1. AfterPause(out, ws, k, median, past)
      BY <1>2, <2>2 DEF Applied, W
    <3>2. {j \in W : j < k} = {}
      <4> HIDE DEF W
      <4>1. \A j \in W : j \in 1..n /\ k \in 1..n /\ k <= j
        BY <1>3, <2>2
      <4> HIDE DEF n
      <4>2. \A j \in W : ~(j < k)
        BY <1>1, <4>1
      <4>3. \A P : (\A j \in P : ~(j < k)) => {j \in P : j < k} = {}
        OBVIOUS
      <4> QED BY <4>2, <4>3
    <3>3. ws[k].first.end - past > 4 * median
      BY <3>1, <3>2 DEF AfterPause, W
    <3>4. v(k).first.start >= past
      BY <1>4, <1>6, <1>11, <2>2, <3>3
    <3> QED BY <1>7, <1>11, <2>2, <3>4, BeginsEarlier
  <2>5. CASE i = k \/ i \notin short
    BY <2>2, <2>3, <2>4, <2>5 DEF Started
  <2>6. CASE i # k /\ i \in short
    <3>1. k < i /\ k \in W
      BY <1>3, <2>2, <2>6
    <3>2. v(i).first.start > out[k].end + 2 * median
      BY <1>12, <2>6, <3>1
    <3>3. out[k].start <= v(i).first.start
      BY <1>4, <1>11, <3>1, <3>2
    <3>4. Begins(out[k], 0) \/ Begins(out[k], past)
      BY <2>2, <2>3, <2>4
    <3>5. CASE Begins(out[k], 0)
      <4>1. 0 <= v(i).first.start
        BY <1>11, <3>1, <3>3, <3>5 DEF Begins
      <4> QED BY <1>7, <1>11, <4>1, BeginsEarlier DEF Started
    <3>6. CASE Begins(out[k], past)
      <4>1. past <= v(i).first.start
        BY <1>11, <3>1, <3>3, <3>6 DEF Begins
      <4> QED BY <1>7, <1>11, <4>1, BeginsEarlier DEF Started
    <3> QED BY <3>4, <3>5, <3>6
  <2> QED BY <2>5, <2>6
<1>15. \A i \in W : Over(out[i], size)
  <2> SUFFICES ASSUME NEW i \in W PROVE Over(out[i], size)
    OBVIOUS
  <2>1. ws[i].last.end <= size /\ ws[i].last.end \in Int
    BY <1>6, <1>11
  <2> QED BY <1>7, <2>1, OverLater
<1>16. \A i \in 1..n : Sane(out[i]) /\ (~out[i].words => out[i].start >= 0)
  BY <1>7, <1>8
<1>17. WellSpaced(out, W, past)
  BY <1>3, <1>9, <1>13, <1>14, <1>16 DEF WellSpaced
<1> QED BY <1>1, <1>9, <1>10, <1>15, <1>17

LEMMA PlainFacts ==
  ASSUME NEW size \in Nat, NEW sp, SplitSound(sp, size), NEW past \in Int,
         NEW out \in Plain(sp.segments)
  PROVE  /\ WellSpaced(out, DOMAIN out, past) /\ DOMAIN out = 1..Len(out)
         /\ \A i \in DOMAIN out : /\ ~out[i].words
                                  /\ sp.seek = size \/ Over(out[i], sp.seek)
                                  /\ Over(out[i], MaxFrames)
<1> DEFINE given == sp.segments
           n == Len(given)
<1>1. /\ given \in Seq(Stretch) /\ n \in Nat \ {0} /\ DOMAIN given = 1..n
      /\ sp.seek \in Nat
      /\ \A i \in 1..n : /\ given[i] \in Stretch
                         /\ given[i].start <= given[i].end
                         /\ sp.seek = size \/ given[i].end <= sp.seek
                         /\ given[i].end <= MaxFrames
      /\ \A i, j \in 1..n : i < j => given[i].end <= given[j].start
  BY DEF SplitSound
<1>2. PICK text \in SUBSET (1..n) :
        out = [i \in 1..n |-> Untimed(given[i], i \in text)]
  BY <1>1 DEF Plain
<1> HIDE DEF given, n
<1>3. ASSUME NEW i \in 1..n
      PROVE  /\ out[i] \in Spoken /\ ~out[i].words /\ Sane(out[i])
             /\ out[i].start = given[i].start /\ out[i].end = given[i].end
             /\ out[i].first.start = given[i].start
             /\ out[i].first.end = given[i].end /\ out[i].last = out[i].first
             /\ given[i].start \in Nat /\ given[i].end \in Nat
  <2> DEFINE s == given[i]
             t == i \in text
  <2>1. s \in Stretch /\ s.start <= s.end /\ t \in BOOLEAN
    BY <1>1
  <2>2. out[i] = Untimed(s, t)
    BY <1>2
  <2>3. s.start \in Nat /\ s.end \in Nat
    BY <2>1 DEF Stretch
  <2> HIDE DEF s, t
  <2>4. LET x == Untimed(s, t) IN
        /\ x \in Spoken /\ ~x.words /\ Sane(x)
        /\ x.start = s.start /\ x.end = s.end
        /\ x.first.start = s.start /\ x.first.end = s.end /\ x.last = x.first
    BY <2>1, UntimedFacts
  <2> QED BY <2>2, <2>3, <2>4 DEF s
<1>4. out \in Seq(Spoken) /\ Len(out) = n /\ DOMAIN out = 1..n
  <2>1. DOMAIN out = 1..n /\ out = [i \in 1..n |-> out[i]]
    BY <1>2
  <2> QED BY <1>1, <1>3, <2>1
<1>5. ASSUME NEW i \in 1..n, NEW m \in Int, given[i].end <= m
      PROVE  Over(out[i], m)
  <2>1. given[i].start <= given[i].end
    BY <1>1
  <2> QED BY <1>3, <1>5, <2>1, GrowthFacts DEF Over
<1>6. ASSUME NEW i \in 1..n, NEW m \in Int, m <= given[i].start
      PROVE  Begins(out[i], m)
  <2>1. given[i].start <= given[i].end
    BY <1>1
  <2> QED BY <1>3, <1>6, <2>1, GrowthFacts DEF Begins
<1>7. \A i \in 1..n : /\ sp.seek = size \/ Over(out[i], sp.seek)
                      /\ Over(out[i], MaxFrames)
  BY <1>1, <1>5, TranscriberAssumption
<1>8. ASSUME NEW i \in 1..n, NEW j \in 1..n, i < j
      PROVE  Parted(out[i], out[j])
  <2>1. given[i].end <= given[j].start /\ given[j].start \in Int
        /\ given[j].start <= given[j].start
    BY <1>1, <1>3, <1>8
  <2> QED BY <1>5, <1>6, <2>1 DEF Parted
<1>9. \A i \in 1..n : Started(out[i], past)
  <2>1. \A i \in 1..n : 0 <= given[i].start
    BY <1>3
  <2> QED BY <1>6, <2>1 DEF Started
<1>10. \A i \in 1..n : Sane(out[i]) /\ (~out[i].words => out[i].start >= 0)
  BY <1>3
<1>11. WellSpaced(out, 1..n, past)
  BY <1>4, <1>8, <1>9, <1>10 DEF WellSpaced
<1> QED BY <1>3, <1>4, <1>7, <1>11


\* get_end is behind all words, and behind the begin of the window or the
\* speech before it.
LEMMA EndIsLast ==
  ASSUME NEW past \in Int, NEW segs, WellSpaced(segs, WithWords(segs), past),
         Len(segs) \in Nat \ {0}
  PROVE  /\ GetEnd(segs) \in Int
         /\ 0 <= GetEnd(segs) \/ past <= GetEnd(segs)
         /\ \A i \in WithWords(segs) : Over(segs[i], GetEnd(segs))
<1> DEFINE n == Len(segs)
           w == WithWords(segs)
<1>1. /\ DOMAIN segs = 1..n /\ n \in Nat \ {0}
      /\ \A i \in 1..n : segs[i] \in Spoken /\ Sane(segs[i])
      /\ \A i \in 1..n : ~segs[i].words => segs[i].start >= 0
      /\ \A i, j \in w : i < j => Parted(segs[i], segs[j])
      /\ \A i \in w : Started(segs[i], past)
  BY DEF WellSpaced
<1>2. \A i \in 1..n : /\ segs[i].start \in Int /\ segs[i].end \in Int
                      /\ segs[i].last.start \in Int /\ segs[i].last.end \in Int
                      /\ segs[i].start <= segs[i].end
                      /\ segs[i].end <= segs[i].last.end
                      /\ segs[i].last.start <= segs[i].last.end
  BY <1>1, SpokenFacts DEF Sane
<1>3. CASE w = {}
  <2>1. GetEnd(segs) = segs[n].last.end /\ n \in 1..n
    BY <1>1, <1>3 DEF GetEnd
  <2>2. ~segs[n].words
    BY <1>1, <1>3, <2>1 DEF WithWords
  <2>3. 0 <= segs[n].start
    BY <1>1, <2>1, <2>2
  <2>4. GetEnd(segs) \in Int /\ 0 <= GetEnd(segs)
    BY <1>2, <2>1, <2>3
  <2> QED BY <1>3, <2>4
<1>4. CASE w # {}
  <2>1. w \in SUBSET (0..n) /\ w \in SUBSET (1..n)
    BY <1>1 DEF WithWords
  <2>2. Max(w) \in w /\ \A x \in w : x <= Max(w)
    BY <1>1, <1>4, <2>1, MinMaxOf
  <2> DEFINE m == Max(w)
  <2>3. GetEnd(segs) = segs[m].last.end
    BY <1>4 DEF GetEnd
  <2>4. m \in 1..n /\ m \in w /\ \A x \in w : x \in 1..n /\ x <= m
    BY <2>1, <2>2
  <2> HIDE DEF m, w
  <2> DEFINE e == segs[m].last.end
  <2>5. e \in Int /\ segs[m].start <= e
    BY <1>2, <2>4
  <2>6. 0 <= e \/ past <= e
    <3>1. Begins(segs[m], 0) \/ Begins(segs[m], past)
      BY <1>1, <2>4 DEF Started
    <3>2. 0 <= segs[m].start \/ past <= segs[m].start
      BY <3>1 DEF Begins
    <3> QED BY <1>2, <2>4, <2>5, <3>2
  <2>7. ASSUME NEW i \in w PROVE Over(segs[i], e)
    <3>1. i \in 1..n /\ segs[i] \in Spoken /\ (i = m \/ i < m)
      BY <1>1, <2>4, <2>7
    <3>2. CASE i = m
      BY <1>2, <2>4, <3>2, GrowthFacts DEF Over
    <3>3. CASE i < m
      <4>1. PICK t \in Int : Over(segs[i], t) /\ Begins(segs[m], t)
        BY <1>1, <2>4, <2>7, <3>3 DEF Parted
      <4>2. t <= e
        BY <1>2, <2>4, <2>5, <4>1 DEF Begins
      <4> QED BY <2>5, <3>1, <4>1, <4>2, OverLater
    <3> QED BY <3>1, <3>2, <3>3
  <2> HIDE DEF e
  <2>8. GetEnd(segs) = e
    BY <2>3 DEF e
  <2> QED BY <2>5, <2>6, <2>7, <2>8 DEF w
<1> QED BY <1>3, <1>4

LEMMA WordSeekFacts ==
  ASSUME NEW size \in Nat, NEW past \in Int, NEW ago \in Nat,
         NEW sp, SplitSound(sp, size),
         NEW segs \in Aligned(sp.segments, size, past, ago)
  PROVE  /\ WordSeek(segs, sp) \in Nat \ {0}
         /\ \A i \in WithWords(segs) : Over(segs[i], WordSeek(segs, sp))
<1>1. /\ WellSpaced(segs, WithWords(segs), past) /\ Len(segs) \in Nat \ {0}
      /\ \A i \in WithWords(segs) : Over(segs[i], size)
  BY AlignedFacts
<1>2. /\ GetEnd(segs) \in Int
      /\ \A i \in WithWords(segs) : Over(segs[i], GetEnd(segs))
  BY <1>1, EndIsLast
<1>3. sp.seek \in Nat \ {0} /\ (sp.single => sp.seek = size)
  BY DEF SplitSound
<1>4. CASE ~sp.single /\ GetEnd(segs) > 0
  BY <1>2, <1>4 DEF WordSeek
<1>5. CASE sp.single
  BY <1>1, <1>3, <1>5 DEF WordSeek
<1>6. CASE ~sp.single /\ ~(GetEnd(segs) > 0)
  <2>1. GetEnd(segs) <= sp.seek /\ WordSeek(segs, sp) = sp.seek
    BY <1>2, <1>3, <1>6 DEF WordSeek
  <2>2. \A i \in WithWords(segs) : segs[i] \in Spoken
    BY <1>1 DEF WellSpaced, WithWords
  <2> QED BY <1>2, <1>3, <2>1, <2>2, OverLater
<1> QED BY <1>4, <1>5, <1>6

Left == Content(chunks) - seek

\* The first segments of a window.
LEMMA CutFacts ==
  ASSUME NEW past \in Int, NEW segs, WellSpaced(segs, WithWords(segs), past),
         NEW b \in 1..Len(segs)
  PROVE  LET front == SubSeq(segs, 1, b - 1) IN
         /\ WellSpaced(front, WithWords(front), past)
         /\ \A i \in WithWords(front) :
              i \in WithWords(segs) /\ front[i] = segs[i] /\ i < b
<1> DEFINE front == SubSeq(segs, 1, b - 1)
<1>1. segs \in Seq(Spoken) /\ Len(segs) \in Nat /\ DOMAIN segs = 1..Len(segs)
  BY DEF WellSpaced
<1>2. /\ front \in Seq(Spoken) /\ Len(front) = b - 1 /\ DOMAIN front = 1..(b - 1)
      /\ \A i \in 1..(b - 1) : front[i] = segs[i] /\ i \in 1..Len(segs) /\ i < b
  BY <1>1
<1> HIDE DEF front
<1>3. \A i \in WithWords(front) : /\ i \in 1..(b - 1) /\ i \in WithWords(segs)
                                /\ front[i] = segs[i] /\ i < b
  BY <1>1, <1>2 DEF WithWords
<1>4. \A i \in 1..Len(front) : Sane(front[i]) /\ (~front[i].words => front[i].start >= 0)
  BY <1>2 DEF WellSpaced
<1>5. /\ \A i, j \in WithWords(front) : i < j => Parted(front[i], front[j])
      /\ \A i \in WithWords(front) : Started(front[i], past)
  BY <1>3 DEF WellSpaced
<1>6. WellSpaced(front, WithWords(front), past)
  BY <1>2, <1>3, <1>4, <1>5 DEF WellSpaced
<1> QED BY <1>3, <1>6 DEF front

LEMMA JudgeFacts ==
  ASSUME NEW size \in Nat, NEW left \in Nat \ {0}, NEW past \in Int, NEW ago \in Nat,
         NEW segs, WellSpaced(segs, WithWords(segs), past),
         \A i \in WithWords(segs) : Over(segs[i], size),
         NEW next \in Nat \ {0}, \A i \in WithWords(segs) : Over(segs[i], next)
  PROVE  LET r == Judge(segs, next, size, left, past, ago)
             w == WithWords(r.segments) IN
         /\ r.seek \in Nat \ {0} /\ WellSpaced(r.segments, w, past)
         /\ \A i \in w : Over(r.segments[i], size)
         /\ r.seek = left \/ \A i \in w : Over(r.segments[i], r.seek)
<1> DEFINE n == Len(segs)
           w == WithWords(segs)
           first == IF w = {} THEN 0 ELSE Min(w)
           bad == {i \in DOMAIN segs : Surrounded(segs, i, size, past, ago)}
           b == Min(bad)
           skip == first # 0 /\ segs[first].odd /\ segs[first].start > Threshold
           far == IF left - segs[b].end < Threshold THEN left
                  ELSE Most(1, segs[b].start)
           r == Judge(segs, next, size, left, past, ago)
           v == WithWords(r.segments)
<1>1. /\ segs \in Seq(Spoken) /\ n \in Nat /\ DOMAIN segs = 1..n
      /\ \A i \in 1..n : segs[i] \in Spoken
  BY DEF WellSpaced
<1>2. \A i \in 1..n : segs[i].start \in Int /\ segs[i].end \in Int
  BY <1>1, SpokenFacts
<1>3. r = IF skip THEN [segments |-> <<>>, seek |-> segs[first].start]
          ELSE IF bad = {} THEN [segments |-> segs, seek |-> next]
          ELSE [segments |-> SubSeq(segs, 1, b - 1), seek |-> far]
  BY DEF Judge
<1> SUFFICES /\ r.seek \in Nat \ {0} /\ WellSpaced(r.segments, v, past)
             /\ \A i \in v : Over(r.segments[i], size)
             /\ r.seek = left \/ \A i \in v : Over(r.segments[i], r.seek)
  OBVIOUS
<1>4. CASE skip
  <2>1. first \in 1..n
    <3>1. w # {} /\ w \in SUBSET (0..n) /\ w \in SUBSET (1..n)
      BY <1>1, <1>4 DEF WithWords
    <3>2. Min(w) \in w
      BY <1>1, <3>1, MinMaxOf
    <3> QED BY <3>1, <3>2
  <2>2. r.segments = <<>> /\ r.seek = segs[first].start /\ segs[first].start > Threshold
    BY <1>3, <1>4
  <2> HIDE DEF first, r, skip
  <2>3. r.seek \in Nat \ {0}
    BY <1>2, <2>1, <2>2, TranscriberAssumption
  <2>4. WithWords(<<>>) = {} /\ WellSpaced(<<>>, {}, past)
    BY DEF WithWords, WellSpaced
  <2> QED BY <2>2, <2>3, <2>4
<1>5. CASE ~skip /\ bad = {}
  <2>1. r.segments = segs /\ r.seek = next
    BY <1>3, <1>5
  <2> HIDE DEF r
  <2> QED BY <2>1
<1>6. CASE ~skip /\ bad # {}
  <2>1. b \in 1..n /\ segs[b].words
    <3>1. bad \in SUBSET (0..n)
      BY <1>1
    <3>2. b \in bad
      BY <1>1, <1>6, <3>1, MinMaxOf
    <3>3. Surrounded(segs, b, size, past, ago) /\ b \in 1..n
      BY <1>1, <3>2
    <3> HIDE DEF b, bad
    <3> QED BY <3>3 DEF Surrounded
  <2>2. r.segments = SubSeq(segs, 1, b - 1) /\ r.seek = far
    <3> HIDE DEF r, b, far, bad, skip
    <3>1. r = [segments |-> SubSeq(segs, 1, b - 1), seek |-> far]
      BY <1>3, <1>6
    <3> QED BY <3>1
  <2> DEFINE front == SubSeq(segs, 1, b - 1)
             c == WithWords(front)
  <2>3. far = left \/ far = Most(1, segs[b].start)
    OBVIOUS
  <2> HIDE DEF b, far, r, bad, skip
  <2>4. /\ WellSpaced(front, c, past)
        /\ \A i \in c : i \in w /\ front[i] = segs[i] /\ i < b
    BY <2>1, CutFacts
  <2>5. far \in Nat \ {0} /\ (far = left \/ segs[b].start <= far)
    BY <1>2, <2>1, <2>3 DEF Most
  <2> HIDE DEF front, c
  <2>6. \A i \in c : Over(front[i], size)
    BY <2>4
  <2>7. ASSUME far # left, NEW i \in c PROVE Over(front[i], far)
    <3>1. b \in w
      BY <1>1, <2>1 DEF WithWords
    <3>2. PICK m \in Int : Over(segs[i], m) /\ Begins(segs[b], m)
      BY <2>4, <2>7, <3>1 DEF WellSpaced, Parted
    <3>3. m <= far
      BY <1>2, <2>1, <2>5, <2>7, <3>2 DEF Begins
    <3>4. segs[i] \in Spoken /\ front[i] = segs[i]
      <4>1. i \in 1..n
        BY <1>1, <2>4, <2>7 DEF WithWords
      <4> QED BY <1>1, <2>4, <2>7, <4>1
    <3> QED BY <2>5, <3>2, <3>3, <3>4, OverLater
  <2>8. /\ r.seek \in Nat \ {0} /\ WellSpaced(r.segments, WithWords(r.segments), past)
        /\ \A i \in WithWords(r.segments) : Over(r.segments[i], size)
        /\ r.seek = left
           \/ \A i \in WithWords(r.segments) : Over(r.segments[i], r.seek)
    BY <2>2, <2>4, <2>5, <2>6, <2>7 DEF front, c
  <2> QED BY <2>8
<1> QED BY <1>4, <1>5, <1>6

\* The segments whose times are in order.
Voiced(segs) == IF wordTimestamps THEN WithWords(segs) ELSE DOMAIN segs

LEMMA RoundFacts ==
  ASSUME Left \in Nat \ {0}, seek \in Nat, lastSpeech \in Int, NEW r \in Rounds
  PROVE  /\ r.seek \in Nat \ {0}
         /\ WellSpaced(r.segments, Voiced(r.segments), lastSpeech - seek)
         /\ ~wordTimestamps => \A i \in 1..Len(r.segments) : ~r.segments[i].words
         /\ wordTimestamps =>
              \A i \in Voiced(r.segments) : Over(r.segments[i], Left)
         /\ r.seek = Left \/ \A i \in Voiced(r.segments) : Over(r.segments[i], r.seek)
<1> DEFINE size == Least(MaxFrames, Left)
           past == lastSpeech - seek
<1>1. /\ size \in 1..MaxFrames /\ size <= Left /\ size \in Nat
      /\ size = Left \/ size = MaxFrames
  BY TranscriberAssumption DEF Least
<1>2. \A sp \in Splits[size] : SplitSound(sp, size)
  BY <1>1, SplitIsSound DEF Splits
<1>3. past \in Int
  OBVIOUS
<1>4. Content(chunks) - seek = Left
  BY DEF Left
<1> HIDE DEF Left
<1>5. CASE wordTimestamps
  <2>1. r \in WordRounds(Left, past, seek)
    <3>1. CASE <<Left, past, seek>> \in Contexts
      <4> DEFINE c == <<Left, past, seek>>
      <4>1. r \in Table[c]
        BY <1>4, <1>5, <3>1 DEF Rounds
      <4>2. Table[c] = WordRounds(c[1], c[2], c[3])
        BY <3>1, Zenon DEF Table
      <4>3. c[1] = Left /\ c[2] = past /\ c[3] = seek
        OBVIOUS
      <4> QED BY <4>1, <4>2, <4>3
    <3>2. CASE <<Left, past, seek>> \notin Contexts
      BY <1>4, <1>5, <3>2 DEF Rounds
    <3> QED BY <3>1, <3>2
  <2> HIDE DEF past, size
  <2>2. PICK sp \in Splits[size] :
          \E segs \in Aligned(sp.segments, size, past, seek) :
            r = Judge(segs, WordSeek(segs, sp), size, Left, past, seek)
    BY <2>1 DEF WordRounds, size
  <2>3. PICK segs \in Aligned(sp.segments, size, past, seek) :
          r = Judge(segs, WordSeek(segs, sp), size, Left, past, seek)
    BY <2>2
  <2>4. SplitSound(sp, size)
    BY <1>2
  <2>5. /\ WellSpaced(segs, WithWords(segs), past)
        /\ \A i \in WithWords(segs) : Over(segs[i], size)
    BY <1>1, <1>3, <2>4, AlignedFacts
  <2>6. /\ WordSeek(segs, sp) \in Nat \ {0}
        /\ \A i \in WithWords(segs) : Over(segs[i], WordSeek(segs, sp))
    BY <1>1, <1>3, <2>4, WordSeekFacts
  <2> DEFINE next == WordSeek(segs, sp)
  <2> HIDE DEF next
  <2>7. LET j == Judge(segs, next, size, Left, past, seek)
            w == WithWords(j.segments) IN
        /\ j.seek \in Nat \ {0} /\ WellSpaced(j.segments, w, past)
        /\ \A i \in w : Over(j.segments[i], size)
        /\ j.seek = Left \/ \A i \in w : Over(j.segments[i], j.seek)
    BY <1>1, <1>3, <2>5, <2>6, JudgeFacts DEF next
  <2>8. r = Judge(segs, next, size, Left, past, seek)
    BY <2>3 DEF next
  <2>9. /\ r.seek \in Nat \ {0} /\ WellSpaced(r.segments, WithWords(r.segments), past)
        /\ \A i \in WithWords(r.segments) : Over(r.segments[i], size)
        /\ r.seek = Left \/ \A i \in WithWords(r.segments) : Over(r.segments[i], r.seek)
    BY <2>7, <2>8
  <2>10. \A i \in WithWords(r.segments) : Over(r.segments[i], Left)
    <3>1. \A i \in WithWords(r.segments) : r.segments[i] \in Spoken
      BY <2>9 DEF WellSpaced
    <3> QED BY <1>1, <2>9, <3>1, OverLater
  <2> QED BY <1>5, <2>9, <2>10 DEF Voiced, past
<1>6. CASE ~wordTimestamps
  <2>1. r \in PlainRounds(Left)
    BY <1>4, <1>6 DEF Rounds
  <2> HIDE DEF past, size
  <2>2. PICK sp \in Splits[size] :
          \E segs \in Plain(sp.segments) : r = [segments |-> segs, seek |-> sp.seek]
    BY <2>1 DEF PlainRounds, size
  <2>3. PICK segs \in Plain(sp.segments) : r = [segments |-> segs, seek |-> sp.seek]
    BY <2>2
  <2>4. SplitSound(sp, size)
    BY <1>2
  <2>5. /\ WellSpaced(segs, DOMAIN segs, past) /\ DOMAIN segs = 1..Len(segs)
        /\ \A i \in DOMAIN segs : /\ ~segs[i].words
                                  /\ sp.seek = size \/ Over(segs[i], sp.seek)
    BY <1>1, <1>3, <2>4, PlainFacts
  <2>6. sp.seek \in Nat \ {0}
    BY <2>4 DEF SplitSound
  <2>7. r.segments = segs /\ r.seek = sp.seek
    BY <2>3
  <2>8. r.seek = Left \/ \A i \in DOMAIN segs : Over(segs[i], r.seek)
    <3>1. CASE sp.seek # size
      BY <2>5, <2>7, <3>1
    <3>2. CASE sp.seek = size /\ size = Left
      BY <2>7, <3>2
    <3>3. CASE sp.seek = size /\ size = MaxFrames
      <4>1. \A i \in DOMAIN segs : Over(segs[i], MaxFrames)
        BY <1>1, <1>3, <2>4, PlainFacts
      <4> QED BY <2>7, <3>3, <4>1
    <3> QED BY <1>1, <3>1, <3>2, <3>3
  <2> QED BY <1>6, <2>5, <2>6, <2>7, <2>8 DEF Voiced, past
<1> QED BY <1>5, <1>6

PutSegment == [start : Int, end : Int, first : Span, last : Span, words : BOOLEAN]

LEMMA PlacedFacts ==
  ASSUME NEW s \in PutSegment
  PROVE  /\ s.start \in Int /\ s.end \in Int /\ s.first \in Span /\ s.last \in Span
         /\ s.first.start \in Int /\ s.first.end \in Int
         /\ s.last.start \in Int /\ s.last.end \in Int /\ s.words \in BOOLEAN
<1>1. /\ s.start \in Int /\ s.end \in Int /\ s.first \in Span /\ s.last \in Span
      /\ s.words \in BOOLEAN
  BY DEF PutSegment
<1>2. \A x \in Span : x.start \in Int /\ x.end \in Int
  BY DEF Span
<1> QED BY <1>1, <1>2

\* A segment of a window on the time of the filtered audio.
Put(s) == [start |-> seek + s.start, end |-> seek + s.end,
           first |-> After(s.first), last |-> After(s.last), words |-> s.words]

LEMMA PutFacts ==
  ASSUME NEW s \in Spoken, seek \in Nat
  PROVE  /\ Put(s) \in PutSegment
         /\ Put(s).start = seek + s.start /\ Put(s).end = seek + s.end
         /\ Put(s).words = s.words
         /\ Sane(s) => Sane(Put(s))
         /\ \A m \in Int : /\ Over(s, m) => Over(Put(s), seek + m)
                           /\ Begins(s, m) => Begins(Put(s), seek + m)
<1> DEFINE p == Put(s)
           f == After(s.first)
           l == After(s.last)
<1>1. /\ s.start \in Int /\ s.end \in Int /\ s.words \in BOOLEAN
      /\ s.first \in Span /\ s.last \in Span
      /\ s.first.start \in Int /\ s.first.end \in Int
      /\ s.last.start \in Int /\ s.last.end \in Int
  BY SpokenFacts
<1>2. /\ f \in Span /\ f.start = seek + s.first.start /\ f.end = seek + s.first.end
      /\ l \in Span /\ l.start = seek + s.last.start /\ l.end = seek + s.last.end
      /\ s.first = s.last => f = l
  BY <1>1 DEF After, Span
<1>3. p = [start |-> seek + s.start, end |-> seek + s.end,
           first |-> f, last |-> l, words |-> s.words]
  BY DEF Put
<1> HIDE DEF f, l, p
<1>4. /\ p.start = seek + s.start /\ p.end = seek + s.end
      /\ p.first = f /\ p.last = l /\ p.words = s.words
  BY <1>3
<1>5. p \in PutSegment
  BY <1>1, <1>2, <1>3 DEF PutSegment
<1>6. Sane(s) => Sane(p)
  <2> SUFFICES ASSUME Sane(s) PROVE Sane(p)
    OBVIOUS
  <2>1. /\ p.start <= p.end
        /\ p.first.start <= p.first.end /\ p.last.start <= p.last.end
        /\ p.end <= p.last.end
    BY <1>1, <1>2, <1>4 DEF Sane
  <2>2. p.first = p.last \/ p.first.end <= p.last.start
    BY <1>1, <1>2, <1>4 DEF Sane
  <2>3. ~p.words => /\ p.start = p.first.start /\ p.end = p.first.end
                    /\ p.first = p.last
    BY <1>1, <1>2, <1>4 DEF Sane
  <2> QED BY <2>1, <2>2, <2>3 DEF Sane
<1>7. \A m \in Int : /\ Over(s, m) => Over(p, seek + m)
                     /\ Begins(s, m) => Begins(p, seek + m)
  BY <1>1, <1>2, <1>4, GrowthFacts DEF Over, Begins
<1> QED BY <1>4, <1>5, <1>6, <1>7 DEF p

\* What a round adds: segments of the round, in the order they have there.
LEMMA VisibleFacts ==
  ASSUME NEW segs \in Seq(Spoken)
  PROVE  \E at \in [1..Len(Visible(segs)) -> 1..Len(segs)] :
           /\ Visible(segs) = [k \in 1..Len(Visible(segs)) |-> Put(segs[at[k]])]
           /\ \A k, l \in 1..Len(Visible(segs)) : k < l => at[k] < at[l]
           /\ \A k \in 1..Len(Visible(segs)) : segs[at[k]].start # segs[at[k]].end
<1> DEFINE n == Len(segs)
           S == {i \in DOMAIN segs : segs[i].text /\ segs[i].start # segs[i].end}
           seen == InOrder(S)
           m == Cardinality(S)
           v == Visible(segs)
<1>1. n \in Nat /\ DOMAIN segs = 1..n
  OBVIOUS
<1>2. S \in SUBSET (0..n) /\ S \in SUBSET (1..n)
      /\ \A i \in S : segs[i].start # segs[i].end
  BY <1>1
<1>3. v = [k \in 1..m |-> Put(ElementsAt(segs, S)[k])]
  BY DEF Visible, Put
<1> HIDE DEF S
<1>4. m \in Nat /\ IsOrder(seen, S)
  BY <1>1, <1>2, InOrderIs, BoundedIsFinite
<1>5. /\ seen \in [1..m -> S]
      /\ \A i, j \in 1..m : i < j => seen[i] < seen[j]
  BY <1>4 DEF IsOrder
<1>6. v = [k \in 1..m |-> Put(segs[seen[k]])]
  BY <1>3 DEF ElementsAt
<1> HIDE DEF seen, m, v, n
<1>7. Len(v) = m
  BY <1>4, <1>6
<1>8. seen \in [1..m -> 1..n] /\ \A k \in 1..m : seen[k] \in S
  BY <1>2, <1>5
<1> QED BY <1>2, <1>5, <1>6, <1>7, <1>8 DEF v, n

-----------------------------------------------------------------------------
(* The filter's time map *)

LEMMA ChunksFacts ==
  ASSUME chunks \in SpeechChunks
  PROVE  /\ Len(chunks) \in Nat \ {0} /\ DOMAIN chunks = 1..Len(chunks)
         /\ \A i \in 1..Len(chunks) :
              /\ chunks[i].start \in 0..Audio /\ chunks[i].end \in 0..Audio
              /\ chunks[i].start < chunks[i].end
         /\ \A i, j \in 1..Len(chunks) : i < j => chunks[i].end < chunks[j].start
         /\ SubSeq(chunks, 1, Len(chunks)) = chunks
<1>1. PICK n \in 1..MaxChunks : chunks \in [1..n -> Chunk]
  BY DEF SpeechChunks
<1>2. /\ n \in Nat \ {0} /\ chunks \in Seq(Chunk) /\ Len(chunks) = n
      /\ DOMAIN chunks = 1..n
  BY <1>1, TranscriberAssumption
<1>3. \A i \in 1..n : /\ chunks[i].start \in 0..Audio /\ chunks[i].end \in 0..Audio
                      /\ chunks[i].start < chunks[i].end
  BY <1>1 DEF Chunk
<1>4. \A i, j \in 1..n : i < j => chunks[i].end < chunks[j].start
  BY <1>2 DEF SpeechChunks
<1> QED BY <1>2, <1>3, <1>4, SubSeqFull

\* What is kept of the audio up to chunk i.
Held(i) == {t \in 0..(Audio - 1) :
              \E k \in 1..i : chunks[k].start <= t /\ t < chunks[k].end}

LEMMA HeldFacts ==
  ASSUME chunks \in SpeechChunks, NEW i \in 1..Len(chunks)
  PROVE  /\ IsFiniteSet(Held(i)) /\ FilteredEnd(i) = Cardinality(Held(i))
         /\ FilteredEnd(i) \in Nat
<1> DEFINE s == SubSeq(chunks, 1, i)
<1>1. /\ Len(chunks) \in Nat \ {0} /\ i \in Nat /\ 1 <= i /\ i <= Len(chunks)
  BY ChunksFacts
<1>2. chunks \in Seq(Chunk)
  BY TranscriberAssumption DEF SpeechChunks
<1>3. DOMAIN s = 1..i /\ \A k \in 1..i : s[k] = chunks[k]
  BY <1>1, <1>2
<1>4. Content(s) = Cardinality(Held(i))
  BY <1>3 DEF Content, Held
<1>5. IsFiniteSet(0..(Audio - 1))
  BY FS_Interval, TranscriberAssumption
<1>6. IsFiniteSet(Held(i))
  BY <1>5, FS_Subset DEF Held
<1> QED BY <1>4, <1>6, FS_CardinalityType DEF FilteredEnd

\* A later chunk has more silence before it.
LEMMA SilenceGrows ==
  ASSUME chunks \in SpeechChunks,
         NEW i \in 1..Len(chunks), NEW j \in 1..Len(chunks), i <= j
  PROVE  SilenceBefore(i) <= SilenceBefore(j)
<1> DEFINE a == chunks[i].end
           b == chunks[j].end
           Rest == Held(j) \cap (a..(b - 1))
<1>1. /\ a \in Nat /\ b \in Nat /\ a <= b /\ i \in Nat /\ j \in Nat
      /\ Len(chunks) \in Nat
      /\ \A k \in 1..Len(chunks) :
           /\ chunks[k].start \in Nat /\ chunks[k].end \in Nat
           /\ k <= i => chunks[k].end <= a
           /\ k <= j => chunks[k].end <= b
           /\ k > i => a < chunks[k].start
  <2>1. \A k \in 1..Len(chunks) :
          /\ chunks[k].start \in Nat /\ chunks[k].end \in Nat
          /\ chunks[k].start < chunks[k].end
    BY ChunksFacts, TranscriberAssumption
  <2>2. \A k, l \in 1..Len(chunks) : k <= l => chunks[k].end <= chunks[l].end
    <3> SUFFICES ASSUME NEW k \in 1..Len(chunks), NEW l \in 1..Len(chunks), k <= l
                 PROVE  chunks[k].end <= chunks[l].end
      OBVIOUS
    <3>1. k = l \/ k < l
      BY ChunksFacts
    <3>2. k < l => chunks[k].end < chunks[l].start
      BY ChunksFacts
    <3> QED BY <2>1, <3>1, <3>2
  <2>3. \A k \in 1..Len(chunks) : /\ k <= i => chunks[k].end <= a
                                  /\ k <= j => chunks[k].end <= b
    BY <2>2
  <2>4. \A k \in 1..Len(chunks) : k > i => a < chunks[k].start
    <3> SUFFICES ASSUME NEW k \in 1..Len(chunks), k > i
                 PROVE  a < chunks[k].start
      OBVIOUS
    <3>1. i < k
      BY ChunksFacts
    <3> QED BY <3>1, ChunksFacts
  <2>5. a \in Nat /\ b \in Nat /\ a <= b
    BY <2>1, <2>2
  <2>6. Len(chunks) \in Nat /\ i \in Nat /\ j \in Nat
    BY ChunksFacts
  <2> QED BY <2>1, <2>3, <2>4, <2>5, <2>6
<1> HIDE DEF a, b
<1>2. Held(j) \subseteq Held(i) \cup Rest
  <2> SUFFICES ASSUME NEW t \in Held(j), t \notin Held(i) PROVE t \in Rest
    OBVIOUS
  <2>1. PICK k \in 1..j : chunks[k].start <= t /\ t < chunks[k].end
    BY DEF Held
  <2>2. t \in Nat /\ k \in 1..Len(chunks)
    BY <1>1, TranscriberAssumption DEF Held
  <2>3. k > i
    BY <1>1, <2>1, <2>2 DEF Held
  <2>4. a < t /\ t < b
    BY <1>1, <2>1, <2>2, <2>3
  <2> QED BY <1>1, <2>2, <2>4
<1>3. IsFiniteSet(Rest) /\ Cardinality(Rest) <= b - a
  <2>1. IsFiniteSet(a..(b - 1)) /\ Cardinality(a..(b - 1)) = b - a
    <3> DEFINE c == b - 1
    <3>1. a \in Int /\ c \in Int /\ a <= c + 1 /\ b - a = c - a + 1
      BY <1>1
    <3> HIDE DEF c
    <3>2. /\ IsFiniteSet(a..c)
          /\ Cardinality(a..c) = IF a > c THEN 0 ELSE c - a + 1
      BY <3>1, FS_Interval
    <3>3. Cardinality(a..c) = c - a + 1
      BY <3>1, <3>2
    <3> QED BY <3>1, <3>2, <3>3 DEF c
  <2> QED BY <2>1, FS_Subset
<1> HIDE DEF Rest
<1>4. /\ IsFiniteSet(Held(i)) /\ FilteredEnd(i) = Cardinality(Held(i))
      /\ FilteredEnd(i) \in Nat
      /\ IsFiniteSet(Held(j)) /\ FilteredEnd(j) = Cardinality(Held(j))
      /\ FilteredEnd(j) \in Nat
  BY HeldFacts
<1>5. /\ IsFiniteSet(Held(i) \cup Rest)
      /\ Cardinality(Held(i) \cup Rest) <= Cardinality(Held(i)) + Cardinality(Rest)
  <2>1. Cardinality(Held(i) \cup Rest)
          = Cardinality(Held(i)) + Cardinality(Rest) - Cardinality(Held(i) \cap Rest)
    BY <1>3, <1>4, FS_Union
  <2>2. IsFiniteSet(Held(i) \cap Rest) /\ IsFiniteSet(Held(i) \cup Rest)
    BY <1>3, <1>4, FS_Subset, FS_Union
  <2>3. /\ Cardinality(Held(i) \cap Rest) \in Nat /\ Cardinality(Rest) \in Nat
        /\ Cardinality(Held(i)) \in Nat
    BY <1>3, <1>4, <2>2, FS_CardinalityType
  <2> QED BY <2>1, <2>2, <2>3
<1>6. Cardinality(Held(j)) <= Cardinality(Held(i) \cup Rest)
  BY <1>2, <1>5, FS_Subset
<1>7. Cardinality(Rest) \in Nat /\ Cardinality(Held(i) \cup Rest) \in Nat
  BY <1>3, <1>5, FS_CardinalityType
<1>8. FilteredEnd(j) <= FilteredEnd(i) + (b - a)
  BY <1>1, <1>3, <1>4, <1>5, <1>6, <1>7
<1>9. SilenceBefore(i) = a - FilteredEnd(i) /\ SilenceBefore(j) = b - FilteredEnd(j)
  BY DEF SilenceBefore, a, b
<1> QED BY <1>1, <1>4, <1>8, <1>9

LEMMA ContentFacts ==
  /\ Content(chunks) \in Nat
  /\ chunks \in SpeechChunks =>
       /\ Len(chunks) \in 1..Len(chunks)
       /\ Content(chunks) = FilteredEnd(Len(chunks))
       /\ Content(chunks) + SilenceBefore(Len(chunks)) <= Audio
<1>1. IsFiniteSet(0..(Audio - 1))
  BY FS_Interval, TranscriberAssumption
<1> DEFINE S == {t \in 0..(Audio - 1) : \E i \in DOMAIN chunks :
                   chunks[i].start <= t /\ t < chunks[i].end}
<1>2. IsFiniteSet(S)
  BY <1>1, FS_Subset
<1>3. Content(chunks) \in Nat
  BY <1>2, FS_CardinalityType DEF Content
<1>4. ASSUME chunks \in SpeechChunks
      PROVE  /\ Len(chunks) \in 1..Len(chunks)
             /\ Content(chunks) = FilteredEnd(Len(chunks))
             /\ Content(chunks) + SilenceBefore(Len(chunks)) <= Audio
  <2> DEFINE n == Len(chunks)
  <2>1. n \in 1..n /\ chunks[n].end \in 0..Audio
    BY <1>4, ChunksFacts
  <2>2. Content(chunks) = FilteredEnd(n)
    BY <1>4, ChunksFacts DEF FilteredEnd
  <2> QED BY <1>3, <2>1, <2>2, TranscriberAssumption DEF SilenceBefore
<1> QED BY <1>3, <1>4

LEMMA ChunkAtFacts ==
  ASSUME chunks \in SpeechChunks, NEW s \in Int, NEW t \in Int, s <= t
  PROVE  /\ ChunkAt(s) \in 1..Len(chunks) /\ ChunkAt(t) \in 1..Len(chunks)
         /\ ChunkAt(s) <= ChunkAt(t)
<1> DEFINE n == Len(chunks)
           Upto(u) == {i \in DOMAIN chunks : 2 * FilteredEnd(i) <= u}
<1>1. n \in Nat \ {0} /\ DOMAIN chunks = 1..n
  BY ChunksFacts
<1>2. \A i \in 1..n : FilteredEnd(i) \in Nat
  BY HeldFacts
<1>3. Upto(s) \in SUBSET Upto(t)
  BY <1>1, <1>2
<1>4. \A u : Upto(u) \in SUBSET (0..n)
  BY <1>1
<1> HIDE DEF Upto
<1>5. \A u : IsFiniteSet(Upto(u)) /\ Cardinality(Upto(u)) \in Nat
  BY <1>1, <1>4, BoundedIsFinite
<1>6. Cardinality(Upto(s)) <= Cardinality(Upto(t))
  BY <1>3, <1>5, FS_Subset
<1>7. /\ ChunkAt(s) = Least(n, 1 + Cardinality(Upto(s)))
      /\ ChunkAt(t) = Least(n, 1 + Cardinality(Upto(t)))
  BY DEF ChunkAt, Upto
<1> HIDE DEF n
<1>8. /\ Cardinality(Upto(s)) \in Nat /\ Cardinality(Upto(t)) \in Nat
  BY <1>5
<1> QED BY <1>1, <1>6, <1>7, <1>8 DEF Least, n

-----------------------------------------------------------------------------
(* The loop.  Advances is what makes it end; Walked is what the segments are *)
(* while it runs: those that have their words, or all without word           *)
(* timestamps, are apart, and over where the speech heard so far ends and,   *)
(* as long as there is one, where the next round begins; then Brought is     *)
(* where they are put on the time of the audio.                              *)

HasWords(s) == wordTimestamps => s.words

ClearOf(s, t) ==
  /\ s.end <= t.start /\ s.last.end <= t.first.start + 2 * Growth
  /\ s.last.start + s.last.end <= t.first.start + t.first.end

CallTypes ==
  /\ phase \in {"called", "made", "decoding", "restoring", "done"}
  /\ phase \in {"made", "decoding", "restoring"} => chunks \in SpeechChunks
  /\ seek \in Nat /\ rounds \in Nat /\ lastSpeech \in Int
  /\ segments \in Seq(PutSegment)

Advances ==
  /\ rounds <= seek
  /\ phase \in {"called", "made"} => rounds = 0 /\ segments = <<>>

\* A segment among those there are when the loop is at seek.
Passed(s) ==
  /\ seek < Content(chunks) => Over(s, seek)
  /\ wordTimestamps => Over(s, lastSpeech) /\ Over(s, Content(chunks))

Walked ==
  /\ \A i \in 1..Len(segments) :
       /\ Sane(segments[i]) /\ segments[i].start < segments[i].end
       /\ segments[i].words => wordTimestamps
       /\ HasWords(segments[i]) => Passed(segments[i])
  /\ \A i, j \in 1..Len(segments) :
       i < j /\ HasWords(segments[i]) /\ HasWords(segments[j]) =>
         ClearOf(segments[i], segments[j])

Brought ==
  /\ phase # "done" => restored = <<>>
  /\ restored # <<>> =>
       chunks \in SpeechChunks
       /\ restored = [i \in DOMAIN segments |-> Restored(segments[i])]

CallInv == CallTypes /\ Advances /\ Walked /\ Brought

LEMMA InitCall == CallInit => CallInv
<1> SUFFICES ASSUME CallInit PROVE CallInv
  OBVIOUS
<1>1. segments = <<>> /\ Len(segments) = 0
  BY DEF CallInit
<1> QED BY <1>1 DEF CallInit, CallInv, CallTypes, Advances, Walked, Brought

LEMMA OverLaterPlaced ==
  ASSUME NEW s \in PutSegment, NEW m \in Int, NEW n \in Int, m <= n, Over(s, m)
  PROVE  Over(s, n)
BY PlacedFacts, GrowthFacts DEF Over

LEMMA ApartAt ==
  ASSUME NEW s \in PutSegment, NEW t \in PutSegment, NEW m \in Int, Over(s, m), Begins(t, m)
  PROVE  ClearOf(s, t)
BY PlacedFacts, GrowthFacts DEF Over, Begins, ClearOf

\* Segments appended behind those there are.
LEMMA JoinedFacts ==
  ASSUME NEW s \in Seq(PutSegment), NEW v \in Seq(PutSegment)
  PROVE  /\ s \o v \in Seq(PutSegment) /\ Len(s \o v) = Len(s) + Len(v)
         /\ \A i \in 1..Len(s \o v) :
              \/ i \in 1..Len(s) /\ (s \o v)[i] = s[i]
              \/ /\ i > Len(s) /\ i - Len(s) \in 1..Len(v)
                 /\ (s \o v)[i] = v[i - Len(s)]
<1> DEFINE w == s \o v
           m == Len(s)
           n == Len(v)
<1>1. /\ m \in Nat /\ n \in Nat /\ w \in Seq(PutSegment) /\ Len(w) = m + n
      /\ \A i \in 1..(m + n) : w[i] = IF i <= m THEN s[i] ELSE v[i - m]
  BY ConcatProperties, LenProperties
<1> HIDE DEF w
<1>2. \A i \in 1..(m + n) :
        \/ i \in 1..m /\ w[i] = s[i]
        \/ i > m /\ i - m \in 1..n /\ w[i] = v[i - m]
  BY <1>1
<1> QED BY <1>1, <1>2 DEF w

LEMMA DecodeKeeps ==
  ASSUME CallInv, Decode
  PROVE  CallInv'
<1>1. /\ phase = "decoding" /\ chunks \in SpeechChunks /\ seek < Content(chunks)
      /\ seek \in Nat /\ rounds \in Nat /\ lastSpeech \in Int
      /\ segments \in Seq(PutSegment) /\ rounds <= seek /\ restored = <<>>
  BY DEF Decode, CallInv, CallTypes, Advances, Brought
<1>2. Content(chunks) \in Nat /\ Left \in Nat \ {0} /\ Content(chunks) = seek + Left
  BY <1>1, ContentFacts DEF Left
<1>3. PICK r \in Rounds :
        /\ seek' = seek + r.seek /\ segments' = segments \o Visible(r.segments)
        /\ lastSpeech' = IF wordTimestamps /\ r.segments # <<>>
                           THEN seek + GetEnd(r.segments) ELSE lastSpeech
  BY DEF Decode
<1>4. /\ chunks' = chunks /\ wordTimestamps' = wordTimestamps
      /\ phase' = phase /\ restored' = restored /\ rounds' = rounds + 1
  BY DEF Decode
<1> DEFINE segs == r.segments
           past == lastSpeech - seek
           v == Visible(segs)
           c == Content(chunks)
<1>5. /\ r.seek \in Nat \ {0} /\ WellSpaced(segs, Voiced(segs), past) /\ past \in Int
      /\ ~wordTimestamps => \A i \in 1..Len(segs) : ~segs[i].words
      /\ wordTimestamps => \A i \in Voiced(segs) : Over(segs[i], Left)
      /\ r.seek = Left \/ \A i \in Voiced(segs) : Over(segs[i], r.seek)
  BY <1>1, <1>2, RoundFacts
<1>6. /\ segs \in Seq(Spoken) /\ \A i \in 1..Len(segs) : segs[i] \in Spoken
      /\ DOMAIN segs = 1..Len(segs)
  BY <1>5 DEF WellSpaced
<1>7. PICK at \in [1..Len(v) -> 1..Len(segs)] :
        /\ v = [k \in 1..Len(v) |-> Put(segs[at[k]])]
        /\ \A k, l \in 1..Len(v) : k < l => at[k] < at[l]
        /\ \A k \in 1..Len(v) : segs[at[k]].start # segs[at[k]].end
  BY <1>6, VisibleFacts
<1>8. segments' = segments \o v
  BY <1>3
<1> HIDE DEF v
<1>9. ASSUME NEW k \in 1..Len(v)
      PROVE  /\ at[k] \in 1..Len(segs) /\ segs[at[k]] \in Spoken
             /\ v[k] = Put(segs[at[k]]) /\ v[k] \in PutSegment
             /\ Sane(v[k]) /\ v[k].start < v[k].end
             /\ v[k].words => wordTimestamps
             /\ HasWords(v[k]) => at[k] \in Voiced(segs)
             /\ \A m \in Int : /\ Over(segs[at[k]], m) => Over(v[k], seek + m)
                               /\ Begins(segs[at[k]], m) => Begins(v[k], seek + m)
  <2> DEFINE i == at[k]
             s == segs[i]
  <2>1. i \in 1..Len(segs) /\ s \in Spoken /\ v[k] = Put(s) /\ Sane(s)
        /\ s.start # s.end
    BY <1>5, <1>6, <1>7 DEF WellSpaced
  <2>2. HasWords(s) => i \in Voiced(segs)
    BY <1>6, <2>1 DEF Voiced, HasWords, WithWords
  <2>3. s.words => wordTimestamps
    BY <1>5, <2>1
  <2> HIDE DEF i, s
  <2>4. /\ Put(s) \in PutSegment
        /\ Put(s).start = seek + s.start /\ Put(s).end = seek + s.end
        /\ Put(s).words = s.words /\ Sane(Put(s))
        /\ \A m \in Int : /\ Over(s, m) => Over(Put(s), seek + m)
                          /\ Begins(s, m) => Begins(Put(s), seek + m)
    BY <1>1, <2>1, PutFacts
  <2>5. v[k].start < v[k].end
    <3>1. s.start < s.end /\ s.start \in Int /\ s.end \in Int
      BY <2>1, SpokenFacts DEF Sane
    <3> QED BY <1>1, <2>1, <2>4, <3>1
  <2>6. HasWords(v[k]) => i \in Voiced(segs)
    BY <2>1, <2>2, <2>4 DEF HasWords
  <2> QED BY <2>1, <2>3, <2>4, <2>5, <2>6 DEF i, s
<1>10. v \in Seq(PutSegment)
  <2>1. v = [k \in 1..Len(v) |-> v[k]] /\ Len(v) \in Nat
    <3>1. Visible(segs) \in Seq(PutSegment)
      <4>1. Len(Visible(segs)) \in Nat
        <5> DEFINE S == {i \in DOMAIN segs : segs[i].text /\ segs[i].start # segs[i].end}
        <5>1. S \in SUBSET (0..Len(segs)) /\ Len(segs) \in Nat
          BY <1>6
        <5>2. Cardinality(S) \in Nat
          BY <5>1, BoundedIsFinite
        <5> QED BY <5>2 DEF Visible
      <4> QED BY <1>7, <1>9, <4>1 DEF v
    <3> QED BY <3>1 DEF v
  <2> QED BY <1>9, <2>1
<1> DEFINE w == segments \o v
           p == Len(segments)
<1>11. /\ w \in Seq(PutSegment) /\ Len(w) = p + Len(v) /\ p \in Nat
       /\ \A i \in 1..Len(w) :
            \/ i \in 1..p /\ w[i] = segments[i]
            \/ i > p /\ i - p \in 1..Len(v) /\ w[i] = v[i - p]
  BY <1>1, <1>10, JoinedFacts
<1>12. segments' = w
  BY <1>8
<1> HIDE DEF w
<1>13. \A i \in 1..p : /\ segments[i] \in PutSegment
                       /\ Sane(segments[i]) /\ segments[i].start < segments[i].end
                       /\ segments[i].words => wordTimestamps
                       /\ HasWords(segments[i]) =>
                            /\ Over(segments[i], seek)
                            /\ wordTimestamps => /\ Over(segments[i], lastSpeech)
                                                 /\ Over(segments[i], c)
  BY <1>1 DEF CallInv, Walked, Passed
<1>14. seek' = seek + r.seek /\ Content(chunks)' = c /\ seek' \in Nat /\ seek <= seek'
  BY <1>1, <1>3, <1>4, <1>5 DEF Content
<1> HIDE DEF c
\* The end of the speech is behind the round's begin or the speech before it.
<1>15. /\ lastSpeech' \in Int
       /\ wordTimestamps => seek <= lastSpeech' \/ lastSpeech <= lastSpeech'
       /\ wordTimestamps => \A k \in 1..Len(v) : HasWords(v[k]) => Over(v[k], lastSpeech')
  <2>1. CASE wordTimestamps /\ segs # <<>>
    <3>1. Len(segs) \in Nat \ {0} /\ Voiced(segs) = WithWords(segs)
      BY <1>6, <2>1 DEF Voiced
    <3>2. /\ GetEnd(segs) \in Int
          /\ 0 <= GetEnd(segs) \/ past <= GetEnd(segs)
          /\ \A i \in WithWords(segs) : Over(segs[i], GetEnd(segs))
      BY <1>5, <3>1, EndIsLast
    <3>3. lastSpeech' = seek + GetEnd(segs)
      BY <1>3, <2>1
    <3>4. \A k \in 1..Len(v) : HasWords(v[k]) => Over(v[k], lastSpeech')
      BY <1>9, <3>1, <3>2, <3>3
    <3> QED BY <1>1, <3>2, <3>3, <3>4
  <2>2. CASE ~(wordTimestamps /\ segs # <<>>)
    <3>1. lastSpeech' = lastSpeech
      BY <1>3, <2>2
    <3>2. wordTimestamps => Len(v) = 0
      <4> SUFFICES ASSUME wordTimestamps PROVE Len(v) = 0
        OBVIOUS
      <4>1. segs = <<>>
        BY <2>2
      <4>2. 1..Len(segs) = {}
        BY <4>1
      <4>3. ~\E k \in 1..Len(v) : TRUE
        BY <1>9, <4>2
      <4>4. Len(v) \in Nat
        BY <1>10
      <4> QED BY <4>3, <4>4
    <3> QED BY <1>1, <3>1, <3>2
  <2> QED BY <2>1, <2>2
<1>16. ASSUME NEW i \in 1..p, HasWords(segments[i])
       PROVE  /\ Over(segments[i], seek')
              /\ wordTimestamps => /\ Over(segments[i], lastSpeech')
                                   /\ Over(segments[i], c)
  <2>1. Over(segments[i], seek')
    BY <1>1, <1>13, <1>14, <1>16, OverLaterPlaced
  <2>2. wordTimestamps => Over(segments[i], lastSpeech')
    BY <1>1, <1>13, <1>15, <1>16, OverLaterPlaced
  <2> QED BY <1>13, <1>16, <2>1, <2>2
<1>17. ASSUME NEW k \in 1..Len(v), HasWords(v[k])
       PROVE  /\ seek' < c => Over(v[k], seek')
              /\ wordTimestamps => Over(v[k], lastSpeech') /\ Over(v[k], c)
  <2>1. at[k] \in Voiced(segs)
    BY <1>9, <1>17
  <2>2. seek' < c => Over(v[k], seek')
    <3> SUFFICES ASSUME seek' < c PROVE Over(v[k], seek')
      OBVIOUS
    <3>1. r.seek # Left
      BY <1>1, <1>2, <1>14 DEF c
    <3> QED BY <1>5, <1>9, <1>14, <2>1, <3>1
  <2>3. wordTimestamps => Over(v[k], c)
    BY <1>2, <1>5, <1>9, <2>1 DEF c
  <2> QED BY <1>15, <1>17, <2>2, <2>3
<1>18. ASSUME NEW i \in 1..p, NEW k \in 1..Len(v), HasWords(segments[i]), HasWords(v[k])
       PROVE  ClearOf(segments[i], v[k])
  <2>1. at[k] \in Voiced(segs)
    BY <1>9, <1>18
  <2>2. Begins(segs[at[k]], 0) \/ Begins(segs[at[k]], past)
    BY <1>5, <2>1 DEF WellSpaced, Started
  <2>3. Begins(v[k], seek + 0) \/ Begins(v[k], seek + past)
    BY <1>5, <1>9, <2>2
  <2>4. seek + 0 = seek /\ seek + past = lastSpeech
    BY <1>1
  <2>5. CASE Begins(v[k], seek)
    BY <1>1, <1>9, <1>13, <1>18, <2>5, ApartAt
  <2>6. CASE ~wordTimestamps
    <3>1. Begins(segs[at[k]], 0)
      <4>1. ~segs[at[k]].words /\ at[k] \in 1..Len(segs) /\ segs[at[k]] \in Spoken
        BY <1>5, <1>9, <2>6
      <4>2. segs[at[k]].start >= 0 /\ Sane(segs[at[k]])
        BY <1>5, <4>1 DEF WellSpaced
      <4> QED BY <4>1, <4>2, SpokenFacts, GrowthFacts DEF Sane, Begins
    <3>2. Begins(v[k], seek)
      BY <1>9, <2>4, <3>1
    <3> QED BY <2>5, <3>2
  <2>7. CASE wordTimestamps /\ Begins(v[k], lastSpeech)
    BY <1>1, <1>9, <1>13, <1>18, <2>7, ApartAt
  <2> QED BY <2>3, <2>4, <2>5, <2>6, <2>7
<1>19. ASSUME NEW k \in 1..Len(v), NEW l \in 1..Len(v), k < l, HasWords(v[k]), HasWords(v[l])
       PROVE  ClearOf(v[k], v[l])
  <2>1. /\ at[k] \in Voiced(segs) /\ at[l] \in Voiced(segs) /\ at[k] < at[l]
    BY <1>7, <1>9, <1>19
  <2>2. PICK m \in Int : Over(segs[at[k]], m) /\ Begins(segs[at[l]], m)
    BY <1>5, <2>1 DEF WellSpaced, Parted
  <2>3. Over(v[k], seek + m) /\ Begins(v[l], seek + m) /\ seek + m \in Int
    BY <1>1, <1>9, <2>2
  <2> QED BY <1>9, <2>3, ApartAt
<1>20. \A i \in 1..Len(w) :
         /\ Sane(w[i]) /\ w[i].start < w[i].end
         /\ w[i].words => wordTimestamps
         /\ HasWords(w[i]) =>
              /\ seek' < c => Over(w[i], seek')
              /\ wordTimestamps => Over(w[i], lastSpeech') /\ Over(w[i], c)
  BY <1>9, <1>11, <1>13, <1>16, <1>17
<1>21. ASSUME NEW i \in 1..Len(w), NEW j \in 1..Len(w), i < j,
              HasWords(w[i]), HasWords(w[j])
       PROVE  ClearOf(w[i], w[j])
  <2>1. CASE j \in 1..p
    <3>1. i \in 1..p /\ w[i] = segments[i] /\ w[j] = segments[j]
      BY <1>11, <1>21, <2>1
    <3> QED BY <1>21, <2>1, <3>1 DEF CallInv, Walked
  <2>2. CASE j > p /\ i \in 1..p
    <3>1. w[i] = segments[i] /\ j - p \in 1..Len(v) /\ w[j] = v[j - p]
      BY <1>11, <2>2
    <3> QED BY <1>18, <1>21, <2>2, <3>1
  <2>3. CASE j > p /\ i > p
    <3>1. /\ i - p \in 1..Len(v) /\ w[i] = v[i - p]
          /\ j - p \in 1..Len(v) /\ w[j] = v[j - p] /\ i - p < j - p
      BY <1>11, <1>21, <2>3
    <3> QED BY <1>19, <1>21, <3>1
  <2> QED BY <1>11, <2>1, <2>2, <2>3
<1>22. \A s : HasWords(s)' = (wordTimestamps => s.words)
  BY <1>4 DEF HasWords
<1>23. Walked'
  <2>1. \A i \in 1..Len(segments') :
          /\ Sane(segments'[i]) /\ segments'[i].start < segments'[i].end
          /\ segments'[i].words => wordTimestamps'
          /\ (wordTimestamps' => segments'[i].words) =>
               /\ seek' < Content(chunks)' => Over(segments'[i], seek')
               /\ wordTimestamps' => /\ Over(segments'[i], lastSpeech')
                                     /\ Over(segments'[i], Content(chunks)')
    BY <1>4, <1>12, <1>14, <1>20 DEF HasWords
  <2>2. \A i, j \in 1..Len(segments') :
          i < j /\ (wordTimestamps' => segments'[i].words)
                /\ (wordTimestamps' => segments'[j].words) =>
            ClearOf(segments'[i], segments'[j])
    BY <1>4, <1>12, <1>21 DEF HasWords
  <2> QED BY <2>1, <2>2 DEF Walked, HasWords, Passed, Sane, Over, ClearOf
<1>24. CallTypes'
  BY <1>1, <1>4, <1>5, <1>11, <1>12, <1>14, <1>15 DEF CallTypes, SpeechChunks
<1>25. Advances'
  BY <1>1, <1>4, <1>5, <1>14 DEF Advances
<1>26. Brought'
  BY <1>1, <1>4 DEF Brought
<1> QED BY <1>23, <1>24, <1>25, <1>26 DEF CallInv

LEMMA SkipKeeps ==
  ASSUME CallInv, SkipSilence
  PROVE  CallInv'
<1>1. /\ phase = "decoding" /\ chunks \in SpeechChunks /\ seek < Content(chunks)
      /\ seek \in Nat /\ rounds \in Nat /\ segments \in Seq(PutSegment)
      /\ rounds <= seek /\ restored = <<>>
  BY DEF SkipSilence, CallInv, CallTypes, Advances, Brought
<1>2. Content(chunks) \in Nat /\ Size \in Nat \ {0}
  BY <1>1, ContentFacts, TranscriberAssumption DEF Size, Least
<1>3. /\ chunks' = chunks /\ wordTimestamps' = wordTimestamps
      /\ segments' = segments /\ phase' = phase /\ restored' = restored
      /\ lastSpeech' = lastSpeech /\ rounds' = rounds + 1 /\ seek' = seek + Size
  BY DEF SkipSilence
<1> HIDE DEF Size
<1>4. Content(chunks)' = Content(chunks)
  BY <1>3 DEF Content
<1>5. CallTypes' /\ Advances'
  BY <1>1, <1>2, <1>3 DEF CallInv, CallTypes, Advances, SpeechChunks
<1>6. ASSUME NEW i \in 1..Len(segments), HasWords(segments[i])
      PROVE  Over(segments[i], seek + Size)
  <2>1. segments[i] \in PutSegment /\ Over(segments[i], seek)
    BY <1>1, <1>6 DEF CallInv, Walked, Passed
  <2> QED BY <1>1, <1>2, <2>1, OverLaterPlaced
<1>7. Walked'
  <2>1. \A i \in 1..Len(segments) : HasWords(segments[i]) => Passed(segments[i])
    BY DEF CallInv, Walked
  <2>2. \A i \in 1..Len(segments) :
          HasWords(segments[i]) =>
            /\ seek' < Content(chunks) => Over(segments[i], seek')
            /\ wordTimestamps => /\ Over(segments[i], lastSpeech)
                                 /\ Over(segments[i], Content(chunks))
    BY <1>3, <1>6, <2>1 DEF Passed
  <2>3. \A i \in 1..Len(segments) : HasWords(segments[i])' = HasWords(segments[i])
    BY <1>3 DEF HasWords
  <2>4. \A i \in 1..Len(segments) :
          HasWords(segments[i])' => Passed(segments[i])'
    BY <1>3, <1>4, <2>2, <2>3 DEF Passed, Over
  <2>5. \A i \in 1..Len(segments)' :
          /\ Sane(segments[i])' /\ (segments[i].start < segments[i].end)'
          /\ (segments[i].words => wordTimestamps)'
    BY <1>3 DEF CallInv, Walked, Sane
  <2>6. \A i, j \in 1..Len(segments) :
          i < j /\ HasWords(segments[i])' /\ HasWords(segments[j])' =>
            ClearOf(segments[i], segments[j])'
    BY <1>3, <2>3 DEF CallInv, Walked, ClearOf
  <2> QED BY <1>3, <2>4, <2>5, <2>6 DEF Walked
<1>8. Brought'
  BY <1>1, <1>3 DEF Brought
<1> QED BY <1>5, <1>7, <1>8 DEF CallInv

LEMMA CallStep == CallInv /\ [CallNext]_callVars => CallInv'
<1> SUFFICES ASSUME CallInv, [CallNext]_callVars PROVE CallInv'
  OBVIOUS
<1>1. CASE Transcribe
  <2>1. /\ phase = "called" /\ segments = <<>> /\ segments' = <<>> /\ rounds = 0
        /\ rounds' = 0 /\ seek' = seek /\ seek \in Nat
        /\ lastSpeech' = lastSpeech /\ lastSpeech \in Int
        /\ restored = <<>> /\ restored' = <<>>
    BY <1>1 DEF Transcribe, CallInv, CallTypes, Advances, Brought
  <2>2. /\ phase' = "made" /\ chunks' \in SpeechChunks
        \/ phase' = "done"
    BY <1>1 DEF Transcribe
  <2>3. Walked' /\ Brought'
    BY <2>1 DEF Walked, Brought
  <2>4. CallTypes' /\ Advances'
    BY <2>1, <2>2 DEF CallTypes, Advances, SpeechChunks
  <2> QED BY <2>3, <2>4 DEF CallInv
<1>2. CASE LoopBegins
  <2>1. /\ phase = "made" /\ phase' = "decoding" /\ segments' = <<>> /\ seek' = 0
        /\ rounds = 0 /\ rounds' = 0 /\ chunks' = chunks /\ chunks \in SpeechChunks
        /\ restored' = <<>> /\ lastSpeech' = 0
    BY <1>2 DEF LoopBegins, CallInv, CallTypes, Advances, Brought
  <2>2. Walked' /\ Brought'
    BY <2>1 DEF Walked, Brought
  <2>3. CallTypes' /\ Advances'
    BY <2>1 DEF CallTypes, Advances, SpeechChunks
  <2> QED BY <2>2, <2>3 DEF CallInv
<1>3. CASE SkipSilence
  BY <1>3, SkipKeeps
<1>4. CASE Decode
  BY <1>4, DecodeKeeps
<1>5. CASE LoopEnds
  <2>1. /\ phase = "decoding" /\ phase' = "restoring"
        /\ UNCHANGED <<wordTimestamps, chunks, seek, segments, lastSpeech, restored,
                       rounds>>
    BY <1>5 DEF LoopEnds
  <2>2. Content(chunks)' = Content(chunks)
    BY <2>1 DEF Content
  <2>3. CallTypes' /\ Advances' /\ Brought'
    BY <2>1, <2>2 DEF CallInv, CallTypes, Advances, Brought, SpeechChunks
  <2>4. Walked'
    BY <2>1, <2>2 DEF CallInv, Walked, HasWords, Passed, Sane, Over, ClearOf
  <2> QED BY <2>3, <2>4 DEF CallInv
<1>6. CASE Restore
  <2>1. /\ phase = "restoring" /\ phase' = "done" /\ chunks \in SpeechChunks
        /\ UNCHANGED <<wordTimestamps, chunks, seek, segments, lastSpeech, rounds>>
        /\ restored' = [i \in DOMAIN segments |-> Restored(segments[i])]
    BY <1>6 DEF Restore, CallInv, CallTypes
  <2>2. Content(chunks)' = Content(chunks)
    BY <2>1 DEF Content
  <2>3. CallTypes' /\ Advances'
    BY <2>1, <2>2 DEF CallInv, CallTypes, Advances, SpeechChunks
  <2>4. Walked'
    BY <2>1, <2>2 DEF CallInv, Walked, HasWords, Passed, Sane, Over, ClearOf
  <2>5. \A s : Restored(s)' = Restored(s)
    <3>1. /\ \A i : SilenceBefore(i)' = SilenceBefore(i)
          /\ \A u : ChunkAt(u)' = ChunkAt(u)
      BY <2>1 DEF ChunkAt, SilenceBefore, FilteredEnd, Content
    <3> QED BY <3>1 DEF Restored, RestoredWord, OwnChunk
  <2>6. Brought'
    BY <2>1, <2>5 DEF Brought, SpeechChunks
  <2> QED BY <2>3, <2>4, <2>6 DEF CallInv
<1>7. CASE UNCHANGED callVars
  <2>1. Content(chunks)' = Content(chunks)
    BY <1>7 DEF callVars, Content
  <2>2. CallTypes' /\ Advances'
    BY <1>7, <2>1 DEF callVars, CallInv, CallTypes, Advances, SpeechChunks
  <2>3. Walked'
    BY <1>7, <2>1 DEF callVars, CallInv, Walked, HasWords, Passed, Sane, Over, ClearOf
  <2>4. \A s : Restored(s)' = Restored(s)
    BY <1>7 DEF callVars, Restored, RestoredWord, OwnChunk, ChunkAt, SilenceBefore,
                FilteredEnd, Content
  <2>5. Brought'
    BY <1>7, <2>4 DEF callVars, CallInv, Brought, SpeechChunks
  <2> QED BY <2>2, <2>3, <2>5 DEF CallInv
<1> QED BY <1>1, <1>2, <1>3, <1>4, <1>5, <1>6, <1>7 DEF CallNext

\* What a time, given as twice its value, is moved by.
Shift(u) == SilenceBefore(ChunkAt(u))

LEMMA ShiftFacts ==
  ASSUME chunks \in SpeechChunks
  PROVE  /\ \A u \in Int : Shift(u) \in Int /\ Content(chunks) + Shift(u) <= Audio
         /\ \A u, w \in Int : u <= w => Shift(u) <= Shift(w)
<1>1. \A u, w \in Int : u <= w => Shift(u) <= Shift(w)
  BY ChunkAtFacts, SilenceGrows DEF Shift
<1>2. \A i \in 1..Len(chunks) : SilenceBefore(i) \in Int
  BY ChunksFacts, HeldFacts DEF SilenceBefore
<1>3. ASSUME NEW u \in Int
      PROVE  Shift(u) \in Int /\ Content(chunks) + Shift(u) <= Audio
  <2>1. /\ ChunkAt(u) \in 1..Len(chunks) /\ Len(chunks) \in 1..Len(chunks)
        /\ Len(chunks) \in Nat
    <3>1. u <= u
      OBVIOUS
    <3>2. ChunkAt(u) \in 1..Len(chunks)
      BY <3>1, ChunkAtFacts
    <3> QED BY <3>2, ContentFacts, ChunksFacts
  <2>2. SilenceBefore(ChunkAt(u)) <= SilenceBefore(Len(chunks))
    BY <2>1, SilenceGrows
  <2>3. Content(chunks) + SilenceBefore(Len(chunks)) <= Audio /\ Content(chunks) \in Nat
    BY ContentFacts
  <2>4. SilenceBefore(ChunkAt(u)) \in Int /\ SilenceBefore(Len(chunks)) \in Int
    BY <1>2, <2>1
  <2> QED BY <2>2, <2>3, <2>4, TranscriberAssumption DEF Shift
<1> QED BY <1>1, <1>3

\* Where the first and the last time of a segment are looked up, twice.
Early(s) == IF s.words THEN s.first.start + s.first.end ELSE 2 * s.first.start
Late(s) == IF s.words THEN s.last.start + s.last.end ELSE 2 * s.last.end

LEMMA EarlyLate ==
  ASSUME NEW s \in PutSegment, Sane(s)
  PROVE  Early(s) \in Int /\ Late(s) \in Int /\ Early(s) <= Late(s)
<1>1. /\ s.first.start \in Int /\ s.first.end \in Int
      /\ s.last.start \in Int /\ s.last.end \in Int /\ s.words \in BOOLEAN
  BY PlacedFacts
<1>2. /\ s.first.start <= s.first.end /\ s.last.start <= s.last.end
      /\ s.first = s.last \/ s.first.end <= s.last.start
  BY DEF Sane
<1>3. /\ s.first.start + s.first.end <= s.last.start + s.last.end
      /\ s.first.start <= s.last.end
  BY <1>1, <1>2
<1>4. CASE s.words
  BY <1>1, <1>3, <1>4 DEF Early, Late
<1>5. CASE ~s.words
  BY <1>1, <1>3, <1>5 DEF Early, Late
<1> QED BY <1>4, <1>5

LEMMA RestoredFacts ==
  ASSUME NEW s
  PROVE  /\ Restored(s).first.start = s.first.start + Shift(Early(s))
         /\ Restored(s).last.end = s.last.end + Shift(Late(s))
         /\ s.words => /\ Restored(s).first.end = s.first.end + Shift(Early(s))
                       /\ Restored(s).last.start = s.last.start + Shift(Late(s))
BY DEF Restored, RestoredWord, OwnChunk, Shift, Early, Late

LEMMA BroughtInOrder ==
  ASSUME CallInv, restored # <<>>
  PROVE  /\ \A i, j \in DOMAIN restored :
              i < j /\ HasWords(segments[i]) /\ HasWords(segments[j]) =>
                restored[i].last.end <= restored[j].first.start + Overlap
         /\ \A i \in DOMAIN restored : LET r == restored[i] s == segments[i] IN
              /\ r.first.start <= r.last.end
              /\ s.words =>
                   /\ r.last.end <= Audio + Growth
                   /\ r.first.end - r.first.start = s.first.end - s.first.start
                   /\ r.last.end - r.last.start = s.last.end - s.last.start
<1> DEFINE n == Len(segments)
<1>1. /\ chunks \in SpeechChunks /\ segments \in Seq(PutSegment)
      /\ n \in Nat /\ DOMAIN segments = 1..n
      /\ restored = [i \in 1..n |-> Restored(segments[i])]
  BY DEF CallInv, CallTypes, Brought
<1>2. \A i \in 1..n : /\ segments[i] \in PutSegment /\ Sane(segments[i])
                      /\ segments[i].words => wordTimestamps
                      /\ HasWords(segments[i]) => Passed(segments[i])
  BY <1>1 DEF CallInv, Walked
<1>3. \A i, j \in 1..n : i < j /\ HasWords(segments[i]) /\ HasWords(segments[j]) =>
        ClearOf(segments[i], segments[j])
  BY DEF CallInv, Walked
<1>4. Overlap \in Nat /\ (wordTimestamps => Overlap = 2 * Growth)
      /\ Growth \in Nat /\ Audio \in Nat /\ Content(chunks) \in Nat
      /\ (~wordTimestamps => Overlap = 0)
  BY GrowthFacts, ContentFacts, TranscriberAssumption DEF Overlap
<1>5. \A u \in Int : Shift(u) \in Int /\ Content(chunks) + Shift(u) <= Audio
  BY <1>1, ShiftFacts
<1>6. \A u, w \in Int : u <= w => Shift(u) <= Shift(w)
  BY <1>1, ShiftFacts
<1> HIDE DEF n
<1>7. ASSUME NEW i \in 1..n, NEW j \in 1..n, i < j,
             HasWords(segments[i]), HasWords(segments[j])
      PROVE  restored[i].last.end <= restored[j].first.start + Overlap
  <2> DEFINE s == segments[i]
             t == segments[j]
             l == Shift(Late(s))
             f == Shift(Early(t))
  <2>1. /\ s \in PutSegment /\ t \in PutSegment /\ Sane(s) /\ Sane(t) /\ ClearOf(s, t)
        /\ s.words => wordTimestamps
        /\ t.words => wordTimestamps
        /\ wordTimestamps => s.words
        /\ wordTimestamps => t.words
    BY <1>2, <1>3, <1>7 DEF HasWords
  <2>2. restored[i].last.end = s.last.end + l /\ restored[j].first.start = t.first.start + f
    BY <1>1, RestoredFacts
  <2>3. Late(s) \in Int /\ Early(t) \in Int
    BY <2>1, EarlyLate
  <2>4. /\ s.start \in Int /\ s.end \in Int /\ s.last.start \in Int /\ s.last.end \in Int
        /\ t.start \in Int /\ t.end \in Int /\ t.first.start \in Int
        /\ t.first.end \in Int
    BY <2>1, PlacedFacts
  <2>5. Late(s) <= Early(t) /\ s.last.end <= t.first.start + Overlap
    <3>1. CASE wordTimestamps
      <4>1. /\ Late(s) = s.last.start + s.last.end
            /\ Early(t) = t.first.start + t.first.end
        BY <2>1, <3>1 DEF Late, Early
      <4>2. /\ s.last.start + s.last.end <= t.first.start + t.first.end
            /\ s.last.end <= t.first.start + 2 * Growth
        BY <2>1 DEF ClearOf
      <4> QED BY <1>4, <3>1, <4>1, <4>2
    <3>2. CASE ~wordTimestamps
      <4>1. Late(s) = 2 * s.last.end /\ Early(t) = 2 * t.first.start
        BY <2>1, <3>2 DEF Late, Early
      <4>2. s.last.end = s.end /\ t.first.start = t.start
        BY <2>1, <3>2 DEF Sane
      <4>3. s.end <= t.start
        BY <2>1 DEF ClearOf
      <4>4. Overlap = 0
        BY <1>4, <3>2
      <4> HIDE DEF s, t
      <4> QED BY <2>4, <4>1, <4>2, <4>3, <4>4
    <3> QED BY <3>1, <3>2
  <2>6. l \in Int /\ f \in Int /\ l <= f
    BY <1>5, <1>6, <2>3, <2>5
  <2> HIDE DEF s, t, l, f
  <2> QED BY <1>4, <2>2, <2>4, <2>5, <2>6
<1>8. ASSUME NEW i \in 1..n
      PROVE  /\ restored[i].first.start <= restored[i].last.end
             /\ segments[i].words =>
                  /\ restored[i].last.end <= Audio + Growth
                  /\ restored[i].first.end - restored[i].first.start
                       = segments[i].first.end - segments[i].first.start
                  /\ restored[i].last.end - restored[i].last.start
                       = segments[i].last.end - segments[i].last.start
  <2> DEFINE s == segments[i]
             r == restored[i]
             l == Shift(Late(s))
             f == Shift(Early(s))
  <2>1. /\ s \in PutSegment /\ Sane(s) /\ r = Restored(s)
        /\ s.words => wordTimestamps
        /\ HasWords(s) => Passed(s)
    BY <1>1, <1>2
  <2>2. /\ r.first.start = s.first.start + f /\ r.last.end = s.last.end + l
        /\ s.words => r.first.end = s.first.end + f /\ r.last.start = s.last.start + l
    BY <2>1, RestoredFacts
  <2>3. /\ s.first.start \in Int /\ s.first.end \in Int
        /\ s.last.start \in Int /\ s.last.end \in Int /\ s.first.start <= s.last.end
    <3>1. /\ s.first.start \in Int /\ s.first.end \in Int
          /\ s.last.start \in Int /\ s.last.end \in Int
      BY <2>1, PlacedFacts
    <3>2. /\ s.first.start <= s.first.end /\ s.last.start <= s.last.end
          /\ s.first = s.last \/ s.first.end <= s.last.start
      BY <2>1 DEF Sane
    <3> QED BY <3>1, <3>2
  <2>4. Late(s) \in Int /\ Early(s) \in Int /\ Early(s) <= Late(s)
    BY <2>1, EarlyLate
  <2>5. l \in Int /\ f \in Int /\ f <= l /\ Content(chunks) + l <= Audio
    BY <1>5, <1>6, <2>4
  <2>6. s.words => s.last.end <= Content(chunks) + Growth
    BY <2>1 DEF HasWords, Passed, Over
  <2> HIDE DEF s, l, f
  <2>7. r.first.start <= r.last.end
    BY <2>2, <2>3, <2>5
  <2>8. ASSUME s.words
        PROVE  /\ r.last.end <= Audio + Growth
               /\ r.first.end - r.first.start = s.first.end - s.first.start
               /\ r.last.end - r.last.start = s.last.end - s.last.start
    <3>1. /\ r.first.end = s.first.end + f /\ r.last.start = s.last.start + l
          /\ s.last.end <= Content(chunks) + Growth
      BY <2>2, <2>6, <2>8
    <3> DEFINE c == Content(chunks)
    <3>2. c \in Nat /\ c + l <= Audio /\ s.last.end <= c + Growth
      BY <1>4, <2>5, <3>1
    <3> HIDE DEF c
    <3>3. r.last.end <= Audio + Growth
      BY <1>4, <2>2, <2>3, <2>5, <3>2
    <3>4. /\ r.first.end - r.first.start = s.first.end - s.first.start
          /\ r.last.end - r.last.start = s.last.end - s.last.start
      BY <2>2, <2>3, <2>5, <3>1
    <3> QED BY <3>3, <3>4
  <2> QED BY <2>7, <2>8 DEF s
<1>9. DOMAIN restored = 1..n
  BY <1>1
<1> QED BY <1>7, <1>8, <1>9

LEMMA InvCall == CallSpec => []CallInv
  BY InitCall, CallStep, PTL DEF CallSpec

(* Every round of the loop of transcribe moves seek forward, so that a     *)
(* call makes no more rounds than the recording has frames: whatever       *)
(* tokens and words the model answers, also when the segments' ends would  *)
(* leave seek where it is.                                                 *)
THEOREM RecognitionAdvances == CallSpec => []EveryRoundAdvances
<1>1. CallInv => EveryRoundAdvances
  BY DEF CallInv, Advances, EveryRoundAdvances
<1> QED BY <1>1, InvCall, PTL

(* Segments that got their words follow each other without overlap, in     *)
(* each round and from round to round, whatever words the aligner cut,     *)
(* began earlier or let end later; put back behind the silence that was    *)
(* taken out they are in order up to what such words grow, each word keeps *)
(* its length and none ends later than that after the audio.  Without word *)
(* timestamps all segments are in order.                                   *)
THEOREM SegmentsComeInOrder == CallSpec => []SegmentsInOrder
<1>1. CallInv => SegmentsInOrder
  <2> SUFFICES ASSUME CallInv PROVE SegmentsInOrder
    OBVIOUS
  <2>1. segments \in Seq(PutSegment) /\ DOMAIN segments = 1..Len(segments)
        /\ Len(segments) \in Nat
    BY DEF CallInv, CallTypes
  <2>2. \A i \in DOMAIN segments : segments[i].start < segments[i].end
    BY <2>1 DEF CallInv, Walked
  <2>3. \A i, j \in DOMAIN segments :
          i < j /\ HasWords(segments[i]) /\ HasWords(segments[j]) =>
            segments[i].end <= segments[j].start
    BY <2>1 DEF CallInv, Walked, ClearOf
  <2>4. \A i, j : (wordTimestamps => segments[i].words /\ segments[j].words) =>
                    HasWords(segments[i]) /\ HasWords(segments[j])
    BY DEF HasWords
  <2>5. CASE restored = <<>>
    BY <2>2, <2>3, <2>4, <2>5 DEF SegmentsInOrder
  <2>6. CASE restored # <<>>
    BY <2>2, <2>3, <2>4, <2>6, BroughtInOrder DEF SegmentsInOrder
  <2> QED BY <2>5, <2>6
<1> QED BY <1>1, InvCall, PTL

-----------------------------------------------------------------------------
(* SegmentPath: what is made of a result, and the anchor *)

\* A segment of a result of Whisper.
Piece == [text : Texts, start : Nat, end : Nat]

LEMMA ResultFacts ==
  ASSUME duration \in Nat, NEW r \in Results
  PROVE  /\ r \in Seq(Piece) /\ Len(r) \in Nat /\ Len(r) >= 1
         /\ \A i \in 1..Len(r) : r[i] \in Piece
         /\ Last(r) \in Piece
<1>1. PICK said \in SeqOf(Texts, Least(MaxSegments, duration)) \ {<<>>},
           over \in 0..1 :
        r = [i \in DOMAIN said |->
               [text |-> said[i], start |-> i - 1,
                end |-> IF i = Len(said) THEN i + over ELSE i]]
  BY DEF Results
<1>2. PICK m \in 0..Least(MaxSegments, duration) : said \in [1..m -> Texts]
  BY DEF SeqOf
<1>3. m \in Nat /\ m >= 1
  <2>1. m \in Nat
    BY SegmentPathAssumption DEF Least
  <2>2. m # 0
    <3> SUFFICES ASSUME m = 0 PROVE FALSE
      OBVIOUS
    <3>1. said = <<>>
      BY <1>2
    <3> QED BY <1>1, <3>1
  <2> QED BY <2>1, <2>2
<1>4. DOMAIN r = 1..m /\ \A i \in 1..m : r[i] \in Piece
  <2>1. DOMAIN said = 1..m /\ \A i \in 1..m : said[i] \in Texts
    BY <1>2
  <2>2. \A i \in 1..m :
          /\ i - 1 \in Nat
          /\ (IF i = Len(said) THEN i + over ELSE i) \in Nat
    BY <1>3
  <2> QED BY <1>1, <2>1, <2>2 DEF Piece
<1>5. r \in [1..m -> Piece]
  BY <1>1, <1>2, <1>4
<1>6. r \in Seq(Piece) /\ Len(r) = m
  BY <1>3, <1>5
<1> QED BY <1>3, <1>4, <1>6 DEF Last

\* Whatever end Whisper reports, the end that is used lies in the audio.
LEMMA EndFacts ==
  ASSUME duration \in Nat, NEW seg \in Piece
  PROVE  End(seg) \in 0..duration
BY DEF End, Least, Piece

LEMMA CompleteFacts ==
  ASSUME duration \in Nat, NEW r \in Results
  PROVE  /\ DOMAIN Complete(r) \in SUBSET (1..Len(r))
         /\ Complete(r) # <<>> => Last(Complete(r)).text \in Texts
<1>1. /\ r \in Seq(Piece) /\ Len(r) \in Nat /\ Len(r) >= 1
      /\ \A i \in 1..Len(r) : r[i] \in Piece
  BY ResultFacts
<1>2. CASE Len(r) > 1 /\ ~Silent(Last(r))
  <2>1. Complete(r) = SubSeq(r, 1, Len(r) - 1)
    BY <1>2 DEF Complete, Front
  <2>2. /\ SubSeq(r, 1, Len(r) - 1) \in Seq(Piece)
        /\ Len(SubSeq(r, 1, Len(r) - 1)) = Len(r) - 1
        /\ \A i \in 1..(Len(r) - 1) : SubSeq(r, 1, Len(r) - 1)[i] = r[i]
    <3> DEFINE n == Len(r) - 1
    <3>1. n \in Int /\ 1 <= n /\ \A i \in 1..n : r[i] \in Piece
      BY <1>1, <1>2
    <3> HIDE DEF n
    <3>2. /\ SubSeq(r, 1, n) \in Seq(Piece)
          /\ Len(SubSeq(r, 1, n)) = n - 1 + 1
          /\ \A i \in 1..(n - 1 + 1) : SubSeq(r, 1, n)[i] = r[1 + i - 1]
      BY <3>1, SubSeqProperties
    <3>3. \A i \in 1..n : i \in 1..(n - 1 + 1) /\ 1 + i - 1 = i
      BY <3>1
    <3>4. /\ SubSeq(r, 1, n) \in Seq(Piece) /\ Len(SubSeq(r, 1, n)) = n
          /\ \A i \in 1..n : SubSeq(r, 1, n)[i] = r[i]
      BY <3>1, <3>2, <3>3
    <3> QED BY <3>4 DEF n
  <2>3. /\ Len(Complete(r)) = Len(r) - 1 /\ Complete(r) \in Seq(Piece)
        /\ \A i \in 1..(Len(r) - 1) : Complete(r)[i] = r[i]
    BY <2>1, <2>2
  <2>4. DOMAIN Complete(r) = 1..(Len(r) - 1)
    BY <2>3
  <2>5. Last(Complete(r)) = r[Len(r) - 1] /\ r[Len(r) - 1] \in Piece
    BY <1>1, <1>2, <2>3 DEF Last
  <2> QED BY <1>1, <2>4, <2>5 DEF Piece
<1>3. CASE ~(Len(r) > 1 /\ ~Silent(Last(r)))
  BY <1>3 DEF Complete
<1> QED BY <1>2, <1>3

LEMMA KeptFacts ==
  ASSUME duration \in Nat, NEW r \in Results, Kept(r) # <<>>
  PROVE  Last(Kept(r)) \in Piece
<1> DEFINE S == {i \in DOMAIN Complete(r) :
                   r[i].start < End(r[i]) /\ ~Silent(r[i])}
           m == Cardinality(S)
           o == InOrder(S)
<1>1. Len(r) \in Nat /\ \A i \in 1..Len(r) : r[i] \in Piece
  BY ResultFacts
<1>2. S \in SUBSET (1..Len(r))
  BY CompleteFacts
<1>3. Kept(r) = ElementsAt(r, S)
  BY DEF Kept
<1> HIDE DEF S
<1>4. m \in Nat /\ IsOrder(o, S)
  <2>1. S \in SUBSET (0..Len(r))
    BY <1>1, <1>2
  <2> QED BY <1>1, <2>1, InOrderIs, BoundedIsFinite
<1>5. Kept(r) = [k \in 1..m |-> r[o[k]]]
  BY <1>3 DEF ElementsAt
<1>6. o \in [1..m -> S]
  BY <1>4 DEF IsOrder
<1> HIDE DEF o, m
<1>7. m # 0
  <2> SUFFICES ASSUME m = 0 PROVE FALSE
    OBVIOUS
  <2>1. Kept(r) = <<>>
    BY <1>5
  <2> QED BY <2>1
<1>8. \A k \in 1..m : r[o[k]] \in Piece
  BY <1>1, <1>2, <1>6
<1>9. Kept(r) \in Seq(Piece) /\ Len(Kept(r)) = m /\ m \in 1..m
  BY <1>4, <1>5, <1>7, <1>8
<1>10. Last(Kept(r)) = r[o[m]]
  BY <1>5, <1>9 DEF Last
<1> QED BY <1>8, <1>9, <1>10

-----------------------------------------------------------------------------
(* SegmentPath: the two threads.  While a result is awaited, it is the end  *)
(* of the window that must lie in the audio, for the anchor may come to be  *)
(* there; and the buffer's trim may not pass the audio.                     *)

PathTypes ==
  /\ PathTypeOK
  /\ framesOffset <= audio
  /\ sameEnd \in Nat \cup {NoTime}
  /\ jumped \in BOOLEAN

\* Where the decode of the moment ends, if there is one.
Reach == IF stage = "decode" THEN anchor + duration ELSE anchor

PathInv == PathTypes /\ (Reach <= audio \/ jumped)

LEMMA InitPath == PathInit => PathInv
<1> SUFFICES ASSUME PathInit PROVE PathInv
  OBVIOUS
<1>1. PathTypes
  <2>1. audio = 0 /\ framesOffset = 0 /\ anchor = 0 /\ duration = 0
        /\ stage = "loop" /\ sameCount = 0 /\ decodes = 0
    BY DEF PathInit
  <2>2. PathTypeOK
    BY <2>1, SegmentPathAssumption, SMT DEF PathInit, PathTypeOK
  <2>3. sameEnd = NoTime /\ jumped \in BOOLEAN
    BY Zenon DEF PathInit
  <2> QED BY <2>1, <2>2, <2>3 DEF PathTypes
<1>2. audio = 0 /\ Reach = 0
  BY DEF PathInit, Reach
<1> QED BY <1>1, <1>2 DEF PathInv

\* What a result makes of the loop's variables; the anchor stays in the
\* window, also when the repeated output ended in an earlier one.
LEMMA OutputFacts ==
  ASSUME PathTypes, NEW r \in Results
  PROVE  /\ CurrentOut(r) \in Texts \cup {NoText}
         /\ TextBefore(r) \in Texts \cup {NoText}
         /\ FirstEnd(r) \in Nat \cup {NoTime}
         /\ Count(r) \in Nat
         /\ Offset(r) \in 0..duration
<1>1. duration \in Nat
  BY DEF PathTypes, PathTypeOK
<1>2. Last(r) \in Piece
  BY <1>1, ResultFacts
<1>3. CurrentOut(r) \in Texts \cup {NoText}
  BY <1>2 DEF CurrentOut, Piece
<1>4. TextBefore(r) \in Texts \cup {NoText}
  BY <1>1, CompleteFacts DEF TextBefore, PathTypes, PathTypeOK
<1>5. /\ FirstEnd(r) \in Nat \cup {NoTime}
      /\ Same(r) => FirstEnd(r) \in Nat
  BY <1>2 DEF FirstEnd, PathTypes, Piece
<1>6. Count(r) \in Nat /\ (Count(r) > SameOutput => Same(r))
  BY SegmentPathAssumption DEF Count, PathTypes, PathTypeOK
<1>7. CASE Repeated(r)
  <2>1. FirstEnd(r) \in Nat
    BY <1>5, <1>6, <1>7 DEF Repeated
  <2>2. RepeatedEnd(r) \in 0..duration
    BY <1>1, <2>1 DEF RepeatedEnd, Least
  <2> QED BY <1>3, <1>4, <1>5, <1>6, <1>7, <2>2 DEF Offset
<1>8. CASE ~Repeated(r) /\ Kept(r) = <<>>
  BY <1>1, <1>3, <1>4, <1>5, <1>6, <1>8 DEF Offset
<1>9. CASE ~Repeated(r) /\ Kept(r) # <<>>
  <2>1. End(Last(Kept(r))) \in 0..duration
    BY <1>1, <1>9, KeptFacts, EndFacts
  <2> QED BY <1>3, <1>4, <1>5, <1>6, <1>9, <2>1 DEF Offset
<1> QED BY <1>7, <1>8, <1>9

LEMMA AddFramesKeeps == PathInv /\ AddFrames => PathInv'
<1> SUFFICES ASSUME PathInv, AddFrames PROVE PathInv'
  OBVIOUS
<1> USE SegmentPathAssumption DEF AddFrames, PathInv, PathTypes, PathTypeOK
<1>1. framesOffset' \in Nat /\ framesOffset' <= audio'
  OBVIOUS
<1>2. anchor' \in Nat /\ (anchor' = anchor \/ anchor' = framesOffset')
  BY <1>1
<1>3. PathTypes'
  BY <1>1, <1>2 DEF outputVars
<1>4. CASE stage = "decode"
  <2>1. /\ stage' = "decode" /\ duration' = duration /\ audio' = audio + 1
        /\ jumped' = (jumped \/ anchor' # anchor)
    BY <1>4
  <2>2. Reach = anchor + duration /\ Reach' = anchor' + duration
    BY <1>4, <2>1 DEF Reach
  <2>3. (Reach <= audio \/ jumped) /\ Reach \in Nat /\ audio \in Nat
    BY <2>2
  <2>4. CASE anchor' = anchor
    <3>1. Reach' = Reach /\ (jumped' <=> jumped)
      BY <2>1, <2>2, <2>4
    <3> QED BY <1>3, <2>1, <2>3, <3>1
  <2>5. CASE anchor' # anchor
    BY <1>3, <2>1, <2>5
  <2> QED BY <2>4, <2>5
<1>5. CASE stage # "decode"
  <2>1. Reach = anchor /\ Reach' = anchor' /\ (jumped' <=> jumped)
    BY <1>5 DEF Reach
  <2>2. anchor' <= audio' \/ anchor' = anchor
    BY <1>1, <1>2
  <2>3. anchor <= audio \/ jumped'
    BY <2>1
  <2>4. audio \in Nat /\ anchor \in Nat /\ audio' = audio + 1
    OBVIOUS
  <2> QED BY <1>3, <2>1, <2>2, <2>3, <2>4
<1> QED BY <1>4, <1>5

LEMMA TakeAudioKeeps == PathInv /\ TakeAudio => PathInv'
<1> SUFFICES ASSUME PathInv, TakeAudio PROVE PathInv'
  OBVIOUS
<1> USE SegmentPathAssumption DEF TakeAudio, PathInv, PathTypes, PathTypeOK
<1>1. Clipped \in Nat /\ audio - Clipped \in Nat
  BY DEF Clipped
<1>2. PathTypes'
  BY <1>1 DEF outputVars
<1>3. Reach' = audio'
  BY <1>1 DEF Reach
<1> QED BY <1>2, <1>3

LEMMA DecodedKeeps == PathInv /\ Decoded => PathInv'
<1> SUFFICES ASSUME PathInv, Decoded PROVE PathInv'
  OBVIOUS
<1>1. PathTypes /\ stage = "decode" /\ stage' = "loop" /\ duration' = 0
      /\ UNCHANGED <<clipAudio, audio, framesOffset, decodes, jumped>>
  BY DEF Decoded, PathInv
<1>2. /\ anchor \in Nat /\ duration \in Nat /\ audio \in Nat
      /\ anchor + duration <= audio \/ jumped
  BY <1>1, SegmentPathAssumption DEF PathInv, Reach, PathTypes, PathTypeOK
<1>3. /\ \E d \in 0..duration : anchor' = anchor + d
      /\ sameCount' \in 0..SameOutput /\ sameEnd' \in Nat \cup {NoTime}
      /\ prevOut' \in Texts \cup {NoText} /\ lastText' \in Texts \cup {NoText}
  <2>1. CASE \E r \in Results : HandleOutput(r)
    <3>1. PICK r \in Results : HandleOutput(r)
      BY <2>1
    <3>2. /\ CurrentOut(r) \in Texts \cup {NoText}
          /\ TextBefore(r) \in Texts \cup {NoText}
          /\ FirstEnd(r) \in Nat \cup {NoTime}
          /\ Count(r) \in Nat
          /\ Offset(r) \in 0..duration
      BY <1>1, OutputFacts
    <3>3. sameCount' \in 0..SameOutput
      BY <3>1, <3>2, SegmentPathAssumption DEF HandleOutput, Repeated
    <3> QED BY <1>1, <3>1, <3>2, <3>3
            DEF HandleOutput, PathTypes, PathTypeOK
  <2>2. CASE Skips \/ Stays
    BY <1>1, <1>2, <2>2
       DEF Skips, Stays, outputVars, PathTypes, PathTypeOK
  <2> QED BY <2>1, <2>2 DEF Decoded
<1>4. PathTypes'
  BY <1>1, <1>2, <1>3 DEF PathTypes, PathTypeOK
<1>5. Reach' <= audio' \/ jumped'
  BY <1>1, <1>2, <1>3 DEF Reach
<1> QED BY <1>4, <1>5 DEF PathInv

LEMMA PathStep == PathInv /\ [PathNext]_pathVars => PathInv'
<1> SUFFICES ASSUME PathInv, [PathNext]_pathVars PROVE PathInv'
  OBVIOUS
<1>1. CASE UNCHANGED pathVars
  BY <1>1 DEF pathVars, outputVars, PathInv, PathTypes, PathTypeOK, Reach
<1> QED BY <1>1, AddFramesKeeps, TakeAudioKeeps, DecodedKeeps DEF PathNext

LEMMA InvPath == PathSpec => []PathInv
BY InitPath, PathStep, PTL DEF PathSpec

LEMMA InvAnchor == PathInv => AnchorInAudio
<1> SUFFICES ASSUME PathInv, ~jumped PROVE anchor <= audio
  BY DEF AnchorInAudio
<1>1. anchor \in Nat /\ duration \in Nat /\ audio \in Nat /\ Reach <= audio
  BY SegmentPathAssumption DEF PathInv, PathTypes, PathTypeOK
<1> QED BY <1>1 DEF Reach

(* Where the next decode starts (timestamp_offset) does not run ahead of   *)
(* the audio received, whatever ends Whisper reports and whatever end was  *)
(* kept while the output repeated: update_segments bounds both by the      *)
(* duration of the window.  Only a trim of the buffer in a decode may      *)
(* move it further.                                                        *)
THEOREM AnchorStaysInAudio == PathSpec => []AnchorInAudio
BY InvPath, InvAnchor, PTL

(* The variables of the receive thread and the recognition thread keep     *)
(* their types; same_output_count does not pass its threshold.             *)
THEOREM PathTypeCorrect == PathSpec => []PathTypeOK
<1>1. PathInv => PathTypeOK
  BY DEF PathInv, PathTypes
<1> QED BY <1>1, InvPath, PTL

-----------------------------------------------------------------------------
(* SegmentPath: what the stabilizer remembers of what was sent before *)

Said == [text : Texts, start : Nat, end : Nat, completed : BOOLEAN]
Words == {Known[t].says : t \in Texts}
Keys == Words \X Nat \X Nat
Shown == [text : Words, start : Nat, end : Nat, completed : {TRUE}]
Item == [text : Words, turn : Nat]
Verdict == [turn : Nat, text : Words, action : {"hold", "review", "emit"},
            weak : BOOLEAN]
Session == [turn : Nat, recent : Seq(Keys), reviewed : Seq(Words),
            pending : Seq(Item)]

\* A deque of n forgets the first when it is full.
Pushed(p, q, e, n, S) ==
  /\ p \in Seq(S) /\ Len(p) = Least(Len(q) + 1, n) /\ Len(p) >= 1
  /\ p[Len(p)] = e
  /\ \A k \in 1..(Len(p) - 1) :
       /\ k + Len(q) + 1 - Len(p) \in 1..Len(q)
       /\ p[k] = q[k + Len(q) + 1 - Len(p)]

LEMMA PushFacts ==
  ASSUME NEW S, NEW q \in Seq(S), NEW e \in S, NEW n \in Nat \ {0}, Len(q) <= n
  PROVE  Pushed(Push(q, e, n), q, e, n, S)
<1> DEFINE a == Append(q, e)
<1>1. /\ a \in Seq(S) /\ Len(a) = Len(q) + 1 /\ a # <<>> /\ Len(q) \in Nat
      /\ a[Len(q) + 1] = e /\ \A k \in 1..Len(q) : a[k] = q[k]
  OBVIOUS
<1> HIDE DEF a
<1>2. /\ Tail(a) \in Seq(S) /\ Len(Tail(a)) = Len(q)
      /\ \A k \in 1..Len(q) : Tail(a)[k] = a[k + 1]
  BY <1>1, HeadTailProperties
<1>3. CASE Len(a) > n
  <2>1. Push(q, e, n) = Tail(a)
    BY <1>3 DEF Push, a
  <2>2. Len(q) = n
    BY <1>1, <1>3
  <2>3. Len(q) \in 1..Len(q) /\ Tail(a)[Len(q)] = e
    BY <1>1, <1>2, <2>2
  <2>4. \A k \in 1..(Len(q) - 1) :
          k + 1 \in 1..Len(q) /\ k \in 1..Len(q) /\ k + Len(q) + 1 - Len(q) = k + 1
    BY <1>1
  <2>5. \A k \in 1..(Len(q) - 1) : Tail(a)[k] = q[k + 1]
    BY <1>1, <1>2, <2>4
  <2>6. Least(Len(q) + 1, n) = Len(q)
    BY <2>2 DEF Least
  <2>7. Pushed(Tail(a), q, e, n, S)
    <3> DEFINE t == Tail(a)
    <3> HIDE DEF t
    <3>1. t \in Seq(S) /\ Len(t) = Len(q) /\ Len(q) >= 1 /\ Len(q) \in Nat
      BY <1>1, <1>2, <2>3 DEF t
    <3>2. t[Len(q)] = e
      BY <2>3 DEF t
    <3>3. \A k \in 1..(Len(q) - 1) :
            k + Len(q) + 1 - Len(q) \in 1..Len(q)
            /\ t[k] = q[k + Len(q) + 1 - Len(q)]
      BY <2>4, <2>5 DEF t
    <3>4. Pushed(t, q, e, n, S)
      BY <2>6, <3>1, <3>2, <3>3 DEF Pushed
    <3> QED BY <3>4 DEF t
  <2> QED BY <2>1, <2>7
<1>4. CASE Len(a) <= n
  <2>1. Push(q, e, n) = a
    BY <1>1, <1>4 DEF Push, a
  <2>2. \A k \in 1..(Len(q) + 1 - 1) :
          k \in 1..Len(q) /\ k + Len(q) + 1 - (Len(q) + 1) = k
    BY <1>1
  <2>3. Least(Len(q) + 1, n) = Len(q) + 1
    BY <1>1, <1>4 DEF Least
  <2>4. Pushed(a, q, e, n, S)
    BY <1>1, <2>2, <2>3 DEF Pushed
  <2> QED BY <2>1, <2>4
<1> QED BY <1>1, <1>3, <1>4

\* All elements of s at the places P are collected in e, in their order.
Collected(e, s, S, P) ==
  /\ e \in Seq(S) /\ Len(e) \in Nat
  /\ \E o \in [1..Len(e) -> P] :
       /\ \A k \in 1..Len(e) : e[k] = s[o[k]]
       /\ \A i, j \in 1..Len(e) : i < j => o[i] < o[j]
       /\ \A x \in P : \E k \in 1..Len(e) : o[k] = x

LEMMA ElementsFacts ==
  ASSUME NEW S, NEW s \in Seq(S), NEW P \in SUBSET (1..Len(s))
  PROVE  Collected(ElementsAt(s, P), s, S, P)
<1> DEFINE m == Cardinality(P)
           o == InOrder(P)
           e == ElementsAt(s, P)
<1>1. Len(s) \in Nat /\ P \in SUBSET (0..Len(s))
  OBVIOUS
<1>2. m \in Nat /\ IsFiniteSet(P) /\ IsOrder(o, P)
  BY <1>1, InOrderIs, BoundedIsFinite
<1>3. o \in [1..m -> P] /\ \A i, j \in 1..m : i < j => o[i] < o[j]
  BY <1>2 DEF IsOrder
<1>4. e = [k \in 1..m |-> s[o[k]]]
  BY DEF ElementsAt
<1> HIDE DEF m, o, e
<1>5. e \in Seq(S) /\ Len(e) = m /\ \A k \in 1..m : e[k] = s[o[k]]
  <2>1. \A k \in 1..m : o[k] \in 1..Len(s) /\ s[o[k]] \in S
    <3>1. \A x \in P : x \in 1..Len(s) /\ s[x] \in S
      OBVIOUS
    <3>2. \A k \in 1..m : o[k] \in P
      BY <1>3
    <3> QED BY <3>1, <3>2
  <2>2. e \in [1..m -> S]
    BY <1>4, <2>1
  <2> QED BY <1>2, <1>4, <2>2
<1>6. o \in Injection(1..m, P)
  <2>1. \A i, j \in 1..m : i < j \/ j < i \/ i = j
    BY <1>2
  <2>2. \A i \in 1..m : o[i] \in Int
    <3>1. \A x \in P : x \in Int
      OBVIOUS
    <3>2. \A k \in 1..m : o[k] \in P
      BY <1>3
    <3> QED BY <3>1, <3>2
  <2>3. ASSUME NEW i \in 1..m, NEW j \in 1..m, o[i] = o[j], i # j PROVE FALSE
    <3>1. o[i] < o[j] \/ o[j] < o[i]
      BY <1>3, <2>1, <2>3
    <3> QED BY <2>2, <2>3, <3>1
  <2> QED BY <1>3, <2>3 DEF Injection, IsInjective
<1>7. Cardinality(1..m) = m /\ IsFiniteSet(1..m)
  BY <1>2, FS_Interval
<1>8. o \in Surjection(1..m, P)
  BY <1>2, <1>6, <1>7, FS_Injection DEF m
<1>9. \A x \in P : \E k \in 1..m : o[k] = x
  BY <1>8 DEF Surjection
<1>10. Collected(e, s, S, P)
  BY <1>2, <1>3, <1>5, <1>9 DEF Collected
<1> QED BY <1>10 DEF e

\* Counting up: the least number that is not in G would follow one that is.
LEMMA UpTo ==
  ASSUME NEW m \in Nat, NEW G, 0 \in G,
         \A k \in 0..(m - 1) : k \in G => k + 1 \in G
  PROVE  \A k \in 0..m : k \in G
<1> DEFINE Less == {ss \in Nat \X Nat : ss[1] < ss[2]}
           Bad == {k \in 0..m : k \notin G}
<1>1. IsWellFoundedOn(Less, Nat)
  <2>1. IsWellFoundedOn({ss \in Nat \X Nat : ss[1] < ss[2]}, Nat)
    BY NatLessThanWellFounded, Zenon DEF OpToRel
  <2> QED BY <2>1
<1>2. \A j, k \in Nat : <<j, k>> \in Less <=> j < k
  OBVIOUS
<1>3. Bad \subseteq Nat
  OBVIOUS
<1> SUFFICES ASSUME Bad # {} PROVE FALSE
  OBVIOUS
<1>4. PICK k \in Bad : \A j \in Bad : ~(<<j, k>> \in Less)
  <2> HIDE DEF Less, Bad
  <2> QED BY <1>1, <1>3, WFMin
<1> HIDE DEF Less
<1>5. k \in 0..m /\ k \notin G /\ k # 0 /\ k - 1 \in 0..(m - 1)
  OBVIOUS
<1>6. k - 1 \notin Bad
  <2>1. k - 1 \in Nat /\ k \in Nat /\ k - 1 < k
    BY <1>5
  <2> QED BY <1>2, <1>4, <2>1
<1>7. k - 1 \in G
  BY <1>5, <1>6
<1>8. (k - 1) + 1 \in G /\ (k - 1) + 1 = k
  BY <1>5, <1>7
<1> QED BY <1>5, <1>8

\* What was held is still open while the same text has only been held since.
Open(vs, k) ==
  /\ vs[k].action = "hold"
  /\ \A l \in (k + 1)..Len(vs) :
       vs[l].text = vs[k].text => vs[l].action = "hold"

\* The pending items are the open texts of the last MaxPendingAge turns, each
\* with the last turn it was held.
Waits(pend, turn, vs) ==
  /\ \A i, j \in 1..Len(pend) : i < j => pend[i].turn < pend[j].turn
  /\ \A i \in 1..Len(pend) :
       /\ pend[i].turn <= turn /\ turn - pend[i].turn <= MaxPendingAge
       /\ \E k \in 1..Len(vs) :
            /\ Open(vs, k)
            /\ vs[k].text = pend[i].text /\ vs[k].turn = pend[i].turn
  /\ \A k \in 1..Len(vs) :
       Open(vs, k) /\ turn - vs[k].turn <= MaxPendingAge =>
         \E i \in 1..Len(pend) :
           pend[i].text = vs[k].text /\ vs[k].turn <= pend[i].turn

\* At most one text is held in a turn.
LEMMA PendingFew ==
  ASSUME NEW p \in Seq(Item), NEW turn \in Nat,
         \A i, j \in 1..Len(p) : i < j => p[i].turn < p[j].turn,
         \A i \in 1..Len(p) : /\ p[i].turn < turn
                              /\ turn - p[i].turn <= MaxPendingAge
  PROVE  Len(p) <= MaxPendingAge
<1>1. /\ Len(p) \in Nat /\ MaxPendingAge \in Nat
      /\ \A i \in 1..Len(p) : p[i].turn \in Nat
  <2>1. \A i \in 1..Len(p) : p[i] \in Item
    OBVIOUS
  <2> QED BY <2>1, StabilizerAssumption DEF Item
<1> DEFINE G == {k \in 0..Len(p) :
                   k > 0 => p[k].turn >= turn - MaxPendingAge + k - 1}
<1>2. 0 \in G
  BY <1>1
<1>3. ASSUME NEW k \in 0..(Len(p) - 1), k \in G PROVE k + 1 \in G
  <2>1. k + 1 \in 1..Len(p) /\ k + 1 \in 0..Len(p)
    BY <1>1
  <2>2. p[k + 1].turn \in Nat /\ p[k + 1].turn >= turn - MaxPendingAge
    BY <1>1, <2>1
  <2>3. CASE k = 0
    BY <1>1, <2>1, <2>2, <2>3
  <2>4. CASE k > 0
    <3>1. k \in 1..Len(p) /\ p[k].turn \in Nat
      BY <1>1, <2>4
    <3>2. p[k].turn < p[k + 1].turn
      BY <2>1, <3>1
    <3>3. p[k].turn >= turn - MaxPendingAge + k - 1
      BY <1>3, <2>4
    <3>4. p[k + 1].turn >= turn - MaxPendingAge + (k + 1) - 1
      BY <1>1, <2>2, <3>1, <3>2, <3>3
    <3> QED BY <2>1, <3>4
  <2> QED BY <2>3, <2>4
<1>4. Len(p) \in G
  <2> HIDE DEF G
  <2>1. \A k \in 0..Len(p) : k \in G
    BY <1>1, <1>2, <1>3, UpTo
  <2> QED BY <1>1, <2>1
<1>5. CASE Len(p) = 0
  BY <1>1, <1>5
<1>6. CASE Len(p) > 0
  <2>1. /\ p[Len(p)].turn >= turn - MaxPendingAge + Len(p) - 1
        /\ Len(p) \in 1..Len(p)
    BY <1>1, <1>4, <1>6
  <2>2. p[Len(p)].turn < turn /\ p[Len(p)].turn \in Nat
    BY <1>1, <2>1
  <2> QED BY <1>1, <2>1, <2>2
<1> QED BY <1>1, <1>5, <1>6

\* An item leaves when it is older than MaxPendingAge turns.
LEMMA ExpireKeeps ==
  ASSUME NEW p \in Seq(Item), NEW turn \in Nat, NEW vs \in Seq(Verdict),
         Waits(p, turn, vs),
         NEW P \in SUBSET (1..Len(p)),
         P = {i \in 1..Len(p) : (turn + 1) - p[i].turn <= MaxPendingAge}
  PROVE  LET e == ElementsAt(p, P) IN
         /\ e \in Seq(Item) /\ Waits(e, turn + 1, vs)
         /\ \A i \in 1..Len(e) : e[i].turn < turn + 1
<1> DEFINE e == ElementsAt(p, P)
<1>0. Collected(e, p, Item, P)
  BY ElementsFacts
<1> HIDE DEF e
<1>1. PICK o \in [1..Len(e) -> P] :
        /\ e \in Seq(Item) /\ Len(e) \in Nat
        /\ \A k \in 1..Len(e) : e[k] = p[o[k]]
        /\ \A i, j \in 1..Len(e) : i < j => o[i] < o[j]
        /\ \A x \in P : \E k \in 1..Len(e) : o[k] = x
  BY <1>0 DEF Collected
<1>2. \A k \in 1..Len(e) : o[k] \in P
  BY <1>1
<1>3. \A i \in 1..Len(p) : p[i].turn \in Nat
  <2>1. \A i \in 1..Len(p) : p[i] \in Item
    OBVIOUS
  <2> QED BY <2>1 DEF Item
<1>4. \A x \in P : x \in 1..Len(p) /\ (turn + 1) - p[x].turn <= MaxPendingAge
  OBVIOUS
<1>5. \A i \in 1..Len(p) : p[i].turn < turn + 1
  BY <1>3 DEF Waits
<1>6. \A i, j \in 1..Len(e) : i < j => e[i].turn < e[j].turn
  BY <1>1, <1>2, <1>4 DEF Waits
<1>7. ASSUME NEW i \in 1..Len(e)
      PROVE  /\ e[i].turn < turn + 1 /\ e[i].turn <= turn + 1
             /\ (turn + 1) - e[i].turn <= MaxPendingAge
             /\ \E k \in 1..Len(vs) :
                  /\ Open(vs, k)
                  /\ vs[k].text = e[i].text /\ vs[k].turn = e[i].turn
  <2>1. o[i] \in 1..Len(p) /\ e[i] = p[o[i]]
        /\ (turn + 1) - p[o[i]].turn <= MaxPendingAge
    BY <1>1, <1>2, <1>4
  <2>2. e[i].turn \in Nat /\ e[i].turn < turn + 1 /\ e[i].turn <= turn + 1
    BY <1>3, <1>5, <2>1
  <2>3. \E k \in 1..Len(vs) :
          /\ Open(vs, k)
          /\ vs[k].text = p[o[i]].text /\ vs[k].turn = p[o[i]].turn
    BY <2>1, Zenon DEF Waits
  <2> QED BY <2>1, <2>2, <2>3
<1>8. ASSUME NEW k \in 1..Len(vs), Open(vs, k),
             (turn + 1) - vs[k].turn <= MaxPendingAge
      PROVE  \E i \in 1..Len(e) :
               e[i].text = vs[k].text /\ vs[k].turn <= e[i].turn
  <2>1. vs[k].turn \in Nat /\ MaxPendingAge \in Nat
    <3>1. vs[k] \in Verdict
      OBVIOUS
    <3> QED BY <3>1, StabilizerAssumption DEF Verdict
  <2>2. turn - vs[k].turn <= MaxPendingAge
    BY <1>8, <2>1
  <2>3. PICK x \in 1..Len(p) : p[x].text = vs[k].text /\ vs[k].turn <= p[x].turn
    BY <1>8, <2>2 DEF Waits
  <2>4. x \in P
    <3>1. p[x].turn \in Nat
      BY <1>3, <2>3
    <3>2. (turn + 1) - p[x].turn <= MaxPendingAge
      BY <1>8, <2>1, <2>3, <3>1
    <3> QED BY <2>3, <3>2
  <2>5. PICK k2 \in 1..Len(e) : o[k2] = x
    BY <1>1, <2>4
  <2>6. e[k2] = p[x]
    BY <1>1, <2>5
  <2> QED BY <2>3, <2>5, <2>6
<1> QED BY <1>1, <1>6, <1>7, <1>8 DEF Waits, e

LEMMA OpenAppend ==
  ASSUME NEW vs \in Seq(Verdict), NEW v \in Verdict
  PROVE  LET n == Len(vs)
             ws == Append(vs, v) IN
         /\ n \in Nat /\ ws \in Seq(Verdict) /\ Len(ws) = n + 1
         /\ ws[n + 1] = v /\ \A k \in 1..n : ws[k] = vs[k]
         /\ \A k \in 1..n :
              Open(ws, k) <=> /\ Open(vs, k)
                              /\ v.text = vs[k].text => v.action = "hold"
         /\ Open(ws, n + 1) <=> v.action = "hold"
<1> DEFINE n == Len(vs)
           ws == Append(vs, v)
<1>1. /\ n \in Nat /\ ws \in Seq(Verdict) /\ Len(ws) = n + 1
      /\ ws[n + 1] = v /\ \A k \in 1..n : ws[k] = vs[k]
  OBVIOUS
<1> HIDE DEF ws
<1>2. ASSUME NEW k \in 1..n
      PROVE  Open(ws, k) <=> /\ Open(vs, k)
                             /\ v.text = vs[k].text => v.action = "hold"
  <2>1. ws[k] = vs[k] /\ k \in Nat /\ k + 1 <= n + 1
    BY <1>1
  <2>2. \A l \in (k + 1)..(n + 1) :
          \/ l \in (k + 1)..n /\ l \in 1..n /\ ws[l] = vs[l]
          \/ l = n + 1 /\ ws[l] = v
    BY <1>1, <2>1
  <2>3. n + 1 \in (k + 1)..(n + 1) /\ \A l \in (k + 1)..n : l \in (k + 1)..(n + 1)
        /\ ws[l] = vs[l]
    BY <1>1, <2>1
  <2>4. Open(ws, k) => /\ Open(vs, k)
                       /\ v.text = vs[k].text => v.action = "hold"
    BY <1>1, <2>1, <2>3 DEF Open
  <2>5. Open(vs, k) /\ (v.text = vs[k].text => v.action = "hold") => Open(ws, k)
    <3> SUFFICES ASSUME Open(vs, k), v.text = vs[k].text => v.action = "hold"
                 PROVE  Open(ws, k)
      OBVIOUS
    <3>1. ws[k].action = "hold"
      BY <2>1 DEF Open
    <3>2. ASSUME NEW l \in (k + 1)..(n + 1), ws[l].text = ws[k].text
          PROVE  ws[l].action = "hold"
      BY <2>1, <2>2, <3>2 DEF Open
    <3> QED BY <1>1, <3>1, <3>2 DEF Open
  <2> QED BY <2>4, <2>5
<1>3. Open(ws, n + 1) <=> v.action = "hold"
  <2>1. ((n + 1) + 1)..(n + 1) = {}
    BY <1>1
  <2> QED BY <1>1, <2>1 DEF Open
<1> QED BY <1>1, <1>2, <1>3 DEF ws

\* What is left of p when the items of a text leave.
Rest(e, p, w) ==
  /\ e \in Seq(Item)
  /\ \A i, j \in 1..Len(e) : i < j => e[i].turn < e[j].turn
  /\ \A i \in 1..Len(e) :
       e[i].text # w /\ \E x \in 1..Len(p) : e[i] = p[x]
  /\ \A x \in 1..Len(p) : p[x].text # w => \E i \in 1..Len(e) : e[i] = p[x]

LEMMA WithoutFacts ==
  ASSUME NEW p \in Seq(Item), NEW w, NEW P \in SUBSET (1..Len(p)),
         P = {i \in 1..Len(p) : p[i].text # w},
         \A i, j \in 1..Len(p) : i < j => p[i].turn < p[j].turn
  PROVE  Rest(ElementsAt(p, P), p, w)
<1> DEFINE e == ElementsAt(p, P)
<1>0. Collected(e, p, Item, P)
  BY ElementsFacts
<1> HIDE DEF e
<1>1. PICK o \in [1..Len(e) -> P] :
        /\ e \in Seq(Item) /\ Len(e) \in Nat
        /\ \A k \in 1..Len(e) : e[k] = p[o[k]]
        /\ \A i, j \in 1..Len(e) : i < j => o[i] < o[j]
        /\ \A x \in P : \E k \in 1..Len(e) : o[k] = x
  BY <1>0 DEF Collected
<1>2. \A k \in 1..Len(e) : o[k] \in P
  BY <1>1
<1>3. \A x \in P : x \in 1..Len(p) /\ p[x].text # w
  OBVIOUS
<1>4. \A i, j \in 1..Len(e) : i < j => e[i].turn < e[j].turn
  BY <1>1, <1>2, <1>3
<1>5. \A x \in 1..Len(p) : p[x].text # w => x \in P
  OBVIOUS
<1>6. ASSUME NEW x \in 1..Len(p), p[x].text # w
      PROVE  \E i \in 1..Len(e) : e[i] = p[x]
  <2>1. PICK k \in 1..Len(e) : o[k] = x
    BY <1>1, <1>5, <1>6
  <2> QED BY <1>1, <2>1
<1>7. Rest(e, p, w)
  BY <1>1, <1>2, <1>3, <1>4, <1>6 DEF Rest
<1> QED BY <1>7 DEF e

\* A text that is held again waits from its last turn on.
LEMMA HeldWaits ==
  ASSUME NEW p \in Seq(Item), NEW turn \in Nat, NEW vs \in Seq(Verdict),
         Waits(p, turn, vs), \A i \in 1..Len(p) : p[i].turn < turn,
         \A k \in 1..Len(vs) : vs[k].turn <= turn,
         NEW v \in Verdict, v.action = "hold", v.turn = turn,
         NEW e, Rest(e, p, v.text)
  PROVE  Waits(Append(e, [text |-> v.text, turn |-> turn]), turn,
               Append(vs, v))
<1> DEFINE n == Len(vs)
           ws == Append(vs, v)
           m == Len(e)
           f == Append(e, [text |-> v.text, turn |-> turn])
<1>1. /\ n \in Nat /\ ws \in Seq(Verdict) /\ Len(ws) = n + 1
      /\ ws[n + 1] = v /\ \A k \in 1..n : ws[k] = vs[k]
      /\ \A k \in 1..n : Open(ws, k) <=> Open(vs, k)
      /\ Open(ws, n + 1)
  BY OpenAppend
<1>2. /\ e \in Seq(Item) /\ m \in Nat /\ Len(f) = m + 1
      /\ f[m + 1].text = v.text /\ f[m + 1].turn = turn
      /\ \A i \in 1..m : f[i] = e[i]
  BY DEF Rest
<1> HIDE DEF ws, f
<1>3. ASSUME NEW i \in 1..m
      PROVE  /\ e[i].turn < turn /\ e[i].text # v.text
             /\ \E x \in 1..Len(p) : e[i] = p[x]
  BY DEF Rest
<1>4. \A i \in 1..(m + 1) : i \in 1..m \/ i = m + 1
  BY <1>2
<1>5. ASSUME NEW i \in 1..(m + 1), NEW j \in 1..(m + 1), i < j
      PROVE  f[i].turn < f[j].turn
  <2>1. i \in 1..m
    BY <1>2, <1>5
  <2>2. CASE j \in 1..m
    BY <1>2, <1>5, <2>1, <2>2 DEF Rest
  <2>3. CASE j = m + 1
    BY <1>2, <1>3, <2>1, <2>3
  <2> QED BY <1>4, <2>2, <2>3
<1>6. ASSUME NEW i \in 1..(m + 1)
      PROVE  /\ f[i].turn <= turn /\ turn - f[i].turn <= MaxPendingAge
             /\ \E k \in 1..(n + 1) :
                  /\ Open(ws, k)
                  /\ ws[k].text = f[i].text /\ ws[k].turn = f[i].turn
  <2>1. CASE i = m + 1
    <3>1. f[i].turn = turn /\ n + 1 \in 1..(n + 1)
      BY <1>1, <1>2, <2>1
    <3>2. turn - turn <= MaxPendingAge /\ turn <= turn
      BY StabilizerAssumption
    <3> QED BY <1>1, <1>2, <2>1, <3>1, <3>2
  <2>2. CASE i \in 1..m
    <3>1. PICK x \in 1..Len(p) : f[i] = p[x]
      BY <1>2, <1>3, <2>2
    <3>2. PICK k \in 1..n :
            Open(vs, k) /\ vs[k].text = p[x].text /\ vs[k].turn = p[x].turn
      BY Zenon DEF Waits
    <3>3. k \in 1..(n + 1) /\ Open(ws, k) /\ ws[k] = vs[k]
      BY <1>1, <3>2
    <3>4. p[x].turn <= turn /\ turn - p[x].turn <= MaxPendingAge
      BY DEF Waits
    <3> QED BY <3>1, <3>2, <3>3, <3>4
  <2> QED BY <1>4, <2>1, <2>2
<1>7. ASSUME NEW k \in 1..(n + 1), Open(ws, k),
             turn - ws[k].turn <= MaxPendingAge
      PROVE  \E i \in 1..(m + 1) :
               f[i].text = ws[k].text /\ ws[k].turn <= f[i].turn
  <2>1. m + 1 \in 1..(m + 1) /\ turn <= turn
    BY <1>2
  <2>2. ws[k].turn <= turn
    BY <1>1, <2>1
  <2>3. CASE ws[k].text = v.text
    BY <1>2, <2>1, <2>2, <2>3
  <2>4. CASE ws[k].text # v.text
    <3>1. k \in 1..n /\ ws[k] = vs[k] /\ Open(vs, k)
      BY <1>1, <1>7, <2>4
    <3>2. PICK x \in 1..Len(p) :
            p[x].text = vs[k].text /\ vs[k].turn <= p[x].turn
      BY <1>7, <3>1 DEF Waits
    <3>3. PICK i \in 1..m : e[i] = p[x]
      BY <2>4, <3>1, <3>2 DEF Rest
    <3>4. i \in 1..(m + 1) /\ f[i] = p[x]
      BY <1>2, <3>3
    <3> QED BY <3>1, <3>2, <3>4
  <2> QED BY <2>3, <2>4
<1>8. Waits(f, turn, ws)
  BY <1>1, <1>2, <1>5, <1>6, <1>7 DEF Waits
<1> QED BY <1>8 DEF f, ws

\* A text that is let through no longer waits.
LEMMA PassedWaits ==
  ASSUME NEW p \in Seq(Item), NEW turn \in Nat, NEW vs \in Seq(Verdict),
         Waits(p, turn, vs),
         NEW v \in Verdict, v.action # "hold", NEW e, Rest(e, p, v.text)
  PROVE  Waits(e, turn, Append(vs, v))
<1> DEFINE n == Len(vs)
           ws == Append(vs, v)
<1>1. /\ n \in Nat /\ Len(ws) = n + 1
      /\ \A k \in 1..n : ws[k] = vs[k]
      /\ \A k \in 1..n : Open(ws, k) <=> Open(vs, k) /\ v.text # vs[k].text
      /\ ~Open(ws, n + 1)
  BY OpenAppend
<1> HIDE DEF ws
<1>2. ASSUME NEW i \in 1..Len(e)
      PROVE  /\ e[i].turn <= turn /\ turn - e[i].turn <= MaxPendingAge
             /\ \E k \in 1..(n + 1) :
                  /\ Open(ws, k)
                  /\ ws[k].text = e[i].text /\ ws[k].turn = e[i].turn
  <2>1. PICK x \in 1..Len(p) : e[i] = p[x] /\ p[x].text # v.text
    BY DEF Rest
  <2>2. PICK k \in 1..n :
          Open(vs, k) /\ vs[k].text = p[x].text /\ vs[k].turn = p[x].turn
    BY Zenon DEF Waits
  <2>3. k \in 1..(n + 1) /\ Open(ws, k) /\ ws[k] = vs[k]
    BY <1>1, <2>1, <2>2
  <2>4. p[x].turn <= turn /\ turn - p[x].turn <= MaxPendingAge
    BY DEF Waits
  <2> QED BY <2>1, <2>2, <2>3, <2>4
<1>3. ASSUME NEW k \in 1..(n + 1), Open(ws, k),
             turn - ws[k].turn <= MaxPendingAge
      PROVE  \E i \in 1..Len(e) :
               e[i].text = ws[k].text /\ ws[k].turn <= e[i].turn
  <2>1. k \in 1..n
    BY <1>1, <1>3
  <2>2. ws[k] = vs[k] /\ Open(vs, k) /\ v.text # vs[k].text
    BY <1>1, <1>3, <2>1
  <2>3. PICK x \in 1..Len(p) :
          p[x].text = vs[k].text /\ vs[k].turn <= p[x].turn
    BY <1>3, <2>1, <2>2 DEF Waits
  <2>4. PICK i \in 1..Len(e) : e[i] = p[x]
    BY <2>2, <2>3 DEF Rest
  <2> QED BY <2>2, <2>3, <2>4
<1>4. Waits(e, turn, ws)
  BY <1>1, <1>2, <1>3 DEF Waits, Rest
<1> QED BY <1>4 DEF ws

\* How many texts were sent for review after place k.
Since(vs, k) == Cardinality(Reviews(vs, k + 1, Len(vs)))

LEMMA SinceFacts ==
  ASSUME NEW vs \in Seq(Verdict), NEW v \in Verdict
  PROVE  LET n == Len(vs)
             ws == Append(vs, v) IN
         /\ \A k \in 1..n :
              /\ Since(vs, k) \in Nat
              /\ Since(ws, k) =
                   IF v.action = "review" THEN Since(vs, k) + 1 ELSE Since(vs, k)
         /\ Since(ws, n + 1) = 0
<1> DEFINE n == Len(vs)
           ws == Append(vs, v)
<1>1. /\ n \in Nat /\ Len(ws) = n + 1 /\ ws[n + 1] = v
      /\ \A k \in 1..n : ws[k] = vs[k]
  BY OpenAppend
<1> HIDE DEF ws
<1>2. ASSUME NEW k \in 1..n
      PROVE  /\ Since(vs, k) \in Nat
             /\ Since(ws, k) =
                  IF v.action = "review" THEN Since(vs, k) + 1 ELSE Since(vs, k)
  <2> DEFINE R == Reviews(vs, k + 1, n)
             Q == Reviews(ws, k + 1, n + 1)
  <2>1. IsFiniteSet(R) /\ Cardinality(R) \in Nat /\ n + 1 \notin R
    <3>1. R \in SUBSET (0..n) /\ n + 1 \notin R
      BY <1>1 DEF Reviews
    <3> QED BY <1>1, <3>1, BoundedIsFinite
  <2>2. /\ \A l \in (k + 1)..n : /\ l \in (k + 1)..(n + 1) /\ ws[l] = vs[l]
                                 /\ l # n + 1
        /\ \A l \in (k + 1)..(n + 1) : l \in (k + 1)..n \/ l = n + 1
        /\ n + 1 \in (k + 1)..(n + 1)
    BY <1>1
  <2>3. CASE v.action = "review"
    <3>1. Q = R \cup {n + 1}
      BY <1>1, <2>2, <2>3, Zenon DEF Reviews
    <3> HIDE DEF R, Q
    <3>2. Cardinality(Q) = Cardinality(R) + 1
      BY <2>1, <3>1, FS_AddElement
    <3> QED BY <1>1, <2>1, <2>3, <3>2 DEF Since, R, Q
  <2>4. CASE v.action # "review"
    <3>1. Q = R
      BY <1>1, <2>2, <2>4, Zenon DEF Reviews
    <3> HIDE DEF R, Q
    <3> QED BY <1>1, <2>1, <2>4, <3>1 DEF Since, R, Q
  <2> QED BY <2>3, <2>4
<1>3. Since(ws, n + 1) = 0
  <2>1. Reviews(ws, (n + 1) + 1, n + 1) = {}
    BY <1>1 DEF Reviews
  <2> QED BY <1>1, <2>1, FS_EmptySet DEF Since
<1> QED BY <1>2, <1>3 DEF ws

\* The reviewed texts are the last PendingWindow that were sent for review.
Notes(rev, vs) ==
  /\ Len(rev) <= PendingWindow
  /\ \A m \in 1..Len(rev) : \E k \in 1..Len(vs) :
       /\ vs[k].action = "review" /\ vs[k].text = rev[m]
       /\ Since(vs, k) = Len(rev) - m
  /\ \A k \in 1..Len(vs) :
       vs[k].action = "review" /\ Since(vs, k) < PendingWindow =>
         /\ Len(rev) - Since(vs, k) \in 1..Len(rev)
         /\ rev[Len(rev) - Since(vs, k)] = vs[k].text

LEMMA NotesStay ==
  ASSUME NEW rev \in Seq(Words), NEW vs \in Seq(Verdict), Notes(rev, vs),
         NEW v \in Verdict, v.action # "review"
  PROVE  Notes(rev, Append(vs, v))
<1> DEFINE n == Len(vs)
           ws == Append(vs, v)
<1>1. /\ n \in Nat /\ Len(ws) = n + 1 /\ ws[n + 1] = v
      /\ \A k \in 1..n : ws[k] = vs[k]
  BY OpenAppend
<1>2. \A k \in 1..n : Since(ws, k) = Since(vs, k)
  BY SinceFacts
<1> HIDE DEF ws
<1>3. \A k \in 1..n : k \in 1..(n + 1)
  BY <1>1
<1>4. \A k \in 1..(n + 1) : ws[k].action = "review" => k \in 1..n
  BY <1>1
<1>5. ASSUME NEW m \in 1..Len(rev)
      PROVE  \E k \in 1..(n + 1) :
               /\ ws[k].action = "review" /\ ws[k].text = rev[m]
               /\ Since(ws, k) = Len(rev) - m
  <2>1. PICK k \in 1..n : /\ vs[k].action = "review" /\ vs[k].text = rev[m]
                          /\ Since(vs, k) = Len(rev) - m
    BY DEF Notes
  <2> QED BY <1>1, <1>2, <1>3, <2>1
<1>6. Notes(rev, ws)
  BY <1>1, <1>2, <1>4, <1>5 DEF Notes
<1> QED BY <1>6 DEF ws

LEMMA NotesGrow ==
  ASSUME NEW rev \in Seq(Words), NEW vs \in Seq(Verdict), Notes(rev, vs),
         NEW v \in Verdict, v.action = "review"
  PROVE  /\ Push(rev, v.text, PendingWindow) \in Seq(Words)
         /\ Notes(Push(rev, v.text, PendingWindow), Append(vs, v))
<1> DEFINE n == Len(vs)
           ws == Append(vs, v)
           q == Push(rev, v.text, PendingWindow)
           l == Len(rev)
           h == Len(q)
<1>0. v.text \in Words /\ PendingWindow \in Nat \ {0} /\ l <= PendingWindow
  BY StabilizerAssumption DEF Notes, Verdict
<1>1. /\ n \in Nat /\ Len(ws) = n + 1 /\ ws[n + 1] = v
      /\ \A k \in 1..n : ws[k] = vs[k]
  BY OpenAppend
<1>2. /\ \A k \in 1..n : Since(vs, k) \in Nat /\ Since(ws, k) = Since(vs, k) + 1
      /\ Since(ws, n + 1) = 0
  BY SinceFacts
<1>3. /\ q \in Seq(Words) /\ h = Least(l + 1, PendingWindow) /\ h >= 1
      /\ q[h] = v.text
      /\ \A k \in 1..(h - 1) : /\ k + l + 1 - h \in 1..l
                               /\ q[k] = rev[k + l + 1 - h]
  <2>1. Pushed(q, rev, v.text, PendingWindow, Words)
    BY <1>0, PushFacts
  <2> QED BY <2>1 DEF Pushed
<1> HIDE DEF ws, q
<1>4. l \in Nat /\ h \in Nat /\ h <= PendingWindow
      /\ (h = l + 1 \/ (h = l /\ l = PendingWindow))
  BY <1>0, <1>3 DEF Least
<1> HIDE DEF l, h
<1>5. ASSUME NEW m \in 1..h
      PROVE  \E k \in 1..(n + 1) :
               /\ ws[k].action = "review" /\ ws[k].text = q[m]
               /\ Since(ws, k) = h - m
  <2>1. CASE m = h
    <3>1. n + 1 \in 1..(n + 1) /\ h - m = 0
      BY <1>1, <1>4, <2>1
    <3> QED BY <1>1, <1>2, <1>3, <2>1, <3>1
  <2>2. CASE m # h
    <3>1. m \in 1..(h - 1)
      BY <1>4, <2>2
    <3> DEFINE x == m + l + 1 - h
    <3>2. x \in 1..l /\ q[m] = rev[x]
      BY <1>3, <3>1
    <3>3. (l - x) + 1 = h - m
      BY <1>4
    <3> HIDE DEF x
    <3>4. PICK k \in 1..n : /\ vs[k].action = "review" /\ vs[k].text = rev[x]
                            /\ Since(vs, k) = l - x
      BY <3>2 DEF Notes, l
    <3>5. k \in 1..(n + 1) /\ Since(ws, k) = h - m /\ ws[k] = vs[k]
      BY <1>1, <1>2, <3>3, <3>4
    <3> QED BY <3>2, <3>4, <3>5
  <2> QED BY <2>1, <2>2
<1>6. ASSUME NEW k \in 1..(n + 1), ws[k].action = "review",
             Since(ws, k) < PendingWindow
      PROVE  /\ h - Since(ws, k) \in 1..h
             /\ q[h - Since(ws, k)] = ws[k].text
  <2>1. CASE k = n + 1
    <3>1. h - Since(ws, k) = h /\ h \in 1..h
      BY <1>2, <1>3, <1>4, <2>1
    <3> QED BY <1>1, <1>3, <2>1, <3>1
  <2>2. CASE k # n + 1
    <3>1. k \in 1..n /\ ws[k] = vs[k]
      BY <1>1, <2>2
    <3> DEFINE c == Since(vs, k)
    <3>2. c \in Nat /\ Since(ws, k) = c + 1 /\ c + 1 < PendingWindow
      BY <1>2, <1>6, <3>1
    <3>3. c < PendingWindow
      BY <1>0, <3>2
    <3>4. l - c \in 1..l /\ rev[l - c] = vs[k].text
      BY <1>6, <3>1, <3>3 DEF Notes, l
    <3> HIDE DEF c
    <3>5. h - (c + 1) \in 1..(h - 1) /\ h - (c + 1) \in 1..h
          /\ (h - (c + 1)) + l + 1 - h = l - c
      BY <1>0, <1>4, <3>2, <3>4
    <3>6. q[h - (c + 1)] = rev[l - c]
      BY <1>3, <3>5
    <3> QED BY <3>1, <3>2, <3>4, <3>5, <3>6
  <2> QED BY <2>1, <2>2
<1>7. Notes(q, ws)
  BY <1>1, <1>4, <1>5, <1>6 DEF Notes, h
<1> QED BY <1>3, <1>7 DEF q, ws

KeyOf(x) == <<x.text, x.start, x.end>>

\* The deduplicator knows the last RepeatWindow segments that were sent, and
\* no two of those between which it remembers are the same.
Remembers(recent, s) ==
  /\ Len(recent) = Least(Len(s), RepeatWindow)
  /\ \A k \in 1..Len(recent) :
       /\ k + Len(s) - Len(recent) \in 1..Len(s)
       /\ recent[k] = KeyOf(s[k + Len(s) - Len(recent)])
Apart(s) ==
  \A i, j \in 1..Len(s) : i < j /\ s[i] = s[j] => j - i > RepeatWindow

LEMMA RememberOne ==
  ASSUME NEW recent \in Seq(Keys), NEW s \in Seq(Shown), NEW x \in Shown,
         Remembers(recent, s)
  PROVE  /\ Push(recent, KeyOf(x), RepeatWindow) \in Seq(Keys)
         /\ Remembers(Push(recent, KeyOf(x), RepeatWindow), Append(s, x))
<1> DEFINE n == Len(s)
           t == Append(s, x)
           m == Len(recent)
           q == Push(recent, KeyOf(x), RepeatWindow)
           h == Len(q)
           W == RepeatWindow
<1>1. /\ n \in Nat /\ m \in Nat /\ W \in Nat \ {0} /\ m = Least(n, W)
      /\ KeyOf(x) \in Keys
  BY StabilizerAssumption DEF Remembers, KeyOf, Keys, Shown
<1>2. Len(t) = n + 1 /\ t[n + 1] = x /\ \A i \in 1..n : t[i] = s[i]
  OBVIOUS
<1>3. m <= W
  BY <1>1 DEF Least
<1>4. Pushed(q, recent, KeyOf(x), W, Keys)
  BY <1>1, <1>3, PushFacts
<1> HIDE DEF t, q
<1>5. /\ q \in Seq(Keys) /\ h = Least(m + 1, W) /\ h >= 1 /\ q[h] = KeyOf(x)
      /\ \A k \in 1..(h - 1) : /\ k + m + 1 - h \in 1..m
                               /\ q[k] = recent[k + m + 1 - h]
  BY <1>4 DEF Pushed
<1>6. \A k \in 1..m : k + n - m \in 1..n /\ recent[k] = KeyOf(s[k + n - m])
  BY DEF Remembers
<1> HIDE DEF n, m, h, W
<1>7. h \in Nat /\ h = Least(n + 1, W)
  BY <1>1, <1>5 DEF Least
<1>8. ASSUME NEW k \in 1..h
      PROVE  /\ k + (n + 1) - h \in 1..(n + 1)
             /\ q[k] = KeyOf(t[k + (n + 1) - h])
  <2>1. CASE k = h
    BY <1>1, <1>2, <1>5, <1>7, <2>1
  <2>2. CASE k # h
    <3>1. k \in 1..(h - 1)
      BY <1>7, <2>2
    <3> DEFINE y == k + m + 1 - h
    <3>2. y \in 1..m /\ q[k] = recent[y]
      BY <1>5, <3>1
    <3>3. y + n - m = k + (n + 1) - h
      BY <1>1, <1>7
    <3> HIDE DEF y
    <3>4. y + n - m \in 1..n /\ recent[y] = KeyOf(s[y + n - m])
      BY <1>6, <3>2
    <3>5. k + (n + 1) - h \in 1..n /\ q[k] = KeyOf(s[k + (n + 1) - h])
      BY <3>2, <3>3, <3>4
    <3>6. k + (n + 1) - h \in 1..(n + 1)
      BY <1>1, <3>5
    <3> QED BY <1>2, <3>5, <3>6
  <2> QED BY <2>1, <2>2
<1>9. Remembers(q, t)
  BY <1>2, <1>7, <1>8 DEF Remembers, h, W
<1> QED BY <1>5, <1>9 DEF q, t, W

LEMMA ApartStays ==
  ASSUME NEW recent \in Seq(Keys), NEW s \in Seq(Shown), NEW x \in Shown,
         Remembers(recent, s), Apart(s), ~Contains(recent, KeyOf(x))
  PROVE  Apart(Append(s, x))
<1> DEFINE n == Len(s)
           t == Append(s, x)
           m == Len(recent)
           W == RepeatWindow
<1>1. /\ n \in Nat /\ m \in Nat /\ W \in Nat \ {0} /\ m = Least(n, W)
  BY StabilizerAssumption DEF Remembers
<1>2. Len(t) = n + 1 /\ t[n + 1] = x /\ \A i \in 1..n : t[i] = s[i]
  OBVIOUS
<1> HIDE DEF t
<1>3. \A k \in 1..m : recent[k] = KeyOf(s[k + n - m])
  BY DEF Remembers
<1>4. \A k \in 1..m : recent[k] # KeyOf(x)
  BY DEF Contains
<1> HIDE DEF n, m, W
<1>5. ASSUME NEW i \in 1..n, s[i] = x PROVE (n + 1) - i > W
  <2> SUFFICES ASSUME (n + 1) - i <= W PROVE FALSE
    BY <1>1
  <2>1. i - n + m \in 1..m /\ (i - n + m) + n - m = i
    BY <1>1 DEF Least
  <2>2. recent[i - n + m] = KeyOf(s[i])
    BY <1>3, <2>1
  <2> QED BY <1>4, <1>5, <2>1, <2>2
<1>6. ASSUME NEW i \in 1..(n + 1), NEW j \in 1..(n + 1), i < j, t[i] = t[j]
      PROVE  j - i > W
  <2>1. i \in 1..n
    BY <1>1, <1>6
  <2>2. CASE j = n + 1
    BY <1>2, <1>5, <1>6, <2>1, <2>2
  <2>3. CASE j \in 1..n
    BY <1>2, <1>6, <2>1, <2>3 DEF Apart, n, W
  <2> QED BY <1>1, <2>2, <2>3
<1>7. Apart(t)
  BY <1>2, <1>6 DEF Apart, W
<1> QED BY <1>7 DEF t

\* Whether the stabilizer has seen a text is what the history says of it.
LEMMA SeenIff ==
  ASSUME NEW st \in Session, NEW vs \in Seq(Verdict), NEW w \in Words,
         Waits(st.pending, st.turn, vs), Notes(st.reviewed, vs)
  PROVE  SeenBefore(st, w) <=>
           \E i \in 1..Len(vs) :
             /\ vs[i].text = w
             /\ \/ Open(vs, i) /\ st.turn - vs[i].turn <= MaxPendingAge
                \/ vs[i].action = "review" /\ Since(vs, i) < PendingWindow
<1> DEFINE p == st.pending
           r == st.reviewed
           n == Len(vs)
<1>1. p \in Seq(Item) /\ r \in Seq(Words) /\ DOMAIN p = 1..Len(p)
      /\ Len(r) \in Nat /\ PendingWindow \in Nat
  BY StabilizerAssumption DEF Session
<1>2. ASSUME NEW i \in 1..Len(p), p[i].text = w
      PROVE  \E k \in 1..n :
               /\ vs[k].text = w
               /\ Open(vs, k) /\ st.turn - vs[k].turn <= MaxPendingAge
  <2>1. PICK k \in 1..n :
          Open(vs, k) /\ vs[k].text = p[i].text /\ vs[k].turn = p[i].turn
    BY Zenon DEF Waits
  <2>2. st.turn - p[i].turn <= MaxPendingAge
    BY DEF Waits
  <2> QED BY <1>2, <2>1, <2>2
<1>3. ASSUME NEW m \in 1..Len(r), r[m] = w
      PROVE  \E k \in 1..n :
               /\ vs[k].text = w
               /\ vs[k].action = "review" /\ Since(vs, k) < PendingWindow
  <2>1. PICK k \in 1..n : /\ vs[k].action = "review" /\ vs[k].text = r[m]
                          /\ Since(vs, k) = Len(r) - m
    BY DEF Notes
  <2>2. Len(r) - m < PendingWindow
    BY <1>1 DEF Notes
  <2> QED BY <1>3, <2>1, <2>2
<1>4. ASSUME NEW k \in 1..n, vs[k].text = w, Open(vs, k),
             st.turn - vs[k].turn <= MaxPendingAge
      PROVE  \E i \in 1..Len(p) : p[i].text = w
  BY <1>4 DEF Waits
<1>5. ASSUME NEW k \in 1..n, vs[k].text = w, vs[k].action = "review",
             Since(vs, k) < PendingWindow
      PROVE  Contains(r, w)
  BY <1>5 DEF Notes, Contains
<1>6. SeenBefore(st, w) <=> \/ \E i \in 1..Len(p) : p[i].text = w
                            \/ \E m \in 1..Len(r) : r[m] = w
  BY <1>1, Zenon DEF SeenBefore, Contains
<1>7. Contains(r, w) <=> \E m \in 1..Len(r) : r[m] = w
  BY Zenon DEF Contains
<1> HIDE DEF p, r, n
<1>8. SeenBefore(st, w) =>
        \E i \in 1..n :
          /\ vs[i].text = w
          /\ \/ Open(vs, i) /\ st.turn - vs[i].turn <= MaxPendingAge
             \/ vs[i].action = "review" /\ Since(vs, i) < PendingWindow
  BY <1>2, <1>3, <1>6, Zenon
<1>9. ASSUME NEW i \in 1..n, vs[i].text = w,
             \/ Open(vs, i) /\ st.turn - vs[i].turn <= MaxPendingAge
             \/ vs[i].action = "review" /\ Since(vs, i) < PendingWindow
      PROVE  SeenBefore(st, w)
  BY <1>4, <1>5, <1>6, <1>7, <1>9, Zenon
<1> QED BY <1>8, <1>9, Zenon DEF n

\* A verdict is about what came before it, whatever comes after.
LEMMA HeardAppend ==
  ASSUME NEW vs \in Seq(Verdict), NEW v \in Verdict
  PROVE  LET n == Len(vs)
             ws == Append(vs, v) IN
         /\ \A j \in 1..n : HeardBefore(ws, j) <=> HeardBefore(vs, j)
         /\ HeardBefore(ws, n + 1) <=>
              \E i \in 1..n :
                /\ vs[i].text = v.text
                /\ \/ Open(vs, i) /\ v.turn - vs[i].turn <= MaxPendingAge
                   \/ vs[i].action = "review" /\ Since(vs, i) < PendingWindow
<1> DEFINE n == Len(vs)
           ws == Append(vs, v)
<1>1. /\ n \in Nat /\ Len(ws) = n + 1 /\ ws[n + 1] = v
      /\ \A k \in 1..n : ws[k] = vs[k]
  BY OpenAppend
<1> HIDE DEF ws
<1>2. ASSUME NEW j \in 1..n, NEW i \in 1..(j - 1)
      PROVE  /\ ws[i] = vs[i] /\ ws[j] = vs[j]
             /\ StillHeld(ws, i, j) <=> StillHeld(vs, i, j)
             /\ StillReviewed(ws, i, j) <=> StillReviewed(vs, i, j)
  <2>1. i \in 1..n /\ \A k \in (i + 1)..(j - 1) : k \in 1..n
    BY <1>1
  <2>2. ws[i] = vs[i] /\ ws[j] = vs[j]
        /\ \A k \in (i + 1)..(j - 1) : ws[k] = vs[k]
    BY <1>1, <2>1
  <2>3. Reviews(ws, i + 1, j - 1) = Reviews(vs, i + 1, j - 1)
    BY <2>2, Zenon DEF Reviews
  <2> QED BY <2>2, <2>3, Zenon DEF StillHeld, StillReviewed
<1>3. ASSUME NEW j \in 1..n PROVE HeardBefore(ws, j) <=> HeardBefore(vs, j)
  BY <1>2, Zenon DEF HeardBefore
<1>4. ASSUME NEW i \in 1..n, vs[i].text = v.text
      PROVE  /\ StillHeld(ws, i, n + 1) <=>
                  Open(vs, i) /\ v.turn - vs[i].turn <= MaxPendingAge
             /\ StillReviewed(ws, i, n + 1) <=>
                  vs[i].action = "review" /\ Since(vs, i) < PendingWindow
  <2>1. (n + 1) - 1 = n /\ \A k \in (i + 1)..n : k \in 1..n
    BY <1>1
  <2>2. ws[i] = vs[i] /\ \A k \in (i + 1)..n : ws[k] = vs[k]
    BY <1>1, <2>1
  <2>3. Reviews(ws, i + 1, n) = Reviews(vs, i + 1, n)
    BY <2>2, Zenon DEF Reviews
  <2>4. StillReviewed(ws, i, n + 1) <=>
          vs[i].action = "review" /\ Since(vs, i) < PendingWindow
    BY <2>1, <2>2, <2>3 DEF StillReviewed, Since
  <2>5. StillHeld(ws, i, n + 1) <=>
          /\ vs[i].action = "hold" /\ v.turn - vs[i].turn <= MaxPendingAge
          /\ \A k \in (i + 1)..n :
               vs[k].text = v.text => vs[k].action = "hold"
    BY <1>1, <2>1, <2>2 DEF StillHeld
  <2>6. Open(vs, i) <=>
          /\ vs[i].action = "hold"
          /\ \A k \in (i + 1)..n :
               vs[k].text = v.text => vs[k].action = "hold"
    BY <1>4, Zenon DEF Open
  <2> QED BY <2>4, <2>5, <2>6
<1>5. HeardBefore(ws, n + 1) <=>
        \E i \in 1..n :
          /\ vs[i].text = v.text
          /\ \/ Open(vs, i) /\ v.turn - vs[i].turn <= MaxPendingAge
             \/ vs[i].action = "review" /\ Since(vs, i) < PendingWindow
  <2>1. HeardBefore(ws, n + 1) <=>
          \E i \in 1..n :
            /\ vs[i].text = v.text
            /\ StillHeld(ws, i, n + 1) \/ StillReviewed(ws, i, n + 1)
    <3>1. (n + 1) - 1 = n
      BY <1>1
    <3> QED BY <1>1, <3>1, Zenon DEF HeardBefore
  <2> QED BY <1>4, <2>1, Zenon
<1> QED BY <1>3, <1>5 DEF ws

Decided(vs) ==
  \A j \in 1..Len(vs) :
    vs[j].weak => (vs[j].action # "hold" <=> HeardBefore(vs, j))

LEMMA DecidedStays ==
  ASSUME NEW st \in Session, NEW vs \in Seq(Verdict), NEW v \in Verdict,
         Waits(st.pending, st.turn, vs), Notes(st.reviewed, vs),
         Decided(vs), v.turn = st.turn, v.text \in Words,
         v.weak => (v.action # "hold" <=> SeenBefore(st, v.text))
  PROVE  Decided(Append(vs, v))
<1> DEFINE n == Len(vs)
           ws == Append(vs, v)
<1>1. /\ n \in Nat /\ Len(ws) = n + 1 /\ ws[n + 1] = v
      /\ \A k \in 1..n : ws[k] = vs[k]
  BY OpenAppend
<1>2. \A j \in 1..n : HeardBefore(ws, j) <=> HeardBefore(vs, j)
  BY HeardAppend
<1>3. HeardBefore(ws, n + 1) <=>
        \E i \in 1..n :
          /\ vs[i].text = v.text
          /\ \/ Open(vs, i) /\ v.turn - vs[i].turn <= MaxPendingAge
             \/ vs[i].action = "review" /\ Since(vs, i) < PendingWindow
  BY HeardAppend
<1> HIDE DEF ws
<1>4. HeardBefore(ws, n + 1) <=> SeenBefore(st, v.text)
  BY <1>3, SeenIff
<1>5. \A j \in 1..(n + 1) : j \in 1..n \/ j = n + 1
  BY <1>1
<1>6. Decided(ws)
  <2> SUFFICES ASSUME NEW j \in 1..(n + 1), ws[j].weak
               PROVE  ws[j].action # "hold" <=> HeardBefore(ws, j)
    BY <1>1 DEF Decided
  <2>1. CASE j = n + 1
    BY <1>1, <1>4, <2>1
  <2>2. CASE j \in 1..n
    <3>1. ws[j] = vs[j] /\ vs[j].weak
      BY <1>1, <2>2
    <3>2. vs[j].action # "hold" <=> HeardBefore(vs, j)
      BY <2>2, <3>1 DEF Decided
    <3>3. HeardBefore(ws, j) <=> HeardBefore(vs, j)
      BY <1>2, <2>2
    <3> QED BY <3>1, <3>2, <3>3, Zenon
  <2> QED BY <1>5, <2>1, <2>2
<1> QED BY <1>6 DEF ws

\* To be seen before never lowers the score of a completed segment.
LEMMA ScoreFacts ==
  ASSUME NEW t \in Texts
  PROVE  /\ Score(Known[t], TRUE, FALSE) \in Int
         /\ Score(Known[t], TRUE, TRUE) \in Int
         /\ Score(Known[t], TRUE, FALSE) <= Score(Known[t], TRUE, TRUE)
BY SegmentPathAssumption, StabilizerAssumption DEF Score

\* The pending items never overflow their deque, for one text at most is held
\* in a turn.
Fits == MaxPendingAge < PendingWindow

\* What is true of what the stabilizer remembers, of what was sent and of the
\* verdicts; a has the three.
Sound(a) ==
  /\ a.state \in Session /\ a.sent \in Seq(Shown) /\ a.verdicts \in Seq(Verdict)
  /\ Remembers(a.state.recent, a.sent) /\ Apart(a.sent)
  /\ \A k \in 1..Len(a.verdicts) : a.verdicts[k].turn <= a.state.turn
  /\ Notes(a.state.reviewed, a.verdicts)
  /\ Fits => /\ Waits(a.state.pending, a.state.turn, a.verdicts)
             /\ Decided(a.verdicts)

LEMMA NextTurnFacts ==
  ASSUME NEW old \in Session, NEW vs \in Seq(Verdict)
  PROVE  /\ NextTurn(old) \in Session
         /\ NextTurn(old).turn = old.turn + 1
         /\ NextTurn(old).recent = old.recent
         /\ NextTurn(old).reviewed = old.reviewed
         /\ Waits(old.pending, old.turn, vs) =>
              /\ Waits(NextTurn(old).pending, old.turn + 1, vs)
              /\ \A i \in 1..Len(NextTurn(old).pending) :
                   NextTurn(old).pending[i].turn < old.turn + 1
<1> DEFINE p == old.pending
           P == {i \in 1..Len(p) : (old.turn + 1) - p[i].turn <= MaxPendingAge}
           e == ElementsAt(p, P)
<1>1. /\ p \in Seq(Item) /\ DOMAIN p = 1..Len(p) /\ old.turn \in Nat
      /\ old.recent \in Seq(Keys) /\ old.reviewed \in Seq(Words)
  BY DEF Session
<1>2. /\ e \in Seq(Item)
      /\ Waits(p, old.turn, vs) =>
           /\ Waits(e, old.turn + 1, vs)
           /\ \A i \in 1..Len(e) : e[i].turn < old.turn + 1
  <2>1. P \in SUBSET (1..Len(p))
    OBVIOUS
  <2>2. Collected(e, p, Item, P)
    BY <1>1, <2>1, ElementsFacts
  <2>3. e \in Seq(Item)
    BY <2>2 DEF Collected
  <2>4. ASSUME Waits(p, old.turn, vs)
        PROVE  /\ Waits(e, old.turn + 1, vs)
               /\ \A i \in 1..Len(e) : e[i].turn < old.turn + 1
    BY <1>1, <2>1, <2>4, ExpireKeeps
  <2> QED BY <2>3, <2>4
<1>3. NextTurn(old) = [turn |-> old.turn + 1, recent |-> old.recent,
                       reviewed |-> old.reviewed, pending |-> e]
  <2> DEFINE s == [old EXCEPT !.turn = @ + 1]
  <2>1. s = [turn |-> old.turn + 1, recent |-> old.recent,
             reviewed |-> old.reviewed, pending |-> p]
    <3>1. PICK x \in Nat, y \in Seq(Keys), z \in Seq(Words), u \in Seq(Item) :
            old = [turn |-> x, recent |-> y, reviewed |-> z, pending |-> u]
      BY DEF Session
    <3>2. s = [turn |-> x + 1, recent |-> y, reviewed |-> z, pending |-> u]
      BY <3>1
    <3>3. /\ old.turn = x /\ old.recent = y /\ old.reviewed = z
          /\ old.pending = u
      BY <3>1
    <3> QED BY <3>2, <3>3
  <2>2. P = {i \in DOMAIN p : Fresh(s, p[i])}
    BY <1>1, <2>1 DEF Fresh
  <2>3. NextTurn(old) =
          [s EXCEPT !.pending = ElementsAt(s.pending,
             {i \in DOMAIN s.pending : Fresh(s, s.pending[i])})]
    BY DEF NextTurn
  <2> HIDE DEF s, P
  <2>4. s.pending = p
    BY <2>1
  <2>5. NextTurn(old) = [s EXCEPT !.pending = e]
    BY <2>2, <2>3, <2>4
  <2> HIDE DEF e, p
  <2> QED BY <2>1, <2>5
<1> HIDE DEF e, P
<1>4. NextTurn(old) \in Session
  BY <1>1, <1>2, <1>3 DEF Session
<1> QED BY <1>2, <1>3, <1>4

\* The segment as it is sent, and what one call makes of it all.
Collapsed(seg) == [seg EXCEPT !.text = Says(seg)]
SentOn(a, b, seg) ==
  /\ Sound(b)
  /\ \/ b.sent = a.sent
     \/ seg.completed /\ b.sent = Append(a.sent, Collapsed(seg))
  /\ seg.completed /\ Strong(seg) => Collapsed(seg) \in ToSet(b.sent)

LEMMA SaidFacts ==
  ASSUME NEW seg \in Said
  PROVE  /\ Says(seg) \in Words
         /\ Collapsed(seg) = [text |-> Says(seg), start |-> seg.start,
                              end |-> seg.end, completed |-> seg.completed]
         /\ seg.completed => Collapsed(seg) \in Shown
         /\ KeyOf(Collapsed(seg)) = SegmentKey(seg)
<1>1. PICK t \in Texts, s \in Nat, e \in Nat, c \in BOOLEAN :
        seg = [text |-> t, start |-> s, end |-> e, completed |-> c]
  BY DEF Said
<1>2. Says(seg) = Known[t].says /\ Says(seg) \in Words
  BY <1>1 DEF Says, Words
<1> DEFINE w == Says(seg)
<1> HIDE DEF w
<1>3. Collapsed(seg) = [text |-> w, start |-> s, end |-> e, completed |-> c]
  BY <1>1 DEF Collapsed, w
<1>4. seg.start = s /\ seg.end = e /\ seg.completed = c
  BY <1>1
<1>5. seg.completed => Collapsed(seg) \in Shown
  BY <1>2, <1>3, <1>4 DEF Shown, w
<1>6. KeyOf(Collapsed(seg)) = <<w, s, e>> /\ SegmentKey(seg) = <<w, s, e>>
  BY <1>3, <1>4 DEF KeyOf, SegmentKey, w
<1> QED BY <1>2, <1>3, <1>4, <1>5, <1>6 DEF w

\* A segment that comes again was sent as it is.
LEMMA DuplicateWasSent ==
  ASSUME NEW recent \in Seq(Keys), NEW s \in Seq(Shown), Remembers(recent, s),
         NEW seg \in Said, seg.completed, Contains(recent, SegmentKey(seg))
  PROVE  Collapsed(seg) \in ToSet(s)
<1>1. PICK k \in 1..Len(recent) : recent[k] = SegmentKey(seg)
  BY DEF Contains
<1> DEFINE i == k + Len(s) - Len(recent)
<1>2. i \in 1..Len(s) /\ recent[k] = KeyOf(s[i])
  BY DEF Remembers
<1> HIDE DEF i
<1>3. s[i] \in Shown /\ i \in DOMAIN s
  BY <1>2
<1>4. PICK t \in Words, b \in Nat, e \in Nat :
        s[i] = [text |-> t, start |-> b, end |-> e, completed |-> TRUE]
  BY <1>3 DEF Shown
<1>5. KeyOf(s[i]) = <<t, b, e>>
  BY <1>4 DEF KeyOf
<1>6. <<t, b, e>> = <<Says(seg), seg.start, seg.end>>
  BY <1>1, <1>2, <1>5 DEF SegmentKey
<1>7. t = Says(seg) /\ b = seg.start /\ e = seg.end
  BY <1>6
<1>8. seg.completed = TRUE
  BY DEF Said
<1>9. s[i] = Collapsed(seg)
  BY <1>4, <1>7, <1>8, SaidFacts
<1> QED BY <1>3, <1>9 DEF ToSet

LEMMA TurnAdvances ==
  ASSUME NEW a, Sound(a)
  PROVE  Sound([state |-> NextTurn(a.state), sent |-> a.sent,
                verdicts |-> a.verdicts])
<1> DEFINE st == NextTurn(a.state)
<1>1. /\ a.state \in Session /\ a.verdicts \in Seq(Verdict)
      /\ Fits => Waits(a.state.pending, a.state.turn, a.verdicts)
  BY DEF Sound
<1>2. /\ st \in Session /\ st.turn = a.state.turn + 1
      /\ st.recent = a.state.recent /\ st.reviewed = a.state.reviewed
      /\ Fits => Waits(st.pending, st.turn, a.verdicts)
  BY <1>1, NextTurnFacts
<1> HIDE DEF st
<1>3. \A k \in 1..Len(a.verdicts) : a.verdicts[k].turn <= st.turn
  <2>1. a.state.turn \in Nat
    BY <1>1 DEF Session
  <2>2. \A k \in 1..Len(a.verdicts) : a.verdicts[k] \in Verdict
    BY <1>1
  <2>3. \A k \in 1..Len(a.verdicts) :
          a.verdicts[k].turn \in Nat /\ a.verdicts[k].turn <= a.state.turn
    BY <2>2 DEF Sound, Verdict
  <2> QED BY <1>2, <2>1, <2>3
<1>4. Sound([state |-> st, sent |-> a.sent, verdicts |-> a.verdicts])
  BY <1>2, <1>3 DEF Sound
<1> QED BY <1>4 DEF st

\* The turns of the verdicts, when one of this turn is added.
LEMMA TurnsStay ==
  ASSUME NEW turn \in Nat, NEW vs \in Seq(Verdict), NEW v \in Verdict,
         \A k \in 1..Len(vs) : vs[k].turn <= turn, v.turn = turn
  PROVE  \A k \in 1..Len(Append(vs, v)) : Append(vs, v)[k].turn <= turn
<1>1. /\ Len(vs) \in Nat /\ Len(Append(vs, v)) = Len(vs) + 1
      /\ Append(vs, v)[Len(vs) + 1] = v
      /\ \A k \in 1..Len(vs) : Append(vs, v)[k] = vs[k]
  OBVIOUS
<1> QED BY <1>1

LEMMA WithoutRest ==
  ASSUME NEW st \in Session, NEW vs, NEW w, Waits(st.pending, st.turn, vs)
  PROVE  Rest(Without(st, w), st.pending, w)
<1> DEFINE p == st.pending
           P == {i \in 1..Len(p) : p[i].text # w}
<1>1. p \in Seq(Item) /\ DOMAIN p = 1..Len(p)
  BY DEF Session
<1>2. \A i, j \in 1..Len(p) : i < j => p[i].turn < p[j].turn
  BY DEF Waits
<1>3. Without(st, w) = ElementsAt(p, P)
  BY <1>1 DEF Without
<1>4. P \in SUBSET (1..Len(p))
  OBVIOUS
<1> HIDE DEF p
<1>5. Rest(ElementsAt(p, P), p, w)
  BY <1>1, <1>2, <1>4, WithoutFacts
<1> HIDE DEF P
<1> QED BY <1>3, <1>5 DEF p

LEMMA WithoutType ==
  ASSUME NEW st \in Session, NEW w
  PROVE  Without(st, w) \in Seq(Item)
<1> DEFINE p == st.pending
           P == {i \in DOMAIN p : p[i].text # w}
<1>1. p \in Seq(Item) /\ P \in SUBSET (1..Len(p))
  BY DEF Session
<1>2. Without(st, w) = ElementsAt(p, P)
  BY DEF Without
<1> HIDE DEF p, P
<1>3. Collected(ElementsAt(p, P), p, Item, P)
  BY <1>1, ElementsFacts
<1> QED BY <1>2, <1>3 DEF Collected

LEMMA HoldAdvances ==
  ASSUME NEW st, NEW s, NEW vs,
         Sound([state |-> st, sent |-> s, verdicts |-> vs]),
         Fits => \A i \in 1..Len(st.pending) : st.pending[i].turn < st.turn,
         NEW v \in Verdict, v.action = "hold", v.turn = st.turn,
         v.weak => ~SeenBefore(st, v.text)
  PROVE  Sound([state |-> HoldPending(st, v.text), sent |-> s,
                verdicts |-> Append(vs, v)])
<1> DEFINE w == v.text
           p == st.pending
           e == Without(st, w)
           item == [text |-> w, turn |-> st.turn]
           q == Push(e, item, PendingWindow)
           new == HoldPending(st, w)
<1>1. /\ st \in Session /\ s \in Seq(Shown) /\ vs \in Seq(Verdict)
      /\ Remembers(st.recent, s) /\ Apart(s)
      /\ \A k \in 1..Len(vs) : vs[k].turn <= st.turn
      /\ Notes(st.reviewed, vs)
      /\ Fits => Waits(p, st.turn, vs) /\ Decided(vs)
  BY DEF Sound
<1>2. /\ p \in Seq(Item) /\ st.turn \in Nat /\ w \in Words /\ item \in Item
      /\ st.reviewed \in Seq(Words) /\ st.recent \in Seq(Keys)
  BY <1>1 DEF Session, Verdict, Item
<1>3. q \in Seq(Item)
  <2>1. e \in Seq(Item)
    BY <1>1, WithoutType
  <2>2. Append(e, item) \in Seq(Item) /\ Append(e, item) # <<>>
    BY <1>2, <2>1
  <2> HIDE DEF e, item
  <2> QED BY <2>2, HeadTailProperties DEF Push
<1>4. ASSUME Fits PROVE Len(e) + 1 <= PendingWindow /\ Rest(e, p, w)
  <2>1. Rest(e, p, w)
    BY <1>1, <1>4, WithoutRest
  <2>2. e \in Seq(Item) /\ Len(e) \in Nat
        /\ \A i, j \in 1..Len(e) : i < j => e[i].turn < e[j].turn
    BY <2>1 DEF Rest
  <2>3. \A i \in 1..Len(e) : /\ e[i].turn < st.turn
                             /\ st.turn - e[i].turn <= MaxPendingAge
    BY <1>1, <1>4, <2>1 DEF Rest, Waits
  <2>4. Len(e) <= MaxPendingAge
    BY <1>2, <2>2, <2>3, PendingFew
  <2> QED BY <1>4, <2>1, <2>2, <2>4, StabilizerAssumption DEF Fits
<1>5. ASSUME Fits PROVE q = Append(e, item)
  <2>1. e \in Seq(Item) /\ Len(e) \in Nat
    BY <1>4, <1>5 DEF Rest
  <2>2. Len(Append(e, item)) = Len(e) + 1
    BY <1>2, <2>1
  <2>3. ~(Len(Append(e, item)) > PendingWindow)
    BY <1>4, <1>5, <2>1, <2>2, StabilizerAssumption
  <2> QED BY <2>3 DEF Push
<1>6. ASSUME Fits PROVE Waits(q, st.turn, Append(vs, v))
  <2>1. Waits(Append(e, item), st.turn, Append(vs, v))
    BY <1>1, <1>2, <1>4, <1>6, HeldWaits
  <2> HIDE DEF q
  <2> QED BY <1>5, <1>6, <2>1
<1>7. /\ Notes(st.reviewed, Append(vs, v))
      /\ Fits => Decided(Append(vs, v))
      /\ Append(vs, v) \in Seq(Verdict)
  <2>1. Notes(st.reviewed, Append(vs, v)) /\ Append(vs, v) \in Seq(Verdict)
    BY <1>1, <1>2, NotesStay
  <2>2. ASSUME Fits PROVE Decided(Append(vs, v))
    BY <1>1, <1>2, <2>2, DecidedStays
  <2> QED BY <2>1, <2>2
<1>8. \A k \in 1..Len(Append(vs, v)) : Append(vs, v)[k].turn <= st.turn
  BY <1>1, <1>2, TurnsStay
<1> HIDE DEF w, e, q, item
<1>9. new = [st EXCEPT !.pending = q]
  BY DEF HoldPending, q, item, e, w
<1> HIDE DEF new, p
<1>10. /\ new \in Session /\ new.turn = st.turn /\ new.recent = st.recent
       /\ new.reviewed = st.reviewed /\ new.pending = q
  BY <1>1, <1>2, <1>3, <1>9 DEF Session
<1>11. Sound([state |-> new, sent |-> s, verdicts |-> Append(vs, v)])
  BY <1>1, <1>6, <1>7, <1>8, <1>10 DEF Sound
<1> QED BY <1>11 DEF new, w

LEMMA PassAdvances ==
  ASSUME NEW st, NEW s, NEW vs,
         Sound([state |-> st, sent |-> s, verdicts |-> vs]),
         NEW seg \in Said, seg.completed,
         ~Contains(st.recent, SegmentKey(seg)),
         NEW v \in Verdict, v.action # "hold", v.turn = st.turn,
         v.text = Says(seg), v.weak => SeenBefore(st, v.text),
         NEW score, score < EmitThreshold <=> v.action = "review"
  PROVE  Sound([state |-> Pass(st, seg, score),
                sent |-> Append(s, Collapsed(seg)),
                verdicts |-> Append(vs, v)])
<1> DEFINE w == v.text
           p == st.pending
           e == Without(st, w)
           x == Collapsed(seg)
           recent == Push(st.recent, SegmentKey(seg), RepeatWindow)
           reviewed == IF score < EmitThreshold
                         THEN Push(st.reviewed, w, PendingWindow)
                         ELSE st.reviewed
           new == Pass(st, seg, score)
<1>1. /\ st \in Session /\ s \in Seq(Shown) /\ vs \in Seq(Verdict)
      /\ Remembers(st.recent, s) /\ Apart(s)
      /\ \A k \in 1..Len(vs) : vs[k].turn <= st.turn
      /\ Notes(st.reviewed, vs)
      /\ Fits => Waits(p, st.turn, vs) /\ Decided(vs)
  BY DEF Sound
<1>2. /\ p \in Seq(Item) /\ st.turn \in Nat /\ w \in Words
      /\ st.reviewed \in Seq(Words) /\ st.recent \in Seq(Keys)
  BY <1>1 DEF Session, Verdict
<1>3. x \in Shown /\ KeyOf(x) = SegmentKey(seg)
  BY SaidFacts
<1>4. e \in Seq(Item)
  BY <1>1, WithoutType
<1>5. ASSUME Fits PROVE Waits(e, st.turn, Append(vs, v))
  <2>1. Rest(e, p, w)
    BY <1>1, <1>5, WithoutRest
  <2> QED BY <1>1, <1>2, <1>5, <2>1, PassedWaits
<1>6. recent \in Seq(Keys) /\ Remembers(recent, Append(s, x))
  BY <1>1, <1>2, <1>3, RememberOne
<1>7. Apart(Append(s, x)) /\ Append(s, x) \in Seq(Shown)
  <2>1. Apart(Append(s, x))
    BY <1>1, <1>2, <1>3, ApartStays
  <2> QED BY <1>1, <1>3, <2>1
<1>8. reviewed \in Seq(Words) /\ Notes(reviewed, Append(vs, v))
  <2>1. CASE v.action = "review"
    BY <1>1, <1>2, <2>1, NotesGrow
  <2>2. CASE v.action # "review"
    BY <1>1, <1>2, <2>2, NotesStay
  <2> QED BY <2>1, <2>2
<1>9. (Fits => Decided(Append(vs, v))) /\ Append(vs, v) \in Seq(Verdict)
  <2>1. ASSUME Fits PROVE Decided(Append(vs, v))
    BY <1>1, <1>2, <2>1, DecidedStays
  <2> QED BY <1>1, <2>1
<1>10. \A k \in 1..Len(Append(vs, v)) : Append(vs, v)[k].turn <= st.turn
  BY <1>1, <1>2, TurnsStay
<1> HIDE DEF w, e, x, recent, reviewed
<1>11. new = [st EXCEPT !.recent = recent, !.pending = e,
                        !.reviewed = reviewed]
  BY DEF Pass, recent, reviewed, e, w
<1> HIDE DEF new, p
<1>12. /\ new \in Session /\ new.turn = st.turn /\ new.recent = recent
       /\ new.reviewed = reviewed /\ new.pending = e
  BY <1>1, <1>2, <1>4, <1>6, <1>8, <1>11 DEF Session
<1>13. Sound([state |-> new, sent |-> Append(s, x),
              verdicts |-> Append(vs, v)])
  BY <1>5, <1>6, <1>7, <1>8, <1>9, <1>10, <1>12 DEF Sound
<1> QED BY <1>13 DEF new, x

\* One segment on its way to the client.
LEMMA SentFacts ==
  ASSUME NEW a, Sound(a), NEW seg \in Said
  PROVE  SentOn(a, Sent(a, seg), seg)
<1> DEFINE st == NextTurn(a.state)
           w == Says(seg)
           seen == SeenBefore(st, w)
           score == Score(Known[seg.text], seg.completed, seen)
           B == Stabilized(a.state, seg)
           v == [turn |-> B.state.turn, text |-> w, action |-> B.action,
                 weak |-> Weak(seg)]
           b == Sent(a, seg)
           s == a.sent
           vs == a.verdicts
           x == Collapsed(seg)
<1>1. Sound([state |-> st, sent |-> s, verdicts |-> vs])
  BY TurnAdvances
<1>2. /\ st \in Session /\ s \in Seq(Shown) /\ vs \in Seq(Verdict)
      /\ Remembers(st.recent, s)
  BY <1>1 DEF Sound
<1>3. Fits => \A i \in 1..Len(st.pending) : st.pending[i].turn < st.turn
  <2>1. /\ a.state \in Session /\ a.verdicts \in Seq(Verdict)
        /\ Fits => Waits(a.state.pending, a.state.turn, a.verdicts)
    BY DEF Sound
  <2> QED BY <2>1, NextTurnFacts
<1>4. seg.text \in Texts /\ w \in Words /\ seg.completed \in BOOLEAN
  BY SaidFacts DEF Said
<1>5. b = [state |-> B.state,
           sent |-> s \o (IF seg.completed THEN B.out ELSE <<>>),
           verdicts |-> IF seg.completed /\ B.action # "drop"
                          THEN Append(vs, v) ELSE vs]
  BY DEF Sent
<1>6. B = IF Dropped(st, seg) THEN [state |-> st, out |-> <<>>, action |-> "drop"]
          ELSE IF score < ReviewThreshold
            THEN [state |-> IF seg.completed THEN HoldPending(st, w) ELSE st,
                  out |-> <<>>, action |-> "hold"]
            ELSE [state |-> IF seg.completed THEN Pass(st, seg, score) ELSE st,
                  out |-> <<x>>,
                  action |-> IF score < EmitThreshold THEN "review" ELSE "emit"]
  BY DEF Stabilized, Collapsed
<1>7. s \o <<>> = s
  BY <1>2, ConcatEmptySeq
<1> DEFINE first == Score(Known[seg.text], TRUE, FALSE)
           again == Score(Known[seg.text], TRUE, TRUE)
<1>8. /\ first \in Int /\ again \in Int /\ first <= again
      /\ ReviewThreshold \in Int
      /\ Weak(seg) <=> first < ReviewThreshold /\ again >= ReviewThreshold
      /\ Strong(seg) => first >= ReviewThreshold
  <2>1. first \in Int /\ again \in Int /\ first <= again
    BY <1>4, ScoreFacts, Zenon
  <2>2. ReviewThreshold \in Int
    BY StabilizerAssumption
  <2>3. /\ Weak(seg) <=> first < ReviewThreshold /\ again >= ReviewThreshold
        /\ Strong(seg) => first >= ReviewThreshold
    BY Zenon DEF Weak, Strong
  <2> QED BY <2>1, <2>2, <2>3
<1>9. seg.completed =>
        /\ seen => score = again
        /\ ~seen => score = first
  <2>1. seen \in BOOLEAN
    BY DEF SeenBefore
  <2> HIDE DEF seen
  <2> QED BY <1>4, <2>1, Zenon
<1>10. Weak(seg) \in BOOLEAN /\ Strong(seg) \in BOOLEAN
  BY DEF Weak, Strong
<1>11. st.turn \in Nat
  BY <1>2 DEF Session
<1> HIDE DEF st, w, seen, score, B, b, s, vs, x, first, again
<1>12. CASE Dropped(st, seg)
  <2>1. b = [state |-> st, sent |-> s, verdicts |-> vs]
    BY <1>5, <1>6, <1>7, <1>12
  <2>2. ASSUME seg.completed, Strong(seg) PROVE x \in ToSet(b.sent)
    <3>1. Duplicate(st, seg)
      BY <1>12, <2>2 DEF Dropped, Strong, IsMediaHallucination,
                         IsDegenerateRepetition, IsShortPhrase
    <3>2. Contains(st.recent, SegmentKey(seg)) /\ st.recent \in Seq(Keys)
      BY <1>2, <3>1 DEF Duplicate, Session
    <3> QED BY <1>2, <2>1, <2>2, <3>2, DuplicateWasSent DEF x
  <2> QED BY <1>1, <2>1, <2>2 DEF SentOn, b, s, x
<1>13. CASE ~Dropped(st, seg) /\ ~seg.completed
  <2>1. b = [state |-> st, sent |-> s, verdicts |-> vs]
    BY <1>5, <1>6, <1>7, <1>13
  <2> QED BY <1>1, <1>13, <2>1 DEF SentOn, b, s, x
<1>14. CASE ~Dropped(st, seg) /\ seg.completed /\ score < ReviewThreshold
  <2>1. /\ B.state = HoldPending(st, w) /\ B.out = <<>> /\ B.action = "hold"
        /\ HoldPending(st, w).turn = st.turn
    BY <1>2, <1>6, <1>14 DEF HoldPending, Session
  <2>2. b = [state |-> HoldPending(st, w), sent |-> s,
             verdicts |-> Append(vs, v)]
    BY <1>5, <1>7, <1>14, <2>1
  <2>3. /\ v \in Verdict /\ v.action = "hold" /\ v.turn = st.turn
        /\ v.text = w /\ v.weak = Weak(seg)
    BY <1>4, <1>10, <1>11, <2>1 DEF Verdict
  <2>4. ASSUME Weak(seg) PROVE ~seen
    BY <1>8, <1>9, <1>14, <2>4
  <2>5. ~Strong(seg)
    <3>1. score = again \/ score = first
      BY <1>9, <1>14
    <3> QED BY <1>8, <1>14, <3>1
  <2> HIDE DEF v
  <2>6. v.weak => ~SeenBefore(st, v.text)
    BY <2>3, <2>4 DEF seen
  <2>7. Sound([state |-> HoldPending(st, v.text), sent |-> s,
               verdicts |-> Append(vs, v)])
    BY <1>1, <1>3, <2>3, <2>6, HoldAdvances
  <2>8. Sound(b)
    BY <2>2, <2>3, <2>7
  <2> QED BY <2>2, <2>5, <2>8 DEF SentOn, b, s, x
<1>15. CASE ~Dropped(st, seg) /\ seg.completed /\ ~(score < ReviewThreshold)
  <2>1. /\ B.state = Pass(st, seg, score) /\ B.out = <<x>>
        /\ B.action = IF score < EmitThreshold THEN "review" ELSE "emit"
        /\ Pass(st, seg, score).turn = st.turn
    BY <1>2, <1>6, <1>15 DEF Pass, Session
  <2>2. x \in Shown
    BY <1>15, SaidFacts DEF x
  <2>3. s \o <<x>> = Append(s, x)
    BY <1>2, <2>2
  <2>4. b = [state |-> Pass(st, seg, score), sent |-> Append(s, x),
             verdicts |-> Append(vs, v)]
    BY <1>5, <1>15, <2>1, <2>3
  <2>5. /\ v \in Verdict /\ v.action # "hold" /\ v.turn = st.turn
        /\ v.text = w /\ v.weak = Weak(seg)
        /\ score < EmitThreshold <=> v.action = "review"
    BY <1>4, <1>10, <1>11, <2>1 DEF Verdict
  <2>6. ASSUME Weak(seg) PROVE seen
    BY <1>8, <1>9, <1>15, <2>6
  <2>7. ~Contains(st.recent, SegmentKey(seg))
    BY <1>15 DEF Dropped, Duplicate
  <2> HIDE DEF v
  <2>8. v.weak => SeenBefore(st, v.text)
    BY <2>5, <2>6 DEF seen
  <2>9. Sound([state |-> Pass(st, seg, score), sent |-> Append(s, x),
               verdicts |-> Append(vs, v)])
    BY <1>1, <1>15, <2>5, <2>7, <2>8, PassAdvances DEF x, w
  <2>10. x \in ToSet(Append(s, x))
    <3>1. Len(s) + 1 \in DOMAIN Append(s, x) /\ Append(s, x)[Len(s) + 1] = x
      BY <1>2, <2>2
    <3> QED BY <3>1 DEF ToSet
  <2> QED BY <1>15, <2>4, <2>9, <2>10 DEF SentOn, b, s, x
<1> QED BY <1>4, <1>12, <1>13, <1>14, <1>15 DEF b

-----------------------------------------------------------------------------
(* SegmentPath: send_transcription_to_client, a fold over the segments *)

AllSent(a, msg) == FoldLeft(Sent, a, msg)

LEMMA MaxUpTo ==
  ASSUME NEW m \in Nat, NEW T \in SUBSET (1..m), T # {}
  PROVE  Max(T) \in T /\ \A x \in T : x <= Max(T)
<1>1. T \in SUBSET (0..m)
  OBVIOUS
<1> QED BY <1>1, MinMaxOf

\* A fold over the numbers up to m of what is sent.
Folds(f, t, msg, m) ==
  f = [T \in SUBSET (1..m) |->
         IF T = {} THEN t ELSE Sent(f[T \ {Max(T)}], msg[Max(T)])]

LEMMA FoldExists ==
  ASSUME NEW m \in Nat, NEW t, NEW msg
  PROVE  \E f : Folds(f, t, msg, m)
<1> DEFINE G == {k \in 0..m : \E f : Folds(f, t, msg, k)}
<1>1. 0 \in G
  <2>1. Folds([T \in SUBSET (1..0) |-> t], t, msg, 0)
    BY DEF Folds
  <2> QED BY <2>1
<1>2. ASSUME NEW k \in 0..(m - 1), k \in G PROVE k + 1 \in G
  <2>1. PICK f : Folds(f, t, msg, k)
    BY <1>2
  <2> DEFINE g == [T \in SUBSET (1..(k + 1)) |->
                     IF k + 1 \in T THEN Sent(f[T \ {k + 1}], msg[k + 1])
                     ELSE f[T]]
  <2>2. ASSUME NEW T \in SUBSET (1..(k + 1))
        PROVE  g[T] = IF T = {} THEN t
                      ELSE Sent(g[T \ {Max(T)}], msg[Max(T)])
    <3>1. CASE k + 1 \in T
      <4>1. Max(T) = k + 1
        <5>1. k + 1 \in Nat /\ Max(T) \in T /\ k + 1 <= Max(T)
          BY <3>1, MaxUpTo
        <5>2. \A x \in T : x \in Nat /\ x <= k + 1
          OBVIOUS
        <5>3. Max(T) \in Nat /\ Max(T) <= k + 1
          BY <5>1, <5>2
        <5> QED BY <5>1, <5>3
      <4>2. T \ {k + 1} \in SUBSET (1..(k + 1)) /\ k + 1 \notin T \ {k + 1}
        OBVIOUS
      <4>3. g[T \ {k + 1}] = f[T \ {k + 1}]
        BY <4>2
      <4>4. g[T] = Sent(f[T \ {k + 1}], msg[k + 1])
        BY <3>1
      <4> QED BY <3>1, <4>1, <4>3, <4>4
    <3>2. CASE k + 1 \notin T
      <4>1. T \in SUBSET (1..k) /\ g[T] = f[T]
        BY <3>2
      <4>2. f[T] = IF T = {} THEN t
                   ELSE Sent(f[T \ {Max(T)}], msg[Max(T)])
        BY <2>1, <4>1 DEF Folds
      <4>3. /\ T \ {Max(T)} \in SUBSET (1..(k + 1))
            /\ k + 1 \notin T \ {Max(T)}
        BY <3>2
      <4>4. g[T \ {Max(T)}] = f[T \ {Max(T)}]
        BY <4>3
      <4> QED BY <4>1, <4>2, <4>4
    <3> QED BY <3>1, <3>2
  <2>3. g = [T \in SUBSET (1..(k + 1)) |->
               IF T = {} THEN t ELSE Sent(g[T \ {Max(T)}], msg[Max(T)])]
    BY <2>2
  <2> HIDE DEF g
  <2>4. Folds(g, t, msg, k + 1)
    BY <2>3, Zenon DEF Folds
  <2>5. k + 1 \in 0..m
    OBVIOUS
  <2> QED BY <2>4, <2>5
<1>3. m \in G
  <2> HIDE DEF G
  <2> QED BY <1>1, <1>2, UpTo
<1> QED BY <1>3

\* The fold, step by step.
Steps(u, t, msg, m) ==
  /\ u[0] = t
  /\ \A k \in 1..m : u[k] = Sent(u[k - 1], msg[k])
  /\ AllSent(t, msg) = u[m]

LEMMA SendSteps ==
  ASSUME NEW m \in Nat, NEW t, NEW msg, DOMAIN msg = 1..m
  PROVE  \E u : Steps(u, t, msg, m)
<1> DEFINE f == CHOOSE g : Folds(g, t, msg, m)
           P(g) == g = [T \in SUBSET (DOMAIN msg) |->
                      IF T = {} THEN t
                      ELSE Sent(g[T \ {Max(T)}], msg[Max(T)])]
<1>1. Folds(f, t, msg, m)
  BY FoldExists
<1>2. AllSent(t, msg) = (CHOOSE g : P(g))[DOMAIN msg]
  BY Zenon DEF AllSent, FoldLeft, MapThenFoldSet
<1>3. ASSUME NEW g PROVE P(g) <=> Folds(g, t, msg, m)
  BY DEF Folds
<1>4. AllSent(t, msg) = f[1..m]
  <2>1. (CHOOSE g : P(g)) = f
    <3> HIDE DEF P
    <3> QED BY <1>3
  <2> QED BY <1>2, <2>1
<1> HIDE DEF f
<1> DEFINE u == [k \in 0..m |-> f[1..k]]
<1>5. u[0] = t
  <2>1. 1..0 = {} /\ {} \in SUBSET (1..m)
    OBVIOUS
  <2>2. f[{}] = t
    BY <1>1, <2>1 DEF Folds
  <2> QED BY <2>1, <2>2
<1>6. ASSUME NEW k \in 1..m PROVE u[k] = Sent(u[k - 1], msg[k])
  <2>1. 1..k \in SUBSET (1..m) /\ 1..k # {} /\ k \in 1..k /\ k \in Nat
    OBVIOUS
  <2>2. Max(1..k) = k
    <3>1. Max(1..k) \in 1..k /\ k <= Max(1..k)
      BY <2>1, MaxUpTo
    <3> QED BY <3>1
  <2>3. (1..k) \ {k} = 1..(k - 1)
    OBVIOUS
  <2>4. f[1..k] = Sent(f[1..(k - 1)], msg[k])
    BY <1>1, <2>1, <2>2, <2>3 DEF Folds
  <2> QED BY <2>4
<1>7. u[m] = f[1..m]
  OBVIOUS
<1> HIDE DEF u
<1>8. Steps(u, t, msg, m)
  BY <1>4, <1>5, <1>6, <1>7 DEF Steps
<1> QED BY <1>8

\* Every segment of a message is handled soundly, one after the other.
LEMMA SendAdvances ==
  ASSUME NEW a, Sound(a), NEW msg \in Seq(Said)
  PROVE  \E u : /\ u[0] = a
                /\ \A k \in 0..Len(msg) : Sound(u[k])
                /\ \A k \in 1..Len(msg) : SentOn(u[k - 1], u[k], msg[k])
                /\ AllSent(a, msg) = u[Len(msg)]
<1> DEFINE m == Len(msg)
<1>1. m \in Nat /\ DOMAIN msg = 1..m /\ \A k \in 1..m : msg[k] \in Said
  OBVIOUS
<1> HIDE DEF m
<1>2. PICK u : Steps(u, a, msg, m)
  BY <1>1, SendSteps
<1>3. /\ u[0] = a /\ AllSent(a, msg) = u[m]
      /\ \A k \in 1..m : u[k] = Sent(u[k - 1], msg[k])
  BY <1>2 DEF Steps
<1> DEFINE G == {k \in 0..m : Sound(u[k])}
<1>4. 0 \in G
  BY <1>1, <1>3
<1>5. ASSUME NEW k \in 0..(m - 1), k \in G PROVE k + 1 \in G
  <2>1. k + 1 \in 1..m /\ k + 1 \in 0..m /\ (k + 1) - 1 = k
    BY <1>1
  <2>2. u[k + 1] = Sent(u[k], msg[k + 1]) /\ msg[k + 1] \in Said
    BY <1>1, <1>3, <2>1
  <2>3. Sound(u[k])
    BY <1>5
  <2>4. Sound(u[k + 1])
    BY <2>2, <2>3, SentFacts DEF SentOn
  <2> QED BY <2>1, <2>4
<1>6. \A k \in 0..m : k \in G
  <2> HIDE DEF G
  <2> QED BY <1>1, <1>4, <1>5, UpTo
<1>7. ASSUME NEW k \in 1..m PROVE SentOn(u[k - 1], u[k], msg[k])
  <2>1. k - 1 \in 0..m
    BY <1>1
  <2>2. Sound(u[k - 1]) /\ msg[k] \in Said /\ u[k] = Sent(u[k - 1], msg[k])
    BY <1>1, <1>3, <1>6, <2>1
  <2> QED BY <2>2, SentFacts
<1> QED BY <1>3, <1>6, <1>7 DEF m

\* Nothing that was sent is taken back, and what is clear is sent.
Delivers(a, b, msg) ==
  /\ Sound(b)
  /\ \A x \in ToSet(a.sent) : x \in ToSet(b.sent)
  /\ \A i \in 1..Len(msg) :
       msg[i].completed /\ Strong(msg[i]) => Collapsed(msg[i]) \in ToSet(b.sent)

LEMMA SendFacts ==
  ASSUME NEW a, Sound(a), NEW msg \in Seq(Said)
  PROVE  Delivers(a, AllSent(a, msg), msg)
<1> DEFINE m == Len(msg)
<1>1. m \in Nat
  OBVIOUS
<1>2. PICK u : /\ u[0] = a
               /\ \A k \in 0..m : Sound(u[k])
               /\ \A k \in 1..m : SentOn(u[k - 1], u[k], msg[k])
               /\ AllSent(a, msg) = u[m]
  BY SendAdvances
<1> HIDE DEF m
<1> DEFINE G == {k \in 0..m :
                   /\ \A x \in ToSet(a.sent) : x \in ToSet(u[k].sent)
                   /\ \A i \in 1..k : msg[i].completed /\ Strong(msg[i]) =>
                        Collapsed(msg[i]) \in ToSet(u[k].sent)}
<1>3. 0 \in G
  BY <1>1, <1>2
<1>4. ASSUME NEW k \in 0..(m - 1), k \in G PROVE k + 1 \in G
  <2> DEFINE s == u[k].sent
             t == u[k + 1].sent
             x == Collapsed(msg[k + 1])
  <2>1. k + 1 \in 1..m /\ k + 1 \in 0..m /\ (k + 1) - 1 = k /\ k \in 0..m
    BY <1>1
  <2>2. SentOn(u[k], u[k + 1], msg[k + 1]) /\ Sound(u[k])
    BY <1>2, <2>1
  <2>3. /\ t = s \/ t = Append(s, x)
        /\ msg[k + 1].completed /\ Strong(msg[k + 1]) => x \in ToSet(t)
        /\ s \in Seq(Shown)
    BY <2>2 DEF SentOn, Sound
  <2>4. \A y \in ToSet(s) : y \in ToSet(t)
    <3> HIDE DEF s, t, x
    <3>1. CASE t = s
      BY <3>1
    <3>2. CASE t = Append(s, x)
      <4>1. \A i \in 1..Len(s) : i \in 1..Len(t) /\ t[i] = s[i]
        BY <2>3, <3>2
      <4>2. DOMAIN s = 1..Len(s) /\ DOMAIN t = 1..Len(t)
        BY <2>3, <3>2
      <4> QED BY <4>1, <4>2 DEF ToSet
    <3> QED BY <2>3, <3>1, <3>2
  <2>5. /\ \A y \in ToSet(a.sent) : y \in ToSet(s)
        /\ \A i \in 1..k : msg[i].completed /\ Strong(msg[i]) =>
             Collapsed(msg[i]) \in ToSet(s)
    BY <1>4
  <2>6. \A i \in 1..(k + 1) : i \in 1..k \/ i = k + 1
    BY <2>1
  <2> HIDE DEF s, t
  <2>7. /\ \A y \in ToSet(a.sent) : y \in ToSet(t)
        /\ \A i \in 1..(k + 1) : msg[i].completed /\ Strong(msg[i]) =>
             Collapsed(msg[i]) \in ToSet(t)
    BY <2>3, <2>4, <2>5, <2>6
  <2> QED BY <2>1, <2>7 DEF t
<1>5. m \in G
  <2> HIDE DEF G
  <2>1. \A k \in 0..m : k \in G
    BY <1>1, <1>3, <1>4, UpTo
  <2> QED BY <1>1, <2>1
<1>6. m \in 0..m
  BY <1>1
<1> QED BY <1>2, <1>5, <1>6 DEF Delivers, m

\* What was sent lies behind t and differs.
Behind(s, t) ==
  /\ \A i \in 1..Len(s) : s[i].start < s[i].end /\ s[i].end <= t
  /\ \A i, j \in 1..Len(s) : i < j => s[i] # s[j]

\* The completed segments of a message lie from lo to hi, one after the other.
Orderly(msg, lo, hi) ==
  /\ \A i \in 1..Len(msg) : msg[i].completed =>
       /\ lo <= msg[i].start /\ msg[i].start < msg[i].end
       /\ msg[i].end <= hi
  /\ \A i, j \in 1..Len(msg) :
       i < j /\ msg[i].completed /\ msg[j].completed =>
         msg[i].end <= msg[j].start

LEMMA BehindStays ==
  ASSUME NEW s \in Seq(Shown), NEW lo \in Nat, Behind(s, lo),
         NEW x \in Shown, lo <= x.start, x.start < x.end,
         NEW hi \in Nat, x.end <= hi
  PROVE  Behind(Append(s, x), hi)
<1> DEFINE t == Append(s, x)
<1>1. /\ Len(t) = Len(s) + 1 /\ Len(s) \in Nat /\ t[Len(s) + 1] = x
      /\ \A i \in 1..Len(s) : t[i] = s[i] /\ s[i] \in Shown
  OBVIOUS
<1> HIDE DEF t
<1>2. /\ x.start \in Nat /\ x.end \in Nat
      /\ \A i \in 1..Len(s) : s[i].start \in Nat /\ s[i].end \in Nat
  BY <1>1 DEF Shown
<1>3. \A i \in 1..Len(s) : s[i].start < s[i].end /\ s[i].end <= lo
  BY DEF Behind
<1>4. \A i \in 1..Len(t) : i \in 1..Len(s) \/ i = Len(s) + 1
  BY <1>1
<1>5. ASSUME NEW i \in 1..Len(t) PROVE t[i].start < t[i].end /\ t[i].end <= hi
  <2>1. CASE i \in 1..Len(s)
    <3>1. t[i] = s[i] /\ s[i].end <= lo /\ lo <= hi
      BY <1>1, <1>2, <1>3, <2>1
    <3> QED BY <1>2, <1>3, <2>1, <3>1
  <2>2. CASE i = Len(s) + 1
    BY <1>1, <2>2
  <2> QED BY <1>4, <2>1, <2>2
<1>6. \A i \in 1..Len(s) : s[i] # x
  <2> SUFFICES ASSUME NEW i \in 1..Len(s), s[i] = x PROVE FALSE
    OBVIOUS
  <2>1. x.end <= lo
    BY <1>3
  <2> QED BY <1>2, <2>1
<1>7. ASSUME NEW i \in 1..Len(t), NEW j \in 1..Len(t), i < j
      PROVE  t[i] # t[j]
  <2>1. i \in 1..Len(s)
    BY <1>1, <1>7
  <2>2. CASE j \in 1..Len(s)
    BY <1>1, <1>7, <2>1, <2>2 DEF Behind
  <2>3. CASE j = Len(s) + 1
    BY <1>1, <1>6, <2>1, <2>3
  <2> QED BY <1>4, <2>2, <2>3
<1>8. Behind(t, hi)
  BY <1>5, <1>7 DEF Behind
<1> QED BY <1>8 DEF t

LEMMA BehindLater ==
  ASSUME NEW s \in Seq(Shown), NEW lo \in Nat, NEW hi \in Nat,
         Behind(s, lo), lo <= hi
  PROVE  Behind(s, hi)
<1>1. \A i \in 1..Len(s) : s[i].end \in Nat
  <2>1. \A i \in 1..Len(s) : s[i] \in Shown
    OBVIOUS
  <2> QED BY <2>1 DEF Shown
<1> QED BY <1>1 DEF Behind

LEMMA SendOrdered ==
  ASSUME NEW a, Sound(a), NEW msg \in Seq(Said), NEW lo \in Nat, NEW hi \in Nat,
         Behind(a.sent, lo), Orderly(msg, lo, hi), lo <= hi
  PROVE  Behind(AllSent(a, msg).sent, hi)
<1> DEFINE m == Len(msg)
<1>1. /\ m \in Nat
      /\ \A k \in 1..m : msg[k] \in Said /\ msg[k].start \in Nat
                         /\ msg[k].end \in Nat /\ msg[k].completed \in BOOLEAN
  <2>1. \A k \in 1..m : msg[k] \in Said
    OBVIOUS
  <2> QED BY <2>1 DEF Said
<1>2. PICK u : /\ u[0] = a
               /\ \A k \in 0..m : Sound(u[k])
               /\ \A k \in 1..m : SentOn(u[k - 1], u[k], msg[k])
               /\ AllSent(a, msg) = u[m]
  BY SendAdvances
<1>3. /\ \A i \in 1..m : msg[i].completed =>
           lo <= msg[i].start /\ msg[i].start < msg[i].end /\ msg[i].end <= hi
      /\ \A i, j \in 1..m : i < j /\ msg[i].completed /\ msg[j].completed =>
           msg[i].end <= msg[j].start
  BY DEF Orderly
<1> HIDE DEF m
<1> DEFINE Until(k, t) ==
             lo <= t /\ \A i \in 1..k : msg[i].completed => msg[i].end <= t
           G == {k \in 0..m : \A t \in Nat : Until(k, t) => Behind(u[k].sent, t)}
<1>4. 0 \in G
  <2>1. ASSUME NEW t \in Nat, lo <= t PROVE Behind(u[0].sent, t)
    <3>1. a.sent \in Seq(Shown)
      BY DEF Sound
    <3> QED BY <1>2, <2>1, <3>1, BehindLater
  <2> QED BY <1>1, <2>1
<1>5. ASSUME NEW k \in 0..(m - 1), k \in G PROVE k + 1 \in G
  <2> DEFINE s == u[k].sent
             seg == msg[k + 1]
             x == Collapsed(seg)
  <2>1. k + 1 \in 1..m /\ k + 1 \in 0..m /\ (k + 1) - 1 = k /\ k \in 0..m
    BY <1>1
  <2>2. SentOn(u[k], u[k + 1], seg) /\ Sound(u[k])
    BY <1>2, <2>1
  <2>3. /\ u[k + 1].sent = s \/ (seg.completed /\ u[k + 1].sent = Append(s, x))
        /\ s \in Seq(Shown)
    BY <2>2 DEF SentOn, Sound
  <2>4. \A t \in Nat : Until(k, t) => Behind(s, t)
    BY <1>5
  <2>5. \A i \in 1..k : i \in 1..(k + 1) /\ i \in 1..m /\ i < k + 1
    BY <1>1
  <2>6. ASSUME NEW t \in Nat, Until(k + 1, t) PROVE Behind(u[k + 1].sent, t)
    <3>1. CASE u[k + 1].sent = s
      <4>1. Until(k, t)
        BY <2>5, <2>6
      <4> QED BY <2>4, <3>1, <4>1
    <3>2. CASE seg.completed /\ u[k + 1].sent = Append(s, x)
      <4>1. /\ seg \in Said /\ seg.start \in Nat /\ seg.start < seg.end
            /\ seg.end <= t /\ lo <= seg.start
        BY <1>1, <1>3, <2>1, <2>6, <3>2
      <4>2. Until(k, seg.start)
        BY <1>3, <2>1, <2>5, <3>2, <4>1
      <4>3. Behind(s, seg.start)
        BY <2>4, <4>1, <4>2
      <4>4. x \in Shown /\ x.start = seg.start /\ x.end = seg.end
        BY <3>2, <4>1, SaidFacts
      <4> HIDE DEF s, seg, x
      <4> QED BY <2>3, <3>2, <4>1, <4>3, <4>4, BehindStays
    <3> QED BY <2>3, <3>1, <3>2
  <2> HIDE DEF Until
  <2> QED BY <2>1, <2>6
<1>6. m \in G
  <2> HIDE DEF G
  <2>1. \A k \in 0..m : k \in G
    BY <1>1, <1>4, <1>5, UpTo
  <2> QED BY <1>1, <2>1
<1>7. Until(m, hi)
  BY <1>3
<1>8. Behind(u[m].sent, hi)
  <2> HIDE DEF Until
  <2> QED BY <1>6, <1>7
<1> QED BY <1>2, <1>8

-----------------------------------------------------------------------------
(* SegmentPath: what is sent of a result, and where it lies *)

Told == [text : Texts, start : Nat, end : Nat, completed : {TRUE}]

\* The pieces of a result follow each other.
InLine(r) ==
  /\ \A i \in 1..Len(r) : r[i].start = i - 1 /\ r[i].end >= 1
  /\ \A i \in 1..(Len(r) - 1) : r[i].end = i

LEMMA ResultLine ==
  ASSUME duration \in Nat, NEW r \in Results
  PROVE  InLine(r) /\ duration >= 1
<1>1. PICK said \in SeqOf(Texts, Least(MaxSegments, duration)) \ {<<>>},
           over \in 0..1 :
        r = [i \in DOMAIN said |->
               [text |-> said[i], start |-> i - 1,
                end |-> IF i = Len(said) THEN i + over ELSE i]]
  BY DEF Results
<1>2. PICK m \in 0..Least(MaxSegments, duration) : said \in [1..m -> Texts]
  BY DEF SeqOf
<1>3. m \in Nat /\ m <= duration /\ m # 0
  <2>1. m \in Nat /\ m <= duration
    BY SegmentPathAssumption DEF Least
  <2>2. m # 0
    <3> SUFFICES ASSUME m = 0 PROVE FALSE
      OBVIOUS
    <3>1. said = <<>>
      BY <1>2
    <3> QED BY <1>1, <3>1
  <2> QED BY <2>1, <2>2
<1>4. Len(r) = m /\ Len(said) = m /\ DOMAIN said = 1..m
  <2>1. DOMAIN said = 1..m /\ Len(said) = m
    BY <1>2, <1>3
  <2>2. \A i \in 1..m :
          [text |-> said[i], start |-> i - 1,
           end |-> IF i = Len(said) THEN i + over ELSE i] \in Piece
    <3>1. \A i \in 1..m : said[i] \in Texts /\ i - 1 \in Nat
                          /\ i \in Nat /\ i + over \in Nat
      BY <1>2, <1>3
    <3> QED BY <3>1 DEF Piece
  <2>3. r \in [1..m -> Piece]
    BY <1>1, <2>1, <2>2
  <2> QED BY <1>3, <2>1, <2>3
<1>5. \A i \in 1..m :
        /\ r[i].start = i - 1
        /\ r[i].end = IF i = m THEN i + over ELSE i
  BY <1>1, <1>4
<1>6. \A i \in 1..m : r[i].start = i - 1 /\ r[i].end >= 1
  BY <1>3, <1>5
<1>7. \A i \in 1..(m - 1) : r[i].end = i
  <2>1. \A i \in 1..(m - 1) : i \in 1..m /\ i # m
    BY <1>3
  <2> QED BY <1>5, <2>1
<1> QED BY <1>3, <1>4, <1>6, <1>7 DEF InLine

\* So do those that are kept, each with the end that is used.
KeptInLine(k) ==
  /\ k \in Seq(Piece) /\ Len(k) \in Nat
  /\ \A i \in 1..Len(k) : /\ k[i] \in Piece /\ k[i].start \in Nat
                          /\ End(k[i]) \in 0..duration
                          /\ k[i].start < End(k[i])
  /\ \A i, j \in 1..Len(k) : i < j => End(k[i]) <= k[j].start

LEMMA KeptLine ==
  ASSUME duration \in Nat, NEW r \in Results
  PROVE  KeptInLine(Kept(r))
<1> DEFINE P == {i \in DOMAIN Complete(r) :
                   r[i].start < End(r[i]) /\ ~Silent(r[i])}
           k == Kept(r)
<1>1. /\ r \in Seq(Piece) /\ Len(r) \in Nat
      /\ \A i \in 1..Len(r) : r[i] \in Piece
  BY ResultFacts
<1>2. P \in SUBSET (1..Len(r)) /\ \A i \in P : r[i].start < End(r[i])
  BY CompleteFacts
<1>3. k = ElementsAt(r, P)
  BY DEF Kept
<1> HIDE DEF P, k
<1>4. Collected(k, r, Piece, P)
  BY <1>1, <1>2, <1>3, ElementsFacts
<1>5. k \in Seq(Piece) /\ Len(k) \in Nat
  BY <1>4 DEF Collected
<1>6. PICK o \in [1..Len(k) -> P] :
        /\ \A i \in 1..Len(k) : k[i] = r[o[i]]
        /\ \A i, j \in 1..Len(k) : i < j => o[i] < o[j]
  BY <1>4 DEF Collected
<1>7. /\ \A i \in 1..Len(r) : r[i].start = i - 1
      /\ \A i \in 1..(Len(r) - 1) : r[i].end = i
  BY ResultLine DEF InLine
<1>8. ASSUME NEW i \in 1..Len(k)
      PROVE  o[i] \in P /\ o[i] \in 1..Len(r) /\ k[i] = r[o[i]]
  <2>1. \A x \in P : x \in 1..Len(r)
    BY <1>2
  <2>2. o[i] \in P
    BY <1>6
  <2> QED BY <1>6, <2>1, <2>2
<1>9. ASSUME NEW i \in 1..Len(k)
      PROVE  /\ k[i] \in Piece /\ k[i].start \in Nat
             /\ End(k[i]) \in 0..duration /\ k[i].start < End(k[i])
  <2>1. k[i] \in Piece /\ k[i].start < End(k[i])
    BY <1>1, <1>2, <1>8
  <2> QED BY <2>1, EndFacts DEF Piece
<1>10. ASSUME NEW i \in 1..Len(k), NEW j \in 1..Len(k), i < j
       PROVE  End(k[i]) <= k[j].start
  <2>1. o[i] < o[j] /\ o[i] \in 1..Len(r) /\ o[j] \in 1..Len(r)
    BY <1>6, <1>8, <1>10
  <2>2. o[i] \in 1..(Len(r) - 1)
    BY <1>1, <2>1
  <2>3. k[i].end = o[i] /\ k[j].start = o[j] - 1
    BY <1>7, <1>8, <2>1, <2>2
  <2>4. End(k[i]) <= k[i].end
    <3>1. k[i].end \in Nat
      BY <1>9 DEF Piece
    <3> QED BY <3>1 DEF End, Least
  <2>5. End(k[i]) \in Int
    BY <1>9
  <2> QED BY <1>1, <2>1, <2>3, <2>4, <2>5
<1>11. KeptInLine(k)
  BY <1>5, <1>9, <1>10 DEF KeptInLine
<1> QED BY <1>11 DEF k

\* The segments of the kept pieces, in the time of the stream.
PlacedAll(k) == [i \in DOMAIN k |-> Placed(k[i], TRUE)]

LEMMA PlacedLine ==
  ASSUME duration \in Nat, anchor \in Nat, NEW k, KeptInLine(k)
  PROVE  /\ PlacedAll(k) \in Seq(Told)
         /\ Len(PlacedAll(k)) = Len(k)
         /\ k = <<>> => PlacedAll(k) = <<>>
         /\ Orderly(PlacedAll(k), anchor,
                    anchor + (IF k = <<>> THEN 0 ELSE End(Last(k))))
<1> DEFINE p == PlacedAll(k)
           n == Len(k)
           last == IF k = <<>> THEN 0 ELSE End(Last(k))
<1>1. /\ k \in Seq(Piece) /\ n \in Nat /\ DOMAIN k = 1..n
      /\ \A i \in 1..n : /\ k[i] \in Piece /\ k[i].start \in Nat
                         /\ End(k[i]) \in 0..duration
                         /\ k[i].start < End(k[i])
      /\ \A i, j \in 1..n : i < j => End(k[i]) <= k[j].start
  <2>1. k \in Seq(Piece) /\ n \in Nat
    BY Zenon DEF KeptInLine
  <2>2. DOMAIN k = 1..n
    BY <2>1
  <2>3. /\ \A i \in 1..n : /\ k[i] \in Piece /\ k[i].start \in Nat
                           /\ End(k[i]) \in 0..duration
                           /\ k[i].start < End(k[i])
        /\ \A i, j \in 1..n : i < j => End(k[i]) <= k[j].start
    BY Zenon DEF KeptInLine
  <2> QED BY <2>1, <2>2, <2>3
<1>2. p = [i \in 1..n |-> Placed(k[i], TRUE)]
  BY <1>1 DEF PlacedAll
<1>3. ASSUME NEW i \in 1..n
      PROVE  /\ p[i] \in Told
             /\ p[i].start = anchor + k[i].start
             /\ p[i].end = anchor + End(k[i])
  <2>1. End(k[i]) \in Nat /\ k[i].start \in Nat /\ k[i].text \in Texts
    BY <1>1 DEF Piece
  <2>2. p[i] = [start |-> anchor + k[i].start, end |-> anchor + End(k[i]),
                text |-> k[i].text, completed |-> TRUE]
    BY <1>2 DEF Placed
  <2>3. anchor + k[i].start \in Nat /\ anchor + End(k[i]) \in Nat
    BY <2>1
  <2> HIDE DEF p
  <2> QED BY <2>1, <2>2, <2>3 DEF Told
<1>4. p \in Seq(Told) /\ Len(p) = n
  <2>1. p \in [1..n -> Told]
    BY <1>2, <1>3
  <2> HIDE DEF p, n
  <2> QED BY <1>1, <2>1
<1>5. k = <<>> => p = <<>>
  BY <1>2
<1>6. n > 0 => k # <<>> /\ last = End(k[n])
  BY <1>1 DEF Last
<1> HIDE DEF p, n, last
<1>7. ASSUME NEW i \in 1..n PROVE End(k[i]) <= last /\ last \in Nat
  <2>1. n \in 1..n /\ last = End(k[n]) /\ End(k[n]) \in Nat
    BY <1>1, <1>6
  <2>2. CASE i = n
    BY <1>1, <2>1, <2>2
  <2>3. CASE i < n
    <3>1. End(k[i]) <= k[n].start /\ k[n].start < End(k[n])
      BY <1>1, <2>1, <2>3
    <3>2. End(k[i]) \in Nat /\ k[n].start \in Nat
      BY <1>1, <2>1
    <3> QED BY <2>1, <3>1, <3>2
  <2> QED BY <1>1, <2>2, <2>3
<1>8. ASSUME NEW i \in 1..n
      PROVE  /\ anchor <= p[i].start /\ p[i].start < p[i].end
             /\ p[i].end <= anchor + last
  <2>1. End(k[i]) \in Nat /\ k[i].start \in Nat /\ k[i].start < End(k[i])
    BY <1>1
  <2> QED BY <1>3, <1>7, <2>1
<1>9. ASSUME NEW i \in 1..n, NEW j \in 1..n, i < j
      PROVE  p[i].end <= p[j].start
  <2>1. End(k[i]) \in Nat /\ k[j].start \in Nat /\ End(k[i]) <= k[j].start
    BY <1>1, <1>9
  <2> QED BY <1>3, <2>1
<1>10. Orderly(p, anchor, anchor + last)
  BY <1>4, <1>8, <1>9 DEF Orderly
<1> QED BY <1>4, <1>5, <1>10 DEF p, n, last

LEMMA RepeatedFacts ==
  ASSUME PathTypes, sameEnd # 0, NEW r \in Results
  PROVE  /\ FirstEnd(r) # 0
         /\ Repeated(r) => /\ CurrentOut(r) \in Texts
                           /\ RepeatedEnd(r) \in 1..duration
<1>1. duration \in Nat
  BY DEF PathTypes, PathTypeOK
<1>2. /\ InLine(r) /\ duration >= 1 /\ r \in Seq(Piece) /\ Len(r) >= 1
      /\ Len(r) \in Nat /\ Last(r) \in Piece
  BY <1>1, ResultFacts, ResultLine
<1>3. Last(r).end \in Nat \ {0} /\ Last(r).text \in Texts
  <2>1. Last(r) = r[Len(r)] /\ Len(r) \in 1..Len(r)
    BY <1>2 DEF Last
  <2> QED BY <1>2, <2>1 DEF InLine, Piece
<1>4. FirstEnd(r) # 0 /\ (Same(r) => FirstEnd(r) \in Nat \ {0})
  BY <1>3 DEF FirstEnd, PathTypes, NoTime
<1>5. Repeated(r) => Same(r)
  BY SegmentPathAssumption DEF Repeated, Count
<1>6. Same(r) => CurrentOut(r) \in Texts
  BY <1>3 DEF Same, CurrentOut
<1>7. ASSUME Same(r) PROVE RepeatedEnd(r) \in 1..duration
  BY <1>1, <1>2, <1>4, <1>7 DEF RepeatedEnd, Least
<1> QED BY <1>4, <1>5, <1>6, <1>7

\* Only what was completed because it repeated, along with others, can start
\* before one of these ends, or end after the anchor's new place.
LEMMA AppendedFacts ==
  ASSUME PathTypes, sameEnd # 0, NEW r \in Results
  PROVE  /\ Appended(r) \in Seq(Told)
         /\ ~(Repeated(r) /\ Kept(r) # <<>>) =>
              Orderly(Appended(r), anchor, anchor + Offset(r))
<1> DEFINE k == Kept(r)
           p == PlacedAll(k)
           x == [start |-> anchor, end |-> anchor + RepeatedEnd(r),
                 text |-> CurrentOut(r), completed |-> TRUE]
           more == Repeated(r) /\ TextBefore(r) # CurrentOut(r)
<1>1. duration \in Nat /\ anchor \in Nat
  BY DEF PathTypes, PathTypeOK
<1>2. KeptInLine(k)
  BY <1>1, KeptLine
<1>3. /\ p \in Seq(Told) /\ Len(p) = Len(k) /\ (k = <<>> => p = <<>>)
      /\ Orderly(p, anchor, anchor + (IF k = <<>> THEN 0 ELSE End(Last(k))))
  <2> HIDE DEF k
  <2> QED BY <1>1, <1>2, PlacedLine
<1>4. Appended(r) = p \o (IF more THEN <<x>> ELSE <<>>)
  BY DEF Appended, PlacedAll
<1>5. ASSUME Repeated(r)
      PROVE  /\ x \in Told /\ x.start = anchor /\ x.completed
             /\ x.end = anchor + RepeatedEnd(r)
             /\ RepeatedEnd(r) \in 1..duration
  <2>1. CurrentOut(r) \in Texts /\ RepeatedEnd(r) \in 1..duration
    BY <1>5, RepeatedFacts
  <2>2. anchor + RepeatedEnd(r) \in Nat
    BY <1>1, <2>1
  <2> QED BY <1>1, <2>1, <2>2 DEF Told
<1>6. Offset(r) = IF Repeated(r) THEN RepeatedEnd(r)
                  ELSE IF k = <<>> THEN 0 ELSE End(Last(k))
  BY DEF Offset
<1> HIDE DEF p, x, k
<1>7. p \o <<>> = p
  BY <1>3, ConcatEmptySeq
<1>8. CASE ~Repeated(r)
  BY <1>3, <1>4, <1>6, <1>7, <1>8
<1>9. CASE Repeated(r) /\ ~more
  <2>1. Appended(r) = p /\ p \in Seq(Told)
    BY <1>3, <1>4, <1>7, <1>9
  <2>2. ASSUME k = <<>>
        PROVE  Orderly(p, anchor, anchor + Offset(r))
    <3>1. p = <<>>
      BY <1>3, <2>2
    <3> QED BY <3>1 DEF Orderly
  <2> QED BY <1>9, <2>1, <2>2 DEF k
<1>10. CASE Repeated(r) /\ more
  <2>1. Appended(r) = p \o <<x>> /\ x \in Told
    BY <1>4, <1>5, <1>10
  <2>2. Appended(r) \in Seq(Told)
    BY <1>3, <2>1
  <2>3. ASSUME k = <<>>
        PROVE  Orderly(Appended(r), anchor, anchor + Offset(r))
    <3>1. Appended(r) = <<x>>
      BY <1>3, <2>1, <2>3
    <3>2. Len(<<x>>) = 1 /\ <<x>>[1] = x
      OBVIOUS
    <3>3. \A i \in 1..1 : i = 1
      OBVIOUS
    <3>4. /\ anchor <= x.start /\ x.start < x.end
          /\ x.end <= anchor + Offset(r)
      BY <1>1, <1>5, <1>6, <1>10
    <3> QED BY <3>1, <3>2, <3>3, <3>4 DEF Orderly
  <2> QED BY <1>10, <2>2, <2>3 DEF k
<1> QED BY <1>8, <1>9, <1>10

\* What the transcript is when it is not cut, and what is new in it: all
\* that was appended, or its end.
LEMMA NewFacts ==
  ASSUME PathTypes, sameEnd # 0, NEW r \in Results,
         transcript \in Seq(Told), Len(transcript) <= MaxTranscript
  PROVE  /\ Trimmed(r) \in Seq(Told) /\ Len(Trimmed(r)) <= MaxTranscript
         /\ New(r) \in Seq(Told)
         /\ ~TooMany(r) => /\ Trimmed(r) = transcript \o Appended(r)
                           /\ New(r) = Appended(r)
         /\ ~(Repeated(r) /\ Kept(r) # <<>>) =>
              Orderly(New(r), anchor, anchor + Offset(r))
<1> DEFINE t == transcript
           a == Appended(r)
           c == t \o a
           m == MaxTranscript
           w == Trimmed(r)
           v == New(r)
           hi == anchor + Offset(r)
<1>1. t \in Seq(Told) /\ Len(t) \in Nat /\ m \in Nat /\ Len(t) <= m
  BY SegmentPathAssumption
<1>2. /\ a \in Seq(Told) /\ Len(a) \in Nat
      /\ ~(Repeated(r) /\ Kept(r) # <<>>) => Orderly(a, anchor, hi)
  BY AppendedFacts
<1>3. /\ TooMany(r) <=> Len(t) + Len(a) > m
      /\ w = IF TooMany(r) THEN SubSeq(c, Len(c) - m + 1, Len(c)) ELSE c
      /\ v = SubSeq(w, Len(t) + 1, Len(w))
  BY DEF TooMany, Trimmed, New
<1> HIDE DEF t, a, m, w, v, hi
<1>4. /\ c \in Seq(Told) /\ Len(c) = Len(t) + Len(a)
      /\ \A i \in 1..Len(c) : c[i] = IF i <= Len(t) THEN t[i] ELSE a[i - Len(t)]
  BY <1>1, <1>2
<1> HIDE DEF c
<1> DEFINE d == IF TooMany(r) THEN Len(t) + Len(a) - m ELSE 0
<1>5. /\ d \in 0..Len(a) /\ Len(c) - d <= m
      /\ ~TooMany(r) => d = 0
  BY <1>1, <1>2, <1>3, <1>4
<1>6. /\ w \in Seq(Told) /\ Len(w) = Len(c) - d
      /\ \A i \in 1..Len(w) : w[i] = c[d + i]
      /\ ~TooMany(r) => w = c
  <2>1. CASE ~TooMany(r)
    <3>1. w = c /\ d = 0 /\ Len(c) \in Nat
      BY <1>3, <1>4, <2>1
    <3> HIDE DEF d
    <3> QED BY <1>4, <3>1
  <2>2. CASE TooMany(r)
    <3>1. /\ w = SubSeq(c, d + 1, Len(c)) /\ d = Len(c) - m
          /\ d \in Nat /\ d <= Len(c) /\ Len(c) \in Nat
      BY <1>1, <1>2, <1>3, <1>4, <2>2
    <3> HIDE DEF d
    <3>2. /\ w \in Seq(Told) /\ Len(w) = Len(c) - d
          /\ \A i \in 1..Len(w) : w[i] = c[d + i]
      BY <1>4, <3>1
    <3> QED BY <2>2, <3>2
  <2> QED BY <2>1, <2>2
<1> HIDE DEF d
<1>7. /\ v \in Seq(Told) /\ Len(v) = Len(a) - d
      /\ \A i \in 1..Len(v) : d + i \in 1..Len(a) /\ v[i] = a[d + i]
  <2>1. /\ v \in Seq(Told) /\ Len(v) = Len(w) - Len(t)
        /\ \A i \in 1..Len(v) : v[i] = w[Len(t) + i]
    <3> DEFINE p == Len(t)
               q == Len(w)
    <3>1. p \in Nat /\ q \in Nat /\ p <= q
      BY <1>1, <1>2, <1>3, <1>4, <1>5, <1>6 DEF d
    <3>2. w \in Seq(Told) /\ q = Len(w) /\ v = SubSeq(w, p + 1, q)
      BY <1>3, <1>6
    <3> HIDE DEF p, q
    <3>3. /\ SubSeq(w, p + 1, q) \in Seq(Told) /\ Len(SubSeq(w, p + 1, q)) = q - p
          /\ \A i \in 1..(q - p) : SubSeq(w, p + 1, q)[i] = w[p + i]
      BY <3>1, <3>2
    <3>4. /\ v \in Seq(Told) /\ Len(v) = q - p
          /\ \A i \in 1..Len(v) : v[i] = w[p + i]
      BY <3>2, <3>3
    <3> QED BY <3>4 DEF p, q
  <2>2. Len(v) = Len(a) - d
    BY <1>1, <1>2, <1>4, <1>5, <1>6, <2>1
  <2>3. ASSUME NEW i \in 1..Len(v)
        PROVE  d + i \in 1..Len(a) /\ v[i] = a[d + i]
    <3>1. /\ Len(t) + i \in 1..Len(w) /\ d + i \in 1..Len(a)
          /\ d + (Len(t) + i) \in 1..Len(c) /\ d + (Len(t) + i) > Len(t)
          /\ d + (Len(t) + i) - Len(t) = d + i
      BY <1>1, <1>2, <1>4, <1>5, <1>6, <2>1, <2>2
    <3>2. v[i] = c[d + (Len(t) + i)]
      BY <1>6, <2>1, <3>1
    <3> DEFINE k == d + (Len(t) + i)
    <3>3. /\ k \in 1..Len(c) /\ ~(k <= Len(t)) /\ k - Len(t) = d + i
      BY <1>1, <1>2, <1>4, <1>5, <3>1
    <3>4. v[i] = c[k]
      BY <3>2
    <3> HIDE DEF k
    <3>5. c[k] = a[d + i]
      BY <1>4, <3>3
    <3> QED BY <3>1, <3>4, <3>5
  <2> QED BY <2>1, <2>2, <2>3
<1>8. ~TooMany(r) => v = a
  <2> SUFFICES ASSUME ~TooMany(r) PROVE v = a
    OBVIOUS
  <2>1. d = 0 /\ Len(v) = Len(a)
    BY <1>2, <1>5, <1>7
  <2>2. \A i \in 1..Len(v) : v[i] = a[i]
    BY <1>7, <2>1
  <2> QED BY <1>2, <1>7, <2>1, <2>2, SeqEqual
<1>9. ASSUME Orderly(a, anchor, hi) PROVE Orderly(v, anchor, hi)
  <2>1. \A i, j \in 1..Len(v) : i < j => d + i < d + j
    BY <1>5
  <2> QED BY <1>7, <1>9, <2>1 DEF Orderly
<1> QED BY <1>2, <1>4, <1>5, <1>6, <1>7, <1>8, <1>9 DEF t, a, c, m, w, v, hi

\* The partial that follows them is not among the completed ones.
Message(r) == New(r) \o Partial(r)

LEMMA MessageFacts ==
  ASSUME PathTypes, sameEnd # 0, NEW r \in Results,
         transcript \in Seq(Told), Len(transcript) <= MaxTranscript
  PROVE  /\ Message(r) \in Seq(Said)
         /\ \A i \in 1..Len(New(r)) :
              i \in 1..Len(Message(r)) /\ Message(r)[i] = New(r)[i]
         /\ ~(Repeated(r) /\ Kept(r) # <<>>) =>
              Orderly(Message(r), anchor, anchor + Offset(r))
<1> DEFINE a == New(r)
           y == Placed(Last(r), FALSE)
           m == Message(r)
<1>1. duration \in Nat /\ anchor \in Nat
  BY DEF PathTypes, PathTypeOK
<1>2. a \in Seq(Told) /\ Len(a) \in Nat
  BY NewFacts
<1>3. y \in Said /\ y.completed = FALSE
  <2>1. Last(r) \in Piece
    BY <1>1, ResultFacts
  <2>2. End(Last(r)) \in Nat /\ Last(r).start \in Nat /\ Last(r).text \in Texts
    BY <1>1, <2>1, EndFacts DEF Piece
  <2>3. /\ anchor + End(Last(r)) \in Nat /\ anchor + Last(r).start \in Nat
    BY <1>1, <2>2
  <2> QED BY <2>2, <2>3 DEF Placed, Said
<1>4. Partial(r) = <<>> \/ Partial(r) = <<y>>
  BY DEF Partial
<1>5. ~(Repeated(r) /\ Kept(r) # <<>>) =>
        Orderly(a, anchor, anchor + Offset(r))
  BY NewFacts
<1> HIDE DEF a, y
<1>6. a \in Seq(Said)
  <2>1. \A i \in 1..Len(a) : a[i] \in Said
    <3>1. \A i \in 1..Len(a) : a[i] \in Told
      BY <1>2
    <3> QED BY <3>1 DEF Said, Told
  <2> QED BY <1>2, <2>1
<1>7. CASE Partial(r) = <<>>
  <2>1. m = a
    BY <1>6, <1>7, ConcatEmptySeq DEF Message, a
  <2> QED BY <1>2, <1>5, <1>6, <2>1 DEF a
<1>8. CASE Partial(r) = <<y>>
  <2>1. m = a \o <<y>>
    BY <1>8 DEF Message, a
  <2>2. /\ m \in Seq(Said) /\ Len(m) = Len(a) + 1 /\ m[Len(a) + 1] = y
        /\ \A i \in 1..Len(a) : m[i] = a[i] /\ i \in 1..Len(m)
    BY <1>2, <1>3, <1>6, <2>1
  <2> HIDE DEF m
  <2>3. \A i \in 1..Len(m) : m[i].completed => i \in 1..Len(a) /\ m[i] = a[i]
    BY <1>2, <1>3, <2>2
  <2>4. ASSUME NEW lo, NEW hi, Orderly(a, lo, hi) PROVE Orderly(m, lo, hi)
    <3>1. \A i \in 1..Len(m) : m[i].completed =>
            /\ lo <= m[i].start /\ m[i].start < m[i].end /\ m[i].end <= hi
      <4> SUFFICES ASSUME NEW i \in 1..Len(m), m[i].completed
                   PROVE  /\ lo <= m[i].start /\ m[i].start < m[i].end
                          /\ m[i].end <= hi
        OBVIOUS
      <4>1. i \in 1..Len(a) /\ m[i] = a[i] /\ a[i].completed
        BY <2>3
      <4> QED BY <2>4, <4>1, Zenon DEF Orderly
    <3>2. \A i, j \in 1..Len(m) :
            i < j /\ m[i].completed /\ m[j].completed => m[i].end <= m[j].start
      <4> SUFFICES ASSUME NEW i \in 1..Len(m), NEW j \in 1..Len(m), i < j,
                          m[i].completed, m[j].completed
                   PROVE  m[i].end <= m[j].start
        OBVIOUS
      <4>1. /\ i \in 1..Len(a) /\ m[i] = a[i] /\ a[i].completed
            /\ j \in 1..Len(a) /\ m[j] = a[j] /\ a[j].completed
        BY <2>3
      <4> QED BY <2>4, <4>1, Zenon DEF Orderly
    <3> QED BY <3>1, <3>2 DEF Orderly
  <2> QED BY <1>5, <2>2, <2>4 DEF a, m
<1> QED BY <1>4, <1>7, <1>8

-----------------------------------------------------------------------------
(* SegmentPath: what was heard and what was sent.  Up to the first output   *)
(* that is completed alongside others, all that was sent lies behind the    *)
(* anchor.                                                                  *)

Heard == [state |-> stabilizer, sent |-> sent, verdicts |-> verdicts]

ShowInv ==
  /\ PathInv
  /\ sameEnd # 0
  /\ transcript \in Seq(Told) /\ Len(transcript) <= MaxTranscript
  /\ alongside \in BOOLEAN
  /\ Sound(Heard)
  /\ ClearIsSent
  /\ alongside \/ Behind(sent, anchor)

LEMMA InitShow == PathInit => ShowInv
<1> SUFFICES ASSUME PathInit PROVE ShowInv
  OBVIOUS
<1>1. PathInv
  BY InitPath
<1>2. /\ sameEnd = NoTime /\ transcript = <<>> /\ sent = <<>>
      /\ verdicts = <<>> /\ stabilizer = NewSession
  BY DEF PathInit
<1>3. alongside \in BOOLEAN
  BY Zenon DEF PathInit
<1>4. Sound(Heard)
  <2>1. /\ Heard.state = NewSession /\ Heard.sent = <<>>
        /\ Heard.verdicts = <<>>
    BY <1>2 DEF Heard
  <2>2. NewSession \in Session
    BY DEF NewSession, Session
  <2>3. /\ NewSession.turn = 0 /\ NewSession.recent = <<>>
        /\ NewSession.reviewed = <<>> /\ NewSession.pending = <<>>
    BY DEF NewSession
  <2>4. Remembers(<<>>, <<>>) /\ Apart(<<>>)
    BY StabilizerAssumption DEF Remembers, Apart, Least
  <2>5. Waits(<<>>, 0, <<>>)
    BY DEF Waits
  <2>6. Decided(<<>>)
    BY DEF Decided
  <2>7. Notes(<<>>, <<>>)
    BY StabilizerAssumption DEF Notes
  <2> QED BY <2>1, <2>2, <2>3, <2>4, <2>5, <2>6, <2>7 DEF Sound
<1>5. ClearIsSent
  BY <1>2 DEF ClearIsSent
<1>6. Behind(sent, anchor)
  BY <1>2 DEF Behind
<1>7. transcript \in Seq(Told) /\ Len(transcript) <= MaxTranscript
  BY <1>2, SegmentPathAssumption
<1> QED BY <1>1, <1>2, <1>3, <1>4, <1>5, <1>6, <1>7 DEF ShowInv, NoTime

\* A step that sends nothing, and does not put the anchor back.
LEMMA QuietKeeps ==
  ASSUME ShowInv, PathInv', anchor <= anchor', sameEnd' # 0,
         UNCHANGED <<transcript, alongside, sendVars>>
  PROVE  ShowInv'
<1> USE DEF ShowInv
<1>1. Heard' = Heard /\ sent' = sent /\ transcript' = transcript
      /\ alongside' = alongside /\ cut' = cut
  BY DEF Heard, sendVars
<1>2. Sound(Heard)'
  BY <1>1
<1>3. ClearIsSent'
  BY <1>1 DEF ClearIsSent
<1>4. ASSUME Behind(sent, anchor) PROVE Behind(sent, anchor)'
  <2>1. sent \in Seq(Shown)
    BY DEF Sound, Heard
  <2>2. anchor \in Nat /\ anchor' \in Nat
    BY DEF PathInv, PathTypes, PathTypeOK
  <2>3. Behind(sent, anchor')
    BY <1>4, <2>1, <2>2, BehindLater
  <2> QED BY <1>1, <2>3
<1> QED BY <1>1, <1>2, <1>3, <1>4

LEMMA OutputKeeps ==
  ASSUME ShowInv, PathInv', NEW r \in Results, HandleOutput(r)
  PROVE  ShowInv'
<1> DEFINE msg == Message(r)
           b == AllSent(Heard, msg)
<1>1. /\ PathTypes /\ sameEnd # 0 /\ Sound(Heard) /\ alongside \in BOOLEAN
      /\ transcript \in Seq(Told) /\ Len(transcript) <= MaxTranscript
  BY DEF ShowInv, PathInv
<1>2. /\ msg \in Seq(Said)
      /\ \A i \in 1..Len(New(r)) : i \in 1..Len(msg) /\ msg[i] = New(r)[i]
      /\ ~(Repeated(r) /\ Kept(r) # <<>>) =>
           Orderly(msg, anchor, anchor + Offset(r))
  BY <1>1, MessageFacts
<1>3. /\ stabilizer' = b.state /\ sent' = b.sent /\ verdicts' = b.verdicts
  BY Zenon DEF HandleOutput, Send, Heard, AllSent, Message
<1> HIDE DEF msg
<1>4. Delivers(Heard, b, msg)
  BY <1>1, <1>2, SendFacts
<1>5. sameEnd' # 0
  BY <1>1, RepeatedFacts DEF HandleOutput, NoTime
<1>6. alongside' \in BOOLEAN
  BY Zenon DEF HandleOutput
<1>7. Sound(Heard')
  <2> HIDE DEF b
  <2>1. /\ Heard'.state = b.state /\ Heard'.sent = b.sent
        /\ Heard'.verdicts = b.verdicts
    BY <1>3 DEF Heard
  <2>2. Sound(b)
    BY <1>4 DEF Delivers
  <2> QED BY <2>1, <2>2 DEF Sound
<1>8. /\ transcript' = Trimmed(r)
      /\ transcript' \in Seq(Told) /\ Len(transcript') <= MaxTranscript
  BY <1>1, NewFacts DEF HandleOutput
<1>9. ASSUME ~cut'
      PROVE  /\ ~cut /\ New(r) \in Seq(Told)
             /\ \A i \in DOMAIN transcript' :
                  \/ i \in DOMAIN transcript /\ transcript'[i] = transcript[i]
                  \/ \E j \in 1..Len(New(r)) : transcript'[i] = New(r)[j]
  <2> DEFINE t == transcript
             a == New(r)
             c == t \o a
  <2>1. ~cut /\ ~TooMany(r)
    BY <1>9, Zenon DEF HandleOutput
  <2>2. a \in Seq(Told) /\ t \in Seq(Told) /\ transcript' = c
    BY <1>1, <1>8, <2>1, NewFacts
  <2> HIDE DEF t, a
  <2>3. /\ c \in Seq(Told) /\ Len(c) = Len(t) + Len(a)
        /\ DOMAIN c = 1..Len(c) /\ DOMAIN t = 1..Len(t)
        /\ Len(t) \in Nat /\ Len(a) \in Nat
        /\ \A i \in 1..Len(c) : c[i] = IF i <= Len(t) THEN t[i]
                                                      ELSE a[i - Len(t)]
    BY <2>2
  <2> HIDE DEF c
  <2>4. \A i \in 1..Len(c) :
          \/ i \in 1..Len(t) /\ c[i] = t[i]
          \/ i - Len(t) \in 1..Len(a) /\ c[i] = a[i - Len(t)]
    BY <2>3
  <2>5. \A i \in 1..Len(c) :
          \/ i \in 1..Len(t) /\ c[i] = t[i]
          \/ \E j \in 1..Len(a) : c[i] = a[j]
    BY <2>4
  <2> QED BY <2>1, <2>2, <2>3, <2>5 DEF t, a
<1> HIDE DEF b
<1>10. ClearIsSent'
  <2> SUFFICES ASSUME ~cut' PROVE ClearIsSent'
    BY DEF ClearIsSent
  <2>1. /\ \A x \in ToSet(sent) : x \in ToSet(b.sent)
        /\ \A i \in 1..Len(msg) : msg[i].completed /\ Strong(msg[i]) =>
             Collapsed(msg[i]) \in ToSet(b.sent)
    BY <1>4 DEF Delivers, Heard
  <2>2. \A i \in DOMAIN transcript : Strong(transcript[i]) =>
          Collapsed(transcript[i]) \in ToSet(sent)
    BY <1>9 DEF ShowInv, ClearIsSent, Collapsed
  <2>3. ASSUME NEW i \in DOMAIN transcript', Strong(transcript'[i])
        PROVE  Collapsed(transcript'[i]) \in ToSet(b.sent)
    <3>1. CASE i \in DOMAIN transcript /\ transcript'[i] = transcript[i]
      BY <2>1, <2>2, <2>3, <3>1
    <3>2. CASE \E j \in 1..Len(New(r)) : transcript'[i] = New(r)[j]
      <4>1. PICK j \in 1..Len(New(r)) : transcript'[i] = New(r)[j]
        BY <3>2
      <4>2. New(r)[j].completed
        <5>1. New(r)[j] \in Told
          BY <1>9
        <5> QED BY <5>1 DEF Told
      <4>3. j \in 1..Len(msg) /\ transcript'[i] = msg[j] /\ msg[j].completed
        BY <1>2, <4>1, <4>2
      <4> QED BY <2>1, <2>3, <4>3
    <3> QED BY <1>9, <3>1, <3>2
  <2> QED BY <1>3, <2>3 DEF ClearIsSent, Collapsed
<1>11. ASSUME ~alongside' PROVE Behind(sent, anchor)'
  <2>1. ~alongside /\ ~(Repeated(r) /\ Kept(r) # <<>>)
    BY <1>11, Zenon DEF HandleOutput
  <2>2. Behind(Heard.sent, anchor)
    BY <2>1 DEF ShowInv, Heard
  <2>3. anchor \in Nat /\ Offset(r) \in Nat /\ anchor' = anchor + Offset(r)
    <3>1. Offset(r) \in 0..duration
      BY <1>1, OutputFacts
    <3> QED BY <1>1, <3>1 DEF PathTypes, PathTypeOK, HandleOutput
  <2>4. anchor' \in Nat /\ anchor <= anchor'
    BY <2>3
  <2>5. Orderly(msg, anchor, anchor')
    BY <1>2, <2>1, <2>3
  <2>6. Behind(b.sent, anchor')
    BY <1>1, <1>2, <2>2, <2>3, <2>4, <2>5, SendOrdered DEF b
  <2> QED BY <1>3, <2>6
<1> QED BY <1>5, <1>6, <1>7, <1>8, <1>10, <1>11 DEF ShowInv

LEMMA ShowStep == ShowInv /\ [PathNext]_pathVars => ShowInv'
<1> SUFFICES ASSUME ShowInv, [PathNext]_pathVars PROVE ShowInv'
  OBVIOUS
<1>1. PathInv /\ PathInv' /\ sameEnd # 0
  BY PathStep DEF ShowInv
<1>2. anchor \in Nat /\ duration \in Nat /\ audio \in Nat /\ framesOffset \in Nat
  BY <1>1 DEF PathInv, PathTypes, PathTypeOK
<1>3. CASE AddFrames
  <2>1. anchor <= anchor'
    BY <1>2, <1>3, SegmentPathAssumption DEF AddFrames
  <2> QED BY <1>1, <1>3, <2>1, QuietKeeps DEF AddFrames, outputVars
<1>4. CASE TakeAudio
  <2>1. anchor <= anchor'
    BY <1>2, <1>4, SegmentPathAssumption DEF TakeAudio, Clipped
  <2> QED BY <1>1, <1>4, <2>1, QuietKeeps DEF TakeAudio, outputVars
<1>5. CASE Decoded
  <2>1. CASE \E r \in Results : HandleOutput(r)
    BY <1>1, <2>1, OutputKeeps
  <2>2. CASE Skips \/ Stays
    <3>1. anchor <= anchor'
      BY <1>2, <2>2 DEF Skips, Stays
    <3> QED BY <1>1, <2>2, <3>1, QuietKeeps DEF Skips, Stays, outputVars
  <2> QED BY <1>5, <2>1, <2>2 DEF Decoded
<1>6. CASE UNCHANGED pathVars
  <2>1. anchor <= anchor'
    BY <1>2, <1>6 DEF pathVars
  <2> QED BY <1>1, <1>6, <2>1, QuietKeeps DEF pathVars, outputVars
<1> QED BY <1>3, <1>4, <1>5, <1>6 DEF PathNext

LEMMA InvShow == PathSpec => []ShowInv
BY InitShow, ShowStep, PTL DEF PathSpec

LEMMA ShowOnce == ShowInv => SentOnce
<1> SUFFICES ASSUME ShowInv, NEW i \in DOMAIN sent, NEW j \in DOMAIN sent,
                    i < j, sent[i] = sent[j]
             PROVE  alongside /\ j - i > RepeatWindow
  BY DEF SentOnce
<1>1. Apart(sent) /\ sent \in Seq(Shown)
  BY DEF ShowInv, Sound, Heard
<1>2. i \in 1..Len(sent) /\ j \in 1..Len(sent)
  BY <1>1
<1>3. j - i > RepeatWindow
  BY <1>1, <1>2 DEF Apart
<1>4. ~Behind(sent, anchor)
  BY <1>2 DEF Behind
<1> QED BY <1>3, <1>4 DEF ShowInv

LEMMA ShowHeard ==
  ASSUME MaxPendingAge < PendingWindow, ShowInv
  PROVE  HeardIsSent
<1>1. Decided(verdicts) /\ verdicts \in Seq(Verdict)
  BY DEF ShowInv, Sound, Heard, Fits
<1>2. AgreementDecides
  BY <1>1 DEF AgreementDecides, Decided
<1> QED BY <1>2 DEF ShowInv, HeardIsSent

(* A completed segment reaches the client once, however results repeat.    *)
(* The anchor sees to it, for what was sent lies behind it; and where an   *)
(* output completed because it repeated has put it back, the deduplicator  *)
(* does, as long as it remembers the segment: for RepeatWindow segments.   *)
THEOREM NothingIsSentTwice == PathSpec => []SentOnce
BY InvShow, ShowOnce, PTL

(* Until the transcript is cut at its maximal length, every completed      *)
(* segment that was clearly heard is sent, whatever was held, reviewed or  *)
(* forgotten before; and the stabilizer lets a weak one through if and     *)
(* only if its text waits or was sent for review before.                   *)
(* The second needs the deque of pending texts to be longer than they may  *)
(* be old, as the defaults are: 12 texts, 4 turns.                         *)
THEOREM HeardSpeechIsSent ==
  ASSUME MaxPendingAge < PendingWindow
  PROVE  PathSpec => []HeardIsSent
<1>1. ShowInv => HeardIsSent
  BY ShowHeard
<1> QED BY <1>1, InvShow, PTL
=============================================================================

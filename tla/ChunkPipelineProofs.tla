------------------------- MODULE ChunkPipelineProofs -------------------------
(***************************************************************************)
(* Theorems about ChunkPipeline for every number of chunks, every size of  *)
(* the queue, of the ring buffers and of the archive's files.              *)
(***************************************************************************)
EXTENDS ChunkPipeline, FiniteSetTheorems, SequenceTheorems, TLAPS

-----------------------------------------------------------------------------
(* Sequences of chunk numbers *)

Elements(q) == {q[i] : i \in DOMAIN q}

LEMMA ElementsOfConcat ==
  ASSUME NEW s \in Seq(Nat), NEW t \in Seq(Nat)
  PROVE  /\ s \o t \in Seq(Nat)
         /\ Elements(s \o t) = Elements(s) \cup Elements(t)
<1>1. /\ s \o t \in Seq(Nat) /\ Len(s \o t) = Len(s) + Len(t)
      /\ \A i \in 1..(Len(s) + Len(t)) :
           (s \o t)[i] = IF i <= Len(s) THEN s[i] ELSE t[i - Len(s)]
  BY ConcatProperties
<1>2. /\ Len(s) \in Nat /\ Len(t) \in Nat
      /\ DOMAIN s = 1..Len(s) /\ DOMAIN t = 1..Len(t)
      /\ DOMAIN (s \o t) = 1..(Len(s) + Len(t))
  BY <1>1
<1>3. ASSUME NEW j \in 1..Len(s) PROVE s[j] \in Elements(s \o t)
  <2>1. j \in 1..(Len(s) + Len(t)) /\ (s \o t)[j] = s[j]
    BY <1>1, <1>2
  <2> QED BY <2>1, <1>2 DEF Elements
<1>4. ASSUME NEW j \in 1..Len(t) PROVE t[j] \in Elements(s \o t)
  <2>1. /\ j + Len(s) \in 1..(Len(s) + Len(t)) /\ (s \o t)[j + Len(s)] = t[j]
    BY <1>1, <1>2
  <2> QED BY <2>1, <1>2 DEF Elements
<1>5. ASSUME NEW i \in 1..(Len(s) + Len(t))
      PROVE  (s \o t)[i] \in Elements(s) \cup Elements(t)
  <2>1. CASE i <= Len(s)
    BY <2>1, <1>1, <1>2 DEF Elements
  <2>2. CASE i > Len(s)
    <3>1. i - Len(s) \in DOMAIN t /\ (s \o t)[i] = t[i - Len(s)]
      BY <2>2, <1>1, <1>2
    <3> QED BY <3>1 DEF Elements
  <2> QED BY <2>1, <2>2, <1>2
<1>6. Elements(s \o t) \subseteq Elements(s) \cup Elements(t)
  BY <1>2, <1>5 DEF Elements
<1>7. Elements(s) \subseteq Elements(s \o t) /\ Elements(t) \subseteq Elements(s \o t)
  BY <1>2, <1>3, <1>4 DEF Elements
<1> QED BY <1>1, <1>6, <1>7

\* A concatenation increases when its parts do and the first is ahead.
LEMMA IncreasingConcat ==
  ASSUME NEW s \in Seq(Nat), NEW t \in Seq(Nat)
  PROVE  Increasing(s \o t) <=> /\ Increasing(s) /\ Increasing(t)
                                /\ Ahead(Elements(s), Elements(t))
<1> DEFINE st == s \o t
<1>1. /\ DOMAIN st = 1..(Len(s) + Len(t))
      /\ \A i \in 1..(Len(s) + Len(t)) :
           st[i] = IF i <= Len(s) THEN s[i] ELSE t[i - Len(s)]
  BY ConcatProperties, LenProperties
<1>2. /\ Len(s) \in Nat /\ Len(t) \in Nat
      /\ DOMAIN s = 1..Len(s) /\ DOMAIN t = 1..Len(t)
  OBVIOUS
<1>3. /\ \A i \in 1..Len(s) : i \in DOMAIN st /\ st[i] = s[i]
      /\ \A i \in 1..Len(t) : Len(s) + i \in DOMAIN st /\ st[Len(s) + i] = t[i]
  <2>1. ASSUME NEW i \in 1..Len(t)
        PROVE  /\ Len(s) + i \in 1..(Len(s) + Len(t)) /\ ~(Len(s) + i <= Len(s))
               /\ (Len(s) + i) - Len(s) = i
    BY <1>2
  <2> QED BY <1>1, <1>2, <2>1
<1> HIDE DEF st
<1>4. ASSUME Increasing(st)
      PROVE  Increasing(s) /\ Increasing(t) /\ Ahead(Elements(s), Elements(t))
  <2>1. Increasing(s)
    BY <1>4, <1>2, <1>3 DEF Increasing
  <2>2. Increasing(t)
    BY <1>4, <1>2, <1>3 DEF Increasing
  <2>3. ASSUME NEW i \in 1..Len(s), NEW j \in 1..Len(t) PROVE s[i] < t[j]
    BY <1>4, <1>2, <1>3 DEF Increasing
  <2> QED BY <2>1, <2>2, <2>3, <1>2 DEF Ahead, Elements
<1>5. ASSUME Increasing(s), Increasing(t), Ahead(Elements(s), Elements(t)),
             NEW i \in DOMAIN st, NEW j \in DOMAIN st, i < j
      PROVE  st[i] < st[j]
  <2>1. CASE j <= Len(s)
    BY <2>1, <1>5, <1>1, <1>2 DEF Increasing
  <2>2. CASE i > Len(s)
    <3>1. /\ i - Len(s) \in DOMAIN t /\ j - Len(s) \in DOMAIN t
          /\ i - Len(s) < j - Len(s)
          /\ st[i] = t[i - Len(s)] /\ st[j] = t[j - Len(s)]
      BY <2>2, <1>5, <1>1, <1>2
    <3> QED BY <3>1, <1>5 DEF Increasing
  <2>3. CASE i <= Len(s) /\ j > Len(s)
    <3>1. /\ i \in DOMAIN s /\ j - Len(s) \in DOMAIN t
          /\ st[i] = s[i] /\ st[j] = t[j - Len(s)]
      BY <2>3, <1>5, <1>1, <1>2
    <3> QED BY <3>1, <1>5 DEF Ahead, Elements
  <2> QED BY <2>1, <2>2, <2>3, <1>1, <1>2, <1>5
<1> QED BY <1>4, <1>5 DEF Increasing, st

\* The pieces of a sequence, put together behind d, are that sequence.
Pieces(d, all, a, b, e) ==
  /\ SubSeq(all, 1, a) \in Seq(Nat) /\ SubSeq(all, a + 1, b) \in Seq(Nat)
  /\ SubSeq(all, b + 1, e) \in Seq(Nat)
  /\ SubSeq(all, e + 1, Len(all)) \in Seq(Nat)
  /\ d \o all = d \o (SubSeq(all, 1, a) \o (SubSeq(all, a + 1, b)
                \o (SubSeq(all, b + 1, e) \o SubSeq(all, e + 1, Len(all)))))

LEMMA Cut ==
  ASSUME NEW d \in Seq(Nat), NEW all \in Seq(Nat),
         NEW a \in Nat, NEW b \in Nat, NEW e \in Nat,
         a <= b, b <= e, e <= Len(all)
  PROVE  Pieces(d, all, a, b, e)
<1> DEFINE x == SubSeq(all, 1, a)
           w == SubSeq(all, a + 1, b)
           y == SubSeq(all, b + 1, e)
           z == SubSeq(all, e + 1, Len(all))
<1>1. Len(all) \in Nat /\ \A i \in 1..Len(all) : all[i] \in Nat
  BY ElementOfSeq
<1>2. /\ 1 \in Int /\ a \in Int /\ b \in Int /\ e \in Int /\ Len(all) \in Int
      /\ a + 1 \in Int /\ b + 1 \in Int /\ e + 1 \in Int
  BY <1>1
<1>3. x \in Seq(Nat)
  BY <1>1, <1>2, SubSeqProperties
<1>4. w \in Seq(Nat)
  BY <1>1, <1>2, SubSeqProperties
<1>5. y \in Seq(Nat)
  BY <1>1, <1>2, SubSeqProperties
<1>6. z \in Seq(Nat)
  BY <1>1, <1>2, SubSeqProperties
<1>7. y \o z = SubSeq(all, b + 1, Len(all))
  <2>1. b + 1 \in 1..(Len(all) + 1) /\ e \in ((b + 1) - 1)..Len(all) /\ Len(all) \in e..Len(all)
    BY <1>1
  <2> QED BY <2>1, ConcatAdjacentSubSeq
<1>8. w \o (y \o z) = SubSeq(all, a + 1, Len(all))
  <2>1. a + 1 \in 1..(Len(all) + 1) /\ b \in a..Len(all) /\ Len(all) \in b..Len(all)
    BY <1>1
  <2>2. b \in ((a + 1) - 1)..Len(all)
    BY <2>1
  <2> QED BY <2>1, <2>2, <1>7, ConcatAdjacentSubSeq
<1>9. x \o (w \o (y \o z)) = all
  <2>1. 1 \in 1..(Len(all) + 1) /\ a \in (1 - 1)..Len(all) /\ Len(all) \in a..Len(all)
    BY <1>1
  <2>2. x \o SubSeq(all, a + 1, Len(all)) = SubSeq(all, 1, Len(all))
    BY <2>1, ConcatAdjacentSubSeq
  <2> QED BY <2>2, <1>8, SubSeqFull
<1> QED BY <1>3, <1>4, <1>5, <1>6, <1>9 DEF Pieces

\* Without its piece w, x \o w \o y \o z keeps its order and its other elements.
LEMMA CutInOrder ==
  ASSUME NEW d \in Seq(Nat), NEW x \in Seq(Nat), NEW w \in Seq(Nat),
         NEW y \in Seq(Nat), NEW z \in Seq(Nat)
  PROVE  /\ (d \o x) \o y \in Seq(Nat)
         /\ ((d \o x) \o y) \o z \in Seq(Nat)
         /\ Increasing(d \o (x \o (w \o (y \o z))))
              => Increasing(((d \o x) \o y) \o z)
         /\ Elements(d \o (x \o (w \o (y \o z)))) =
              Elements(((d \o x) \o y) \o z) \cup Elements(w)
<1> DEFINE yz   == y \o z
           wyz  == w \o yz
           xwyz == x \o wyz
           old  == d \o xwyz
           dx   == d \o x
           dxy  == dx \o y
           new  == dxy \o z
<1>yz. yz \in Seq(Nat) /\ Elements(yz) = Elements(y) \cup Elements(z)
  BY ElementsOfConcat
<1>dx. dx \in Seq(Nat) /\ Elements(dx) = Elements(d) \cup Elements(x)
  BY ElementsOfConcat
<1> HIDE DEF yz, dx
<1>wyz. wyz \in Seq(Nat) /\ Elements(wyz) = Elements(w) \cup Elements(yz)
  BY <1>yz, ElementsOfConcat
<1>dxy. dxy \in Seq(Nat) /\ Elements(dxy) = Elements(dx) \cup Elements(y)
  BY <1>dx, ElementsOfConcat
<1> HIDE DEF wyz, dxy
<1>xwyz. xwyz \in Seq(Nat) /\ Elements(xwyz) = Elements(x) \cup Elements(wyz)
  BY <1>wyz, ElementsOfConcat
<1>new. new \in Seq(Nat) /\ Elements(new) = Elements(dxy) \cup Elements(z)
  BY <1>dxy, ElementsOfConcat
<1> HIDE DEF xwyz, new
<1>old. Elements(old) = Elements(d) \cup Elements(xwyz)
  BY <1>xwyz, ElementsOfConcat
<1> HIDE DEF old
<1>2. /\ Elements(xwyz) = Elements(x) \cup Elements(w) \cup Elements(y) \cup Elements(z)
      /\ Elements(wyz) = Elements(w) \cup Elements(y) \cup Elements(z)
      /\ Elements(dxy) = Elements(d) \cup Elements(x) \cup Elements(y)
  BY <1>yz, <1>dx, <1>wyz, <1>dxy, <1>xwyz
<1>3. ASSUME Increasing(old) PROVE Increasing(new)
  <2>1. /\ Increasing(d) /\ Increasing(xwyz)
        /\ Ahead(Elements(d), Elements(xwyz))
    BY <1>xwyz, <1>3, IncreasingConcat DEF old
  <2>2. /\ Increasing(x) /\ Increasing(wyz) /\ Ahead(Elements(x), Elements(wyz))
    BY <1>wyz, <2>1, IncreasingConcat DEF xwyz
  <2>3. Increasing(yz)
    BY <1>yz, <2>2, IncreasingConcat DEF wyz
  <2>4. /\ Increasing(y) /\ Increasing(z) /\ Ahead(Elements(y), Elements(z))
    BY <2>3, IncreasingConcat DEF yz
  <2>5. Increasing(dx)
    <3>1. Ahead(Elements(d), Elements(x))
      BY <2>1, <1>2 DEF Ahead
    <3> QED BY <3>1, <2>1, <2>2, IncreasingConcat DEF dx
  <2>6. Increasing(dxy)
    <3>1. Ahead(Elements(dx), Elements(y))
      BY <2>1, <2>2, <1>2, <1>dx DEF Ahead
    <3> QED BY <3>1, <2>5, <2>4, <1>dx, IncreasingConcat DEF dxy
  <2>7. Ahead(Elements(dxy), Elements(z))
    BY <2>1, <2>2, <2>4, <1>2 DEF Ahead
  <2> QED BY <2>6, <2>7, <2>4, <1>dxy, IncreasingConcat DEF new
<1>4. Elements(old) = Elements(new) \cup Elements(w)
  BY <1>2, <1>old, <1>new
<1> QED BY <1>dxy, <1>new, <1>3, <1>4 DEF old, new, xwyz, wyz, yz, dxy, dx

-----------------------------------------------------------------------------
(* The parts of the inductive invariant *)

\* A reader has a chunk in hand while it queues it, and so has the main thread
\* while it looks at it; a reader that was joined has ended.
Control ==
  /\ \A s \in Sources : hand[s] # 0 <=> reader[s] \in {"put", "evict", "retry"}
  /\ cur # <<>> <=> pc \in {"check", "send"}
  /\ pc \in {"drain", "flush", "finish", "closed"} =>
       \A s \in Sources \ late : reader[s] = "done"

\* The order of the chunks of s on their way from its reader to its server, and
\* into the archive: what is further on is older, and all of it has been made.
\* The archive holds what the client holds, and nothing that has not yet been
\* handed over.
QueueOrder(s) == \A i, j \in Mine(s) : i < j => queue[i][2] < queue[j][2]
Behind(s) == InMain(s) \cup InQueue(s) \cup InHand(s)
Flow(s) ==
  /\ Increasing(Sent(s)) /\ Increasing(Kept(s)) /\ QueueOrder(s)
  /\ InClient(s) \subseteq InArchive(s)
  /\ Ahead(InArchive(s), Behind(s))
  /\ Ahead(InMain(s), InQueue(s) \cup InHand(s))
  /\ Ahead(InQueue(s), InHand(s))
  /\ InArchive(s) \cup Behind(s) \subseteq 1..made[s]

Closed == pc = "closed" /\ ~writeFailed => \A s \in Sources : held[s] = <<>>

-----------------------------------------------------------------------------
(* What the steps do to the sequences *)

LEMMA ChunkIsPair ==
  /\ \A c \in Chunk : /\ c[1] \in Sources /\ c[2] \in 1..MaxChunks[c[1]]
                      /\ c = <<c[1], c[2]>>
  /\ \A s \in Sources : \A n \in 1..MaxChunks[s] : <<s, n>> \in Chunk
BY DEF Chunk

LEMMA SequencesOfNumbers ==
  ASSUME TypeOK, NEW s \in Sources
  PROVE  /\ delivered[s] \in Seq(Nat) /\ pending[s] \in Seq(Nat)
         /\ filed[s] \in Seq(Nat) /\ held[s] \in Seq(Nat)
         /\ Sent(s) \in Seq(Nat) /\ Kept(s) \in Seq(Nat)
         /\ InClient(s) = Elements(Sent(s)) /\ InArchive(s) = Elements(Kept(s))
BY DEF TypeOK, Sent, Kept, InClient, InArchive, Elements

\* One more chunk at the end of a sequence.
LEMMA Appended ==
  ASSUME NEW q \in Seq(Nat), NEW n \in Nat
  PROVE  /\ <<n>> \in Seq(Nat) /\ Append(q, n) = q \o <<n>>
         /\ Elements(<<n>>) = {n} /\ Increasing(<<n>>)
<1>1. <<n>> \in Seq(Nat) /\ DOMAIN <<n>> = {1} /\ <<n>>[1] = n
  OBVIOUS
<1>2. Append(q, n) = q \o <<n>>
  BY AppendIsConcat
<1> QED BY <1>1, <1>2 DEF Elements, Increasing

\* Of what waits, followed by the new chunk, the first a are sent, those up to b
\* given up, those up to e sent, and the rest waits.
SendLeaves(d, p, n, a, b, e) ==
  LET all  == Append(p, n)
      sent == (d \o SubSeq(all, 1, a)) \o SubSeq(all, b + 1, e)
      left == SubSeq(all, e + 1, Len(all))
  IN  Increasing(d \o p) /\ Ahead(Elements(d \o p), {n}) =>
        /\ sent \in Seq(Nat) /\ left \in Seq(Nat)
        /\ Len(left) = Len(p) + 1 - e
        /\ Increasing(sent \o left)
        /\ Elements(sent \o left) \subseteq Elements(d \o p) \cup {n}
        /\ \E v : Elements(d \o p) \cup {n} \subseteq Elements(sent \o left) \cup {v}
        /\ b = a => Elements(d \o p) \cup {n} \subseteq Elements(sent \o left)

LEMMA SendSequences ==
  ASSUME NEW d \in Seq(Nat), NEW p \in Seq(Nat), NEW n \in Nat,
         NEW a \in Nat, NEW b \in Nat, NEW e \in Nat,
         a <= b, b <= a + 1, b <= e, e <= Len(p) + 1
  PROVE  SendLeaves(d, p, n, a, b, e)
<1> DEFINE all  == Append(p, n)
           x == SubSeq(all, 1, a)
           w == SubSeq(all, a + 1, b)
           y == SubSeq(all, b + 1, e)
           left == SubSeq(all, e + 1, Len(all))
           dp   == d \o p
           one  == <<n>>
           old  == d \o all
           sent == (d \o x) \o y
           new  == sent \o left
<1>1. /\ all \in Seq(Nat) /\ all = p \o one
      /\ one \in Seq(Nat) /\ Elements(one) = {n} /\ Increasing(one)
  BY Appended, AppendProperties
<1>2. Len(p) \in Nat /\ Len(all) = Len(p) + 1 /\ dp \in Seq(Nat)
  BY AppendProperties, ConcatProperties, LenProperties
<1>3. old = dp \o one
  BY <1>1, ConcatAssociative
<1> HIDE DEF all, one, dp, old
<1>4. \A i \in 1..Len(all) : all[i] \in Nat
  BY <1>1, ElementOfSeq
<1>5. Len(left) = Len(p) + 1 - e
  <2>1. e + 1 \in Int /\ Len(all) \in Int /\ \A i \in (e + 1)..Len(all) : all[i] \in Nat
    BY <1>2, <1>4
  <2>2. Len(left) = IF e + 1 <= Len(all) THEN Len(all) - (e + 1) + 1 ELSE 0
    BY <2>1, SubSeqProperties
  <2> QED BY <2>2, <1>2
<1>6. e <= Len(all)
  BY <1>2
<1>7. /\ x \in Seq(Nat) /\ w \in Seq(Nat) /\ y \in Seq(Nat) /\ left \in Seq(Nat)
      /\ old = d \o (x \o (w \o (y \o left)))
  <2>1. Pieces(d, all, a, b, e)
    BY <1>1, <1>6, Cut
  <2> QED BY <2>1 DEF old, Pieces
<1>8. b = a => w = <<>>
  <2>1. b = a => b < a + 1
    OBVIOUS
  <2> QED BY <2>1, SubSeqEmpty
<1>9. b = a + 1 => Len(w) = 1
  <2>1. ASSUME b = a + 1 PROVE Len(w) = 1
    <3>1. a + 1 \in Int /\ b \in Int /\ \A i \in (a + 1)..b : all[i] \in Nat
      BY <1>2, <1>4
    <3>2. Len(w) = IF a + 1 <= b THEN b - (a + 1) + 1 ELSE 0
      BY <3>1, SubSeqProperties
    <3> QED BY <3>2, <2>1
  <2> QED BY <2>1
<1> HIDE DEF x, w, y, left
<1>10. \E v : Elements(w) \subseteq {v}
  <2>1. b = a => Elements(w) = {}
    BY <1>8 DEF Elements
  <2>2. b = a + 1 => Elements(w) \subseteq {w[1]}
    <3>1. Len(w) = 1 => DOMAIN w = {1}
      BY <1>7, LenProperties
    <3> QED BY <3>1, <1>9 DEF Elements
  <2>3. b = a \/ b = a + 1
    OBVIOUS
  <2> QED BY <2>1, <2>2, <2>3
<1>11. /\ sent \in Seq(Nat)
       /\ Increasing(old) => Increasing(new)
       /\ Elements(old) = Elements(new) \cup Elements(w)
  BY <1>7, CutInOrder
<1> HIDE DEF sent, new
<1>12. Elements(old) = Elements(dp) \cup {n}
  BY <1>1, <1>2, <1>3, ElementsOfConcat
<1>13. Increasing(dp) /\ Ahead(Elements(dp), {n}) => Increasing(old)
  BY <1>1, <1>2, <1>3, IncreasingConcat
<1>14. b = a => Elements(w) = {}
  BY <1>8 DEF Elements
<1>15. Increasing(dp) /\ Ahead(Elements(dp), {n}) =>
               /\ sent \in Seq(Nat) /\ left \in Seq(Nat)
               /\ Len(left) = Len(p) + 1 - e
               /\ Increasing(new)
               /\ Elements(new) \subseteq Elements(dp) \cup {n}
               /\ \E v : Elements(dp) \cup {n} \subseteq Elements(new) \cup {v}
               /\ b = a => Elements(dp) \cup {n} \subseteq Elements(new)
  BY <1>5, <1>7, <1>10, <1>11, <1>12, <1>13, <1>14
<1> QED BY <1>15 DEF SendLeaves, all, sent, left, dp, new, x, y

\* A send writes some of what waits and of the new chunk, and gives up at most
\* one chunk, which it counts.
LEMMA ClientSends ==
  ASSUME TypeOK, RingCap \in Nat, NEW c \in Chunk, ClientSend(c),
         Increasing(Sent(c[1])), Ahead(InClient(c[1]), {c[2]})
  PROVE  /\ delivered' \in [Sources -> Seq(Nat)]
         /\ pending' \in [Sources -> Seq(Nat)]
         /\ \A s \in Sources : Len(pending'[s]) <= RingCap
         /\ chunksDropped' \in Nat
         /\ \A s \in Sources : s # c[1] => Sent(s)' = Sent(s)
         /\ Increasing(Sent(c[1]))'
         /\ InClient(c[1])' \subseteq InClient(c[1]) \cup {c[2]}
         /\ \/ /\ InClient(c[1]) \cup {c[2]} \subseteq InClient(c[1])'
               /\ chunksDropped' >= chunksDropped
            \/ /\ \E x : InClient(c[1]) \cup {c[2]} \subseteq InClient(c[1])' \cup {x}
               /\ chunksDropped' >= chunksDropped + 1
<1> DEFINE s == c[1]
           n == c[2]
           all == Append(pending[s], n)
<1>1. s \in Sources /\ n \in Nat
  BY ChunkIsPair
<1>2. /\ delivered[s] \in Seq(Nat) /\ pending[s] \in Seq(Nat)
      /\ Sent(s) = delivered[s] \o pending[s] /\ InClient(s) = Elements(Sent(s))
      /\ Len(pending[s]) \in Nat /\ Len(pending[s]) <= RingCap
      /\ chunksDropped \in Nat
  BY <1>1, SequencesOfNumbers DEF Sent, TypeOK
<1>3. Len(all) = Len(pending[s]) + 1
  BY <1>1, <1>2, AppendProperties
<1>4. \E first \in 0..Len(all) :
        LET left == Len(all) - first
            over == IF left > RingCap THEN left - RingCap ELSE 0
        IN  \E more \in 0..(left - over), counted \in {over, 1} :
              /\ delivered' = [delivered EXCEPT ![s] = 
                   (@ \o SubSeq(all, 1, first))
                     \o SubSeq(all, first + over + 1, first + over + more)]
              /\ pending' = [pending EXCEPT ![s] =
                   SubSeq(all, first + over + more + 1, Len(all))]
              /\ chunksDropped' = chunksDropped + counted
  BY DEF ClientSend, Unsent
<1> HIDE DEF all
<1>5. PICK first \in 0..Len(all) :
        LET left == Len(all) - first
            over == IF left > RingCap THEN left - RingCap ELSE 0
        IN  \E more \in 0..(left - over), counted \in {over, 1} :
              /\ delivered' = [delivered EXCEPT ![s] =
                   (@ \o SubSeq(all, 1, first))
                     \o SubSeq(all, first + over + 1, first + over + more)]
              /\ pending' = [pending EXCEPT ![s] =
                   SubSeq(all, first + over + more + 1, Len(all))]
              /\ chunksDropped' = chunksDropped + counted
  BY <1>4
<1> DEFINE over == IF Len(all) - first > RingCap THEN Len(all) - first - RingCap ELSE 0
<1>6. /\ over \in {0, 1} /\ first \in Nat /\ Len(all) \in Nat
      /\ first + over + RingCap >= Len(all) /\ first + over <= Len(all)
  <2>1. Len(all) \in Nat /\ Len(all) <= RingCap + 1
    BY <1>2, <1>3
  <2> QED BY <2>1
<1>7. PICK more \in 0..(Len(all) - first - over), counted \in {over, 1} :
              /\ delivered' = [delivered EXCEPT ![s] = 
                   (@ \o SubSeq(all, 1, first))
                     \o SubSeq(all, first + over + 1, first + over + more)]
              /\ pending' = [pending EXCEPT ![s] =
                   SubSeq(all, first + over + more + 1, Len(all))]
              /\ chunksDropped' = chunksDropped + counted
  BY <1>5
<1> DEFINE b == first + over
           e == first + over + more
           sent == (delivered[s] \o SubSeq(all, 1, first)) \o SubSeq(all, b + 1, e)
           left == SubSeq(all, e + 1, Len(all))
<1>8. /\ first \in Nat /\ b \in Nat /\ e \in Nat
      /\ first <= b /\ b <= first + 1 /\ b <= e /\ e <= Len(pending[s]) + 1
      /\ Len(pending[s]) + 1 - e <= RingCap
  <2>1. more \in Nat /\ more <= Len(all) - first - over
    BY <1>2, <1>3, <1>6, <1>7
  <2>2. /\ first + over + more \in Nat /\ first + over + more <= Len(all)
        /\ first + over + more + RingCap >= Len(all) /\ first + over \in Nat
        /\ first + over <= first + 1 /\ first + over <= first + over + more
    <3> HIDE DEF over
    <3> QED BY <2>1, <1>6
  <2>3. e <= Len(pending[s]) + 1
    BY <2>2, <1>3
  <2>4. Len(all) = Len(pending[s]) + 1 /\ Len(pending[s]) \in Nat /\ RingCap \in Nat
    BY <1>2, <1>3
  <2>5. e \in Nat /\ e + RingCap >= Len(all)
    BY <2>2
  <2> HIDE DEF over, e, all
  <2>6. Len(pending[s]) + 1 - e <= RingCap
    BY <2>4, <2>5
  <2>7. e <= Len(pending[s]) + 1
    BY <2>3
  <2> QED BY <1>6, <2>2, <2>5, <2>6, <2>7 DEF e
<1>9. /\ delivered' = [delivered EXCEPT ![s] = sent]
      /\ pending' = [pending EXCEPT ![s] = left]
  BY <1>7
<1> HIDE DEF b, e, s, n
<1>11. /\ sent \in Seq(Nat) /\ left \in Seq(Nat)
       /\ Len(left) = Len(pending[s]) + 1 - e
       /\ Increasing(sent \o left)
       /\ Elements(sent \o left) \subseteq InClient(s) \cup {n}
       /\ \E v : InClient(s) \cup {n} \subseteq Elements(sent \o left) \cup {v}
       /\ b = first => InClient(s) \cup {n} \subseteq Elements(sent \o left)
  <2>1. /\ Increasing(delivered[s] \o pending[s])
        /\ Ahead(Elements(delivered[s] \o pending[s]), {n})
        /\ InClient(s) = Elements(delivered[s] \o pending[s])
    BY <1>2 DEF s, n
  <2>2. SendLeaves(delivered[s], pending[s], n, first, b, e)
    BY <1>1, <1>2, <1>8, SendSequences
  <2> QED BY <2>1, <2>2 DEF SendLeaves, all
<1> HIDE DEF sent, left
<1>12. /\ delivered'[s] = sent /\ pending'[s] = left
       /\ \A t \in Sources : t # s => /\ delivered'[t] = delivered[t]
                                      /\ pending'[t] = pending[t]
       /\ delivered' \in [Sources -> Seq(Nat)]
       /\ pending' \in [Sources -> Seq(Nat)]
       /\ \A t \in Sources : Len(pending'[t]) <= RingCap
  BY <1>1, <1>8, <1>9, <1>11 DEF TypeOK
<1>13. Sent(s)' = sent \o left /\ InClient(s)' = Elements(sent \o left)
  BY <1>12 DEF Sent, InClient, Elements, s
<1>14. \A t \in Sources : t # s => Sent(t)' = Sent(t)
  BY <1>12 DEF Sent
<1>15. counted \in {0, 1} /\ (counted = 0 => over = 0)
  BY <1>6, <1>7
<1>16. chunksDropped' = chunksDropped + counted /\ chunksDropped' \in Nat
  BY <1>7, <1>15, <1>2
<1>17. over = 0 => b = first
  BY <1>7 DEF b
<1>18. \/ /\ InClient(s) \cup {n} \subseteq InClient(s)'
          /\ chunksDropped' >= chunksDropped
       \/ /\ \E x : InClient(s) \cup {n} \subseteq InClient(s)' \cup {x}
          /\ chunksDropped' >= chunksDropped + 1
  <2>1. CASE counted = 0
    BY <2>1, <1>2, <1>11, <1>13, <1>15, <1>16, <1>17
  <2>2. CASE counted = 1
    <3>1. chunksDropped' >= chunksDropped + 1
      BY <2>2, <1>2, <1>16
    <3>2. \E x : InClient(s) \cup {n} \subseteq InClient(s)' \cup {x}
      BY <1>11, <1>13
    <3> QED BY <3>1, <3>2
  <2> QED BY <2>1, <2>2, <1>15
<1> QED BY <1>11, <1>12, <1>13, <1>14, <1>16, <1>18 DEF s, n

\* An archived chunk comes behind what is archived, whether its file is written
\* or not.
LEMMA Saves ==
  ASSUME TypeOK, NEW c \in Chunk, NEW raised \in BOOLEAN, Save(c, raised),
         Increasing(Kept(c[1])), Ahead(InArchive(c[1]), {c[2]})
  PROVE  /\ filed' \in [Sources -> Seq(Nat)] /\ held' \in [Sources -> Seq(Nat)]
         /\ writeFailed' \in BOOLEAN
         /\ \A s \in Sources : s # c[1] => Kept(s)' = Kept(s)
         /\ Increasing(Kept(c[1]))'
         /\ InArchive(c[1])' = InArchive(c[1]) \cup {c[2]}
<1> DEFINE s == c[1]
           n == c[2]
           chunks == Append(held[s], n)
           kept == filed[s] \o held[s]
<1>1. /\ s \in Sources /\ n \in Nat
      /\ Increasing(Kept(s)) /\ Ahead(InArchive(s), {n})
  BY ChunkIsPair
<1> HIDE DEF s, n
<1>2. /\ filed[s] \in Seq(Nat) /\ held[s] \in Seq(Nat) /\ kept \in Seq(Nat)
      /\ Kept(s) = kept /\ InArchive(s) = Elements(kept)
  BY <1>1, SequencesOfNumbers DEF Kept
<1>3. /\ chunks \in Seq(Nat) /\ <<n>> \in Seq(Nat) /\ chunks = held[s] \o <<n>>
      /\ Elements(<<n>>) = {n} /\ Increasing(<<n>>)
  BY <1>1, <1>2, Appended, AppendProperties
<1>4. filed[s] \o chunks = kept \o <<n>>
  <2> DEFINE f == filed[s]
             h == held[s]
             one == <<n>>
  <2>1. f \in Seq(Nat) /\ h \in Seq(Nat) /\ one \in Seq(Nat)
    BY <1>2, <1>3
  <2>2. chunks = h \o one /\ kept = f \o h
    BY <1>3
  <2> HIDE DEF f, h, one, chunks, kept
  <2>3. (f \o h) \o one = f \o (h \o one)
    BY <2>1, ConcatAssociative, SMTT(30)
  <2>4. f \o chunks = kept \o one
    BY <2>2, <2>3
  <2> QED BY <2>4 DEF f, one
<1>5. /\ filed[s] \o chunks \in Seq(Nat)
      /\ (filed[s] \o chunks) \o <<>> = filed[s] \o chunks
  BY <1>2, <1>3, ConcatProperties, ConcatEmptySeq
<1>6. /\ Elements(filed[s] \o chunks) = InArchive(s) \cup {n}
      /\ Increasing(filed[s] \o chunks)
  <2>1. Elements(kept \o <<n>>) = Elements(kept) \cup {n}
    <3> DEFINE one == <<n>>
    <3>1. kept \in Seq(Nat) /\ one \in Seq(Nat) /\ Elements(one) = {n}
      BY <1>2, <1>3
    <3> HIDE DEF kept, one
    <3>2. Elements(kept \o one) = Elements(kept) \cup Elements(one)
      BY <3>1, ElementsOfConcat
    <3> QED BY <3>1, <3>2 DEF one
  <2>2. Increasing(kept \o <<n>>)
    <3>1. Increasing(kept) /\ Ahead(Elements(kept), Elements(<<n>>))
      BY <1>1, <1>2, <1>3
    <3> HIDE DEF kept
    <3> QED BY <1>2, <1>3, <3>1, IncreasingConcat
  <2> QED BY <2>1, <2>2, <1>2, <1>4
<1> HIDE DEF kept, chunks
<1>7. /\ writeFailed' \in BOOLEAN
      /\ \/ /\ filed' = filed /\ held' = [held EXCEPT ![s] = chunks]
         \/ /\ filed' = [filed EXCEPT ![s] = filed[s] \o chunks]
            /\ held' = [held EXCEPT ![s] = <<>>]
  <2>1. writeFailed' = (writeFailed \/ raised)
    BY DEF Save
  <2> QED BY <2>1 DEF Save, FlushSource, chunks, TypeOK, s, n
<1>8. /\ filed' \in [Sources -> Seq(Nat)] /\ held' \in [Sources -> Seq(Nat)]
      /\ \A t \in Sources : t # s => filed'[t] = filed[t] /\ held'[t] = held[t]
      /\ \/ filed'[s] = filed[s] /\ held'[s] = chunks
         \/ filed'[s] = filed[s] \o chunks /\ held'[s] = <<>>
  <2>1. <<>> \in Seq(Nat)
    BY EmptySeq
  <2>2. filed[s] \o chunks \in Seq(Nat) /\ chunks \in Seq(Nat)
    BY <1>3, <1>5
  <2>3. filed \in [Sources -> Seq(Nat)] /\ held \in [Sources -> Seq(Nat)]
    BY DEF TypeOK
  <2>4. CASE filed' = filed /\ held' = [held EXCEPT ![s] = chunks]
    BY <2>2, <2>3, <2>4, <1>1
  <2>5. CASE /\ filed' = [filed EXCEPT ![s] = filed[s] \o chunks]
             /\ held' = [held EXCEPT ![s] = <<>>]
    BY <2>1, <2>2, <2>3, <2>5, <1>1
  <2> QED BY <2>4, <2>5, <1>7
<1>9. filed'[s] \o held'[s] = filed[s] \o chunks
  BY <1>5, <1>8
<1>10. /\ Kept(s)' = filed[s] \o chunks /\ InArchive(s)' = Elements(filed[s] \o chunks)
       /\ \A t \in Sources : t # s => Kept(t)' = Kept(t)
  BY <1>8, <1>9 DEF Kept, InArchive, Elements
<1> QED BY <1>6, <1>7, <1>8, <1>10 DEF s, n

\* A chunk that is handed over reaches the archive before the client; it, or an
\* older one of its client, is given up at most, and then it is counted.
LEMMA HandsOver ==
  ASSUME TypeOK, RingCap \in Nat, NEW c \in Chunk, HandOver(c),
         Increasing(Sent(c[1])), Increasing(Kept(c[1])),
         InClient(c[1]) \subseteq InArchive(c[1]), Ahead(InArchive(c[1]), {c[2]})
  PROVE  /\ delivered' \in [Sources -> Seq(Nat)]
         /\ pending' \in [Sources -> Seq(Nat)]
         /\ \A s \in Sources : Len(pending'[s]) <= RingCap
         /\ filed' \in [Sources -> Seq(Nat)] /\ held' \in [Sources -> Seq(Nat)]
         /\ writeFailed' \in BOOLEAN /\ chunksDropped' \in Nat
         /\ \A s \in Sources : s # c[1] => Sent(s)' = Sent(s) /\ Kept(s)' = Kept(s)
         /\ Increasing(Sent(c[1]))' /\ Increasing(Kept(c[1]))'
         /\ InClient(c[1])' \subseteq InArchive(c[1])'
         /\ InArchive(c[1])' \subseteq InArchive(c[1]) \cup {c[2]}
         /\ \/ /\ InClient(c[1]) \cup {c[2]} \subseteq InClient(c[1])'
               /\ chunksDropped' >= chunksDropped
            \/ /\ \E x : InClient(c[1]) \cup {c[2]} \subseteq InClient(c[1])' \cup {x}
               /\ chunksDropped' >= chunksDropped + 1
<1> DEFINE s == c[1]
<1>1. s \in Sources
  BY ChunkIsPair
<1>2. CASE Save(c, FALSE) /\ ClientSend(c)
  <2>1. Ahead(InClient(s), {c[2]})
    BY DEF Ahead
  <2>2. /\ filed' \in [Sources -> Seq(Nat)] /\ held' \in [Sources -> Seq(Nat)]
        /\ writeFailed' \in BOOLEAN
        /\ \A t \in Sources : t # s => Kept(t)' = Kept(t)
        /\ Increasing(Kept(s))' /\ InArchive(s)' = InArchive(s) \cup {c[2]}
    BY <1>2, Saves
  <2>3. /\ delivered' \in [Sources -> Seq(Nat)]
        /\ pending' \in [Sources -> Seq(Nat)]
        /\ \A t \in Sources : Len(pending'[t]) <= RingCap
        /\ chunksDropped' \in Nat
        /\ \A t \in Sources : t # s => Sent(t)' = Sent(t)
        /\ Increasing(Sent(s))'
        /\ InClient(s)' \subseteq InClient(s) \cup {c[2]}
        /\ \/ /\ InClient(s) \cup {c[2]} \subseteq InClient(s)'
              /\ chunksDropped' >= chunksDropped
           \/ /\ \E x : InClient(s) \cup {c[2]} \subseteq InClient(s)' \cup {x}
              /\ chunksDropped' >= chunksDropped + 1
    BY <1>2, <2>1, ClientSends
  <2> QED BY <2>2, <2>3
<1>3. CASE /\ Save(c, TRUE) \/ UNCHANGED archiveVars
           /\ chunksDropped' = chunksDropped + 1
           /\ UNCHANGED clientVars
  <2>1. /\ delivered' = delivered /\ pending' = pending
        /\ \A t \in Sources : Sent(t)' = Sent(t) /\ InClient(t)' = InClient(t)
    BY <1>3 DEF clientVars, Sent, InClient
  <2>2. /\ chunksDropped \in Nat /\ chunksDropped' = chunksDropped + 1
        /\ delivered \in [Sources -> Seq(Nat)] /\ pending \in [Sources -> Seq(Nat)]
        /\ \A t \in Sources : Len(pending[t]) <= RingCap
    BY <1>3 DEF TypeOK
  <2>3. /\ filed' \in [Sources -> Seq(Nat)] /\ held' \in [Sources -> Seq(Nat)]
        /\ writeFailed' \in BOOLEAN
        /\ \A t \in Sources : t # s => Kept(t)' = Kept(t)
        /\ Increasing(Kept(s))'
        /\ InArchive(s) \subseteq InArchive(s)'
        /\ InArchive(s)' \subseteq InArchive(s) \cup {c[2]}
    <3>1. CASE Save(c, TRUE)
      BY <3>1, Saves
    <3>2. CASE UNCHANGED archiveVars
      <4>1. filed' = filed /\ held' = held /\ writeFailed' = writeFailed
        BY <3>2 DEF archiveVars
      <4>2. /\ filed \in [Sources -> Seq(Nat)] /\ held \in [Sources -> Seq(Nat)]
            /\ writeFailed \in BOOLEAN
        BY DEF TypeOK
      <4>3. \A t \in Sources : Kept(t)' = Kept(t) /\ InArchive(t)' = InArchive(t)
        BY <4>1 DEF Kept, InArchive
      <4>4. Increasing(Kept(s))'
        BY <4>1 DEF Kept, Increasing
      <4> QED BY <4>1, <4>2, <4>3, <4>4, <1>1
    <3> QED BY <1>3, <3>1, <3>2
  <2>4. Increasing(Sent(s))'
    BY <2>1 DEF Increasing, Sent
  <2>5. InClient(s) \cup {c[2]} \subseteq InClient(s)' \cup {c[2]}
    BY <2>1, <1>1
  <2>6. chunksDropped' \in Nat /\ chunksDropped' >= chunksDropped + 1
    BY <2>2
  <2> QED BY <1>1, <2>1, <2>2, <2>3, <2>4, <2>5, <2>6
<1> QED BY <1>2, <1>3 DEF HandOver

-----------------------------------------------------------------------------
(* The queue *)

LEMMA QueueShape ==
  ASSUME TypeOK
  PROVE  /\ queue \in Seq(Chunk) /\ Len(queue) \in Nat /\ DOMAIN queue = 1..Len(queue)
         /\ \A i \in DOMAIN queue : queue[i] \in Chunk
         /\ Len(queue) <= QueueCap
BY ElementOfSeq DEF TypeOK

\* A reader puts its chunk at the end.
LEMMA QueueAppends ==
  ASSUME TypeOK, QueueCap \in Nat, NEW r \in Sources, HasRoom, Queued(r),
         <<r, hand[r]>> \in Chunk
  PROVE  /\ queue' \in Seq(Chunk) /\ Len(queue') <= QueueCap
         /\ \A s \in Sources : s # r =>
              InQueue(s)' = InQueue(s) /\ (QueueOrder(s) => QueueOrder(s)')
         /\ InQueue(r)' = InQueue(r) \cup {hand[r]}
         /\ QueueOrder(r) /\ Ahead(InQueue(r), {hand[r]}) => QueueOrder(r)'
<1> DEFINE c == <<r, hand[r]>>
           n == Len(queue)
<1>1. /\ n \in Nat /\ DOMAIN queue = 1..n /\ n + 1 <= QueueCap
  BY QueueShape DEF HasRoom
<1>2. /\ queue' \in Seq(Chunk) /\ Len(queue') = n + 1
      /\ \A i \in 1..n : queue'[i] = queue[i]
      /\ queue'[n + 1] = c
  BY QueueShape, AppendProperties DEF Queued
<1>3. DOMAIN queue' = 1..(n + 1)
  BY <1>2, LenProperties
<1>4. c[1] = r /\ c[2] = hand[r]
  OBVIOUS
<1> HIDE DEF c, n
<1>5. \A s \in Sources : s # r => Mine(s)' = Mine(s)
  BY <1>1, <1>2, <1>3, <1>4 DEF Mine
<1>6. Mine(r)' = Mine(r) \cup {n + 1}
  BY <1>1, <1>2, <1>3, <1>4 DEF Mine
<1>7. \A s \in Sources : \A i \in Mine(s) : i \in 1..n /\ queue'[i] = queue[i]
  BY <1>1, <1>2 DEF Mine
<1>8. ASSUME NEW s \in Sources, s # r
      PROVE  InQueue(s)' = InQueue(s) /\ (QueueOrder(s) => QueueOrder(s)')
  <2>1. InQueue(s)' = InQueue(s)
    BY <1>5, <1>7, <1>8 DEF InQueue
  <2>2. QueueOrder(s) => QueueOrder(s)'
    BY <1>5, <1>7, <1>8 DEF QueueOrder
  <2> QED BY <2>1, <2>2
<1>9. InQueue(r)' = InQueue(r) \cup {hand[r]}
  BY <1>2, <1>4, <1>6, <1>7 DEF InQueue
<1>10. ASSUME QueueOrder(r), Ahead(InQueue(r), {hand[r]}) PROVE QueueOrder(r)'
  <2>1. ASSUME NEW i \in Mine(r), NEW j \in Mine(r), i < j
        PROVE  queue'[i][2] < queue'[j][2]
    BY <1>7, <1>10, <2>1 DEF QueueOrder
  <2>2. ASSUME NEW i \in Mine(r) PROVE queue'[i][2] < queue'[n + 1][2]
    BY <1>2, <1>4, <1>7, <1>10 DEF Ahead, InQueue
  <2>3. \A i \in Mine(r) : ~(n + 1 < i)
    BY <1>1, <1>7
  <2>4. ~(n + 1 < n + 1)
    BY <1>1
  <2> QED BY <1>6, <2>1, <2>2, <2>3, <2>4 DEF QueueOrder
<1> QED BY <1>1, <1>2, <1>8, <1>9, <1>10

\* The oldest chunk leaves the queue.
LEMMA QueueTail ==
  ASSUME TypeOK, NEW c, queue # <<>>, c = Head(queue), queue' = Tail(queue)
  PROVE  /\ c \in Chunk /\ queue' \in Seq(Chunk) /\ Len(queue') <= QueueCap
         /\ \A s \in Sources : s # c[1] => InQueue(s)' = InQueue(s)
         /\ InQueue(c[1]) = InQueue(c[1])' \cup {c[2]}
         /\ \A s \in Sources : QueueOrder(s) => QueueOrder(s)'
         /\ QueueOrder(c[1]) => Ahead({c[2]}, InQueue(c[1])')
<1> DEFINE n == Len(queue)
<1>1. /\ n \in Nat /\ DOMAIN queue = 1..n /\ n <= QueueCap /\ queue \in Seq(Chunk)
  BY QueueShape
<1>2. /\ c \in Chunk /\ queue' \in Seq(Chunk) /\ Len(queue') = n - 1
      /\ \A i \in 1..(n - 1) : queue'[i] = queue[i + 1]
      /\ c = queue[1] /\ n > 0
  BY <1>1, HeadTailProperties, EmptySeq
<1>3. DOMAIN queue' = 1..(n - 1)
  BY <1>2, LenProperties
<1>4. Len(queue') <= QueueCap
  <2>1. QueueCap \in Nat
    BY ConstantsAssumption
  <2> QED BY <1>1, <1>2, <2>1
<1> HIDE DEF n
<1>5. \A s : Mine(s)' = {i \in 1..(n - 1) : i + 1 \in Mine(s)}
  BY <1>1, <1>2, <1>3 DEF Mine
<1>6. \A s : \A i \in Mine(s)' : i + 1 \in Mine(s) /\ i \in Int /\ queue'[i] = queue[i + 1]
  BY <1>2, <1>5
<1>7. \A s : \A i \in Mine(s) : i \in 1..n /\ (i = 1 \/ i - 1 \in Mine(s)')
  <2>1. ASSUME NEW s, NEW i \in Mine(s), i # 1
        PROVE  i - 1 \in 1..(n - 1) /\ (i - 1) + 1 = i
    BY <1>1, <2>1 DEF Mine
  <2> QED BY <1>1, <1>5, <2>1 DEF Mine
<1>8. 1 \in Mine(c[1]) /\ \A s : 1 \in Mine(s) => s = c[1]
  BY <1>1, <1>2 DEF Mine
<1>9. ASSUME NEW s, NEW x
      PROVE  x \in InQueue(s)' <=> \E i \in Mine(s)' : x = queue[i + 1][2]
  <2>1. x \in InQueue(s)' <=> \E i \in Mine(s)' : x = queue'[i][2]
    BY DEF InQueue
  <2>2. \A i \in Mine(s)' : queue'[i][2] = queue[i + 1][2]
    BY <1>6
  <2> QED BY <2>1, <2>2
<1>10. \A s : InQueue(s)' \subseteq InQueue(s)
  <2>1. \A s : \A i \in Mine(s)' : queue[i + 1][2] \in InQueue(s)
    BY <1>6 DEF InQueue
  <2> QED BY <1>9, <2>1
<1>11. ASSUME NEW s, NEW i \in Mine(s), i # 1 PROVE queue[i][2] \in InQueue(s)'
  <2>1. i - 1 \in Mine(s)' /\ (i - 1) + 1 = i
    BY <1>7, <1>11
  <2>2. queue[(i - 1) + 1][2] \in InQueue(s)'
    BY <2>1, <1>9
  <2> QED BY <2>1, <2>2
<1>12. \A s \in Sources : s # c[1] => InQueue(s)' = InQueue(s)
  BY <1>8, <1>10, <1>11 DEF InQueue
<1>13. InQueue(c[1]) = InQueue(c[1])' \cup {c[2]}
  <2>1. c[2] \in InQueue(c[1])
    BY <1>2, <1>8 DEF InQueue
  <2>2. \A i \in Mine(c[1]) : queue[i][2] \in InQueue(c[1])' \cup {c[2]}
    BY <1>2, <1>11
  <2>3. InQueue(c[1]) \subseteq InQueue(c[1])' \cup {c[2]}
    BY <2>2 DEF InQueue
  <2> QED BY <1>10, <2>1, <2>3
<1>14. ASSUME NEW s \in Sources, QueueOrder(s) PROVE QueueOrder(s)'
  <2>1. ASSUME NEW i \in Mine(s)', NEW j \in Mine(s)', i < j
        PROVE  queue'[i][2] < queue'[j][2]
    <3>1. i + 1 \in Mine(s) /\ j + 1 \in Mine(s) /\ i + 1 < j + 1
      BY <1>6, <2>1
    <3>2. queue[i + 1][2] < queue[j + 1][2]
      BY <3>1, <1>14 DEF QueueOrder
    <3> QED BY <3>2, <1>6
  <2> QED BY <2>1 DEF QueueOrder
<1>15. ASSUME QueueOrder(c[1]) PROVE Ahead({c[2]}, InQueue(c[1])')
  <2>1. ASSUME NEW i \in Mine(c[1])' PROVE c[2] < queue[i + 1][2]
    <3>1. i + 1 \in Mine(c[1]) /\ 1 < i + 1
      BY <1>5, <1>6
    <3> QED BY <3>1, <1>2, <1>8, <1>15 DEF QueueOrder
  <2> QED BY <2>1, <1>9 DEF Ahead
<1> QED BY <1>2, <1>4, <1>12, <1>13, <1>14, <1>15

-----------------------------------------------------------------------------
(* What moves in one step *)

Base == TypeOK /\ Control /\ \A s \in Sources : Flow(s)

\* Nothing of source s moves.
Still(s) ==
  /\ Sent(s)' = Sent(s) /\ Kept(s)' = Kept(s) /\ made'[s] = made[s]
  /\ InMain(s)' = InMain(s) /\ InQueue(s)' = InQueue(s) /\ InHand(s)' = InHand(s)
  /\ QueueOrder(s) => QueueOrder(s)'

\* What a step loses, of what is there before or made by it, is in X.
Loses(X) ==
  \A s \in Sources : \A n \in 1..made'[s] :
    \/ n \in 1..made[s] /\ n \notin OnTheWay(s)
    \/ n \in OnTheWay(s)'
    \/ <<s, n>> \in X

LEMMA Unmoved ==
  ASSUME NEW s \in Sources
  PROVE  /\ queue' = queue => InQueue(s)' = InQueue(s) /\ QueueOrder(s)' = QueueOrder(s)
         /\ cur' = cur => InMain(s)' = InMain(s)
         /\ hand'[s] = hand[s] => InHand(s)' = InHand(s)
         /\ delivered'[s] = delivered[s] /\ pending'[s] = pending[s]
              => Sent(s)' = Sent(s)
         /\ filed'[s] = filed[s] /\ held'[s] = held[s] => Kept(s)' = Kept(s)
BY DEF InQueue, Mine, QueueOrder, InMain, InHand, Sent, Kept

LEMMA SameClient ==
  ASSUME NEW s \in Sources
  PROVE  /\ Sent(s)' = Sent(s) => InClient(s)' = InClient(s)
         /\ Kept(s)' = Kept(s) => InArchive(s)' = InArchive(s)
BY DEF InClient, InArchive

\* What is further back may disappear.
LEMMA Shrinks ==
  ASSUME NEW s \in Sources, Flow(s), made'[s] = made[s],
         Sent(s)' = Sent(s), Kept(s)' = Kept(s), QueueOrder(s)',
         InMain(s)' \subseteq InMain(s), InQueue(s)' \subseteq InQueue(s),
         InHand(s)' \subseteq InHand(s)
  PROVE  Flow(s)'
<1>1. InClient(s)' = InClient(s) /\ InArchive(s)' = InArchive(s)
  BY SameClient
<1>2. Increasing(Sent(s))' /\ Increasing(Kept(s))'
  BY DEF Flow
<1>3. Behind(s)' \subseteq Behind(s)
  BY DEF Behind
<1>4. Ahead(InArchive(s), Behind(s))'
  BY <1>1, <1>3 DEF Flow, Ahead
<1>5. Ahead(InMain(s), InQueue(s) \cup InHand(s))'
  BY DEF Flow, Ahead
<1>6. Ahead(InQueue(s), InHand(s))'
  BY DEF Flow, Ahead
<1>7. InClient(s)' \subseteq InArchive(s)' /\ (InArchive(s) \cup Behind(s))' \subseteq 1..made'[s]
  BY <1>1, <1>3 DEF Flow
<1> QED BY <1>2, <1>4, <1>5, <1>6, <1>7 DEF Flow

LEMMA StillFlows ==
  ASSUME NEW s \in Sources, Flow(s), Still(s)
  PROVE  Flow(s)' /\ OnTheWay(s)' = OnTheWay(s)
<1>1. QueueOrder(s)'
  BY DEF Flow, Still
<1>2. Flow(s)'
  BY <1>1, Shrinks DEF Still
<1>3. InClient(s)' = InClient(s)
  BY SameClient DEF Still
<1> QED BY <1>2, <1>3 DEF OnTheWay, Still

\* All sources but s are still; what s loses is in X.
LEMMA OneMoves ==
  ASSUME Base, NEW s \in Sources, \A t \in Sources \ {s} : Still(t),
         Flow(s)', NEW X,
         \A n \in 1..made'[s] : \/ n \in 1..made[s] /\ n \notin OnTheWay(s)
                                \/ n \in OnTheWay(s)'
                                \/ <<s, n>> \in X
  PROVE  (\A t \in Sources : Flow(t)') /\ Loses(X)
<1>1. ASSUME NEW t \in Sources \ {s}
      PROVE  Flow(t)' /\ OnTheWay(t)' = OnTheWay(t) /\ made'[t] = made[t]
  BY <1>1, StillFlows DEF Base, Still
<1>2. \A t \in Sources : Flow(t)'
  BY <1>1
<1>3. ASSUME NEW t \in Sources \ {s}, NEW n \in 1..made'[t]
      PROVE  \/ n \in 1..made[t] /\ n \notin OnTheWay(t)
             \/ n \in OnTheWay(t)'
  BY <1>1, <1>3
<1> QED BY <1>2, <1>3 DEF Loses

LEMMA NoneMoves ==
  ASSUME Base, \A t \in Sources : Still(t)
  PROVE  (\A t \in Sources : Flow(t)') /\ Loses({})
<1>1. ASSUME NEW t \in Sources
      PROVE  Flow(t)' /\ OnTheWay(t)' = OnTheWay(t) /\ made'[t] = made[t]
  BY <1>1, StillFlows DEF Base, Still
<1> QED BY <1>1 DEF Loses

\* Steps of the main thread, of the callbacks and of the readers that move no
\* chunk.
LEMMA Idle ==
  ASSUME Base, made' = made, hand' = hand, queue' = queue, cur' = cur,
         UNCHANGED clientVars, UNCHANGED <<filed, held>>
  PROVE  (\A t \in Sources : Flow(t)') /\ Loses({})
<1>1. \A t \in Sources : Still(t)
  BY Unmoved DEF clientVars, Still
<1> QED BY <1>1, NoneMoves

-----------------------------------------------------------------------------
(* The readers' steps *)

LEMMA HandIsChunk ==
  ASSUME Base, NEW s \in Sources, reader[s] \in {"put", "evict", "retry"}
  PROVE  /\ hand[s] \in Nat /\ hand[s] # 0 /\ InHand(s) = {hand[s]}
         /\ <<s, hand[s]>> \in Chunk
<1>1. hand[s] # 0 /\ hand[s] \in Nat /\ hand[s] <= made[s]
      /\ made[s] <= MaxChunks[s] /\ made[s] \in Nat
  BY DEF Base, Control, TypeOK
<1>2. hand[s] \in 1..MaxChunks[s]
  BY <1>1, ConstantsAssumption
<1> QED BY <1>1, <1>2, ChunkIsPair DEF InHand

LEMMA ReadFrameMoves ==
  ASSUME Base, NEW s \in Sources, ReadFrame(s)
  PROVE  (\A t \in Sources : Flow(t)') /\ Loses({})
<1>1. /\ queue' = queue /\ cur' = cur /\ delivered' = delivered
      /\ pending' = pending /\ filed' = filed /\ held' = held
  BY DEF ReadFrame, mainVars, clientVars, archiveVars
<1>2. CASE made' = made /\ hand' = hand
  BY <1>1, <1>2, Idle DEF clientVars
<1>3. CASE /\ made' = [made EXCEPT ![s] = @ + 1]
           /\ hand' = [hand EXCEPT ![s] = made[s] + 1]
  <2>1. /\ made[s] \in Nat /\ made'[s] = made[s] + 1 /\ hand'[s] = made[s] + 1
        /\ \A t \in Sources \ {s} : made'[t] = made[t] /\ hand'[t] = hand[t]
    BY <1>3 DEF Base, TypeOK
  <2>2. \A t \in Sources \ {s} : Still(t)
    BY <1>1, <2>1, Unmoved DEF Still
  <2>3. InHand(s) = {}
    BY DEF Base, Control, ReadFrame, InHand
  <2>4. InHand(s)' = {made[s] + 1}
    BY <2>1 DEF InHand
  <2>5. /\ Sent(s)' = Sent(s) /\ Kept(s)' = Kept(s) /\ InQueue(s)' = InQueue(s)
        /\ InMain(s)' = InMain(s) /\ QueueOrder(s)' = QueueOrder(s)
        /\ InClient(s)' = InClient(s) /\ InArchive(s)' = InArchive(s)
    BY <1>1, Unmoved, SameClient
  <2>6. Flow(s)
    BY DEF Base
  <2>7. Flow(s)'
    <3>1. \A n \in InArchive(s) \cup InMain(s) \cup InQueue(s) : n \in 1..made[s]
      BY <2>6 DEF Flow, Behind
    <3>2. \A n \in 1..made[s] : n < made[s] + 1 /\ n \in 1..(made[s] + 1)
      BY <2>1
    <3>3. Behind(s)' = InMain(s) \cup InQueue(s) \cup {made[s] + 1}
      BY <2>4, <2>5 DEF Behind
    <3>4. Ahead(InArchive(s), Behind(s))'
      BY <2>5, <2>6, <3>1, <3>2, <3>3 DEF Flow, Ahead, Behind
    <3>5. Ahead(InMain(s), InQueue(s) \cup InHand(s))'
      BY <2>4, <2>5, <2>6, <3>1, <3>2 DEF Flow, Ahead
    <3>6. Ahead(InQueue(s), InHand(s))'
      BY <2>4, <2>5, <2>6, <3>1, <3>2 DEF Ahead
    <3>7. (InArchive(s) \cup Behind(s))' \subseteq 1..made'[s]
      <4>1. made[s] + 1 \in 1..(made[s] + 1)
        BY <2>1
      <4> QED BY <4>1, <2>1, <2>5, <3>1, <3>2, <3>3
    <3>8. /\ Increasing(Sent(s))' /\ Increasing(Kept(s))' /\ QueueOrder(s)'
          /\ (InClient(s) \subseteq InArchive(s))'
      BY <2>5, <2>6 DEF Flow
    <3> QED BY <3>4, <3>5, <3>6, <3>7, <3>8 DEF Flow
  <2>8. ASSUME NEW n \in 1..made'[s], n \notin 1..made[s]
        PROVE  n \in OnTheWay(s)'
    <3>1. n = made[s] + 1
      BY <2>1, <2>8
    <3> QED BY <3>1, <2>4 DEF OnTheWay
  <2>9. OnTheWay(s) \subseteq OnTheWay(s)'
    BY <2>3, <2>5 DEF OnTheWay
  <2> QED BY <2>2, <2>7, <2>8, <2>9, OneMoves
<1> QED BY <1>2, <1>3 DEF ReadFrame, CutWindow

\* The chunk in hand goes into the queue.
LEMMA PutMoves ==
  ASSUME Base, NEW s \in Sources, reader[s] \in {"put", "retry"},
         HasRoom, Queued(s), hand' = [hand EXCEPT ![s] = 0], made' = made,
         cur' = cur, UNCHANGED clientVars, UNCHANGED <<filed, held>>
  PROVE  (\A t \in Sources : Flow(t)') /\ Loses({})
<1>1. QueueCap \in Nat /\ TypeOK
  BY ConstantsAssumption DEF Base
<1>2. InHand(s) = {hand[s]} /\ <<s, hand[s]>> \in Chunk
  BY HandIsChunk
<1>3. /\ \A t \in Sources : t # s =>
           InQueue(t)' = InQueue(t) /\ (QueueOrder(t) => QueueOrder(t)')
      /\ InQueue(s)' = InQueue(s) \cup {hand[s]}
      /\ QueueOrder(s) /\ Ahead(InQueue(s), {hand[s]}) => QueueOrder(s)'
  BY <1>1, <1>2, QueueAppends
<1>4. hand'[s] = 0 /\ \A t \in Sources \ {s} : hand'[t] = hand[t]
  BY <1>1 DEF TypeOK
<1>5. \A t \in Sources \ {s} : Still(t)
  BY <1>3, <1>4, Unmoved DEF Still, clientVars
<1>6. InHand(s)' = {}
  BY <1>4 DEF InHand
<1>7. /\ Sent(s)' = Sent(s) /\ Kept(s)' = Kept(s) /\ InMain(s)' = InMain(s)
      /\ InClient(s)' = InClient(s) /\ InArchive(s)' = InArchive(s)
  BY Unmoved, SameClient DEF clientVars
<1>8. Flow(s)
  BY DEF Base
<1>9. InQueue(s)' \cup InHand(s)' = InQueue(s) \cup InHand(s) /\ Behind(s)' = Behind(s)
  BY <1>2, <1>3, <1>6, <1>7 DEF Behind
<1>10. QueueOrder(s)'
  BY <1>2, <1>3, <1>8 DEF Flow
<1>11. Flow(s)'
  <2>1. Ahead(InArchive(s), Behind(s))' /\ (InArchive(s) \cup Behind(s))' \subseteq 1..made'[s]
    BY <1>7, <1>8, <1>9 DEF Flow, Ahead
  <2>2. Ahead(InMain(s), InQueue(s) \cup InHand(s))'
    BY <1>7, <1>8, <1>9 DEF Flow, Ahead
  <2>3. Ahead(InQueue(s), InHand(s))'
    BY <1>6 DEF Ahead
  <2>4. Increasing(Sent(s))' /\ Increasing(Kept(s))' /\ (InClient(s) \subseteq InArchive(s))'
    BY <1>7, <1>8 DEF Flow
  <2> QED BY <1>10, <2>1, <2>2, <2>3, <2>4 DEF Flow
<1>12. OnTheWay(s)' = OnTheWay(s)
  BY <1>7, <1>9 DEF OnTheWay
<1> QED BY <1>5, <1>11, <1>12, OneMoves

LEMMA EvictMoves ==
  ASSUME Base, NEW s \in Sources, EvictOldest(s)
  PROVE  (\A t \in Sources : Flow(t)') /\ \E c : Loses({c})
<1>1. /\ hand' = hand /\ made' = made /\ cur' = cur /\ UNCHANGED clientVars
      /\ filed' = filed /\ held' = held
  BY DEF EvictOldest, mainVars, archiveVars
<1>2. CASE queue = <<>>
  <2>1. queue' = queue
    BY <1>2 DEF EvictOldest
  <2>2. (\A t \in Sources : Flow(t)') /\ Loses({})
    BY <1>1, <2>1, Idle
  <2> QED BY <2>2 DEF Loses
<1>3. CASE queue # <<>>
  <2>1. PICK c : c = Head(queue)
    OBVIOUS
  <2>2. queue' = Tail(queue) /\ TypeOK
    BY <1>3 DEF EvictOldest, Base
  <2>3. /\ c \in Chunk
        /\ \A t \in Sources : t # c[1] => InQueue(t)' = InQueue(t)
        /\ InQueue(c[1]) = InQueue(c[1])' \cup {c[2]}
        /\ \A t \in Sources : QueueOrder(t) => QueueOrder(t)'
    BY <1>3, <2>1, <2>2, QueueTail
  <2>4. \A t \in Sources : InHand(t)' = InHand(t) /\ InMain(t)' = InMain(t)
                           /\ Sent(t)' = Sent(t) /\ Kept(t)' = Kept(t)
    BY <1>1, Unmoved DEF clientVars
  <2>5. \A t \in Sources \ {c[1]} : Still(t)
    BY <1>1, <2>3, <2>4 DEF Still
  <2>6. c[1] \in Sources /\ c = <<c[1], c[2]>>
    BY <2>3, ChunkIsPair
  <2>7. Flow(c[1])'
    <3>1. Flow(c[1])
      BY <2>6 DEF Base
    <3>2. QueueOrder(c[1])'
      BY <2>3, <2>6, <3>1 DEF Flow
    <3> QED BY <1>1, <2>3, <2>4, <2>6, <3>1, <3>2, Shrinks
  <2>8. OnTheWay(c[1]) \subseteq OnTheWay(c[1])' \cup {c[2]}
    BY <2>3, <2>4, <2>6, SameClient DEF OnTheWay
  <2>9. \A n \in 1..made'[c[1]] : \/ n \in 1..made[c[1]] /\ n \notin OnTheWay(c[1])
                                  \/ n \in OnTheWay(c[1])'
                                  \/ <<c[1], n>> \in {c}
    BY <1>1, <2>6, <2>8
  <2>10. (\A t \in Sources : Flow(t)') /\ Loses({c})
    BY <2>5, <2>6, <2>7, <2>9, OneMoves
  <2> QED BY <2>10
<1> QED BY <1>2, <1>3

\* The chunk in hand is dropped.
LEMMA HandDropped ==
  ASSUME Base, NEW s \in Sources, reader[s] = "retry",
         hand' = [hand EXCEPT ![s] = 0], made' = made, queue' = queue,
         cur' = cur, UNCHANGED clientVars, UNCHANGED <<filed, held>>
  PROVE  (\A t \in Sources : Flow(t)') /\ \E c : Loses({c})
<1>1. hand'[s] = 0 /\ \A t \in Sources \ {s} : hand'[t] = hand[t]
  BY DEF Base, TypeOK
<1>2. \A t \in Sources \ {s} : Still(t)
  BY <1>1, Unmoved DEF Still, clientVars
<1>3. InHand(s) = {hand[s]} /\ InHand(s)' = {}
  BY <1>1, HandIsChunk DEF InHand
<1>4. /\ Sent(s)' = Sent(s) /\ Kept(s)' = Kept(s) /\ InMain(s)' = InMain(s)
      /\ InQueue(s)' = InQueue(s) /\ QueueOrder(s)' = QueueOrder(s)
  BY Unmoved DEF clientVars
<1>5. Flow(s)'
  <2>1. Flow(s) /\ QueueOrder(s)
    BY DEF Base, Flow
  <2> QED BY <1>3, <1>4, <2>1, Shrinks
<1>6. OnTheWay(s) \subseteq OnTheWay(s)' \cup {hand[s]}
  BY <1>3, <1>4, SameClient DEF OnTheWay
<1>7. PICK c : c = <<s, hand[s]>>
  OBVIOUS
<1>8. \A n \in 1..made'[s] : \/ n \in 1..made[s] /\ n \notin OnTheWay(s)
                             \/ n \in OnTheWay(s)'
                             \/ <<s, n>> \in {c}
  BY <1>6, <1>7
<1> QED BY <1>2, <1>5, <1>8, OneMoves

-----------------------------------------------------------------------------
(* The main thread's steps *)

LEMMA GetMoves ==
  ASSUME Base, GetChunk
  PROVE  (\A t \in Sources : Flow(t)') /\ Loses({})
<1>1. /\ hand' = hand /\ made' = made /\ UNCHANGED clientVars
      /\ filed' = filed /\ held' = held
  BY DEF GetChunk, readerVars, archiveVars
<1>2. CASE queue = <<>>
  <2>1. queue' = queue /\ cur' = cur
    BY <1>2 DEF GetChunk
  <2> QED BY <1>1, <2>1, Idle
<1>3. CASE queue # <<>>
  <2>1. PICK c : c = Head(queue)
    OBVIOUS
  <2>2. queue' = Tail(queue) /\ cur' = c /\ TypeOK
    BY <1>3, <2>1 DEF GetChunk, Base
  <2>3. /\ c \in Chunk
        /\ \A t \in Sources : t # c[1] => InQueue(t)' = InQueue(t)
        /\ InQueue(c[1]) = InQueue(c[1])' \cup {c[2]}
        /\ \A t \in Sources : QueueOrder(t) => QueueOrder(t)'
        /\ QueueOrder(c[1]) => Ahead({c[2]}, InQueue(c[1])')
    BY <1>3, <2>1, <2>2, QueueTail
  <2>4. c[1] \in Sources /\ c = <<c[1], c[2]>> /\ c # <<>>
    BY <2>3, ChunkIsPair
  <2>5. \A t \in Sources : InMain(t) = {}
    BY DEF Base, Control, GetChunk, InMain
  <2>6. /\ InMain(c[1])' = {c[2]}
        /\ \A t \in Sources \ {c[1]} : InMain(t)' = {}
    BY <2>2, <2>4 DEF InMain
  <2>7. \A t \in Sources : InHand(t)' = InHand(t)
                           /\ Sent(t)' = Sent(t) /\ Kept(t)' = Kept(t)
    BY <1>1, Unmoved DEF clientVars
  <2>8. \A t \in Sources \ {c[1]} : Still(t)
    BY <1>1, <2>3, <2>5, <2>6, <2>7 DEF Still
  <2>9. /\ InClient(c[1])' = InClient(c[1]) /\ InArchive(c[1])' = InArchive(c[1])
        /\ Behind(c[1])' = Behind(c[1]) /\ made'[c[1]] = made[c[1]]
    BY <1>1, <2>3, <2>4, <2>5, <2>6, <2>7, SameClient DEF Behind
  <2>10. Flow(c[1])
    BY <2>4 DEF Base
  <2>11. Flow(c[1])'
    <3>1. Ahead(InArchive(c[1]), Behind(c[1]))'
      BY <2>9, <2>10 DEF Flow, Ahead
    <3>2. Ahead(InMain(c[1]), InQueue(c[1]) \cup InHand(c[1]))'
      <4>1. Ahead({c[2]}, InQueue(c[1])') /\ c[2] \in InQueue(c[1])
        BY <2>3, <2>10 DEF Flow
      <4>2. Ahead({c[2]}, InHand(c[1])')
        BY <2>4, <2>7, <2>10, <4>1 DEF Flow, Ahead
      <4> QED BY <2>6, <4>1, <4>2 DEF Ahead
    <3>3. Ahead(InQueue(c[1]), InHand(c[1]))'
      BY <2>3, <2>4, <2>7, <2>10 DEF Flow, Ahead
    <3>4. /\ Increasing(Sent(c[1]))' /\ Increasing(Kept(c[1]))' /\ QueueOrder(c[1])'
          /\ (InClient(c[1]) \subseteq InArchive(c[1]))'
          /\ (InArchive(c[1]) \cup Behind(c[1]))' \subseteq 1..made'[c[1]]
      BY <2>3, <2>4, <2>7, <2>9, <2>10 DEF Flow
    <3> QED BY <3>1, <3>2, <3>3, <3>4 DEF Flow
  <2>12. OnTheWay(c[1])' = OnTheWay(c[1])
    BY <2>9 DEF OnTheWay, Behind
  <2> QED BY <2>4, <2>8, <2>9, <2>11, <2>12, OneMoves
<1> QED BY <1>2, <1>3

\* The chunk that the main thread holds is muted.
LEMMA MuteMoves ==
  ASSUME Base, pc = "check", cur' = <<>>, made' = made, hand' = hand,
         queue' = queue, UNCHANGED clientVars, UNCHANGED <<filed, held>>
  PROVE  (\A t \in Sources : Flow(t)') /\ \E c : Loses({c})
<1>1. PICK c : c = cur
  OBVIOUS
<1>2. c \in Chunk /\ c[1] \in Sources /\ c = <<c[1], c[2]>>
  BY <1>1, ChunkIsPair DEF Base, Control, TypeOK
<1>3. /\ \A t \in Sources : InMain(t)' = {}
      /\ \A t \in Sources \ {c[1]} : InMain(t) = {}
      /\ InMain(c[1]) \subseteq {c[2]}
  BY <1>1, <1>2 DEF InMain
<1>4. \A t \in Sources : InHand(t)' = InHand(t) /\ InQueue(t)' = InQueue(t)
                         /\ Sent(t)' = Sent(t) /\ Kept(t)' = Kept(t)
                         /\ QueueOrder(t)' = QueueOrder(t)
  BY Unmoved DEF clientVars
<1>5. \A t \in Sources \ {c[1]} : Still(t)
  BY <1>3, <1>4 DEF Still
<1>6. Flow(c[1])'
  <2>1. Flow(c[1]) /\ QueueOrder(c[1])
    BY <1>2 DEF Base, Flow
  <2> QED BY <1>2, <1>3, <1>4, <2>1, Shrinks
<1>7. OnTheWay(c[1]) \subseteq OnTheWay(c[1])' \cup {c[2]}
  BY <1>2, <1>3, <1>4, SameClient DEF OnTheWay
<1>8. \A n \in 1..made'[c[1]] : \/ n \in 1..made[c[1]] /\ n \notin OnTheWay(c[1])
                                \/ n \in OnTheWay(c[1])'
                                \/ <<c[1], n>> \in {c}
  BY <1>2, <1>7
<1> QED BY <1>2, <1>5, <1>6, <1>8, OneMoves

\* A chunk is handed over that was the first of what is behind the archive.
LEMMA HandOverMoves ==
  ASSUME Base, NEW c \in Chunk, HandOver(c), made' = made, hand' = hand,
         \A t \in Sources \ {c[1]} :
           /\ InMain(t)' = InMain(t) /\ InQueue(t)' = InQueue(t)
           /\ QueueOrder(t) => QueueOrder(t)',
         QueueOrder(c[1])', c[2] \in Behind(c[1]),
         Behind(c[1]) \subseteq Behind(c[1])' \cup {c[2]},
         Behind(c[1])' \subseteq Behind(c[1]),
         Ahead({c[2]}, Behind(c[1])'),
         Ahead(InMain(c[1])', InQueue(c[1])' \cup InHand(c[1])'),
         InQueue(c[1])' \subseteq InQueue(c[1])
  PROVE  /\ \A t \in Sources : Flow(t)'
         /\ \/ Loses({}) /\ chunksDropped' >= chunksDropped
            \/ \E x : Loses({x}) /\ chunksDropped' >= chunksDropped + 1
<1> DEFINE s == c[1]
           n == c[2]
<1>1. s \in Sources /\ n \in Nat /\ RingCap \in Nat
  BY ChunkIsPair, ConstantsAssumption
<1>2. Flow(s) /\ TypeOK
  BY <1>1 DEF Base
<1>3. Ahead(InArchive(s), {n})
  BY <1>2 DEF Flow, Ahead
<1>4. /\ \A t \in Sources : t # s => Sent(t)' = Sent(t) /\ Kept(t)' = Kept(t)
      /\ Increasing(Sent(s))' /\ Increasing(Kept(s))'
      /\ InClient(s)' \subseteq InArchive(s)'
      /\ InArchive(s)' \subseteq InArchive(s) \cup {n}
      /\ \/ /\ InClient(s) \cup {n} \subseteq InClient(s)'
            /\ chunksDropped' >= chunksDropped
         \/ /\ \E x : InClient(s) \cup {n} \subseteq InClient(s)' \cup {x}
            /\ chunksDropped' >= chunksDropped + 1
  BY <1>1, <1>2, <1>3, HandsOver DEF Flow
<1>5. \A t \in Sources : InHand(t)' = InHand(t) /\ made'[t] = made[t]
  BY Unmoved
<1>6. \A t \in Sources \ {s} : Still(t)
  BY <1>4, <1>5 DEF Still
<1>7. Flow(s)'
  <2>1. Ahead(InArchive(s), Behind(s))'
    BY <1>2, <1>4 DEF Flow, Ahead
  <2>2. Ahead(InQueue(s), InHand(s))'
    BY <1>1, <1>2, <1>5 DEF Flow, Ahead
  <2>3. (InArchive(s) \cup Behind(s))' \subseteq 1..made'[s]
    BY <1>1, <1>2, <1>4, <1>5 DEF Flow
  <2> QED BY <1>4, <2>1, <2>2, <2>3 DEF Flow
<1>8. /\ OnTheWay(s) = InClient(s) \cup Behind(s)
      /\ OnTheWay(s)' = InClient(s)' \cup Behind(s)'
  BY DEF OnTheWay, Behind
<1>9. CASE InClient(s) \cup {n} \subseteq InClient(s)' /\ chunksDropped' >= chunksDropped
  <2>1. OnTheWay(s) \subseteq OnTheWay(s)'
    BY <1>8, <1>9
  <2> QED BY <1>1, <1>5, <1>6, <1>7, <1>9, <2>1, OneMoves
<1>10. CASE /\ \E x : InClient(s) \cup {n} \subseteq InClient(s)' \cup {x}
            /\ chunksDropped' >= chunksDropped + 1
  <2>1. PICK x : InClient(s) \cup {n} \subseteq InClient(s)' \cup {x}
    BY <1>10
  <2>2. OnTheWay(s) \subseteq OnTheWay(s)' \cup {x}
    BY <1>8, <2>1
  <2>3. PICK lost : lost = <<s, x>>
    OBVIOUS
  <2>4. \A m \in 1..made'[s] : \/ m \in 1..made[s] /\ m \notin OnTheWay(s)
                               \/ m \in OnTheWay(s)'
                               \/ <<s, m>> \in {lost}
    BY <1>1, <1>5, <2>2, <2>3
  <2>5. (\A t \in Sources : Flow(t)') /\ Loses({lost})
    BY <1>1, <1>6, <1>7, <2>4, OneMoves
  <2> QED BY <1>10, <2>5
<1> QED BY <1>4, <1>9, <1>10

LEMMA SendMoves ==
  ASSUME Base, SendChunk
  PROVE  /\ \A t \in Sources : Flow(t)'
         /\ \/ Loses({}) /\ chunksDropped' >= chunksDropped
            \/ \E x : Loses({x}) /\ chunksDropped' >= chunksDropped + 1
<1>1. PICK c : c = cur
  OBVIOUS
<1>2. /\ c \in Chunk /\ c[1] \in Sources /\ c # <<>>
  BY <1>1, ChunkIsPair DEF Base, Control, TypeOK, SendChunk
<1>3. /\ HandOver(c) /\ cur' = <<>> /\ made' = made /\ hand' = hand /\ queue' = queue
  BY <1>1 DEF SendChunk, readerVars
<1>4. /\ \A t \in Sources : InMain(t)' = {}
      /\ \A t \in Sources \ {c[1]} : InMain(t) = {}
      /\ InMain(c[1]) = {c[2]}
  BY <1>1, <1>2, <1>3 DEF InMain
<1>5. \A t \in Sources : InHand(t)' = InHand(t) /\ InQueue(t)' = InQueue(t)
                         /\ QueueOrder(t)' = QueueOrder(t)
  BY <1>3, Unmoved
<1>6. Flow(c[1])
  BY <1>2 DEF Base
<1>7. /\ Behind(c[1]) = {c[2]} \cup InQueue(c[1]) \cup InHand(c[1])
      /\ Behind(c[1])' = InQueue(c[1]) \cup InHand(c[1])
  BY <1>2, <1>4, <1>5 DEF Behind
<1>8. /\ QueueOrder(c[1])' /\ Ahead({c[2]}, Behind(c[1])')
      /\ Ahead(InMain(c[1])', InQueue(c[1])' \cup InHand(c[1])')
  BY <1>2, <1>4, <1>5, <1>6, <1>7 DEF Flow, Ahead
<1> QED BY <1>2, <1>3, <1>4, <1>5, <1>7, <1>8, HandOverMoves

LEMMA DrainMoves ==
  ASSUME Base, DrainChunk
  PROVE  /\ \A t \in Sources : Flow(t)'
         /\ \/ Loses({}) /\ chunksDropped' >= chunksDropped
            \/ \E x : Loses({x}) /\ chunksDropped' >= chunksDropped + 1
<1>1. PICK c : c = Head(queue)
  OBVIOUS
<1>2. /\ queue # <<>> /\ queue' = Tail(queue) /\ HandOver(c) /\ TypeOK
      /\ made' = made /\ hand' = hand /\ cur' = cur
  BY <1>1 DEF DrainChunk, Base, readerVars, mainVars
<1>3. /\ c \in Chunk
      /\ \A t \in Sources : t # c[1] => InQueue(t)' = InQueue(t)
      /\ InQueue(c[1]) = InQueue(c[1])' \cup {c[2]}
      /\ \A t \in Sources : QueueOrder(t) => QueueOrder(t)'
      /\ QueueOrder(c[1]) => Ahead({c[2]}, InQueue(c[1])')
  BY <1>1, <1>2, QueueTail
<1>4. c[1] \in Sources
  BY <1>3, ChunkIsPair
<1>5. \A t \in Sources : InMain(t) = {} /\ InMain(t)' = {}
  BY <1>2 DEF Base, Control, DrainChunk, InMain
<1>6. \A t \in Sources : InHand(t)' = InHand(t)
  BY <1>2, Unmoved
<1>7. Flow(c[1])
  BY <1>4 DEF Base
<1>8. /\ Behind(c[1]) = InQueue(c[1]) \cup InHand(c[1])
      /\ Behind(c[1])' = InQueue(c[1])' \cup InHand(c[1])
  BY <1>4, <1>5, <1>6 DEF Behind
<1>9. QueueOrder(c[1])' /\ Ahead({c[2]}, InQueue(c[1])')
  BY <1>3, <1>4, <1>7 DEF Flow
<1>10. Ahead({c[2]}, InHand(c[1])) /\ c[2] \in InQueue(c[1])
  BY <1>3, <1>7 DEF Flow, Ahead
<1>11. /\ Ahead({c[2]}, Behind(c[1])')
       /\ Ahead(InMain(c[1])', InQueue(c[1])' \cup InHand(c[1])')
  BY <1>4, <1>5, <1>8, <1>9, <1>10 DEF Ahead
<1> QED BY <1>2, <1>3, <1>4, <1>5, <1>8, <1>9, <1>10, <1>11, HandOverMoves

\* A flush sends the first of what waits; what the client holds stays.
LEMMA FlushMoves ==
  ASSUME Base, NEW s \in Sources, FlushClient(s)
  PROVE  /\ \A t \in Sources : Sent(t)' = Sent(t)
         /\ delivered' \in [Sources -> Seq(Nat)] /\ pending' \in [Sources -> Seq(Nat)]
         /\ \A t \in Sources : Len(pending'[t]) <= RingCap
         /\ \A t \in Sources : Flow(t)'
         /\ Loses({})
<1>1. TypeOK /\ RingCap \in Nat
  BY ConstantsAssumption DEF Base
<1>2. PICK n \in 1..Len(pending[s]) :
        /\ delivered' = [delivered EXCEPT ![s] = delivered[s] \o SubSeq(pending[s], 1, n)]
        /\ pending' = [pending EXCEPT ![s] = SubSeq(pending[s], n + 1, Len(pending[s]))]
  BY DEF FlushClient
<1> DEFINE d == delivered[s]
           p == pending[s]
           x == SubSeq(p, 1, n)
           y == SubSeq(p, n + 1, Len(p))
<1>3. /\ d \in Seq(Nat) /\ p \in Seq(Nat) /\ Sent(s) = d \o p
      /\ Len(p) \in Nat /\ Len(p) <= RingCap
  BY <1>1, SequencesOfNumbers DEF Sent, TypeOK
<1>4. delivered' = [delivered EXCEPT ![s] = d \o x] /\ pending' = [pending EXCEPT ![s] = y]
  BY <1>2
<1>5. /\ 1 \in Int /\ n \in Int /\ n + 1 \in Int /\ Len(p) \in Int /\ n <= Len(p)
      /\ n \in Nat
  BY <1>2, <1>3
<1> HIDE DEF d, p
<1>6. \A i \in 1..Len(p) : p[i] \in Nat
  BY <1>3, ElementOfSeq
<1>7. x \in Seq(Nat) /\ y \in Seq(Nat) /\ Len(y) <= RingCap
  <2>1. (\A i \in 1..n : p[i] \in Nat) /\ (\A i \in (n + 1)..Len(p) : p[i] \in Nat)
    BY <1>5, <1>6
  <2>2. x \in Seq(Nat)
    BY <1>5, <2>1, SubSeqProperties
  <2>3. y \in Seq(Nat) /\ Len(y) = IF n + 1 <= Len(p) THEN Len(p) - (n + 1) + 1 ELSE 0
    BY <1>5, <2>1, SubSeqProperties
  <2> HIDE DEF x, y
  <2> QED BY <1>1, <1>3, <1>5, <2>2, <2>3
<1>8. x \o y = p
  <2>1. 1 \in 1..(Len(p) + 1) /\ n \in (1 - 1)..Len(p) /\ Len(p) \in n..Len(p)
    BY <1>3, <1>5
  <2>2. SubSeq(p, 1, n) \o SubSeq(p, n + 1, Len(p)) = SubSeq(p, 1, Len(p))
    BY <1>3, <2>1, ConcatAdjacentSubSeq
  <2> QED BY <1>3, <2>2, SubSeqFull
<1> HIDE DEF x, y
<1>9. (d \o x) \o y = d \o p /\ d \o x \in Seq(Nat)
  <2>1. (d \o x) \o y = d \o (x \o y)
    BY <1>3, <1>7, ConcatAssociative, SMTT(30)
  <2>2. d \o x \in Seq(Nat)
    BY <1>3, <1>7, ConcatProperties
  <2> QED BY <2>1, <2>2, <1>8
<1>10. /\ delivered' \in [Sources -> Seq(Nat)] /\ pending' \in [Sources -> Seq(Nat)]
       /\ delivered'[s] = d \o x /\ pending'[s] = y
       /\ \A t \in Sources \ {s} : delivered'[t] = delivered[t] /\ pending'[t] = pending[t]
  BY <1>1, <1>4, <1>7, <1>9 DEF TypeOK
<1>11. \A t \in Sources : Len(pending'[t]) <= RingCap
  BY <1>1, <1>7, <1>10 DEF TypeOK
<1>12. \A t \in Sources : Sent(t)' = Sent(t)
  <2>1. Sent(s)' = (d \o x) \o y
    BY <1>10 DEF Sent
  <2>2. \A t \in Sources \ {s} : Sent(t)' = Sent(t)
    BY <1>10, Unmoved
  <2> QED BY <2>1, <2>2, <1>3, <1>9
<1>13. \A t \in Sources : Still(t)
  <2>1. /\ queue' = queue /\ cur' = cur /\ hand' = hand /\ made' = made
        /\ filed' = filed /\ held' = held
    BY DEF FlushClient, readerVars, mainVars, archiveVars
  <2> QED BY <1>12, <2>1, Unmoved DEF Still
<1> QED BY <1>10, <1>11, <1>12, <1>13, NoneMoves

LEMMA WaitingIsSent ==
  ASSUME Base
  PROVE  /\ Waiting \subseteq Chunk
         /\ \A s \in Sources : Elements(pending[s]) \subseteq InClient(s)
         /\ \A s \in Sources : InClient(s) = Elements(delivered[s]) \cup Elements(pending[s])
         /\ \A s \in Sources : \A n \in Elements(pending[s]) : <<s, n>> \in Waiting
<1>1. ASSUME NEW s \in Sources
      PROVE  InClient(s) = Elements(delivered[s]) \cup Elements(pending[s])
  <2>1. /\ delivered[s] \in Seq(Nat) /\ pending[s] \in Seq(Nat)
        /\ InClient(s) = Elements(Sent(s))
    BY SequencesOfNumbers DEF Base
  <2> QED BY <2>1, ElementsOfConcat DEF Sent
<1>2. ASSUME NEW s \in Sources, NEW n \in Elements(pending[s])
      PROVE  <<s, n>> \in Chunk
  <2>1. n \in 1..made[s] /\ made[s] \in Nat /\ made[s] <= MaxChunks[s]
    BY <1>1, <1>2 DEF Base, Flow, TypeOK
  <2>2. MaxChunks[s] \in Nat
    BY ConstantsAssumption
  <2>3. n \in 1..MaxChunks[s]
    BY <2>1, <2>2
  <2> QED BY <2>3, ChunkIsPair
<1>3. Waiting \subseteq Chunk
  BY <1>2 DEF Waiting, Elements
<1>4. \A s \in Sources : \A n \in Elements(pending[s]) : <<s, n>> \in Waiting
  BY DEF Waiting, Elements
<1> QED BY <1>1, <1>3, <1>4

\* At the end of the flush what still waits is given up.
LEMMA FlushEndMoves ==
  ASSUME Base, FlushEnds
  PROVE  (\A t \in Sources : Flow(t)') /\ Loses(Waiting)
<1>1. /\ queue' = queue /\ cur' = cur /\ hand' = hand /\ made' = made
      /\ filed' = filed /\ held' = held /\ delivered' = delivered
      /\ pending' = [t \in Sources |-> <<>>]
  BY DEF FlushEnds, readerVars, archiveVars
<1>2. ASSUME NEW s \in Sources
      PROVE  /\ Flow(s)'
             /\ OnTheWay(s) \subseteq OnTheWay(s)' \cup Elements(pending[s])
  <2>1. /\ delivered[s] \in Seq(Nat) /\ pending[s] \in Seq(Nat) /\ Flow(s)
    BY SequencesOfNumbers DEF Base
  <2>2. Sent(s)' = delivered[s]
    <3>1. Sent(s)' = delivered[s] \o <<>>
      BY <1>1 DEF Sent
    <3> QED BY <2>1, <3>1, ConcatEmptySeq
  <2>3. Increasing(Sent(s))' /\ InClient(s)' = Elements(delivered[s])
    <3>1. Increasing(delivered[s] \o pending[s])
      BY <2>1 DEF Flow, Sent
    <3>2. Increasing(delivered[s])
      BY <2>1, <3>1, IncreasingConcat
    <3> QED BY <2>2, <3>2 DEF InClient, Elements
  <2>4. InClient(s) = InClient(s)' \cup Elements(pending[s])
    BY <2>3, WaitingIsSent
  <2>5. /\ InMain(s)' = InMain(s) /\ InQueue(s)' = InQueue(s) /\ InHand(s)' = InHand(s)
        /\ Kept(s)' = Kept(s) /\ InArchive(s)' = InArchive(s)
        /\ QueueOrder(s)' = QueueOrder(s) /\ Behind(s)' = Behind(s) /\ made'[s] = made[s]
    BY <1>1, Unmoved, SameClient DEF Behind
  <2>6. Flow(s)'
    <3>1. InClient(s)' \subseteq InArchive(s)'
      BY <2>1, <2>4, <2>5 DEF Flow
    <3>2. /\ Ahead(InArchive(s), Behind(s))' /\ Ahead(InMain(s), InQueue(s) \cup InHand(s))'
          /\ Ahead(InQueue(s), InHand(s))'
          /\ (InArchive(s) \cup Behind(s))' \subseteq 1..made'[s]
      BY <2>1, <2>5 DEF Flow, Ahead
    <3>3. Increasing(Kept(s))' /\ QueueOrder(s)'
      BY <2>1, <2>5 DEF Flow
    <3> QED BY <2>3, <3>1, <3>2, <3>3 DEF Flow
  <2>7. OnTheWay(s) \subseteq OnTheWay(s)' \cup Elements(pending[s])
    BY <2>4, <2>5 DEF OnTheWay
  <2> QED BY <2>6, <2>7
<1>3. Loses(Waiting)
  BY <1>1, <1>2, WaitingIsSent DEF Loses
<1> QED BY <1>2, <1>3

\* What the archive closes moves from its buffers to its files.
LEMMA FinishMoves ==
  ASSUME Base, Finish
  PROVE  /\ \A t \in Sources : Flow(t)'
         /\ Loses({})
         /\ filed' \in [Sources -> Seq(Nat)] /\ held' \in [Sources -> Seq(Nat)]
         /\ writeFailed' \in BOOLEAN
         /\ ~writeFailed' => \A t \in Sources : held'[t] = <<>>
<1>1. /\ queue' = queue /\ cur' = cur /\ hand' = hand /\ made' = made
      /\ delivered' = delivered /\ pending' = pending /\ TypeOK
  BY DEF Finish, readerVars, clientVars, Base
<1>2. PICK n \in 0..Len(ArchiveOrder) :
        /\ filed' = [s \in Sources |->
             filed[s] \o IF s \in {ArchiveOrder[i] : i \in 1..n} THEN held[s] ELSE <<>>]
        /\ held' = [s \in Sources |->
             IF s \in {ArchiveOrder[i] : i \in 1..n} THEN <<>> ELSE held[s]]
        /\ writeFailed' = (writeFailed \/ n < Len(ArchiveOrder))
  BY DEF Finish, CloseArchive
<1>3. Len(ArchiveOrder) = 2 /\ ArchiveOrder[1] = "mic" /\ ArchiveOrder[2] = "speaker"
  BY DEF ArchiveOrder
<1> DEFINE closed == {ArchiveOrder[i] : i \in 1..n}
<1>4. n = 2 => Sources \subseteq closed
  <2>1. ASSUME n = 2 PROVE "mic" \in closed /\ "speaker" \in closed
    <3>1. 1 \in 1..n /\ 2 \in 1..n
      BY <2>1
    <3> QED BY <3>1, <1>3
  <2> QED BY <2>1, ConstantsAssumption
<1> HIDE DEF closed
<1>5. ASSUME NEW s \in Sources
      PROVE  /\ filed'[s] \in Seq(Nat) /\ held'[s] \in Seq(Nat) /\ Kept(s)' = Kept(s)
             /\ n = 2 => held'[s] = <<>>
  <2>1. filed[s] \in Seq(Nat) /\ held[s] \in Seq(Nat)
    BY <1>1, SequencesOfNumbers
  <2>2. /\ filed[s] \o held[s] \in Seq(Nat) /\ <<>> \in Seq(Nat)
        /\ (filed[s] \o held[s]) \o <<>> = filed[s] \o held[s]
        /\ filed[s] \o <<>> = filed[s]
    BY <2>1, ConcatProperties, ConcatEmptySeq, EmptySeq
  <2>3. \/ s \in closed /\ filed'[s] = filed[s] \o held[s] /\ held'[s] = <<>>
        \/ s \notin closed /\ filed'[s] = filed[s] \o <<>> /\ held'[s] = held[s]
    BY <1>2 DEF closed
  <2>4. Kept(s)' = filed'[s] \o held'[s]
    BY DEF Kept
  <2> QED BY <1>4, <2>1, <2>2, <2>3, <2>4 DEF Kept
<1>6. \A t \in Sources : Still(t)
  BY <1>1, <1>5, Unmoved DEF Still
<1>7. /\ filed' \in [Sources -> Seq(Nat)] /\ held' \in [Sources -> Seq(Nat)]
  <2>1. /\ filed' = [s \in Sources |-> filed'[s]] /\ held' = [s \in Sources |-> held'[s]]
    BY <1>2
  <2> QED BY <2>1, <1>5
<1>8. writeFailed' \in BOOLEAN /\ (~writeFailed' => n = 2)
  <2>1. writeFailed \in BOOLEAN
    BY <1>1 DEF TypeOK
  <2>2. ~writeFailed' => ~(n < 2)
    BY <1>2, <1>3
  <2>3. ~(n < 2) => n = 2
    BY <1>2, <1>3
  <2>4. writeFailed' \in BOOLEAN
    BY <1>2, <2>1
  <2> QED BY <2>2, <2>3, <2>4
<1> QED BY <1>5, <1>6, <1>7, <1>8, NoneMoves

-----------------------------------------------------------------------------
(* Types and control *)

\* Steps that leave the chunks where they are, or drop the chunk in hand or in
\* the main thread.
LEMMA TypeOfSmallSteps ==
  ASSUME Base,
         \/ \E s \in Sources : ReadFrame(s) \/ ReaderEnds(s) \/ SetMute(s)
         \/ RequestStop \/ HandleStatus
         \/ Connect \/ LoopTest \/ CheckMute \/ Finalise \/ JoinReaders \/ DrainEnds
  PROVE  TypeOK'
<1>1. TypeOK
  BY DEF Base
<1>2. CASE \E s \in Sources : ReadFrame(s)
  <2>1. PICK s \in Sources : ReadFrame(s)
    BY <1>2
  <2>2. /\ ChunkLen \in Nat /\ FrameLen \in Nat \ {0} /\ FrameLen <= ChunkLen
    BY ConstantsAssumption
  <2>3. MaxChunks[s] \in Nat
    BY ConstantsAssumption
  <2>4. window' \in [Sources -> Nat] /\ \A t \in Sources : window'[t] < ChunkLen
    <3>1. window \in [Sources -> Nat] /\ \A t \in Sources : window[t] < ChunkLen
      BY <1>1 DEF TypeOK
    <3>2. CASE /\ window[s] + FrameLen < ChunkLen
               /\ window' = [window EXCEPT ![s] = @ + FrameLen]
      BY <2>2, <3>1, <3>2
    <3>3. CASE window' = [window EXCEPT ![s] = 0]
      BY <2>2, <3>1, <3>3
    <3> QED BY <2>1, <3>2, <3>3 DEF ReadFrame, CutWindow
  <2>5. /\ made' \in [Sources -> Nat] /\ hand' \in [Sources -> Nat]
        /\ \A t \in Sources : hand'[t] <= made'[t] /\ made'[t] <= MaxChunks[t]
        /\ reader' \in [Sources -> {"read", "put", "evict", "retry", "done"}]
    <3>1. CASE UNCHANGED <<reader, made, hand>>
      BY <1>1, <3>1 DEF TypeOK
    <3>2. CASE /\ made[s] < MaxChunks[s]
               /\ made' = [made EXCEPT ![s] = @ + 1]
               /\ hand' = [hand EXCEPT ![s] = made[s] + 1]
               /\ reader' = [reader EXCEPT ![s] = "put"]
      <4>1. /\ made \in [Sources -> Nat] /\ hand \in [Sources -> Nat]
            /\ reader \in [Sources -> {"read", "put", "evict", "retry", "done"}]
            /\ \A t \in Sources : hand[t] <= made[t] /\ made[t] <= MaxChunks[t]
        BY <1>1 DEF TypeOK
      <4>2. /\ made' \in [Sources -> Nat] /\ hand' \in [Sources -> Nat]
            /\ reader' \in [Sources -> {"read", "put", "evict", "retry", "done"}]
        BY <3>2, <4>1
      <4>3. made'[s] = made[s] + 1 /\ hand'[s] = made[s] + 1
        BY <3>2, <4>1
      <4>4. \A t \in Sources \ {s} : made'[t] = made[t] /\ hand'[t] = hand[t]
        BY <3>2, <4>1
      <4>5. made[s] + 1 <= MaxChunks[s] /\ made[s] + 1 <= made[s] + 1
        BY <2>3, <3>2, <4>1
      <4> QED BY <4>1, <4>2, <4>3, <4>4, <4>5
    <3> QED BY <2>1, <3>1, <3>2 DEF ReadFrame, CutWindow
  <2>6. UNCHANGED <<queue, stop, muted, mainVars, clientVars, statVars, archiveVars>>
    BY <2>1 DEF ReadFrame
  <2> QED BY <1>1, <2>4, <2>5, <2>6
          DEF TypeOK, mainVars, clientVars, statVars, archiveVars
<1>3. CASE \E s \in Sources : ReaderEnds(s)
  <2>1. PICK s \in Sources : ReaderEnds(s)
    BY <1>3
  <2>2. ChunkLen \in Nat /\ 0 < ChunkLen
    BY ConstantsAssumption
  <2>3. /\ window' \in [Sources -> Nat] /\ \A t \in Sources : window'[t] < ChunkLen
        /\ reader' \in [Sources -> {"read", "put", "evict", "retry", "done"}]
    BY <1>1, <2>1, <2>2 DEF TypeOK, ReaderEnds
  <2> QED BY <1>1, <2>1, <2>3
          DEF TypeOK, ReaderEnds, mainVars, clientVars, statVars, archiveVars
<1>4. CASE \/ \E s \in Sources : SetMute(s)
           \/ RequestStop \/ HandleStatus
  <2>1. stop' \in BOOLEAN /\ muted' \subseteq Sources
    <3>1. CASE \E s \in Sources : SetMute(s)
      BY <1>1, <3>1 DEF TypeOK, SetMute
    <3>2. CASE RequestStop
      BY <1>1, <3>2 DEF TypeOK, RequestStop
    <3>3. CASE HandleStatus
      BY <1>1, <3>3 DEF TypeOK, HandleStatus, EndsSession
    <3> QED BY <1>4, <3>1, <3>2, <3>3
  <2>2. UNCHANGED <<readerVars, queue, mainVars, clientVars, statVars, archiveVars>>
    BY <1>4 DEF SetMute, RequestStop, HandleStatus
  <2> QED BY <1>1, <2>1, <2>2
          DEF TypeOK, readerVars, mainVars, clientVars, statVars, archiveVars
<1>5. CASE Connect \/ LoopTest \/ Finalise \/ JoinReaders \/ DrainEnds
  BY <1>1, <1>5 DEF TypeOK, Connect, LoopTest, Finalise, JoinReaders, DrainEnds,
     readerVars, clientVars, statVars, archiveVars
<1>6. CASE CheckMute
  BY <1>1, <1>6 DEF TypeOK, CheckMute, readerVars, clientVars, archiveVars
<1> QED BY <1>2, <1>3, <1>4, <1>5, <1>6

LEMMA TypeOfQueueSteps ==
  ASSUME Base, \/ \E s \in Sources : PutChunk(s) \/ EvictOldest(s) \/ RetryPut(s)
               \/ GetChunk
  PROVE  TypeOK'
<1>1. TypeOK /\ QueueCap \in Nat
  BY ConstantsAssumption DEF Base
<1>2. CASE \E s \in Sources : PutChunk(s) \/ RetryPut(s)
  <2>1. PICK s \in Sources : PutChunk(s) \/ RetryPut(s)
    BY <1>2
  <2>2. queue' \in Seq(Chunk) /\ Len(queue') <= QueueCap
    <3>1. CASE HasRoom /\ Queued(s)
      <4>1. <<s, hand[s]>> \in Chunk
        BY <2>1, HandIsChunk DEF PutChunk, RetryPut
      <4> QED BY <1>1, <3>1, <4>1, QueueAppends
    <3>2. CASE queue' = queue
      BY <1>1, <3>2 DEF TypeOK
    <3> QED BY <2>1, <3>1, <3>2 DEF PutChunk, RetryPut
  <2>3. /\ hand' \in [Sources -> Nat]
        /\ \A t \in Sources : hand'[t] <= made[t]
        /\ reader' \in [Sources -> {"read", "put", "evict", "retry", "done"}]
        /\ chunksDropped' \in Nat /\ muteDropped' \in Nat /\ raced' \in Nat
    <3>1. CASE PutChunk(s)
      <4>1. \/ hand' = [hand EXCEPT ![s] = 0] /\ reader' = [reader EXCEPT ![s] = "read"]
            \/ hand' = hand /\ reader' = [reader EXCEPT ![s] = "evict"]
        BY <3>1 DEF PutChunk
      <4>2. UNCHANGED <<chunksDropped, muteDropped, raced>>
        BY <3>1 DEF PutChunk, statVars
      <4>3. /\ reader \in [Sources -> {"read", "put", "evict", "retry", "done"}]
            /\ hand \in [Sources -> Nat] /\ made \in [Sources -> Nat]
            /\ \A t \in Sources : hand[t] <= made[t]
        BY <1>1 DEF TypeOK
      <4>4. chunksDropped' \in Nat /\ muteDropped' \in Nat /\ raced' \in Nat
        BY <1>1, <4>2 DEF TypeOK
      <4> QED BY <4>1, <4>3, <4>4
    <3>2. CASE RetryPut(s)
      <4>1. hand' = [hand EXCEPT ![s] = 0] /\ reader' = [reader EXCEPT ![s] = "read"]
        BY <3>2 DEF RetryPut
      <4>2. chunksDropped' \in Nat /\ muteDropped' \in Nat /\ raced' \in Nat
        BY <1>1, <3>2 DEF TypeOK, RetryPut
      <4>3. /\ reader \in [Sources -> {"read", "put", "evict", "retry", "done"}]
            /\ hand \in [Sources -> Nat] /\ made \in [Sources -> Nat]
            /\ \A t \in Sources : hand[t] <= made[t]
        BY <1>1 DEF TypeOK
      <4> QED BY <4>1, <4>2, <4>3
    <3> QED BY <2>1, <3>1, <3>2
  <2> QED BY <1>1, <2>1, <2>2, <2>3
          DEF TypeOK, PutChunk, RetryPut, mainVars, clientVars, archiveVars
<1>3. CASE \E s \in Sources : EvictOldest(s)
  <2>1. PICK s \in Sources : EvictOldest(s)
    BY <1>3
  <2>2. queue' \in Seq(Chunk) /\ Len(queue') <= QueueCap
    <3>1. CASE queue = <<>>
      BY <1>1, <2>1, <3>1 DEF TypeOK, EvictOldest
    <3>2. CASE queue # <<>>
      <4>1. queue' = Tail(queue)
        BY <2>1, <3>2 DEF EvictOldest
      <4> QED BY <1>1, <3>2, <4>1, QueueTail
    <3> QED BY <3>1, <3>2
  <2> QED BY <1>1, <2>1, <2>2
          DEF TypeOK, EvictOldest, mainVars, clientVars, statVars, archiveVars
<1>4. CASE GetChunk
  <2>1. queue' \in Seq(Chunk) /\ Len(queue') <= QueueCap /\ cur' \in Chunk \cup {<<>>}
    <3>1. CASE queue = <<>>
      BY <1>1, <1>4, <3>1 DEF TypeOK, GetChunk
    <3>2. CASE queue # <<>>
      <4>1. queue' = Tail(queue) /\ cur' = Head(queue)
        BY <1>4, <3>2 DEF GetChunk
      <4>2. PICK c : c = Head(queue)
        OBVIOUS
      <4>3. c \in Chunk /\ queue' \in Seq(Chunk) /\ Len(queue') <= QueueCap
        BY <1>1, <3>2, <4>1, <4>2, QueueTail
      <4> QED BY <4>1, <4>2, <4>3
    <3> QED BY <3>1, <3>2
  <2> QED BY <1>1, <1>4, <2>1
          DEF TypeOK, GetChunk, readerVars, clientVars, statVars, archiveVars
<1> QED BY <1>2, <1>3, <1>4

LEMMA ChunksAreFinite == IsFiniteSet(Chunk)
<1> DEFINE C(s) == {s} \X (1..MaxChunks[s])
<1>1. ASSUME NEW s \in Sources PROVE IsFiniteSet(C(s))
  <2>1. MaxChunks[s] \in Nat
    BY ConstantsAssumption
  <2>2. IsFiniteSet(1..MaxChunks[s])
    BY <2>1, FS_Interval
  <2> DEFINE f == [n \in 1..MaxChunks[s] |-> <<s, n>>]
  <2>3. f \in Surjection(1..MaxChunks[s], C(s))
    BY DEF Surjection
  <2> QED BY <2>2, <2>3, FS_Surjection
<1>2. \E A, B : IsFiniteSet(A) /\ IsFiniteSet(B) /\ Chunk \subseteq A \cup B
  <2> DEFINE A == IF "mic" \in Sources THEN C("mic") ELSE {}
             B == IF "speaker" \in Sources THEN C("speaker") ELSE {}
  <2>1. IsFiniteSet(A) /\ IsFiniteSet(B)
    BY <1>1, FS_EmptySet
  <2>2. Sources \subseteq {"mic", "speaker"}
    BY ConstantsAssumption
  <2>3. Chunk \subseteq A \cup B
    BY <2>2 DEF Chunk
  <2> QED BY <2>1, <2>3
<1>3. PICK A, B : IsFiniteSet(A) /\ IsFiniteSet(B) /\ Chunk \subseteq A \cup B
  BY <1>2
<1>4. IsFiniteSet(A \cup B)
  BY <1>3, FS_Union
<1> QED BY <1>3, <1>4, FS_Subset

LEMMA TypeOfClientSteps ==
  ASSUME Base, \/ SendChunk \/ DrainChunk \/ FlushEnds \/ Finish
               \/ \E s \in Sources : FlushClient(s)
  PROVE  TypeOK'
<1>1. TypeOK /\ RingCap \in Nat
  BY ConstantsAssumption DEF Base
<1>2. ASSUME NEW c \in Chunk, HandOver(c), c[2] \in Behind(c[1])
      PROVE  /\ delivered' \in [Sources -> Seq(Nat)]
             /\ pending' \in [Sources -> Seq(Nat)]
             /\ \A s \in Sources : Len(pending'[s]) <= RingCap
             /\ filed' \in [Sources -> Seq(Nat)] /\ held' \in [Sources -> Seq(Nat)]
             /\ writeFailed' \in BOOLEAN /\ chunksDropped' \in Nat
  <2>1. Flow(c[1])
    BY ChunkIsPair DEF Base
  <2>2. Ahead(InArchive(c[1]), {c[2]})
    BY <1>2, <2>1 DEF Flow, Ahead
  <2> QED BY <1>1, <1>2, <2>1, <2>2, HandsOver DEF Flow
<1>3. CASE SendChunk
  <2>1. PICK c : c = cur
    OBVIOUS
  <2>2. c \in Chunk /\ c # <<>> /\ HandOver(c)
    BY <1>3, <2>1 DEF Base, Control, TypeOK, SendChunk
  <2>3. c[2] \in Behind(c[1])
    BY <2>1, <2>2 DEF Behind, InMain
  <2> QED BY <1>1, <1>2, <1>3, <2>2, <2>3 DEF TypeOK, SendChunk, readerVars
<1>4. CASE DrainChunk
  <2>1. PICK c : c = Head(queue)
    OBVIOUS
  <2>2. queue # <<>> /\ queue' = Tail(queue) /\ HandOver(c)
    BY <1>4, <2>1 DEF DrainChunk
  <2>3. c \in Chunk /\ queue' \in Seq(Chunk) /\ Len(queue') <= QueueCap
        /\ InQueue(c[1]) = InQueue(c[1])' \cup {c[2]}
    BY <1>1, <2>1, <2>2, QueueTail
  <2>4. c[2] \in Behind(c[1])
    BY <2>3 DEF Behind
  <2> QED BY <1>1, <1>2, <1>4, <2>2, <2>3, <2>4 DEF TypeOK, DrainChunk, readerVars, mainVars
<1>5. CASE FlushEnds
  <2>1. IsFiniteSet(Waiting)
    BY WaitingIsSent, ChunksAreFinite, FS_Subset
  <2>2. Cardinality(Waiting) \in Nat
    BY <2>1, FS_CardinalityType
  <2>3. chunksDropped' \in Nat
    BY <1>1, <1>5, <2>2 DEF TypeOK, FlushEnds
  <2>4. pending' \in [Sources -> Seq(Nat)] /\ \A s \in Sources : Len(pending'[s]) <= RingCap
    <3>1. <<>> \in Seq(Nat) /\ Len(<<>>) = 0
      BY EmptySeq
    <3> QED BY <1>1, <1>5, <3>1 DEF FlushEnds
  <2> QED BY <1>1, <1>5, <2>3, <2>4 DEF TypeOK, FlushEnds, readerVars, archiveVars
<1>6. CASE Finish
  <2>1. /\ filed' \in [Sources -> Seq(Nat)] /\ held' \in [Sources -> Seq(Nat)]
        /\ writeFailed' \in BOOLEAN
    BY <1>6, FinishMoves
  <2> QED BY <1>1, <1>6, <2>1 DEF TypeOK, Finish, readerVars, clientVars, statVars
<1>7. CASE \E s \in Sources : FlushClient(s)
  <2>1. /\ delivered' \in [Sources -> Seq(Nat)] /\ pending' \in [Sources -> Seq(Nat)]
        /\ \A t \in Sources : Len(pending'[t]) <= RingCap
    BY <1>7, FlushMoves
  <2> QED BY <1>1, <1>7, <2>1 DEF TypeOK, FlushClient, readerVars, mainVars, statVars, archiveVars
<1> QED BY <1>3, <1>4, <1>5, <1>6, <1>7

LEMMA TypeStep == Base /\ Next => TypeOK'
BY TypeOfSmallSteps, TypeOfQueueSteps, TypeOfClientSteps DEF Next, Main, Reader

LEMMA ControlStep ==
  ASSUME TypeOK, Control, DrainComplete, Next
  PROVE  Control' /\ DrainComplete'
<1> DEFINE H == \A s \in Sources : hand[s] # 0 <=> reader[s] \in {"put", "evict", "retry"}
           M == cur # <<>> <=> pc \in {"check", "send"}
           J == pc \in {"drain", "flush", "finish", "closed"} =>
                  \A s \in Sources \ late : reader[s] = "done"
<1>1. H /\ M /\ J
  BY DEF Control
<1>2. ASSUME H', M', J', DrainComplete' PROVE Control' /\ DrainComplete'
  BY <1>2 DEF Control
<1>3. CASE \E s \in Sources : Reader(s)
  <2>1. PICK s \in Sources : Reader(s)
    BY <1>3
  <2>2. pc' = pc /\ cur' = cur /\ late' = late
    BY <2>1 DEF Reader, ReadFrame, ReaderEnds, PutChunk, EvictOldest, RetryPut, mainVars
  <2>3. /\ \A t \in Sources \ {s} : reader'[t] = reader[t] /\ hand'[t] = hand[t]
        /\ reader[s] # "done"
        /\ hand'[s] # 0 <=> reader'[s] \in {"put", "evict", "retry"}
    <3>1. /\ reader \in [Sources -> {"read", "put", "evict", "retry", "done"}]
          /\ hand \in [Sources -> Nat] /\ made \in [Sources -> Nat]
      BY DEF TypeOK
    <3>2. CASE ReadFrame(s)
      BY <1>1, <3>1, <3>2 DEF ReadFrame, CutWindow
    <3>3. CASE ReaderEnds(s)
      BY <1>1, <3>1, <3>3 DEF ReaderEnds
    <3>4. CASE PutChunk(s)
      BY <1>1, <3>1, <3>4 DEF PutChunk
    <3>5. CASE EvictOldest(s)
      BY <1>1, <3>1, <3>5 DEF EvictOldest
    <3>6. CASE RetryPut(s)
      BY <1>1, <3>1, <3>6 DEF RetryPut
    <3> QED BY <2>1, <3>2, <3>3, <3>4, <3>5, <3>6 DEF Reader
  <2>4. H' /\ M'
    BY <1>1, <2>2, <2>3
  <2>5. J'
    BY <1>1, <2>2, <2>3
  <2>6. DrainComplete'
    <3>1. SUFFICES ASSUME pc \in {"flush", "finish", "closed"}
                   PROVE  DrainComplete'
      BY <2>2 DEF DrainComplete
    <3>2. \A t \in Sources \ late : reader[t] = "done" /\ t # s
      BY <1>1, <2>3, <3>1
    <3>3. \A t \in Sources \ late : hand'[t] = 0
      BY <2>3, <3>1, <3>2 DEF DrainComplete
    <3>4. \A t \in Sources \ late : \A i \in DOMAIN queue : queue[i][1] # t
      BY <3>1 DEF DrainComplete
    <3>5. \A t \in Sources \ late : \A i \in DOMAIN queue' : queue'[i][1] # t
      <4>1. CASE queue' = queue
        BY <3>4, <4>1
      <4>2. CASE Queued(s)
        <5>1. queue' = Append(queue, <<s, hand[s]>>)
          BY <4>2 DEF Queued
        <5>2. \A i \in DOMAIN queue' :
                \/ queue'[i] = <<s, hand[s]>>
                \/ i \in DOMAIN queue /\ queue'[i] = queue[i]
          <6> DEFINE c == <<s, hand[s]>>
                     S == Chunk \cup {c}
          <6>1. queue \in Seq(S) /\ c \in S
            BY QueueShape, SeqMonotonic
          <6> HIDE DEF c, S
          <6>2. /\ Append(queue, c) \in Seq(S) /\ Len(Append(queue, c)) = Len(queue) + 1
                /\ \A i \in 1..Len(queue) : Append(queue, c)[i] = queue[i]
                /\ Append(queue, c)[Len(queue) + 1] = c
            BY <6>1, AppendProperties
          <6>3. DOMAIN Append(queue, c) = 1..(Len(queue) + 1)
            BY <6>2, LenProperties
          <6>4. queue' = Append(queue, c)
            BY <5>1 DEF c
          <6>5. \A i \in DOMAIN queue' :
                  \/ queue'[i] = c
                  \/ i \in DOMAIN queue /\ queue'[i] = queue[i]
            <7> DEFINE n == Len(queue)
            <7>1. n \in Nat /\ DOMAIN queue = 1..n
              BY QueueShape
            <7>2. /\ DOMAIN queue' = 1..(n + 1) /\ queue'[n + 1] = c
                  /\ \A i \in 1..n : queue'[i] = queue[i]
              BY <6>2, <6>3, <6>4
            <7> HIDE DEF n
            <7> QED BY <7>1, <7>2
          <6> QED BY <6>5 DEF c
        <5> QED BY <3>2, <3>4, <5>2
      <4>3. CASE queue # <<>> /\ queue' = Tail(queue)
        <5>1. \A i \in DOMAIN queue' : i + 1 \in DOMAIN queue /\ queue'[i] = queue[i + 1]
          <6>1. /\ Len(Tail(queue)) = Len(queue) - 1 /\ Tail(queue) \in Seq(Chunk)
                /\ \A i \in 1..Len(Tail(queue)) : Tail(queue)[i] = queue[i + 1]
            BY <4>3, QueueShape, HeadTailProperties
          <6>2. DOMAIN queue' = 1..(Len(queue) - 1)
            BY <4>3, <6>1, LenProperties
          <6> QED BY <4>3, <6>1, <6>2, QueueShape
        <5> QED BY <3>4, <5>1
      <4> QED BY <2>1, <4>1, <4>2, <4>3
              DEF Reader, ReadFrame, ReaderEnds, PutChunk, EvictOldest, RetryPut
    <3> QED BY <2>2, <3>3, <3>5 DEF DrainComplete
  <2> QED BY <1>2, <2>4, <2>5, <2>6
<1>4. CASE RequestStop \/ HandleStatus \/ \E s \in Sources : SetMute(s)
  <2>1. UNCHANGED <<reader, hand, queue, pc, cur, late>>
    BY <1>4 DEF RequestStop, HandleStatus, SetMute, readerVars, mainVars
  <2>2. H' /\ M' /\ J'
    BY <1>1, <2>1
  <2>3. DrainComplete'
    BY <2>1 DEF DrainComplete
  <2> QED BY <1>2, <2>2, <2>3
<1>5. CASE Main
  <2>1. H'
    <3>1. reader' = reader /\ hand' = hand
      BY <1>5 DEF Main, Connect, LoopTest, GetChunk, CheckMute, SendChunk, Finalise,
         JoinReaders, DrainChunk, DrainEnds, FlushEnds, Finish, FlushClient, readerVars
    <3> QED BY <1>1, <3>1
  <2>2. CASE Connect \/ LoopTest \/ GetChunk \/ CheckMute \/ SendChunk \/ Finalise
    <3>1. M'
      <4>1. CASE Connect \/ LoopTest \/ Finalise
        BY <1>1, <4>1 DEF Connect, LoopTest, Finalise
      <4>2. CASE GetChunk
        <5>1. CASE queue = <<>>
          BY <1>1, <4>2, <5>1 DEF GetChunk
        <5>2. CASE queue # <<>>
          <6>1. pc' = "check" /\ cur' = Head(queue)
            BY <4>2, <5>2 DEF GetChunk
          <6>2. Head(queue) \in Chunk
            BY <5>2, QueueShape, HeadTailProperties
          <6>3. \A c \in Chunk : c # <<>>
            BY DEF Chunk
          <6> QED BY <6>1, <6>2, <6>3
        <5> QED BY <5>1, <5>2
      <4>3. CASE CheckMute
        BY <1>1, <4>3 DEF CheckMute
      <4>4. CASE SendChunk
        BY <1>1, <4>4 DEF SendChunk
      <4> QED BY <2>2, <4>1, <4>2, <4>3, <4>4
    <3>2. pc' \in {"loop", "finally", "get", "check", "send", "join"}
      BY <2>2 DEF Connect, LoopTest, GetChunk, CheckMute, SendChunk, Finalise
    <3>3. J' /\ DrainComplete'
      BY <3>2 DEF DrainComplete
    <3> QED BY <1>2, <2>1, <3>1, <3>3
  <2>3. CASE JoinReaders
    <3>1. M' /\ J' /\ DrainComplete'
      BY <1>1, <2>3 DEF JoinReaders, DrainComplete, readerVars
    <3> QED BY <1>2, <2>1, <3>1
  <2>4. CASE DrainChunk
    <3>1. M' /\ J' /\ DrainComplete'
      BY <1>1, <2>4 DEF DrainChunk, DrainComplete, readerVars, mainVars
    <3> QED BY <1>2, <2>1, <3>1
  <2>5. CASE DrainEnds
    <3>1. M' /\ J'
      BY <1>1, <2>5 DEF DrainEnds, readerVars
    <3>2. /\ pc = "drain" /\ queue' = <<>> /\ hand' = hand /\ late' = late
      BY <2>5 DEF DrainEnds, readerVars
    <3>3. \A s \in Sources \ late : hand[s] = 0
      BY <1>1, <3>2
    <3>4. DOMAIN queue' = {}
      BY <3>2
    <3>5. DrainComplete'
      BY <3>2, <3>3, <3>4 DEF DrainComplete
    <3> QED BY <1>2, <2>1, <3>1, <3>5
  <2>6. CASE FlushEnds \/ Finish \/ \E s \in Sources : FlushClient(s)
    <3>1. /\ reader' = reader /\ hand' = hand /\ queue' = queue /\ cur' = cur
          /\ late' = late
          /\ pc \in {"flush", "finish"} /\ pc' \in {"flush", "finish", "closed"}
      BY <2>6 DEF FlushEnds, Finish, FlushClient, readerVars, mainVars
    <3>2. M' /\ J'
      BY <1>1, <3>1
    <3>3. DrainComplete'
      BY <3>1 DEF DrainComplete
    <3> QED BY <1>2, <2>1, <3>2, <3>3
  <2> QED BY <1>5, <2>2, <2>3, <2>4, <2>5, <2>6 DEF Main
<1> QED BY <1>3, <1>4, <1>5 DEF Next

-----------------------------------------------------------------------------
(* The losses *)

Budget == chunksDropped + muteDropped + Cardinality(Evicting) + 2 * raced

LEMMA BudgetIsNumber ==
  /\ IsFiniteSet(Evicting) /\ Cardinality(Evicting) \in Nat
  /\ Cardinality(Evicting') \in Nat
  /\ TypeOK => Budget \in Nat
  /\ TypeOK' => Budget' \in Nat
<1>1. IsFiniteSet(Sources)
  <2>1. IsFiniteSet({"mic"} \cup {"speaker"})
    BY FS_Singleton, FS_Union
  <2>2. Sources \subseteq {"mic"} \cup {"speaker"}
    BY ConstantsAssumption
  <2> QED BY <2>1, <2>2, FS_Subset
<1>2. Evicting \subseteq Sources /\ Evicting' \subseteq Sources
  BY DEF Evicting
<1>3. IsFiniteSet(Evicting) /\ IsFiniteSet(Evicting')
  BY <1>1, <1>2, FS_Subset
<1>4. Cardinality(Evicting) \in Nat /\ Cardinality(Evicting') \in Nat
  BY <1>3, FS_CardinalityType
<1>5. TypeOK => Budget \in Nat
  BY <1>4 DEF Budget, TypeOK
<1>6. TypeOK' => Budget' \in Nat
  <2>1. TypeOK' => chunksDropped' \in Nat /\ muteDropped' \in Nat /\ raced' \in Nat
    BY DEF TypeOK
  <2>2. Budget' = chunksDropped' + muteDropped' + Cardinality(Evicting') + 2 * raced'
    BY DEF Budget
  <2> QED BY <1>4, <2>1, <2>2
<1> QED BY <1>3, <1>4, <1>5, <1>6

\* A step that loses no more than it adds to the counters.
LEMMA Counted ==
  ASSUME TypeOK, TypeOK', LossIsCounted, NEW X, IsFiniteSet(X), Loses(X),
         Budget' >= Budget + Cardinality(X)
  PROVE  LossIsCounted'
<1>1. Cardinality(X) \in Nat
  BY FS_CardinalityType
<1>2. Gone \subseteq Chunk /\ Gone' \subseteq Gone \cup X
  <2>1. ASSUME NEW c \in Gone' PROVE c \in Gone \cup X
    <3>1. /\ c \in Chunk /\ c[1] \in Sources /\ c[2] \in Nat /\ c[2] >= 1
          /\ c = <<c[1], c[2]>>
          /\ c[2] <= made'[c[1]] /\ c[2] \notin OnTheWay(c[1])'
      <4>1. c \in Chunk /\ c[2] <= made'[c[1]] /\ c[2] \notin OnTheWay(c[1])'
        BY DEF Gone
      <4> QED BY <4>1, ChunkIsPair
    <3>2. made'[c[1]] \in Nat /\ made[c[1]] \in Nat
      BY <3>1 DEF TypeOK
    <3>3. c[2] \in 1..made'[c[1]]
      BY <3>1, <3>2
    <3>4. (c[2] \in 1..made[c[1]] /\ c[2] \notin OnTheWay(c[1])) \/ c \in X
      BY <3>1, <3>3 DEF Loses
    <3> QED BY <3>1, <3>2, <3>4 DEF Gone
  <2> QED BY <2>1 DEF Gone
<1>3. IsFiniteSet(Gone) /\ IsFiniteSet(Gone \cup X) /\ IsFiniteSet(Gone')
  BY <1>2, ChunksAreFinite, FS_Subset, FS_Union
<1>4. /\ Cardinality(Gone) \in Nat /\ Cardinality(Gone') \in Nat
      /\ Cardinality(Gone') <= Cardinality(Gone) + Cardinality(X)
  <2>1. Cardinality(Gone') <= Cardinality(Gone \cup X)
    BY <1>2, <1>3, FS_Subset
  <2>2. /\ Cardinality(Gone \cup X) =
              Cardinality(Gone) + Cardinality(X) - Cardinality(Gone \cap X)
        /\ Cardinality(Gone \cap X) \in Nat
    BY <1>3, FS_Union, FS_Intersection, FS_CardinalityType
  <2>3. Cardinality(Gone) \in Nat /\ Cardinality(Gone') \in Nat
    BY <1>3, FS_CardinalityType
  <2> QED BY <2>1, <2>2, <2>3, <1>1
<1>5. Budget \in Nat /\ Budget' \in Nat
  BY BudgetIsNumber
<1>6. Cardinality(Gone) <= Budget
  BY DEF LossIsCounted, Budget
<1>7. Cardinality(Gone') <= Budget'
  BY <1>1, <1>4, <1>5, <1>6
<1>8. Cardinality(Gone)' <= Budget'
  BY <1>7
<1> QED BY <1>8 DEF LossIsCounted, Budget

LEMMA LosesMost ==
  ASSUME TypeOK, TypeOK', LossIsCounted,
         \/ Loses({}) /\ Budget' >= Budget
         \/ (\E c : Loses({c})) /\ Budget' >= Budget + 1
  PROVE  LossIsCounted'
<1>2. Budget \in Nat /\ Budget' \in Nat
  BY BudgetIsNumber
<1>3. CASE Loses({}) /\ Budget' >= Budget
  <2>1. IsFiniteSet({}) /\ Cardinality({}) = 0
    BY FS_EmptySet
  <2>2. Budget' >= Budget + Cardinality({})
    BY <1>2, <1>3, <2>1
  <2> QED BY <1>3, <2>1, <2>2, Counted
<1>4. CASE (\E c : Loses({c})) /\ Budget' >= Budget + 1
  <2>1. PICK c : Loses({c})
    BY <1>4
  <2>2. IsFiniteSet({c}) /\ Cardinality({c}) = 1
    BY FS_Singleton
  <2>3. Budget' >= Budget + Cardinality({c})
    BY <1>4, <2>2
  <2> QED BY <2>1, <2>2, <2>3, Counted
<1> QED BY <1>3, <1>4

\* What the steps do to the counters.
LEMMA BudgetSteps ==
  ASSUME TypeOK, TypeOK'
  PROVE  /\ Evicting' = Evicting /\ UNCHANGED statVars => Budget' = Budget
         /\ \A s \in Sources \ Evicting :
              Evicting' = Evicting \cup {s} /\ UNCHANGED statVars
                => Budget' = Budget + 1
         /\ \A s \in Evicting :
              Evicting' = Evicting \ {s} /\ muteDropped' = muteDropped =>
                /\ chunksDropped' = chunksDropped + 1 /\ raced' = raced
                     => Budget' = Budget
                /\ chunksDropped' = chunksDropped /\ raced' = raced + 1
                     => Budget' = Budget + 1
         /\ Evicting' = Evicting /\ muteDropped' = muteDropped /\ raced' = raced
              => Budget' = Budget + chunksDropped' - chunksDropped
         /\ Evicting' = Evicting /\ chunksDropped' = chunksDropped
            /\ muteDropped' = muteDropped + 1 /\ raced' = raced
              => Budget' = Budget + 1
         /\ Budget \in Nat
<1> DEFINE E == Cardinality(Evicting)
<1>1. IsFiniteSet(Evicting) /\ E \in Nat
  BY BudgetIsNumber
<1>2. /\ \A s : s \notin Evicting => Cardinality(Evicting \cup {s}) = E + 1
      /\ \A s \in Evicting : Cardinality(Evicting \ {s}) = E - 1
  BY <1>1, FS_AddElement, FS_RemoveElement
<1>3. /\ chunksDropped \in Nat /\ muteDropped \in Nat /\ raced \in Nat
      /\ chunksDropped' \in Nat /\ muteDropped' \in Nat /\ raced' \in Nat
  BY DEF TypeOK
<1>4. /\ Budget = chunksDropped + muteDropped + E + 2 * raced
      /\ Budget' = chunksDropped' + muteDropped' + Cardinality(Evicting') + 2 * raced'
  BY DEF Budget
<1> HIDE DEF E
<1>5. ASSUME NEW D \in Int, Cardinality(Evicting') = E + D
      PROVE  Budget' = Budget + (chunksDropped' - chunksDropped)
                       + (muteDropped' - muteDropped) + D + 2 * (raced' - raced)
  BY <1>1, <1>3, <1>4, <1>5
<1>6. Evicting' = Evicting => Cardinality(Evicting') = E + 0
  BY <1>1 DEF E
<1>7. \A s \in Sources \ Evicting :
        Evicting' = Evicting \cup {s} => Cardinality(Evicting') = E + 1
  BY <1>2
<1>8. \A s \in Evicting :
        Evicting' = Evicting \ {s} => Cardinality(Evicting') = E + (-1)
  BY <1>1, <1>2
<1>9. Budget \in Nat
  BY <1>1, <1>3, <1>4
<1>10. Evicting' = Evicting =>
         Budget' = Budget + (chunksDropped' - chunksDropped)
                   + (muteDropped' - muteDropped) + 0 + 2 * (raced' - raced)
  BY <1>5, <1>6
<1>11. \A s \in Sources \ Evicting : Evicting' = Evicting \cup {s} =>
         Budget' = Budget + (chunksDropped' - chunksDropped)
                   + (muteDropped' - muteDropped) + 1 + 2 * (raced' - raced)
  BY <1>5, <1>7
<1>12. \A s \in Evicting : Evicting' = Evicting \ {s} =>
         Budget' = Budget + (chunksDropped' - chunksDropped)
                   + (muteDropped' - muteDropped) + (-1) + 2 * (raced' - raced)
  BY <1>5, <1>8
<1>13. UNCHANGED statVars =>
         chunksDropped' = chunksDropped /\ muteDropped' = muteDropped /\ raced' = raced
  BY DEF statVars
<1> HIDE DEF Budget
<1>14. /\ Evicting' = Evicting /\ UNCHANGED statVars => Budget' = Budget
       /\ \A s \in Sources \ Evicting :
            Evicting' = Evicting \cup {s} /\ UNCHANGED statVars
              => Budget' = Budget + 1
  BY <1>3, <1>9, <1>10, <1>11, <1>13
<1>15. \A s \in Evicting :
         Evicting' = Evicting \ {s} /\ muteDropped' = muteDropped =>
           /\ chunksDropped' = chunksDropped + 1 /\ raced' = raced
                => Budget' = Budget
           /\ chunksDropped' = chunksDropped /\ raced' = raced + 1
                => Budget' = Budget + 1
  BY <1>3, <1>9, <1>12
<1>16. /\ Evicting' = Evicting /\ muteDropped' = muteDropped /\ raced' = raced
            => Budget' = Budget + chunksDropped' - chunksDropped
       /\ Evicting' = Evicting /\ chunksDropped' = chunksDropped
          /\ muteDropped' = muteDropped + 1 /\ raced' = raced
            => Budget' = Budget + 1
  BY <1>3, <1>9, <1>10
<1> QED BY <1>9, <1>14, <1>15, <1>16

\* Every step keeps the order of the chunks and counts what it loses.
LEMMA ReaderStep ==
  ASSUME Base, TypeOK', LossIsCounted, NEW s \in Sources, Reader(s)
  PROVE  (\A t \in Sources : Flow(t)') /\ LossIsCounted'
<1>1. TypeOK /\ reader \in [Sources -> {"read", "put", "evict", "retry", "done"}]
  BY DEF Base, TypeOK
<1>2. /\ cur' = cur /\ UNCHANGED clientVars /\ UNCHANGED <<filed, held>>
  BY DEF Reader, ReadFrame, ReaderEnds, PutChunk, EvictOldest, RetryPut, mainVars, archiveVars
<1>3. Budget \in Nat
  BY BudgetIsNumber, <1>1
<1>4. CASE ReadFrame(s) \/ ReaderEnds(s) \/ PutChunk(s)
  <2>1. Evicting' = Evicting
    BY <1>1, <1>4 DEF Evicting, ReadFrame, CutWindow, ReaderEnds, PutChunk
  <2>2. Budget' = Budget
    BY <1>1, <1>4, <2>1, BudgetSteps DEF ReadFrame, ReaderEnds, PutChunk
  <2>3. (\A t \in Sources : Flow(t)') /\ Loses({})
    <3>1. CASE ReadFrame(s)
      BY <3>1, ReadFrameMoves
    <3>2. CASE ReaderEnds(s)
      BY <1>2, <3>2, Idle DEF ReaderEnds
    <3>3. CASE PutChunk(s) /\ HasRoom
      BY <1>2, <3>3, PutMoves DEF PutChunk
    <3>4. CASE PutChunk(s) /\ ~HasRoom
      BY <1>2, <3>4, Idle DEF PutChunk
    <3> QED BY <1>4, <3>1, <3>2, <3>3, <3>4
  <2>4. Budget' >= Budget
    BY <1>3, <2>2
  <2> QED BY <1>1, <2>3, <2>4, LosesMost
<1>5. CASE EvictOldest(s)
  <2>1. Evicting' = Evicting \cup {s} /\ s \in Sources \ Evicting
    BY <1>1, <1>5 DEF Evicting, EvictOldest
  <2>2. Budget' = Budget + 1
    BY <1>1, <1>5, <2>1, BudgetSteps DEF EvictOldest
  <2>3. (\A t \in Sources : Flow(t)') /\ \E c : Loses({c})
    BY <1>5, EvictMoves
  <2>4. Budget' >= Budget + 1
    BY <1>3, <2>2
  <2> QED BY <1>1, <2>3, <2>4, LosesMost
<1>6. CASE RetryPut(s)
  <2>1. Evicting' = Evicting \ {s} /\ s \in Evicting
    BY <1>1, <1>6 DEF Evicting, RetryPut
  <2>2. CASE HasRoom
    <3>1. Budget' = Budget
      BY <1>1, <1>6, <2>1, <2>2, BudgetSteps DEF RetryPut
    <3>2. (\A t \in Sources : Flow(t)') /\ Loses({})
      BY <1>2, <1>6, <2>2, PutMoves DEF RetryPut
    <3>3. Budget' >= Budget
      BY <1>3, <3>1
    <3> QED BY <1>1, <3>2, <3>3, LosesMost
  <2>3. CASE ~HasRoom
    <3>1. Budget' = Budget + 1
      BY <1>1, <1>6, <2>1, <2>3, BudgetSteps DEF RetryPut
    <3>2. (\A t \in Sources : Flow(t)') /\ \E c : Loses({c})
      BY <1>2, <1>6, <2>3, HandDropped DEF RetryPut
    <3>3. Budget' >= Budget + 1
      BY <1>3, <3>1
    <3> QED BY <1>1, <3>2, <3>3, LosesMost
  <2> QED BY <2>2, <2>3
<1> QED BY <1>4, <1>5, <1>6 DEF Reader

LEMMA AddsUp ==
  \A a, b, c, d \in Nat : b = a + c - d =>
    /\ c >= d => b >= a
    /\ c >= d + 1 => b >= a + 1
OBVIOUS

LEMMA MainStep ==
  ASSUME Base, TypeOK', LossIsCounted, Main
  PROVE  (\A t \in Sources : Flow(t)') /\ LossIsCounted'
<1>1. /\ TypeOK /\ Budget \in Nat /\ Budget' \in Nat
      /\ chunksDropped \in Nat /\ chunksDropped' \in Nat
  BY BudgetIsNumber DEF Base, TypeOK
<1>2. Evicting' = Evicting
  BY DEF Main, Connect, LoopTest, GetChunk, CheckMute, SendChunk, Finalise,
     JoinReaders, DrainChunk, DrainEnds, FlushEnds, Finish, FlushClient,
     readerVars, Evicting
<1>3. CASE Connect \/ LoopTest \/ Finalise \/ JoinReaders \/ DrainEnds
  <2>1. /\ made' = made /\ hand' = hand /\ queue' = queue /\ cur' = cur
        /\ UNCHANGED clientVars /\ UNCHANGED <<filed, held>> /\ UNCHANGED statVars
    BY <1>3 DEF Connect, LoopTest, Finalise, JoinReaders, DrainEnds, readerVars, archiveVars
  <2>2. Budget' >= Budget
    BY <1>1, <1>2, <2>1, BudgetSteps
  <2>3. (\A t \in Sources : Flow(t)') /\ Loses({})
    BY <2>1, Idle
  <2> QED BY <1>1, <2>2, <2>3, LosesMost
<1>4. CASE GetChunk
  <2>1. Budget' >= Budget
    BY <1>1, <1>2, <1>4, BudgetSteps DEF GetChunk
  <2> QED BY <1>1, <1>4, <2>1, GetMoves, LosesMost
<1>5. CASE CheckMute
  <2>1. /\ made' = made /\ hand' = hand /\ queue' = queue /\ pc = "check"
        /\ UNCHANGED clientVars /\ UNCHANGED <<filed, held>>
        /\ chunksDropped' = chunksDropped /\ raced' = raced
    BY <1>5 DEF CheckMute, readerVars, archiveVars
  <2>2. CASE cur' = <<>> /\ muteDropped' = muteDropped + 1
    <3>1. Budget' >= Budget + 1
      BY <1>1, <1>2, <2>1, <2>2, BudgetSteps
    <3> QED BY <1>1, <2>1, <2>2, <3>1, MuteMoves, LosesMost
  <2>3. CASE cur' = cur /\ muteDropped' = muteDropped
    <3>1. Budget' >= Budget
      BY <1>1, <1>2, <2>1, <2>3, BudgetSteps
    <3> QED BY <1>1, <2>1, <2>3, <3>1, Idle, LosesMost
  <2> QED BY <1>5, <2>2, <2>3 DEF CheckMute
<1>6. CASE SendChunk \/ DrainChunk
  <2>1. muteDropped' = muteDropped /\ raced' = raced
    BY <1>6 DEF SendChunk, DrainChunk
  <2>2. Budget' = Budget + chunksDropped' - chunksDropped
    BY <1>1, <1>2, <2>1, BudgetSteps
  <2>3. /\ \A t \in Sources : Flow(t)'
        /\ \/ Loses({}) /\ chunksDropped' >= chunksDropped
           \/ \E x : Loses({x}) /\ chunksDropped' >= chunksDropped + 1
    BY <1>6, SendMoves, DrainMoves
  <2>4. CASE Loses({}) /\ chunksDropped' >= chunksDropped
    <3>1. Budget' >= Budget
      BY <1>1, <2>2, <2>4, AddsUp
    <3> QED BY <1>1, <2>3, <2>4, <3>1, LosesMost
  <2>5. CASE \E x : Loses({x}) /\ chunksDropped' >= chunksDropped + 1
    <3>1. Budget' >= Budget + 1
      BY <1>1, <2>2, <2>5, AddsUp
    <3> QED BY <1>1, <2>3, <2>5, <3>1, LosesMost
  <2> QED BY <2>3, <2>4, <2>5
<1>7. CASE FlushEnds
  <2>1. IsFiniteSet(Waiting) /\ Cardinality(Waiting) \in Nat
    BY WaitingIsSent, ChunksAreFinite, FS_Subset, FS_CardinalityType
  <2>2. Budget' = Budget + chunksDropped' - chunksDropped
    BY <1>1, <1>2, <1>7, BudgetSteps DEF FlushEnds
  <2>3. chunksDropped' = chunksDropped + Cardinality(Waiting)
    BY <1>7 DEF FlushEnds
  <2>4. Budget' >= Budget + Cardinality(Waiting)
    BY <1>1, <2>1, <2>2, <2>3
  <2>5. (\A t \in Sources : Flow(t)') /\ Loses(Waiting)
    BY <1>7, FlushEndMoves
  <2>6. PICK W : W = Waiting
    OBVIOUS
  <2> QED BY <1>1, <2>1, <2>4, <2>5, <2>6, Counted
<1>8. CASE Finish \/ \E s \in Sources : FlushClient(s)
  <2>1. UNCHANGED statVars
    BY <1>8 DEF Finish, FlushClient
  <2>2. Budget' >= Budget
    BY <1>1, <1>2, <2>1, BudgetSteps
  <2>3. (\A t \in Sources : Flow(t)') /\ Loses({})
    BY <1>8, FinishMoves, FlushMoves
  <2> QED BY <1>1, <2>2, <2>3, LosesMost
<1> QED BY <1>3, <1>4, <1>5, <1>6, <1>7, <1>8 DEF Main

LEMMA CallbackStep ==
  ASSUME Base, TypeOK', LossIsCounted,
         \/ RequestStop \/ HandleStatus \/ \E s \in Sources : SetMute(s)
         \/ UNCHANGED vars
  PROVE  (\A t \in Sources : Flow(t)') /\ LossIsCounted'
<1>1. /\ made' = made /\ hand' = hand /\ queue' = queue /\ cur' = cur
      /\ reader' = reader
      /\ UNCHANGED clientVars /\ UNCHANGED <<filed, held>> /\ UNCHANGED statVars
  BY DEF RequestStop, HandleStatus, SetMute, vars, readerVars, mainVars, archiveVars
<1>2. TypeOK /\ Budget \in Nat
  BY BudgetIsNumber DEF Base
<1>3. Evicting' = Evicting
  BY <1>1 DEF Evicting
<1>4. Budget' >= Budget
  BY <1>1, <1>2, <1>3, BudgetSteps
<1> QED BY <1>1, <1>2, <1>4, Idle, LosesMost

\* Only the end of the session enters "closed", and nothing is archived after.
LEMMA ClosedStep ==
  ASSUME Base, Closed, Next
  PROVE  Closed'
<1>1. CASE Finish
  <2>1. ~writeFailed' => \A t \in Sources : held'[t] = <<>>
    BY <1>1, FinishMoves
  <2> QED BY <2>1 DEF Closed
<1>2. CASE SendChunk \/ DrainChunk \/ FlushEnds \/ Connect \/ LoopTest \/ GetChunk
           \/ CheckMute \/ Finalise \/ JoinReaders \/ DrainEnds
           \/ \E s \in Sources : FlushClient(s)
  <2>1. pc' # "closed"
    BY <1>2 DEF SendChunk, DrainChunk, FlushEnds, Connect, LoopTest, GetChunk,
       CheckMute, Finalise, JoinReaders, DrainEnds, FlushClient, mainVars
  <2> QED BY <2>1 DEF Closed
<1>3. CASE \/ RequestStop \/ HandleStatus
           \/ \E s \in Sources : Reader(s) \/ SetMute(s)
  <2>1. pc' = pc /\ held' = held /\ writeFailed' = writeFailed
    BY <1>3 DEF RequestStop, HandleStatus, SetMute, Reader, ReadFrame, ReaderEnds,
       PutChunk, EvictOldest, RetryPut, mainVars, archiveVars
  <2> QED BY <2>1 DEF Closed
<1> QED BY <1>1, <1>2, <1>3 DEF Next, Main

-----------------------------------------------------------------------------
(* The invariant *)

IInv == Base /\ Closed /\ DrainComplete /\ LossIsCounted

LEMMA Initially == Init => IInv
<1> SUFFICES ASSUME Init PROVE IInv
  OBVIOUS
<1>1. /\ <<>> \in Seq(Nat) /\ <<>> \in Seq(Chunk) /\ Len(<<>>) = 0
      /\ <<>> \o <<>> = <<>> /\ DOMAIN <<>> = {}
  BY EmptySeq, ConcatEmptySeq
<1>2. TypeOK
  <2>1. /\ RingCap \in Nat /\ QueueCap \in Nat /\ MaxChunks \in [Sources -> Nat]
        /\ ChunkLen \in Nat /\ 0 < ChunkLen
    BY ConstantsAssumption
  <2>2. /\ reader \in [Sources -> {"read", "put", "evict", "retry", "done"}]
        /\ window \in [Sources -> Nat] /\ \A s \in Sources : window[s] < ChunkLen
    BY <2>1 DEF Init
  <2>3. /\ made \in [Sources -> Nat] /\ hand \in [Sources -> Nat]
        /\ \A s \in Sources : hand[s] <= made[s] /\ made[s] <= MaxChunks[s]
    BY <2>1 DEF Init
  <2>4. /\ pending \in [Sources -> Seq(Nat)] /\ delivered \in [Sources -> Seq(Nat)]
        /\ \A s \in Sources : Len(pending[s]) <= RingCap
        /\ held \in [Sources -> Seq(Nat)] /\ filed \in [Sources -> Seq(Nat)]
    BY <1>1, <2>1 DEF Init
  <2>5. queue \in Seq(Chunk) /\ Len(queue) <= QueueCap
    BY <1>1, <2>1 DEF Init
  <2> QED BY <2>2, <2>3, <2>4, <2>5 DEF Init, TypeOK
<1>3. Control
  BY DEF Init, Control
<1>4. ASSUME NEW s \in Sources
      PROVE  Flow(s) /\ OnTheWay(s) = {} /\ made[s] = 0
  <2>1. Sent(s) = <<>> /\ Kept(s) = <<>> /\ made[s] = 0
    BY <1>1 DEF Init, Sent, Kept
  <2>2. /\ InClient(s) = {} /\ InArchive(s) = {} /\ InMain(s) = {}
        /\ Mine(s) = {} /\ InQueue(s) = {} /\ InHand(s) = {}
    BY <1>1, <2>1 DEF Init, InClient, InArchive, InMain, Mine, InQueue, InHand
  <2>3. Increasing(<<>>)
    BY <1>1 DEF Increasing
  <2> QED BY <2>1, <2>2, <2>3 DEF Flow, Behind, QueueOrder, Ahead, OnTheWay
<1>5. Gone = {}
  <2>1. ASSUME NEW c \in Chunk PROVE ~(c[2] <= made[c[1]])
    BY <1>4, ChunkIsPair
  <2> QED BY <2>1 DEF Gone
<1>6. LossIsCounted
  <2>1. Cardinality(Gone) = 0 /\ Cardinality(Evicting) \in Nat
    BY <1>5, FS_EmptySet, BudgetIsNumber
  <2>2. chunksDropped = 0 /\ muteDropped = 0 /\ raced = 0
    BY DEF Init
  <2> QED BY <2>1, <2>2 DEF LossIsCounted
<1>7. Closed /\ DrainComplete
  BY DEF Init, Closed, DrainComplete
<1> QED BY <1>2, <1>3, <1>4, <1>6, <1>7 DEF IInv, Base

LEMMA Inductive == IInv /\ [Next]_vars => IInv'
<1> SUFFICES ASSUME IInv, [Next]_vars PROVE IInv'
  OBVIOUS
<1>1. Base /\ TypeOK /\ Control /\ Closed /\ DrainComplete /\ LossIsCounted
  BY DEF IInv, Base
<1>2. CASE Next
  <2>1. TypeOK'
    BY <1>1, <1>2, TypeStep
  <2>2. Control' /\ DrainComplete'
    BY <1>1, <1>2, ControlStep
  <2>3. Closed'
    BY <1>1, <1>2, ClosedStep
  <2>4. (\A t \in Sources : Flow(t)') /\ LossIsCounted'
    BY <1>1, <1>2, <2>1, ReaderStep, MainStep, CallbackStep DEF Next
  <2> QED BY <2>1, <2>2, <2>3, <2>4 DEF IInv, Base
<1>3. CASE UNCHANGED vars
  <2>1. TypeOK' /\ Control' /\ Closed' /\ DrainComplete'
    BY <1>1, <1>3 DEF TypeOK, Control, Closed, DrainComplete, vars, readerVars,
       mainVars, clientVars, statVars, archiveVars
  <2>2. (\A t \in Sources : Flow(t)') /\ LossIsCounted'
    BY <1>1, <1>3, <2>1, CallbackStep
  <2> QED BY <2>1, <2>2 DEF IInv, Base
<1> QED BY <1>2, <1>3

LEMMA Invariance == Spec => []IInv
<1> QED BY Initially, Inductive, PTL DEF Spec

\* Every variable has its type: the queue, the ring buffers and the windows stay
\* within their bounds, and no reader makes more chunks than it may.
THEOREM TypeCorrect == Spec => []TypeOK
<1>1. IInv => TypeOK
  BY DEF IInv, Base
<1> QED BY <1>1, Invariance, PTL

\* From the reader to the server the chunks of one source keep the order of the
\* capture, and none is there twice, however the two readers, the evictions from
\* the queue and from the ring buffer, mute and the final drain interleave.
THEOREM ChunksStayInOrder == Spec => []SourceOrder
<1>1. IInv => SourceOrder
  <2>1. ASSUME IInv, NEW s \in Sources
        PROVE  Ahead(InClient(s), InMain(s) \cup InQueue(s) \cup InHand(s))
    BY <2>1 DEF IInv, Base, Flow, Ahead, Behind
  <2> QED BY <2>1 DEF IInv, Base, Flow, SourceOrder, QueueOrder
<1> QED BY <1>1, Invariance, PTL

\* When END_OF_AUDIO is sent, a reader that was joined has nothing in the queue
\* and nothing in hand.
THEOREM ReadersAreDrained == Spec => []DrainComplete
<1>1. IInv => DrainComplete
  BY DEF IInv
<1> QED BY <1>1, Invariance, PTL

\* Whatever disappears between a reader and its server is in the counters of the
\* session's summary, except the two chunks of a reader that lost its room.
THEOREM EveryLossIsCounted == Spec => []LossIsCounted
<1>1. IInv => LossIsCounted
  BY DEF IInv
<1> QED BY <1>1, Invariance, PTL

\* The archive has every chunk that a client has, in the order of the capture;
\* its end leaves nothing outside its files unless a write failed.
THEOREM ArchiveLacksNothing == Spec => []ArchiveIsComplete
<1>1. IInv => ArchiveIsComplete
  BY DEF IInv, Base, Flow, Closed, ArchiveIsComplete
<1> QED BY <1>1, Invariance, PTL
=============================================================================

------------------------ MODULE TranscriptMergeProofs ------------------------
(***************************************************************************)
(* Proofs about TranscriptMerge and TranscriptEvents: for any sources,     *)
(* results, start times, delay and cache size, what the merger releases is *)
(* in timestamp order as long as no result is later than the delay allows, *)
(* and it is written once; a candidate is not written again.               *)
(*                                                                         *)
(* The order is not inductive by itself: a batch may be put behind what    *)
(* was released before only because the watermark lies between the two.    *)
(* Watermarked says so, and it is a statement about maxSeen and pending.   *)
(***************************************************************************)
EXTENDS TranscriptEvents, FiniteSetTheorems, WellFoundedInduction, TLAPS

StartOf(e) == Start[e[2]]

\* The types the order depends on.
IType ==
  /\ added \in 0..MaxAdded
  /\ pending \subseteq Entry /\ IsFiniteSet(pending)
  /\ maxSeen \in Nat
  /\ released \in Seq(Entry)
  /\ timely \in BOOLEAN

\* Before the flush, the watermark separates what was released from what is
\* pending.
Watermarked ==
  timely /\ mpc \in {"live", "wait"} =>
    /\ \A i \in 1..Len(released) : StartOf(released[i]) <= Watermark(maxSeen)
    /\ \A e \in pending : StartOf(e) > Watermark(maxSeen)

IInv == IType /\ Watermarked /\ ReleasedInOrder

LEMMA StartType == \A e \in Entry : StartOf(e) \in Nat /\ e[2] \in Results
BY ConstantsAssumption DEF Entry, StartOf

\* A batch is a sequence of its entries, in the order of their starts.
LEMMA SortedIsInOrder ==
  ASSUME NEW S \in SUBSET Entry, IsFiniteSet(S), NEW q \in Sorted(S)
  PROVE  /\ q \in Seq(S) /\ q \in Seq(Entry)
         /\ \A i \in 1..Len(q) : q[i] \in S
         /\ InOrder(q)
<1>1. Cardinality(S) \in Nat
  BY FS_CardinalityType
<1>2. q \in [1..Cardinality(S) -> S]
  BY DEF Sorted
<1>3. q \in Seq(S) /\ Len(q) = Cardinality(S)
  BY <1>1, <1>2
<1>4. q \in Seq(Entry) /\ \A i \in 1..Len(q) : q[i] \in S
  BY <1>2, <1>3
<1>5. InOrder(q)
  <2>. SUFFICES ASSUME NEW i \in 1..Len(q), NEW j \in 1..Len(q), i < j
                PROVE  Start[q[i][2]] <= Start[q[j][2]]
    BY DEF InOrder
  <2>1. Before(q[i], q[j])
    BY <1>3 DEF Sorted
  <2>2. q[i] \in Entry /\ q[j] \in Entry
    BY <1>4
  <2>3. Start[q[i][2]] \in Nat /\ Start[q[j][2]] \in Nat
    BY <2>2, StartType DEF StartOf
  <2>. QED
    BY <2>1, <2>3 DEF Before
<1>. QED
  BY <1>3, <1>4, <1>5

\* Order is kept when a batch is put behind entries that all start earlier.
LEMMA ConcatInOrder ==
  ASSUME NEW s \in Seq(Entry), NEW q \in Seq(Entry), InOrder(s), InOrder(q),
         NEW w \in Int,
         \A i \in 1..Len(s) : StartOf(s[i]) <= w,
         \A i \in 1..Len(q) : StartOf(q[i]) >= w
  PROVE  InOrder(s \o q)
<1>. DEFINE sq == s \o q
<1>1. /\ Len(sq) = Len(s) + Len(q) /\ Len(s) \in Nat /\ Len(q) \in Nat
      /\ \A i \in 1..Len(sq) :
           sq[i] = IF i <= Len(s) THEN s[i] ELSE q[i - Len(s)]
  OBVIOUS
<1>2. /\ \A i \in 1..Len(s) : StartOf(s[i]) \in Nat
      /\ \A i \in 1..Len(q) : StartOf(q[i]) \in Nat
  BY StartType
<1>3. ASSUME NEW i \in 1..Len(sq), NEW j \in 1..Len(sq), i < j
      PROVE  StartOf(sq[i]) <= StartOf(sq[j])
  <2>1. CASE j <= Len(s)
    <3>1. i \in 1..Len(s) /\ j \in 1..Len(s)
      BY <1>1, <1>3, <2>1
    <3>. QED
      BY <1>1, <1>3, <2>1, <3>1 DEF InOrder, StartOf
  <2>2. CASE i <= Len(s) /\ j > Len(s)
    <3>1. i \in 1..Len(s) /\ j - Len(s) \in 1..Len(q)
      BY <1>1, <1>3, <2>2
    <3>2. StartOf(s[i]) <= w /\ w <= StartOf(q[j - Len(s)])
      BY <3>1
    <3>3. sq[i] = s[i] /\ sq[j] = q[j - Len(s)]
      BY <1>1, <2>2
    <3>. QED
      BY <1>2, <3>1, <3>2, <3>3
  <2>3. CASE i > Len(s)
    <3>1. /\ i - Len(s) \in 1..Len(q) /\ j - Len(s) \in 1..Len(q)
          /\ i - Len(s) < j - Len(s) /\ j > Len(s)
      BY <1>1, <1>3, <2>3
    <3>2. sq[i] = q[i - Len(s)] /\ sq[j] = q[j - Len(s)]
      BY <1>1, <2>3, <3>1
    <3>. QED
      BY <3>1, <3>2 DEF InOrder, StartOf
  <2>. QED
    BY <1>1, <2>1, <2>2, <2>3
<1>. QED
  BY <1>3 DEF InOrder, StartOf

\* The two steps that release something put a batch whose starts lie above a
\* bound behind entries that lie below it.
LEMMA ReleaseInOrder ==
  ASSUME IInv, timely, NEW S \in SUBSET Entry, IsFiniteSet(S),
         NEW q \in Sorted(S), mpc \in {"live", "wait"},
         \A e \in S : StartOf(e) >= Watermark(maxSeen)
  PROVE  InOrder(released \o q)
<1>1. /\ q \in Seq(Entry) /\ InOrder(q)
      /\ \A i \in 1..Len(q) : q[i] \in S
  BY SortedIsInOrder
<1>2. released \in Seq(Entry) /\ InOrder(released) /\ Watermark(maxSeen) \in Int
  BY ConstantsAssumption DEF IInv, IType, ReleasedInOrder, Watermark
<1>3. \A i \in 1..Len(released) : StartOf(released[i]) <= Watermark(maxSeen)
  BY DEF IInv, Watermarked
<1>. QED
  BY <1>1, <1>2, <1>3, ConcatInOrder

LEMMA InitIInv == Init => IInv
<1>. SUFFICES ASSUME Init PROVE IInv
  OBVIOUS
<1>1. IType
  BY FS_EmptySet, ConstantsAssumption DEF Init, IType
<1>2. Len(released) = 0 /\ pending = {}
  BY DEF Init
<1>. QED
  BY <1>1, <1>2 DEF IInv, Watermarked, ReleasedInOrder, InOrder

\* A new result: it joins pending, and what the new watermark has passed
\* leaves.
LEMMA AddResultIInv ==
  ASSUME IInv, NEW s \in Sources, AddResult(s)
  PROVE  IInv'
<1>. PICK r \in Results :
       /\ added' = added + 1
       /\ IF Known(r)
            THEN UNCHANGED <<pending, maxSeen, remembered, out, released,
                             timely>>
            ELSE /\ maxSeen' = IF Start[r] > maxSeen THEN Start[r] ELSE maxSeen
                 /\ timely' = (timely /\ mpc \in {"live", "wait"}
                                      /\ Start[r] >= maxSeen - Delay)
                 /\ PopReady(s, pending \cup {<<added + 1, r>>}, maxSeen')
  BY DEF AddResult
<1>0. added + 1 \in 1..MaxAdded /\ mpc' = mpc
  BY ConstantsAssumption DEF AddResult, IInv, IType
<1>1. CASE Known(r)
  BY <1>0, <1>1
     DEF IInv, IType, Watermarked, ReleasedInOrder, InOrder, StartOf, Watermark
<1>2. CASE ~Known(r)
  <2>. DEFINE held == pending \cup {<<added + 1, r>>}
              ready == {e \in held : Start[e[2]] <= Watermark(maxSeen')}
  <2>1. /\ held \subseteq Entry /\ IsFiniteSet(held)
        /\ ready \in SUBSET Entry /\ IsFiniteSet(ready)
        /\ IsFiniteSet(held \ ready)
    <3>1. <<added + 1, r>> \in Entry
      BY <1>0 DEF Entry
    <3>2. held \subseteq Entry /\ IsFiniteSet(held)
      BY <3>1, FS_AddElement DEF IInv, IType
    <3>3. ready \subseteq held /\ held \ ready \subseteq held
      OBVIOUS
    <3>. QED
      BY <3>2, <3>3, FS_Subset
  <2>2. PICK q \in Sorted(ready) : released' = released \o q
    BY <1>2 DEF PopReady
  <2>3. /\ q \in Seq(Entry) /\ InOrder(q)
        /\ \A i \in 1..Len(q) : q[i] \in ready
    BY <2>1, SortedIsInOrder
  <2>4. /\ maxSeen \in Nat /\ maxSeen' \in Nat /\ Start[r] \in Nat
        /\ maxSeen <= maxSeen' /\ Delay \in Nat
    BY <1>2, ConstantsAssumption DEF IInv, IType
  <2>5. pending' = held \ ready
    BY <1>2 DEF PopReady
  <2>6. IType'
    BY <1>0, <1>2, <2>1, <2>2, <2>3, <2>4, <2>5, ConstantsAssumption
       DEF IInv, IType
  <2>7. ASSUME timely'
        PROVE  InOrder(released') /\ Watermarked'
    <3>1. /\ timely /\ mpc \in {"live", "wait"}
          /\ Start[r] >= Watermark(maxSeen)
      BY <1>2, <2>7, <2>4 DEF Watermark, IInv, IType
    <3>2. \A e \in held : StartOf(e) >= Watermark(maxSeen)
      <4>. SUFFICES ASSUME NEW e \in held PROVE StartOf(e) >= Watermark(maxSeen)
        OBVIOUS
      <4>1. CASE e \in pending
        <5>1. StartOf(e) > Watermark(maxSeen)
          BY <3>1, <4>1 DEF IInv, Watermarked
        <5>2. StartOf(e) \in Nat /\ Watermark(maxSeen) \in Int
          BY <2>1, <2>4, StartType DEF Watermark
        <5>. QED
          BY <5>1, <5>2
      <4>2. CASE e = <<added + 1, r>>
        BY <3>1, <4>2 DEF StartOf
      <4>. QED
        BY <4>1, <4>2
    <3>3. InOrder(released')
      BY <2>1, <2>2, <3>1, <3>2, ReleaseInOrder
    <3>4. \A i \in 1..Len(released') : StartOf(released'[i]) <= Watermark(maxSeen')
      <4>. SUFFICES ASSUME NEW i \in 1..Len(released')
                    PROVE  StartOf(released'[i]) <= Watermark(maxSeen')
        OBVIOUS
      <4>0. released \in Seq(Entry)
        BY DEF IInv, IType
      <4>1. CASE i <= Len(released)
        <5>1. i \in 1..Len(released) /\ released'[i] = released[i]
          BY <2>2, <2>3, <4>0, <4>1
        <5>2. StartOf(released[i]) <= Watermark(maxSeen)
          BY <3>1, <5>1 DEF IInv, Watermarked
        <5>3. StartOf(released[i]) \in Nat
          BY <4>0, <5>1, StartType
        <5>. QED
          BY <2>4, <5>1, <5>2, <5>3 DEF Watermark
      <4>2. CASE i > Len(released)
        <5>1. i - Len(released) \in 1..Len(q) /\ released'[i] = q[i - Len(released)]
          BY <2>2, <2>3, <4>0, <4>2
        <5>2. q[i - Len(released)] \in ready
          BY <2>3, <5>1
        <5>. QED
          BY <5>1, <5>2 DEF StartOf
      <4>. QED
        BY <4>0, <4>1, <4>2
    <3>5. \A e \in pending' : StartOf(e) > Watermark(maxSeen')
      <4>. SUFFICES ASSUME NEW e \in pending' PROVE StartOf(e) > Watermark(maxSeen')
        OBVIOUS
      <4>1. e \in held /\ ~(Start[e[2]] <= Watermark(maxSeen'))
        BY <2>5
      <4>2. StartOf(e) \in Nat /\ Watermark(maxSeen') \in Int
        BY <2>1, <2>4, <4>1, StartType DEF Watermark
      <4>. QED
        BY <4>1, <4>2 DEF StartOf
    <3>. QED
      BY <3>3, <3>4, <3>5 DEF Watermarked, Watermark, StartOf
  <2>. QED
    BY <2>6, <2>7 DEF IInv, ReleasedInOrder, Watermarked, InOrder
<1>. QED
  BY <1>1, <1>2

LEMMA FlushIInv ==
  ASSUME IInv, Flush
  PROVE  IInv'
<1>1. /\ mpc = "wait" /\ mpc' = "flushed" /\ pending' = {}
      /\ UNCHANGED <<added, maxSeen, timely>>
  BY DEF Flush
<1>2. PICK q \in Sorted(pending) : released' = released \o q
  BY DEF Flush
<1>3. pending \in SUBSET Entry /\ IsFiniteSet(pending)
  BY DEF IInv, IType
<1>4. q \in Seq(Entry)
  BY <1>3, SortedIsInOrder
<1>5. IType'
  BY <1>1, <1>2, <1>4, FS_EmptySet DEF IInv, IType
<1>6. Watermarked'
  BY <1>1 DEF Watermarked
<1>7. ASSUME timely PROVE InOrder(released')
  <2>1. \A e \in pending : StartOf(e) >= Watermark(maxSeen)
    <3>1. \A e \in pending : StartOf(e) > Watermark(maxSeen) /\ StartOf(e) \in Nat
      BY <1>1, <1>3, <1>7, StartType DEF IInv, Watermarked
    <3>2. Watermark(maxSeen) \in Int
      BY ConstantsAssumption DEF Watermark, IInv, IType
    <3>. QED
      BY <3>1, <3>2
  <2>. QED
    BY <1>1, <1>2, <1>3, <1>7, <2>1, ReleaseInOrder
<1>. QED
  BY <1>1, <1>5, <1>6, <1>7 DEF IInv, ReleasedInOrder, InOrder

\* The invariant behind the order is inductive.
THEOREM Inductive == IInv /\ [Next]_vars => IInv'
<1>. SUFFICES ASSUME IInv, [Next]_vars PROVE IInv'
  OBVIOUS
<1>1. ASSUME NEW s \in Sources, AddResult(s) PROVE IInv'
  BY <1>1, AddResultIInv
<1>2. ASSUME NEW t \in Threads, Emit(t) PROVE IInv'
  BY <1>2 DEF Emit, IInv, IType, Watermarked, ReleasedInOrder, InOrder,
              StartOf, Watermark
<1>3. CASE BeginWait
  BY <1>3 DEF BeginWait, IInv, IType, Watermarked, ReleasedInOrder, InOrder,
              StartOf, Watermark
<1>4. CASE Flush
  BY <1>4, FlushIInv
<1>5. CASE EndSession
  BY <1>5 DEF EndSession, IInv, IType, Watermarked, ReleasedInOrder, InOrder,
              StartOf, Watermark
<1>6. CASE UNCHANGED vars
  BY <1>6 DEF vars, IInv, IType, Watermarked, ReleasedInOrder, InOrder,
              StartOf, Watermark
<1>. QED
  BY <1>1, <1>2, <1>3, <1>4, <1>5, <1>6 DEF Next

\* As long as no result is later than reorder_delay_seconds allows,
\* TranscriptMerger releases the results of all sources in timestamp order.
THEOREM MergerReleasesInOrder == Spec => []ReleasedInOrder
<1>1. IInv => ReleasedInOrder
  BY DEF IInv
<1>. QED
  BY InitIInv, Inductive, <1>1, PTL DEF Spec

-----------------------------------------------------------------------------
\* What is released is written once.  Entries are never alike because they
\* are numbered; whatever is released and not yet written is in the hands of
\* one thread.

Held == UNION {Entries(out[t]) : t \in Threads}

WType ==
  /\ added \in 0..MaxAdded
  /\ pending \subseteq Entry /\ IsFiniteSet(pending)
  /\ released \in Seq(Entry) /\ emitted \in Seq(Entry)
  /\ out \in [Threads -> Seq(Entry)]

\* The merger's list and what left it share no entry, and no number is ahead.
Numbered ==
  /\ pending \cap Entries(released) = {}
  /\ \A e \in pending \cup Entries(released) : e[1] <= added
  /\ IsInjective(released)

\* The released entries are those written and those in some thread's hands.
Written ==
  /\ Entries(released) = Entries(emitted) \cup Held
  /\ IsInjective(emitted)
  /\ \A t \in Threads : /\ IsInjective(out[t])
                        /\ Entries(out[t]) \cap Entries(emitted) = {}
  /\ \A t, u \in Threads : t # u => Entries(out[t]) \cap Entries(out[u]) = {}

\* The main thread takes nothing before its flush.
MainWaits == mpc \in {"live", "wait"} => out[Main] = <<>>

\* As long as no key was forgotten, every key the merger saw is remembered
\* and no two entries have the same.
Remembered ==
  /\ remembered \in Seq(Results) /\ Len(remembered) <= added
  /\ added <= CacheSize =>
       /\ \A e \in pending \cup Entries(released) : Known(e[2])
       /\ \A e, f \in pending \cup Entries(released) : e[2] = f[2] => e = f

WInv == WType /\ Numbered /\ Written /\ MainWaits /\ Remembered

LEMMA EntriesOfConcat ==
  ASSUME NEW s \in Seq(Entry), NEW q \in Seq(Entry)
  PROVE  Entries(s \o q) = Entries(s) \cup Entries(q)
<1>1. /\ DOMAIN (s \o q) = 1..(Len(s) + Len(q))
      /\ DOMAIN s = 1..Len(s) /\ DOMAIN q = 1..Len(q)
      /\ Len(s) \in Nat /\ Len(q) \in Nat
      /\ \A i \in 1..Len(s) : (s \o q)[i] = s[i]
      /\ \A i \in 1..Len(q) : (s \o q)[Len(s) + i] = q[i]
  OBVIOUS
<1>2. ASSUME NEW e \in Entries(s \o q) PROVE e \in Entries(s) \cup Entries(q)
  <2>1. PICK i \in 1..(Len(s) + Len(q)) : e = (s \o q)[i]
    BY <1>1 DEF Entries
  <2>2. CASE i <= Len(s)
    BY <1>1, <2>1, <2>2 DEF Entries
  <2>3. CASE i > Len(s)
    <3>1. i - Len(s) \in 1..Len(q) /\ e = q[i - Len(s)]
      BY <1>1, <2>1, <2>3
    <3>. QED
      BY <1>1, <3>1 DEF Entries
  <2>. QED
    BY <1>1, <2>2, <2>3
<1>3. ASSUME NEW e \in Entries(s) \cup Entries(q) PROVE e \in Entries(s \o q)
  <2>1. CASE e \in Entries(s)
    <3>1. PICK i \in 1..Len(s) : e = s[i]
      BY <1>1, <2>1 DEF Entries
    <3>. QED
      BY <1>1, <3>1 DEF Entries
  <2>2. CASE e \in Entries(q)
    <3>1. PICK i \in 1..Len(q) : e = q[i]
      BY <1>1, <2>2 DEF Entries
    <3>2. Len(s) + i \in DOMAIN (s \o q) /\ e = (s \o q)[Len(s) + i]
      BY <1>1, <3>1
    <3>. QED
      BY <3>2 DEF Entries
  <2>. QED
    BY <1>3, <2>1, <2>2
<1>. QED
  BY <1>2, <1>3

\* Two sequences without repetitions that share nothing make one.
LEMMA DistinctConcat ==
  ASSUME NEW s \in Seq(Entry), NEW q \in Seq(Entry), IsInjective(s), IsInjective(q),
         Entries(s) \cap Entries(q) = {}
  PROVE  IsInjective(s \o q)
<1>1. /\ DOMAIN (s \o q) = 1..(Len(s) + Len(q))
      /\ DOMAIN s = 1..Len(s) /\ DOMAIN q = 1..Len(q)
      /\ Len(s) \in Nat /\ Len(q) \in Nat
      /\ \A i \in 1..Len(s) : (s \o q)[i] = s[i] /\ s[i] \in Entries(s)
      /\ \A i \in 1..(Len(s) + Len(q)) : i > Len(s) =>
           /\ i - Len(s) \in 1..Len(q) /\ (s \o q)[i] = q[i - Len(s)]
           /\ q[i - Len(s)] \in Entries(q)
  BY DEF Entries
<1>. SUFFICES ASSUME NEW i \in 1..(Len(s) + Len(q)),
                     NEW j \in 1..(Len(s) + Len(q)),
                     (s \o q)[i] = (s \o q)[j]
              PROVE  i = j
  BY <1>1 DEF IsInjective
<1>2. CASE i <= Len(s) /\ j <= Len(s)
  BY <1>1, <1>2 DEF IsInjective
<1>3. CASE i > Len(s) /\ j > Len(s)
  <2>1. i - Len(s) = j - Len(s)
    BY <1>1, <1>3 DEF IsInjective
  <2>. QED
    BY <1>1, <2>1
<1>4. CASE i <= Len(s) /\ j > Len(s)
  BY <1>1, <1>4
<1>5. CASE i > Len(s) /\ j <= Len(s)
  BY <1>1, <1>5
<1>. QED
  BY <1>1, <1>2, <1>3, <1>4, <1>5

LEMMA SortedIsDistinct ==
  ASSUME NEW S \in SUBSET Entry, IsFiniteSet(S), NEW q \in Sorted(S)
  PROVE  IsInjective(q) /\ Entries(q) \subseteq S
<1>1. /\ Cardinality(S) \in Nat /\ DOMAIN q = 1..Cardinality(S)
      /\ \A i, j \in 1..Cardinality(S) : i < j => Before(q[i], q[j])
      /\ \A i \in 1..Cardinality(S) : q[i] \in S
  BY FS_CardinalityType DEF Sorted
<1>2. ASSUME NEW e \in Entry PROVE ~Before(e, e)
  <2>1. Start[e[2]] \in Nat /\ Tie[e[2]] \in Nat /\ e[1] \in Int
    BY ConstantsAssumption DEF Entry
  <2>. QED
    BY <2>1 DEF Before
<1>3. IsInjective(q)
  <2>. SUFFICES ASSUME NEW i \in 1..Cardinality(S), NEW j \in 1..Cardinality(S),
                       q[i] = q[j], i # j
                PROVE  FALSE
    BY <1>1 DEF IsInjective
  <2>1. i < j \/ j < i
    BY <1>1
  <2>2. Before(q[i], q[i])
    BY <1>1, <2>1
  <2>. QED
    BY <1>1, <1>2, <2>2
<1>. QED
  BY <1>1, <1>3 DEF Entries

\* A sequence without repetitions is as long as it has entries.
LEMMA DistinctCount ==
  ASSUME NEW q \in Seq(Entry), IsInjective(q)
  PROVE  Cardinality(Entries(q)) = Len(q)
<1>1. DOMAIN q = 1..Len(q) /\ Len(q) \in Nat /\ q \in [1..Len(q) -> Entries(q)]
  BY DEF Entries
<1>2. q \in Bijection(1..Len(q), Entries(q))
  BY <1>1 DEF Bijection, Injection, Surjection, IsInjective, Entries
<1>3. ExistsBijection(1..Len(q), Entries(q))
  BY <1>2 DEF ExistsBijection
<1>. QED
  BY <1>1, <1>3, FS_CountingElements

\* An idle thread takes a batch from the merger.
LEMMA BatchTaken ==
  ASSUME WInv, NEW t \in Threads, out[t] = <<>>,
         NEW S \in SUBSET Entry, IsFiniteSet(S),
         S \cap Entries(released) = {}, NEW q \in Sorted(S),
         out' = [out EXCEPT ![t] = q], released' = released \o q,
         emitted' = emitted
  PROVE  /\ Written' /\ IsInjective(released')
         /\ out' \in [Threads -> Seq(Entry)] /\ released' \in Seq(Entry)
         /\ Entries(released') = Entries(released) \cup Entries(q)
<1>1. q \in Seq(Entry) /\ IsInjective(q) /\ Entries(q) \subseteq S
  BY SortedIsInOrder, SortedIsDistinct
<1>2. released \in Seq(Entry) /\ out \in [Threads -> Seq(Entry)]
  BY DEF WInv, WType
<1>3. /\ out'[t] = q
      /\ \A u \in Threads : u # t => out'[u] = out[u]
  BY <1>2
<1>4. Entries(released') = Entries(released) \cup Entries(q)
  BY <1>1, <1>2, EntriesOfConcat
<1>5. Entries(out[t]) = {}
  BY DEF Entries
<1>6. IsInjective(released')
  BY <1>1, <1>2, DistinctConcat DEF WInv, Numbered
<1>7. Held' = Held \cup Entries(q)
  <2>1. ASSUME NEW e \in Held' PROVE e \in Held \cup Entries(q)
    <3>1. PICK u \in Threads : e \in Entries(out'[u])
      BY <2>1 DEF Held, Entries
    <3>. QED
      BY <1>3, <3>1 DEF Held
  <2>2. ASSUME NEW e \in Held PROVE e \in Held'
    <3>1. PICK u \in Threads : e \in Entries(out[u])
      BY <2>2 DEF Held
    <3>2. u # t
      BY <1>5, <3>1
    <3>3. e \in Entries(out'[u])
      BY <1>3, <3>1, <3>2
    <3>. QED
      BY <3>3 DEF Held, Entries
  <2>3. ASSUME NEW e \in Entries(q) PROVE e \in Held'
    <3>1. e \in Entries(out'[t])
      BY <1>3, <2>3
    <3>. QED
      BY <3>1 DEF Held, Entries
  <2>. QED
    BY <2>1, <2>2, <2>3
<1>8. \A u \in Threads : Entries(out[u]) \subseteq Entries(released)
  BY DEF WInv, Written, Held
<1>9. /\ Entries(q) \cap Entries(emitted) = {}
      /\ \A u \in Threads : Entries(out[u]) \cap Entries(q) = {}
  BY <1>1, <1>8 DEF WInv, Written
<1>10. Written'
  <2>1. Entries(released') = Entries(emitted') \cup Held'
    BY <1>4, <1>7 DEF WInv, Written
  <2>2. IsInjective(emitted')
    BY DEF WInv, Written
  <2>3. ASSUME NEW u \in Threads
        PROVE  IsInjective(out'[u]) /\ Entries(out'[u]) \cap Entries(emitted') = {}
    <3>1. CASE u = t
      BY <1>1, <1>3, <1>9, <3>1
    <3>2. CASE u # t
      BY <1>3, <3>2 DEF WInv, Written
    <3>. QED
      BY <3>1, <3>2
  <2>4. ASSUME NEW u \in Threads, NEW v \in Threads, u # v
        PROVE  Entries(out'[u]) \cap Entries(out'[v]) = {}
    <3>1. CASE u = t
      BY <1>3, <1>9, <2>4, <3>1
    <3>2. CASE v = t
      BY <1>3, <1>9, <2>4, <3>2
    <3>3. CASE u # t /\ v # t
      BY <1>3, <2>4, <3>3 DEF WInv, Written
    <3>. QED
      BY <3>1, <3>2, <3>3
  <2>. QED
    BY <2>1, <2>2, <2>3, <2>4 DEF Written, IsInjective, Entries
<1>11. out' \in [Threads -> Seq(Entry)] /\ released' \in Seq(Entry)
  BY <1>1, <1>2
<1>. QED
  BY <1>4, <1>6, <1>10, <1>11

LEMMA WrittenKept ==
  ASSUME Written, UNCHANGED <<released, emitted, out>>
  PROVE  Written'
<1>1. \A t \in Threads : out'[t] = out[t]
  OBVIOUS
<1>2. Held' = Held
  BY DEF Held, Entries
<1>3. Entries(released') = Entries(emitted') \cup Held'
  BY <1>2 DEF Written
<1>4. /\ IsInjective(emitted')
      /\ \A t \in Threads : /\ IsInjective(out'[t])
                            /\ Entries(out'[t]) \cap Entries(emitted') = {}
      /\ \A t, u \in Threads :
           t # u => Entries(out'[t]) \cap Entries(out'[u]) = {}
  BY <1>1 DEF Written
<1>. QED
  BY <1>3, <1>4 DEF Written, Entries, IsInjective

LEMMA InitWInv == Init => WInv
<1>. SUFFICES ASSUME Init PROVE WInv
  OBVIOUS
<1>1. /\ pending = {} /\ released = <<>> /\ emitted = <<>> /\ remembered = <<>>
      /\ added = 0 /\ \A t \in Threads : out[t] = <<>>
  BY DEF Init
<1>2. WType
  BY <1>1, FS_EmptySet, ConstantsAssumption DEF Init, WType
<1>3. Entries(<<>>) = {} /\ IsInjective(<<>>)
  BY DEF Entries, IsInjective
<1>4. Held = {}
  BY <1>1, <1>3 DEF Held
<1>5. Numbered /\ Written
  BY <1>1, <1>3, <1>4 DEF Numbered, Written
<1>6. MainWaits
  BY <1>1 DEF MainWaits, Threads
<1>7. Remembered
  BY <1>1, <1>3 DEF Remembered
<1>. QED
  BY <1>2, <1>5, <1>6, <1>7 DEF WInv

LEMMA AddResultWInv ==
  ASSUME WInv, NEW s \in Sources, AddResult(s)
  PROVE  WInv'
<1>. PICK r \in Results :
       /\ added' = added + 1
       /\ IF Known(r)
            THEN UNCHANGED <<pending, maxSeen, remembered, out, released,
                             timely>>
            ELSE /\ Remember(r)
                 /\ PopReady(s, pending \cup {<<added + 1, r>>}, maxSeen')
  BY DEF AddResult
<1>0. /\ added \in Nat /\ added + 1 \in 1..MaxAdded /\ CacheSize \in Nat
      /\ mpc' = mpc /\ emitted' = emitted /\ out[s] = <<>> /\ s \in Threads
  BY ConstantsAssumption DEF AddResult, Idle, WInv, WType, Threads
<1>1. CASE Known(r)
  <2>1. UNCHANGED <<pending, remembered, out, released, emitted>>
    BY <1>0, <1>1
  <2>2. WType'
    BY <1>0, <2>1 DEF WInv, WType
  <2>3. Numbered'
    <3>1. \A e \in pending \cup Entries(released) : e[1] \in Int
      <4>1. Entries(released) \subseteq Entry
        BY DEF WInv, WType, Entries
      <4>. QED
        BY <4>1 DEF WInv, WType, Entry
    <3>. QED
      BY <1>0, <2>1, <3>1 DEF WInv, Numbered, Entries
  <2>4. Written' /\ MainWaits'
    BY <1>0, <2>1, WrittenKept DEF WInv, MainWaits
  <2>5. Remembered'
    BY <1>0, <2>1 DEF WInv, Remembered, Entries, Known
  <2>. QED
    BY <2>2, <2>3, <2>4, <2>5 DEF WInv
<1>2. CASE ~Known(r)
  <2>. DEFINE new == <<added + 1, r>>
              held == pending \cup {new}
              ready == {e \in held : Start[e[2]] <= Watermark(maxSeen')}
  <2>1. Remember(r) /\ PopReady(s, held, maxSeen')
    BY <1>2
  <2>2. /\ new \in Entry /\ new[1] = added + 1 /\ new[2] = r
        /\ held \subseteq Entry /\ IsFiniteSet(held)
        /\ ready \in SUBSET Entry /\ IsFiniteSet(ready)
        /\ IsFiniteSet(held \ ready)
    <3>1. new \in Entry
      BY <1>0 DEF Entry
    <3>2. held \subseteq Entry /\ IsFiniteSet(held)
      BY <3>1, FS_AddElement DEF WInv, WType
    <3>3. ready \subseteq held /\ held \ ready \subseteq held
      OBVIOUS
    <3>. QED
      BY <3>1, <3>2, <3>3, FS_Subset
  <2>3. PICK q \in Sorted(ready) :
          out' = [out EXCEPT ![s] = q] /\ released' = released \o q
    BY <2>1 DEF PopReady
  <2>4. pending' = held \ ready
    BY <2>1 DEF PopReady
  <2>5. Entries(q) \subseteq ready
    BY <2>2, SortedIsDistinct
  <2>6. Entries(released) \subseteq Entry
    BY DEF WInv, WType, Entries
  <2>7. held \cap Entries(released) = {}
    <3>1. new \notin Entries(released)
      BY <1>0, <2>2 DEF WInv, Numbered
    <3>. QED
      BY <3>1 DEF WInv, Numbered
  <2>. HIDE DEF new, ready
  <2>8. /\ Written' /\ IsInjective(released')
        /\ out' \in [Threads -> Seq(Entry)] /\ released' \in Seq(Entry)
        /\ Entries(released') = Entries(released) \cup Entries(q)
    <3>1. ready \cap Entries(released) = {}
      BY <2>7 DEF ready
    <3>. QED
      BY <1>0, <2>2, <2>3, <3>1, BatchTaken
  <2>9. pending' \cup Entries(released') \subseteq
          pending \cup Entries(released) \cup {new}
    BY <2>4, <2>5, <2>8 DEF ready
  <2>10. WType'
    BY <1>0, <2>2, <2>4, <2>8 DEF WInv, WType
  <2>11. Numbered'
    <3>1. pending' \cap Entries(released') = {}
      BY <2>4, <2>5, <2>7, <2>8
    <3>2. ASSUME NEW e \in pending' \cup Entries(released')
          PROVE  e[1] <= added'
      <4>1. CASE e = new
        BY <1>0, <2>2, <4>1
      <4>2. CASE e \in pending \cup Entries(released)
        <5>1. e[1] <= added /\ e[1] \in Int
          BY <2>2, <2>6, <4>2 DEF WInv, Numbered, Entry
        <5>. QED
          BY <1>0, <5>1
      <4>. QED
        BY <2>9, <4>1, <4>2
    <3>. QED
      BY <2>8, <3>1, <3>2 DEF Numbered
  <2>12. MainWaits'
    BY <1>0, <2>3, MainIsNoSource DEF WInv, MainWaits, WType, Threads
  <2>13. Remembered'
    <3>1. /\ remembered \in Seq(Results) /\ Len(remembered) \in Nat
          /\ Len(remembered) <= added
      BY DEF WInv, Remembered
    <3>. DEFINE all == Append(remembered, r)
    <3>2. /\ all \in Seq(Results) /\ Len(all) = Len(remembered) + 1
          /\ all[Len(remembered) + 1] = r
          /\ \A i \in DOMAIN remembered : i \in DOMAIN all /\ all[i] = remembered[i]
          /\ Len(remembered) + 1 \in DOMAIN all
      BY <3>1
    <3>3. remembered' = IF Len(all) > CacheSize THEN Tail(all) ELSE all
      BY <2>1 DEF Remember
    <3>4. remembered' \in Seq(Results) /\ Len(remembered') <= added'
      <4>1. CASE Len(all) > CacheSize
        <5>1. all # <<>>
          BY <3>1, <3>2
        <5>2. Tail(all) \in Seq(Results) /\ Len(Tail(all)) = Len(all) - 1
          BY <3>2, <5>1
        <5>. QED
          BY <1>0, <3>1, <3>2, <3>3, <4>1, <5>2
      <4>2. CASE ~(Len(all) > CacheSize)
        BY <1>0, <3>1, <3>2, <3>3, <4>2
      <4>. QED
        BY <4>1, <4>2
    <3>5. ASSUME added' <= CacheSize
          PROVE  /\ \A e \in pending' \cup Entries(released') : Known(e[2])'
                 /\ \A e, f \in pending' \cup Entries(released') :
                      e[2] = f[2] => e = f
      <4>1. remembered' = all /\ added <= CacheSize
        BY <1>0, <3>1, <3>2, <3>3, <3>5
      <4>2. /\ \A e \in pending \cup Entries(released) : Known(e[2])
            /\ \A e, f \in pending \cup Entries(released) : e[2] = f[2] => e = f
        BY <4>1 DEF WInv, Remembered
      <4>3. \A k : Known(k) => Known(k)'
        BY <3>2, <4>1 DEF Known
      <4>4. Known(r)'
        BY <3>2, <4>1 DEF Known
      <4>5. \A e \in pending \cup Entries(released) : e[2] # r
        BY <1>2, <4>2
      <4>. HIDE DEF all
      <4>6. \A e \in pending' \cup Entries(released') : Known(e[2])'
        BY <2>2, <2>9, <4>2, <4>3, <4>4
      <4>7. \A e, f \in pending' \cup Entries(released') : e[2] = f[2] => e = f
        BY <2>2, <2>9, <4>2, <4>5
      <4>. QED
        BY <4>6, <4>7
    <3>. QED
      BY <3>4, <3>5 DEF Remembered
  <2>. QED
    BY <2>8, <2>10, <2>11, <2>12, <2>13 DEF WInv
<1>. QED
  BY <1>1, <1>2

\* A thread writes the first entry it holds.
LEMMA EmitWInv ==
  ASSUME WInv, NEW t \in Threads, Emit(t)
  PROVE  WInv'
<1>. DEFINE e == Head(out[t])
<1>1. /\ out[t] # <<>> /\ emitted' = Append(emitted, e)
      /\ out' = [out EXCEPT ![t] = Tail(out[t])]
      /\ UNCHANGED <<added, pending, remembered, released, mpc>>
  BY DEF Emit, Idle
<1>2. /\ out \in [Threads -> Seq(Entry)] /\ out[t] \in Seq(Entry)
      /\ emitted \in Seq(Entry) /\ e \in Entry
  BY <1>1 DEF WInv, WType
<1>3. /\ out'[t] = Tail(out[t])
      /\ \A u \in Threads : u # t => out'[u] = out[u]
  BY <1>1, <1>2
<1>4. /\ IsInjective(out[t]) /\ IsInjective(emitted)
      /\ Entries(out[t]) \cap Entries(emitted) = {}
  BY DEF WInv, Written
<1>5. /\ Entries(out[t]) = Entries(Tail(out[t])) \cup {e}
      /\ e \notin Entries(Tail(out[t])) /\ IsInjective(Tail(out[t]))
  <2>1. /\ Len(out[t]) \in Nat \ {0} /\ DOMAIN out[t] = 1..Len(out[t])
        /\ DOMAIN Tail(out[t]) = 1..(Len(out[t]) - 1) /\ e = out[t][1]
        /\ \A i \in 1..(Len(out[t]) - 1) : Tail(out[t])[i] = out[t][i + 1]
    BY <1>1, <1>2
  <2>2. \A i \in 2..Len(out[t]) : i - 1 \in 1..(Len(out[t]) - 1)
                                  /\ out[t][i] = Tail(out[t])[i - 1]
    BY <2>1
  <2>3. Entries(out[t]) \subseteq Entries(Tail(out[t])) \cup {e}
    <3>. SUFFICES ASSUME NEW i \in 1..Len(out[t])
                  PROVE  out[t][i] \in Entries(Tail(out[t])) \cup {e}
      BY <2>1 DEF Entries
    <3>1. CASE i = 1
      BY <2>1, <3>1
    <3>2. CASE i # 1
      <4>1. i \in 2..Len(out[t])
        BY <2>1, <3>2
      <4>2. i - 1 \in DOMAIN Tail(out[t]) /\ out[t][i] = Tail(out[t])[i - 1]
        BY <2>1, <2>2, <4>1
      <4>. QED
        BY <4>2 DEF Entries
    <3>. QED
      BY <3>1, <3>2
  <2>4. Entries(Tail(out[t])) \cup {e} \subseteq Entries(out[t])
    BY <2>1 DEF Entries
  <2>5. e \notin Entries(Tail(out[t]))
    BY <1>4, <2>1 DEF Entries, IsInjective
  <2>6. IsInjective(Tail(out[t]))
    <3>. SUFFICES ASSUME NEW i \in 1..(Len(out[t]) - 1),
                         NEW j \in 1..(Len(out[t]) - 1),
                         Tail(out[t])[i] = Tail(out[t])[j]
                  PROVE  i = j
      BY <2>1 DEF IsInjective
    <3>1. out[t][i + 1] = out[t][j + 1]
      BY <2>1
    <3>2. i + 1 = j + 1
      BY <1>4, <2>1, <3>1 DEF IsInjective
    <3>. QED
      BY <3>2
  <2>. QED
    BY <2>3, <2>4, <2>5, <2>6
<1>6. /\ Entries(emitted') = Entries(emitted) \cup {e} /\ emitted' \in Seq(Entry)
      /\ IsInjective(emitted')
  <2>1. e \notin Entries(emitted)
    BY <1>4, <1>5
  <2>2. /\ Len(emitted) \in Nat /\ DOMAIN emitted = 1..Len(emitted)
        /\ DOMAIN emitted' = 1..(Len(emitted) + 1)
        /\ emitted'[Len(emitted) + 1] = e
        /\ \A i \in 1..Len(emitted) : emitted'[i] = emitted[i]
    BY <1>1, <1>2
  <2>3. Entries(emitted') = Entries(emitted) \cup {e}
    <3>1. \A i \in 1..(Len(emitted) + 1) : i \in 1..Len(emitted) \/ i = Len(emitted) + 1
      BY <2>2
    <3>2. Entries(emitted') \subseteq Entries(emitted) \cup {e}
      BY <2>2, <3>1 DEF Entries
    <3>3. Entries(emitted) \subseteq Entries(emitted')
      BY <2>2 DEF Entries
    <3>4. e \in Entries(emitted')
      BY <2>2 DEF Entries
    <3>. QED
      BY <3>2, <3>3, <3>4
  <2>4. IsInjective(emitted')
    <3>1. \A i \in 1..Len(emitted) : emitted[i] # e
      BY <2>1, <2>2 DEF Entries
    <3>. QED
      BY <1>4, <2>2, <3>1 DEF IsInjective
  <2>. QED
    BY <1>1, <1>2, <2>3, <2>4
<1>. HIDE DEF e
<1>7. \A u \in Threads : Entries(out'[u]) \subseteq Entries(out[u]) /\ IsInjective(out'[u])
  <2>. SUFFICES ASSUME NEW u \in Threads
                PROVE  Entries(out'[u]) \subseteq Entries(out[u])
                       /\ IsInjective(out'[u])
    OBVIOUS
  <2>1. CASE u = t
    BY <1>3, <1>5, <2>1
  <2>2. CASE u # t
    BY <1>3, <2>2 DEF WInv, Written
  <2>. QED
    BY <2>1, <2>2
<1>8. Held = Held' \cup {e}
  <2>1. ASSUME NEW x \in Held PROVE x \in Held' \cup {e}
    <3>1. PICK u \in Threads : x \in Entries(out[u])
      BY <2>1 DEF Held
    <3>2. x \in Entries(out'[u]) \cup {e}
      BY <1>3, <1>5, <3>1
    <3>. QED
      BY <3>2 DEF Held, Entries
  <2>2. ASSUME NEW x \in Held' PROVE x \in Held
    <3>1. PICK u \in Threads : x \in Entries(out'[u])
      BY <2>2 DEF Held, Entries
    <3>. QED
      BY <1>7, <3>1 DEF Held
  <2>3. e \in Held
    BY <1>5 DEF Held
  <2>. QED
    BY <2>1, <2>2, <2>3
<1>9. Written'
  <2>1. Entries(released') = Entries(emitted') \cup Held'
    BY <1>1, <1>6, <1>8 DEF WInv, Written
  <2>2. ASSUME NEW u \in Threads PROVE Entries(out'[u]) \cap Entries(emitted') = {}
    <3>1. e \notin Entries(out'[u])
      <4>1. CASE u = t
        BY <1>3, <1>5, <4>1
      <4>2. CASE u # t
        BY <1>5, <1>7, <4>2 DEF WInv, Written
      <4>. QED
        BY <4>1, <4>2
    <3>. QED
      BY <1>6, <1>7, <3>1 DEF WInv, Written
  <2>3. \A u, v \in Threads : u # v => Entries(out'[u]) \cap Entries(out'[v]) = {}
    BY <1>7 DEF WInv, Written
  <2>. QED
    BY <1>6, <1>7, <2>1, <2>2, <2>3 DEF Written, IsInjective, Entries
<1>10. WType'
  <2>1. Tail(out[t]) \in Seq(Entry)
    BY <1>1, <1>2
  <2>. QED
    BY <1>1, <1>2, <1>6, <2>1 DEF WInv, WType
<1>11. Numbered' /\ Remembered'
  <2>1. Numbered'
    BY <1>1 DEF WInv, Numbered, Entries, IsInjective
  <2>2. Remembered'
    BY <1>1 DEF WInv, Remembered, Entries, Known
  <2>. QED
    BY <2>1, <2>2
<1>12. MainWaits'
  BY <1>1, <1>2, <1>3 DEF WInv, MainWaits, Threads
<1>. QED
  BY <1>9, <1>10, <1>11, <1>12 DEF WInv

LEMMA FlushWInv ==
  ASSUME WInv, Flush
  PROVE  WInv'
<1>1. /\ mpc = "wait" /\ mpc' = "flushed" /\ pending' = {}
      /\ UNCHANGED <<added, remembered, emitted>>
  BY DEF Flush
<1>2. PICK q \in Sorted(pending) :
        out' = [out EXCEPT ![Main] = q] /\ released' = released \o q
  BY DEF Flush
<1>3. pending \in SUBSET Entry /\ IsFiniteSet(pending) /\ added \in 0..MaxAdded
  BY DEF WInv, WType
<1>4. out[Main] = <<>> /\ pending \cap Entries(released) = {} /\ Main \in Threads
  BY <1>1 DEF WInv, MainWaits, Numbered, Threads
<1>5. /\ Written' /\ IsInjective(released')
      /\ out' \in [Threads -> Seq(Entry)] /\ released' \in Seq(Entry)
      /\ Entries(released') = Entries(released) \cup Entries(q)
  BY <1>1, <1>2, <1>3, <1>4, BatchTaken
<1>6. Entries(q) \subseteq pending
  BY <1>2, <1>3, SortedIsDistinct
<1>7. WType'
  BY <1>1, <1>3, <1>5, FS_EmptySet DEF WInv, WType
<1>8. Numbered' /\ Remembered'
  <2>1. pending' \cup Entries(released') \subseteq pending \cup Entries(released)
    BY <1>1, <1>5, <1>6
  <2>2. Numbered'
    BY <1>1, <1>5, <2>1 DEF WInv, Numbered
  <2>3. \A k : Known(k)' <=> Known(k)
    BY <1>1 DEF Known
  <2>4. Remembered'
    BY <1>1, <2>1, <2>3 DEF WInv, Remembered
  <2>. QED
    BY <2>2, <2>4
<1>9. MainWaits'
  BY <1>1 DEF MainWaits
<1>. QED
  BY <1>5, <1>7, <1>8, <1>9 DEF WInv

LEMMA NextWInv == WInv /\ [Next]_vars => WInv'
<1>. SUFFICES ASSUME WInv, [Next]_vars PROVE WInv'
  OBVIOUS
<1>1. ASSUME NEW s \in Sources, AddResult(s) PROVE WInv'
  BY <1>1, AddResultWInv
<1>2. ASSUME NEW t \in Threads, Emit(t) PROVE WInv'
  BY <1>2, EmitWInv
<1>3. CASE BeginWait \/ EndSession \/ UNCHANGED vars
  <2>1. UNCHANGED <<added, pending, remembered, out, emitted, released>>
    BY <1>3 DEF BeginWait, EndSession, vars
  <2>2. mpc' \in {"live", "wait"} => mpc \in {"live", "wait"}
    BY <1>3 DEF BeginWait, EndSession, vars
  <2>3. WType' /\ MainWaits'
    BY <2>1, <2>2 DEF WInv, WType, MainWaits
  <2>4. Numbered' /\ Remembered'
    BY <2>1 DEF WInv, Numbered, Remembered, Entries, Known, IsInjective
  <2>. QED
    BY <2>1, <2>3, <2>4, WrittenKept DEF WInv
<1>4. CASE Flush
  BY <1>4, FlushWInv
<1>. QED
  BY <1>1, <1>2, <1>3, <1>4 DEF Next

\* For any sources, results, delay and cache: what the merger releases is
\* written once, by the receiver or the flush that took it, and a result that
\* the server sends again is not released again while the keys fit in the
\* cache (merger.py:52, session.py:556).
THEOREM ResultsAreWrittenOnce == Spec => []WrittenOnce
<1>1. WInv => WrittenOnce
  <2>. SUFFICES ASSUME WInv PROVE WrittenOnce
    OBVIOUS
  <2>1. ReleasedIsWritten
    <3>1. Cardinality(Entries(emitted)) = Len(emitted)
      BY DistinctCount DEF WInv, WType, Written
    <3>. QED
      BY <3>1 DEF WInv, Written, Held, ReleasedIsWritten
  <2>2. ReleasedOnce
    <3>. SUFFICES ASSUME added <= CacheSize,
                         NEW i \in DOMAIN released, NEW j \in DOMAIN released,
                         released[i][2] = released[j][2]
                  PROVE  i = j
      BY DEF ReleasedOnce
    <3>1. released[i] \in Entries(released) /\ released[j] \in Entries(released)
      BY DEF Entries
    <3>2. released[i] = released[j]
      BY <3>1 DEF WInv, Remembered
    <3>. QED
      BY <3>2 DEF WInv, Numbered, IsInjective
  <2>. QED
    BY <2>1, <2>2 DEF WrittenOnce
<1>. QED
  BY <1>1, InitWInv, NextWInv, PTL DEF Spec

-----------------------------------------------------------------------------
\* Candidates.  The steps of TranscriptEvents are steps of TranscriptMerge or
\* leave the merger alone, so what was proved above holds of the whole handler.

\* A step of the handler, of a flush or of the clock is a step of the merger's
\* specification or changes none of its variables.
LEMMA EventsMerge == [EventNext]_eventVars => [Next]_vars
<1>. SUFFICES ASSUME [EventNext]_eventVars PROVE [Next]_vars
  OBVIOUS
<1>1. ASSUME NEW s \in Sources, HandleEvent(s) PROVE [Next]_vars
  BY <1>1 DEF HandleEvent, AddCandidate, Next, Idle
<1>2. CASE \E t \in Threads : Emit(t)
  BY <1>2 DEF Next
<1>3. CASE BeginWait \/ Flush \/ EndSession
  BY <1>3 DEF Next
<1>4. CASE Tick \/ UNCHANGED eventVars
  BY <1>4 DEF Tick, eventVars
<1>. QED
  BY <1>1, <1>2, <1>3, <1>4 DEF EventNext

\* The handler as a whole implements the merger's specification: candidates,
\* written in between by the same receivers, disturb nothing of it.
THEOREM EventsImplementMerge == EventSpec => Spec
<1>1. EventInit => Init
  BY DEF EventInit
<1>. QED
  BY <1>1, EventsMerge, PTL DEF EventSpec, Spec

\* So the results of the handler are released in timestamp order and written
\* once, whatever candidates come between them (merger.py:22, session.py:556).
THEOREM EventsMergeSafely == EventSpec => [](ReleasedInOrder /\ WrittenOnce)
BY EventsImplementMerge, MergerReleasesInOrder, ResultsAreWrittenOnce, PTL

Candidate == [source : Sources, text : AllTexts, at : Nat]

CType ==
  /\ now \in Nat
  /\ recent \in [Sources -> Seq(Candidate)]
  /\ saved \in Seq(Candidate)

\* The bucket b of source s, when sv was written and it is t o'clock: it holds
\* candidates of the source, at the places p[1] < p[2] < ... of the transcript,
\* and any other candidate of the source has expired or was pushed out by at
\* least MaxCache later ones.
Later(s, sv, i) == {k \in (i + 1)..Len(sv) : sv[k].source = s}

IsBucket(s, b, sv, t, p) ==
  /\ p \in Seq(1..Len(sv)) /\ Len(p) = Len(b)
  /\ \A i, j \in 1..Len(p) : i < j => p[i] < p[j]
  /\ \A i \in 1..Len(p) : b[i] = sv[p[i]] /\ sv[p[i]].source = s
  /\ \A i \in 1..Len(sv) :
       sv[i].source = s =>
         \/ \E k \in 1..Len(p) : p[k] = i
         \/ t - sv[i].at > Span
         \/ Cardinality(Later(s, sv, i)) >= MaxCache

Buckets ==
  \A s \in Sources :
    /\ Len(recent[s]) <= MaxCache
    /\ \E p \in Seq(1..Len(saved)) : IsBucket(s, recent[s], saved, now, p)

CInv == CType /\ Buckets /\ CandidatesDiffer

Less == {ss \in Nat \X Nat : ss[1] < ss[2]}

LEMMA LessIsWellFounded == IsWellFoundedOn(Less, Nat)
<1>1. IsWellFoundedOn({ss \in Nat \X Nat : ss[1] < ss[2]}, Nat)
  BY NatLessThanWellFounded, Zenon DEF OpToRel
<1>. QED
  BY <1>1 DEF Less

\* The loop that takes expired entries from the front ends: a first young entry
\* exists, or there is none.
LEMMA FreshFront ==
  ASSUME CType, NEW s \in Sources
  PROVE  \E n \in 1..(Len(recent[s]) + 1) :
           /\ Fresh(s) = SubSeq(recent[s], n, Len(recent[s]))
           /\ \A k \in 1..(n - 1) : now - recent[s][k].at > Span
<1>. DEFINE b == recent[s]
            young == {i \in 1..(Len(b) + 1) : i <= Len(b) => now - b[i].at <= Span}
            First(i) == /\ \A k \in 1..(i - 1) : now - b[k].at > Span
                        /\ i <= Len(b) => now - b[i].at <= Span
<1>1. /\ b \in Seq(Candidate) /\ Len(b) \in Nat
      /\ \A k \in 1..Len(b) : b[k].at \in Nat
      /\ now \in Nat /\ Span \in Nat
  <2>1. b \in Seq(Candidate) /\ now \in Nat /\ Span \in Nat
    BY SimilarAssumption DEF CType
  <2>2. \A c \in Candidate : c.at \in Nat
    BY DEF Candidate
  <2>. HIDE DEF b
  <2>. QED
    BY <2>1, <2>2
<1>2. \E i \in 1..(Len(b) + 1) : First(i)
  <2>1. young \subseteq Nat /\ Len(b) + 1 \in young
    BY <1>1
  <2>2. PICK n \in young : \A m \in young : <<m, n>> \notin Less
    <3>. HIDE DEF young
    <3>. QED
      BY <2>1, LessIsWellFounded, WFMin
  <2>3. n \in 1..(Len(b) + 1) /\ (n <= Len(b) => now - b[n].at <= Span)
    OBVIOUS
  <2>4. ASSUME NEW k \in 1..(n - 1) PROVE now - b[k].at > Span
    <3>1. k \in 1..(Len(b) + 1) /\ k <= Len(b) /\ <<k, n>> \in Less
      BY <1>1, <2>3 DEF Less
    <3>2. k \notin young
      BY <2>2, <3>1
    <3>3. b[k].at \in Nat
      BY <1>1, <3>1
    <3>. QED
      BY <1>1, <3>1, <3>2, <3>3
  <2>. QED
    BY <2>3, <2>4
<1>. DEFINE n == CHOOSE i \in 1..(Len(b) + 1) : First(i)
<1>3. n \in 1..(Len(b) + 1) /\ First(n)
  BY <1>2
<1>4. Fresh(s) = SubSeq(b, n, Len(b))
  BY DEF Fresh
<1>. QED
  BY <1>3, <1>4

LEMMA LaterCount ==
  ASSUME NEW s, NEW sv \in Seq(Candidate), NEW i \in Nat
  PROVE  IsFiniteSet(Later(s, sv, i)) /\ Cardinality(Later(s, sv, i)) \in Nat
<1>1. Later(s, sv, i) \subseteq 1..Len(sv) /\ IsFiniteSet(1..Len(sv))
  BY FS_Interval DEF Later
<1>. QED
  BY <1>1, FS_Subset, FS_CardinalityType

\* Time only brings more expired entries.
LEMMA BucketAges ==
  ASSUME NEW s, NEW b, NEW sv \in Seq(Candidate), NEW p, NEW t \in Nat,
         NEW u \in Nat, t <= u, IsBucket(s, b, sv, t, p)
  PROVE  IsBucket(s, b, sv, u, p)
<1>1. Span \in Nat /\ \A i \in 1..Len(sv) : sv[i].at \in Nat
  <2>1. \A c \in Candidate : c.at \in Nat
    BY DEF Candidate
  <2>. QED
    BY <2>1, SimilarAssumption
<1>2. \A i \in 1..Len(sv) : t - sv[i].at > Span => u - sv[i].at > Span
  BY <1>1
<1>. QED
  BY <1>2 DEF IsBucket

\* Taking expired entries from the front.
LEMMA BucketExpires ==
  ASSUME NEW s, NEW b \in Seq(Candidate), NEW sv \in Seq(Candidate), NEW t, NEW p,
         IsBucket(s, b, sv, t, p), NEW n \in 1..(Len(b) + 1),
         \A k \in 1..(n - 1) : t - b[k].at > Span
  PROVE  IsBucket(s, SubSeq(b, n, Len(b)), sv, t, SubSeq(p, n, Len(b)))
<1>. DEFINE c == SubSeq(b, n, Len(b))
            q == SubSeq(p, n, Len(b))
<1>1. /\ p \in Seq(1..Len(sv)) /\ Len(p) = Len(b) /\ Len(b) \in Nat
      /\ \A i \in 1..Len(p) : p[i] \in 1..Len(sv)
  BY DEF IsBucket
<1>2. /\ c \in Seq(Candidate) /\ Len(c) = Len(b) - n + 1
      /\ \A i \in 1..Len(c) : c[i] = b[n + i - 1] /\ n + i - 1 \in 1..Len(b)
  OBVIOUS
<1>3. /\ q \in Seq(1..Len(sv)) /\ Len(q) = Len(b) - n + 1
      /\ \A i \in 1..Len(q) : q[i] = p[n + i - 1] /\ n + i - 1 \in 1..Len(p)
  BY <1>1
<1>. HIDE DEF c, q
<1>4. \A i, j \in 1..Len(q) : i < j => q[i] < q[j]
  <2>. SUFFICES ASSUME NEW i \in 1..Len(q), NEW j \in 1..Len(q), i < j
                PROVE  q[i] < q[j]
    OBVIOUS
  <2>1. n + i - 1 < n + j - 1
    BY <1>1, <1>3
  <2>. QED
    BY <1>3, <2>1 DEF IsBucket
<1>5. \A i \in 1..Len(q) : c[i] = sv[q[i]] /\ sv[q[i]].source = s
  BY <1>1, <1>2, <1>3 DEF IsBucket
<1>6. ASSUME NEW i \in 1..Len(sv), sv[i].source = s
      PROVE  \/ \E k \in 1..Len(q) : q[k] = i
             \/ t - sv[i].at > Span
             \/ Cardinality(Later(s, sv, i)) >= MaxCache
  <2>1. ASSUME NEW k \in 1..Len(p), p[k] = i
        PROVE  (\E m \in 1..Len(q) : q[m] = i) \/ t - sv[i].at > Span
    <3>1. CASE k < n
      <4>1. k \in 1..(n - 1) /\ b[k] = sv[i]
        BY <1>1, <2>1, <3>1 DEF IsBucket
      <4>. QED
        BY <4>1
    <3>2. CASE k >= n
      <4>1. k - n + 1 \in 1..Len(q) /\ n + (k - n + 1) - 1 = k
        BY <1>1, <1>3, <3>2
      <4>2. q[k - n + 1] = i
        BY <1>3, <2>1, <4>1
      <4>. QED
        BY <4>1, <4>2
    <3>. QED
      BY <1>1, <3>1, <3>2
  <2>. QED
    BY <1>6, <2>1 DEF IsBucket
<1>7. Len(q) = Len(c)
  BY <1>2, <1>3
<1>8. IsBucket(s, c, sv, t, q)
  BY <1>3, <1>4, <1>5, <1>6, <1>7 DEF IsBucket
<1>. QED
  BY <1>8 DEF c, q

\* A candidate is written; its bucket gets it, another source's does not.
LEMMA BucketAppends ==
  ASSUME NEW s, NEW b \in Seq(Candidate), NEW sv \in Seq(Candidate), NEW t, NEW p,
         IsBucket(s, b, sv, t, p), NEW c \in Candidate
  PROVE  /\ c.source = s => IsBucket(s, Append(b, c), Append(sv, c), t,
                                     Append(p, Len(sv) + 1))
         /\ c.source # s => IsBucket(s, b, Append(sv, c), t, p)
<1>. DEFINE w == Append(sv, c)
            a == Append(b, c)
            q == Append(p, Len(sv) + 1)
<1>1. /\ p \in Seq(1..Len(sv)) /\ Len(p) = Len(b) /\ Len(b) \in Nat
      /\ Len(sv) \in Nat
      /\ \A i \in 1..Len(p) : p[i] \in 1..Len(sv)
  BY DEF IsBucket
<1>2. /\ w \in Seq(Candidate) /\ Len(w) = Len(sv) + 1
      /\ \A i \in 1..Len(sv) : w[i] = sv[i]
      /\ w[Len(sv) + 1] = c
  OBVIOUS
<1>. HIDE DEF w
<1>3. p \in Seq(1..Len(w))
  BY <1>1, <1>2
<1>4. \A i \in 1..Len(sv) :
        Cardinality(Later(s, sv, i)) >= MaxCache =>
          Cardinality(Later(s, w, i)) >= MaxCache
  <2>. SUFFICES ASSUME NEW i \in 1..Len(sv)
                PROVE  Cardinality(Later(s, sv, i)) <= Cardinality(Later(s, w, i))
    BY <1>2, LaterCount, SimilarAssumption
  <2>1. Later(s, sv, i) \subseteq Later(s, w, i)
    BY <1>1, <1>2 DEF Later
  <2>. QED
    BY <1>2, <2>1, LaterCount, FS_Subset
<1>5. ASSUME c.source # s PROVE IsBucket(s, b, w, t, p)
  <2>1. \A i \in 1..Len(w) : w[i].source = s => i \in 1..Len(sv)
    BY <1>1, <1>2, <1>5
  <2>. QED
    BY <1>1, <1>2, <1>3, <1>4, <2>1 DEF IsBucket
<1>6. ASSUME c.source = s PROVE IsBucket(s, a, w, t, q)
  <2>1. /\ q \in Seq(1..Len(w)) /\ Len(q) = Len(p) + 1
        /\ \A i \in 1..Len(p) : q[i] = p[i]
        /\ q[Len(p) + 1] = Len(sv) + 1
    <3>1. Len(sv) + 1 \in 1..Len(w)
      BY <1>1, <1>2
    <3>. QED
      BY <1>3, <3>1
  <2>2. /\ Len(a) = Len(b) + 1 /\ \A i \in 1..Len(b) : a[i] = b[i]
        /\ a[Len(b) + 1] = c
    OBVIOUS
  <2>. HIDE DEF a, q
  <2>3. \A i, j \in 1..Len(q) : i < j => q[i] < q[j]
    <3>. SUFFICES ASSUME NEW i \in 1..Len(q), NEW j \in 1..Len(q), i < j
                  PROVE  q[i] < q[j]
      OBVIOUS
    <3>1. CASE j <= Len(p)
      <4>1. i \in 1..Len(p) /\ j \in 1..Len(p)
        BY <1>1, <2>1, <3>1
      <4>. QED
        BY <2>1, <4>1 DEF IsBucket
    <3>2. CASE j > Len(p)
      <4>1. i \in 1..Len(p) /\ j = Len(p) + 1
        <5>1. Len(p) \in Nat /\ Len(q) = Len(p) + 1
          BY <1>1, <2>1
        <5>. QED
          BY <3>2, <5>1
      <4>2. p[i] \in 1..Len(sv)
        BY <1>1, <4>1
      <4>. QED
        BY <1>1, <2>1, <4>1, <4>2
    <3>. QED
      BY <1>1, <2>1, <3>1, <3>2
  <2>4. \A i \in 1..Len(q) : a[i] = w[q[i]] /\ w[q[i]].source = s
    <3>. SUFFICES ASSUME NEW i \in 1..Len(q)
                  PROVE  a[i] = w[q[i]] /\ w[q[i]].source = s
      OBVIOUS
    <3>1. CASE i \in 1..Len(p)
      BY <1>1, <1>2, <2>1, <2>2, <3>1 DEF IsBucket
    <3>2. CASE i = Len(p) + 1
      BY <1>1, <1>2, <1>6, <2>1, <2>2, <3>2
    <3>. QED
      BY <1>1, <2>1, <3>1, <3>2
  <2>5. ASSUME NEW i \in 1..Len(w), w[i].source = s
        PROVE  \/ \E k \in 1..Len(q) : q[k] = i
               \/ t - w[i].at > Span
               \/ Cardinality(Later(s, w, i)) >= MaxCache
    <3>1. CASE i = Len(sv) + 1
      BY <1>1, <2>1, <3>1
    <3>2. CASE i \in 1..Len(sv)
      <4>1. ASSUME NEW k \in 1..Len(p), p[k] = i
            PROVE  \E m \in 1..Len(q) : q[m] = i
        BY <1>1, <2>1, <4>1
      <4>. QED
        BY <1>2, <1>4, <2>5, <3>2, <4>1 DEF IsBucket
    <3>. QED
      BY <1>1, <1>2, <3>1, <3>2
  <2>6. Len(q) = Len(a)
    BY <1>1, <2>1, <2>2
  <2>. QED
    BY <2>1, <2>3, <2>4, <2>5, <2>6 DEF IsBucket
<1>. QED
  BY <1>5, <1>6 DEF w, a, q

\* The oldest is pushed out by MaxCache later ones.
LEMMA BucketPushes ==
  ASSUME NEW s, NEW b \in Seq(Candidate), NEW sv \in Seq(Candidate), NEW t, NEW p,
         IsBucket(s, b, sv, t, p), Len(b) = MaxCache + 1
  PROVE  IsBucket(s, Tail(b), sv, t, Tail(p))
<1>. DEFINE c == Tail(b)
            q == Tail(p)
<1>1. /\ p \in Seq(1..Len(sv)) /\ Len(p) = Len(b) /\ MaxCache \in Nat
      /\ MaxCache > 0 /\ Len(sv) \in Nat
      /\ \A i \in 1..Len(p) : p[i] \in 1..Len(sv)
  BY SimilarAssumption DEF IsBucket
<1>2. /\ c \in Seq(Candidate) /\ Len(c) = MaxCache
      /\ \A i \in 1..Len(c) : c[i] = b[i + 1]
  BY <1>1
<1>3. /\ q \in Seq(1..Len(sv)) /\ Len(q) = MaxCache
      /\ \A i \in 1..Len(q) : q[i] = p[i + 1]
  BY <1>1
<1>. HIDE DEF c, q
<1>4. \A i, j \in 1..Len(q) : i < j => q[i] < q[j]
  BY <1>1, <1>3 DEF IsBucket
<1>5. \A i \in 1..Len(q) : c[i] = sv[q[i]] /\ sv[q[i]].source = s
  BY <1>1, <1>2, <1>3 DEF IsBucket
<1>6. Cardinality(Later(s, sv, p[1])) >= MaxCache
  <2>1. \A i \in 1..MaxCache : q[i] \in Later(s, sv, p[1])
    <3>. SUFFICES ASSUME NEW i \in 1..MaxCache PROVE q[i] \in Later(s, sv, p[1])
      OBVIOUS
    <3>1. p[1] < p[i + 1] /\ q[i] = p[i + 1] /\ p[i + 1] \in 1..Len(sv)
      BY <1>1, <1>3 DEF IsBucket
    <3>2. p[1] \in Nat
      BY <1>1
    <3>. QED
      BY <1>3, <1>5, <3>1, <3>2 DEF Later
  <2>2. q \in Injection(1..MaxCache, Later(s, sv, p[1]))
    <3>1. q \in [1..MaxCache -> Later(s, sv, p[1])]
      BY <1>3, <2>1
    <3>2. \A i, j \in 1..MaxCache : q[i] = q[j] => i = j
      <4>1. \A i \in 1..MaxCache : q[i] \in Nat
        BY <1>3
      <4>. QED
        BY <1>3, <1>4, <4>1
    <3>. QED
      BY <3>1, <3>2 DEF Injection, IsInjective
  <2>3. IsFiniteSet(Later(s, sv, p[1]))
    BY <1>1, LaterCount
  <2>4. Cardinality(1..MaxCache) <= Cardinality(Later(s, sv, p[1]))
    BY <2>2, <2>3, FS_Injection
  <2>. QED
    BY <1>1, <2>3, <2>4, FS_Interval, FS_CardinalityType
<1>7. ASSUME NEW i \in 1..Len(sv), sv[i].source = s
      PROVE  \/ \E k \in 1..Len(q) : q[k] = i
             \/ t - sv[i].at > Span
             \/ Cardinality(Later(s, sv, i)) >= MaxCache
  <2>1. ASSUME NEW k \in 1..Len(p), p[k] = i, k # 1
        PROVE  \E m \in 1..Len(q) : q[m] = i
    <3>1. k - 1 \in 1..Len(q) /\ q[k - 1] = i
      BY <1>1, <1>3, <2>1
    <3>. QED
      BY <3>1
  <2>. QED
    BY <1>6, <1>7, <2>1 DEF IsBucket
<1>8. Len(q) = Len(c)
  BY <1>2, <1>3
<1>9. IsBucket(s, c, sv, t, q)
  BY <1>3, <1>4, <1>5, <1>7, <1>8 DEF IsBucket
<1>. QED
  BY <1>9 DEF c, q

-----------------------------------------------------------------------------
\* What a step does to the pair (bucket of s, saved) is enough.
LEMMA InitCInv == EventInit => CInv
<1>. SUFFICES ASSUME EventInit PROVE CInv
  OBVIOUS
<1>1. CType
  BY DEF EventInit, CType
<1>2. Len(saved) = 0 /\ saved = <<>>
  BY DEF EventInit
<1>3. ASSUME NEW s \in Sources
      PROVE  /\ Len(recent[s]) <= MaxCache
             /\ \E p \in Seq(1..Len(saved)) :
                  IsBucket(s, recent[s], saved, now, p)
  <2>1. recent[s] = <<>>
    BY DEF EventInit
  <2>2. <<>> \in Seq(1..Len(saved)) /\ Len(<<>>) = 0
    OBVIOUS
  <2>3. IsBucket(s, <<>>, saved, now, <<>>)
    BY <1>2 DEF IsBucket
  <2>4. Len(recent[s]) <= MaxCache
    BY <2>1, <2>2, SimilarAssumption
  <2>. QED
    BY <2>1, <2>2, <2>3, <2>4
<1>4. CandidatesDiffer
  BY <1>2 DEF CandidatesDiffer
<1>. QED
  BY <1>1, <1>3, <1>4 DEF CInv, Buckets

\* A candidate is not written when a similar one is in the young part of the
\* bucket, and any that was pushed out of it has MaxCache others after it.
LEMMA NewOneDiffers ==
  ASSUME CInv, NEW s \in Sources, NEW text \in AllTexts, ~AlreadySaved(s, text),
         saved' = Append(saved, [source |-> s, text |-> text, at |-> now])
  PROVE  CandidatesDiffer'
<1>. DEFINE c == [source |-> s, text |-> text, at |-> now]
            b == recent[s]
<1>1. /\ now \in Nat /\ Span \in Nat /\ MaxCache \in Nat
      /\ saved \in Seq(Candidate) /\ Len(saved) \in Nat
      /\ b \in Seq(Candidate) /\ Len(b) \in Nat
  BY SimilarAssumption DEF CInv, CType
<1>2. \A d \in Candidate : d.at \in Nat /\ d.text \in AllTexts
  BY DEF Candidate
<1>3. /\ Len(saved') = Len(saved) + 1 /\ DOMAIN saved = 1..Len(saved)
      /\ DOMAIN saved' = 1..Len(saved')
      /\ \A i \in 1..Len(saved) : saved'[i] = saved[i] /\ saved[i] \in Candidate
      /\ saved'[Len(saved) + 1] = c
  BY <1>1
<1>. SUFFICES ASSUME NEW j \in DOMAIN saved', NEW i \in 1..(j - 1),
                     saved'[i].source = saved'[j].source,
                     saved'[j].at - saved'[i].at <= Span,
                     Cardinality({k \in i..(j - 1) :
                                    saved'[k].source = saved'[j].source})
                       <= MaxCache
              PROVE  <<saved'[i].text, saved'[j].text>> \notin Similar
  BY DEF CandidatesDiffer
<1>4. CASE j \in 1..Len(saved)
  <2>1. i \in 1..Len(saved)
    BY <1>1, <1>4
  <2>2. {k \in i..(j - 1) : saved'[k].source = saved'[j].source} =
        {k \in i..(j - 1) : saved[k].source = saved[j].source}
    <3>1. \A k \in i..(j - 1) : k \in 1..Len(saved)
      BY <1>1, <1>4
    <3>. QED
      BY <1>3, <1>4, <3>1
  <2>. QED
    BY <1>3, <1>4, <2>1, <2>2 DEF CInv, CandidatesDiffer
<1>5. CASE j = Len(saved) + 1
  <2>1. i \in 1..Len(saved) /\ saved'[i] = saved[i] /\ saved'[j] = c
    BY <1>1, <1>3, <1>5
  <2>2. saved[i].source = s /\ now - saved[i].at <= Span
    <3>1. saved'[j].source = s /\ saved'[j].at = now
      BY <2>1
    <3>2. saved'[i].source = saved[i].source /\ saved'[i].at = saved[i].at
      BY <2>1
    <3>. QED
      BY <3>1, <3>2, Zenon
  <2>3. PICK p \in Seq(1..Len(saved)) : IsBucket(s, b, saved, now, p)
    BY DEF CInv, Buckets
  <2>4. PICK n \in 1..(Len(b) + 1) :
           /\ Fresh(s) = SubSeq(b, n, Len(b))
           /\ \A k \in 1..(n - 1) : now - b[k].at > Span
    BY FreshFront DEF CInv
  <2>5. Cardinality(Later(s, saved, i)) < MaxCache
    <3>. DEFINE B == {k \in i..(j - 1) : saved'[k].source = saved'[j].source}
                L == Later(s, saved, i)
    <3>1. B = L \cup {i} /\ i \notin L
      <4>1. \A k \in i..(j - 1) : k \in 1..Len(saved)
        BY <1>1, <1>5, <2>1
      <4>2. B = {k \in i..Len(saved) : saved[k].source = s}
        BY <1>1, <1>3, <1>5, <2>1, <4>1
      <4>3. i..Len(saved) = (i + 1)..Len(saved) \cup {i}
        BY <1>1, <2>1
      <4>4. i \notin (i + 1)..Len(saved)
        BY <1>1, <2>1
      <4>. QED
        BY <2>2, <4>2, <4>3, <4>4 DEF Later
    <3>2. IsFiniteSet(L) /\ Cardinality(L) \in Nat
      BY <1>1, <2>1, LaterCount
    <3>3. Cardinality(B) = Cardinality(L) + 1
      BY <3>1, <3>2, FS_AddElement
    <3>4. Cardinality(B) <= MaxCache
      OBVIOUS
    <3>. HIDE DEF B, L
    <3>5. Cardinality(L) < MaxCache
      BY <1>1, <3>2, <3>3, <3>4
    <3>. QED
      BY <3>5 DEF L
  <2>6. PICK k \in 1..Len(p) : p[k] = i
    <3>1. ~(now - saved[i].at > Span)
      BY <1>1, <1>2, <1>3, <2>1, <2>2
    <3>2. ~(Cardinality(Later(s, saved, i)) >= MaxCache)
      BY <1>1, <2>1, <2>5, LaterCount
    <3>. QED
      BY <2>1, <2>2, <2>3, <3>1, <3>2 DEF IsBucket
  <2>7. b[k] = saved[i] /\ k \in 1..Len(b)
    BY <2>3, <2>6 DEF IsBucket
  <2>8. k >= n
    <3>1. SUFFICES ASSUME k < n PROVE FALSE
      BY <1>1, <2>4, <2>7
    <3>2. k \in 1..(n - 1)
      BY <1>1, <2>4, <2>7, <3>1
    <3>3. now - saved[i].at > Span
      BY <2>4, <2>7, <3>2
    <3>4. saved[i].at \in Nat
      BY <1>2, <1>3, <2>1
    <3>. QED
      BY <1>1, <2>2, <3>3, <3>4
  <2>9. k - n + 1 \in DOMAIN Fresh(s) /\ Fresh(s)[k - n + 1] = saved[i]
    <3>1. /\ DOMAIN Fresh(s) = 1..(Len(b) - n + 1)
          /\ \A m \in 1..(Len(b) - n + 1) : Fresh(s)[m] = b[n + m - 1]
      BY <1>1, <2>4
    <3>2. k - n + 1 \in 1..(Len(b) - n + 1) /\ n + (k - n + 1) - 1 = k
      BY <1>1, <2>4, <2>7, <2>8
    <3>. QED
      BY <2>7, <3>1, <3>2
  <2>10. <<text, saved[i].text>> \notin Similar
    BY <2>9 DEF AlreadySaved
  <2>11. saved[i].text \in AllTexts
    BY <1>2, <1>3, <2>1
  <2>12. <<saved[i].text, text>> \notin Similar
    <3>1. <<saved[i].text, text>> \in Similar => <<text, saved[i].text>> \in Similar
      BY <2>11, SimilarAssumption
    <3>. QED
      BY <2>10, <3>1
  <2>13. saved'[i].text = saved[i].text /\ saved'[j].text = text
    BY <2>1
  <2>. QED
    BY <2>12, <2>13
<1>6. j \in 1..Len(saved) \/ j = Len(saved) + 1
  <2>1. j \in 1..(Len(saved) + 1) /\ Len(saved) \in Nat
    BY <1>1, <1>3
  <2>. QED
    BY <2>1
<1>. QED
  BY <1>4, <1>5, <1>6

LEMMA SaveCInv ==
  ASSUME CInv, NEW s \in Sources, NEW text \in AllTexts, SaveCandidate(s, text),
         UNCHANGED now
  PROVE  CInv'
<1>. DEFINE c == [source |-> s, text |-> text, at |-> now]
            b == recent[s]
            f == Fresh(s)
            all == Append(f, c)
<1>1. /\ now \in Nat /\ MaxCache \in Nat /\ MaxCache > 0
      /\ saved \in Seq(Candidate) /\ b \in Seq(Candidate) /\ c \in Candidate
      /\ recent \in [Sources -> Seq(Candidate)]
  <2>1. c \in Candidate
    BY DEF CInv, CType, Candidate
  <2>2. recent \in [Sources -> Seq(Candidate)] /\ now \in Nat /\ saved \in Seq(Candidate)
    BY DEF CInv, CType
  <2>. QED
    BY <2>1, <2>2, SimilarAssumption
<1>2. PICK p \in Seq(1..Len(saved)) : IsBucket(s, b, saved, now, p)
  BY DEF CInv, Buckets
<1>3. PICK n \in 1..(Len(b) + 1) :
        /\ f = SubSeq(b, n, Len(b))
        /\ \A k \in 1..(n - 1) : now - b[k].at > Span
  BY FreshFront DEF CInv
<1>4. f \in Seq(Candidate) /\ Len(f) <= Len(b) /\ Len(b) <= MaxCache /\ Len(f) \in Nat
  BY <1>1, <1>3 DEF CInv, Buckets
<1>. DEFINE q == SubSeq(p, n, Len(b))
<1>5. IsBucket(s, f, saved, now, q)
  BY <1>1, <1>2, <1>3, BucketExpires
<1>. HIDE DEF f, q
<1>6. CASE AlreadySaved(s, text)
  <2>1. recent' = [recent EXCEPT ![s] = f] /\ saved' = saved
    BY <1>6 DEF SaveCandidate, f
  <2>2. CType'
    BY <1>1, <1>4, <2>1 DEF CType
  <2>3. Buckets'
    <3>. SUFFICES ASSUME NEW u \in Sources
                  PROVE  /\ Len(recent'[u]) <= MaxCache
                         /\ \E r \in Seq(1..Len(saved)) :
                              IsBucket(u, recent'[u], saved, now, r)
      BY <2>1 DEF Buckets
    <3>1. CASE u = s
      <4>1. recent'[u] = f
        BY <1>1, <2>1, <3>1
      <4>2. q \in Seq(1..Len(saved))
        BY <1>5 DEF IsBucket
      <4>. QED
        BY <1>1, <1>4, <1>5, <3>1, <4>1, <4>2
    <3>2. CASE u # s
      BY <1>1, <2>1, <3>2 DEF CInv, Buckets
    <3>. QED
      BY <3>1, <3>2
  <2>4. CandidatesDiffer'
    BY <2>1 DEF CInv, CandidatesDiffer
  <2>. QED
    BY <2>2, <2>3, <2>4 DEF CInv
<1>7. CASE ~AlreadySaved(s, text)
  <2>. DEFINE kept == IF Len(all) > MaxCache THEN Tail(all) ELSE all
              w == Append(saved, c)
              a == Append(q, Len(saved) + 1)
  <2>1. recent' = [recent EXCEPT ![s] = kept] /\ saved' = w
    BY <1>7 DEF SaveCandidate, f
  <2>2. all \in Seq(Candidate) /\ Len(all) = Len(f) + 1 /\ w \in Seq(Candidate)
    BY <1>1, <1>4
  <2>3. IsBucket(s, all, w, now, a)
    BY <1>1, <1>4, <1>5, BucketAppends
  <2>. HIDE DEF all, w, a
  <2>4. PICK r : IsBucket(s, kept, w, now, r) /\ Len(kept) <= MaxCache
                 /\ kept \in Seq(Candidate)
    <3>1. CASE Len(all) > MaxCache
      <4>1. Len(all) = MaxCache + 1
        BY <1>1, <1>4, <2>2, <3>1
      <4>2. IsBucket(s, Tail(all), w, now, Tail(a))
        BY <2>2, <2>3, <4>1, BucketPushes
      <4>3. Tail(all) \in Seq(Candidate) /\ Len(Tail(all)) = MaxCache
        BY <1>1, <2>2, <4>1
      <4>. QED
        BY <1>1, <3>1, <4>2, <4>3
    <3>2. CASE ~(Len(all) > MaxCache)
      BY <1>1, <1>4, <2>2, <2>3, <3>2
    <3>. QED
      BY <3>1, <3>2
  <2>. HIDE DEF kept
  <2>5. CType'
    BY <1>1, <2>1, <2>2, <2>4 DEF CType
  <2>6. Buckets'
    <3>. SUFFICES ASSUME NEW u \in Sources
                  PROVE  /\ Len(recent'[u]) <= MaxCache
                         /\ \E v \in Seq(1..Len(w)) :
                              IsBucket(u, recent'[u], w, now, v)
      BY <2>1 DEF Buckets
    <3>1. CASE u = s
      <4>1. recent'[u] = kept
        BY <1>1, <2>1, <3>1
      <4>2. r \in Seq(1..Len(w))
        BY <2>4 DEF IsBucket
      <4>. QED
        BY <2>4, <3>1, <4>1, <4>2
    <3>2. CASE u # s
      <4>1. recent'[u] = recent[u] /\ recent[u] \in Seq(Candidate)
        BY <1>1, <2>1, <3>2
      <4>2. PICK v \in Seq(1..Len(saved)) :
                   IsBucket(u, recent[u], saved, now, v)
        BY DEF CInv, Buckets
      <4>3. c.source # u
        BY <3>2
      <4>4. IsBucket(u, recent[u], w, now, v)
        BY <1>1, <4>1, <4>2, <4>3, BucketAppends DEF w
      <4>5. v \in Seq(1..Len(w))
        BY <4>4 DEF IsBucket
      <4>. QED
        BY <4>1, <4>4, <4>5 DEF CInv, Buckets
    <3>. QED
      BY <3>1, <3>2
  <2>7. CandidatesDiffer'
    BY <1>7, <2>1, NewOneDiffers DEF w
  <2>. QED
    BY <2>5, <2>6, <2>7 DEF CInv
<1>. QED
  BY <1>6, <1>7

LEMMA NextCInv == CInv /\ [EventNext]_eventVars => CInv'
<1>. SUFFICES ASSUME CInv, [EventNext]_eventVars PROVE CInv'
  OBVIOUS
<1>1. ASSUME UNCHANGED candidateVars PROVE CInv'
  <2>1. now' = now /\ recent' = recent /\ saved' = saved
    BY <1>1 DEF candidateVars
  <2>2. CType' /\ Buckets'
    BY <2>1 DEF CInv, CType, Buckets
  <2>3. CandidatesDiffer'
    BY <2>1 DEF CInv, CandidatesDiffer
  <2>. QED
    BY <2>2, <2>3 DEF CInv
<1>2. ASSUME NEW s \in Sources, AddCandidate(s) PROVE CInv'
  <2>1. PICK text \in Texts[s] : SaveCandidate(s, text)
    BY <1>2 DEF AddCandidate
  <2>2. text \in AllTexts /\ UNCHANGED now
    BY <1>2 DEF AddCandidate, AllTexts
  <2>. QED
    BY <2>1, <2>2, SaveCInv
<1>3. CASE Tick
  <2>1. now' = now + 1 /\ recent' = recent /\ saved' = saved
    BY <1>3 DEF Tick
  <2>2. now \in Nat /\ now' \in Nat /\ now <= now' /\ saved \in Seq(Candidate)
    BY <2>1 DEF CInv, CType
  <2>3. CType'
    BY <2>1, <2>2 DEF CInv, CType
  <2>4. ASSUME NEW s \in Sources
        PROVE  /\ Len(recent[s]) <= MaxCache
               /\ \E p \in Seq(1..Len(saved)) :
                    IsBucket(s, recent[s], saved, now', p)
    <3>1. PICK p \in Seq(1..Len(saved)) : IsBucket(s, recent[s], saved, now, p)
      BY DEF CInv, Buckets
    <3>2. IsBucket(s, recent[s], saved, now', p)
      BY <2>2, <3>1, BucketAges
    <3>. QED
      BY <3>2 DEF CInv, Buckets
  <2>5. Buckets'
    BY <2>1, <2>4 DEF Buckets
  <2>6. CandidatesDiffer'
    BY <2>1 DEF CInv, CandidatesDiffer
  <2>. QED
    BY <2>3, <2>5, <2>6 DEF CInv
<1>4. CASE UNCHANGED eventVars
  BY <1>1, <1>4 DEF eventVars
<1>. QED
  BY <1>1, <1>2, <1>3, <1>4 DEF EventNext, HandleEvent

\* Whatever the texts, the window and the cache: two candidates of a source that
\* were written within the window differ, unless max_cache others came between
\* them (session.py:33).
THEOREM CandidatesAreNotRepeated == EventSpec => []CandidatesDiffer
<1>1. CInv => CandidatesDiffer
  BY DEF CInv
<1>. QED
  BY <1>1, InitCInv, NextCInv, PTL DEF EventSpec
=============================================================================

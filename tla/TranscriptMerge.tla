--------------------------- MODULE TranscriptMerge ---------------------------
(***************************************************************************)
(* From the receivers to the transcript: handle_transcript and the last    *)
(* part of the finalisation in session.py, with TranscriptMerger           *)
(* (merger.py).                                                            *)
(*                                                                         *)
(* Every source's receiver thread adds its completed results to the shared *)
(* merger under transcript_lock, gets back the entries that are ready, and *)
(* writes them to the transcript after giving the lock back.  When the     *)
(* session ends the main thread waits a bounded time for the server,       *)
(* flushes the merger and writes what it held.                             *)
(*                                                                         *)
(* A result is known by its key; a receiver may hand the same result over  *)
(* more than once.  An entry of the merger's list is <<n, r>>, the n-th    *)
(* result added; Start and Tie stand for start_seconds and for what breaks *)
(* ties (end_seconds and source).                                          *)
(***************************************************************************)
EXTENDS Integers, Sequences, FiniteSets

CONSTANTS
  Sources,     \* the sources, each with a receiver thread
  Results,     \* completed results the servers may send
  SourceOf,    \* the source of each result
  Start, Tie,  \* its place in the transcript
  Delay,       \* reorder_delay_seconds
  CacheSize,   \* max_emitted_keys
  MaxAdded     \* bound: results handed over

ASSUME ConstantsAssumption ==
  /\ SourceOf \in [Results -> Sources]
  /\ Start \in [Results -> Nat] /\ Tie \in [Results -> Nat]
  /\ Delay \in Nat /\ CacheSize \in Nat \ {0} /\ MaxAdded \in Nat

Main == "main"
ASSUME MainIsNoSource == Main \notin Sources
Threads == Sources \cup {Main}

VARIABLES
  added,    \* results handed to the merger so far
  pending, maxSeen, remembered,   \* the merger's fields
  out,      \* entries each thread has taken and not yet written
  emitted,  \* the transcript
  released, \* history: entries in the order the merger released them
  timely,   \* history: no result came later than Delay allows
  mpc       \* the main thread

vars == <<added, pending, maxSeen, remembered, out, emitted, released, timely,
          mpc>>

Entry == (1..MaxAdded) \X Results

Init ==
  /\ added = 0
  /\ pending = {} /\ maxSeen = 0 /\ remembered = <<>>
  /\ out = [t \in Threads |-> <<>>]
  /\ emitted = <<>> /\ released = <<>>
  /\ timely = TRUE
  /\ mpc = "live"

-----------------------------------------------------------------------------
(* TranscriptMerger *)

\* The sort key; sorting is stable, so equal keys stay in the order added.
Before(e, f) ==
  \/ Start[e[2]] < Start[f[2]]
  \/ Start[e[2]] = Start[f[2]] /\ Tie[e[2]] < Tie[f[2]]
  \/ Start[e[2]] = Start[f[2]] /\ Tie[e[2]] = Tie[f[2]] /\ e[1] < f[1]

\* The one way to list the entries of S in that order.
Sorted(S) == {q \in [1..Cardinality(S) -> S] :
                \A i, j \in 1..Cardinality(S) : i < j => Before(q[i], q[j])}

Watermark_NoDelay(seen) == seen
Watermark(seen) == seen - Delay

Known(r) == \E i \in DOMAIN remembered : remembered[i] = r

\* _remember_emitted_key: the deque keeps the newest max_emitted_keys keys.
Remember(r) ==
  LET all == Append(remembered, r)
  IN  remembered' = IF Len(all) > CacheSize THEN Tail(all) ELSE all

\* pop_ready: thread t takes what the watermark has passed.
PopReady(t, held, seen) ==
  LET ready == {e \in held : Start[e[2]] <= Watermark(seen)}
  IN  /\ pending' = held \ ready
      /\ \E q \in Sorted(ready) : /\ out' = [out EXCEPT ![t] = q]
                                  /\ released' = released \o q

-----------------------------------------------------------------------------
(* Receiver threads *)

Idle(t) == out[t] = <<>>

\* add_result, under transcript_lock.  Results that are not completed change
\* nothing here.
AddResult(s) ==
  /\ Idle(s) /\ mpc # "ended" /\ added < MaxAdded
  /\ \E r \in Results :
       /\ SourceOf[r] = s
       /\ added' = added + 1
       /\ IF Known(r)
            THEN UNCHANGED <<pending, maxSeen, remembered, out, released,
                             timely>>
            ELSE /\ Remember(r)
                 /\ maxSeen' = IF Start[r] > maxSeen THEN Start[r] ELSE maxSeen
                 /\ timely' = (timely /\ mpc \in {"live", "wait"}
                                      /\ Start[r] >= maxSeen - Delay)
                 /\ PopReady(s, pending \cup {<<added + 1, r>>}, maxSeen')
  /\ UNCHANGED <<emitted, mpc>>

\* _emit_merged_entry, outside the lock.
Emit(t) ==
  /\ ~Idle(t) /\ mpc # "ended"
  /\ emitted' = Append(emitted, Head(out[t]))
  /\ out' = [out EXCEPT ![t] = Tail(@)]
  /\ UNCHANGED <<added, pending, maxSeen, remembered, released, timely, mpc>>

-----------------------------------------------------------------------------
(* The main thread's finalisation *)

\* END_OF_AUDIO was sent; _wait_for_final_results begins.
BeginWait ==
  /\ mpc = "live"
  /\ mpc' = "wait"
  /\ UNCHANGED <<added, pending, maxSeen, remembered, out, emitted, released,
                 timely>>

Flush_Keeps ==
  /\ mpc = "wait"
  /\ \E q \in Sorted(pending) : /\ out' = [out EXCEPT ![Main] = q]
                                /\ released' = released \o q
  /\ mpc' = "flushed"
  /\ UNCHANGED <<added, pending, maxSeen, remembered, emitted, timely>>

\* The wait is over: it was quiet for 1.5 s, or final_drain_seconds passed.
Flush ==
  /\ mpc = "wait"
  /\ \E q \in Sorted(pending) : /\ out' = [out EXCEPT ![Main] = q]
                                /\ released' = released \o q
  /\ pending' = {}
  /\ mpc' = "flushed"
  /\ UNCHANGED <<added, maxSeen, remembered, emitted, timely>>

\* The clients are closed; a receiver that is still writing is not waited for
\* longer than the 2 s join.
EndSession ==
  /\ mpc = "flushed" /\ Idle(Main)
  /\ mpc' = "ended"
  /\ UNCHANGED <<added, pending, maxSeen, remembered, out, emitted, released,
                 timely>>

Next ==
  \/ \E s \in Sources : AddResult(s)
  \/ \E t \in Threads : Emit(t)
  \/ BeginWait \/ Flush \/ EndSession

Spec == Init /\ [][Next]_vars

-----------------------------------------------------------------------------
(* Properties *)

TypeOK ==
  /\ added \in 0..MaxAdded
  /\ pending \subseteq Entry /\ maxSeen \in Nat
  /\ remembered \in Seq(Results) /\ Len(remembered) <= CacheSize
  /\ out \in [Threads -> Seq(Entry)]
  /\ emitted \in Seq(Entry) /\ released \in Seq(Entry)
  /\ timely \in BOOLEAN
  /\ mpc \in {"live", "wait", "flushed", "ended"}

InOrder(q) == \A i, j \in 1..Len(q) : i < j => Start[q[i][2]] <= Start[q[j][2]]

\* As long as no result is later than reorder_delay_seconds allows, the merger
\* releases the results of all sources in timestamp order over all its
\* batches, the last flush included (merger.py:22).
ReleasedInOrder == timely => InOrder(released)

\* While the keys fit in the cache, a result that is sent again is released
\* once (test_merger_deduplicates_repeated_history_segments).
ReleasedOnce ==
  added <= CacheSize =>
    \A i, j \in DOMAIN released : released[i][2] = released[j][2] => i = j

Entries(q) == {q[i] : i \in DOMAIN q}

\* What the merger released is in the transcript or in the hands of the thread
\* that took it, once: no batch is overwritten or written twice.
ReleasedIsWritten ==
  /\ Entries(released) =
       Entries(emitted) \cup UNION {Entries(out[t]) : t \in Threads}
  /\ Cardinality(Entries(emitted)) = Len(emitted)

\* The two together: what a source sends again and again is released and
\* written once.
WrittenOnce == ReleasedOnce /\ ReleasedIsWritten
=============================================================================

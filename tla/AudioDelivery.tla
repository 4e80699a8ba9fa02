---------------------------- MODULE AudioDelivery ----------------------------
(***************************************************************************)
(* What the buffered reconnect client promises the capture side about the  *)
(* audio of one source, without locks, sockets or backoff: chunks are      *)
(* written to the connection in the order they were captured, never twice, *)
(* and when something must be given up it is the oldest chunk that waits.  *)
(* A connection may be replaced at any time; what was written to an        *)
(* earlier one stays written there.                                        *)
(***************************************************************************)
EXTENDS Integers, Sequences

CONSTANTS MaxChunks, MaxGen

Chunks == 1..MaxChunks
Gens   == 1..MaxGen

VARIABLES
  admitted,  \* chunks accepted so far: 1..admitted
  pending,   \* accepted, neither written nor given up, oldest first
  epoch,     \* the current connection, 0 before the first
  wire,      \* what was written to each connection
  dropped    \* chunks given up

vars == <<admitted, pending, epoch, wire, dropped>>

Init ==
  /\ admitted = 0
  /\ pending = <<>>
  /\ epoch = 0
  /\ wire = [g \in Gens |-> <<>>]
  /\ dropped = {}

Accept ==
  /\ admitted < MaxChunks
  /\ admitted' = admitted + 1
  /\ pending' = Append(pending, admitted + 1)
  /\ UNCHANGED <<epoch, wire, dropped>>

Deliver ==
  /\ epoch \in Gens /\ pending # <<>>
  /\ wire' = [wire EXCEPT ![epoch] = Append(@, Head(pending))]
  /\ pending' = Tail(pending)
  /\ UNCHANGED <<admitted, epoch, dropped>>

DropOldest ==
  /\ pending # <<>>
  /\ dropped' = dropped \cup {Head(pending)}
  /\ pending' = Tail(pending)
  /\ UNCHANGED <<admitted, epoch, wire>>

Reconnect ==
  /\ epoch < MaxGen
  /\ epoch' = epoch + 1
  /\ UNCHANGED <<admitted, pending, wire, dropped>>

Next == Accept \/ Deliver \/ DropOldest \/ Reconnect

Spec == Init /\ [][Next]_vars

-----------------------------------------------------------------------------
TypeOK ==
  /\ admitted \in 0..MaxChunks
  /\ pending \in Seq(Chunks)
  /\ epoch \in 0..MaxGen
  /\ wire \in [Gens -> Seq(Chunks)]
  /\ dropped \subseteq Chunks

Increasing(s) == \A i, j \in DOMAIN s : i < j => s[i] < s[j]
AllBefore(s, t) == \A i \in DOMAIN s : \A j \in DOMAIN t : s[i] < t[j]
Elements(s) == {s[i] : i \in DOMAIN s}

\* Over all connections together the chunks are written in capture order and
\* none twice, and whatever waits comes after everything written.
InOrderOnce ==
  /\ \A g \in Gens : Increasing(wire[g]) /\ AllBefore(wire[g], pending)
  /\ \A g, h \in Gens : g < h => AllBefore(wire[g], wire[h])
  /\ Increasing(pending)

\* Every accepted chunk was written, waits, or was given up, and none that
\* was given up is written or waits.
EveryChunkAccounted ==
  LET kept == (UNION {Elements(wire[g]) : g \in Gens}) \cup Elements(pending)
  IN  kept \cup dropped = 1..admitted /\ kept \cap dropped = {}

\* What is given up is older than everything that still waits.
KeepsNewest ==
  \A d \in dropped : \A i \in DOMAIN pending : d < pending[i]
=============================================================================

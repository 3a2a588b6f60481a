----------------------------- MODULE QueueOrder -----------------------------
(***************************************************************************)
(* Queue positions: the queue operations of engine/engine.go and what      *)
(* engine/store.go keeps of them.  Every operation holds e.mu throughout,  *)
(* so each is one action; only RemoveTorrent saves after it has let go.    *)
(***************************************************************************)
EXTENDS Integers, FiniteSets

CONSTANTS
  Torrent,
  MaxPos        \* positions the model may reach; an unbounded int in the code

ASSUME QueueAssumption == IsFiniteSet(Torrent) /\ MaxPos \in Nat

VARIABLES
  pos,          \* QueuePosition of every session; its domain is e.sessions
  stored,       \* QueuePosition in the store's records (store.records)
  disk,         \* QueuePosition in the state file
  up            \* the engine runs

vars == <<pos, stored, disk, up>>

Sessions == DOMAIN pos

\* maxQueuePosition, of the positions p; -1 for an empty queue.
Bottom(p) == CHOOSE m \in {p[t] : t \in DOMAIN p} \cup {-1} : \A t \in DOMAIN p : p[t] <= m

\* Mutant: ranks count from one.
CompactFromOne(p) == [t \in DOMAIN p |-> Cardinality({u \in DOMAIN p : p[u] <= p[t]})]

\* compactQueueLocked: sorted by position, each session gets its rank.
Compact(p) == [t \in DOMAIN p |-> Cardinality({u \in DOMAIN p : p[u] < p[t]})]

Without(p, t) == [u \in DOMAIN p \ {t} |-> p[u]]

\* Mutant: a move up shifts the items below the target and not the target.
MoveOffByOne(t, n) ==
  [u \in Sessions |->
     IF u = t THEN n
     ELSE IF pos[t] < n /\ pos[t] < pos[u] /\ pos[u] <= n THEN pos[u] - 1
     ELSE IF n < pos[t] /\ n < pos[u] /\ pos[u] < pos[t] THEN pos[u] + 1
     ELSE pos[u]]

\* The positions after t has moved to position n and the others made room.
Move(t, n) ==
  [u \in Sessions |->
     IF u = t THEN n
     ELSE IF pos[t] < n /\ pos[t] < pos[u] /\ pos[u] <= n THEN pos[u] - 1
     ELSE IF n < pos[t] /\ n <= pos[u] /\ pos[u] < pos[t] THEN pos[u] + 1
     ELSE pos[u]]

\* Mutant: only the torrent that was asked for moves.
SwapHalf(a, b) == [u \in Sessions |-> IF pos[u] = a THEN b ELSE pos[u]]

\* swapQueuePositions: whoever is at a goes to b and the other way round; a
\* position that nobody holds is no obstacle.
Swap(a, b) ==
  [u \in Sessions |-> IF pos[u] = a THEN b ELSE IF pos[u] = b THEN a ELSE pos[u]]

\* saveStateLocked with the positions p.
SaveAs(p) == stored' = p /\ disk' = p

-----------------------------------------------------------------------------
\* AddTorrent: at the bottom, saved.
Add(t) ==
  /\ up /\ t \notin Sessions /\ Bottom(pos) < MaxPos
  /\ pos' = [u \in Sessions \cup {t} |-> IF u = t THEN Bottom(pos) + 1 ELSE pos[u]]
  /\ SaveAs(pos')
  /\ UNCHANGED up

\* RemoveTorrent: the record goes from the store and the file, and the gap is
\* closed in the sessions only: Save writes the store's records as they are.
Remove(t) ==
  /\ up /\ t \in Sessions
  /\ pos' = Compact(Without(pos, t))
  /\ stored' = Without(stored, t)
  /\ disk' = stored'
  /\ UNCHANGED up

\* QueueTop; setQueuePosition returns early when the position is the same.
QueueTop(t) ==
  /\ up /\ t \in Sessions /\ pos[t] # 0
  /\ pos' = Move(t, 0)
  /\ SaveAs(pos')
  /\ UNCHANGED up

QueueUp(t) ==
  /\ up /\ t \in Sessions /\ pos[t] > 0
  /\ pos' = Swap(pos[t], pos[t] - 1)
  /\ SaveAs(pos')
  /\ UNCHANGED up

QueueDown(t) ==
  /\ up /\ t \in Sessions /\ pos[t] < Bottom(pos)
  /\ pos' = Swap(pos[t], pos[t] + 1)
  /\ SaveAs(pos')
  /\ UNCHANGED up

\* QueueBottom saves nothing.
QueueBottom(t) ==
  /\ up /\ t \in Sessions /\ pos[t] # Bottom(pos)
  /\ pos' = Move(t, Bottom(pos))
  /\ UNCHANGED <<stored, disk, up>>

\* The orchestrator: a torrent has left the active set.
CompactQueue ==
  /\ up
  /\ pos' = Compact(pos)
  /\ SaveAs(pos')
  /\ UNCHANGED up

\* saveState: from the ticker, a session's end, a pause, a resume.
Save ==
  /\ up
  /\ SaveAs(pos)
  /\ UNCHANGED <<pos, up>>

\* The process is gone, between any two operations.
Crash ==
  /\ up
  /\ up' = FALSE
  /\ UNCHANGED <<pos, stored, disk>>

\* New and Start: the state file is loaded and every record gets a session.
Restart ==
  /\ ~up
  /\ up' = TRUE
  /\ pos' = disk /\ stored' = disk
  /\ UNCHANGED disk

-----------------------------------------------------------------------------
Empty == [t \in {} |-> 0]

Init == pos = Empty /\ stored = Empty /\ disk = Empty /\ up = TRUE

\* What a running engine does.
Operation ==
  \/ \E t \in Torrent :
       \/ Add(t) \/ Remove(t)
       \/ QueueTop(t) \/ QueueUp(t) \/ QueueDown(t) \/ QueueBottom(t)
  \/ CompactQueue \/ Save

Next == Operation \/ Crash \/ Restart

Spec == Init /\ [][Next]_vars

-----------------------------------------------------------------------------
Positions(p) == DOMAIN p \subseteq Torrent /\ p \in [DOMAIN p -> Nat]

Distinct(p) == \A t, u \in DOMAIN p : p[t] = p[u] => t = u

\* Types; no position is negative.
TypeOK == Positions(pos) /\ Positions(stored) /\ Positions(disk) /\ up \in BOOLEAN

\* No two torrents hold the same position, in memory or on disk, whatever
\* operations and crashes happen: swapQueuePositions finds a torrent by its
\* position, and would lose one of two that share it.
Unique == Distinct(pos) /\ Distinct(disk)

\* The store knows the sessions of the engine, and the file is what the store
\* has: an added torrent survives a crash, a removed one stays removed.
SameTorrents == up => DOMAIN stored = Sessions /\ DOMAIN disk = Sessions

\* The positions in use are an initial segment.
Dense == {pos[t] : t \in Sessions} = 0 .. Cardinality(Sessions) - 1

\* "the remaining queue stays dense (0, 1, 2, ...) rather than developing
\* holes": no operation of a running engine makes a hole; one can only come
\* from the state file (compactQueueLocked, setQueuePosition,
\* swapQueuePositions, AddTorrent, RemoveTorrent).
StaysDense == [][Dense /\ Operation => Dense']_vars

\* QueueTop, QueueUp, QueueDown and QueueBottom move one torrent and keep the
\* order of all the others.
OthersKeepOrder ==
  [][\A t \in Sessions :
       QueueTop(t) \/ QueueUp(t) \/ QueueDown(t) \/ QueueBottom(t) =>
         \A u, v \in Sessions \ {t} : pos[u] < pos[v] => pos'[u] < pos'[v]]_vars

=============================================================================

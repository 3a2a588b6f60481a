-------------------------- MODULE QueueOrderProofs --------------------------
(***************************************************************************)
(* Proofs about queue positions, for any finite set of torrents.           *)
(*                                                                         *)
(* Positions stay distinct under every operation and every crash, and no   *)
(* operation makes a hole.  Both rest on what compaction does to distinct  *)
(* positions: ranks form a bijection with 0 .. n - 1.                      *)
(***************************************************************************)
EXTENDS QueueOrder, FiniteSetTheorems, TLAPS

\* Positions as an engine may hold or save them.
Good(p) == Positions(p) /\ Distinct(p)

\* The inductive invariant: a crash makes what is on disk the positions in
\* use, and a save makes the store's records what is on disk.
GoodEverywhere == Good(pos) /\ Good(stored) /\ Good(disk) /\ up \in BOOLEAN

-----------------------------------------------------------------------------
(* Ranks *)

\* The sets whose cardinalities compactQueueLocked assigns are finite.
LEMMA BelowFinite ==
  ASSUME NEW p, Positions(p), NEW n
  PROVE  /\ IsFiniteSet(DOMAIN p)
         /\ IsFiniteSet({u \in DOMAIN p : p[u] < n})
         /\ Cardinality({u \in DOMAIN p : p[u] < n}) \in Nat
         /\ Cardinality(DOMAIN p) \in Nat
<1>1. IsFiniteSet(DOMAIN p)
  BY FS_Subset, QueueAssumption DEF Positions
<1>2. IsFiniteSet({u \in DOMAIN p : p[u] < n})
  BY <1>1, FS_Subset
<1>. QED BY <1>1, <1>2, FS_CardinalityType

\* compactQueueLocked keeps the order: the lower position has the lower rank.
LEMMA RankMonotone ==
  ASSUME NEW p, Positions(p), NEW t \in DOMAIN p, NEW u \in DOMAIN p, p[t] < p[u]
  PROVE  Compact(p)[t] < Compact(p)[u]
<1>. DEFINE A == {v \in DOMAIN p : p[v] < p[t]}
            B == {v \in DOMAIN p : p[v] < p[u]}
<1>1. A \in SUBSET B
  BY DEF Positions
<1>2. A # B
  BY DEF Positions
<1>3. IsFiniteSet(B) /\ Cardinality(A) \in Nat /\ Cardinality(B) \in Nat
  BY BelowFinite
<1>4. Cardinality(A) <= Cardinality(B) /\ Cardinality(A) # Cardinality(B)
  BY <1>1, <1>2, <1>3, FS_Subset
<1>. QED BY <1>3, <1>4 DEF Compact

\* A rank is below the number of sessions.
LEMMA RankBound ==
  ASSUME NEW p, Positions(p), NEW t \in DOMAIN p
  PROVE  Compact(p)[t] \in 0 .. Cardinality(DOMAIN p) - 1
<1>. DEFINE A == {v \in DOMAIN p : p[v] < p[t]}
<1>1. A \in SUBSET DOMAIN p /\ A # DOMAIN p
  BY DEF Positions
<1>2. IsFiniteSet(DOMAIN p) /\ Cardinality(A) \in Nat /\ Cardinality(DOMAIN p) \in Nat
  BY BelowFinite
<1>3. Cardinality(A) <= Cardinality(DOMAIN p) /\ Cardinality(A) # Cardinality(DOMAIN p)
  BY <1>1, <1>2, FS_Subset
<1>. QED BY <1>2, <1>3 DEF Compact

\* Compaction of distinct positions gives distinct positions.
LEMMA CompactGood ==
  ASSUME NEW p, Good(p)
  PROVE  Good(Compact(p)) /\ DOMAIN Compact(p) = DOMAIN p
<1>1. DOMAIN Compact(p) = DOMAIN p
  BY DEF Compact
<1>2. \A t \in DOMAIN p : Compact(p)[t] \in Nat
  BY RankBound, BelowFinite DEF Good
<1>3. Positions(Compact(p))
  BY <1>1, <1>2 DEF Good, Positions, Compact
<1>4. ASSUME NEW t \in DOMAIN p, NEW u \in DOMAIN p, Compact(p)[t] = Compact(p)[u]
      PROVE  t = u
  <2>1. p[t] \in Nat /\ p[u] \in Nat /\ Compact(p)[t] \in Nat
    BY <1>2 DEF Good, Positions
  <2>2. ~(p[t] < p[u]) /\ ~(p[u] < p[t])
    BY <1>4, <2>1, RankMonotone DEF Good
  <2>. QED BY <2>1, <2>2 DEF Good, Distinct
<1>. QED BY <1>1, <1>3, <1>4 DEF Good, Distinct

\* Distinct positions are compacted onto exactly 0 .. n - 1.
LEMMA CompactOnto ==
  ASSUME NEW p, Good(p)
  PROVE  Compact(p) \in Surjection(DOMAIN p, 0 .. Cardinality(DOMAIN p) - 1)
<1>. DEFINE n == Cardinality(DOMAIN p)
            f == Compact(p)
<1>1. IsFiniteSet(DOMAIN p) /\ n \in Nat
  BY BelowFinite DEF Good
<1>2. f \in [DOMAIN p -> 0 .. n - 1]
  BY RankBound DEF Good, Compact
<1>3. f \in Injection(DOMAIN p, 0 .. n - 1)
  BY <1>2, CompactGood DEF Good, Distinct, Injection, IsInjective
<1>4. IsFiniteSet(0 .. n - 1) /\ Cardinality(0 .. n - 1) = n
  <2>1. 0 \in Int /\ n - 1 \in Int
    BY <1>1
  <2>. QED BY <1>1, <2>1, FS_Interval
<1>. QED BY <1>3, <1>4, FS_Injection

\* maxQueuePosition is attained and is a bound, for distinct positions: the
\* session of the highest rank has it.
LEMMA BottomIsMax ==
  ASSUME NEW p, Good(p)
  PROVE  /\ Bottom(p) \in Int /\ -1 <= Bottom(p)
         /\ \A t \in DOMAIN p : p[t] <= Bottom(p)
         /\ DOMAIN p # {} => \E t \in DOMAIN p : p[t] = Bottom(p)
<1>. DEFINE n == Cardinality(DOMAIN p)
<1>1. CASE DOMAIN p = {}
  BY <1>1 DEF Bottom
<1>2. CASE DOMAIN p # {}
  <2>1. IsFiniteSet(DOMAIN p) /\ n \in Nat /\ n # 0
    BY <1>2, BelowFinite, FS_EmptySet DEF Good
  <2>2. PICK t \in DOMAIN p : Compact(p)[t] = n - 1
    BY <2>1, CompactOnto DEF Surjection
  <2>3. \A u \in DOMAIN p : p[u] <= p[t]
    <3>1. SUFFICES ASSUME NEW u \in DOMAIN p, p[t] < p[u]
                   PROVE  FALSE
      BY DEF Good, Positions
    <3>2. Compact(p)[t] < Compact(p)[u]
      BY <3>1, RankMonotone DEF Good
    <3>3. Compact(p)[u] \in 0 .. n - 1
      BY RankBound DEF Good
    <3>. QED BY <2>1, <2>2, <3>2, <3>3
  <2>4. p[t] \in {p[u] : u \in DOMAIN p} \cup {-1}
    OBVIOUS
  <2>5. /\ Bottom(p) \in {p[u] : u \in DOMAIN p} \cup {-1}
        /\ \A u \in DOMAIN p : p[u] <= Bottom(p)
    BY <2>3, <2>4 DEF Bottom
  <2>6. p[t] \in Nat /\ p[t] <= Bottom(p)
    BY <2>5 DEF Good, Positions
  <2>7. Bottom(p) # -1
    BY <2>6
  <2>. QED BY <2>5, <2>7 DEF Good, Positions
<1>. QED BY <1>1, <1>2

-----------------------------------------------------------------------------
(* The operations on positions *)

\* A removal leaves the positions of the others distinct.
LEMMA WithoutGood ==
  ASSUME NEW p, Good(p), NEW t
  PROVE  Good(Without(p, t))
BY DEF Good, Positions, Distinct, Without

\* A new torrent at the bottom shares its position with nobody.
LEMMA AddGood ==
  ASSUME Good(pos), NEW t \in Torrent, Add(t)
  PROVE  Good(pos') /\ stored' = pos' /\ disk' = pos' /\ up' = up
<1>1. /\ Bottom(pos) + 1 \in Nat
      /\ \A u \in DOMAIN pos : pos[u] \in Nat /\ pos[u] < Bottom(pos) + 1
  BY BottomIsMax DEF Good, Positions
<1>. QED BY <1>1 DEF Add, SaveAs, Sessions, Good, Positions, Distinct

\* A move to a position, with the others making room, keeps positions distinct.
LEMMA MoveGood ==
  ASSUME Good(pos), NEW t \in Sessions, NEW n \in Nat
  PROVE  Good(Move(t, n))
<1>. DEFINE q == Move(t, n)
<1>1. DOMAIN q = Sessions /\ \A u \in Sessions : pos[u] \in Nat /\ pos[t] \in Nat
  BY DEF Move, Sessions, Good, Positions
<1>2. \A u \in Sessions : q[u] \in Nat
  BY <1>1 DEF Move
<1>3. ASSUME NEW u \in Sessions, NEW v \in Sessions, q[u] = q[v]
      PROVE  u = v
  <2>1. pos[u] = pos[v] => u = v
    BY DEF Good, Distinct, Sessions
  <2>2. (pos[u] = pos[t] => u = t) /\ (pos[v] = pos[t] => v = t)
    BY DEF Good, Distinct, Sessions
  <2>. QED BY <1>1, <1>3, <2>1, <2>2 DEF Move
<1>. QED BY <1>1, <1>2, <1>3 DEF Good, Positions, Distinct, Move, Sessions

\* An exchange of two positions keeps positions distinct, whether or not
\* somebody is at the other one.
LEMMA SwapGood ==
  ASSUME Good(pos), NEW a \in Nat, NEW b \in Nat
  PROVE  Good(Swap(a, b))
BY DEF Good, Positions, Distinct, Swap, Sessions

\* Every operation and every crash keeps the positions in memory, in the store
\* and on disk distinct.
LEMMA NextGood ==
  ASSUME GoodEverywhere, [Next]_vars
  PROVE  GoodEverywhere'
<1>. USE DEF GoodEverywhere
<1>1. ASSUME NEW t \in Torrent, Add(t) PROVE GoodEverywhere'
  BY <1>1, AddGood
<1>2. ASSUME NEW t \in Torrent, Remove(t) PROVE GoodEverywhere'
  BY <1>2, WithoutGood, CompactGood DEF Remove
<1>3. ASSUME NEW t \in Torrent, QueueTop(t) PROVE GoodEverywhere'
  <2>1. Good(Move(t, 0))
    BY <1>3, MoveGood DEF QueueTop
  <2>. QED BY <1>3, <2>1 DEF QueueTop, SaveAs
<1>4. ASSUME NEW t \in Torrent, QueueUp(t) PROVE GoodEverywhere'
  <2>1. pos[t] \in Nat /\ pos[t] - 1 \in Nat
    BY <1>4 DEF QueueUp, Good, Positions, Sessions
  <2>2. Good(Swap(pos[t], pos[t] - 1))
    BY <2>1, SwapGood
  <2>. QED BY <1>4, <2>2 DEF QueueUp, SaveAs
<1>5. ASSUME NEW t \in Torrent, QueueDown(t) PROVE GoodEverywhere'
  <2>1. pos[t] \in Nat /\ pos[t] + 1 \in Nat
    BY <1>5 DEF QueueDown, Good, Positions, Sessions
  <2>2. Good(Swap(pos[t], pos[t] + 1))
    BY <2>1, SwapGood
  <2>. QED BY <1>5, <2>2 DEF QueueDown, SaveAs
<1>6. ASSUME NEW t \in Torrent, QueueBottom(t) PROVE GoodEverywhere'
  <2>1. Bottom(pos) \in Nat
    BY <1>6, BottomIsMax DEF QueueBottom, Good, Positions, Sessions
  <2>2. Good(Move(t, Bottom(pos)))
    BY <1>6, <2>1, MoveGood DEF QueueBottom
  <2>. QED BY <1>6, <2>2 DEF QueueBottom
<1>7. CASE CompactQueue
  BY <1>7, CompactGood DEF CompactQueue, SaveAs
<1>8. CASE Save
  BY <1>8 DEF Save, SaveAs
<1>9. CASE Crash
  BY <1>9 DEF Crash
<1>10. CASE Restart
  BY <1>10 DEF Restart
<1>11. CASE UNCHANGED vars
  BY <1>11 DEF vars
<1>. QED BY <1>1, <1>2, <1>3, <1>4, <1>5, <1>6, <1>7, <1>8, <1>9, <1>10, <1>11
        DEF Next, Operation

\* The invariant holds in every behaviour, crashes and restarts included.
LEMMA AlwaysGood == Spec => []GoodEverywhere
<1>1. Init => GoodEverywhere
  BY DEF Init, Empty, GoodEverywhere, Good, Positions, Distinct
<1>2. GoodEverywhere /\ [Next]_vars => GoodEverywhere'
  BY NextGood
<1>. QED BY <1>1, <1>2, PTL DEF Spec

\* No two torrents ever share a position, in memory or on disk, whatever queue
\* operations, saves, crashes and restarts happen (engine.go, store.go).
THEOREM PositionsUnique == Spec => []Unique
<1>1. GoodEverywhere => Unique
  BY DEF GoodEverywhere, Good, Unique
<1>. QED BY <1>1, AlwaysGood, PTL

\* Positions are natural numbers of sessions the engine knows, always.
THEOREM PositionTypes == Spec => []TypeOK
<1>1. GoodEverywhere => TypeOK
  BY DEF GoodEverywhere, Good, TypeOK
<1>. QED BY <1>1, AlwaysGood, PTL

-----------------------------------------------------------------------------
(* The store has the sessions of the engine *)

\* An added torrent is on disk when AddTorrent returns and a removed one is
\* gone from it, so a crash neither loses nor brings back a torrent.
THEOREM StoreFollows == Spec => []SameTorrents
<1>. DEFINE Same == DOMAIN stored = Sessions /\ DOMAIN disk = Sessions
<1>1. Init => Same
  BY DEF Init, Sessions
<1>2. Same /\ [Next]_vars => Same'
  <2>. SUFFICES ASSUME Same, [Next]_vars PROVE Same'
    OBVIOUS
  <2>1. ASSUME NEW t \in Torrent, Remove(t) PROVE Same'
    BY <2>1 DEF Remove, Sessions, Without, Compact
  <2>2. ASSUME NEW t \in Torrent, Add(t) \/ QueueTop(t) \/ QueueUp(t) \/ QueueDown(t) PROVE Same'
    BY <2>2 DEF Add, QueueTop, QueueUp, QueueDown, SaveAs, Sessions
  <2>3. ASSUME NEW t \in Torrent, QueueBottom(t) PROVE Same'
    BY <2>3 DEF QueueBottom, Move, Sessions
  <2>4. CASE CompactQueue \/ Save
    BY <2>4 DEF CompactQueue, Save, SaveAs, Sessions
  <2>5. CASE Crash \/ Restart \/ UNCHANGED vars
    BY <2>5 DEF Crash, Restart, vars, Sessions
  <2>. QED BY <2>1, <2>2, <2>3, <2>4, <2>5 DEF Next, Operation
<1>3. Same => SameTorrents
  BY DEF SameTorrents
<1>. QED BY <1>1, <1>2, <1>3, PTL DEF Spec

-----------------------------------------------------------------------------
(* Density *)

\* Distinct positions below their number leave no hole.
LEMMA BoundedIsDense ==
  ASSUME NEW q, Good(q), \A t \in DOMAIN q : q[t] <= Cardinality(DOMAIN q) - 1
  PROVE  {q[t] : t \in DOMAIN q} = 0 .. Cardinality(DOMAIN q) - 1
<1>. DEFINE n == Cardinality(DOMAIN q)
<1>1. IsFiniteSet(DOMAIN q) /\ n \in Nat
  BY BelowFinite DEF Good
<1>2. q \in Injection(DOMAIN q, 0 .. n - 1)
  BY <1>1 DEF Good, Positions, Distinct, Injection, IsInjective
<1>3. IsFiniteSet(0 .. n - 1) /\ Cardinality(0 .. n - 1) = n
  <2>1. 0 \in Int /\ n - 1 \in Int
    BY <1>1
  <2>. QED BY <1>1, <2>1, FS_Interval
<1>4. q \in Surjection(DOMAIN q, 0 .. n - 1)
  BY <1>2, <1>3, FS_Injection
<1>. QED BY <1>4 DEF Surjection

\* Without a crash every operation keeps the queue dense.
LEMMA OperationDense ==
  ASSUME GoodEverywhere, Dense, [Operation]_vars
  PROVE  Dense'
<1>. DEFINE n == Cardinality(Sessions)
<1>1. IsFiniteSet(Sessions) /\ n \in Nat /\ Good(pos) /\ Good(pos')
  BY BelowFinite, NextGood DEF GoodEverywhere, Good, Sessions, Next
<1>2. \A t \in Sessions : pos[t] \in 0 .. n - 1
  BY DEF Dense
<1>3. Bottom(pos) = n - 1
  <2>1. CASE Sessions = {}
    BY <2>1, FS_EmptySet DEF Bottom, Sessions
  <2>2. CASE Sessions # {}
    <3>1. PICK t \in Sessions : pos[t] = Bottom(pos)
      BY <1>1, <2>2, BottomIsMax DEF Sessions
    <3>2. n # 0
      BY <1>1, <2>2, FS_EmptySet
    <3>3. PICK u \in Sessions : pos[u] = n - 1
      <4>1. n - 1 \in 0 .. n - 1
        BY <1>1, <3>2
      <4>. QED BY <4>1 DEF Dense
    <3>4. pos[u] <= Bottom(pos)
      BY <1>1, BottomIsMax DEF Sessions
    <3>. QED BY <1>1, <1>2, <3>1, <3>3, <3>4
  <2>. QED BY <2>1, <2>2
<1>4. ASSUME NEW t \in Torrent, Add(t) PROVE Dense'
  <2>1. Sessions' = Sessions \cup {t} /\ t \notin Sessions
    BY <1>4 DEF Add, Sessions
  <2>2. Cardinality(Sessions') = n + 1
    BY <1>1, <2>1, FS_AddElement
  <2>3. \A u \in Sessions' : pos'[u] <= n
    BY <1>1, <1>2, <1>3, <1>4, <2>1 DEF Add
  <2>4. \A u \in DOMAIN pos' : pos'[u] <= Cardinality(DOMAIN pos') - 1
    BY <1>1, <2>2, <2>3 DEF Sessions
  <2>. QED BY <1>1, <2>4, BoundedIsDense DEF Dense, Sessions
<1>5. ASSUME NEW p, Good(p), pos' = Compact(p) PROVE Dense'
  <2>1. DOMAIN pos' = DOMAIN p
    BY <1>5, CompactGood
  <2>2. Compact(p) \in Surjection(DOMAIN p, 0 .. Cardinality(DOMAIN p) - 1)
    BY <1>5, CompactOnto
  <2>3. {pos'[t] : t \in DOMAIN p} = 0 .. Cardinality(DOMAIN p) - 1
    BY <1>5, <2>2 DEF Surjection
  <2>. QED BY <2>1, <2>3 DEF Dense, Sessions
<1>6. ASSUME Sessions' = Sessions, \A u \in Sessions : pos'[u] <= n - 1 PROVE Dense'
  <2>1. \A u \in DOMAIN pos' : pos'[u] <= Cardinality(DOMAIN pos') - 1
    BY <1>6 DEF Sessions
  <2>. QED BY <1>1, <2>1, BoundedIsDense DEF Dense, Sessions
<1>7. ASSUME NEW t \in Sessions, NEW m \in 0 .. n - 1, pos' = Move(t, m) PROVE Dense'
  <2>1. \A u \in Sessions : pos'[u] <= n - 1
    BY <1>1, <1>2, <1>7 DEF Move
  <2>. QED BY <1>6, <1>7, <2>1 DEF Move, Sessions
<1>8. ASSUME NEW a \in 0 .. n - 1, NEW b \in 0 .. n - 1, pos' = Swap(a, b) PROVE Dense'
  <2>1. \A u \in Sessions : pos'[u] <= n - 1
    BY <1>1, <1>2, <1>8 DEF Swap
  <2>. QED BY <1>6, <1>8, <2>1 DEF Swap, Sessions
<1>9. ASSUME NEW t \in Torrent, Remove(t) PROVE Dense'
  BY <1>1, <1>5, <1>9, WithoutGood DEF Remove
<1>10. ASSUME NEW t \in Torrent, QueueTop(t) PROVE Dense'
  <2>1. t \in Sessions /\ 0 \in 0 .. n - 1
    BY <1>1, <1>2, <1>10 DEF QueueTop
  <2>. QED BY <1>7, <1>10, <2>1 DEF QueueTop
<1>11. ASSUME NEW t \in Torrent, QueueUp(t) PROVE Dense'
  <2>1. pos[t] \in 0 .. n - 1 /\ pos[t] - 1 \in 0 .. n - 1
    BY <1>1, <1>2, <1>11 DEF QueueUp
  <2>. QED BY <1>8, <1>11, <2>1 DEF QueueUp
<1>12. ASSUME NEW t \in Torrent, QueueDown(t) PROVE Dense'
  <2>1. pos[t] \in 0 .. n - 1 /\ pos[t] + 1 \in 0 .. n - 1
    BY <1>1, <1>2, <1>3, <1>12 DEF QueueDown
  <2>. QED BY <1>8, <1>12, <2>1 DEF QueueDown
<1>13. ASSUME NEW t \in Torrent, QueueBottom(t) PROVE Dense'
  <2>1. t \in Sessions /\ Bottom(pos) \in 0 .. n - 1
    BY <1>1, <1>2, <1>3, <1>13 DEF QueueBottom
  <2>. QED BY <1>7, <1>13, <2>1 DEF QueueBottom
<1>14. CASE CompactQueue
  BY <1>1, <1>5, <1>14 DEF CompactQueue
<1>15. CASE Save \/ UNCHANGED vars
  BY <1>15 DEF Save, vars, Dense, Sessions
<1>. QED BY <1>4, <1>9, <1>10, <1>11, <1>12, <1>13, <1>14, <1>15 DEF Operation

\* No operation of a running engine makes a hole in a dense queue, whatever
\* crashes came before: what compactQueueLocked promises and every queue
\* operation keeps.
THEOREM QueueStaysDense == Spec => StaysDense
<1>1. GoodEverywhere => [Dense /\ Operation => Dense']_vars
  BY OperationDense
<1>2. []GoodEverywhere => [][Dense /\ Operation => Dense']_vars
  BY <1>1, PTL
<1>. QED BY <1>2, AlwaysGood DEF StaysDense

-----------------------------------------------------------------------------
(* Moving one torrent *)

\* QueueTop, QueueUp, QueueDown and QueueBottom change the order of no two
\* torrents other than the one they move, holes or not.
THEOREM MovesAreLocal == Spec => OthersKeepOrder
<1>. DEFINE Moves(t) == QueueTop(t) \/ QueueUp(t) \/ QueueDown(t) \/ QueueBottom(t)
            Local == \A t \in Sessions : Moves(t) =>
                       \A u, v \in Sessions \ {t} : pos[u] < pos[v] => pos'[u] < pos'[v]
<1>1. GoodEverywhere => Local
  <2>. SUFFICES ASSUME GoodEverywhere, NEW t \in Sessions, Moves(t),
                       NEW u \in Sessions \ {t}, NEW v \in Sessions \ {t}, pos[u] < pos[v]
                PROVE  pos'[u] < pos'[v]
    OBVIOUS
  <2>1. /\ pos[t] \in Nat /\ pos[u] \in Nat /\ pos[v] \in Nat
        /\ pos[u] # pos[t] /\ pos[v] # pos[t]
    BY DEF GoodEverywhere, Good, Positions, Distinct, Sessions
  <2>2. ASSUME NEW n \in Nat, pos' = Move(t, n) PROVE pos'[u] < pos'[v]
    BY <2>1, <2>2 DEF Move
  <2>3. CASE QueueTop(t)
    BY <2>2, <2>3 DEF QueueTop
  <2>4. CASE QueueUp(t)
    BY <2>1, <2>4 DEF QueueUp, Swap
  <2>5. CASE QueueDown(t)
    BY <2>1, <2>5 DEF QueueDown, Swap
  <2>6. CASE QueueBottom(t)
    <3>1. Bottom(pos) \in Nat
      BY BottomIsMax, <2>1 DEF GoodEverywhere, Sessions
    <3>. QED BY <2>2, <2>6, <3>1 DEF QueueBottom
  <2>. QED BY <2>3, <2>4, <2>5, <2>6
<1>2. GoodEverywhere => [Local]_vars
  BY <1>1
<1>3. []GoodEverywhere => [][Local]_vars
  BY <1>2, PTL
<1>. QED BY <1>3, AlwaysGood DEF OthersKeepOrder
=============================================================================

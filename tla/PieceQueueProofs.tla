-------------------------- MODULE PieceQueueProofs --------------------------
(***************************************************************************)
(* The queue's invariants for every number of pieces, every endgame        *)
(* threshold and every set of bitfields.  The inductive invariant is the   *)
(* conjunction of the type invariant, BucketsExact and DoneIsGone: Pick    *)
(* reads the buckets, so that it only hands out remaining pieces           *)
(* (pending \subseteq pieces) follows from BucketsExact.                   *)
(***************************************************************************)
EXTENDS PieceQueue, FiniteSetTheorems, TLAPS

\* The inductive invariant.
QInv == QTypeOK /\ BucketsExact /\ DoneIsGone

\* Filing pieces under their availability gives well-typed buckets.
LEMMA FiledType ==
  ASSUME NEW P \in SUBSET Piece, NEW f \in [Piece -> Levels]
  PROVE  {<<f[i], i>> : i \in P} \subseteq Levels \X Piece
<1> SUFFICES ASSUME NEW i \in P PROVE <<f[i], i>> \in Levels \X Piece
  OBVIOUS
<1>1. f[i] \in Levels /\ i \in Piece
  OBVIOUS
<1> QED BY <1>1

\* The constructor files every queued piece under availability 0.
LEMMA QInitInv == QInit => QInv
<1>1. SUFFICES ASSUME NEW queued \in SUBSET Piece, NEW p \in BOOLEAN, NEW s \in BOOLEAN,
                      NewPieceQueue(queued, p, s)
               PROVE  QInv
  BY DEF QInit
<1>2. IsFiniteSet(queued)
  <2>1. IsFiniteSet(Piece)
    BY NumPiecesAssumption, FS_Interval DEF Piece
  <2> QED BY <2>1, FS_Subset
<1>3. totalPieces \in Nat
  BY <1>1, <1>2, FS_CardinalityType DEF NewPieceQueue
<1>4. availability \in [Piece -> Levels]
  BY <1>1, QueueConstants DEF NewPieceQueue
<1>5. BucketsExact
  BY <1>1 DEF NewPieceQueue, BucketsExact
<1>6. DoneIsGone
  BY <1>1 DEF NewPieceQueue, DoneIsGone
<1>7. buckets \subseteq Levels \X Piece
  <2>1. pieces \subseteq Piece
    BY <1>1 DEF NewPieceQueue
  <2> QED BY <1>4, <1>5, <2>1, FiledType DEF BucketsExact
<1>8. /\ pieces \subseteq Piece /\ pending \subseteq Piece /\ done \subseteq Piece
      /\ skipMask \subseteq Piece /\ priority \subseteq Piece
  BY <1>1 DEF NewPieceQueue
<1>9. endgame \in BOOLEAN /\ waitCh \in BOOLEAN /\ sequential \in BOOLEAN
  BY <1>1 DEF NewPieceQueue
<1>10. cancelCh \in 0 .. CancelCap
  BY <1>1, QueueConstants DEF NewPieceQueue
<1>11. QTypeOK
  BY <1>3, <1>4, <1>7, <1>8, <1>9, <1>10 DEF QTypeOK
<1> QED BY <1>5, <1>6, <1>11 DEF QInv

\* Whatever Pick may hand out is a remaining piece.
LEMMA CandidatesRemain ==
  ASSUME QInv, NEW has PROVE Candidates(has) \subseteq pieces
<1>1. Lowest(Pickable(pieces, has)) \subseteq pieces
  BY DEF Lowest, Pickable
<1>2. Pickable(priority, has) \subseteq pieces
  BY DEF Pickable, QInv, DoneIsGone
<1>3. BucketChoices(has) \subseteq pieces
  <2>1. \A b \in buckets : b[2] \in pieces
    BY DEF QInv, BucketsExact
  <2> QED BY <2>1 DEF BucketChoices
<1> QED BY <1>1, <1>2, <1>3 DEF Candidates

LEMMA PickInv ==
  ASSUME QInv, NEW has, NEW i, Pick(has, i) PROVE QInv'
<1>1. i \in pieces
  BY CandidatesRemain DEF Pick
<1>2. QTypeOK'
  BY <1>1 DEF QInv, QTypeOK, Pick, EndgameAtPick
<1>3. BucketsExact'
  BY DEF QInv, BucketsExact, Pick
<1>4. DoneIsGone'
  BY <1>1 DEF QInv, DoneIsGone, Pick
<1> QED BY <1>2, <1>3, <1>4 DEF QInv

LEMMA PickNothingInv ==
  ASSUME QInv, NEW has, PickNothing(has) PROVE QInv'
BY DEF QInv, QTypeOK, BucketsExact, DoneIsGone, PickNothing, EndgameAtPick

LEMMA ReturnInv ==
  ASSUME QInv, NEW i, Return(i) PROVE QInv'
BY DEF QInv, QTypeOK, BucketsExact, DoneIsGone, Return

LEMMA CompleteInv ==
  ASSUME QInv, NEW i \in pieces \cup done, Complete(i) PROVE QInv'
<1>1. QTypeOK'
  BY QueueConstants DEF QInv, QTypeOK, Complete
<1>2. BucketsExact'
  BY DEF QInv, QTypeOK, BucketsExact, DoneIsGone, Complete
<1>3. DoneIsGone'
  BY DEF QInv, DoneIsGone, Complete
<1> QED BY <1>1, <1>2, <1>3 DEF QInv

\* Moving the pieces of S by d levels refiles exactly the pieces of S.
LEMMA MoveBucketExact ==
  ASSUME QInv, NEW S \in SUBSET pieces, NEW d \in Int
  PROVE  moveBucket(S, d) =
           {<<IF i \in S THEN availability[i] + d ELSE availability[i], i>> : i \in pieces}
BY DEF QInv, BucketsExact, moveBucket

LEMMA RecountInv ==
  ASSUME QInv, NEW bf, NEW d \in Int, Recount(bf, d), waitCh' \in BOOLEAN
  PROVE  QInv'
<1> DEFINE S == pieces \cap bf
<1>1. \A i \in S : availability[i] + d \in Levels
  BY DEF Recount
<1>2. availability' = [i \in Piece |-> IF i \in S THEN availability[i] + d
                                       ELSE availability[i]]
  BY DEF Recount
<1>3. buckets' = moveBucket(S, d) /\ pieces' = pieces
  BY DEF Recount
<1>4. BucketsExact'
  <2>1. \A i \in pieces : availability'[i] =
           IF i \in S THEN availability[i] + d ELSE availability[i]
    BY <1>2 DEF QInv, QTypeOK
  <2>2. moveBucket(S, d) =
           {<<IF i \in S THEN availability[i] + d ELSE availability[i], i>> : i \in pieces}
    BY MoveBucketExact
  <2> QED BY <2>1, <2>2, <1>3 DEF BucketsExact
<1>5. availability' \in [Piece -> Levels]
  BY <1>1, <1>2 DEF QInv, QTypeOK
<1>6. buckets' \subseteq Levels \X Piece
  BY <1>3, <1>4, <1>5, FiledType DEF BucketsExact, QInv, QTypeOK
<1>7. QTypeOK'
  BY <1>5, <1>6 DEF QInv, QTypeOK, Recount
<1>8. DoneIsGone'
  BY DEF QInv, DoneIsGone, Recount
<1> QED BY <1>4, <1>7, <1>8 DEF QInv

LEMMA PeerHaveInv ==
  ASSUME QInv, NEW h \in Piece, PeerHave(h) PROVE QInv'
<1>1. availability' \in [Piece -> Levels]
  BY DEF QInv, QTypeOK, PeerHave
<1>2. BucketsExact'
  <2>1. \A i \in pieces : availability'[i] =
           IF i \in {h} \cap pieces THEN availability[i] + 1 ELSE availability[i]
    BY DEF QInv, QTypeOK, PeerHave
  <2>2. moveBucket({h} \cap pieces, 1) =
           {<<IF i \in {h} \cap pieces THEN availability[i] + 1 ELSE availability[i], i>> : i \in pieces}
    BY MoveBucketExact
  <2> QED BY <2>1, <2>2 DEF BucketsExact, PeerHave
<1>3. buckets' \subseteq Levels \X Piece
  <2>1. pieces' \subseteq Piece
    BY DEF QInv, QTypeOK, PeerHave
  <2> QED BY <1>1, <1>2, <2>1, FiledType DEF BucketsExact
<1>4. QTypeOK'
  BY <1>1, <1>3 DEF QInv, QTypeOK, PeerHave
<1>5. DoneIsGone'
  BY DEF QInv, DoneIsGone, PeerHave
<1> QED BY <1>2, <1>4, <1>5 DEF QInv

LEMMA UpdateSkipMaskInv ==
  ASSUME QInv, NEW mask \in SkipMasks, UpdateSkipMask(mask) PROVE QInv'
BY QueueConstants DEF QInv, QTypeOK, BucketsExact, DoneIsGone, UpdateSkipMask

LEMMA TakeTokenInv == ASSUME QInv, TakeToken PROVE QInv'
BY DEF QInv, QTypeOK, BucketsExact, DoneIsGone, TakeToken

LEMMA QNextInv == QInv /\ [QNext]_qvars => QInv'
<1> SUFFICES ASSUME QInv, [QNext]_qvars PROVE QInv'
  OBVIOUS
<1>1. ASSUME NEW bf \in Bitfields, NEW i \in Piece, Pick(bf, i) PROVE QInv'
  BY <1>1, PickInv
<1>2. ASSUME NEW bf \in Bitfields, PickNothing(bf) PROVE QInv'
  BY <1>2, PickNothingInv
<1>3. ASSUME NEW i \in pieces \cup done, Return(i) PROVE QInv'
  BY <1>3, ReturnInv
<1>4. ASSUME NEW i \in pieces \cup done, Complete(i) PROVE QInv'
  BY <1>4, CompleteInv
<1>5. ASSUME NEW bf \in Bitfields, AddPeerBitfield(bf) PROVE QInv'
  BY <1>5, RecountInv DEF AddPeerBitfield
<1>6. ASSUME NEW bf \in Bitfields, RemovePeerBitfield(bf) PROVE QInv'
  <2>1. waitCh' \in BOOLEAN
    BY <1>6 DEF RemovePeerBitfield, QInv, QTypeOK
  <2> QED BY <1>6, <2>1, RecountInv DEF RemovePeerBitfield
<1>7. ASSUME NEW i \in Piece, PeerHave(i) PROVE QInv'
  BY <1>7, PeerHaveInv
<1>8. ASSUME NEW mask \in SkipMasks, UpdateSkipMask(mask) PROVE QInv'
  BY <1>8, UpdateSkipMaskInv
<1>9. CASE TakeToken
  BY <1>9, TakeTokenInv
<1>10. CASE UNCHANGED qvars
  BY <1>10 DEF qvars, QInv, QTypeOK, BucketsExact, DoneIsGone
<1> QED BY <1>1, <1>2, <1>3, <1>4, <1>5, <1>6, <1>7, <1>8, <1>9, <1>10 DEF QNext

\* The inductive invariant holds in every state of the queue.
THEOREM QueueInvariant == QSpec => []QInv
BY QInitInv, QNextInv, PTL DEF QSpec

\* Every field of the queue keeps its type (piecequeue.go, all methods).
THEOREM QueueTypes == QSpec => []QTypeOK
<1>1. QInv => QTypeOK
  BY DEF QInv
<1> QED BY <1>1, QueueInvariant, PTL

\* The availability buckets always agree with the availability counts
\* (moveBucket and every method that calls it).
THEOREM QueueBuckets == QSpec => []BucketsExact
<1>1. QInv => BucketsExact
  BY DEF QInv
<1> QED BY <1>1, QueueInvariant, PTL

\* A completed piece is never pending, prioritised or queued again
\* (Complete, Return, Pick).
THEOREM QueueDoneIsGone == QSpec => []DoneIsGone
<1>1. QInv => DoneIsGone
  BY DEF QInv
<1> QED BY <1>1, QueueInvariant, PTL

\* Going through the buckets finds a piece of least availability.
LEMMA BucketChoicesRarest ==
  ASSUME QInv, NEW has, NEW i \in BucketChoices(has), NEW j \in Pickable(pieces, has)
  PROVE  availability[i] <= availability[j]
<1> DEFINE open == {b \in buckets : b[2] \in Pickable(Piece, has)}
<1>1. PICK b \in open : b[2] = i /\ \A c \in open : b[1] <= c[1]
  BY DEF BucketChoices
<1>2. b = <<availability[i], i>>
  BY <1>1 DEF QInv, BucketsExact
<1>3. <<availability[j], j>> \in open
  <2>1. j \in Pickable(Piece, has) /\ j \in pieces
    BY DEF Pickable, QInv, QTypeOK
  <2>2. <<availability[j], j>> \in buckets
    BY <2>1 DEF QInv, BucketsExact
  <2> QED BY <2>1, <2>2
<1> QED BY <1>1, <1>2, <1>3

\* Pick is rarest-first whatever happened to the queue before
\* (Pick through the buckets).
THEOREM QueueRarestFirst == QSpec => RarestFirst
<1> DEFINE Rare(has, i) == /\ i \in pieces
                           /\ \A j \in Pickable(pieces, has) : availability[i] <= availability[j]
<1>1. ASSUME QInv, NEW has \in Bitfields, NEW i \in Piece,
             Pick(has, i), ~sequential, Pickable(priority, has) = {}
      PROVE  Rare(has, i)
  <2>1. i \in BucketChoices(has)
    BY <1>1 DEF Pick, Candidates
  <2>2. i \in pieces
    BY <1>1, CandidatesRemain DEF Pick
  <2> QED BY <1>1, <2>1, <2>2, BucketChoicesRarest
<1>2. QInv /\ [QNext]_qvars =>
        [\A has \in Bitfields, i \in Piece :
           Pick(has, i) /\ ~sequential /\ Pickable(priority, has) = {}
             => Rare(has, i)]_qvars
  BY <1>1
<1> QED BY <1>2, QueueInvariant, PTL DEF QSpec, RarestFirst
=============================================================================

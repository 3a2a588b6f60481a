----------------------------- MODULE PieceQueue -----------------------------
(***************************************************************************)
(* The piece queue of one download: download/piecequeue.go.                *)
(*                                                                         *)
(* Every method takes the queue's mutex for its whole critical section, so *)
(* each method is one action.  signal() runs after the unlock but only     *)
(* puts a token into a channel of capacity one, so it is part of the same  *)
(* action.                                                                 *)
(***************************************************************************)
EXTENDS Integers, FiniteSets

CONSTANTS
  NumPieces,      \* pieces of the torrent (numPieces of the constructor)
  EndgameFloor,   \* the smallest endgame threshold; 5 in the code
  Levels,         \* availability counts the model may reach; Int is no bound
  CancelCap,      \* capacity of cancelCh; 64 in the code
  Bitfields,      \* the bitfields peers may announce
  SkipMasks       \* the skip masks a caller may install

Piece == 0 .. NumPieces - 1

ASSUME NumPiecesAssumption == NumPieces \in Nat \ {0}

ASSUME QueueConstants ==
  /\ EndgameFloor \in Nat
  /\ Levels \subseteq Int /\ 0 \in Levels
  /\ CancelCap \in Nat
  /\ Bitfields \subseteq SUBSET Piece
  /\ SkipMasks \subseteq SUBSET Piece

VARIABLES
  pieces,         \* pieces still to be completed
  availability,   \* availability[i]: the peers counted as holding piece i
  pending,        \* pieces handed out by Pick and not given back
  done,           \* completed pieces
  endgame,        \* duplicate picks are allowed
  totalPieces,    \* size of the queue at construction
  waitCh,         \* the wake-up token is in the channel
  cancelCh,       \* indices waiting in cancelCh (nothing receives from it)
  buckets,        \* pairs <<a, i>>: piece i is filed under availability a
  skipMask,       \* pieces Pick must not hand out for now
  priority,       \* pieces handed out before any bucket is looked at
  sequential      \* Pick walks the indices in ascending order

qvars == <<pieces, availability, pending, done, endgame, totalPieces, waitCh,
           cancelCh, buckets, skipMask, priority, sequential>>

-----------------------------------------------------------------------------
\* NewPieceQueueWithOptions: `queued` is what the constructor's filters left.
NewPieceQueue(queued, prioritizeFirstLast, seq) ==
  /\ pieces = queued
  /\ availability = [i \in Piece |-> 0]
  /\ pending = {}
  /\ done = {}
  /\ endgame = FALSE
  /\ totalPieces = Cardinality(queued)
  /\ waitCh = FALSE
  /\ cancelCh = 0
  /\ buckets = {<<0, i>> : i \in queued}
  /\ skipMask = {}
  /\ priority = IF prioritizeFirstLast THEN queued \cap {0, NumPieces - 1} ELSE {}
  /\ sequential = seq

\* Mutant: the old bucket keeps the piece.
moveBucketNoDelete(S, d) == buckets \cup {<<availability[i] + d, i>> : i \in S}

\* The pairs of `buckets` after every piece of S moves by d levels.
moveBucket(S, d) ==
  (buckets \ {<<availability[i], i>> : i \in S})
    \cup {<<availability[i] + d, i>> : i \in S}

Threshold ==
  IF totalPieces \div 100 < EndgameFloor THEN EndgameFloor ELSE totalPieces \div 100

\* Pick enters endgame when few pieces remain and never leaves it.
EndgameAtPick ==
  endgame \/ (pieces # {} /\ Cardinality(pieces) <= Threshold)

\* The pieces of S that the filters at the head of each of Pick's loops pass.
Pickable(S, has) ==
  {i \in S : /\ i \notin done
             /\ EndgameAtPick \/ i \notin pending
             /\ i \notin skipMask
             /\ i \in has}

Lowest(S) == {i \in S : \A j \in S : i <= j}

\* Mutant: the levels are walked in descending order.
BucketChoicesDescending(has) ==
  LET open == {b \in buckets : b[2] \in Pickable(Piece, has)}
  IN  {b[2] : b \in {b \in open : \A c \in open : b[1] >= c[1]}}

\* The eligible pieces of the lowest bucket level that has any.
BucketChoices(has) ==
  LET open == {b \in buckets : b[2] \in Pickable(Piece, has)}
  IN  {b[2] : b \in {b \in open : \A c \in open : b[1] <= c[1]}}

\* Every piece this call of Pick may hand out; the code draws one of them.
Candidates(has) ==
  IF sequential THEN Lowest(Pickable(pieces, has))
  ELSE IF Pickable(priority, has) # {} THEN Pickable(priority, has)
  ELSE BucketChoices(has)

Pick(has, i) ==
  /\ i \in Candidates(has)
  /\ endgame' = EndgameAtPick
  /\ pending' = pending \cup {i}
  /\ UNCHANGED <<pieces, availability, done, totalPieces, waitCh, cancelCh,
                 buckets, skipMask, priority, sequential>>

PickNothing(has) ==
  /\ Candidates(has) = {}
  /\ endgame' = EndgameAtPick
  /\ UNCHANGED <<pieces, availability, pending, done, totalPieces, waitCh,
                 cancelCh, buckets, skipMask, priority, sequential>>

Return(i) ==
  /\ pending' = pending \ {i}
  /\ waitCh' = TRUE
  /\ UNCHANGED <<pieces, availability, done, endgame, totalPieces, cancelCh,
                 buckets, skipMask, priority, sequential>>

\* Mutant: the piece stays in the pending set.
CompleteStillPending(i) ==
  /\ pieces' = pieces \ {i}
  /\ buckets' = buckets \ {<<availability[i], i>>}
  /\ priority' = priority \ {i}
  /\ done' = done \cup {i}
  /\ waitCh' = TRUE
  /\ UNCHANGED <<availability, pending, endgame, totalPieces, cancelCh,
                 skipMask, sequential>>

Complete(i) ==
  /\ pending' = pending \ {i}
  /\ buckets' = buckets \ {<<availability[i], i>>}
  /\ priority' = priority \ {i}
  /\ pieces' = pieces \ {i}
  /\ done' = done \cup {i}
  /\ cancelCh' = IF endgame /\ cancelCh < CancelCap THEN cancelCh + 1 ELSE cancelCh
  /\ waitCh' = TRUE
  /\ UNCHANGED <<availability, endgame, totalPieces, skipMask, sequential>>

\* The availability of the remaining pieces of bf changes by d.
Recount(bf, d) ==
  LET S == pieces \cap bf
  IN  /\ \A i \in S : availability[i] + d \in Levels
      /\ availability' = [i \in Piece |-> IF i \in S THEN availability[i] + d
                                          ELSE availability[i]]
      /\ buckets' = moveBucket(S, d)
      /\ UNCHANGED <<pieces, pending, done, endgame, totalPieces, cancelCh,
                     skipMask, priority, sequential>>

\* A nil bitfield counts as "have all", here the bitfield Piece.
AddPeerBitfield(bf) == Recount(bf, 1) /\ waitCh' = TRUE

RemovePeerBitfield(bf) == Recount(bf, -1) /\ UNCHANGED waitCh

PeerHave(i) ==
  /\ availability[i] + 1 \in Levels
  /\ availability' = [availability EXCEPT ![i] = @ + 1]
  /\ buckets' = moveBucket({i} \cap pieces, 1)
  /\ waitCh' = TRUE
  /\ UNCHANGED <<pieces, pending, done, endgame, totalPieces, cancelCh,
                 skipMask, priority, sequential>>

\* nil and the empty mask filter nothing and are not told apart.
UpdateSkipMask(mask) ==
  /\ skipMask' = mask
  /\ waitCh' = TRUE
  /\ UNCHANGED <<pieces, availability, pending, done, endgame, totalPieces,
                 cancelCh, buckets, priority, sequential>>

\* A receive from Wait(): enabled only while the token is there.
TakeToken ==
  /\ waitCh
  /\ waitCh' = FALSE
  /\ UNCHANGED <<pieces, availability, pending, done, endgame, totalPieces,
                 cancelCh, buckets, skipMask, priority, sequential>>

Remaining == Cardinality(pieces \ skipMask)

-----------------------------------------------------------------------------
\* The queue alone, its methods called in any order by any goroutine.  Return
\* and Complete are called with a piece that Pick returned, so with a piece
\* of the queue.
QInit ==
  \E queued \in SUBSET Piece, p, s \in BOOLEAN : NewPieceQueue(queued, p, s)

QNext ==
  \/ \E bf \in Bitfields : \E i \in Piece : Pick(bf, i)
  \/ \E bf \in Bitfields : PickNothing(bf)
  \/ \E i \in pieces \cup done : Return(i)
  \/ \E i \in pieces \cup done : Complete(i)
  \/ \E bf \in Bitfields : AddPeerBitfield(bf)
  \/ \E bf \in Bitfields : RemovePeerBitfield(bf)
  \/ \E i \in Piece : PeerHave(i)
  \/ \E mask \in SkipMasks : UpdateSkipMask(mask)
  \/ TakeToken

QSpec == QInit /\ [][QNext]_qvars

-----------------------------------------------------------------------------
\* Types of the queue's fields; availability stays within Levels.
QTypeOK ==
  /\ pieces \subseteq Piece
  /\ availability \in [Piece -> Levels]
  /\ pending \subseteq Piece
  /\ done \subseteq Piece
  /\ endgame \in BOOLEAN
  /\ totalPieces \in Nat
  /\ waitCh \in BOOLEAN
  /\ cancelCh \in 0 .. CancelCap
  /\ buckets \subseteq Levels \X Piece
  /\ skipMask \subseteq Piece
  /\ priority \subseteq Piece
  /\ sequential \in BOOLEAN

\* Each remaining piece is filed under exactly its own availability and no
\* finished piece is filed anywhere, whatever order bitfields, have messages
\* and completions arrive in (moveBucket, Complete, AddPeerBitfield,
\* RemovePeerBitfield, PeerHave).
BucketsExact == buckets = {<<availability[i], i>> : i \in pieces}

\* A completed piece has left the queue for good: it is in no other set, so no
\* late Return or second Complete brings it back to Pick (Complete, Return).
DoneIsGone ==
  /\ done \cap pieces = {}
  /\ pending \subseteq pieces
  /\ priority \subseteq pieces

\* Pick hands out a piece of the rarest kind the caller could have had: with no
\* prioritised piece to hand out and not in sequential mode, no eligible
\* remaining piece has a lower peer count (Pick through the buckets).
RarestFirst ==
  [][\A has \in Bitfields, i \in Piece :
       Pick(has, i) /\ ~sequential /\ Pickable(priority, has) = {}
         => /\ i \in pieces
            /\ \A j \in Pickable(pieces, has) : availability[i] <= availability[j]]_qvars

=============================================================================

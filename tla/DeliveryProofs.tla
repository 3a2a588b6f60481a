--------------------------- MODULE DeliveryProofs ---------------------------
(***************************************************************************)
(* The refinement of PieceDelivery by DownloadWorkers, for any number of   *)
(* peers, web seeds and pieces: until endgame every step of a download is  *)
(* one the contract allows.                                                *)
(***************************************************************************)
EXTENDS DownloadProofs, FiniteSetTheorems

Sending == {w \in Worker : pc[w] = "send"}

\* Only pieces of the queue are picked, so only they are delivered.
InQueue ==
  /\ pieces \cup priority \cup done \subseteq Queued
  /\ \A b \in buckets : b[2] \in Queued
  /\ \A w \in Holders \cup Sending : cur[w] \in Queued

\* Every finished piece is in one place: with the worker that sends it, once in the
\* channel, or written; what is written was counted once.
OneResult ==
  /\ \A v, w \in Sending : cur[v] = cur[w] => v = w
  /\ \A j, k \in DOMAIN resultCh : resultCh[j] = resultCh[k] => j = k
  /\ \A w \in Sending : cur[w] \in done \ written /\ \A k \in DOMAIN resultCh : resultCh[k] # cur[w]
  /\ \A k \in DOMAIN resultCh : resultCh[k] \in done \ written
  /\ written \subseteq done /\ IsFiniteSet(written) /\ completed = Cardinality(written)

JInv == InQueue /\ (~endgame => OneResult)

LEMMA QueuedFinite == IsFiniteSet(Queued)
  <1>1. IsFiniteSet(0 .. NumPieces - 1)
    BY FS_Interval, NumPiecesAssumption
  <1> QED  BY <1>1, FS_Subset, WorkerConstants DEF Piece

LEMMA DeliveryInit == Init => JInv
  <1> SUFFICES ASSUME Init PROVE JInv
    OBVIOUS
  <1>1. Holders = {} /\ Sending = {}
    BY DEF Init, Holders, Sending
  <1>2. pieces = Queued /\ priority \subseteq Queued /\ done = {} /\ \A b \in buckets : b[2] \in Queued
    BY DEF Init, NewPieceQueue
  <1>3. InQueue
    BY <1>1, <1>2 DEF InQueue
  <1>4. OneResult
    BY <1>1, FS_EmptySet DEF Init, OneResult
  <1> QED  BY <1>3, <1>4 DEF JInv

\* A step in which nobody gains a piece or a result.
LEMMA NothingGained ==
  ASSUME JInv, ~endgame' => ~endgame,
         pieces' \subseteq pieces, priority' \subseteq priority,
         \A b \in buckets' : b[2] \in Queued,
         \A w \in Holders' \cup Sending' : w \in Holders \cup Sending /\ cur'[w] = cur[w],
         Sending' \subseteq Sending,
         UNCHANGED <<done, resultCh, completed, written>>
  PROVE  JInv'
  <1>1. InQueue'
    BY DEF JInv, InQueue
  <1>2. ASSUME ~endgame' PROVE OneResult'
    BY <1>2 DEF JInv, OneResult
  <1> QED  BY <1>1, <1>2 DEF JInv

\* The queue's sets stay within the queue when a peer is counted or uncounted.
LEMMA RecountStays ==
  ASSUME InQueue, NEW bf, NEW d, Recount(bf, d)
  PROVE  /\ UNCHANGED <<pieces, priority, done, endgame>>
         /\ \A b \in buckets' : b[2] \in Queued
  BY DEF InQueue, Recount, moveBucket

LEMMA CandidatesQueued ==
  ASSUME InQueue, NEW has, NEW i \in Candidates(has) PROVE i \in Queued
  BY DEF InQueue, Candidates, Lowest, BucketChoices, Pickable

\* Steps of a worker that takes no piece and neither completes nor sends one.
LEMMA QuietWorker ==
  ASSUME JInv, IInv, NEW w \in Worker, NEW s \in Stages \ {"send"},
         s \in Holding => pc[w] \in Holding,
         GoTo(w, s), ~endgame' => ~endgame,
         UNCHANGED <<pieces, priority, done, collectorVars>>,
         \A b \in buckets' : b[2] \in Queued
  PROVE  JInv'
  <1>1. /\ pc'[w] = s /\ \A v \in Worker : v # w => pc'[v] = pc[v] /\ cur'[v] = cur[v]
        /\ s \in Holding => cur'[w] = cur[w]
    BY DEF GoTo, IInv, Types, Holding
  <1>2. Sending' \subseteq Sending
    BY <1>1 DEF Sending
  <1>3. \A v \in Holders' \cup Sending' : v \in Holders \cup Sending /\ cur'[v] = cur[v]
    BY <1>1 DEF Holders, Sending, Holding
  <1> QED  BY <1>2, <1>3, NothingGained DEF collectorVars

LEMMA PickStays ==
  ASSUME JInv, IInv, NEW w \in Worker, WorkerPicks(w) PROVE JInv'
  <1>0. PICK i \in Piece : Pick(Has(w), i) /\ cur' = [cur EXCEPT ![w] = i]
    BY DEF WorkerPicks
  <1>1. /\ UNCHANGED <<pieces, priority, done, buckets>> /\ UNCHANGED collectorVars
        /\ (~endgame' => ~endgame) /\ i \in Queued
    BY <1>0, CandidatesQueued DEF Pick, EndgameAtPick, JInv, WorkerPicks
  <1>2. /\ pc[w] = "pick" /\ pc'[w] = "check1" /\ cur'[w] = i
        /\ \A v \in Worker : v # w => pc'[v] = pc[v] /\ cur'[v] = cur[v]
    BY <1>0 DEF WorkerPicks, IInv, Types
  <1>3. Sending' = Sending /\ Holders' = Holders \cup {w} /\ \A v \in Sending \cup Holders : v # w /\ cur'[v] = cur[v]
    BY <1>2 DEF Sending, Holders
  <1>4. InQueue'
    BY <1>1, <1>2, <1>3 DEF JInv, InQueue
  <1>5. ASSUME ~endgame' PROVE OneResult'
    BY <1>1, <1>3, <1>5 DEF JInv, OneResult, collectorVars
  <1> QED  BY <1>4, <1>5 DEF JInv

\* A piece that is completed before endgame was not done: it is nowhere yet.
LEMMA CompleteStays ==
  ASSUME JInv, IInv, NEW w \in Worker, WorkerCompletes(w) PROVE JInv'
  <1>1. /\ pc[w] = "complete" /\ pc'[w] = "send" /\ cur' = cur
        /\ \A v \in Worker : v # w => pc'[v] = pc[v]
    BY DEF WorkerCompletes, GoTo, IInv, Types
  <1>2. /\ Sending' = Sending \cup {w} /\ Holders' = Holders \ {w} /\ w \in Holders /\ w \notin Sending
    BY <1>1 DEF Sending, Holders
  <1>3. /\ done' = done \cup {cur[w]} /\ pieces' \subseteq pieces /\ priority' \subseteq priority
        /\ buckets' \subseteq buckets /\ endgame' = endgame
    BY DEF WorkerCompletes, Complete
  <1>4. InQueue'
    BY <1>1, <1>2, <1>3 DEF JInv, InQueue
  <1>5. ASSUME ~endgame' PROVE OneResult'
    <2>1. cur[w] \notin done /\ OneResult
      BY <1>2, <1>3, <1>5 DEF IInv, HeldUndone, JInv
    <2>2. UNCHANGED <<resultCh, completed, written>>
      BY DEF WorkerCompletes, collectorVars
    <2> QED  BY <1>1, <1>2, <1>3, <2>1, <2>2 DEF OneResult
  <1> QED  BY <1>4, <1>5 DEF JInv

LEMMA SendStays ==
  ASSUME JInv, IInv, NEW w \in Worker, WorkerSends(w) PROVE JInv'
  <1>1. /\ pc[w] = "send" /\ pc'[w] = "loop"
        /\ \A v \in Worker : v # w => pc'[v] = pc[v] /\ cur'[v] = cur[v]
    BY DEF WorkerSends, GoTo, IInv, Types
  <1>2. /\ Sending' = Sending \ {w} /\ Holders' = Holders /\ w \in Sending /\ w \notin Holders
        /\ \A v \in Sending' \cup Holders : cur'[v] = cur[v]
    BY <1>1 DEF Sending, Holders
  <1>3. UNCHANGED <<pieces, priority, done, buckets, endgame, completed, written>>
    BY DEF WorkerSends, qvars
  <1>4. InQueue'
    BY <1>2, <1>3 DEF JInv, InQueue
  <1>5. ASSUME ~endgame' PROVE OneResult'
    <2>1. OneResult
      BY <1>3, <1>5 DEF JInv
    <2>2. resultCh \in Seq(Piece \cup {-1}) /\ resultCh' = Append(resultCh, cur[w]) /\ cur[w] \in Piece \cup {-1}
      BY DEF WorkerSends, IInv, Types
    <2>3. /\ DOMAIN resultCh = 1 .. Len(resultCh) /\ DOMAIN resultCh' = 1 .. Len(resultCh) + 1 /\ Len(resultCh) \in Nat
          /\ resultCh'[Len(resultCh) + 1] = cur[w]
          /\ \A k \in 1 .. Len(resultCh) : resultCh'[k] = resultCh[k]
      BY <2>2
    <2>4. \A k \in DOMAIN resultCh' : \/ k \in DOMAIN resultCh /\ resultCh'[k] = resultCh[k] /\ resultCh'[k] # cur[w]
                                      \/ k = Len(resultCh) + 1 /\ resultCh'[k] = cur[w]
      BY <1>2, <2>1, <2>3 DEF OneResult
    <2>5. \A j, k \in DOMAIN resultCh' : resultCh'[j] = resultCh'[k] => j = k
      BY <2>1, <2>4 DEF OneResult
    <2>6. \A k \in DOMAIN resultCh' : resultCh'[k] \in done \ written
      BY <1>2, <2>1, <2>4 DEF OneResult
    <2>7. \A v \in Sending' : \A k \in DOMAIN resultCh' : resultCh'[k] # cur'[v]
      BY <1>2, <2>1, <2>4 DEF OneResult
    <2> QED  BY <1>2, <1>3, <2>1, <2>5, <2>6, <2>7 DEF OneResult
  <1> QED  BY <1>4, <1>5 DEF JInv

LEMMA WorkerStays ==
  ASSUME JInv, IInv, NEW w \in Worker, WorkerStep(w) PROVE JInv'
  <1>0. pc \in [Worker -> Stages] /\ cur \in [Worker -> Piece \cup {-1}] /\ \A b \in buckets : b[2] \in Queued
    BY DEF IInv, Types, JInv, InQueue
  <1>1. CASE StartDial(w) \/ DialFails(w) \/ RejectBitfield(w) \/ GiveUp(w) \/ WorkerLoops(w)
    BY <1>0, <1>1, QuietWorker
       DEF StartDial, DialFails, RejectBitfield, GiveUp, WorkerLoops, Stages, Holding, qvars, collectorVars
  <1>2. CASE DialSucceeds(w)
    <2>1. pc[w] = "dialing" /\ pc' = [pc EXCEPT ![w] = "slot"] /\ cur' = cur
      BY <1>2 DEF DialSucceeds
    <2>2. Holders' = Holders /\ Sending' = Sending
      BY <1>0, <2>1 DEF Holders, Sending
    <2> QED  BY <1>0, <1>2, <2>1, <2>2, NothingGained DEF DialSucceeds, qvars, collectorVars
  <1>3. CASE Join(w)
    BY <1>3, QuietWorker, RecountStays DEF Join, AddPeerBitfield, Stages, Holding, JInv
  <1>4. CASE WorkerFindsNothing(w)
    BY <1>0, <1>4, QuietWorker DEF WorkerFindsNothing, PickNothing, EndgameAtPick, Stages, Holding
  <1>5. CASE WorkerWakes(w)
    BY <1>0, <1>5, QuietWorker DEF WorkerWakes, TakeToken, Stages, Holding
  <1>6. CASE WorkerStops(w) \/ WorkerLeaves(w)
    <2>1. Leave(w) /\ UNCHANGED collectorVars
      BY <1>6 DEF WorkerStops, WorkerLeaves
    <2>2. UNCHANGED <<pieces, priority, done, endgame>> /\ \A b \in buckets' : b[2] \in Queued
      BY <1>0, <2>1, RecountStays DEF Leave, RemovePeerBitfield, qvars, JInv
    <2> QED  BY <2>1, <2>2, QuietWorker DEF Leave, Stages, Holding
  <1>7. CASE WorkerChecks(w) \/ PieceArrives(w) \/ WorkerRechecks(w)
    <2>1. PICK s \in Holding \cup {"loop"} : GoTo(w, s)
      BY <1>7 DEF WorkerChecks, PieceArrives, WorkerRechecks, Holding
    <2> QED  BY <1>0, <1>7, <2>1, QuietWorker
             DEF WorkerChecks, PieceArrives, WorkerRechecks, Stages, Holding, qvars
  <1>8. CASE PieceFails(w)
    BY <1>0, <1>8, QuietWorker DEF PieceFails, Return, Stages, Holding
  <1> QED  BY <1>1, <1>2, <1>3, <1>4, <1>5, <1>6, <1>7, <1>8, PickStays, CompleteStays, SendStays DEF WorkerStep

\* The collector writes a piece that was not written.
LEMMA CollectStays ==
  ASSUME JInv, IInv, Collect PROVE JInv' /\ (~endgame => Head(resultCh) \in Queued \ written)
  <1>1. UNCHANGED <<pieces, priority, done, buckets, endgame, pc, cur>> /\ Holders' = Holders /\ Sending' = Sending
    BY DEF Collect, CollectorOnly, qvars, workerVars, Holders, Sending
  <1>2. InQueue'
    BY <1>1 DEF JInv, InQueue
  <1>3. ASSUME ~endgame PROVE OneResult' /\ Head(resultCh) \in Queued \ written
    <2>1. OneResult
      BY <1>3 DEF JInv
    <2>2. resultCh # <<>> /\ resultCh' = Tail(resultCh) /\ resultCh \in Seq(Piece \cup {-1})
      BY DEF Collect, IInv, Types
    <2>3. /\ 1 \in DOMAIN resultCh /\ Head(resultCh) = resultCh[1]
          /\ \A k \in DOMAIN resultCh' : k + 1 \in DOMAIN resultCh /\ k + 1 # 1 /\ resultCh'[k] = resultCh[k + 1] /\ k \in Int
      BY <2>2
    <2>4. \A j, k \in DOMAIN resultCh' : resultCh'[j] = resultCh'[k] => j = k
      BY <2>1, <2>3 DEF OneResult
    <2>5. Head(resultCh) \in done \ written /\ \A k \in DOMAIN resultCh' : resultCh'[k] \in done \ written /\ resultCh'[k] # Head(resultCh)
      BY <2>1, <2>3 DEF OneResult
    <2>6. written' = written \cup {Head(resultCh)} /\ completed' = completed + 1
      BY DEF Collect
    <2>7. IsFiniteSet(written') /\ Cardinality(written') = Cardinality(written) + 1
      BY <2>1, <2>5, <2>6, FS_AddElement DEF OneResult
    <2>8. \A w \in Sending : cur[w] # Head(resultCh) /\ \A k \in DOMAIN resultCh' : resultCh'[k] # cur[w]
      BY <2>1, <2>3 DEF OneResult
    <2>9. OneResult'
      BY <1>1, <2>1, <2>4, <2>5, <2>6, <2>7, <2>8 DEF OneResult
    <2> QED  BY <2>5, <2>9 DEF JInv, InQueue
  <1> QED  BY <1>1, <1>2, <1>3 DEF JInv

\* Steps that change neither a worker's piece nor the queue's pieces.
LEMMA OthersStay ==
  ASSUME JInv, IInv,
         \/ (\E w \in Peer : Feed(w)) \/ RetrySweep
         \/ \E w \in Peer, i \in Piece : PeerSaysHave(w, i)
         \/ FeederExits \/ RetryExits \/ CollectorReturns \/ CollectorAborts
         \/ CloseResults \/ Cancel \/ (\E mask \in SkipMasks : SetSkipMask(mask))
         \/ UNCHANGED vars
  PROVE  JInv'
  <1>1. UNCHANGED <<pieces, priority, done, buckets, endgame, cur, written, completed, resultCh>>
    BY DEF Feed, RetrySweep, SpawnWorkers, PeerSaysHave, FeederExits, RetryExits, CollectorReturns, CollectorAborts,
           CollectorOnly, CloseResults, Cancel, SetSkipMask, UpdateSkipMask, qvars, workerVars, collectorVars, vars
  <1>2. pc' = pc \/ ((\E w \in Peer : Feed(w)) \/ RetrySweep)
    BY DEF PeerSaysHave, FeederExits, RetryExits, CollectorReturns, CollectorAborts, CollectorOnly, CloseResults,
           Cancel, SetSkipMask, workerVars, collectorVars, vars
  <1>3. \A v \in Worker : pc'[v] = pc[v] \/ pc'[v] = "spawned"
    BY <1>2 DEF Feed, RetrySweep, SpawnWorkers
  <1>4. Sending' \subseteq Sending /\ Holders' \subseteq Holders
    BY <1>3 DEF Sending, Holders
  <1>5. \A b \in buckets' : b[2] \in Queued
    BY <1>1 DEF JInv, InQueue
  <1> QED  BY <1>1, <1>4, <1>5, NothingGained

LEMMA WriteFailureStays ==
  ASSUME JInv, IInv, WriteFails PROVE JInv'
  <1>1. UNCHANGED <<pieces, priority, done, buckets, endgame, pc, cur, written, completed>> /\ Holders' = Holders /\ Sending' = Sending
    BY DEF WriteFails, CollectorOnly, qvars, workerVars, Holders, Sending
  <1>2. resultCh # <<>> /\ resultCh' = Tail(resultCh) /\ resultCh \in Seq(Piece \cup {-1})
    BY DEF WriteFails, IInv, Types
  <1>3. \A k \in DOMAIN resultCh' : k + 1 \in DOMAIN resultCh /\ resultCh'[k] = resultCh[k + 1] /\ k \in Int
    BY <1>2
  <1>4. InQueue'
    BY <1>1 DEF JInv, InQueue
  <1>5. ASSUME ~endgame PROVE OneResult'
    <2>1. OneResult
      BY <1>5 DEF JInv
    <2>2. \A j, k \in DOMAIN resultCh' : resultCh'[j] = resultCh'[k] => j = k
      BY <1>3, <2>1 DEF OneResult
    <2> QED  BY <1>1, <1>3, <2>1, <2>2 DEF OneResult
  <1> QED  BY <1>1, <1>4, <1>5 DEF JInv

LEMMA DeliveryInvariant == Spec => []JInv
  <1>1. JInv /\ IInv /\ [Next]_vars => JInv'
    BY WorkerStays, CollectStays, OthersStay, WriteFailureStays DEF Next, CollectorStep
  <1> QED  BY <1>1, DeliveryInit, DownloadInvariant, PTL DEF Spec

\* A step before endgame is a step of the contract, or none.
LEMMA StepDelivers ==
  ASSUME JInv, IInv, [Next]_vars, ~endgame
  PROVE  [Delivery!Next]_<<written, collector>>
  <1>1. CASE Collect
    <2>1. Head(resultCh) \in Queued \ written
      BY <1>1, CollectStays
    <2>2. Delivery!Deliver(Head(resultCh))
      BY <1>1, <2>1 DEF Collect, CollectorOnly, Delivery!Deliver
    <2> QED  BY <2>1, <2>2 DEF Delivery!Next
  <1>2. CASE CollectorReturns
    <2>1. written \subseteq Queued /\ Cardinality(written) = Cardinality(Queued)
      BY <1>2 DEF CollectorReturns, JInv, OneResult, InQueue
    <2>2. written = Queued
      BY <2>1, QueuedFinite, FS_Subset
    <2> QED  BY <1>2, <2>2 DEF CollectorReturns, CollectorOnly, Delivery!Finish, Delivery!Next
  <1>3. CASE CollectorAborts \/ WriteFails
    BY <1>3 DEF CollectorAborts, WriteFails, CollectorOnly, Delivery!Abort, Delivery!Next
  <1>4. CASE \E w \in Worker : WorkerStep(w)
    BY <1>4 DEF WorkerStep, StartDial, DialSucceeds, DialFails, Join, RejectBitfield, GiveUp, WorkerLoops, WorkerPicks,
           WorkerFindsNothing, WorkerWakes, WorkerStops, WorkerChecks, PieceArrives, PieceFails, WorkerLeaves,
           WorkerRechecks, WorkerCompletes, WorkerSends, collectorVars
  <1>5. CASE \/ (\E w \in Peer : Feed(w)) \/ RetrySweep
             \/ \E w \in Peer, i \in Piece : PeerSaysHave(w, i)
             \/ FeederExits \/ RetryExits \/ CloseResults \/ Cancel
             \/ (\E mask \in SkipMasks : SetSkipMask(mask)) \/ UNCHANGED vars
    BY <1>5 DEF Feed, RetrySweep, PeerSaysHave, FeederExits, RetryExits, CloseResults, Cancel, SetSkipMask,
           collectorVars, vars
  <1> QED  BY <1>1, <1>2, <1>3, <1>4, <1>5 DEF Next, CollectorStep

\* A download is as good as its contract until the queue enters endgame: each step writes
\* a queued piece that was not written, returns nil with every queued piece on disk, gives
\* up, or is none of the caller's business (DownloadWithParams, runWorkers).
THEOREM DeliversUntilEndgame ==
  Spec => Delivery!Init /\ [][endgame \/ Delivery!Next]_<<written, collector>>
  <1>1. Init => Delivery!Init
    BY DEF Init, Delivery!Init
  <1>2. JInv /\ IInv /\ [Next]_vars => [endgame \/ Delivery!Next]_<<written, collector>>
    BY StepDelivers
  <1> QED  BY <1>1, <1>2, DeliveryInvariant, DownloadInvariant, PTL DEF Spec

\* A download that never enters endgame implements the delivery contract: the second
\* worker that endgame allows on a piece is the only way the collector's count can run
\* ahead of what is on disk (Pick, the IsDone checks, Complete and the collector).
THEOREM DownloadImplementsDelivery == Spec /\ []~endgame => ImplementsDelivery
  <1>1. ~endgame /\ [endgame \/ Delivery!Next]_<<written, collector>> => [Delivery!Next]_<<written, collector>>
    OBVIOUS
  <1> QED  BY <1>1, DeliversUntilEndgame, PTL DEF ImplementsDelivery, Delivery!Spec
=============================================================================

--------------------------- MODULE DownloadProofs ---------------------------
(***************************************************************************)
(* Proofs about DownloadWorkers, for any number of peers, web seeds and    *)
(* pieces: before endgame every piece is in one pair of hands, no result   *)
(* is lost on its way to the collector, and nobody sends on resultCh once  *)
(* it is closed.                                                           *)
(***************************************************************************)
EXTENDS DownloadWorkers, TLAPS

Holding == {"check1", "download", "check2", "complete"}

Stages == Holding \cup {"off", "spawned", "dialing", "slot", "loop", "pick", "wait", "send", "leave"}

Types ==
  /\ pc \in [Worker -> Stages] /\ cur \in [Worker -> Piece \cup {-1}]
  /\ resultCh \in Seq(Piece \cup {-1}) /\ endgame \in BOOLEAN

\* The piece a worker holds is not done before endgame, so that neither IsDone check
\* lets a worker drop a piece that is still pending.
HeldUndone == ~endgame => \A w \in Holders : cur[w] \notin done

IInv == Types /\ HeldUndone /\ ExclusiveBeforeEndgame /\ NoResultLost /\ NoSendAfterClose

LEMMA DownloadInit == Init => IInv
  <1> SUFFICES ASSUME Init PROVE IInv
    OBVIOUS
  <1>1. pc \in [Worker -> {"loop", "spawned", "off"}]
    BY DEF Init
  <1>2. Holders = {}
    BY <1>1 DEF Holders
  <1>3. Types
    <2>1. cur \in [Worker -> Piece \cup {-1}] /\ resultCh \in Seq(Piece \cup {-1})
      BY DEF Init
    <2>2. endgame \in BOOLEAN
      BY DEF Init, NewPieceQueue
    <2> QED  BY <1>1, <2>1, <2>2 DEF Types, Stages
  <1>4. HeldUndone /\ ExclusiveBeforeEndgame
    BY <1>2 DEF Init, NewPieceQueue, HeldUndone, ExclusiveBeforeEndgame
  <1>5. NoResultLost /\ NoSendAfterClose
    BY DEF Init, NewPieceQueue, NoResultLost, NoSendAfterClose
  <1> QED  BY <1>3, <1>4, <1>5 DEF IInv

\* A step of a worker that neither takes nor gives back a piece, nor sends one; Pick may
\* enter endgame in it.
LEMMA QuietMove ==
  ASSUME IInv, NEW w \in Worker, NEW s \in Stages \ (Holding \cup {"send"}),
         pc[w] \notin Holding \cup {"off"}, pc[w] = "send" => ctxDone,
         pc' = [pc EXCEPT ![w] = s],
         cur' = cur \/ cur' = [cur EXCEPT ![w] = -1],
         endgame' \in BOOLEAN, ~endgame' => ~endgame,
         UNCHANGED <<pending, done, retry, feeder, resultCh, closed, collector, written, ctxDone>>
  PROVE  IInv'
  <1> USE DEF IInv
  <1>1. /\ pc'[w] = s /\ \A v \in Worker : v # w => pc'[v] = pc[v] /\ cur'[v] = cur[v]
        /\ cur' \in [Worker -> Piece \cup {-1}]
    BY DEF Types
  <1>2. Types'
    BY <1>1 DEF Types
  <1>3. Holders' = Holders /\ \A v \in Holders : v # w /\ cur'[v] = cur[v]
    BY <1>1 DEF Holders, Holding
  <1>4. HeldUndone' /\ ExclusiveBeforeEndgame'
    BY <1>3 DEF HeldUndone, ExclusiveBeforeEndgame
  <1>5. NoResultLost'
    BY <1>1 DEF NoResultLost
  <1>6. NoSendAfterClose'
    BY <1>1 DEF NoSendAfterClose
  <1> QED  BY <1>2, <1>4, <1>5, <1>6

LEMMA CandidatesPickable ==
  ASSUME NEW has, NEW i \in Candidates(has)
  PROVE  i \notin done /\ (EndgameAtPick \/ i \notin pending)
  BY DEF Candidates, Lowest, BucketChoices, Pickable

\* A worker takes a piece.
LEMMA PicksKeep ==
  ASSUME IInv, NEW w \in Worker, WorkerPicks(w) PROVE IInv'
  <1> USE DEF IInv
  <1>0. PICK i \in Piece : Pick(Has(w), i) /\ cur' = [cur EXCEPT ![w] = i]
    BY DEF WorkerPicks
  <1>1. /\ pc[w] = "pick" /\ pc'[w] = "check1" /\ pc' \in [Worker -> Stages]
        /\ \A v \in Worker : v # w => pc'[v] = pc[v]
    BY DEF WorkerPicks, Types, Stages, Holding
  <1>2. /\ cur'[w] = i /\ cur' \in [Worker -> Piece \cup {-1}]
        /\ \A v \in Worker : v # w => cur'[v] = cur[v]
    BY <1>0 DEF Types
  <1>3. /\ i \notin done /\ (EndgameAtPick \/ i \notin pending)
        /\ pending' = pending \cup {i} /\ endgame' = EndgameAtPick /\ done' = done
    BY <1>0, CandidatesPickable DEF Pick
  <1>4. (~endgame' => ~endgame) /\ endgame' \in BOOLEAN
    BY <1>3 DEF EndgameAtPick, Types
  <1>5. Holders' = Holders \cup {w} /\ w \notin Holders
    BY <1>1 DEF Holders
  <1>6. Types'
    BY <1>1, <1>2, <1>4 DEF Types, WorkerPicks, collectorVars
  <1>7. HeldUndone'
    BY <1>2, <1>3, <1>4, <1>5 DEF HeldUndone, Holders
  <1>8. ExclusiveBeforeEndgame'
    <2> SUFFICES ASSUME ~endgame'
                 PROVE  /\ \A u, v \in Holders' : cur'[u] = cur'[v] => u = v
                        /\ pending' = {cur'[v] : v \in Holders'}
      BY DEF ExclusiveBeforeEndgame
    <2>1. i \notin pending /\ pending = {cur[v] : v \in Holders}
      BY <1>3, <1>4 DEF ExclusiveBeforeEndgame
    <2>2. \A v \in Holders : v \in Worker /\ v # w /\ cur'[v] = cur[v] /\ cur[v] # i
      BY <1>2, <1>5, <2>1 DEF Holders
    <2>3. \A u, v \in Holders' : cur'[u] = cur'[v] => u = v
      BY <1>2, <1>4, <1>5, <2>2 DEF ExclusiveBeforeEndgame
    <2>4. {cur'[v] : v \in Holders'} = {cur[v] : v \in Holders} \cup {i}
      BY <1>2, <1>5, <2>2
    <2> QED  BY <1>3, <2>1, <2>3, <2>4
  <1>9. NoResultLost' /\ NoSendAfterClose'
    BY <1>1, <1>2, <1>3 DEF NoResultLost, NoSendAfterClose, WorkerPicks, collectorVars
  <1> QED  BY <1>6, <1>7, <1>8, <1>9

\* A worker goes on with its piece, or drops it because it is done.
LEMMA HoldingMove ==
  ASSUME IInv, NEW w \in Worker, pc[w] \in Holding,
         NEW s \in Holding \cup {"loop"}, s = "loop" => cur[w] \in done,
         GoTo(w, s), UNCHANGED <<qvars, collectorVars, ctxDone>>
  PROVE  IInv'
  <1> USE DEF IInv, qvars, collectorVars
  <1>1. /\ pc'[w] = s /\ pc' \in [Worker -> Stages]
        /\ \A v \in Worker : v # w => pc'[v] = pc[v] /\ cur'[v] = cur[v]
        /\ cur' \in [Worker -> Piece \cup {-1}] /\ (s # "loop" => cur' = cur)
    BY DEF GoTo, Types, Stages, Holding
  <1>2. Types'
    BY <1>1 DEF Types
  <1>3. ~endgame => Holders' = Holders /\ cur' = cur
    BY <1>1 DEF Holders, Holding, HeldUndone
  <1>4. HeldUndone' /\ ExclusiveBeforeEndgame'
    BY <1>3 DEF HeldUndone, ExclusiveBeforeEndgame
  <1>5. NoResultLost'
    BY <1>1 DEF NoResultLost, Holding
  <1>6. NoSendAfterClose'
    BY <1>1 DEF NoSendAfterClose, GoTo, Holding
  <1> QED  BY <1>2, <1>4, <1>5, <1>6

\* A worker that holds a piece gives it up, as returned or as done, and the queue forgets
\* that it was pending.
LEMMA PieceLeaves ==
  ASSUME IInv, NEW w \in Worker, pc[w] \in Holding, NEW s \in {"leave", "send"}, GoTo(w, s),
         pending' = pending \ {cur[w]},
         done' = IF s = "send" THEN done \cup {cur[w]} ELSE done,
         UNCHANGED <<endgame, collectorVars, ctxDone>>
  PROVE  IInv'
  <1> USE DEF IInv, collectorVars
  <1>1. /\ pc'[w] = s /\ pc' \in [Worker -> Stages]
        /\ \A v \in Worker : v # w => pc'[v] = pc[v] /\ cur'[v] = cur[v]
        /\ cur' \in [Worker -> Piece \cup {-1}] /\ (s = "send" => cur'[w] = cur[w])
    BY DEF GoTo, Types, Stages, Holding
  <1>2. Types'
    BY <1>1 DEF Types
  <1>3. w \in Holders /\ Holders' = Holders \ {w} /\ \A v \in Holders' : cur'[v] = cur[v]
    BY <1>1 DEF Holders, Holding
  <1>4. HeldUndone' /\ ExclusiveBeforeEndgame'
    <2> SUFFICES ASSUME ~endgame
                 PROVE  /\ \A v \in Holders' : cur'[v] \notin done'
                        /\ \A u, v \in Holders' : cur'[u] = cur'[v] => u = v
                        /\ pending' = {cur'[v] : v \in Holders'}
      BY DEF HeldUndone, ExclusiveBeforeEndgame
    <2>1. \A v \in Holders' : cur[v] # cur[w] /\ cur[v] \notin done
      BY <1>3 DEF HeldUndone, ExclusiveBeforeEndgame
    <2>2. \A u, v \in Holders' : cur'[u] = cur'[v] => u = v
      BY <1>3 DEF ExclusiveBeforeEndgame
    <2>3. pending = {cur[v] : v \in Holders}
      BY DEF ExclusiveBeforeEndgame
    <2>4. {cur'[v] : v \in Holders'} = {cur[v] : v \in Holders} \ {cur[w]}
      BY <1>3, <2>1
    <2> QED  BY <1>3, <2>1, <2>2, <2>3, <2>4
  <1>5. NoResultLost'
    BY <1>1 DEF NoResultLost, Holding
  <1>6. NoSendAfterClose'
    BY <1>1 DEF NoSendAfterClose, GoTo, Holding
  <1> QED  BY <1>2, <1>4, <1>5, <1>6

LEMMA SendsKeep ==
  ASSUME IInv, NEW w \in Worker, WorkerSends(w) PROVE IInv'
  <1> USE DEF IInv
  <1>1. /\ pc[w] = "send" /\ pc'[w] = "loop" /\ pc' \in [Worker -> Stages]
        /\ \A v \in Worker : v # w => pc'[v] = pc[v] /\ cur'[v] = cur[v]
        /\ cur' \in [Worker -> Piece \cup {-1}]
        /\ UNCHANGED <<pending, done, endgame, retry, feeder, closed, collector, written, ctxDone>>
    BY DEF WorkerSends, GoTo, Types, Stages, Holding, qvars
  <1>2. resultCh' \in Seq(Piece \cup {-1}) /\ ToSet(resultCh') = ToSet(resultCh) \cup {cur[w]}
    <2>1. resultCh' = Append(resultCh, cur[w]) /\ cur[w] \in Piece \cup {-1}
      BY DEF WorkerSends, Types
    <2>2. /\ resultCh' \in Seq(Piece \cup {-1}) /\ Len(resultCh') = Len(resultCh) + 1
          /\ resultCh'[Len(resultCh) + 1] = cur[w]
          /\ \A k \in 1 .. Len(resultCh) : resultCh'[k] = resultCh[k]
      BY <2>1 DEF Types
    <2>3. DOMAIN resultCh = 1 .. Len(resultCh) /\ DOMAIN resultCh' = 1 .. Len(resultCh) + 1 /\ Len(resultCh) \in Nat
      BY <2>2 DEF Types
    <2>4. ToSet(resultCh') \subseteq ToSet(resultCh) \cup {cur[w]}
      BY <2>2, <2>3 DEF ToSet
    <2>5. ToSet(resultCh) \cup {cur[w]} \subseteq ToSet(resultCh')
      BY <2>2, <2>3 DEF ToSet
    <2> QED  BY <2>2, <2>4, <2>5
  <1>3. Types'
    BY <1>1, <1>2 DEF Types
  <1>4. Holders' = Holders /\ \A v \in Holders : v # w /\ cur'[v] = cur[v]
    BY <1>1 DEF Holders
  <1>5. HeldUndone' /\ ExclusiveBeforeEndgame'
    BY <1>1, <1>4 DEF HeldUndone, ExclusiveBeforeEndgame
  <1>6. NoResultLost'
    BY <1>1, <1>2 DEF NoResultLost
  <1>7. NoSendAfterClose'
    BY <1>1 DEF NoSendAfterClose
  <1> QED  BY <1>3, <1>5, <1>6, <1>7

\* One step of the worker w.
LEMMA WorkerKeeps ==
  ASSUME IInv, NEW w \in Worker, WorkerStep(w) PROVE IInv'
  <1>0. endgame \in BOOLEAN /\ pc \in [Worker -> Stages]
    BY DEF IInv, Types
  <1>1. CASE StartDial(w)
    BY <1>0, <1>1, QuietMove DEF StartDial, GoTo, Stages, Holding, qvars, collectorVars
  <1>2. CASE DialSucceeds(w)
    BY <1>0, <1>2, QuietMove DEF DialSucceeds, Stages, Holding, qvars, collectorVars
  <1>3. CASE DialFails(w) \/ RejectBitfield(w) \/ GiveUp(w)
    BY <1>0, <1>3, QuietMove DEF DialFails, RejectBitfield, GiveUp, GoTo, Stages, Holding, qvars, collectorVars
  <1>4. CASE Join(w)
    BY <1>0, <1>4, QuietMove DEF Join, AddPeerBitfield, Recount, GoTo, Stages, Holding, collectorVars
  <1>5. CASE WorkerLoops(w)
    BY <1>0, <1>5, QuietMove DEF WorkerLoops, GoTo, Stages, Holding, qvars, collectorVars
  <1>6. CASE WorkerFindsNothing(w)
    <2>1. endgame' \in BOOLEAN /\ (~endgame' => ~endgame)
      BY <1>0, <1>6 DEF WorkerFindsNothing, PickNothing, EndgameAtPick
    <2> QED  BY <1>0, <1>6, <2>1, QuietMove
             DEF WorkerFindsNothing, PickNothing, GoTo, Stages, Holding, collectorVars
  <1>7. CASE WorkerWakes(w)
    BY <1>0, <1>7, QuietMove DEF WorkerWakes, TakeToken, GoTo, Stages, Holding, collectorVars
  <1>8. CASE WorkerStops(w) \/ WorkerLeaves(w)
    <2>1. Leave(w) /\ pc[w] \in {"loop", "wait", "send", "leave"} /\ (pc[w] = "send" => ctxDone)
          /\ UNCHANGED <<collectorVars, ctxDone>>
      BY <1>8 DEF WorkerStops, WorkerLeaves
    <2>2. UNCHANGED <<pending, done, endgame>>
      BY <2>1 DEF Leave, RemovePeerBitfield, Recount, qvars
    <2> QED  BY <1>0, <2>1, <2>2, QuietMove DEF Leave, GoTo, Stages, Holding, collectorVars
  <1>9. CASE WorkerPicks(w)
    BY <1>9, PicksKeep
  <1>10. CASE WorkerChecks(w)
    <2> DEFINE s == IF cur[w] \in done THEN "loop" ELSE "download"
    <2>1. s \in Holding \cup {"loop"} /\ (s = "loop" => cur[w] \in done) /\ GoTo(w, s)
      BY <1>10 DEF WorkerChecks, Holding
    <2> HIDE DEF s
    <2> QED  BY <1>10, <2>1, HoldingMove DEF WorkerChecks, Holding
  <1>11. CASE PieceArrives(w)
    BY <1>11, HoldingMove DEF PieceArrives, Holding
  <1>12. CASE WorkerRechecks(w)
    <2> DEFINE s == IF cur[w] \in done THEN "loop" ELSE "complete"
    <2>1. s \in Holding \cup {"loop"} /\ (s = "loop" => cur[w] \in done) /\ GoTo(w, s)
      BY <1>12 DEF WorkerRechecks, Holding
    <2> HIDE DEF s
    <2> QED  BY <1>12, <2>1, HoldingMove DEF WorkerRechecks, Holding
  <1>13. CASE PieceFails(w)
    BY <1>13, PieceLeaves DEF PieceFails, Return, Holding
  <1>14. CASE WorkerCompletes(w)
    BY <1>14, PieceLeaves DEF WorkerCompletes, Complete, Holding
  <1>15. CASE WorkerSends(w)
    BY <1>15, SendsKeep
  <1> QED  BY <1>1, <1>2, <1>3, <1>4, <1>5, <1>6, <1>7, <1>8, <1>9, <1>10, <1>11, <1>12, <1>13, <1>14, <1>15
           DEF WorkerStep

\* The goroutines that spawn workers: they run as long as the channel is open.
LEMMA SpawningKeeps ==
  ASSUME IInv, (\E w \in Peer : Feed(w)) \/ RetrySweep PROVE IInv'
  <1> USE DEF IInv
  <1>1. /\ retry \/ feeder
        /\ UNCHANGED <<pending, done, endgame, cur, resultCh, closed, collector, written, ctxDone>>
    BY DEF Feed, RetrySweep, SpawnWorkers, qvars, collectorVars
  <1>2. /\ pc' \in [Worker -> Stages]
        /\ \A v \in Worker : pc'[v] = pc[v] \/ (pc[v] = "off" /\ pc'[v] = "spawned")
    BY DEF Feed, RetrySweep, SpawnWorkers, Types, Stages
  <1>3. Holders' = Holders /\ {v \in Worker : pc'[v] = "send"} = {v \in Worker : pc[v] = "send"}
    BY <1>2 DEF Holders
  <1>4. Types' /\ HeldUndone' /\ ExclusiveBeforeEndgame'
    BY <1>1, <1>2, <1>3 DEF Types, HeldUndone, ExclusiveBeforeEndgame
  <1>5. NoResultLost' /\ NoSendAfterClose'
    BY <1>1, <1>3 DEF NoResultLost, NoSendAfterClose
  <1> QED  BY <1>4, <1>5

\* The collector takes a result out of the channel when it writes it.
LEMMA CollectKeeps ==
  ASSUME IInv, Collect PROVE IInv'
  <1> USE DEF IInv
  <1>1. UNCHANGED <<pending, done, endgame, pc, cur, retry, feeder, closed, ctxDone>> /\ collector' = "run" /\ collector = "run"
    BY DEF Collect, CollectorOnly, qvars, workerVars
  <1>2. /\ resultCh' \in Seq(Piece \cup {-1})
        /\ ToSet(resultCh) \subseteq ToSet(resultCh') \cup {Head(resultCh)}
    <2>1. resultCh # <<>> /\ resultCh' = Tail(resultCh) /\ resultCh \in Seq(Piece \cup {-1})
      BY DEF Collect, Types
    <2>2. /\ Len(resultCh) \in Nat \ {0} /\ DOMAIN resultCh = 1 .. Len(resultCh)
          /\ resultCh' \in Seq(Piece \cup {-1}) /\ DOMAIN resultCh' = 1 .. Len(resultCh) - 1
          /\ \A k \in 2 .. Len(resultCh) : resultCh[k] = resultCh'[k - 1]
          /\ Head(resultCh) = resultCh[1]
      BY <2>1
    <2>3. ASSUME NEW k \in 1 .. Len(resultCh) PROVE resultCh[k] \in ToSet(resultCh') \cup {Head(resultCh)}
      <3>1. CASE k = 1
        BY <2>2, <3>1
      <3>2. CASE k # 1
        <4>1. k \in 2 .. Len(resultCh) /\ k - 1 \in DOMAIN resultCh'
          BY <2>2, <3>2
        <4> QED  BY <2>2, <4>1 DEF ToSet
      <3> QED  BY <3>1, <3>2
    <2> QED  BY <2>2, <2>3 DEF ToSet
  <1>3. written' = written \cup {Head(resultCh)}
    BY DEF Collect
  <1>4. Types' /\ HeldUndone' /\ ExclusiveBeforeEndgame' /\ NoSendAfterClose'
    BY <1>1, <1>2 DEF Types, HeldUndone, ExclusiveBeforeEndgame, NoSendAfterClose, Holders
  <1>5. NoResultLost'
    BY <1>1, <1>2, <1>3 DEF NoResultLost
  <1> QED  BY <1>4, <1>5

\* Steps of the other goroutines, and those that change nothing the invariant speaks of.
LEMMA OthersKeep ==
  ASSUME IInv,
         \/ \E w \in Peer, i \in Piece : PeerSaysHave(w, i)
         \/ FeederExits \/ RetryExits \/ CollectorReturns \/ CollectorAborts \/ WriteFails
         \/ CloseResults \/ Cancel \/ (\E mask \in SkipMasks : SetSkipMask(mask))
         \/ UNCHANGED vars
  PROVE  IInv'
  <1> USE DEF IInv
  <1>1. UNCHANGED <<pending, done, endgame, pc, cur, written>>
    BY DEF PeerSaysHave, FeederExits, RetryExits, CollectorReturns, CollectorAborts, WriteFails, CollectorOnly,
           CloseResults, Cancel, SetSkipMask, UpdateSkipMask, qvars, workerVars, collectorVars, vars
  <1>2. \/ UNCHANGED resultCh
        \/ resultCh # <<>> /\ resultCh' = Tail(resultCh) /\ collector' = "failed"
    BY DEF PeerSaysHave, FeederExits, RetryExits, CollectorReturns, CollectorAborts, WriteFails, CollectorOnly,
           CloseResults, Cancel, SetSkipMask, workerVars, collectorVars, vars
  <1>3. resultCh' \in Seq(Piece \cup {-1})
    BY <1>2 DEF Types
  <1>4. Types' /\ HeldUndone' /\ ExclusiveBeforeEndgame'
    BY <1>1, <1>3 DEF Types, HeldUndone, ExclusiveBeforeEndgame, Holders
  <1>5. (ctxDone => ctxDone') /\ (collector' = "run" => collector = "run")
    BY DEF PeerSaysHave, FeederExits, RetryExits, CollectorReturns, CollectorAborts, WriteFails, CollectorOnly,
           CloseResults, Cancel, SetSkipMask, workerVars, collectorVars, vars
  <1>6. NoResultLost'
    BY <1>1, <1>2, <1>5 DEF NoResultLost
  <1>7. NoSendAfterClose'
    BY <1>1 DEF NoSendAfterClose, PeerSaysHave, FeederExits, RetryExits, CollectorReturns, CollectorAborts, WriteFails,
           CollectorOnly, CloseResults, Cancel, SetSkipMask, workerVars, collectorVars, vars
  <1> QED  BY <1>4, <1>6, <1>7

LEMMA DownloadInvariant == Spec => []IInv
  <1>1. IInv /\ [Next]_vars => IInv'
    BY WorkerKeeps, SpawningKeeps, CollectKeeps, OthersKeep DEF Next, CollectorStep
  <1> QED  BY <1>1, DownloadInit, PTL DEF Spec

\* Before endgame no two workers ever download the same piece, and a piece is pending in
\* the queue exactly while a worker holds it, however workers fail, wait, leave and are
\* spawned again (runWorkers with Pick, Return and Complete).
THEOREM PiecesHeldOnce == Spec => []ExclusiveBeforeEndgame
  <1>1. IInv => ExclusiveBeforeEndgame
    BY DEF IInv
  <1> QED  BY <1>1, DownloadInvariant, PTL

\* Until the download is cancelled or has ended, a piece that Complete has taken out of
\* the queue is written, in resultCh, or in the hands of a worker that sends it.
THEOREM ResultsArrive == Spec => []NoResultLost
  <1>1. IInv => NoResultLost
    BY DEF IInv
  <1> QED  BY <1>1, DownloadInvariant, PTL

\* When resultCh is closed, no goroutine is left that sends on it or could start one
\* that does (the closer, the feeder and the retry goroutine of runWorkers).
THEOREM ClosedForGood == Spec => []NoSendAfterClose
  <1>1. IInv => NoSendAfterClose
    BY DEF IInv
  <1> QED  BY <1>1, DownloadInvariant, PTL
=============================================================================

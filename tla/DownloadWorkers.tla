--------------------------- MODULE DownloadWorkers ---------------------------
(***************************************************************************)
(* One download: DownloadWithParams and runWorkers of download/download.go *)
(* on top of the piece queue.  A worker goroutine serves one peer or one   *)
(* web seed; the retry and feeder goroutines spawn workers; the closer     *)
(* closes resultCh behind the last of them; the collector writes results   *)
(* and counts them.                                                        *)
(*                                                                         *)
(* Each action is what one goroutine does between two operations on state  *)
(* it shares: a queue method, a channel operation, a network exchange.     *)
(***************************************************************************)
EXTENDS PieceQueue, Sequences, SequencesExt

CONSTANTS
  Peer,           \* peers the trackers, DHT and PEX may offer
  InitialPeers,   \* those handed to DownloadWithParams, in order
  WebSeed,        \* valid web seed URLs
  Queued,         \* pieces neither held nor skipped at the start
  Announced,      \* what a connection's first messages may announce
  MaxPeers,       \* connection slots (sem) and sweep size
  DialSlots,      \* capacity of dialSem
  ResultCap,      \* capacity of resultCh; 64 in the code
  PrioritizeFirstLast, Sequential,   \* of the download's configuration
  MaxHaves        \* have messages that set a new bit, over the whole run

Worker == Peer \cup WebSeed

\* A client's view of its peer: the bitfield (nil, empty, of the right or of a
\* wrong size) and the have-all flag.
Client == [form : {"nil", "empty", "sized", "badSize"}, bits : SUBSET Piece, haveAll : BOOLEAN]

ASSUME WorkerConstants ==
  /\ Peer \cap WebSeed = {}
  /\ InitialPeers \in Seq(Peer)
  /\ Queued \subseteq Piece
  /\ Announced \subseteq {c \in Client : c.form \in {"nil", "empty"} => c.bits = {}}
  /\ {MaxPeers, DialSlots, ResultCap} \subseteq Nat \ {0}
  /\ PrioritizeFirstLast \in BOOLEAN /\ Sequential \in BOOLEAN
  /\ MaxHaves \in Nat

VARIABLES
  pc,             \* where each worker is; "off": no goroutine, address not in seen
  cur,            \* the piece a worker got from Pick
  client,         \* the peer's announcements on the current connection
  allSeen,        \* allSeenList: peers in the order of their first spawn
  retry, feeder,  \* these goroutines still run
  ctxDone,        \* the context is cancelled
  resultCh,       \* results sent and not yet received
  closed,         \* resultCh is closed
  collector,      \* DownloadWithParams: "run", or how it returned
  completed,      \* results counted
  written,        \* pieces written to disk and announced (haveBF)
  haves           \* have messages so far

workerVars == <<pc, cur, client, allSeen, retry, feeder, haves>>
collectorVars == <<resultCh, closed, collector, completed, written>>
vars == <<qvars, workerVars, collectorVars, ctxDone>>

\* Workers between taking and releasing a connection slot.
Joined == {w \in Peer : pc[w] \notin {"off", "spawned", "dialing", "slot"}}

NoClient == [form |-> "nil", bits |-> {}, haveAll |-> FALSE]

\* Client.HasPiece as a set; a web seed has every piece.
Has(w) == IF w \in WebSeed \/ client[w].haveAll THEN Piece ELSE client[w].bits

\* What AddPeerBitfield and RemovePeerBitfield take client.bitfield to mean.
Counted(w) == IF client[w].form = "nil" THEN Piece ELSE client[w].bits

Init ==
  /\ NewPieceQueue(Queued, PrioritizeFirstLast, Sequential)
  /\ pc = [w \in Worker |-> IF w \in WebSeed THEN "loop"
                            ELSE IF w \in ToSet(InitialPeers) THEN "spawned" ELSE "off"]
  /\ cur = [w \in Worker |-> -1]
  /\ client = [w \in Worker |-> NoClient]
  /\ allSeen = InitialPeers
  /\ retry = TRUE /\ feeder = TRUE /\ ctxDone = FALSE
  /\ resultCh = <<>> /\ closed = FALSE
  /\ collector = "run" /\ completed = 0 /\ written = {}
  /\ haves = 0

-----------------------------------------------------------------------------
(* Spawning and connecting *)

\* spawnWorker for each of the peers ps, in order.
SpawnWorkers(ps) ==
  /\ pc' = [w \in Worker |-> IF w \in ToSet(ps) /\ pc[w] = "off" THEN "spawned"
                             ELSE pc[w]]
  /\ allSeen' = allSeen \o SelectSeq(ps, LAMBDA w : w \notin ToSet(allSeen))

\* The feeder receives a batch from peerCh.
Feed(w) ==
  /\ feeder /\ pc[w] = "off"
  /\ SpawnWorkers(<<w>>)
  /\ UNCHANGED <<qvars, cur, client, retry, feeder, haves, collectorVars, ctxDone>>

FeederExits ==
  /\ feeder /\ ctxDone
  /\ feeder' = FALSE
  /\ UNCHANGED <<qvars, pc, cur, client, allSeen, retry, haves, collectorVars, ctxDone>>

\* Mutant: the timer is not armed again.
RetrySweepOnce ==
  /\ retry
  /\ retry' = FALSE
  /\ SpawnWorkers(SubSeq(allSeen, 1,
                    IF Len(allSeen) < MaxPeers THEN Len(allSeen) ELSE MaxPeers))
  /\ UNCHANGED <<qvars, cur, client, feeder, haves, collectorVars, ctxDone>>

\* A tick of the retry timer.
RetrySweep ==
  /\ retry
  /\ IF Remaining = 0
     THEN retry' = FALSE /\ UNCHANGED <<pc, allSeen>>
     ELSE /\ UNCHANGED retry
          /\ IF Cardinality(Joined) < MaxPeers \div 2
             THEN SpawnWorkers(SubSeq(allSeen, 1,
                    IF Len(allSeen) < MaxPeers THEN Len(allSeen) ELSE MaxPeers))
             ELSE UNCHANGED <<pc, allSeen>>
  /\ UNCHANGED <<qvars, cur, client, feeder, haves, collectorVars, ctxDone>>

RetryExits ==
  /\ retry /\ ctxDone
  /\ retry' = FALSE
  /\ UNCHANGED <<qvars, pc, cur, client, allSeen, feeder, haves, collectorVars, ctxDone>>

\* A worker moves to stage s; its piece and its connection end with their use.
GoTo(w, s) ==
  /\ pc' = [pc EXCEPT ![w] = s]
  /\ cur' = IF s \in {"loop", "leave", "off"} THEN [cur EXCEPT ![w] = -1] ELSE cur
  /\ client' = IF s = "off" THEN [client EXCEPT ![w] = NoClient] ELSE client
  /\ UNCHANGED <<allSeen, retry, feeder, haves>>

StartDial(w) ==
  /\ pc[w] = "spawned"
  /\ Cardinality({v \in Peer : pc[v] = "dialing"}) < DialSlots
  /\ GoTo(w, "dialing")
  /\ UNCHANGED <<qvars, collectorVars, ctxDone>>

\* The dial and the handshake succeed and the first messages announce c.
DialSucceeds(w) ==
  /\ pc[w] = "dialing"
  /\ \E c \in Announced : client' = [client EXCEPT ![w] = c]
  /\ pc' = [pc EXCEPT ![w] = "slot"]
  /\ UNCHANGED <<qvars, cur, allSeen, retry, feeder, haves, collectorVars, ctxDone>>

DialFails(w) ==
  /\ pc[w] = "dialing"
  /\ GoTo(w, "off")
  /\ UNCHANGED <<qvars, collectorVars, ctxDone>>

\* ValidateBitfield
Valid(c) == c.haveAll \/ c.form # "badSize"

\* A connection slot is free: the peer is counted and registered.
Join(w) ==
  /\ pc[w] = "slot"
  /\ Cardinality(Joined) < MaxPeers
  /\ Valid(client[w])
  /\ AddPeerBitfield(Counted(w))
  /\ GoTo(w, "loop")
  /\ UNCHANGED <<collectorVars, ctxDone>>

RejectBitfield(w) ==
  /\ pc[w] = "slot"
  /\ Cardinality(Joined) < MaxPeers
  /\ ~Valid(client[w])
  /\ GoTo(w, "off")
  /\ UNCHANGED <<qvars, collectorVars, ctxDone>>

\* Waiting for a dial slot or for a connection slot, the context ends.
GiveUp(w) ==
  /\ pc[w] \in {"spawned", "slot"} /\ ctxDone
  /\ GoTo(w, "off")
  /\ UNCHANGED <<qvars, collectorVars, ctxDone>>

-----------------------------------------------------------------------------
(* The worker loop *)

\* The deferred calls of a worker that returns: a peer's pieces are uncounted.
Leave(w) ==
  /\ IF w \in Peer THEN RemovePeerBitfield(Counted(w)) ELSE UNCHANGED qvars
  /\ GoTo(w, "off")

\* The head of the loop looks at the context; Pick is a separate step.
WorkerLoops(w) ==
  /\ pc[w] = "loop" /\ ~ctxDone
  /\ GoTo(w, "pick")
  /\ UNCHANGED <<qvars, collectorVars, ctxDone>>

WorkerPicks(w) ==
  /\ pc[w] = "pick"
  /\ \E i \in Piece : /\ Pick(Has(w), i)
                      /\ cur' = [cur EXCEPT ![w] = i]
  /\ pc' = [pc EXCEPT ![w] = "check1"]
  /\ UNCHANGED <<client, allSeen, retry, feeder, haves, collectorVars, ctxDone>>

WorkerFindsNothing(w) ==
  /\ pc[w] = "pick"
  /\ PickNothing(Has(w))
  /\ GoTo(w, "wait")
  /\ UNCHANGED <<collectorVars, ctxDone>>

WorkerWakes(w) ==
  /\ pc[w] = "wait"
  /\ TakeToken
  /\ GoTo(w, "loop")
  /\ UNCHANGED <<collectorVars, ctxDone>>

\* Mutant: waiting for work ignores the context.
WorkerStopsUnlessWaiting(w) ==
  /\ pc[w] \in {"loop", "send"} /\ ctxDone
  /\ Leave(w)
  /\ UNCHANGED <<collectorVars, ctxDone>>

\* The context ends a worker at the head of its loop, waiting, or sending.
WorkerStops(w) ==
  /\ pc[w] \in {"loop", "wait", "send"} /\ ctxDone
  /\ Leave(w)
  /\ UNCHANGED <<collectorVars, ctxDone>>

\* IsDone just after Pick.
WorkerChecks(w) ==
  /\ pc[w] = "check1"
  /\ GoTo(w, IF cur[w] \in done THEN "loop" ELSE "download")
  /\ UNCHANGED <<qvars, collectorVars, ctxDone>>

\* A have message while the piece is read from the peer.
PeerSaysHave(w, i) ==
  /\ pc[w] = "download" /\ w \in Peer
  /\ client[w].form = "sized" /\ ~client[w].haveAll /\ i \notin client[w].bits
  /\ haves < MaxHaves
  /\ haves' = haves + 1
  /\ client' = [client EXCEPT ![w].bits = @ \cup {i}]
  /\ UNCHANGED <<qvars, pc, cur, allSeen, retry, feeder, collectorVars, ctxDone>>

PieceArrives(w) ==
  /\ pc[w] = "download"
  /\ GoTo(w, "check2")
  /\ UNCHANGED <<qvars, collectorVars, ctxDone>>

\* Mutant: the piece is not returned.
PieceFailsKeeping(w) ==
  /\ pc[w] = "download"
  /\ GoTo(w, "leave")
  /\ UNCHANGED <<qvars, collectorVars, ctxDone>>

\* Choke, reject, hash mismatch, timeout, lost connection or HTTP failure: the
\* piece goes back, and the worker leaves with its next step.
PieceFails(w) ==
  /\ pc[w] = "download"
  /\ Return(cur[w])
  /\ GoTo(w, "leave")
  /\ UNCHANGED <<collectorVars, ctxDone>>

WorkerLeaves(w) ==
  /\ pc[w] = "leave"
  /\ Leave(w)
  /\ UNCHANGED <<collectorVars, ctxDone>>

\* IsDone after the download.
WorkerRechecks(w) ==
  /\ pc[w] = "check2"
  /\ GoTo(w, IF cur[w] \in done THEN "loop" ELSE "complete")
  /\ UNCHANGED <<qvars, collectorVars, ctxDone>>

WorkerCompletes(w) ==
  /\ pc[w] = "complete"
  /\ Complete(cur[w])
  /\ GoTo(w, "send")
  /\ UNCHANGED <<collectorVars, ctxDone>>

\* Mutant: a send that would block is given up.
WorkerSendsOrDrops(w) ==
  /\ pc[w] = "send"
  /\ resultCh' = IF Len(resultCh) < ResultCap THEN Append(resultCh, cur[w]) ELSE resultCh
  /\ GoTo(w, "loop")
  /\ UNCHANGED <<qvars, closed, collector, completed, written, ctxDone>>

WorkerSends(w) ==
  /\ pc[w] = "send"
  /\ Len(resultCh) < ResultCap
  /\ resultCh' = Append(resultCh, cur[w])
  /\ GoTo(w, "loop")
  /\ UNCHANGED <<qvars, closed, collector, completed, written, ctxDone>>

-----------------------------------------------------------------------------
(* Collector, closer and context *)

CollectorOnly(c) ==
  /\ collector = "run"
  /\ collector' = c
  /\ UNCHANGED <<qvars, workerVars, ctxDone, closed>>

\* A result is written, announced and counted.
Collect ==
  /\ resultCh # <<>> /\ completed < Cardinality(Queued)
  /\ written' = written \cup {Head(resultCh)}
  /\ completed' = completed + 1
  /\ resultCh' = Tail(resultCh)
  /\ CollectorOnly("run")

\* Mutant: the failed write is skipped and still counted.
WriteFailsCounted ==
  /\ resultCh # <<>> /\ completed < Cardinality(Queued)
  /\ resultCh' = Tail(resultCh)
  /\ completed' = completed + 1
  /\ CollectorOnly("run")
  /\ UNCHANGED written

WriteFails ==
  /\ resultCh # <<>> /\ completed < Cardinality(Queued)
  /\ resultCh' = Tail(resultCh)
  /\ CollectorOnly("failed")
  /\ UNCHANGED <<completed, written>>

\* The loop condition fails: the download is reported complete.
CollectorReturns ==
  /\ completed = Cardinality(Queued)
  /\ CollectorOnly("ok")
  /\ UNCHANGED <<resultCh, completed, written>>

\* The context ends, or the channel is closed too early.
CollectorAborts ==
  /\ completed < Cardinality(Queued)
  /\ \/ ctxDone /\ CollectorOnly("cancelled")
     \/ closed /\ resultCh = <<>> /\ CollectorOnly("failed")
  /\ UNCHANGED <<resultCh, completed, written>>

\* Mutant: the retry goroutine is not waited for.
CloseResultsEarly ==
  /\ ~feeder /\ ~closed
  /\ \A w \in Worker : pc[w] = "off"
  /\ closed' = TRUE
  /\ UNCHANGED <<qvars, workerVars, resultCh, collector, completed, written, ctxDone>>

CloseResults ==
  /\ ~feeder /\ ~retry /\ ~closed
  /\ \A w \in Worker : pc[w] = "off"
  /\ closed' = TRUE
  /\ UNCHANGED <<qvars, workerVars, resultCh, collector, completed, written, ctxDone>>

\* Pause, removal or shutdown cancels the session's context; so does the
\* session's goroutine when the download has failed.
Cancel ==
  /\ ~ctxDone
  /\ ctxDone' = TRUE
  /\ UNCHANGED <<qvars, workerVars, collectorVars>>

\* SetFilePriority on the running download.
SetSkipMask(mask) ==
  /\ collector = "run" /\ skipMask # mask
  /\ UpdateSkipMask(mask)
  /\ UNCHANGED <<workerVars, collectorVars, ctxDone>>

-----------------------------------------------------------------------------
\* What the worker's goroutine does by itself; a download ends one way or the
\* other because DownloadPiece sets a deadline on the connection.
WorkerStep(w) ==
  \/ StartDial(w) \/ DialSucceeds(w) \/ DialFails(w) \/ Join(w)
  \/ RejectBitfield(w) \/ GiveUp(w)
  \/ WorkerLoops(w) \/ WorkerPicks(w) \/ WorkerFindsNothing(w) \/ WorkerWakes(w) \/ WorkerStops(w)
  \/ WorkerChecks(w) \/ PieceArrives(w) \/ PieceFails(w) \/ WorkerLeaves(w)
  \/ WorkerRechecks(w) \/ WorkerCompletes(w) \/ WorkerSends(w)

CollectorStep == Collect \/ CollectorReturns \/ CollectorAborts

Next ==
  \/ \E w \in Worker : WorkerStep(w)
  \/ \E w \in Peer : Feed(w)
  \/ \E w \in Peer, i \in Piece : PeerSaysHave(w, i)
  \/ FeederExits \/ RetrySweep \/ RetryExits
  \/ CollectorStep \/ WriteFails \/ CloseResults
  \/ Cancel
  \/ \E mask \in SkipMasks : SetSkipMask(mask)

Spec == Init /\ [][Next]_vars

\* Every goroutine that can run does; the session cancels the context of a
\* download that failed.  Nothing is assumed of peers, users or trackers.
Fairness ==
  /\ \A w \in Worker : WF_vars(WorkerStep(w))
  /\ WF_vars(FeederExits) /\ WF_vars(RetrySweep) /\ WF_vars(RetryExits)
  /\ WF_vars(CollectorStep) /\ WF_vars(CloseResults)
  /\ WF_vars(collector = "failed" /\ Cancel)

FairSpec == Spec /\ Fairness

\* A swarm that keeps answering: a peer dialled again and again is reached,
\* and one asked again and again delivers.
ResponsiveSwarm ==
  \A w \in Worker : SF_vars(DialSucceeds(w)) /\ SF_vars(PieceArrives(w))

ResponsiveSpec == FairSpec /\ ResponsiveSwarm

-----------------------------------------------------------------------------
\* Workers that hold a piece Pick gave them.
Holders == {w \in Worker : pc[w] \in {"check1", "download", "check2", "complete"}}

\* Before endgame a piece is in the hands of at most one worker, and the
\* queue's pending set is exactly the pieces in hand: no failure path forgets
\* to return one and none is returned twice (runWorkers, Pick, Return).
ExclusiveBeforeEndgame ==
  ~endgame => /\ \A v, w \in Holders : cur[v] = cur[w] => v = w
              /\ pending = {cur[w] : w \in Holders}

\* A piece marked done is on disk or on its way there, until the context ends
\* or the collector has returned: Complete comes before the send, so nothing
\* may be lost between the two (runWorkers, DownloadWithParams).
NoResultLost ==
  ~ctxDone /\ collector = "run" =>
    done \subseteq written \cup ToSet(resultCh)
                         \cup {cur[w] : w \in {v \in Worker : pc[v] = "send"}}

\* Once resultCh is closed no worker is left that could send on it, and no
\* goroutine is left that could spawn one (the closer of runWorkers).
NoSendAfterClose ==
  closed => ~retry /\ ~feeder /\ \A w \in Worker : pc[w] = "off"

\* When DownloadWithParams returns nil every queued piece is on disk: what the
\* IsDone check after the download is for (download.go:1535).
CompleteMeansWritten == collector = "ok" => written = Queued

\* The delivery contract, for the collector's view of the download.
Delivery == INSTANCE PieceDelivery
              WITH Wanted <- Queued, delivered <- written, status <- collector

\* Every behaviour of the download is one the contract allows.
ImplementsDelivery == Delivery!Spec

\* A cancelled download winds down: every goroutine ends and the result
\* channel is closed (all ctx.Done branches of runWorkers).
CancelledWindsDown == ctxDone ~> closed

\* Against a responsive swarm of seeds the download ends, whatever fails on
\* the way (workers, retry sweeps, Wait and signal).
DownloadEnds == <>(collector # "run")

=============================================================================

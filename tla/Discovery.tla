----------------------------- MODULE Discovery -----------------------------
(***************************************************************************)
(* Where a session's peers come from, over one run of it: the rounds of    *)
(* resolveMetadata and findPeers of engine/session.go, the announcers of   *)
(* engine/announcer.go in the download and the seed phase, the channels    *)
(* through which peers reach the workers, and the stall detector.  The DHT *)
(* they ask is the node of Dht.tla; trackers answer, fail, or take an      *)
(* announce whose answer is lost.                                          *)
(***************************************************************************)
EXTENDS Dht

CONSTANTS
  Tracker,
  BatchCap,     \* 10: capacity of the peer channel of a metadata attempt
  FetchSlots,   \* 100: fetches of metadata at a time
  SinkCap,      \* 16: capacity of an announcer's peer channel
  StallTicks    \* 6: stallThreshold in ticks of the detector

\* A plan also says what the session starts from, and its trackers; whether the
\* torrent is private; whether the magnet link names a peer; how many rounds
\* there are at most; the phase that fails, if one does; and whether there is
\* peer exchange, others in the swarm of its trackers, and a watch for stalls.
ASSUME DiscoveryConstants ==
  /\ {BatchCap, FetchSlots, SinkCap, StallTicks} \subseteq Nat \ {0}
  /\ \A p \in Plans : p.from \in {"nothing", "magnet", "torrent", "seeding"} /\ p.trackers \subseteq Tracker

VARIABLES
  stage,      \* of the session's goroutine
  cancelled,  \* the run's context is cancelled
  round,      \* attempts so far
  att,        \* att[g]: attempt g, whose goroutines may outlive it
  ann,        \* ann[a]: an announcer's goroutine; "completed" is AnnounceCompleted
  sink,       \* batches in the announcers' channels
  relay,      \* of phaseDownload, and the batches it has passed on
  listed,     \* trackers that have this client in the swarm
  stall       \* the stall detector

session == <<stage, cancelled, round, att, ann, sink, relay, listed, stall>>
node == <<plan, self, table, pending, net, reused, secret, issued, closed, file, life>>
dvars == <<node, look, query, session>>

Announcer == {"down", "completed", "seed"}
Origin == Tracker \cup {"dht", "pe"}

-----------------------------------------------------------------------------
(* Asking a tracker and the DHT. *)

\* An announce arrives or not; only one that arrives can be answered.
Announced(t, event, ok) ==
  \/ listed' = [listed EXCEPT ![t] = event # "stopped"]
  \/ (~ok /\ UNCHANGED listed)

\* dhtLookup and lookupDHT call GetPeers...
AskDht(l) ==
  /\ look' = [look EXCEPT ![l].phase = "ready"]
  /\ UNCHANGED query

\* ... which returns peers, or none.
DhtReturns(l, some) ==
  /\ look[l].phase = "done"
  /\ some = (look[l].peers > 0)
  /\ look' = [look EXCEPT ![l] = NoLookup]
  /\ query' = [q \in {r \in DOMAIN query : r[1] # l} |-> query[q]]

-----------------------------------------------------------------------------
(* The rounds: fetchMetadataAttempt and findPeersAttempt. *)

NoAttempt ==
  [src |-> [s \in Origin |-> "none"], found |-> {}, ch |-> {}, shut |-> FALSE, done |-> FALSE,
   collector |-> "none", fetch |-> [s \in Origin |-> "none"], result |-> 0, over |-> FALSE, had |-> FALSE]

\* The goroutine of attempt g that asks the DHT.
Asker(g) == <<"get", "again">>[g]

Asked == plan.trackers \cup IF plan.from = "torrent" /\ plan.private THEN {} ELSE {"dht"}

\* A round asks all trackers and the DHT, each in a goroutine; a peer of the
\* magnet link is a batch the session's goroutine sends itself.
BeginRound ==
  /\ stage \in {"resolve", "backoff"} /\ plan.from \in {"magnet", "torrent"} /\ round < plan.tries
  /\ round' = round + 1
  /\ att' = [att EXCEPT ![round + 1].src =
               [s \in Origin |-> CASE s \in Asked -> "ask"
                                   [] s = "pe" /\ plan.pe /\ plan.from = "magnet" -> "send"
                                   [] OTHER -> "none"],
             ![round + 1].found = IF plan.pe /\ plan.from = "magnet" THEN {"pe"} ELSE {}]
  /\ stage' = IF plan.from = "magnet" THEN "attempt" ELSE "find"
  /\ UNCHANGED <<node, look, query, cancelled, ann, sink, relay, listed, stall>>

\* What a goroutine does with an answer.
Source(g, s, some) ==
  att' = [att EXCEPT ![g].src[s] = IF some /\ plan.from = "magnet" THEN "send" ELSE "over",
                     ![g].found = IF some THEN @ \cup {s} ELSE @]

TrackerAnswers(g, t, some) ==
  /\ att[g].src[t] = "ask"
  /\ Announced(t, "started", some)
  /\ Source(g, t, some)
  /\ UNCHANGED <<node, look, query, stage, cancelled, round, ann, sink, relay, stall>>

LookupBegins(g) ==
  /\ att[g].src["dht"] = "ask"
  /\ AskDht(Asker(g))
  /\ att' = [att EXCEPT ![g].src["dht"] = "wait"]
  /\ UNCHANGED <<node, stage, cancelled, round, ann, sink, relay, listed, stall>>

LookupReturns(g, some) ==
  /\ att[g].src["dht"] = "wait"
  /\ DhtReturns(Asker(g), some)
  /\ Source(g, "dht", some)
  /\ UNCHANGED <<node, stage, cancelled, round, ann, sink, relay, listed, stall>>

quiet == <<node, look, query, stage, cancelled, round, ann, sink, relay, listed, stall>>

SendBatch(g, s) ==
  /\ att[g].src[s] = "send" /\ Cardinality(att[g].ch) < BatchCap
  /\ att' = [att EXCEPT ![g].src[s] = "over", ![g].ch = @ \cup {s}]
  /\ UNCHANGED quiet

\* The rest of the attempt starts when the peers of the link are in.
Ready(g) == stage = "attempt" /\ g = round /\ att[g].src["pe"] # "send"

\* Mutant: the channel is closed without waiting for the sources.
CloseBatchesEarly(g) ==
  /\ att[g].collector # "none" /\ ~att[g].shut
  /\ att' = [att EXCEPT ![g].shut = TRUE]
  /\ UNCHANGED quiet

CloseBatches(g) ==
  /\ att[g].collector # "none" /\ ~att[g].shut
  /\ \A s \in Origin : att[g].src[s] \in {"none", "over"}
  /\ att' = [att EXCEPT ![g].shut = TRUE]
  /\ UNCHANGED quiet

StartCollector(g) ==
  /\ Ready(g) /\ att[g].collector = "none"
  /\ att' = [att EXCEPT ![g].collector = "loop"]
  /\ UNCHANGED quiet

\* metaCtx: the attempt's time is up, it is over, or the run is.
MetaDone(g) == att[g].done \/ cancelled

MetaTimesOut(g) ==
  /\ att[g].collector \in {"loop", "drain"} /\ ~att[g].done
  /\ att' = [att EXCEPT ![g].done = TRUE]
  /\ UNCHANGED quiet

Collect(g, s) ==
  /\ att[g].collector = "loop" /\ s \in att[g].ch
  /\ att' = [att EXCEPT ![g].ch = @ \ {s}, ![g].fetch[s] = "queue"]
  /\ UNCHANGED quiet

CollectorStops(g) ==
  /\ att[g].collector = "loop" /\ (MetaDone(g) \/ (att[g].shut /\ att[g].ch = {}))
  /\ att' = [att EXCEPT ![g].collector = "drain"]
  /\ UNCHANGED quiet

FetchBegins(g, s) ==
  /\ att[g].fetch[s] = "queue"
  /\ \/ /\ Cardinality({r \in Origin : att[g].fetch[r] \in {"run", "hold"}}) < FetchSlots
        /\ att' = [att EXCEPT ![g].fetch[s] = "run"]
     \/ MetaDone(g) /\ att' = [att EXCEPT ![g].fetch[s] = "over"]
  /\ UNCHANGED quiet

FetchEnds(g, s, ok) ==
  /\ att[g].fetch[s] = "run"
  /\ att' = [att EXCEPT ![g].fetch[s] = IF ok THEN "hold" ELSE "over", ![g].had = @ \/ ok]
  /\ UNCHANGED quiet

\* The first result is kept and ends the attempt; a later one is dropped.
FetchSends(g, s) ==
  /\ att[g].fetch[s] = "hold"
  /\ att' = [att EXCEPT ![g].fetch[s] = "over", ![g].result = 1, ![g].done = @ \/ att[g].result = 0]
  /\ UNCHANGED quiet

\* Mutant: the fetches are not waited for.
CollectorEndsEarly(g) ==
  /\ att[g].collector = "drain"
  /\ att' = [att EXCEPT ![g].collector = "over", ![g].over = TRUE]
  /\ UNCHANGED quiet

CollectorEnds(g) ==
  /\ att[g].collector = "drain"
  /\ \A s \in Origin : att[g].fetch[s] \in {"none", "over"}
  /\ att' = [att EXCEPT ![g].collector = "over", ![g].over = TRUE]
  /\ UNCHANGED quiet

\* fetchMetadataAttempt returns a result, or nothing when resultCh is closed...
AttemptReturns ==
  /\ stage = "attempt" /\ att[round].collector # "none"
  /\ \/ att[round].result = 1 /\ stage' = "found"
     \/ att[round].result = 0 /\ att[round].over /\ stage' = IF cancelled THEN "over" ELSE "backoff"
  /\ att' = [att EXCEPT ![round].result = 0, ![round].done = TRUE]
  /\ cancelled' = (cancelled \/ stage' = "over")
  /\ UNCHANGED <<node, look, query, round, ann, sink, relay, listed, stall>>

\* ... and findPeersAttempt when all have answered or the run is cancelled.
FindReturns ==
  /\ stage = "find"
  /\ cancelled \/ \A s \in Origin : att[round].src[s] \in {"none", "over"}
  /\ stage' = IF att[round].found # {} THEN "found" ELSE IF cancelled THEN "over" ELSE "backoff"
  /\ UNCHANGED <<node, look, query, cancelled, round, att, ann, sink, relay, listed, stall>>

BackoffCancelled ==
  /\ stage = "backoff" /\ cancelled
  /\ stage' = "over"
  /\ UNCHANGED <<node, look, query, cancelled, round, att, ann, sink, relay, listed, stall>>

GoroutineStep(g) ==
  \/ \E t \in Tracker, some \in BOOLEAN : TrackerAnswers(g, t, some)
  \/ LookupBegins(g) \/ \E some \in BOOLEAN : LookupReturns(g, some)
  \/ \E s \in Origin : SendBatch(g, s) \/ Collect(g, s) \/ FetchBegins(g, s) \/ FetchSends(g, s)
  \/ \E s \in Origin, ok \in BOOLEAN : FetchEnds(g, s, ok)
  \/ CloseBatches(g) \/ StartCollector(g) \/ CollectorStops(g) \/ CollectorEnds(g)

-----------------------------------------------------------------------------
(* The announcers. *)

NoAnnounce == [st |-> "none", event |-> "none", left |-> {}, dht |-> "no", peers |-> FALSE]

\* Mutant: private torrents are looked up too.
AnnouncePublic(event) ==
  [st |-> "ask", event |-> event, left |-> plan.trackers, peers |-> FALSE,
   dht |-> IF event = "stopped" THEN "no" ELSE "ask"]

\* announce asks all trackers, and the DHT.
Announce(event) ==
  [st |-> "ask", event |-> event, left |-> plan.trackers, peers |-> FALSE,
   dht |-> IF event = "stopped" \/ plan.private THEN "no" ELSE "ask"]

\* The context of an announcer, and of what it announces, is done.
Over(a) == cancelled \/ (a = "down" /\ stage # "download")

calm == <<node, stage, cancelled, round, att, relay, stall>>

TrackerReplies(a, t, ok) ==
  /\ ann[a].st = "ask" /\ t \in ann[a].left
  /\ Announced(t, ann[a].event, ok)
  /\ ann' = [ann EXCEPT ![a].left = @ \ {t}, ![a].peers = @ \/ (ok /\ plan.swarm)]
  /\ UNCHANGED <<calm, look, query, sink>>

AnnouncerLooks(a) ==
  /\ ann[a].dht = "ask"
  /\ AskDht(a)
  /\ ann' = [ann EXCEPT ![a].dht = "wait"]
  /\ UNCHANGED <<calm, sink, listed>>

AnnouncerFinds(a, some) ==
  /\ ann[a].dht = "wait"
  /\ DhtReturns(a, some)
  /\ ann' = [ann EXCEPT ![a].dht = "no", ![a].peers = @ \/ some]
  /\ UNCHANGED <<calm, sink, listed>>

\* What follows an announce: the loop of Run, unless it was the last.
After(a) == IF ann[a].event = "stopped" \/ a = "completed" THEN "ended" ELSE "loop"

AnnounceReturns(a) ==
  /\ ann[a].st = "ask" /\ ann[a].left = {} /\ ann[a].dht = "no"
  /\ ann' = [ann EXCEPT ![a].st = IF ann[a].peers THEN "send" ELSE After(a)]
  /\ UNCHANGED <<calm, look, query, sink, listed>>

\* The channel of an announcer.
To(a) == IF a = "down" THEN "down" ELSE "seed"

DeliverPeers(a) ==
  /\ ann[a].st = "send" /\ sink[To(a)] < SinkCap
  /\ sink' = [sink EXCEPT ![To(a)] = @ + 1]
  /\ ann' = [ann EXCEPT ![a].st = After(a)]
  /\ UNCHANGED <<calm, look, query, listed>>

\* Mutant: a send that is not given up.
DropPeersNever(a) ==
  /\ FALSE
  /\ UNCHANGED <<calm, look, query, sink, listed, ann>>

\* The peers are dropped when the context is done: of a last announce, after
\* five seconds.
DropPeers(a) ==
  /\ ann[a].st = "send" /\ Over(a)
  /\ ann' = [ann EXCEPT ![a].st = After(a)]
  /\ UNCHANGED <<calm, look, query, sink, listed>>

\* Mutant: the timer is not armed again.
AnnounceTimerOnce(a) ==
  /\ ann[a].st = "loop" /\ ann[a].event = "started"
  /\ ann' = [ann EXCEPT ![a] = Announce("none")]
  /\ UNCHANGED <<calm, look, query, sink, listed>>

AnnounceTimer(a) ==
  /\ ann[a].st = "loop"
  /\ ann' = [ann EXCEPT ![a] = Announce("none")]
  /\ UNCHANGED <<calm, look, query, sink, listed>>

\* runDHTLookup.
DhtTimer(a) ==
  /\ ann[a].st = "loop" /\ ~plan.private
  /\ ann' = [ann EXCEPT ![a] = [Announce("none") EXCEPT !.left = {}]]
  /\ UNCHANGED <<calm, look, query, sink, listed>>

AnnounceStopped(a) ==
  /\ ann[a].st = "loop" /\ Over(a)
  /\ ann' = [ann EXCEPT ![a] = Announce("stopped")]
  /\ UNCHANGED <<calm, look, query, sink, listed>>

AnnouncerStep(a) ==
  \/ \E t \in Tracker, ok \in BOOLEAN : TrackerReplies(a, t, ok)
  \/ AnnouncerLooks(a) \/ \E some \in BOOLEAN : AnnouncerFinds(a, some)
  \/ AnnounceReturns(a) \/ DeliverPeers(a) \/ DropPeers(a)

-----------------------------------------------------------------------------
(* The channels.  phaseDownload counts what comes through peerCh and passes it *)
(* on to the feeder of runWorkers; phaseSeed only counts.                      *)

still == <<node, look, query, stage, cancelled, round, att, ann, listed, stall>>

RelayTakes ==
  /\ relay.st = "idle" /\ sink["down"] > 0
  /\ sink' = [sink EXCEPT !["down"] = @ - 1]
  /\ relay' = [relay EXCEPT !.st = "hold"]
  /\ UNCHANGED still

RelayPasses ==
  /\ relay.st = "hold" /\ relay.out < SinkCap
  /\ relay' = [relay EXCEPT !.st = "idle", !.out = @ + 1]
  /\ UNCHANGED <<still, sink>>

RelayEnds ==
  /\ relay.st \in {"idle", "hold"} /\ cancelled
  /\ relay' = [relay EXCEPT !.st = "over"]
  /\ UNCHANGED <<still, sink>>

\* The feeder spawns workers; once the run is cancelled they end at once.
Feed ==
  /\ relay.out > 0 /\ ~cancelled
  /\ relay' = [relay EXCEPT !.out = @ - 1]
  /\ UNCHANGED <<still, sink>>

\* Mutant: phaseSeed does not read its channel.
SeedDrainsNever ==
  /\ FALSE
  /\ UNCHANGED <<still, relay, sink>>

\* The reader may take one more batch before it sees that the run is cancelled.
SeedDrains ==
  /\ sink["seed"] > 0
  /\ sink' = [sink EXCEPT !["seed"] = @ - 1]
  /\ UNCHANGED <<still, relay>>

\* A worker's peer exchange: what does not fit is dropped.
PeerExchange ==
  /\ stage = "download" /\ ~plan.private /\ plan.pex /\ sink["down"] < SinkCap
  /\ sink' = [sink EXCEPT !["down"] = @ + 1]
  /\ UNCHANGED <<still, relay>>

-----------------------------------------------------------------------------
(* The phases. *)

BeginDownload ==
  /\ stage = "found" /\ plan.fails # "download"
  /\ stage' = "download"
  /\ ann' = [ann EXCEPT !["down"] = Announce("started")]
  /\ relay' = [relay EXCEPT !.st = "idle"]
  /\ stall' = [stall EXCEPT !.on = plan.stall]
  /\ UNCHANGED <<node, look, query, cancelled, round, att, sink, listed>>

\* The directory for the files cannot be made.
DownloadFails ==
  /\ stage = "found" /\ plan.fails = "download"
  /\ stage' = "over" /\ cancelled' = TRUE
  /\ UNCHANGED <<node, look, query, round, att, ann, sink, relay, listed, stall>>

\* phaseSeed starts with AnnounceCompleted, after a download or from the record.
DownloadEnds(ok) ==
  /\ stage = "download" /\ (ok => plan.fails # "seed")
  /\ IF ok
     THEN stage' = "completing" /\ ann' = [ann EXCEPT !["completed"] = Announce("completed")] /\ UNCHANGED cancelled
     ELSE stage' = "over" /\ cancelled' = TRUE /\ UNCHANGED ann
  /\ stall' = [stall EXCEPT !.on = FALSE]
  /\ UNCHANGED <<node, look, query, round, att, sink, relay, listed>>

ResumeSeeding ==
  /\ stage = "resolve" /\ plan.from = "seeding"
  /\ stage' = "completing" /\ ann' = [ann EXCEPT !["completed"] = Announce("completed")]
  /\ UNCHANGED <<node, look, query, cancelled, round, att, sink, relay, listed, stall>>

Seed ==
  /\ stage = "completing" /\ ann["completed"].st = "ended"
  /\ stage' = "seed" /\ ann' = [ann EXCEPT !["seed"] = Announce("started")]
  /\ UNCHANGED <<node, look, query, cancelled, round, att, sink, relay, listed, stall>>

SeedEnds ==
  /\ stage = "seed" /\ cancelled
  /\ stage' = "over"
  /\ UNCHANGED <<node, look, query, cancelled, round, att, ann, sink, relay, listed, stall>>

\* Pause, RemoveTorrent or Stop.
Cancel ==
  /\ plan.from # "nothing" /\ ~cancelled
  /\ cancelled' = TRUE
  /\ UNCHANGED <<node, look, query, stage, round, att, ann, sink, relay, listed, stall>>

-----------------------------------------------------------------------------
(* The stall detector.  Its clock counts ticks; samples are the last counts. *)

\* Mutant: the time of the first empty tick is kept.
StallStepKept(some) ==
  LET since == IF some THEN stall.since ELSE IF stall.since = 0 THEN 1 ELSE stall.since + 1
      stalled == ~some /\ (stall.stalled \/ since > StallTicks)
  IN  [stall EXCEPT !.since = IF since > StallTicks THEN StallTicks + 1 ELSE since, !.stalled = stalled]

\* step: since counts the ticks of an empty stretch.
StallStep(some) ==
  LET since == IF some THEN 0 ELSE stall.since + 1
      stalled == ~some /\ (stall.stalled \/ since > StallTicks)
  IN  [stall EXCEPT !.since = IF since > StallTicks THEN StallTicks + 1 ELSE since, !.stalled = stalled]

StallTick(some) ==
  /\ stall.on
  /\ LET next == StallStep(some)
         seen == Append(stall.samples, some)
     IN  stall' = [next EXCEPT !.samples = IF Len(seen) > StallTicks + 1 THEN Tail(seen) ELSE seen,
                               !.told = IF next.stalled # stall.stalled THEN next.stalled ELSE @]
  /\ UNCHANGED <<node, look, query, stage, cancelled, round, att, ann, sink, relay, listed>>

-----------------------------------------------------------------------------
DInit ==
  /\ Init
  /\ stage = IF plan.from = "nothing" THEN "off" ELSE "resolve"
  /\ cancelled = FALSE /\ round = 0
  /\ att = [g \in 1 .. 2 |-> NoAttempt]
  /\ ann = [a \in Announcer |-> NoAnnounce]
  /\ sink = [c \in {"down", "seed"} |-> 0]
  /\ relay = [st |-> "none", out |-> 0]
  /\ listed = [t \in Tracker |-> FALSE]
  /\ stall = [on |-> FALSE, since |-> 0, stalled |-> FALSE, told |-> FALSE, samples |-> <<>>]

Phase ==
  \/ BeginRound \/ AttemptReturns \/ FindReturns \/ BackoffCancelled
  \/ BeginDownload \/ DownloadFails \/ ResumeSeeding \/ Seed \/ SeedEnds

Relay == RelayTakes \/ RelayPasses \/ RelayEnds \/ Feed

Attempt == \E g \in 1 .. round : GoroutineStep(g) \/ MetaTimesOut(g)

DNext ==
  \/ Next /\ UNCHANGED session
  \/ Phase \/ Relay \/ SeedDrains \/ Attempt \/ PeerExchange \/ Cancel
  \/ \E ok \in BOOLEAN : DownloadEnds(ok)
  \/ \E a \in Announcer : AnnouncerStep(a) \/ AnnounceTimer(a) \/ DhtTimer(a) \/ AnnounceStopped(a)
  \/ \E some \in BOOLEAN : StallTick(some)

\* Whatever can run does: goroutines, requests that are answered or time out, the
\* time of an attempt.
Progress ==
  \/ Work /\ UNCHANGED session
  \/ Phase \/ Relay \/ (~cancelled /\ SeedDrains) \/ Attempt \/ (cancelled /\ DownloadEnds(FALSE))
  \/ \E a \in Announcer : AnnouncerStep(a)

\* A select that is offered the end of the context again and again takes it, and so
\* it takes the announce timer; a goroutine that waits to send is served before
\* others that come later; a tracker that is asked again and again answers in the
\* end.  A download need not end by itself.
DFairness ==
  /\ WF_dvars(Progress)
  /\ SF_dvars(\E a \in Announcer : AnnounceStopped(a)) /\ SF_dvars(AnnounceTimer("seed"))
  /\ SF_dvars(DeliverPeers("down"))
  /\ SF_dvars(\E t \in Tracker : TrackerReplies("seed", t, TRUE))

DSpec == DInit /\ [][DNext]_dvars /\ DFairness

-----------------------------------------------------------------------------
(* Properties. *)

\* fetchMetadataAttempt: nothing is sent on a channel that is closed, by sources
\* that outlive the attempt or by fetches that end late.
NoSendAfterClose ==
  \A g \in 1 .. 2 :
    /\ att[g].shut => \A s \in Origin : att[g].src[s] \in {"none", "over"}
    /\ att[g].over => \A s \in Origin : att[g].fetch[s] \in {"none", "over"}

\* An attempt in which some peer has given the metadata, even in the moment its
\* time runs out, is not retried (the select on resultCh, metaCancel, metaWg).
MetadataKept ==
  plan.from = "magnet" /\ round > 0 /\ att[round].had =>
    stage # "backoff" /\ (stage = "attempt" /\ att[round].over => att[round].result = 1)

\* An attempt to get the metadata ends cleanly: nobody sends too late, nothing is lost.
AttemptSound == NoSendAfterClose /\ MetadataKept

\* BEP 27: a torrent known to be private is never looked up in the DHT, by the
\* search for peers or by an announcer, in any phase.
PrivateSilent ==
  plan.private /\ plan.from # "magnet" => \A l \in Getter : look[l].phase = "idle"

\* stallDetector.step: the torrent is stalled exactly when all ticks of the last
\* threshold found no peer, and what was published last says the same.
StallExact ==
  stall.on =>
    /\ stall.stalled <=> Len(stall.samples) = StallTicks + 1 /\ \A k \in DOMAIN stall.samples : ~stall.samples[k]
    /\ stall.told = stall.stalled

Quiet ==
  /\ stage = "over" /\ relay.st \in {"none", "over"}
  /\ \A g \in 1 .. 2 : /\ att[g].collector \in {"none", "over"}
                       /\ \A s \in Origin : {att[g].src[s], att[g].fetch[s]} \subseteq {"none", "over"}
  /\ \A a \in Announcer : ann[a].st \in {"none", "ended"}

\* After a cancellation at any moment every goroutine the run has started for its
\* peers ends: sources, fetches, announcers with their last announce, relays.
Ends == cancelled ~> Quiet

\* While a torrent seeds its trackers come to list it for good, although the last
\* announce of the download's announcer ("stopped") may arrive after the first
\* ones of the seed's (cleanup, AnnounceCompleted, Run).
SeedIsListed == stage = "seed" ~> []((\A t \in plan.trackers : listed[t]) \/ cancelled)

\* An announcer that hands over peers gets rid of them: its channel is read, or
\* the send is given up (phaseDownload's relay, phaseSeed's reader).
HandsOver == (\E a \in Announcer : ann[a].st = "send") ~> (\A a \in Announcer : ann[a].st # "send")

\* No goroutine of a run is left behind or stuck, while it goes on and after it.
WindsDown == Ends /\ HandsOver
=============================================================================

-------------------------------- MODULE Engine --------------------------------
(***************************************************************************)
(* The engine: engine/engine.go.  It holds the sessions in a queue, starts *)
(* at most MaxActive of them, lets concurrent API calls pause, resume and  *)
(* remove them, and saves their records for the next start.                *)
(*                                                                         *)
(* A call is as many actions as it has critical sections whose             *)
(* interleaving the record can show.  saveState and the startQueued right  *)
(* behind it are one action: starting a session changes no record.         *)
(***************************************************************************)
EXTENDS Session

CONSTANTS
  Caller,       \* API calls in flight at the same time
  Magnet,       \* torrents that are added without metadata
  MaxActive,    \* Config.MaxActive
  NewMaxActive, \* values SetMaxActive may be given
  Ops           \* the operations of the environment that a model includes

ASSUME EngineConstants ==
  /\ MaxActive \in Nat \ {0} /\ NewMaxActive \subseteq Nat
  /\ Ops \subseteq {"pause", "resume", "remove", "stop", "crash"}

VARIABLES
  queue,        \* the sessions of the engine in order of QueuePosition
  maxActive,    \* cfg.MaxActive
  call,         \* call[c]: what API call c is about to do, and to which torrent
  phase,        \* of the process: "up", "stopping" or "down"
  saved,        \* the states on disk; a torrent that is not there is not in DOMAIN
  removed       \* torrents that were removed (they are not added again)

engineVars == <<queue, maxActive, call, phase, saved, removed>>

vars == <<sessionVars, engineVars>>

Idle == [do |-> "idle", t |-> CHOOSE t \in Torrent : TRUE]

Present == {queue[k] : k \in DOMAIN queue}

-----------------------------------------------------------------------------
(* The download queue *)

\* activeCount, over the sessions of S; what is only queued does not count.
ActiveIn(S) ==
  {t \in S : \/ state[t] \in {"downloading", "metadata", "verifying"}
             \/ state[t] = "adding" /\ cancel[t] # 0}

activeCount == Cardinality(ActiveIn(Present))

\* Sessions that startQueuedLocked would start if there were room.
Queued == {t \in Present : state[t] = "adding" /\ cancel[t] = 0}

\* The first n members of S in queue order q; none if n <= 0.
FirstOf(q, S, n) ==
  {q[k] : k \in {j \in DOMAIN q : q[j] \in S /\ Cardinality({i \in 1 .. j - 1 : q[i] \in S}) < n}}

\* Mutant: the limit is compared with the count before the last start.
startQueuedOneMore(stages, order, waiting, limit) ==
  Start(stages, FirstOf(order, waiting, limit - activeCount + 1))

\* Mutant: the state alone tells a queued session from one that runs.
startQueuedByState(stages, order, waiting, limit) ==
  LET adding == waiting \cup {t \in Present : state[t] = "adding"}
      active == {t \in Present : state[t] \in {"downloading", "metadata", "verifying"}}
  IN  Start(stages, FirstOf(order, adding, limit - Cardinality(active)))

\* startQueuedLocked: as many as there is room for, in queue order.
startQueuedLocked(stages, order, waiting, limit) ==
  Start(stages, FirstOf(order, waiting, limit - activeCount))

startQueued(stages) == startQueuedLocked(stages, queue, Queued, maxActive)

\* saveStateLocked: every session's record.
saveState == saved' = [t \in Present |-> [state |-> state[t], meta |-> meta[t]]]

-----------------------------------------------------------------------------
(* The API *)

Up == phase = "up"

\* AddTorrent, for a torrent that was never here.
Add(t) ==
  /\ Up /\ t \notin Present \cup removed
  /\ queue' = Append(queue, t)
  /\ state' = [state EXCEPT ![t] = "adding"]
  /\ saved' = [u \in Present \cup {t} |-> [state |-> state'[u], meta |-> meta[u]]]
  /\ startQueuedLocked(stage, queue', Queued \cup {t}, maxActive)
  /\ UNCHANGED <<meta, bus, engineDone, maxActive, call, phase, removed>>

Calls(c, from, next) ==
  /\ call[c].do = from
  /\ call' = [call EXCEPT ![c] = next]
  /\ UNCHANGED <<meta, engineDone, maxActive, phase, removed>>

\* PauseTorrent: Pause's first critical section...
PauseBegins(c, t) ==
  /\ "pause" \in Ops /\ Up /\ t \in Present
  /\ Calls(c, "idle", [do |-> IF Pausable(t) THEN "setPaused" ELSE "endPause", t |-> t])
  /\ CancelRun(t)
  /\ UNCHANGED <<state, stage, bus, queue, saved>>

\* ... its setState...
PauseSets(c) ==
  /\ Calls(c, "setPaused", [call[c] EXCEPT !.do = "endPause"])
  /\ setState(call[c].t, "paused")
  /\ UNCHANGED <<cancel, stage, cancelled, queue, saved>>

\* ... and the engine's saveState and startQueued.
PauseEnds(c) ==
  /\ Calls(c, "endPause", Idle)
  /\ saveState
  /\ startQueued(stage)
  /\ UNCHANGED <<state, bus, queue>>

\* ResumeTorrent looks at the record...
ResumeBegins(c, t) ==
  /\ "resume" \in Ops /\ Up /\ t \in Present
  /\ state[t] \in {"paused", "error"}
  /\ Calls(c, "idle", [do |-> "setAdding", t |-> t])
  /\ UNCHANGED <<state, cancel, stage, cancelled, bus, queue, saved>>

\* ... puts it back into the queue...
ResumeSets(c) ==
  /\ Calls(c, "setAdding", [call[c] EXCEPT !.do = "countActive"])
  /\ setState(call[c].t, "adding")
  /\ UNCHANGED <<cancel, stage, cancelled, queue, saved>>

\* ... counts, without e.mu...
ResumeCounts(c) ==
  /\ Calls(c, "countActive",
           [call[c] EXCEPT !.do = IF activeCount < maxActive THEN "start" ELSE "endResume"])
  /\ UNCHANGED <<state, cancel, stage, cancelled, bus, queue, saved>>

\* ... and starts the session if the count left room.
ResumeStarts(c) ==
  /\ Calls(c, "start", [call[c] EXCEPT !.do = "endResume"])
  /\ Start(stage, {call[c].t})
  /\ UNCHANGED <<state, bus, queue, saved>>

ResumeEnds(c) ==
  /\ Calls(c, "endResume", Idle)
  /\ saveState
  /\ UNCHANGED <<state, cancel, stage, cancelled, bus, queue>>

\* RemoveTorrent: Pause and delete with e.mu held, and Save...
RemoveBegins(c, t) ==
  /\ "remove" \in Ops /\ Up /\ t \in Present
  /\ call[c].do = "idle"
  /\ call' = [call EXCEPT ![c] = [do |-> "endRemove", t |-> t]]
  /\ CancelRun(t)
  /\ IF Pausable(t) THEN setState(t, "paused") ELSE UNCHANGED <<state, bus>>
  /\ queue' = SelectSeq(queue, LAMBDA u : u # t)
  /\ saved' = [u \in DOMAIN saved \ {t} |-> saved[u]]
  /\ removed' = removed \cup {t}
  /\ UNCHANGED <<stage, meta, engineDone, maxActive, phase>>

\* ... and startQueued.
RemoveEnds(c) ==
  /\ Calls(c, "endRemove", Idle)
  /\ startQueued(stage)
  /\ UNCHANGED <<state, bus, queue, saved>>

\* SetMaxActive
SetMaxActive(n) ==
  /\ Up
  /\ maxActive' = IF n < 1 THEN 1 ELSE n
  /\ startQueuedLocked(stage, queue, Queued, maxActive')
  /\ UNCHANGED <<state, meta, bus, engineDone, queue, call, phase, saved, removed>>

-----------------------------------------------------------------------------
(* The engine's goroutines *)

\* onSessionDone, and the end of the run.
OnSessionDone(t, r) ==
  /\ stage[t][r] = "onDone"
  /\ saveState
  /\ startQueued([stage EXCEPT ![t][r] = "none"])
  /\ UNCHANGED <<state, meta, bus, engineDone, queue, maxActive, call, phase, removed>>

RunSteps(t, r) == RunStep(t, r) /\ UNCHANGED engineVars

\* Mutant: leaving the active set only compacts the queue.
OrchestrateWithoutStarting ==
  /\ ~engineDone /\ bus # <<>>
  /\ bus' = Tail(bus)
  /\ IF Head(bus) THEN saveState ELSE UNCHANGED saved
  /\ UNCHANGED <<state, cancel, stage, cancelled, meta, engineDone, queue, maxActive, call,
                 phase, removed>>

\* runQueueOrchestrator: one event.
Orchestrate ==
  /\ ~engineDone /\ bus # <<>>
  /\ bus' = Tail(bus)
  /\ IF Head(bus) THEN startQueued(stage) /\ saveState
                  ELSE UNCHANGED <<cancel, stage, cancelled, saved>>
  /\ UNCHANGED <<state, meta, engineDone, queue, maxActive, call, phase, removed>>

\* The save ticker.
PeriodicSave ==
  /\ Up /\ saveState
  /\ UNCHANGED <<sessionVars, queue, maxActive, call, phase, removed>>

-----------------------------------------------------------------------------
(* Stop, crash, start *)

\* Stop, called once the API has drained: the context goes first.
StopBegins ==
  /\ "stop" \in Ops /\ Up
  /\ \A c \in Caller : call[c].do = "idle"
  /\ engineDone' = TRUE /\ phase' = "stopping" /\ bus' = <<>>
  /\ UNCHANGED <<state, cancel, stage, cancelled, meta, queue, maxActive, call, saved, removed>>

\* Then every run is waited for, and the records are saved.
StopEnds ==
  /\ phase = "stopping"
  /\ \A t \in Torrent : Live(t) = {}
  /\ saveState
  /\ phase' = "down"
  /\ UNCHANGED <<sessionVars, queue, maxActive, call, removed>>

\* The process dies: what is in memory goes with it.
Crash ==
  /\ "crash" \in Ops /\ phase # "down"
  /\ phase' = "down"
  /\ stage' = [t \in Torrent |-> [r \in Run |-> "none"]]
  /\ cancelled' = [t \in Torrent |-> {}]
  /\ call' = [c \in Caller |-> Idle]
  /\ bus' = <<>> /\ engineDone' = TRUE
  /\ UNCHANGED <<state, cancel, meta, queue, maxActive, saved, removed>>

AutoResumed == {"downloading", "metadata", "verifying", "adding", "seeding"}

\* Engine.Start restores the records in the order the store's map yields
\* them, and counts each before deciding whether it may be started.
Started(order) ==
  LET S[k \in 0 .. Len(order)] ==
        IF k = 0 THEN {}
        ELSE LET t == order[k]
                 restored == {order[j] : j \in 1 .. k}
                 active == {u \in restored :
                              \/ saved[u].state \in {"downloading", "metadata", "verifying"}
                              \/ saved[u].state = "adding" /\ u \in S[k - 1]}
             IN  IF saved[t].state \in AutoResumed /\ Cardinality(active) < MaxActive
                 THEN S[k - 1] \cup {t} ELSE S[k - 1]
  IN  S[Len(order)]

Orders(S) == {f \in [1 .. Cardinality(S) -> S] : \A i, j \in DOMAIN f : f[i] = f[j] => i = j}

EngineStart ==
  /\ phase = "down"
  /\ \E order \in Orders(DOMAIN saved) :
       LET S == Started(order) IN
       /\ stage' = [t \in Torrent |-> [r \in Run |-> IF t \in S /\ r = 1 THEN "resolve" ELSE "none"]]
       /\ cancel' = [t \in Torrent |-> IF t \in S THEN 1 ELSE 0]
  /\ state' = [t \in Torrent |-> IF t \in DOMAIN saved THEN saved[t].state ELSE "adding"]
  /\ meta' = [t \in Torrent |-> IF t \in DOMAIN saved THEN saved[t].meta
                               ELSE IF t \in Magnet THEN "unknown" ELSE meta[t]]
  /\ queue' = SelectSeq(queue, LAMBDA t : t \in DOMAIN saved)
  /\ cancelled' = [t \in Torrent |-> {}]
  /\ phase' = "up" /\ engineDone' = FALSE /\ bus' = <<>>
  /\ maxActive' = MaxActive
  /\ UNCHANGED <<call, saved, removed>>

-----------------------------------------------------------------------------
Init ==
  /\ state = [t \in Torrent |-> "adding"]
  /\ cancel = [t \in Torrent |-> 0]
  /\ stage = [t \in Torrent |-> [r \in Run |-> "none"]]
  /\ cancelled = [t \in Torrent |-> {}]
  /\ meta \in [Torrent -> {"unknown"} \cup Known]
  /\ \A t \in Torrent : t \in Magnet <=> meta[t] = "unknown"
  /\ bus = <<>> /\ engineDone = FALSE
  /\ queue = <<>> /\ maxActive = MaxActive
  /\ call = [c \in Caller |-> Idle]
  /\ phase = "up" /\ saved = [t \in {} |-> {}]
  /\ removed = {}

CallStep(c) ==
  \/ PauseSets(c) \/ PauseEnds(c)
  \/ ResumeSets(c) \/ ResumeCounts(c) \/ ResumeStarts(c) \/ ResumeEnds(c)
  \/ RemoveEnds(c)

Next ==
  \/ \E t \in Torrent : Add(t)
  \/ \E c \in Caller, t \in Torrent : PauseBegins(c, t) \/ ResumeBegins(c, t) \/ RemoveBegins(c, t)
  \/ \E c \in Caller : CallStep(c)
  \/ \E n \in NewMaxActive : SetMaxActive(n)
  \/ \E t \in Torrent, r \in Run : RunSteps(t, r) \/ OnSessionDone(t, r)
  \/ Orchestrate \/ PeriodicSave
  \/ StopBegins \/ StopEnds \/ Crash \/ EngineStart

Spec == Init /\ [][Next]_vars

\* A run waits on the network as long as it has to, unless its context is
\* done; everything else it does is local and comes to an end.
Prompt(t, r) ==
  /\ stage[t][r] \in {"metadata", "findPeers", "download"} => CtxDone(t, r)
  /\ RunSteps(t, r) \/ OnSessionDone(t, r)

Fairness ==
  /\ \A t \in Torrent, r \in Run : WF_vars(Prompt(t, r))
  /\ \A c \in Caller : WF_vars(CallStep(c))
  /\ WF_vars(Orchestrate \/ StopEnds)

FairSpec == Spec /\ Fairness

-----------------------------------------------------------------------------
(* Properties *)

Downloading(t) ==
  \E r \in Active(t) : stage[t][r] \in {"metadata", "findPeers", "prepare", "verify", "download"}

\* Config.MaxActive, "max concurrent downloading torrents": however starts,
\* ends, pauses and removals interleave, no more than maxActive torrents have
\* a run that fetches metadata, looks for peers, verifies or downloads.
LimitRespected == Cardinality({t \in Torrent : Downloading(t)}) <= maxActive

\* isRunning guards Start, and RemoveTorrent pauses what it removes: a session never
\* has two runs that both go on, and a removed torrent has none, not even one that
\* startQueued began while the removal was under way.
OneRun == \A t \in Torrent : Cardinality(Active(t)) <= IF t \in removed THEN 0 ELSE 1

\* isRunning, one way: the run that the cancel field belongs to has not
\* returned, and nobody has cancelled it.
CancelIsLive ==
  \A t \in Torrent : cancel[t] # 0 =>
    /\ cancel[t] \notin cancelled[t]
    /\ phase # "down" => stage[t][cancel[t]] \notin {"none", "setError", "onDone"}

SlotWasted == Up /\ Queued # {} /\ activeCount < maxActive

\* A step that will look for queued sessions is due: an event that the
\* orchestrator will act on, the end of a run, or the rest of an API call.
KickDue ==
  \/ \E k \in DOMAIN bus : bus[k]
  \/ \E t \in Torrent, r \in Run : stage[t][r] \in {"exitOk", "exitErr", "setError", "onDone"}
  \/ \E c \in Caller : call[c].do \in {"setPaused", "endPause", "countActive", "start", "endRemove"}

\* "every time a torrent leaves the active queue we compact and kick the next
\* queued one": a slot is never free while a torrent is queued unless the kick
\* is already under way, as long as no event is lost (runQueueOrchestrator,
\* onSessionDone, the ends of PauseTorrent and RemoveTorrent).
NoSlotForgotten == SlotWasted => KickDue

\* Stop cancels the context and waits for every run: it returns, although
\* runs that end start queued sessions while it waits.
StopFinishes == phase = "stopping" ~> phase = "down"
=============================================================================

------------------------------- MODULE Session -------------------------------
(***************************************************************************)
(* The torrent session: engine/session.go.  A session has one record and   *)
(* one cancel function, but every Start gives it a goroutine, a run, that  *)
(* lives until it has noticed that its context is done.  Runs of the same  *)
(* session, and Pause called from outside, meet in the record's state and  *)
(* in the cancel field; each access takes s.mu and is one action.          *)
(***************************************************************************)
EXTENDS Integers, Sequences, FiniteSets

CONSTANTS
  Torrent,
  MaxRuns,      \* runs of one session alive at the same time
  BusCap        \* buffer of the queue orchestrator's subscription; 64 in the code

ASSUME SessionConstants == MaxRuns \in Nat \ {0} /\ BusCap \in Nat \ {0}

VARIABLES
  state,        \* record.State
  cancel,       \* s.cancel: the run it cancels, 0 for nil
  stage,        \* stage[t][r]: how far run r of t's session is
  cancelled,    \* cancelled[t]: the runs whose own cancel was called
  meta,         \* the torrent's metadata: not yet known, or known with a name
                \* that sanitizeTorrentName accepts or refuses
  bus,          \* StateChanged events the orchestrator has not yet read:
                \* TRUE for one that leaves the active set
  engineDone    \* the engine's context is cancelled

sessionVars == <<state, cancel, stage, cancelled, meta, bus, engineDone>>

Run == 1 .. MaxRuns

\* state[t] is one of "adding", "metadata", "verifying", "downloading", "seeding",
\* "complete", "paused", "error"; stage[t][r] of "none", "resolve", "metadata",
\* "resolved", "setDownloading", "findPeers", "check", "prepare", "verify", "download",
\* "setSeeding", "seed", "setComplete", "exitOk", "exitErr", "setError", "onDone".
Known == {"usable", "refused"}

CtxDone(t, r) == engineDone \/ r \in cancelled[t]

Live(t) == {r \in Run : stage[t][r] # "none"}

\* Runs that go on: nobody has told them to stop, and they have not returned.
Active(t) ==
  {r \in Live(t) : ~CtxDone(t, r) /\ stage[t][r] \notin {"exitOk", "exitErr", "setError", "onDone"}}

isQueueActive(s) == s \in {"adding", "downloading", "metadata", "verifying"}

\* setState: a change is published, and lost if the orchestrator's buffer is
\* full; setting the same state again does nothing.
setState(t, s) ==
  /\ state' = [state EXCEPT ![t] = s]
  /\ bus' = IF state[t] = s \/ Len(bus) >= BusCap THEN bus
            ELSE Append(bus, isQueueActive(state[t]) /\ ~isQueueActive(s))

\* A new goroutine: which number it gets does not matter.
FreeRun(runs) == CHOOSE r \in Run : runs[r] = "none"

\* Start for every session of S, with the runs at the given stages: each gets
\* a new run and forgets the cancel function of the one before.
Start(stages, S) ==
  /\ \A t \in S : \E r \in Run : stages[t][r] = "none"
  /\ stage' = [t \in Torrent |->
                 IF t \in S THEN [stages[t] EXCEPT ![FreeRun(stages[t])] = "resolve"]
                 ELSE stages[t]]
  /\ cancel' = [t \in Torrent |-> IF t \in S THEN FreeRun(stages[t]) ELSE cancel[t]]
  /\ cancelled' = [t \in Torrent |-> {r \in cancelled[t] : stages[t][r] # "none"}]

-----------------------------------------------------------------------------
(* A run: resolve, download, seed *)

Goes(t, r, from, to) ==
  /\ stage[t][r] = from
  /\ stage' = [stage EXCEPT ![t][r] = to]
  /\ UNCHANGED <<cancel, cancelled, engineDone>>

\* resolveMetadata: the record or the file has the metadata, or the swarm is asked.
Resolve(t, r) ==
  /\ IF meta[t] \in Known THEN Goes(t, r, "resolve", "resolved") /\ UNCHANGED <<state, bus>>
     ELSE Goes(t, r, "resolve", "metadata") /\ setState(t, "metadata")
  /\ UNCHANGED meta

\* The metadata is fetched, the context is done, or the link is unusable.
FetchMetadata(t, r) ==
  \/ /\ Goes(t, r, "metadata", "resolved")
     /\ \E m \in Known : meta' = [meta EXCEPT ![t] = m]
     /\ UNCHANGED <<state, bus>>
  \/ /\ \/ CtxDone(t, r) /\ Goes(t, r, "metadata", "exitOk")
        \/ Goes(t, r, "metadata", "exitErr")
     /\ UNCHANGED <<state, bus, meta>>

Resuming(t) == state[t] \in {"seeding", "complete"}

\* The rest of phaseResolve: the name is checked; a seeder keeps its state
\* and needs no peers.
AskResuming(t, r) ==
  /\ Goes(t, r, "resolved", IF meta[t] = "refused" THEN "exitErr"
                            ELSE IF Resuming(t) THEN "check" ELSE "setDownloading")
  /\ UNCHANGED <<state, bus, meta>>

EnterDownloading(t, r) ==
  /\ Goes(t, r, "setDownloading", "findPeers")
  /\ setState(t, "downloading")
  /\ UNCHANGED meta

\* findPeers returns with peers, or because the context is done.
FindPeers(t, r) ==
  /\ \/ Goes(t, r, "findPeers", "check")
     \/ CtxDone(t, r) /\ Goes(t, r, "findPeers", "exitOk")
  /\ UNCHANGED <<state, bus, meta>>

\* run looks at the state again; a seeder's file may be gone.
AskSeeding(t, r) ==
  /\ \/ Resuming(t) /\ Goes(t, r, "check", "setSeeding")
     \/ Goes(t, r, "check", "prepare")
  /\ UNCHANGED <<state, bus, meta>>

\* phaseDownload: a stored bitfield is trusted, anything else is verified.
Prepare(t, r) ==
  /\ \/ Goes(t, r, "prepare", "download") /\ setState(t, "downloading")
     \/ Goes(t, r, "prepare", "verify") /\ setState(t, "verifying")
     \/ Goes(t, r, "prepare", "exitErr") /\ UNCHANGED <<state, bus>>
  /\ UNCHANGED meta

Verify(t, r) ==
  /\ Goes(t, r, "verify", "download")
  /\ setState(t, "downloading")
  /\ UNCHANGED meta

\* DownloadWithParams, and the move out of the temporary directory.  A download
\* whose context is done may still report that its workers are gone: both
\* cases of its select are then ready.
Download(t, r) ==
  /\ \/ Goes(t, r, "download", "setSeeding")
     \/ CtxDone(t, r) /\ Goes(t, r, "download", "exitOk")
     \/ Goes(t, r, "download", "exitErr")
  /\ UNCHANGED <<state, bus, meta>>

EnterSeeding(t, r) ==
  /\ Goes(t, r, "setSeeding", "seed")
  /\ setState(t, "seeding")
  /\ UNCHANGED meta

\* Mutant: the run's context is not derived from the engine's.
SeedDetached(t, r) ==
  /\ r \in cancelled[t]
  /\ Goes(t, r, "seed", IF state[t] = "seeding" THEN "setComplete" ELSE "exitOk")
  /\ UNCHANGED <<state, bus, meta>>

\* phaseSeed blocks until the context is done, then looks at the state...
Seed(t, r) ==
  /\ CtxDone(t, r)
  /\ Goes(t, r, "seed", IF state[t] = "seeding" THEN "setComplete" ELSE "exitOk")
  /\ UNCHANGED <<state, bus, meta>>

\* ... and sets it in a second critical section.
EnterComplete(t, r) ==
  /\ Goes(t, r, "setComplete", "exitOk")
  /\ setState(t, "complete")
  /\ UNCHANGED meta

\* Mutant: a failed run returns before it clears the cancel field.
ExitKeepsCancel(t, r) ==
  /\ stage[t][r] \in {"exitOk", "exitErr"}
  /\ stage' = [stage EXCEPT ![t][r] =
                 IF @ = "exitErr" /\ state[t] # "error" THEN "setError" ELSE "onDone"]
  /\ cancel' = [cancel EXCEPT ![t] = IF stage[t][r] = "exitOk" THEN 0 ELSE @]
  /\ UNCHANGED <<state, cancelled, meta, bus, engineDone>>

\* The end of Start's goroutine: the cancel field is cleared, whoever's it is.
Exit(t, r) ==
  /\ stage[t][r] \in {"exitOk", "exitErr"}
  /\ stage' = [stage EXCEPT ![t][r] =
                 IF @ = "exitErr" /\ state[t] # "error" THEN "setError" ELSE "onDone"]
  /\ cancel' = [cancel EXCEPT ![t] = 0]
  /\ UNCHANGED <<state, cancelled, meta, bus, engineDone>>

EnterError(t, r) ==
  /\ Goes(t, r, "setError", "onDone")
  /\ setState(t, "error")
  /\ UNCHANGED meta

\* All a run does by itself, up to the call of onDone.
RunStep(t, r) ==
  \/ Resolve(t, r) \/ FetchMetadata(t, r) \/ AskResuming(t, r)
  \/ EnterDownloading(t, r) \/ FindPeers(t, r) \/ AskSeeding(t, r)
  \/ Prepare(t, r) \/ Verify(t, r) \/ Download(t, r) \/ EnterSeeding(t, r)
  \/ Seed(t, r) \/ EnterComplete(t, r) \/ Exit(t, r) \/ EnterError(t, r)

-----------------------------------------------------------------------------
\* Mutant: the cancel function is dropped and not called.
CancelRunForgets(t) ==
  /\ cancelled' = cancelled
  /\ cancel' = [cancel EXCEPT ![t] = 0]

\* The first half of Pause: the run it knows of is cancelled.
CancelRun(t) ==
  /\ cancelled' = [cancelled EXCEPT ![t] = @ \cup ({cancel[t]} \ {0})]
  /\ cancel' = [cancel EXCEPT ![t] = 0]

Pausable(t) == isQueueActive(state[t]) \/ state[t] = "seeding"

=============================================================================

---------------------------- MODULE EngineProofs ----------------------------
(***************************************************************************)
(* A proof about Engine and Session, for any number of torrents, calls,    *)
(* runs and events, any limit, and any of the operations: the cancel field *)
(* of a session always belongs to a run that goes on.                      *)
(***************************************************************************)
EXTENDS Engine, TLAPS

Returned == {"none", "setError", "onDone"}

Shaped ==
  /\ DOMAIN stage = Torrent /\ \A t \in Torrent : DOMAIN stage[t] = Run
  /\ DOMAIN cancel = Torrent /\ \A t \in Torrent : cancel[t] \in Run \cup {0}
  /\ DOMAIN cancelled = Torrent

IInv == Shaped /\ CancelIsLive

LEMMA EngineInit == Init => IInv
  BY DEF Init, IInv, Shaped, CancelIsLive

\* A step after which every cancel field is nil or belongs to a run that goes on.
LEMMA StepKeeps ==
  ASSUME IInv, Shaped',
         \A t \in Torrent : \/ cancel'[t] = 0
                            \/ /\ cancel'[t] \notin cancelled'[t]
                               /\ phase' # "down" => stage'[t][cancel'[t]] \notin Returned
  PROVE  IInv'
  BY DEF IInv, CancelIsLive, Returned

\* Start: the new run has a context of its own.  The stages are those of the state, or
\* a run that had returned has ended.
LEMMA StartKeeps ==
  ASSUME IInv, NEW stages, NEW S, Start(stages, S), phase' = phase,
         DOMAIN stages = Torrent, \A t \in Torrent : DOMAIN stages[t] = Run,
         \A t \in Torrent : \A r \in Run : stage[t][r] \in Returned \/ stages[t][r] = stage[t][r]
  PROVE  IInv'
  <1>1. \A t \in S : FreeRun(stages[t]) \in Run /\ stages[t][FreeRun(stages[t])] = "none"
    BY DEF Start, FreeRun
  <1>2. ASSUME NEW t \in Torrent, t \in S
        PROVE  /\ cancel'[t] \in Run /\ DOMAIN stage'[t] = Run
               /\ stage'[t][cancel'[t]] = "resolve" /\ cancel'[t] \notin cancelled'[t]
    <2> DEFINE f == FreeRun(stages[t])
    <2>1. cancel'[t] = f /\ stage'[t] = [stages[t] EXCEPT ![f] = "resolve"]
      BY <1>2 DEF Start
    <2>2. cancelled'[t] = {r \in cancelled[t] : stages[t][r] # "none"}
      BY DEF Start
    <2>3. f \in Run /\ stages[t][f] = "none"
      BY <1>1, <1>2
    <2> HIDE DEF f
    <2> QED  BY <2>1, <2>2, <2>3
  <1>3. ASSUME NEW t \in Torrent, t \notin S
        PROVE  /\ cancel'[t] = cancel[t] /\ stage'[t] = stages[t]
               /\ cancelled'[t] \subseteq cancelled[t]
    BY <1>3 DEF Start
  <1>4. Shaped'
    BY <1>2, <1>3 DEF IInv, Shaped, Start
  <1>5. ASSUME NEW t \in Torrent
        PROVE  \/ cancel'[t] = 0
               \/ /\ cancel'[t] \notin cancelled'[t]
                  /\ phase' # "down" => stage'[t][cancel'[t]] \notin Returned
    <2>1. CASE t \in S
      BY <1>2, <2>1 DEF Returned
    <2>2. CASE t \notin S
      BY <1>3, <2>2 DEF IInv, CancelIsLive, Shaped, Returned
    <2> QED  BY <2>1, <2>2
  <1> QED  BY <1>4, <1>5, StepKeeps

\* Start from the present stages, as all but onSessionDone do.
LEMMA QueueKeeps ==
  ASSUME IInv, NEW S, Start(stage, S), phase' = phase
  PROVE  IInv'
  BY StartKeeps DEF IInv, Shaped

\* Pause and RemoveTorrent: the run is cancelled and the field forgotten.
LEMMA CancelKeeps ==
  ASSUME IInv, NEW t \in Torrent, CancelRun(t), UNCHANGED stage, phase' = phase
  PROVE  IInv'
  <1>1. /\ cancel'[t] = 0
        /\ \A u \in Torrent : u # t => cancel'[u] = cancel[u] /\ cancelled'[u] = cancelled[u]
    BY DEF CancelRun, IInv, Shaped
  <1>2. Shaped'
    BY <1>1 DEF CancelRun, IInv, Shaped
  <1> QED  BY <1>1, <1>2, StepKeeps DEF IInv, CancelIsLive, Returned

\* A run moves on without returning, or had returned before.
LEMMA GoesKeeps ==
  ASSUME IInv, NEW t \in Torrent, NEW r \in Run, NEW from, NEW to, Goes(t, r, from, to),
         from \in Returned \/ to \notin Returned, phase' = phase
  PROVE  IInv'
  <1>1. \A u \in Torrent : /\ DOMAIN stage'[u] = Run
                           /\ \A q \in Run : stage'[u][q] = IF u = t /\ q = r THEN to ELSE stage[u][q]
    BY DEF Goes, IInv, Shaped
  <1>2. Shaped'
    BY <1>1 DEF Goes, IInv, Shaped
  <1> QED  BY <1>1, <1>2, StepKeeps DEF Goes, IInv, Shaped, CancelIsLive, Returned

LEMMA RunKeeps ==
  ASSUME IInv, NEW t \in Torrent, NEW r \in Run, RunStep(t, r), phase' = phase
  PROVE  IInv'
  <1> USE DEF Returned
  <1>1. CASE Resolve(t, r)
    BY <1>1, GoesKeeps DEF Resolve
  <1>2. CASE FetchMetadata(t, r)
    BY <1>2, GoesKeeps DEF FetchMetadata
  <1>3. CASE AskResuming(t, r)
    BY <1>3, GoesKeeps DEF AskResuming
  <1>4. CASE EnterDownloading(t, r) \/ FindPeers(t, r)
    BY <1>4, GoesKeeps DEF EnterDownloading, FindPeers
  <1>5. CASE AskSeeding(t, r) \/ Prepare(t, r) \/ Verify(t, r)
    BY <1>5, GoesKeeps DEF AskSeeding, Prepare, Verify
  <1>6. CASE Download(t, r) \/ EnterSeeding(t, r)
    BY <1>6, GoesKeeps DEF Download, EnterSeeding
  <1>7. CASE Seed(t, r) \/ EnterComplete(t, r) \/ EnterError(t, r)
    BY <1>7, GoesKeeps DEF Seed, EnterComplete, EnterError
  <1>8. CASE Exit(t, r)
    <2>1. \A u \in Torrent : DOMAIN stage'[u] = Run /\ (u # t => stage'[u] = stage[u])
      BY <1>8 DEF Exit, IInv, Shaped
    <2>2. /\ cancel'[t] = 0 /\ cancelled' = cancelled
          /\ \A u \in Torrent : u # t => cancel'[u] = cancel[u]
      BY <1>8 DEF Exit, IInv, Shaped
    <2>3. Shaped'
      BY <1>8, <2>1, <2>2 DEF Exit, IInv, Shaped
    <2> QED  BY <2>1, <2>2, <2>3, StepKeeps DEF IInv, CancelIsLive
  <1> QED  BY <1>1, <1>2, <1>3, <1>4, <1>5, <1>6, <1>7, <1>8 DEF RunStep

LEMMA EngineNext == IInv /\ [Next]_vars => IInv'
  <1> SUFFICES ASSUME IInv, [Next]_vars PROVE IInv'
    OBVIOUS
  <1>s. ASSUME UNCHANGED <<stage, cancel, cancelled>>, phase' = phase \/ phase' = "down" \/ phase = "up"
        PROVE  IInv'
    BY <1>s DEF IInv, Shaped, CancelIsLive
  <1>1. CASE UNCHANGED vars
    BY <1>1, <1>s DEF vars, sessionVars, engineVars
  <1>2. ASSUME NEW t \in Torrent, Add(t) PROVE IInv'
    BY <1>2, QueueKeeps DEF Add, startQueuedLocked
  <1>3. ASSUME NEW c \in Caller, NEW t \in Torrent,
               PauseBegins(c, t) \/ ResumeBegins(c, t) \/ RemoveBegins(c, t)
        PROVE  IInv'
    BY <1>3, <1>s, CancelKeeps DEF PauseBegins, ResumeBegins, RemoveBegins, Calls
  <1>4. ASSUME NEW c \in Caller, CallStep(c) PROVE IInv'
    <2>1. CASE PauseSets(c) \/ ResumeSets(c) \/ ResumeCounts(c) \/ ResumeEnds(c)
      BY <2>1, <1>s DEF PauseSets, ResumeSets, ResumeCounts, ResumeEnds, Calls
    <2>2. CASE PauseEnds(c) \/ RemoveEnds(c) \/ ResumeStarts(c)
      BY <2>2, QueueKeeps DEF PauseEnds, RemoveEnds, ResumeStarts, Calls, startQueued, startQueuedLocked
    <2> QED  BY <1>4, <2>1, <2>2 DEF CallStep
  <1>5. ASSUME NEW n \in NewMaxActive, SetMaxActive(n) PROVE IInv'
    BY <1>5, QueueKeeps DEF SetMaxActive, startQueuedLocked
  <1>6. ASSUME NEW t \in Torrent, NEW r \in Run, RunSteps(t, r) PROVE IInv'
    BY <1>6, RunKeeps DEF RunSteps, engineVars
  <1>7. ASSUME NEW t \in Torrent, NEW r \in Run, OnSessionDone(t, r) PROVE IInv'
    <2> DEFINE stages == [stage EXCEPT ![t][r] = "none"]
    <2>1. /\ DOMAIN stages = Torrent /\ \A u \in Torrent : DOMAIN stages[u] = Run
          /\ \A u \in Torrent : \A q \in Run : stage[u][q] \in Returned \/ stages[u][q] = stage[u][q]
      BY <1>7 DEF OnSessionDone, IInv, Shaped, Returned
    <2>2. PICK S : Start(stages, S)
      BY <1>7 DEF OnSessionDone, startQueued, startQueuedLocked
    <2>3. phase' = phase
      BY <1>7 DEF OnSessionDone
    <2> HIDE DEF stages
    <2> QED  BY <2>1, <2>2, <2>3, StartKeeps
  <1>8. CASE Orchestrate
    BY <1>8, <1>s, QueueKeeps DEF Orchestrate, startQueued, startQueuedLocked
  <1>9. CASE PeriodicSave \/ StopBegins \/ StopEnds
    BY <1>9, <1>s DEF PeriodicSave, StopBegins, StopEnds, Up, sessionVars
  <1>10. CASE Crash
    BY <1>10, StepKeeps DEF Crash, IInv, Shaped
  <1>11. CASE EngineStart
    <2>1. 1 \in Run
      BY SessionConstants DEF Run
    <2>2. PICK S : /\ stage' = [t \in Torrent |-> [r \in Run |-> IF t \in S /\ r = 1 THEN "resolve" ELSE "none"]]
                   /\ cancel' = [t \in Torrent |-> IF t \in S THEN 1 ELSE 0]
      BY <1>11 DEF EngineStart
    <2>3. cancelled' = [t \in Torrent |-> {}]
      BY <1>11 DEF EngineStart
    <2>4. Shaped'
      BY <2>1, <2>2, <2>3 DEF Shaped
    <2> QED  BY <2>1, <2>2, <2>3, <2>4, StepKeeps DEF Returned
  <1> QED
    BY <1>1, <1>2, <1>3, <1>4, <1>5, <1>6, <1>7, <1>8, <1>9, <1>10, <1>11 DEF Next

\* Start and isRunning (session.go:310-315,474-503): whatever calls, runs and crashes
\* interleave, a cancel function that the session still holds is that of a run
\* which nobody has cancelled and which has not returned.
THEOREM RunningIsRunning == Spec => []CancelIsLive
  <1>1. IInv => CancelIsLive
    BY DEF IInv
  <1> QED  BY <1>1, EngineInit, EngineNext, PTL DEF Spec
=============================================================================

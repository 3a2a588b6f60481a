-------------------------------- MODULE Store --------------------------------
(***************************************************************************)
(* Persistence: engine/store.go and the engine calls that save.  Several   *)
(* goroutines save at once: saveState holds e.mu shared while it copies    *)
(* every session's record into the store and writes the file, AddTorrent   *)
(* holds it exclusively, RemoveTorrent saves after it has released it.     *)
(*                                                                         *)
(* Every change of a torrent's record is a version; a removal is one too,  *)
(* so a map without the torrent shows the version of its removal.          *)
(***************************************************************************)
EXTENDS Integers, FiniteSets

CONSTANTS
  Torrent,
  Proc,         \* goroutines that call the engine
  MaxVersion,   \* changes in a behaviour
  Ops           \* the calls and failures a model includes

ASSUME StoreConstants ==
  /\ MaxVersion \in Nat
  /\ Ops \subseteq {"add", "remove", "change", "crash"}

VARIABLES
  live,         \* live[t]: the version in e.sessions
  records,      \* the version in store.records
  disk,         \* the version in the state file
  removals,     \* the versions that are removals; 0 is "never added"
  last,         \* the last version made
  proc,         \* proc[p]: where p's call is and what it has read
  acked,        \* acked[t]: the newest version of a call that has returned
  up

vars == <<live, records, disk, removals, last, proc, acked, up>>

Versions == [Torrent -> 0 .. MaxVersion]

\* at: "rlock" wants e.mu shared, "put" copies records, "snapshot" and "write"
\* are Save; lock: how e.mu is held; todo: sessions still to be copied; read:
\* Record() of one of them, not yet Put; snap: what Save marshalled; t, v: the
\* change to be acknowledged.
Idle == [at |-> "idle", lock |-> "none", todo |-> {}, read |-> <<>>, snap |-> <<>>, ack |-> <<>>]

Locked(how) == \E p \in Proc : proc[p].lock = how

Sessions(versions) == {t \in Torrent : versions[t] \notin removals}

At(p, stage) == up /\ proc[p].at = stage

Stays == UNCHANGED <<last, removals, acked, up>>

-----------------------------------------------------------------------------
\* Mutant: the lock is released before the records are copied.
SaveStateUnlocked(p) ==
  /\ At(p, "rlock") /\ ~Locked("exclusive")
  /\ proc' = [proc EXCEPT ![p].at = "put", ![p].todo = Sessions(live)]
  /\ UNCHANGED <<live, records, disk>> /\ Stays

\* saveState takes e.mu shared: any number of savers, no writer.
SaveState(p) ==
  /\ At(p, "rlock") /\ ~Locked("exclusive")
  /\ proc' = [proc EXCEPT ![p].at = "put", ![p].lock = "shared", ![p].todo = Sessions(live)]
  /\ UNCHANGED <<live, records, disk>> /\ Stays

\* saveStateLocked, for one session: Record copies...
ReadRecord(p, t) ==
  /\ At(p, "put") /\ proc[p].read = <<>> /\ t \in proc[p].todo
  /\ proc' = [proc EXCEPT ![p].read = <<t, live[t]>>, ![p].todo = @ \ {t}]
  /\ UNCHANGED <<live, records, disk>> /\ Stays

\* ... and Put stores the copy.
Put(p) ==
  /\ At(p, "put") /\ proc[p].read # <<>>
  /\ records' = [records EXCEPT ![proc[p].read[1]] = proc[p].read[2]]
  /\ proc' = [proc EXCEPT ![p].read = <<>>]
  /\ UNCHANGED <<live, disk>> /\ Stays

\* Save marshals the records under s.mu...
Snapshot(p) ==
  /\ \/ At(p, "put") /\ proc[p].todo = {} /\ proc[p].read = <<>>
     \/ At(p, "snapshot")
  /\ proc' = [proc EXCEPT ![p].at = "write", ![p].snap = records]
  /\ UNCHANGED <<live, records, disk>> /\ Stays

\* ... and writes them under saveMu: a temporary file, then a rename, so the
\* file is the old or the new one.  The call releases e.mu and returns.
WriteFile(p) ==
  /\ At(p, "write")
  /\ disk' = proc[p].snap
  /\ acked' = IF proc[p].ack = <<>> THEN acked
              ELSE [acked EXCEPT ![proc[p].ack[1]] =
                      IF @ < proc[p].ack[2] THEN proc[p].ack[2] ELSE @]
  /\ proc' = [proc EXCEPT ![p] = Idle]
  /\ UNCHANGED <<live, records, last, removals, up>>

-----------------------------------------------------------------------------
\* A call makes the next version of t.
Changes(p, t) ==
  /\ At(p, "idle") /\ last < MaxVersion
  /\ last' = last + 1
  /\ live' = [live EXCEPT ![t] = last']
  /\ UNCHANGED <<disk, acked, up>>

\* Mutant: AddTorrent saves after it has released e.mu.
AddTorrentEarlyUnlock(p, t) ==
  /\ "add" \in Ops /\ t \notin Sessions(live)
  /\ ~Locked("shared") /\ ~Locked("exclusive")
  /\ Changes(p, t)
  /\ records' = [records EXCEPT ![t] = last']
  /\ proc' = [proc EXCEPT ![p].at = "snapshot", ![p].ack = <<t, last'>>]
  /\ UNCHANGED removals

\* AddTorrent: e.mu is held exclusively until the file is written.
AddTorrent(p, t) ==
  /\ "add" \in Ops /\ t \notin Sessions(live)
  /\ ~Locked("shared") /\ ~Locked("exclusive")
  /\ Changes(p, t)
  /\ proc' = [proc EXCEPT ![p].at = "put", ![p].lock = "exclusive",
                          ![p].todo = Sessions(live) \cup {t}, ![p].ack = <<t, last'>>]
  /\ UNCHANGED <<records, removals>>

\* RemoveTorrent: session and record go under e.mu, Save comes after it.
RemoveTorrent(p, t) ==
  /\ "remove" \in Ops /\ t \in Sessions(live)
  /\ ~Locked("shared") /\ ~Locked("exclusive")
  /\ Changes(p, t)
  /\ records' = [records EXCEPT ![t] = last']
  /\ removals' = removals \cup {last'}
  /\ proc' = [proc EXCEPT ![p].at = "snapshot", ![p].ack = <<t, last'>>]

\* SetFilePriority: the session's record changes under s.mu, then saveState.
SetFilePriority(p, t) ==
  /\ "change" \in Ops /\ t \in Sessions(live) /\ ~Locked("exclusive")
  /\ Changes(p, t)
  /\ proc' = [proc EXCEPT ![p].at = "rlock", ![p].ack = <<t, last'>>]
  /\ UNCHANGED <<records, removals>>

\* Mutant: the ticker calls store.Save and leaves the sessions alone.
TickSavesStore(p) ==
  /\ At(p, "idle")
  /\ proc' = [proc EXCEPT ![p].at = "snapshot"]
  /\ UNCHANGED <<live, records, disk>> /\ Stays

\* The save ticker, a session's end, a pause or a resume.
Tick(p) ==
  /\ At(p, "idle")
  /\ proc' = [proc EXCEPT ![p].at = "rlock"]
  /\ UNCHANGED <<live, records, disk>> /\ Stays

Crash ==
  /\ "crash" \in Ops /\ up
  /\ up' = FALSE
  /\ proc' = [p \in Proc |-> Idle]
  /\ UNCHANGED <<live, records, disk, removals, last, acked>>

\* Load, and Engine.Start makes a session of every record.
Load ==
  /\ ~up /\ up' = TRUE
  /\ records' = disk /\ live' = disk
  /\ acked' = disk
  /\ UNCHANGED <<disk, removals, last, proc>>

-----------------------------------------------------------------------------
Init ==
  /\ live = [t \in Torrent |-> 0] /\ records = live /\ disk = live /\ acked = live
  /\ removals = {0} /\ last = 0
  /\ proc = [p \in Proc |-> Idle]
  /\ up = TRUE

Saving(p) ==
  \/ SaveState(p) \/ Put(p) \/ Snapshot(p) \/ WriteFile(p)
  \/ \E t \in Torrent : ReadRecord(p, t)

Calling(p) ==
  \E t \in Torrent : AddTorrent(p, t) \/ RemoveTorrent(p, t) \/ SetFilePriority(p, t)

Next == (\E p \in Proc : Saving(p) \/ Calling(p) \/ Tick(p)) \/ Crash \/ Load

Spec == Init /\ [][Next]_vars

\* A save that has begun comes to its end, and the ticker keeps ticking.
Fairness == \A p \in Proc : WF_vars(Saving(p)) /\ WF_vars(Tick(p))

FairSpec == Spec /\ Fairness

-----------------------------------------------------------------------------
\* RemoveTorrent and saveState: no save that was under way when a torrent was
\* removed puts its record back into the store, or misses the removal.
NoGhost == up => \A t \in Torrent : live[t] \in removals => records[t] = live[t]

\* AddTorrent keeps e.mu until the file is written: as long as nothing is
\* removed, no overlapping save takes a torrent whose addition has returned out
\* of the state file again.
AddedSurvives == removals = {0} => \A t \in Torrent : acked[t] > 0 => disk[t] > 0

\* The periodic save repairs what overlapping saves got wrong: what a call has
\* acknowledged is on disk in the end, unless the process dies before.
SavedInTheEnd ==
  \A t \in Torrent : \A v \in 1 .. MaxVersion : acked[t] = v ~> v <= disk[t] \/ ~up
=============================================================================

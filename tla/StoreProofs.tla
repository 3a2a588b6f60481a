----------------------------- MODULE StoreProofs -----------------------------
(***************************************************************************)
(* Proofs about Store, for any number of torrents, calls and versions: no  *)
(* save brings a removed torrent back into the store, and while nothing is *)
(* removed an addition that has returned stays in the state file.          *)
(***************************************************************************)
EXTENDS Store, TLAPS

Version == 0 .. MaxVersion

\* The record of a call.
Call ==
  [at : {"idle", "rlock", "put", "snapshot", "write"}, lock : {"none", "shared", "exclusive"},
   todo : SUBSET Torrent, read : {<<>>} \cup (Torrent \X Version),
   snap : {<<>>} \cup Versions, ack : {<<>>} \cup (Torrent \X Version)]

\* Types; no version is newer than the last one made.
Types ==
  /\ live \in Versions /\ records \in Versions /\ disk \in Versions /\ acked \in Versions
  /\ last \in Version /\ removals \subseteq 0 .. last /\ up \in BOOLEAN
  /\ proc \in [Proc -> Call]
  /\ \A p \in Proc : proc[p].at = "write" => proc[p].snap \in Versions
  /\ \A t \in Torrent : live[t] <= last /\ disk[t] <= last
  /\ \A p \in Proc : proc[p].at = "write" => \A t \in Torrent : proc[p].snap[t] <= last
  /\ \A t \in Torrent : records[t] <= last
  /\ \A p \in Proc : proc[p].read # <<>> => proc[p].read[2] <= last

\* e.mu: who copies records holds it, and nobody else while it is held exclusively.
Locking ==
  /\ \A p \in Proc : /\ proc[p].at = "put" => proc[p].lock # "none"
                     /\ proc[p].lock # "none" => proc[p].at \in {"put", "write"}
                     /\ proc[p].at # "put" => proc[p].read = <<>> /\ proc[p].todo = {}
                     /\ ~up => proc[p].at = "idle"
  /\ \A p, q \in Proc : p # q /\ proc[p].lock = "exclusive" => proc[q].lock = "none"

\* What is being copied is not removed meanwhile.
CopiesLive ==
  \A p \in Proc : /\ \A t \in proc[p].todo : live[t] \notin removals
                  /\ proc[p].read # <<>> => live[proc[p].read[1]] \notin removals

IInv == Types /\ Locking /\ CopiesLive /\ NoGhost

USE StoreConstants

LEMMA IdleCall ==
  /\ Idle \in Call /\ Idle.at = "idle" /\ Idle.lock = "none"
  /\ Idle.todo = {} /\ Idle.read = <<>> /\ Idle.ack = <<>>
  BY DEF Idle, Call

\* The steps of a call keep its type.
LEMMA CallSteps ==
  ASSUME NEW c \in Call
  PROVE  /\ \A S \in SUBSET Torrent : [c EXCEPT !.at = "put", !.lock = "shared", !.todo = S] \in Call
         /\ \A r \in Versions : [c EXCEPT !.at = "write", !.snap = r] \in Call
         /\ \A S \in SUBSET Torrent, a \in Torrent \X Version :
              [c EXCEPT !.at = "put", !.lock = "exclusive", !.todo = S, !.ack = a] \in Call
         /\ \A a \in Torrent \X Version : /\ [c EXCEPT !.at = "snapshot", !.ack = a] \in Call
                                          /\ [c EXCEPT !.at = "rlock", !.ack = a] \in Call
         /\ [c EXCEPT !.at = "rlock"] \in Call
  <1>1. \A S \in SUBSET Torrent : [c EXCEPT !.at = "put", !.lock = "shared", !.todo = S] \in Call
    BY DEF Call
  <1>2. \A r \in Versions : [c EXCEPT !.at = "write", !.snap = r] \in Call
    BY DEF Call
  <1>3. \A S \in SUBSET Torrent, a \in Torrent \X Version :
          [c EXCEPT !.at = "put", !.lock = "exclusive", !.todo = S, !.ack = a] \in Call
    BY DEF Call
  <1>4. \A a \in Torrent \X Version : /\ [c EXCEPT !.at = "snapshot", !.ack = a] \in Call
                                     /\ [c EXCEPT !.at = "rlock", !.ack = a] \in Call
    BY DEF Call
  <1>5. [c EXCEPT !.at = "rlock"] \in Call
    BY DEF Call
  <1> QED  BY <1>1, <1>2, <1>3, <1>4, <1>5

LEMMA StoreInit == Init => IInv
  <1> SUFFICES ASSUME Init PROVE IInv
    OBVIOUS
  <1>1. Types
    BY IdleCall DEF Init, Types, Version, Versions
  <1>2. Locking /\ CopiesLive /\ NoGhost
    BY IdleCall DEF Init, Locking, CopiesLive, NoGhost
  <1> QED  BY <1>1, <1>2 DEF IInv

\* A save never disturbs the invariant: it copies what the lock keeps from being removed.
LEMMA SavingKeeps ==
  ASSUME IInv, NEW p \in Proc, Saving(p) PROVE IInv'
  <1> USE DEF IInv, At, Stays
  <1>1. CASE SaveState(p)
    <2>0. proc' \in [Proc -> Call] /\ \A q \in Proc : /\ proc'[q].snap = proc[q].snap
                                                    /\ proc'[q].read = proc[q].read
                                                    /\ proc'[q].at = "write" => proc[q].at = "write"
      <3>1. [proc[p] EXCEPT !.at = "put", !.lock = "shared", !.todo = Sessions(live)] \in Call
        BY CallSteps DEF Types, Sessions
      <3> QED  BY <1>1, <3>1 DEF SaveState, Types
    <2>1. Types'
      BY <1>1, <2>0 DEF SaveState, Types
    <2>2. Locking'
      BY <1>1 DEF SaveState, Types, Call, Locking, Locked
    <2>3. CopiesLive' /\ NoGhost'
      BY <1>1 DEF SaveState, Types, Call, CopiesLive, NoGhost, Sessions
    <2> QED  BY <2>1, <2>2, <2>3
  <1>2. CASE \E t \in Torrent : ReadRecord(p, t)
    <2> PICK t \in Torrent : ReadRecord(p, t)
      BY <1>2
    <2>0. proc' \in [Proc -> Call] /\ \A q \in Proc : /\ proc'[q].snap = proc[q].snap
                                                    /\ proc'[q].at = proc[q].at
                                                    /\ q # p => proc'[q].read = proc[q].read
      BY DEF ReadRecord, Types, Call, Versions, Version
    <2>1. Types'
      BY <2>0 DEF ReadRecord, Types
    <2>2. Locking'
      BY DEF ReadRecord, Types, Call, Locking
    <2>3. CopiesLive' /\ NoGhost'
      BY DEF ReadRecord, Types, Call, CopiesLive, NoGhost
    <2> QED  BY <2>1, <2>2, <2>3
  <1>3. CASE Put(p)
    <2>1. proc[p].read \in Torrent \X Version
      BY <1>3 DEF Put, Types, Call
    <2>a. proc' \in [Proc -> Call] /\ \A q \in Proc : /\ proc'[q].snap = proc[q].snap
                                                    /\ proc'[q].at = proc[q].at
                                                    /\ proc'[q].read # <<>> => proc'[q].read = proc[q].read
      <3>1. [proc[p] EXCEPT !.read = <<>>] \in Call
        BY DEF Types, Call
      <3> QED  BY <1>3, <3>1 DEF Put, Types
    <2>b. records' \in Versions /\ \A t \in Torrent : records'[t] <= last
      BY <1>3, <2>1 DEF Put, Types, Versions, Version
    <2>2. Types'
      BY <1>3, <2>a, <2>b DEF Put, Types
    <2>3. Locking'
      BY <1>3 DEF Put, Types, Call, Locking
    <2>4. CopiesLive' /\ NoGhost'
      BY <1>3, <2>1 DEF Put, Types, Call, CopiesLive, NoGhost, Versions
    <2> QED  BY <2>2, <2>3, <2>4
  <1>4. CASE Snapshot(p)
    <2>0. proc' \in [Proc -> Call] /\ \A q \in Proc : /\ proc'[q].read = proc[q].read
                                                    /\ q # p => proc'[q] = proc[q]
          /\ proc'[p].snap = records
      <3>1. [proc[p] EXCEPT !.at = "write", !.snap = records] \in Call
        BY CallSteps DEF Types
      <3> QED  BY <1>4, <3>1 DEF Snapshot, Types
    <2>1. Types'
      BY <1>4, <2>0 DEF Snapshot, Types
    <2>2. Locking'
      BY <1>4 DEF Snapshot, Types, Call, Locking
    <2>3. CopiesLive' /\ NoGhost'
      BY <1>4 DEF Snapshot, Types, Call, CopiesLive, NoGhost
    <2> QED  BY <2>1, <2>2, <2>3
  <1>5. CASE WriteFile(p)
    <2>1. proc' \in [Proc -> Call] /\ \A q \in Proc : proc'[q] = IF q = p THEN Idle ELSE proc[q]
      BY <1>5, IdleCall DEF WriteFile, Types
    <2>2. acked' \in Versions
      <3>1. CASE proc[p].ack = <<>>
        BY <1>5, <3>1 DEF WriteFile, Types
      <3>2. CASE proc[p].ack # <<>>
        <4>1. proc[p].ack \in Torrent \X Version
          BY <3>2 DEF Types, Call
        <4> QED  BY <1>5, <3>2, <4>1 DEF WriteFile, Types, Versions, Version
      <3> QED  BY <3>1, <3>2
    <2>3. Types'
      BY <1>5, <2>1, <2>2, IdleCall DEF WriteFile, Types
    <2>4. Locking'
      BY <1>5, <2>1, IdleCall DEF WriteFile, Locking
    <2>5. CopiesLive' /\ NoGhost'
      BY <1>5, <2>1, IdleCall DEF WriteFile, CopiesLive, NoGhost
    <2> QED  BY <2>3, <2>4, <2>5
  <1> QED  BY <1>1, <1>2, <1>3, <1>4, <1>5 DEF Saving

\* A call that changes a torrent makes a version nobody has seen; while somebody copies
\* records, e.mu keeps additions and removals out.
LEMMA CallingKeeps ==
  ASSUME IInv, NEW p \in Proc, NEW t \in Torrent,
         AddTorrent(p, t) \/ RemoveTorrent(p, t) \/ SetFilePriority(p, t)
  PROVE  IInv'
  <1> USE DEF IInv, At
  <1>1. /\ last' = last + 1 /\ last' \in Version /\ last' \notin removals
        /\ live' = [live EXCEPT ![t] = last'] /\ live' \in Versions
        /\ \A u \in Torrent : live'[u] <= last' /\ live[u] <= last
        /\ <<t, last'>> \in Torrent \X Version
        /\ UNCHANGED <<disk, acked, up>> /\ up /\ proc[p].at = "idle"
    <2>1. Changes(p, t)
      BY DEF AddTorrent, RemoveTorrent, SetFilePriority
    <2>2. last' = last + 1 /\ last \in Nat /\ last' \in Version
      BY <2>1 DEF Changes, Types, Version
    <2>3. last' \notin removals
      BY <2>2 DEF Types
    <2>4. live' = [live EXCEPT ![t] = last'] /\ live' \in Versions
      BY <2>1, <2>2 DEF Changes, Types, Versions, Version
    <2>5. \A u \in Torrent : live'[u] <= last' /\ live[u] <= last
      BY <2>2, <2>4 DEF Types, Versions
    <2> QED  BY <2>1, <2>2, <2>3, <2>4, <2>5 DEF Changes
  <1>a. /\ removals \subseteq 0 .. last'
        /\ \A u \in Torrent : disk[u] <= last' /\ records[u] <= last'
        /\ \A q \in Proc : proc[q].at = "write" => \A u \in Torrent : proc[q].snap[u] <= last'
        /\ \A q \in Proc : proc[q].read # <<>> => proc[q].read[2] <= last'
    <2>1. last \in Nat /\ last' = last + 1
      BY <1>1 DEF Types, Version
    <2>2. \A u \in Torrent : disk[u] <= last' /\ records[u] <= last'
      BY <2>1 DEF Types, Versions
    <2>3. \A q \in Proc : proc[q].at = "write" => \A u \in Torrent : proc[q].snap[u] <= last'
      BY <2>1 DEF Types, Versions
    <2>4. ASSUME NEW q \in Proc, proc[q].read # <<>> PROVE proc[q].read[2] <= last'
      <3>1. proc[q].read \in Torrent \X Version
        BY <2>4 DEF Types, Call
      <3> QED  BY <2>1, <2>4, <3>1 DEF Types, Version
    <2> QED  BY <2>1, <2>2, <2>3, <2>4 DEF Types
  <1>2. /\ proc[p] \in Call /\ proc[p].lock = "none" /\ proc[p].read = <<>> /\ proc[p].todo = {}
    BY <1>1 DEF Types, Locking, Call
  <1>3. CASE AddTorrent(p, t)
    <2>1. \A q \in Proc : proc[q].lock = "none"
      BY <1>3 DEF AddTorrent, Locked, Types, Call
    <2>2. [proc[p] EXCEPT !.at = "put", !.lock = "exclusive", !.todo = Sessions(live) \cup {t}, !.ack = <<t, last'>>]
            \in Call
      <3>1. Sessions(live) \cup {t} \in SUBSET Torrent
        BY DEF Sessions
      <3> QED  BY <1>1, <1>2, <3>1, CallSteps
    <2>3. /\ proc' \in [Proc -> Call]
          /\ proc'[p].at = "put" /\ proc'[p].lock = "exclusive" /\ proc'[p].read = <<>>
          /\ proc'[p].todo = Sessions(live) \cup {t}
          /\ \A q \in Proc : q # p => proc'[q] = proc[q]
      BY <1>1, <1>2, <1>3, <2>2 DEF AddTorrent, Types, Call
    <2>4. Types'
      BY <1>1, <1>a, <1>3, <2>3 DEF AddTorrent, Types
    <2>5. Locking'
      BY <1>1, <2>1, <2>3 DEF Locking
    <2>a. \A u \in Torrent : live'[u] = IF u = t THEN last' ELSE live[u]
      BY <1>1 DEF Types, Versions
    <2>b. \A q \in Proc : q # p => proc'[q].todo = {} /\ proc'[q].read = <<>>
      BY <2>1, <2>3 DEF Locking
    <2>6. CopiesLive'
      <3>1. removals' = removals
        BY <1>3 DEF AddTorrent
      <3>2. \A u \in Sessions(live) \cup {t} : live'[u] \notin removals
        BY <1>1, <2>a DEF Sessions
      <3>3. \A q \in Proc : \A u \in proc'[q].todo : live'[u] \notin removals'
        BY <2>3, <2>b, <3>1, <3>2
      <3>4. \A q \in Proc : proc'[q].read = <<>>
        BY <2>3, <2>b
      <3> QED  BY <3>3, <3>4 DEF CopiesLive
    <2>7. NoGhost'
      BY <1>1, <1>3, <2>a DEF AddTorrent, NoGhost
    <2> QED  BY <2>4, <2>5, <2>6, <2>7
  <1>4. CASE RemoveTorrent(p, t)
    <2>1. \A q \in Proc : proc[q].lock = "none"
      BY <1>4 DEF RemoveTorrent, Locked, Types, Call
    <2>2. [proc[p] EXCEPT !.at = "snapshot", !.ack = <<t, last'>>] \in Call
      BY <1>1, <1>2, CallSteps
    <2>3. /\ proc' \in [Proc -> Call]
          /\ proc'[p].at = "snapshot" /\ proc'[p].lock = "none" /\ proc'[p].read = <<>> /\ proc'[p].todo = {}
          /\ \A q \in Proc : q # p => proc'[q] = proc[q]
      BY <1>2, <1>4, <2>2 DEF RemoveTorrent, Types, Call
    <2>a. /\ records' \in Versions /\ \A u \in Torrent : records'[u] <= last'
          /\ removals' \subseteq 0 .. last' /\ disk' = disk /\ acked' = acked /\ up' = up
      BY <1>1, <1>a, <1>4 DEF RemoveTorrent, Types, Versions, Version
    <2>b. \A q \in Proc : /\ proc'[q].at = "write" => proc'[q].snap = proc[q].snap /\ proc[q].at = "write"
                          /\ proc'[q].read # <<>> => proc'[q].read = proc[q].read
      BY <2>3
    <2>4. Types'
      BY <1>1, <1>a, <2>3, <2>a, <2>b DEF Types
    <2>5. Locking'
      BY <1>1, <2>1, <2>3 DEF Locking
    <2>6. CopiesLive' /\ NoGhost'
      BY <1>1, <1>4, <2>1, <2>3 DEF RemoveTorrent, Types, Versions, Version, Locking, CopiesLive, NoGhost
    <2> QED  BY <2>4, <2>5, <2>6
  <1>5. CASE SetFilePriority(p, t)
    <2>2. [proc[p] EXCEPT !.at = "rlock", !.ack = <<t, last'>>] \in Call
      BY <1>1, <1>2, CallSteps
    <2>3. /\ proc' \in [Proc -> Call]
          /\ proc'[p].at = "rlock" /\ proc'[p].lock = "none" /\ proc'[p].read = <<>> /\ proc'[p].todo = {}
          /\ \A q \in Proc : q # p => proc'[q] = proc[q]
      BY <1>2, <1>5, <2>2 DEF SetFilePriority, Types, Call
    <2>a. \A q \in Proc : /\ proc'[q].at = "write" => proc'[q].snap = proc[q].snap /\ proc[q].at = "write"
                          /\ proc'[q].read # <<>> => proc'[q].read = proc[q].read
      BY <2>3
    <2>4. Types'
      BY <1>1, <1>a, <1>5, <2>3, <2>a DEF SetFilePriority, Types
    <2>5. Locking'
      BY <1>1, <2>3 DEF Locking
    <2>6. CopiesLive' /\ NoGhost'
      BY <1>1, <1>5, <2>3 DEF SetFilePriority, Types, Versions, CopiesLive, NoGhost, Call
    <2> QED  BY <2>4, <2>5, <2>6
  <1> QED  BY <1>3, <1>4, <1>5

LEMMA OthersKeep ==
  ASSUME IInv, (\E p \in Proc : Tick(p)) \/ Crash \/ Load \/ UNCHANGED vars
  PROVE  IInv'
  <1> USE DEF IInv
  <1>1. CASE \E p \in Proc : Tick(p)
    <2> PICK p \in Proc : Tick(p)
      BY <1>1
    <2>1. proc[p] \in Call /\ [proc[p] EXCEPT !.at = "rlock"] \in Call
      BY CallSteps DEF Types
    <2>2. /\ proc' \in [Proc -> Call]
          /\ proc'[p].at = "rlock" /\ \A q \in Proc : q # p => proc'[q] = proc[q]
          /\ \A q \in Proc : /\ proc'[q].lock = proc[q].lock /\ proc'[q].read = proc[q].read
                             /\ proc'[q].todo = proc[q].todo
      BY <2>1 DEF Tick, Types, Call
    <2>3. proc[p].at = "idle" /\ up
      BY DEF Tick, At
    <2>4. Types'
      BY <2>2 DEF Tick, Types, Stays
    <2>5. Locking'
      BY <2>2, <2>3 DEF Tick, Locking, Stays
    <2>6. CopiesLive' /\ NoGhost'
      BY <2>2 DEF Tick, CopiesLive, NoGhost, Stays
    <2> QED  BY <2>4, <2>5, <2>6
  <1>2. CASE Crash
    <2>1. Types'
      BY <1>2, IdleCall DEF Crash, Types
    <2>2. Locking' /\ CopiesLive' /\ NoGhost'
      BY <1>2, IdleCall DEF Crash, Locking, CopiesLive, NoGhost
    <2> QED  BY <2>1, <2>2
  <1>3. CASE Load
    <2>1. Types'
      BY <1>3 DEF Load, Types
    <2>2. Locking' /\ CopiesLive' /\ NoGhost'
      BY <1>3 DEF Load, Locking, CopiesLive, NoGhost
    <2> QED  BY <2>1, <2>2
  <1>4. CASE UNCHANGED vars
    BY <1>4 DEF vars, Types, Locking, CopiesLive, NoGhost
  <1> QED  BY <1>1, <1>2, <1>3, <1>4

LEMMA StoreNext == IInv /\ [Next]_vars => IInv'
  BY SavingKeeps, CallingKeeps, OthersKeep DEF Next, Calling

LEMMA StoreInvariant == Spec => []IInv
  BY StoreInit, StoreNext, PTL DEF Spec

\* However many saves overlap with a removal, and whatever crashes in between, no
\* record of a removed torrent comes back into the store of a running engine
\* (RemoveTorrent, saveState, saveStateLocked).
THEOREM RemovedStaysRemoved == Spec => []NoGhost
  <1>1. IInv => NoGhost
    BY DEF IInv
  <1> QED  BY <1>1, StoreInvariant, PTL

-----------------------------------------------------------------------------
\* AddTorrent is still about to put t into the store.
Storing(p, t) ==
  /\ proc[p].lock = "exclusive" /\ proc[p].at = "put"
  /\ t \in proc[p].todo \/ (proc[p].read # <<>> /\ proc[p].read[1] = t)

\* As long as nothing is removed: a session is in the store or on its way there under
\* the exclusive lock, in every snapshot that is yet to be written, and on disk once its
\* addition has returned.
Stages ==
  \A p \in Proc : /\ proc[p].at # "snapshot" /\ (proc[p].at = "write" => proc[p].lock # "none")
                  /\ proc[p].read # <<>> => proc[p].read[2] > 0
                  /\ proc[p].ack # <<>> => up /\ live[proc[p].ack[1]] > 0

Snapshots ==
  \A p \in Proc : proc[p].at = "write" => \A t \in Torrent : live[t] > 0 => proc[p].snap[t] > 0

Stored == up => \A t \in Torrent : live[t] > 0 => records[t] > 0 \/ \E p \in Proc : Storing(p, t)

Returned == \A t \in Torrent : acked[t] > 0 => live[t] > 0 /\ disk[t] > 0

Kept == Stages /\ Snapshots /\ Stored /\ Returned

\* Nothing is copied that was never added.
LEMMA CopiesAdded ==
  ASSUME IInv, removals = {0}
  PROVE  \A p \in Proc : \A t \in proc[p].todo : live[t] > 0
  BY DEF IInv, Types, Call, Versions, CopiesLive

LEMMA SavingKept ==
  ASSUME IInv, removals = {0}, Kept, NEW p \in Proc, Saving(p) PROVE Kept'
  <1> USE DEF Kept, At, Stays
  <1>0. proc \in [Proc -> Call]
    BY DEF IInv, Types
  <1>1. CASE SaveState(p)
    <2>1. /\ up' = up /\ live' = live /\ records' = records /\ acked' = acked /\ disk' = disk
          /\ proc[p].at = "rlock" /\ proc[p].lock # "exclusive" /\ proc'[p].at = "put"
          /\ proc'[p].read = proc[p].read /\ proc'[p].ack = proc[p].ack
          /\ \A q \in Proc : q # p => proc'[q] = proc[q]
      BY <1>0, <1>1 DEF SaveState, Call, Locked
    <2>2. Stages' /\ Snapshots'
      BY <2>1 DEF Stages, Snapshots
    <2>3. Stored' /\ Returned'
      BY <2>1 DEF Stored, Storing, Returned
    <2> QED  BY <2>2, <2>3
  <1>2. CASE \E t \in Torrent : ReadRecord(p, t)
    <2> PICK t \in Torrent : ReadRecord(p, t)
      BY <1>2
    <2>1. /\ up' = up /\ live' = live /\ records' = records /\ acked' = acked /\ disk' = disk
          /\ proc[p].at = "put" /\ proc'[p].at = "put" /\ proc'[p].lock = proc[p].lock
          /\ proc'[p].read = <<t, live[t]>> /\ proc'[p].ack = proc[p].ack
          /\ proc[p].read = <<>> /\ proc'[p].todo = proc[p].todo \ {t} /\ t \in proc[p].todo
          /\ \A q \in Proc : q # p => proc'[q] = proc[q]
      BY <1>0 DEF ReadRecord, Call
    <2>2. live[t] > 0
      BY <2>1, CopiesAdded
    <2>3. Stages' /\ Snapshots'
      BY <2>1, <2>2 DEF Stages, Snapshots
    <2>4. \A u \in Torrent, q \in Proc : Storing(q, u) => Storing(q, u)'
      BY <2>1 DEF Storing
    <2>5. Stored' /\ Returned'
      BY <2>1, <2>4 DEF Stored, Returned
    <2> QED  BY <2>3, <2>5
  <1>3. CASE Put(p)
    <2>1. proc[p].read \in Torrent \X Version
      BY <1>0, <1>3 DEF Put, Call
    <2>2. /\ up' = up /\ live' = live /\ acked' = acked /\ disk' = disk
          /\ proc'[p].at = proc[p].at /\ proc'[p].lock = proc[p].lock /\ proc'[p].read = <<>>
          /\ proc'[p].todo = proc[p].todo /\ proc'[p].ack = proc[p].ack /\ proc'[p].snap = proc[p].snap
          /\ \A q \in Proc : q # p => proc'[q] = proc[q]
      BY <1>0, <1>3 DEF Put, Call
    <2>3. proc[p].read[2] > 0
      BY <1>3 DEF Put, Stages
    <2>4. \A t \in Torrent : records'[t] = IF t = proc[p].read[1] THEN proc[p].read[2] ELSE records[t]
      BY <1>3, <2>1 DEF Put, IInv, Types, Versions
    <2>5. Stages' /\ Snapshots'
      BY <2>2 DEF Stages, Snapshots
    <2>6. \A t \in Torrent, q \in Proc : Storing(q, t) => Storing(q, t)' \/ records'[t] > 0
      BY <2>2, <2>3, <2>4 DEF Storing
    <2>7. \A t \in Torrent : records[t] > 0 => records'[t] > 0
      BY <2>3, <2>4
    <2>8. Stored' /\ Returned'
      BY <2>2, <2>6, <2>7 DEF Stored, Returned
    <2> QED  BY <2>5, <2>8
  <1>4. CASE Snapshot(p)
    <2>1. proc[p].at = "put" /\ proc[p].todo = {} /\ proc[p].read = <<>> /\ proc[p].lock # "none"
      BY <1>4 DEF Snapshot, Stages, IInv, Locking
    <2>2. /\ up' = up /\ up /\ live' = live /\ records' = records /\ acked' = acked /\ disk' = disk
          /\ proc'[p].at = "write" /\ proc'[p].snap = records /\ proc'[p].lock = proc[p].lock
          /\ proc'[p].read = <<>> /\ proc'[p].ack = proc[p].ack
          /\ \A q \in Proc : q # p => proc'[q] = proc[q]
      BY <1>0, <1>4, <2>1 DEF Snapshot, Call
    <2>3. \A t \in Torrent, q \in Proc : ~Storing(q, t)
      BY <2>1 DEF Storing, IInv, Locking
    <2>4. \A t \in Torrent : live[t] > 0 => records[t] > 0
      BY <2>2, <2>3 DEF Stored
    <2>5. Stages' /\ Snapshots'
      BY <2>1, <2>2, <2>4 DEF Stages, Snapshots
    <2>6. Stored' /\ Returned'
      BY <2>2, <2>4 DEF Stored, Returned
    <2> QED  BY <2>5, <2>6
  <1>5. CASE WriteFile(p)
    <2>1. /\ up' = up /\ live' = live /\ records' = records /\ disk' = proc[p].snap
          /\ proc[p].at = "write" /\ proc'[p] = Idle
          /\ \A q \in Proc : q # p => proc'[q] = proc[q]
      BY <1>0, <1>5 DEF WriteFile
    <2>2. \A t \in Torrent : acked'[t] > 0 => live[t] > 0
      <3>1. CASE proc[p].ack = <<>>
        BY <1>5, <3>1 DEF WriteFile, Returned
      <3>2. CASE proc[p].ack # <<>>
        <4>1. proc[p].ack \in Torrent \X Version /\ live[proc[p].ack[1]] > 0
          BY <1>0, <3>2 DEF Call, Stages
        <4>2. \A t \in Torrent : t # proc[p].ack[1] => acked'[t] = acked[t]
          BY <1>5, <3>2, <4>1 DEF WriteFile, IInv, Types, Versions
        <4> QED  BY <4>1, <4>2 DEF Returned
      <3> QED  BY <3>1, <3>2
    <2>3. Returned'
      BY <2>1, <2>2 DEF Returned, Snapshots
    <2>4. Stages' /\ Snapshots'
      BY <2>1, IdleCall DEF Stages, Snapshots
    <2>5. \A t \in Torrent, q \in Proc : Storing(q, t) => Storing(q, t)'
      BY <2>1 DEF Storing
    <2>6. Stored'
      BY <2>1, <2>5 DEF Stored
    <2> QED  BY <2>3, <2>4, <2>6
  <1> QED  BY <1>1, <1>2, <1>3, <1>4, <1>5 DEF Saving

LEMMA CallingKept ==
  ASSUME IInv, removals = {0}, Kept, NEW p \in Proc, NEW t \in Torrent,
         AddTorrent(p, t) \/ SetFilePriority(p, t)
  PROVE  Kept'
  <1> USE DEF Kept, At
  <1>0. proc \in [Proc -> Call]
    BY DEF IInv, Types
  <1>1. /\ up' = up /\ up /\ acked' = acked /\ disk' = disk /\ records' = records
        /\ proc[p].at = "idle" /\ proc[p].read = <<>>
    BY DEF AddTorrent, SetFilePriority, Changes, IInv, Locking
  <1>2. last' > 0 /\ \A u \in Torrent : live'[u] = IF u = t THEN last' ELSE live[u]
    BY DEF AddTorrent, SetFilePriority, Changes, IInv, Types, Versions, Version
  <1>3. CASE AddTorrent(p, t)
    <2>1. \A q \in Proc : proc[q].lock = "none"
      BY <1>0, <1>3 DEF AddTorrent, Locked, Call
    <2>2. /\ proc'[p].at = "put" /\ proc'[p].lock = "exclusive" /\ proc'[p].read = <<>>
          /\ proc'[p].todo = Sessions(live) \cup {t} /\ proc'[p].ack = <<t, last'>>
          /\ \A q \in Proc : q # p => proc'[q] = proc[q]
      BY <1>0, <1>1, <1>3 DEF AddTorrent, Call
    <2>3. \A q \in Proc : proc'[q].at # "write"
      BY <2>1, <2>2 DEF Stages
    <2>4. Stages'
      <3>1. \A q \in Proc : proc[q].ack # <<>> => live'[proc[q].ack[1]] > 0
        BY <1>0, <1>2 DEF Stages, Call
      <3>2. live'[proc'[p].ack[1]] > 0
        BY <1>2, <2>2
      <3> QED  BY <1>1, <2>1, <2>2, <3>1, <3>2 DEF Stages
    <2>5. \A u \in Torrent : live'[u] > 0 => Storing(p, u)'
      <3>1. \A u \in Torrent : live'[u] > 0 => u \in Sessions(live) \cup {t}
        BY <1>2 DEF Sessions
      <3> QED  BY <2>2, <3>1 DEF Storing
    <2>6. Snapshots' /\ Stored' /\ Returned'
      BY <1>1, <1>2, <2>3, <2>5 DEF Snapshots, Stored, Returned
    <2> QED  BY <2>4, <2>6
  <1>4. CASE SetFilePriority(p, t)
    <2>1. /\ proc'[p].at = "rlock" /\ proc'[p].lock = proc[p].lock /\ proc'[p].read = <<>>
          /\ proc'[p].ack = <<t, last'>>
          /\ \A q \in Proc : q # p => proc'[q] = proc[q]
      BY <1>0, <1>1, <1>4 DEF SetFilePriority, Call
    <2>2. live[t] > 0
      BY <1>4 DEF SetFilePriority, Sessions, IInv, Types, Versions
    <2>3. \A u \in Torrent : live'[u] > 0 <=> live[u] > 0
      BY <1>2, <2>2
    <2>4. Stages'
      <3>1. \A q \in Proc : proc[q].ack # <<>> => live'[proc[q].ack[1]] > 0
        BY <1>0, <1>2 DEF Stages, Call
      <3>2. live'[proc'[p].ack[1]] > 0
        BY <1>2, <2>1
      <3> QED  BY <1>1, <2>1, <3>1, <3>2 DEF Stages
    <2>5. \A u \in Torrent, q \in Proc : Storing(q, u) => Storing(q, u)'
      BY <1>1, <2>1 DEF Storing
    <2>6. Snapshots' /\ Stored' /\ Returned'
      BY <1>1, <2>1, <2>3, <2>5 DEF Snapshots, Stored, Returned
    <2> QED  BY <2>4, <2>6
  <1> QED  BY <1>3, <1>4

LEMMA OthersKept ==
  ASSUME IInv, Kept, (\E p \in Proc : Tick(p)) \/ Crash \/ Load \/ UNCHANGED vars
  PROVE  Kept'
  <1> USE DEF Kept
  <1>0. proc \in [Proc -> Call]
    BY DEF IInv, Types
  <1>1. CASE \E p \in Proc : Tick(p)
    <2> PICK p \in Proc : Tick(p)
      BY <1>1
    <2>1. /\ up' = up /\ live' = live /\ records' = records /\ acked' = acked /\ disk' = disk
          /\ proc[p].at = "idle" /\ proc'[p].at = "rlock" /\ proc'[p].read = proc[p].read
          /\ proc'[p].ack = proc[p].ack /\ \A q \in Proc : q # p => proc'[q] = proc[q]
      BY <1>0 DEF Tick, At, Stays, Call
    <2>2. \A u \in Torrent, q \in Proc : Storing(q, u) => Storing(q, u)'
      BY <2>1 DEF Storing
    <2>3. Stages' /\ Snapshots'
      BY <2>1 DEF Stages, Snapshots
    <2>4. Stored' /\ Returned'
      BY <2>1, <2>2 DEF Stored, Returned
    <2> QED  BY <2>3, <2>4
  <1>2. CASE Crash
    BY <1>2, IdleCall DEF Crash, Stages, Snapshots, Stored, Returned
  <1>3. CASE Load
    <2>1. /\ up' = TRUE /\ ~up /\ records' = disk /\ live' = disk /\ acked' = disk /\ disk' = disk /\ proc' = proc
      BY <1>3 DEF Load
    <2>2. \A p \in Proc : proc[p].at = "idle" /\ proc[p].ack = <<>>
      BY <2>1 DEF IInv, Locking, Stages
    <2>3. Stages' /\ Snapshots'
      BY <2>1, <2>2 DEF Stages, Snapshots
    <2>4. Stored' /\ Returned'
      BY <2>1 DEF Stored, Returned
    <2> QED  BY <2>3, <2>4
  <1>4. CASE UNCHANGED vars
    BY <1>4 DEF vars, Stages, Snapshots, Stored, Returned, Storing
  <1> QED  BY <1>1, <1>2, <1>3, <1>4

LEMMA KeptNext ==
  IInv /\ (removals = {0} => Kept) /\ [Next]_vars => (removals' = {0} => Kept')
  <1> SUFFICES ASSUME IInv, removals = {0} => Kept, [Next]_vars, removals' = {0} PROVE Kept'
    OBVIOUS
  <1>1. ASSUME NEW p \in Proc, NEW t \in Torrent, RemoveTorrent(p, t) PROVE FALSE
    <2>1. removals' = removals \cup {last'} /\ last' = last + 1
      BY <1>1 DEF RemoveTorrent, Changes
    <2>2. last \in Nat
      BY DEF IInv, Types, Version
    <2>3. last' \in removals'
      BY <2>1
    <2> QED  BY <2>1, <2>2, <2>3
  <1>2. removals = {0}
    BY <1>1 DEF Next, vars, Saving, SaveState, ReadRecord, Put, Snapshot, WriteFile, Calling, AddTorrent,
                SetFilePriority, Tick, Crash, Load, Stays
  <1> QED  BY <1>1, <1>2, SavingKept, CallingKept, OthersKept DEF Next, Calling

\* As long as nothing is removed, a torrent whose addition has returned is in the state
\* file, although any number of saves, changes and crashes overlap with it: AddTorrent
\* holds e.mu until its file is written, so that no older snapshot is written after it.
THEOREM AdditionsSurvive == Spec => []AddedSurvives
  <1> DEFINE Inv == IInv /\ (removals = {0} => Kept)
  <1>1. Init => Inv
    <2>1. Init => Kept
      BY IdleCall DEF Init, Kept, Stages, Snapshots, Stored, Returned
    <2> QED  BY <2>1, StoreInit
  <1>2. Inv /\ [Next]_vars => Inv'
    BY StoreNext, KeptNext
  <1>3. Inv => AddedSurvives
    BY DEF Kept, Returned, AddedSurvives
  <1> QED  BY <1>1, <1>2, <1>3, PTL DEF Spec
=============================================================================

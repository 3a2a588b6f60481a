------------------------------ MODULE Serving ------------------------------
(***************************************************************************)
(* Peers that connect to us: the listener (engine/listener.go), the part   *)
(* of Session that registers an uploader, stops it and moves the download  *)
(* (engine/session.go), Uploader (download/upload.go) and the choking of   *)
(* PeerManager (download/peermgr.go).  One torrent; a peer connects once.  *)
(* A message written to a connection is a step.  What a peer makes of a    *)
(* stream in which two unlocked writes met is not followed: it leaves, as  *)
(* it may at any time.                                                     *)
(***************************************************************************)
EXTENDS Integers, Sequences, FiniteSets, SequencesExt

CONSTANTS
  Peer, Piece,
  Slots,           \* unchokeSlots
  MaxUploaders,    \* bound: uploaders that are created
  Plans            \* scenarios: tmp (there is a temporary directory), done (the download
                   \* is complete), pauses (how many), limit (maxIncomingConns), peers
                   \* (that connect, one after the other if inTurn), stay and asks (peers
                   \* that do so), choke (how many peers are there when a ticker fires),
                   \* fetch (one of the peers is the download worker of Exchange)

ASSUME ServingConstants == Peer \cup {Slots, MaxUploaders} \subseteq Nat \ {0}

VARIABLES
  plan,      \* the scenario, chosen at the start
  phase,     \* of Session.run
  cancelled, \* the session's context
  pauses,    \* how often it was cancelled
  done,      \* record.CompletedAt is set
  moved,     \* the download has left the temporary directory
  cur,       \* s.uploader: its number, 0 for nil
  reg,       \* the session is in the listener's handlers
  up,        \* up[u]: uploader u
  have,      \* have[u]: the bitfield that uploader u offers
  todo,      \* what SetPiece or Stop has still to do, and to which clients
  conn,      \* conn[p]: the connection of peer p and its Client
  pm         \* pm[u]: the PeerManager of uploader u and its loop

sessionVars == <<phase, cancelled, pauses, done, moved, cur, reg, have, todo>>
vars == <<plan, sessionVars, up, conn, pm>>

Uploader == 1 .. MaxUploaders
Nobody == "nobody"

NoConn ==
  [st |-> "none",      \* where handleConn is
   up |-> 0,           \* the uploader it was given to
   open |-> FALSE,     \* the socket
   known |-> {},       \* pieces the peer was told of
   choking |-> TRUE,   \* c.choking
   told |-> TRUE,      \* the last choke message sent said "choke"
   wmu |-> Nobody,     \* who holds c.wmu: "pm" or "serve"
   serve |-> "read",   \* serveLoop reads, or is to send "unchoke"
   asked |-> FALSE]    \* a request has arrived

NoTodo == [step |-> "none", piece |-> 0, to |-> {}]

Unmade == [made |-> FALSE, tmp |-> FALSE, live |-> FALSE, stopped |-> FALSE, clients |-> {}]
NewUploader(inTmp) == [made |-> TRUE, tmp |-> inTmp, live |-> ~cancelled, stopped |-> FALSE, clients |-> {}]
NewPeerManager == [peers |-> <<>>, opt |-> 0, idx |-> 0, todo |-> <<>>, checked |-> FALSE]

Newest == Cardinality({u \in Uploader : up[u].made})

\* The goroutines serveWg counts, and those that count against the listener's limit.
Counted(u) ==
  {p \in Peer : conn[p].up = u /\ conn[p].st \in {"in", "registered", "listed", "serving", "unlisted"}}
Active == {p \in Peer : conn[p].st \notin {"none", "gone"}}

-----------------------------------------------------------------------------
(* The session. *)

\* phaseDownload: an uploader for a copy of the saved bitfield.
BeginDownload ==
  /\ phase \in {"idle", "ended"} /\ ~done
  /\ Newest + 1 < MaxUploaders
  /\ cancelled' = FALSE
  /\ up' = [up EXCEPT ![Newest + 1] = [NewUploader(plan.tmp) EXCEPT !.live = TRUE]]
  /\ have' = [have EXCEPT ![Newest + 1] = IF Newest = 0 THEN {} ELSE have[Newest]]
  /\ cur' = Newest + 1 /\ reg' = TRUE /\ phase' = "downloading"
  /\ UNCHANGED <<plan, pauses, done, moved, todo, conn, pm>>

\* phaseSeedDirect.
BeginSeeding ==
  /\ phase \in {"idle", "ended"} /\ done
  /\ Newest < MaxUploaders
  /\ cancelled' = FALSE
  /\ up' = [up EXCEPT ![Newest + 1] = [NewUploader(FALSE) EXCEPT !.live = TRUE]]
  /\ have' = [have EXCEPT ![Newest + 1] = Piece]
  /\ cur' = Newest + 1 /\ reg' = TRUE /\ phase' = "seeding"
  /\ UNCHANGED <<plan, pauses, done, moved, todo, conn, pm>>

\* OnPiece sets the bit under s.mu and calls SetPiece, ...
OnPiece(i) ==
  /\ phase = "downloading" /\ todo = NoTodo
  /\ i \notin have[cur]
  /\ have' = [have EXCEPT ![cur] = @ \cup {i}]
  /\ todo' = [step |-> "set", piece |-> i, to |-> {}]
  /\ UNCHANGED <<plan, phase, cancelled, pauses, done, moved, cur, reg, up, conn, pm>>

\* Mutant of SetPiece: only clients that are not choked are told.
SetPieceUnchoked ==
  /\ todo.step = "set"
  /\ todo' = [todo EXCEPT !.step = "have", !.to = {p \in up[cur].clients : ~conn[p].choking}]
  /\ UNCHANGED <<plan, phase, cancelled, pauses, done, moved, cur, reg, up, have, conn, pm>>

\* ... which copies the clients under u.mu ...
SetPiece ==
  /\ todo.step = "set"
  /\ todo' = [todo EXCEPT !.step = "have", !.to = up[cur].clients]
  /\ UNCHANGED <<plan, phase, cancelled, pauses, done, moved, cur, reg, up, have, conn, pm>>

\* ... and writes to each of them.
SendHave ==
  /\ todo.step = "have"
  /\ \/ \E p \in todo.to :
          /\ conn' = [conn EXCEPT ![p].known = IF conn[p].open THEN @ \cup {todo.piece} ELSE @]
          /\ todo' = [todo EXCEPT !.to = @ \ {p}]
     \/ todo.to = {} /\ todo' = NoTodo /\ UNCHANGED conn
  /\ UNCHANGED <<plan, phase, cancelled, pauses, done, moved, cur, reg, up, have, pm>>

\* The download returns because it was cancelled: the uploader stays, registered.
DownloadCancelled ==
  /\ phase = "downloading" /\ cancelled /\ todo = NoTodo
  /\ phase' = "ended"
  /\ UNCHANGED <<plan, cancelled, pauses, done, moved, cur, reg, up, have, todo, conn, pm>>

\* It is complete.  With a temporary directory s.uploader is cleared for the move.
DownloadComplete ==
  /\ phase = "downloading" /\ have[cur] = Piece /\ todo = NoTodo
  /\ IF plan.tmp THEN phase' = "clear" /\ cur' = 0
                 ELSE phase' = "marking" /\ cur' = cur
  /\ UNCHANGED <<plan, cancelled, pauses, done, moved, reg, up, have, todo, conn, pm>>

\* Stop: under u.mu it sets stopped and copies the clients; it ends the choking loop, ...
StopBegins ==
  /\ phase = "clear"
  /\ up' = [up EXCEPT ![Newest].stopped = TRUE, ![Newest].live = FALSE]
  /\ todo' = [step |-> "close", piece |-> 0, to |-> up[Newest].clients]
  /\ phase' = "stopping"
  /\ UNCHANGED <<plan, cancelled, pauses, done, moved, cur, reg, have, conn, pm>>

\* ... closes the sockets ...
StopCloses(p) ==
  /\ todo.step = "close" /\ p \in todo.to
  /\ conn' = [conn EXCEPT ![p].open = FALSE]
  /\ todo' = [todo EXCEPT !.to = @ \ {p}]
  /\ UNCHANGED <<plan, phase, cancelled, pauses, done, moved, cur, reg, up, have, pm>>

\* ... and waits for serveWg.
StopWaits ==
  /\ phase = "stopping" /\ todo.to = {}
  /\ Counted(Newest) = {}
  /\ todo' = NoTodo /\ phase' = "moving"
  /\ UNCHANGED <<plan, cancelled, pauses, done, moved, cur, reg, up, have, conn, pm>>

\* os.Rename, then an uploader for the new place; a failure ends the run.
Move ==
  /\ phase = "moving"
  /\ \/ /\ moved' = TRUE
        /\ up' = [up EXCEPT ![Newest + 1] = NewUploader(FALSE)]
        /\ have' = [have EXCEPT ![Newest + 1] = have[Newest]]
        /\ cur' = Newest + 1 /\ phase' = "marking"
     \/ phase' = "ended" /\ UNCHANGED <<moved, up, have, cur>>
  /\ UNCHANGED <<plan, cancelled, pauses, done, reg, todo, conn, pm>>

\* SetPiece for every piece, and the record.
MarkAll ==
  /\ phase = "marking"
  /\ conn' = [p \in Peer |-> IF p \in up[cur].clients /\ conn[p].open
                             THEN [conn[p] EXCEPT !.known = Piece] ELSE conn[p]]
  /\ done' = TRUE /\ phase' = "seeding"
  /\ UNCHANGED <<plan, cancelled, pauses, moved, cur, reg, up, have, todo, pm>>

\* phaseSeed: the context is done.
SeedingEnds ==
  /\ phase = "seeding" /\ cancelled
  /\ reg' = FALSE /\ cur' = 0 /\ phase' = "ended"
  /\ UNCHANGED <<plan, cancelled, pauses, done, moved, up, have, todo, conn, pm>>

\* Pause cancels the context, at any moment; the choking loops hang on it.
Pause ==
  /\ phase \notin {"idle", "ended"} /\ ~cancelled /\ pauses < plan.pauses
  /\ cancelled' = TRUE /\ pauses' = pauses + 1
  /\ up' = [u \in Uploader |-> [up[u] EXCEPT !.live = FALSE]]
  /\ UNCHANGED <<plan, phase, done, moved, cur, reg, have, todo, conn, pm>>

Session ==
  \/ BeginDownload \/ BeginSeeding \/ SetPiece \/ SendHave \/ DownloadCancelled
  \/ DownloadComplete \/ StopBegins \/ StopWaits \/ Move \/ MarkAll \/ SeedingEnds
  \/ \E i \in Piece : OnPiece(i)
  \/ \E p \in Peer : StopCloses(p)

-----------------------------------------------------------------------------
(* A connection. *)

\* A step of p's connection that changes nothing but its record.
To(p, c) == conn' = [conn EXCEPT ![p] = c] /\ UNCHANGED <<plan, sessionVars, up, pm>>
At(p, st) == conn[p].st = st
Gone(p) == [conn[p] EXCEPT !.st = "gone", !.open = FALSE]

\* handleConn: over the limit the connection is closed.
Accept(p) ==
  /\ At(p, "none") /\ p \in plan.peers
  /\ plan.inTurn => \A q \in plan.peers : q < p => conn[q].st \in {"serving", "gone"}
  /\ To(p, IF Cardinality(Active) < plan.limit
           THEN [NoConn EXCEPT !.st = "accepted", !.open = TRUE] ELSE Gone(p))

\* The handler of the info hash.
FindHandler(p) ==
  /\ At(p, "accepted")
  /\ To(p, IF reg /\ conn[p].open THEN [conn[p] EXCEPT !.st = "found"] ELSE Gone(p))

\* Session.HandleIncoming reads s.uploader.
Route(p) ==
  /\ At(p, "found")
  /\ To(p, IF cur # 0 THEN [conn[p] EXCEPT !.st = "routed", !.up = cur] ELSE Gone(p))

\* Mutant of Enter: stopped is not read together with the count.
EnterUnchecked(p) == At(p, "routed") /\ To(p, [conn[p] EXCEPT !.st = "in"])

\* Uploader.HandleIncoming: stopped is read and serveWg counted under u.mu.
Enter(p) ==
  /\ At(p, "routed")
  /\ To(p, IF up[conn[p].up].stopped THEN Gone(p) ELSE [conn[p] EXCEPT !.st = "in"])

\* pm.mu is held while a round of choke messages is sent.
PmFree(u) == pm[u].todo = <<>>

\* Mutant of HandshakeFails: the early return leaves serveWg counted.
HandshakeLeaks(p) == At(p, "in") /\ ~conn[p].open /\ To(p, conn[p])

\* The handshake is answered and the client registered.
HandshakeFails(p) == At(p, "in") /\ ~conn[p].open /\ To(p, Gone(p))

Register(p) ==
  LET u == conn[p].up IN
  /\ At(p, "in") /\ conn[p].open /\ PmFree(u)
  /\ pm' = [pm EXCEPT ![u].peers = Append(@, p)]
  /\ conn' = [conn EXCEPT ![p].st = "registered"]
  /\ UNCHANGED <<plan, sessionVars, up>>

List(p) ==
  /\ At(p, "registered")
  /\ up' = [up EXCEPT ![conn[p].up].clients = @ \cup {p}]
  /\ conn' = [conn EXCEPT ![p].st = "listed"]
  /\ UNCHANGED <<plan, sessionVars, pm>>

\* Taking p off u.clients, its file and socket closed (the deferred functions).
Unlisted(p) ==
  /\ up' = [up EXCEPT ![conn[p].up].clients = @ \ {p}]
  /\ conn' = [conn EXCEPT ![p].st = "unlisted", ![p].open = FALSE]
  /\ UNCHANGED <<plan, sessionVars, pm>>

\* The bitfield is sent and the file opened, if it is still there.
FileThere(u) == up[u].tmp = (plan.tmp /\ ~moved)

SendBitfield(p) ==
  /\ At(p, "listed")
  /\ IF conn[p].open /\ FileThere(conn[p].up)
     THEN To(p, [conn[p] EXCEPT !.st = "serving", !.known = have[conn[p].up]])
     ELSE Unlisted(p)

\* serveLoop ends when a read fails.
ServeEnds(p) == At(p, "serving") /\ ~conn[p].open /\ conn[p].serve = "read" /\ Unlisted(p)

Unregister(p) ==
  LET u == conn[p].up IN
  /\ At(p, "unlisted") /\ PmFree(u)
  /\ pm' = [pm EXCEPT ![u].peers = Remove(@, p), ![u].opt = IF @ = p THEN 0 ELSE @]
  /\ conn' = [conn EXCEPT ![p].st = "gone"]
  /\ UNCHANGED <<plan, sessionVars, up>>

\* The peer leaves, or sends what ends the loop.
PeerLeaves(p) == conn[p].open /\ p \notin plan.stay /\ To(p, [conn[p] EXCEPT !.open = FALSE])

\* serveLoop on an interested message: SendUnchoke looks at the flag, ...
Reads(p) == At(p, "serving") /\ conn[p].open /\ conn[p].serve = "read"

Interested(p) ==
  /\ p \in plan.asks /\ Reads(p) /\ ~conn[p].asked /\ conn[p].choking
  /\ To(p, [conn[p] EXCEPT !.serve = "unchoke"])

\* Mutant of Written: the flag is set although the write failed.
WrittenAnyway(c, choke, who) ==
  IF c.open THEN [c EXCEPT !.told = choke, !.wmu = who] ELSE [c EXCEPT !.choking = choke]

\* A write fails on a closed socket, and the flag stays.
Written(c, choke, who) ==
  IF c.open THEN [c EXCEPT !.told = choke, !.wmu = who] ELSE c

\* Mutant of Flagged: wmu is not released.
FlaggedHeld(c) == [c EXCEPT !.choking = c.told]

\* Once the message is flushed the flag follows, and wmu is released.
Flagged(c) == [c EXCEPT !.choking = c.told, !.wmu = Nobody]

\* ... takes wmu to write, ...
ServeUnchokes(p) ==
  /\ conn[p].serve = "unchoke" /\ conn[p].wmu = Nobody
  /\ LET c == Written(conn[p], FALSE, "serve")
     IN  To(p, IF conn[p].open THEN c ELSE [c EXCEPT !.serve = "read"])

\* ... and sets the flag.
ServeUnchoked(p) ==
  /\ conn[p].wmu = "serve"
  /\ To(p, [Flagged(conn[p]) EXCEPT !.serve = "read"])

\* A request arrives, and is answered with the block or rejected.
Request(p) ==
  /\ p \in plan.asks /\ At(p, "serving") /\ conn[p].open /\ ~conn[p].asked
  /\ To(p, [conn[p] EXCEPT !.asked = TRUE])

Answer(p) == Reads(p) /\ conn[p].asked /\ To(p, [conn[p] EXCEPT !.asked = FALSE])

-----------------------------------------------------------------------------
(* PeerManager.Run of uploader u. *)

Orders(u) == SetToSeqs(Range(pm[u].peers))

Sends(u, m) == pm' = [pm EXCEPT ![u] = m] /\ UNCHANGED <<plan, sessionVars, up>>

Ticks(u) == up[u].live /\ PmFree(u) /\ Len(pm[u].peers) \in plan.choke

\* Any order by speed: the first Slots and the optimistic peer are unchoked, the
\* others choked.
rechoke(u) ==
  /\ Ticks(u) /\ pm[u].peers # <<>>
  /\ \E ranked \in Orders(u) :
       Sends(u, [pm[u] EXCEPT !.todo =
         [i \in 1 .. Len(ranked) |->
            [to |-> ranked[i], choke |-> ~(i <= Slots \/ ranked[i] = pm[u].opt)]]])
  /\ UNCHANGED conn

\* Mutant of rotateOptimistic: it always starts with the first peer.
rotateFromFirst(u) ==
  LET n  == Len(pm[u].peers)
      choked == {i \in 1 .. n : conn[pm[u].peers[i]].choking}
      p  == pm[u].peers[CHOOSE i \in choked : \A j \in choked : i <= j]
  IN  /\ Ticks(u) /\ choked # {}
      /\ Sends(u, [pm[u] EXCEPT !.opt = p, !.todo = <<[to |-> p, choke |-> FALSE]>>])
      /\ UNCHANGED conn

\* The next choked peer from idx on.
rotateOptimistic(u) ==
  LET n  == Len(pm[u].peers)
      at(i) == (pm[u].idx + i) % n
      choked == {i \in 0 .. n - 1 : conn[pm[u].peers[at(i) + 1]].choking}
      i  == CHOOSE i \in choked : \A j \in choked : i <= j
      p  == pm[u].peers[at(i) + 1]
  IN  /\ Ticks(u)
      /\ IF n = 0 THEN Sends(u, [pm[u] EXCEPT !.idx = 0])
         ELSE /\ choked # {}
              /\ Sends(u, [pm[u] EXCEPT !.opt = p, !.idx = (at(i) + 1) % n,
                                        !.todo = <<[to |-> p, choke |-> FALSE]>>])
      /\ UNCHANGED conn

\* SendChoke and SendUnchoke: nothing to do if the flag says so already, ...
PmChecks(u) ==
  /\ ~PmFree(u) /\ ~pm[u].checked
  /\ LET m == Head(pm[u].todo)
     IN  Sends(u, IF conn[m.to].choking = m.choke THEN [pm[u] EXCEPT !.todo = Tail(@)]
                                                  ELSE [pm[u] EXCEPT !.checked = TRUE])
  /\ UNCHANGED conn

Sent1(u) == [pm[u] EXCEPT !.todo = Tail(@), !.checked = FALSE]

\* ... the message is written under wmu, ...
PmWrites(u) ==
  /\ pm[u].checked
  /\ LET m == Head(pm[u].todo)
     IN  /\ conn[m.to].wmu = Nobody
         /\ conn' = [conn EXCEPT ![m.to] = Written(@, m.choke, "pm")]
         /\ Sends(u, IF conn[m.to].open THEN pm[u] ELSE Sent1(u))

\* ... and the flag set.
PmFlags(u) ==
  /\ pm[u].checked
  /\ LET m == Head(pm[u].todo)
     IN  /\ conn[m.to].wmu = "pm"
         /\ conn' = [conn EXCEPT ![m.to] = Flagged(@)]
         /\ Sends(u, Sent1(u))

-----------------------------------------------------------------------------
Handling(p) ==
  \/ FindHandler(p) \/ Route(p) \/ Enter(p) \/ HandshakeFails(p) \/ Register(p) \/ List(p)
  \/ SendBitfield(p) \/ ServeEnds(p) \/ Unregister(p) \/ ServeUnchokes(p) \/ ServeUnchoked(p)
  \/ Answer(p)

Remote(p) == Accept(p) \/ PeerLeaves(p) \/ Interested(p) \/ Request(p)

Sending(u) == PmChecks(u) \/ PmWrites(u) \/ PmFlags(u)

Init ==
  /\ plan \in Plans
  /\ phase = "idle" /\ cancelled = FALSE /\ pauses = 0
  /\ done = plan.done /\ moved = plan.done
  /\ cur = 0 /\ reg = FALSE
  /\ up = [u \in Uploader |-> Unmade]
  /\ have = [u \in Uploader |-> {}]
  /\ todo = NoTodo
  /\ conn = [p \in Peer |-> NoConn]
  /\ pm = [u \in Uploader |-> NewPeerManager]

Next ==
  \/ Session \/ Pause
  \/ \E p \in Peer : Handling(p) \/ Remote(p)
  \/ \E u \in Uploader : Sending(u) \/ rechoke(u) \/ rotateOptimistic(u)

Spec == Init /\ [][Next]_vars

-----------------------------------------------------------------------------
(* Properties. *)

\* Stop (upload.go:59-82): once it has returned, no goroutine of that uploader runs
\* and none starts, so that nothing holds the files that are moved next.
StoppedIsQuiet ==
  \A u \in Uploader : up[u].stopped /\ ~(u = Newest /\ phase = "stopping") => Counted(u) = {}

\* SetPiece and HandleIncoming (upload.go:86-101,155-203): a peer that is being
\* served has been told of every piece its uploader offers, but for the piece whose
\* announcement is still under way, and of no other.
Announced ==
  \A p \in Peer : At(p, "serving") /\ conn[p].open =>
    LET u == conn[p].up
        underWay == IF u = cur /\ (todo.step = "set" \/ (todo.step = "have" /\ p \in todo.to))
                    THEN {todo.piece} ELSE {}
    IN  have[u] \ underWay \subseteq conn[p].known /\ conn[p].known \subseteq have[u]

\* SendChoke and SendUnchoke (download.go:315-359): whenever nobody is sending,
\* c.choking is what the peer was told last, whichever goroutines sent it.
ChokeAgrees == \A p \in Peer : conn[p].wmu = Nobody => conn[p].choking = conn[p].told

\* HandleIncoming and Stop (upload.go:64-82,103-169): Stop does not wait for ever for
\* connections that are closed; only a peer that stays connected can hold it up.
StopEnds == []<>(phase # "stopping" \/ \E p \in Counted(Newest) : conn[p].open)

\* rotateOptimistic (peermgr.go:184-202): while the choking loop runs, a peer that is
\* choked gets its turn, however the others are ranked, if no peer leaves messages
\* unread until a write to it blocks.
EveryoneGetsATurn ==
  ~plan.fetch => \A p \in Peer :
    (At(p, "serving") /\ conn[p].choking /\ \E u \in Uploader : conn[p].up = u /\ Len(pm[u].peers) \in plan.choke)
      ~> (~conn[p].choking \/ ~conn[p].open \/ \E u \in Uploader : conn[p].up = u /\ ~up[u].live)

\* serveLoop (upload.go:234-313): a request is answered unless the connection ends,
\* whatever locks rechoke holds meanwhile.
RequestsAnswered == \A p \in Peer : conn[p].asked ~> (~conn[p].asked \/ ~conn[p].open)

\* Nobody starves: choked peers get their turn, and requests of unchoked ones an answer.
NobodyStarves == EveryoneGetsATurn /\ RequestsAnswered
=============================================================================

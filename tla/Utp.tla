-------------------------------- MODULE Utp --------------------------------
(***************************************************************************)
(* uTP (utp/conn.go, listener.go, ledbat.go): a client dials a listener    *)
(* over a network that loses, duplicates and reorders packets.  End 0 is   *)
(* the client's connection; ends 1 .. MaxConns are those the listener      *)
(* creates, one for each SYN that reaches it, all under the client's       *)
(* connection ID.  A chunk of data fills a packet, and windows are counted *)
(* in packets.  RESET packets are handled like FIN and never sent.         *)
(***************************************************************************)
EXTENDS Integers, Sequences, FiniteSets

CONSTANTS
  SeqMod,         \* 2^16: sequence numbers wrap around
  FirstSeq,       \* the first one is 1; here, one that wraps within the bounds
  MaxRetransmits, ReorderMax, RecvCap, AcceptCap, MaxSyn, MaxCwnd,
  MaxConns,       \* connections that the listener can create
  NetCap,         \* packets under way; the network loses those beyond
  Plans           \* what the applications do, and SYNs that reach the listener

ASSUME UtpConstants ==
  /\ SeqMod \in Nat /\ SeqMod > 2 /\ SeqMod % 2 = 0
  /\ {MaxRetransmits, ReorderMax, RecvCap, AcceptCap, MaxSyn, MaxCwnd, MaxConns, NetCap}
       \subseteq Nat \ {0}
  /\ FirstSeq \in 0 .. SeqMod - 1
  /\ Plans \subseteq [writes : [0 .. MaxConns -> Nat], closers : SUBSET (0 .. MaxConns), syns : 1 .. MaxConns]

VARIABLES
  plan,           \* one of Plans: chunks to write at each end, ends that close
  conn,           \* conn[e]: the Conn at end e
  dial,           \* DialTimeout: "idle", "syn", "open", "gone" (socket closed)
  syns,           \* SYNs sent
  net,            \* packets under way; one stays until it is lost
  route,          \* l.conns for the client's ID: an end, or 0 for none
  acceptCh,       \* connections not yet accepted
  loop            \* loop[s]: what the read loop of side s is delivering

vars == <<plan, conn, dial, syns, net, route, acceptCh, loop>>

End == 0 .. MaxConns
Server == 1 .. MaxConns
Side == {"client", "server"}
SideOf(e) == IF e = 0 THEN "client" ELSE "server"
Other(s) == IF s = "client" THEN "server" ELSE "client"
Idle == [conn |-> -1, todo |-> <<>>]

-----------------------------------------------------------------------------
(* Sequence numbers. *)

Plus(a, k) == (a + k) % SeqMod

\* int16(a-b) > 0.
wrappingGT(a, b) == (a - b) % SeqMod \in 1 .. (SeqMod \div 2 - 1)

wrappingLEQ(a, b) == ~wrappingGT(a, b)

(* Packets stand for the header fields somebody reads. *)

SynPkt == [to |-> "server", type |-> "syn"]
DataPkt(e, seq, wnd, n) ==
  [to |-> Other(SideOf(e)), type |-> "data", seq |-> seq, wnd |-> wnd, n |-> n]
\* n, here and in data packets, is the count that seq or ack stands for.
StatePkt(e, c, owd) ==
  [to |-> Other(SideOf(e)), type |-> "state", seq |-> c.seq, ack |-> c.ack,
   wnd |-> RecvCap - Len(c.inbox), owd |-> owd, n |-> c.rcvd]
FinPkt(e) == [to |-> Other(SideOf(e)), type |-> "fin"]

Sent(ps, p) == IF Cardinality(ps) < NetCap THEN ps \cup {p} ELSE ps

\* A packet lives for less than half a cycle of sequence numbers.
Fresh(e, sent, p) ==
  CASE p.type = "data"  -> p.to = SideOf(e) \/ 2 * (sent - p.n) < SeqMod
    [] p.type = "state" -> p.to # SideOf(e) \/ 2 * (sent - p.n) < SeqMod
    [] p.type = "syn"   -> e # 0 \/ 2 * sent < SeqMod
    [] OTHER -> TRUE

-----------------------------------------------------------------------------
(* Connections. *)

\* newConn, with NewLEDBAT's window of two packets.
NewConn(state, ack, next) ==
  [state |-> state,       \* "none", "queued" in acceptCh, "open": the application has it
   closed |-> FALSE,      \* closed and closeCh
   fin |-> FALSE,         \* a FIN has come
   done |-> FALSE,        \* Read has failed, or is not called again after Close
   seq |-> FirstSeq, ack |-> ack, next |-> next,
   sent |-> 0,            \* chunks written; they are numbered from 1
   writing |-> FALSE,
   buf |-> <<>>,          \* sendBuf: chunk -> its packet and retries
   lost |-> {},           \* chunks given up
   reorder |-> <<>>,      \* reorderBuf: sequence number -> chunk
   rcvd |-> 0,            \* chunks that nextExpected has passed
   inbox |-> <<>>,        \* recvCh
   read |-> <<>>,         \* what Read has returned
   flight |-> 0, rwnd |-> MaxCwnd]

\* The minimum of one packet that updateRemoteWnd enforces.
remoteWnd(w) == IF w < 1 THEN 1 ELSE w

\* LEDBAT's window may be of any size from a packet up to MaxCwnd, as the
\* measured delays and losses have it; what is in flight is counted.
CanSend(c) == {w - c.flight : w \in 1 .. MaxCwnd}
OnAck(c) == [c EXCEPT !.flight = IF @ > 0 THEN @ - 1 ELSE 0]
OnTimeout(c) == [c EXCEPT !.flight = 0]
OnSend(c) == [c EXCEPT !.flight = @ + 1]

effectiveCanSend(c) == {IF c.rwnd - c.flight < w THEN c.rwnd - c.flight ELSE w : w \in CanSend(c)}

-----------------------------------------------------------------------------
(* DialTimeout. *)

SendSyn ==
  /\ dial \in {"idle", "syn"} /\ syns < MaxSyn
  /\ dial' = "syn" /\ syns' = syns + 1
  /\ net' = Sent(net, SynPkt)
  /\ UNCHANGED <<plan, conn, route, acceptCh, loop>>

DialFails ==
  /\ dial = "syn"
  /\ dial' = "gone"
  /\ UNCHANGED <<plan, conn, syns, net, route, acceptCh, loop>>

\* Mutant: off by one in the first sequence number expected.
DialAnsweredSkipping(p) ==
  /\ dial = "syn" /\ p.to = "client" /\ p.type = "state"
  /\ dial' = "open"
  /\ conn' = [conn EXCEPT ![0] =
       [@ EXCEPT !.state = "open", !.ack = p.seq, !.next = Plus(p.seq, 2), !.rwnd = remoteWnd(p.wnd)]]
  /\ UNCHANGED <<plan, syns, net, route, acceptCh, loop>>

\* Only a STATE packet is taken for the answer; others are dropped.
DialAnswered(p) ==
  /\ dial = "syn" /\ p.to = "client" /\ p.type = "state"
  /\ dial' = "open"
  /\ conn' = [conn EXCEPT ![0] =
       [@ EXCEPT !.state = "open", !.ack = p.seq, !.next = Plus(p.seq, 1), !.rwnd = remoteWnd(p.wnd)]]
  /\ UNCHANGED <<plan, syns, net, route, acceptCh, loop>>

(* The listener. *)

Unused == {k \in 1 .. plan.syns : conn[k].state = "none"}

\* A SYN makes a new connection, also when there is one under its ID already;
\* with acceptCh full it is ignored.
HandleSyn(p) ==
  /\ p.type = "syn" /\ loop["server"] = Idle
  /\ Len(acceptCh) < AcceptCap /\ Unused # {}
  /\ LET k == CHOOSE k \in Unused : \A j \in Unused : k <= j
     IN  /\ conn' = [conn EXCEPT ![k] = NewConn("queued", FirstSeq, Plus(FirstSeq, 1))]
         /\ net' = Sent(net, StatePkt(k, conn'[k], FALSE))
         /\ route' = k
         /\ acceptCh' = Append(acceptCh, k)
  /\ UNCHANGED <<plan, dial, syns, loop>>

Accept ==
  /\ acceptCh # <<>>
  /\ conn' = [conn EXCEPT ![Head(acceptCh)].state = "open"]
  /\ acceptCh' = Tail(acceptCh)
  /\ UNCHANGED <<plan, dial, syns, net, route, loop>>

\* The connection a packet is for: the client's read loop runs from the end of
\* the dial until a FIN arrives or the socket is closed.
Routed(p) ==
  IF p.to = "server" THEN IF route = 0 THEN {} ELSE {route}
  ELSE IF dial = "open" /\ ~conn[0].fin THEN {0} ELSE {}

-----------------------------------------------------------------------------
(* Packets of a connection. *)

\* Buffered packets that follow the expected one without a gap.
Run(c) ==
  CHOOSE k \in 0 .. Cardinality(DOMAIN c.reorder) :
    /\ \A i \in 1 .. k : Plus(c.next, i) \in DOMAIN c.reorder
    /\ Plus(c.next, k + 1) \notin DOMAIN c.reorder

\* Mutant: a packet that is not ahead of its turn is delivered.
deliverDuplicates(c, seq, n) ==
  IF wrappingGT(seq, c.next)
  THEN [c |-> [c EXCEPT !.reorder = [s \in DOMAIN @ \cup {seq} |-> IF s = seq THEN n ELSE @[s]]],
        todo |-> <<>>]
  ELSE LET k == Run(c)
       IN  [c |-> [c EXCEPT !.next = Plus(@, k + 1), !.ack = Plus(c.next, k), !.rcvd = @ + k + 1,
                            !.reorder = [s \in DOMAIN @ \ {Plus(c.next, i) : i \in 1 .. k} |-> @[s]]],
            todo |-> <<n>> \o [i \in 1 .. k |-> c.reorder[Plus(c.next, i)]]]

\* The expected packet is delivered with those buffered behind it; one further
\* ahead is buffered if there is room; any other is old, and dropped.
deliverInOrder(c, seq, n) ==
  IF seq = c.next
  THEN LET k == Run(c)
       IN  [c |-> [c EXCEPT !.next = Plus(@, k + 1), !.ack = Plus(c.next, k), !.rcvd = @ + k + 1,
                            !.reorder = [s \in DOMAIN @ \ {Plus(c.next, i) : i \in 1 .. k} |-> @[s]]],
            todo |-> <<n>> \o [i \in 1 .. k |-> c.reorder[Plus(c.next, i)]]]
  ELSE IF wrappingGT(seq, c.next) /\ Cardinality(DOMAIN c.reorder) < ReorderMax
  THEN [c |-> [c EXCEPT !.reorder = [s \in DOMAIN @ \cup {seq} |-> IF s = seq THEN n ELSE @[s]]],
        todo |-> <<>>]
  ELSE [c |-> c, todo |-> <<>>]

\* The chunks ts are sent to recvCh as far as there is room, and the read loop
\* of side sd waits with the others; after the last one it acknowledges.
Push(sd, e, c, ts) ==
  LET room == RecvCap - Len(c.inbox)
      k == IF Len(ts) < room THEN Len(ts) ELSE room
      d == [c EXCEPT !.inbox = @ \o SubSeq(ts, 1, k)]
  IN  /\ conn' = [conn EXCEPT ![e] = d]
      /\ loop' = [loop EXCEPT ![sd] = IF k = Len(ts) THEN Idle
                                      ELSE [conn |-> e, todo |-> SubSeq(ts, k + 1, Len(ts))]]
      /\ net' = IF k < Len(ts) \/ (e = 0 /\ dial = "gone") THEN net ELSE Sent(net, StatePkt(e, d, TRUE))

\* On a closed connection the loop may stop before any of the chunks.
Kept(c, ts) == IF c.closed THEN {SubSeq(ts, 1, j) : j \in 0 .. Len(ts)} ELSE {ts}

\* DATA.
HandleData(p) ==
  /\ p.type = "data" /\ loop[p.to] = Idle
  /\ \E e \in Routed(p) :
       LET d == deliverInOrder([conn[e] EXCEPT !.rwnd = remoteWnd(p.wnd)], p.seq, p.n)
       IN  \E ts \in Kept(d.c, d.todo) : Push(p.to, e, d.c, ts)
  /\ UNCHANGED <<plan, dial, syns, route, acceptCh>>

\* The read loop goes on when there is room, or the connection is closed.
Resume(sd) ==
  /\ loop[sd] # Idle
  /\ LET c == conn[loop[sd].conn]
     IN  /\ Len(c.inbox) < RecvCap \/ c.closed
         /\ \E ts \in Kept(c, loop[sd].todo) : Push(sd, loop[sd].conn, c, ts)
  /\ UNCHANGED <<plan, dial, syns, route, acceptCh>>

\* Mutant: a plain comparison.
AckedPlain(c, ack) == {n \in DOMAIN c.buf : c.buf[n].seq <= ack}

\* The chunks that a cumulative acknowledgement covers.
Acked(c, ack) == {n \in DOMAIN c.buf : wrappingLEQ(c.buf[n].seq, ack)}

\* STATE.
HandleState(p) ==
  /\ p.type = "state" /\ loop[p.to] = Idle
  /\ \E e \in Routed(p) :
       LET c == [conn[e] EXCEPT !.rwnd = remoteWnd(p.wnd),
                                !.buf = [n \in DOMAIN @ \ Acked(conn[e], p.ack) |-> @[n]]]
       IN  conn' = [conn EXCEPT ![e] = IF p.owd THEN OnAck(c) ELSE c]
  /\ UNCHANGED <<plan, dial, syns, net, route, acceptCh, loop>>

\* FIN: no acknowledgement; the listener forgets the connection, the client's
\* read loop ends.
HandleFin(p) ==
  /\ p.type = "fin" /\ loop[p.to] = Idle
  /\ \E e \in Routed(p) :
       /\ conn' = [conn EXCEPT ![e].closed = TRUE, ![e].fin = TRUE]
       /\ route' = IF e = 0 THEN route ELSE 0
  /\ UNCHANGED <<plan, dial, syns, net, acceptCh, loop>>

-----------------------------------------------------------------------------
(* The application's calls. *)

\* Write checks closed, once...
WriteBegins(e) ==
  /\ conn[e].state = "open" /\ ~conn[e].writing /\ ~conn[e].closed
  /\ conn[e].sent < plan.writes[e]
  /\ conn' = [conn EXCEPT ![e].writing = TRUE]
  /\ UNCHANGED <<plan, dial, syns, net, route, acceptCh, loop>>

\* The place in the cycle of the next packet: a FIN has taken a number too.
Count(e) == conn[e].sent + (IF conn[e].closed THEN 2 ELSE 1)

\* The writer is never half a cycle ahead of its peer, or of a packet that it
\* may still repeat.
HalfCycle(e) ==
  /\ 2 * (Count(e) - conn[IF e = 0 THEN route ELSE 0].rcvd) < SeqMod
  /\ \A n \in DOMAIN conn[e].buf : 2 * (Count(e) - n) < SeqMod

\* ... waits for the windows, numbers the packet, buffers it, sends it and
\* counts it as in flight; the loop goes on if there is more to write.
WriteSends(e) ==
  LET c == conn[e]
      n == c.sent + 1
      seq == Plus(c.seq, 1)
      wnd == RecvCap - Len(c.inbox)
  IN  /\ c.writing /\ \E w \in effectiveCanSend(c) : w > 0
      /\ HalfCycle(e) /\ (e = 0 => dial = "open")
      /\ conn' = [conn EXCEPT ![e] =
           OnSend([@ EXCEPT !.writing = n < plan.writes[e], !.sent = n, !.seq = seq,
                            !.buf = [m \in DOMAIN @ \cup {n} |->
                              IF m = n THEN [seq |-> seq, wnd |-> wnd, retries |-> 0] ELSE @[m]]])]
      /\ net' = Sent({p \in net : Fresh(e, Count(e), p)}, DataPkt(e, seq, wnd, n))
      /\ UNCHANGED <<plan, dial, syns, route, acceptCh, loop>>

\* The wait for the windows ends with an error when the connection is closed or
\* the deadline has passed, and a write on the closed socket fails.
WriteFails(e) ==
  /\ conn[e].writing
  /\ (\E w \in effectiveCanSend(conn[e]) : w <= 0) \/ (e = 0 /\ dial = "gone")
  /\ conn' = [conn EXCEPT ![e].writing = FALSE]
  /\ UNCHANGED <<plan, dial, syns, net, route, acceptCh, loop>>

\* A read takes what is there, or, once the connection is closed, fails: the
\* select picks either.
Read(e) ==
  /\ conn[e].state = "open" /\ ~conn[e].done
  /\ \/ /\ conn[e].inbox # <<>>
        /\ conn' = [conn EXCEPT ![e].read = Append(@, Head(conn[e].inbox)), ![e].inbox = Tail(@)]
     \/ /\ conn[e].closed
        /\ conn' = [conn EXCEPT ![e].done = TRUE]
  /\ UNCHANGED <<plan, dial, syns, net, route, acceptCh, loop>>

\* Close sends a FIN, which takes a sequence number and is not repeated.
Close(e) ==
  /\ e \in plan.closers /\ conn[e].state = "open" /\ ~conn[e].closed
  /\ conn' = [conn EXCEPT ![e].closed = TRUE, ![e].done = TRUE, ![e].seq = Plus(@, 1)]
  /\ net' = Sent(net, FinPkt(e))
  /\ UNCHANGED <<plan, dial, syns, route, acceptCh, loop>>

\* Half a second later, or with the FIN acknowledged, the client's socket goes.
CloseEnds ==
  /\ dial = "open" /\ conn[0].closed /\ conn[0].done
  /\ dial' = "gone"
  /\ UNCHANGED <<plan, conn, syns, net, route, acceptCh, loop>>

-----------------------------------------------------------------------------
(* The retransmission loop, which ends with the connection. *)

\* A packet that has been repeated often enough is forgotten.
GiveUp(e, n) ==
  /\ ~conn[e].closed /\ conn[e].buf[n].retries >= MaxRetransmits
  /\ conn' = [conn EXCEPT ![e] =
       [@ EXCEPT !.lost = @ \cup {n}, !.buf = [m \in DOMAIN @ \ {n} |-> @[m]]]]
  /\ UNCHANGED <<plan, dial, syns, net, route, acceptCh, loop>>

\* Mutant: the retries are not counted.
RetransmitForever(e, n) ==
  /\ ~conn[e].closed /\ conn[e].buf[n].retries < MaxRetransmits
  /\ conn' = [conn EXCEPT ![e] = OnTimeout(@)]
  /\ net' = Sent(net, DataPkt(e, conn[e].buf[n].seq, conn[e].buf[n].wnd, n))
  /\ UNCHANGED <<plan, dial, syns, route, acceptCh, loop>>

Retransmit(e, n) ==
  /\ ~conn[e].closed /\ conn[e].buf[n].retries < MaxRetransmits
  /\ conn' = [conn EXCEPT ![e] = OnTimeout([@ EXCEPT !.buf[n].retries = @ + 1])]
  /\ net' = Sent(net, DataPkt(e, conn[e].buf[n].seq, conn[e].buf[n].wnd, n))
  /\ UNCHANGED <<plan, dial, syns, route, acceptCh, loop>>

\* The network loses a packet, or what is left of it.
Lose(p) ==
  /\ net' = net \ {p}
  /\ UNCHANGED <<plan, conn, dial, syns, route, acceptCh, loop>>

-----------------------------------------------------------------------------
Init ==
  /\ plan \in Plans
  /\ conn = [e \in End |-> NewConn("none", 0, 0)]
  /\ dial = "idle" /\ syns = 0
  /\ net = {} /\ route = 0 /\ acceptCh = <<>>
  /\ loop = [sd \in Side |-> Idle]

Dial == SendSyn \/ DialFails \/ \E p \in net : DialAnswered(p)

Deliver(p) == HandleSyn(p) \/ HandleData(p) \/ HandleState(p) \/ HandleFin(p)

Timer(e) == \E n \in DOMAIN conn[e].buf : Retransmit(e, n) \/ GiveUp(e, n)

Next ==
  \/ Dial \/ Accept \/ CloseEnds
  \/ \E p \in net : Deliver(p) \/ Lose(p)
  \/ \E sd \in Side : Resume(sd)
  \/ \E e \in End :
       WriteBegins(e) \/ WriteSends(e) \/ WriteFails(e) \/ Read(e) \/ Close(e) \/ Timer(e)

Spec == Init /\ [][Next]_vars

\* The retransmission loops run.
FairSpec == Spec /\ \A e \in End : WF_vars(Timer(e))

-----------------------------------------------------------------------------
(* Properties. *)

\* What Read returns at each of the listener's connections is what the client
\* wrote, in order and once (deliverInOrder and Read
\* against Write and the retransmission loop).
Stream == INSTANCE UtpStream
            WITH Reader <- Server, written <- conn[0].sent, read <- [k \in Server |-> conn[k].read]

ServerStreams == Stream!StreamSpec

\* The other direction, while a single SYN has reached the listener.
ClientStream ==
  2 \notin {k \in Server : conn[k].state # "none"} =>
    \A i \in 1 .. Len(conn[0].read) : conn[0].read[i] = i /\ i <= conn[1].sent

\* A chunk leaves sendBuf when a connection of the listener has it in order, or
\* after the last retry.
NothingForgotten ==
  \A n \in 1 .. conn[0].sent :
    n \in DOMAIN conn[0].buf \cup conn[0].lost \/ \E k \in Server : conn[k].rcvd >= n

\* deliverInOrder, handleAck and retransmitLoop: what the client reads is what its
\* peer wrote, in order and once, and no chunk of the client's is dropped from sendBuf
\* before it has arrived or been given up.
ConnSound == ClientStream /\ NothingForgotten

\* Nothing stays in the send buffer of an open connection: it is acknowledged, or
\* the connection given up (handleAck, retransmitLoop).
BufferDrains == \A e \in End : conn[e].buf # <<>> ~> (conn[e].buf = <<>> \/ conn[e].closed)
=============================================================================

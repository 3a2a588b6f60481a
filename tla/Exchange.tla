------------------------------ MODULE Exchange ------------------------------
(***************************************************************************)
(* A piece on its way between two clients: Client.DownloadPiece and what   *)
(* comes before it on a connection (download/download.go), against the     *)
(* listener, uploader and choking loop of Serving at the other end.  The   *)
(* peer D of Serving is a download worker; what either side writes is in   *)
(* a stream that the other has not read yet.  Both handshakes offer the    *)
(* fast extension, and messages that neither side acts on are left out.    *)
(***************************************************************************)
EXTENDS Serving

CONSTANTS
  D,               \* the peer that is a download worker, in plans with plan.fetch
  Lengths,         \* the pieces' lengths in bytes, all but the last the same
  BlockSize,       \* 16384 in the code
  Targets,         \* what PipelineTarget may return
  maxUnexpectedMessages,
  StreamCap        \* messages to D that the connection buffers; requests, which are
                   \* small and at most Targets many, always find room

ASSUME ExchangeConstants ==
  /\ D \in Peer /\ BlockSize \in Nat \ {0} /\ Targets \subseteq Nat \ {0} /\ StreamCap \in Nat \ {0}
  /\ Piece = 1 .. Len(Lengths) /\ \A i \in Piece : Lengths[i] \in 1 .. Lengths[1]
  /\ \A q \in Plans : q.fetch => q.done /\ D \in q.stay \ q.asks

VARIABLES
  cl,              \* D's worker and its Client
  toServer,        \* the streams
  toClient,
  answer           \* what serveLoop is about to write to D: one message, or none

xvars == <<vars, cl, toServer, toClient, answer>>

NewClient ==
  [pc |-> "init",          \* newClientFull; then "idle", DownloadPiece, and "closed"
   reads |-> 0,            \* messages newClientFull has read
   haveAll |-> FALSE,      \* the peer said that it has every piece
   choked |-> TRUE, sentInterested |-> FALSE,
   piece |-> 0, requested |-> 0, downloaded |-> 0, backlog |-> 0, noProgress |-> 0,
   buf |-> {}]             \* the bytes of the piece that are in buf

Msg(id, piece, begin, len) == [id |-> id, piece |-> piece, begin |-> begin, len |-> len]
Plain(id) == Msg(id, 0, 0, 0)

-----------------------------------------------------------------------------
(* The uploader's side. *)

\* What a step of Serving writes to D: its first message, a choke or an unchoke.
Sent ==
  LET c == conn[D]
      n == conn'[D]
  IN  IF ~plan.fetch THEN <<>>
      ELSE IF c.st = "listed" /\ n.st = "serving" THEN <<Plain("haveAll")>>
      ELSE IF c.wmu = Nobody /\ n.wmu # Nobody THEN <<Plain(IF n.told THEN "choke" ELSE "unchoke")>>
      ELSE <<>>

\* A step of Serving with what it writes; a write waits for room.
With(step) ==
  /\ step
  /\ toClient' = toClient \o Sent /\ (Sent # <<>> => Len(toClient) < StreamCap)
  /\ UNCHANGED <<cl, toServer, answer>>

TotalSize == Lengths[1] * (Len(Lengths) - 1) + Lengths[Len(Lengths)]

\* serveLoop's checks on a request.
Acceptable(m) ==
  /\ m.piece \in Piece /\ m.len <= 2 * BlockSize
  /\ Lengths[1] * (m.piece - 1) + m.begin + m.len <= TotalSize

\* Mutant of Reply: a request is dropped while D is choked.
ReplyUnlessChoked(m) ==
  IF conn[D].choking THEN <<>> ELSE <<[m EXCEPT !.id = "piece"]>>

\* What is written in answer to a request.
Reply(m) == <<[m EXCEPT !.id = IF conn[D].choking THEN "reject" ELSE "piece"]>>

\* serveLoop reads an interested message or a request.
ServeReads ==
  /\ Reads(D) /\ answer = <<>> /\ toServer # <<>>
  /\ toServer' = Tail(toServer)
  /\ LET m == Head(toServer)
     IN  \/ /\ m.id = "interested"
            /\ To(D, [conn[D] EXCEPT !.serve = IF conn[D].choking THEN "unchoke" ELSE "read"])
            /\ UNCHANGED answer
         \/ /\ m.id = "request"
            /\ IF conn[D].choking \/ Acceptable(m) THEN answer' = Reply(m) /\ UNCHANGED vars
               ELSE Unlisted(D) /\ UNCHANGED answer
  /\ UNCHANGED <<cl, toClient>>

\* The answer is written, without wmu.
ServeWrites ==
  /\ answer # <<>> /\ conn[D].open /\ Len(toClient) < StreamCap
  /\ toClient' = toClient \o answer /\ answer' = <<>>
  /\ UNCHANGED <<vars, cl, toServer>>

\* So it may meet a choke message in the writer's buffer: one overwrites the other, and
\* what D then reads is neither, or the answer alone.
WritesMeet(u) ==
  /\ answer # <<>> /\ pm[u].checked /\ Head(pm[u].todo).to = D /\ conn[D].open
  /\ Len(toClient) < StreamCap
  /\ PmWrites(u)
  /\ toClient' \in {Append(toClient, Plain("garbled")), toClient \o answer} /\ answer' = <<>>
  /\ UNCHANGED <<cl, toServer>>

-----------------------------------------------------------------------------
(* D's side: the start of a connection. *)

\* A step of the worker that leaves it in state c; in a Read it takes a message.
Client(c) == cl' = c /\ UNCHANGED <<vars, toClient, answer>>
Read(c) == cl' = c /\ toClient' = Tail(toClient) /\ UNCHANGED <<vars, toServer, answer>>

\* A failure ends the worker, which closes the connection: nothing more is read.
Close(pc) ==
  /\ cl' = [NewClient EXCEPT !.pc = pc]
  /\ conn' = [conn EXCEPT ![D].open = FALSE]
  /\ toServer' = <<>> /\ toClient' = <<>> /\ answer' = <<>>
  /\ UNCHANGED <<plan, sessionVars, up, pm>>

\* newClientFull reads up to three messages; one it has no use for is dropped and ends
\* the loop, ...
InitReads ==
  /\ cl.pc = "init" /\ toClient # <<>>
  /\ LET id == Head(toClient).id
     IN  Read([cl EXCEPT !.reads = @ + 1,
                         !.haveAll = @ \/ id = "haveAll",
                         !.choked = @ /\ id # "unchoke",
                         !.pc = IF cl.reads = 2 \/ id \notin {"haveAll", "unchoke"} THEN "idle" ELSE @])

\* ... and so does the deadline, any time after the handshake.
InitEnds ==
  /\ cl.pc = "init" /\ conn[D].st \in {"registered", "listed", "serving", "unlisted"}
  /\ Client([cl EXCEPT !.pc = "idle"]) /\ UNCHANGED toServer

\* The connection is refused, or already gone.
DialFails == cl.pc = "init" /\ conn[D].st = "gone" /\ Close("closed")

-----------------------------------------------------------------------------
(* DownloadPiece. *)

\* The worker picks a piece that the peer has; an interested message is sent once.
DownloadPiece ==
  /\ cl.pc = "idle" /\ cl.haveAll /\ cl.piece < Len(Lengths)
  /\ toServer' = IF cl.sentInterested THEN toServer ELSE Append(toServer, Plain("interested"))
  /\ Client([cl EXCEPT !.pc = IF cl.choked THEN "wait" ELSE "fill", !.sentInterested = TRUE,
                       !.piece = @ + 1, !.requested = 0, !.downloaded = 0, !.backlog = 0,
                       !.noProgress = 0, !.buf = {}])

\* waitForUnchoke.
WaitReads ==
  /\ cl.pc = "wait" /\ toClient # <<>>
  /\ LET id == Head(toClient).id
     IN  Read(IF id = "unchoke" THEN [cl EXCEPT !.choked = FALSE, !.pc = "fill"]
              ELSE IF id = "garbled" THEN [cl EXCEPT !.pc = "stuck"] ELSE cl)

\* Mutant of Block: the last block is as long as the others.
BlockUnclipped(from) == Msg("request", cl.piece, from, BlockSize)

\* The request for the block at `from`.
Block(from) == Msg("request", cl.piece, from, Min({BlockSize, Lengths[cl.piece] - from}))

\* The head of the loop: requests are written up to the target.
Fill ==
  /\ cl.pc = "fill" /\ cl.downloaded < Lengths[cl.piece]
  /\ \E target \in Targets :
       LET left == (Lengths[cl.piece] - cl.requested + BlockSize - 1) \div BlockSize
           n    == IF target <= cl.backlog THEN 0 ELSE Min({target - cl.backlog, left})
       IN  /\ toServer' = toServer \o [k \in 1 .. n |-> Block(cl.requested + (k - 1) * BlockSize)]
           /\ Client([cl EXCEPT !.pc = "read", !.backlog = @ + n,
                                !.requested = Min({@ + n * BlockSize, Lengths[cl.piece]})])

\* A block that ends the download: out of bounds, or one too many of another piece.
Unusable(m) ==
  m.id = "piece" /\ IF m.piece = cl.piece THEN m.begin + m.len > Lengths[cl.piece]
                    ELSE cl.noProgress >= maxUnexpectedMessages

\* Any other block.  When no request is left after a block of another piece, the rest
\* is requested again.
Received(m) ==
  IF m.piece = cl.piece
  THEN [cl EXCEPT !.noProgress = 0, !.downloaded = @ + m.len, !.backlog = @ - 1,
                  !.buf = @ \cup (m.begin .. m.begin + m.len - 1)]
  ELSE [cl EXCEPT !.noProgress = @ + 1, !.backlog = @ - 1,
                  !.requested = IF cl.backlog <= 1 THEN cl.downloaded ELSE @]

\* The rest of the loop reads a message.
ReadPiece ==
  /\ cl.pc = "read" /\ toClient # <<>>
  /\ LET m == Head(toClient)
         goesOn(c) == Read([c EXCEPT !.pc = "fill"])
     IN  \/ (m.id \in {"choke", "reject"} \/ Unusable(m)) /\ Close("closed")
         \/ m.id = "piece" /\ ~Unusable(m) /\ goesOn(Received(m))
         \/ m.id \in {"unchoke", "haveAll"} /\ goesOn([cl EXCEPT !.choked = @ /\ m.id # "unchoke"])
         \/ m.id = "garbled" /\ Read([cl EXCEPT !.pc = "stuck"])

\* The loop ends and the hash is compared.
Finish ==
  /\ cl.pc = "fill" /\ cl.downloaded >= Lengths[cl.piece]
  /\ IF cl.buf = 0 .. Lengths[cl.piece] - 1 THEN Client([cl EXCEPT !.pc = "idle"]) /\ UNCHANGED toServer
     ELSE Close("mismatch")

\* DownloadPiece's deadline, a connection that breaks, or a worker that is told to stop.
GiveUp == cl.pc \in {"idle", "wait", "read", "stuck"} /\ Close("closed")

-----------------------------------------------------------------------------
Worker ==
  \/ InitReads \/ InitEnds \/ DialFails \/ DownloadPiece \/ WaitReads \/ Fill \/ ReadPiece
  \/ Finish

XInit == Init /\ cl = NewClient /\ toServer = <<>> /\ toClient = <<>> /\ answer = <<>>

XNext ==
  \/ With(Next)
  \/ plan.fetch /\ (Worker \/ GiveUp \/ ServeReads \/ ServeWrites \/ \E u \in Uploader : WritesMeet(u))

XSpec == XInit /\ [][XNext]_xvars

\* Every goroutine runs on; one that waits for a sync.Mutex gets it in the end (hence
\* the strong fairness of ServeUnchokes); the optimistic ticker keeps firing, and
\* select does not pass it over for ever.  Peers need not do anything, but a worker of
\* ours does; no deadline has to pass.
FairSpec ==
  /\ XSpec
  /\ WF_xvars(With(Session))
  /\ \A p \in Peer : WF_xvars(With(Handling(p))) /\ SF_xvars(With(ServeUnchokes(p)))
  /\ WF_xvars(\E u \in Uploader : With(Sending(u)))
  /\ SF_xvars(\E u \in Uploader : With(rotateOptimistic(u)))
  /\ WF_xvars(plan.fetch /\ Worker) /\ WF_xvars(plan.fetch /\ (ServeReads \/ ServeWrites))

-----------------------------------------------------------------------------
(* Properties. *)

\* The requests that have not been answered, and the answers D has not read.
Requests == {k \in DOMAIN toServer : toServer[k].id = "request"}
Answers == {k \in DOMAIN toClient : toClient[k].id \in {"piece", "reject"}}
Garbled == \E k \in DOMAIN toClient : toClient[k].id = "garbled"

\* DownloadPiece and serveLoop (download.go:942-1074, upload.go:253-313): backlog is the
\* number of requests and answers under way, unless writes have met; every request lies
\* within its piece; a piece starts with no block of the one before under way; and all
\* bytes that were counted are there, so that the hash of a piece is never wrong.
PipelineExact ==
  plan.fetch =>
    /\ cl.pc \in {"idle", "wait", "fill", "read"} /\ ~Garbled =>
         Cardinality(Requests) + Len(answer) + Cardinality(Answers) = IF cl.pc = "idle" THEN 0 ELSE cl.backlog
    /\ \A k \in Requests : toServer[k].begin + toServer[k].len <= Lengths[toServer[k].piece]
    /\ cl.noProgress = 0 /\ cl.pc # "mismatch"

\* newClientFull, waitForUnchoke and DownloadPiece against SendUnchoke and SendChoke: a
\* worker is not left waiting for an unchoke or for blocks that nobody is going to send,
\* however the other side's choking loop and serveLoop interleave: without any help of
\* the deadline the piece is there or the connection given up, unless writes have met.
EndsByItself == []<>(cl.pc \notin {"wait", "fill", "read"})
=============================================================================

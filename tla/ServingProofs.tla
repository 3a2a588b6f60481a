--------------------------- MODULE ServingProofs ---------------------------
(***************************************************************************)
(* Proofs about Serving, for any number of peers, pieces, uploaders and    *)
(* unchoke slots, and any scenario: once Stop has returned nothing of the  *)
(* uploader runs or starts, and c.choking agrees with what the peer was    *)
(* told whenever c.wmu is free.                                            *)
(***************************************************************************)
EXTENDS Serving, TLAPS

\* Connections and uploaders have their fields; what those hold does not matter.
ConnFields == {"st", "up", "open", "known", "choking", "told", "wmu", "serve", "asked"}
UpFields == {"made", "tmp", "live", "stopped", "clients"}

Shaped ==
  /\ DOMAIN conn = Peer /\ \A p \in Peer : DOMAIN conn[p] = ConnFields
  /\ DOMAIN up = Uploader /\ \A u \in Uploader : DOMAIN up[u] = UpFields

IInv == Shaped /\ StoppedIsQuiet /\ ChokeAgrees

InUploader == {"in", "registered", "listed", "serving", "unlisted"}

LEMMA ServingInit == Init => IInv
  <1> SUFFICES ASSUME Init PROVE IInv
    OBVIOUS
  <1>1. Shaped
    BY DEF Init, Shaped, ConnFields, UpFields, NoConn, Unmade
  <1>2. StoppedIsQuiet
    BY DEF Init, StoppedIsQuiet, Unmade
  <1>3. ChokeAgrees
    BY DEF Init, ChokeAgrees, NoConn
  <1> QED  BY <1>1, <1>2, <1>3 DEF IInv

\* Uploaders neither start nor stop: a connection may enter one only if that is not
\* stopped, and wmu is free only with flag and message in agreement.
LEMMA StepKeeps ==
  ASSUME IInv, Shaped', phase' = phase,
         \A u \in Uploader : up'[u].stopped = up[u].stopped /\ up'[u].made = up[u].made,
         \A p \in Peer : conn'[p].st \in InUploader =>
            \/ conn[p].st \in InUploader /\ conn'[p].up = conn[p].up
            \/ ~up[conn'[p].up].stopped,
         \A p \in Peer : conn'[p].wmu = Nobody => conn'[p].choking = conn'[p].told
  PROVE  IInv'
  <1> USE DEF IInv
  <1>1. Newest' = Newest
    BY DEF Newest
  <1>2. StoppedIsQuiet'
    BY <1>1 DEF StoppedIsQuiet, Counted, InUploader
  <1>3. ChokeAgrees'
    BY DEF ChokeAgrees
  <1> QED  BY <1>2, <1>3

\* The same for one connection, the uploaders unchanged.
LEMMA ConnStep ==
  ASSUME IInv, NEW p \in Peer, NEW c, DOMAIN c = ConnFields,
         conn' = [conn EXCEPT ![p] = c], UNCHANGED <<up, phase>>,
         c.st \in InUploader => \/ conn[p].st \in InUploader /\ c.up = conn[p].up
                                \/ ~up[c.up].stopped,
         c.wmu = Nobody => c.choking = c.told
  PROVE  IInv'
  <1>1. \A q \in Peer : conn'[q] = IF q = p THEN c ELSE conn[q]
    BY DEF IInv, Shaped
  <1>2. Shaped'
    BY <1>1 DEF IInv, Shaped
  <1>3. \A q \in Peer : conn'[q].wmu = Nobody => conn'[q].choking = conn'[q].told
    BY <1>1 DEF IInv, ChokeAgrees
  <1>4. \A q \in Peer : conn'[q].st \in InUploader =>
            \/ conn[q].st \in InUploader /\ conn'[q].up = conn[q].up
            \/ ~up[conn'[q].up].stopped
    BY <1>1
  <1> QED  BY <1>2, <1>3, <1>4, StepKeeps

\* p's connection moves on to c, neither into an uploader nor through wmu.
LEMMA PlainStep ==
  ASSUME IInv, NEW p \in Peer, NEW c, DOMAIN c = ConnFields, To(p, c),
         c.st \in InUploader => conn[p].st \in InUploader /\ c.up = conn[p].up,
         c.choking = conn[p].choking, c.told = conn[p].told, c.wmu = conn[p].wmu
  PROVE  IInv'
  BY ConnStep DEF To, IInv, ChokeAgrees, sessionVars

\* Leaving an uploader's list, or joining it.
LEMMA ListStep ==
  ASSUME IInv, NEW p \in Peer, NEW S, up' = [up EXCEPT ![conn[p].up].clients = S],
         NEW c, DOMAIN c = ConnFields, conn' = [conn EXCEPT ![p] = c],
         conn[p].st \in InUploader, c.up = conn[p].up,
         c.choking = conn[p].choking, c.told = conn[p].told, c.wmu = conn[p].wmu,
         UNCHANGED phase
  PROVE  IInv'
  <1>1. \A q \in Peer : conn'[q] = IF q = p THEN c ELSE conn[q]
    BY DEF IInv, Shaped
  <1>2. \A u \in Uploader : /\ DOMAIN up'[u] = UpFields
                            /\ up'[u].stopped = up[u].stopped /\ up'[u].made = up[u].made
    BY DEF IInv, Shaped, UpFields
  <1>3. Shaped'
    BY <1>1, <1>2 DEF IInv, Shaped
  <1>4. \A q \in Peer : conn'[q].wmu = Nobody => conn'[q].choking = conn'[q].told
    BY <1>1 DEF IInv, ChokeAgrees
  <1> QED  BY <1>1, <1>2, <1>3, <1>4, StepKeeps

LEMMA HandlingKeeps ==
  ASSUME IInv, NEW p \in Peer, Handling(p) \/ Remote(p)
  PROVE  IInv'
  <1> DEFINE c == conn[p]
  <1>0. DOMAIN c = ConnFields /\ DOMAIN Gone(p) = ConnFields /\ (c.wmu = Nobody => c.choking = c.told)
    BY DEF IInv, Shaped, Gone, ChokeAgrees
  <1>g. /\ Gone(p).st = "gone" /\ Gone(p).choking = c.choking
        /\ Gone(p).told = c.told /\ Gone(p).wmu = c.wmu
    BY <1>0 DEF Gone, ConnFields
  <1>g2. ASSUME To(p, Gone(p)) PROVE IInv'
    BY <1>g2, <1>0, <1>g, PlainStep DEF InUploader
  <1>1. CASE Accept(p)
    <2> DEFINE n == [NoConn EXCEPT !.st = "accepted", !.open = TRUE]
    <2>1. DOMAIN n = ConnFields /\ n.st = "accepted" /\ n.choking = n.told
      BY DEF NoConn, ConnFields
    <2>2. CASE To(p, n)
      BY <2>1, <2>2, ConnStep DEF To, sessionVars, InUploader
    <2> QED  BY <1>1, <1>g2, <2>2 DEF Accept
  <1>2. CASE FindHandler(p)
    BY <1>2, <1>0, <1>g2, PlainStep DEF FindHandler, ConnFields, InUploader
  <1>3. CASE Route(p)
    BY <1>3, <1>0, <1>g2, PlainStep DEF Route, ConnFields, InUploader
  <1>4. CASE Enter(p)
    <2>1. CASE ~up[c.up].stopped
      BY <1>4, <1>0, <2>1, ConnStep DEF Enter, To, sessionVars, ConnFields
    <2> QED  BY <1>4, <1>g2, <2>1 DEF Enter
  <1>5. CASE HandshakeFails(p)
    BY <1>5, <1>g2 DEF HandshakeFails
  <1>6. CASE Register(p)
    <2>1. conn' = [conn EXCEPT ![p] = [c EXCEPT !.st = "registered"]]
      BY <1>6 DEF Register
    <2> QED  BY <1>6, <2>1, <1>0, ConnStep DEF Register, At, sessionVars, ConnFields, InUploader
  <1>7. CASE List(p)
    <2>1. conn' = [conn EXCEPT ![p] = [c EXCEPT !.st = "listed"]]
      BY <1>7 DEF List
    <2>2. up' = [up EXCEPT ![c.up].clients = up[c.up].clients \cup {p}]
      BY <1>7 DEF List
    <2> QED  BY <1>7, <2>1, <2>2, <1>0, ListStep DEF List, At, sessionVars, ConnFields, InUploader
  <1>8. ASSUME Unlisted(p), c.st \in InUploader PROVE IInv'
    <2>1. conn' = [conn EXCEPT ![p] = [c EXCEPT !.st = "unlisted", !.open = FALSE]]
      <3>1. \A q \in Peer : conn'[q] = IF q = p THEN [c EXCEPT !.st = "unlisted", !.open = FALSE] ELSE conn[q]
        BY <1>8, <1>0 DEF Unlisted, IInv, Shaped
      <3> QED  BY <1>8, <3>1 DEF Unlisted, IInv, Shaped
    <2>2. up' = [up EXCEPT ![c.up].clients = up[c.up].clients \ {p}]
      BY <1>8 DEF Unlisted
    <2> QED  BY <1>8, <2>1, <2>2, <1>0, ListStep DEF Unlisted, sessionVars, ConnFields
  <1>9. CASE SendBitfield(p)
    <2>1. CASE To(p, [c EXCEPT !.st = "serving", !.known = have[c.up]])
      BY <1>9, <2>1, <1>0, PlainStep DEF SendBitfield, At, ConnFields, InUploader
    <2> QED  BY <1>9, <1>8, <2>1 DEF SendBitfield, At, InUploader
  <1>10. CASE ServeEnds(p)
    BY <1>10, <1>8 DEF ServeEnds, At, InUploader
  <1>11. CASE Unregister(p)
    <2>1. conn' = [conn EXCEPT ![p] = [c EXCEPT !.st = "gone"]]
      BY <1>11 DEF Unregister
    <2> QED  BY <1>11, <2>1, <1>0, ConnStep DEF Unregister, sessionVars, ConnFields, InUploader
  <1>12. CASE ServeUnchokes(p)
    <2>1. CASE c.open
      <3>1. To(p, [c EXCEPT !.told = FALSE, !.wmu = "serve"])
        BY <1>12, <2>1 DEF ServeUnchokes, Written
      <3> QED  BY <3>1, <1>0, ConnStep DEF To, sessionVars, ConnFields, Nobody
    <2>2. CASE ~c.open
      <3>1. To(p, [c EXCEPT !.serve = "read"])
        BY <1>12, <2>2 DEF ServeUnchokes, Written
      <3> QED  BY <3>1, <1>0, PlainStep DEF ConnFields
    <2> QED  BY <2>1, <2>2
  <1>13. CASE ServeUnchoked(p)
    <2> DEFINE d == [Flagged(c) EXCEPT !.serve = "read"]
    <2>1. DOMAIN d = ConnFields /\ d.st = c.st /\ d.up = c.up /\ d.choking = d.told
      BY <1>0 DEF Flagged, ConnFields
    <2>2. To(p, d)
      BY <1>13 DEF ServeUnchoked
    <2> HIDE DEF d
    <2> QED  BY <2>1, <2>2, ConnStep DEF To, sessionVars
  <1>14. CASE Answer(p)
    BY <1>14, <1>0, PlainStep DEF Answer, ConnFields
  <1>15. CASE PeerLeaves(p)
    BY <1>15, <1>0, PlainStep DEF PeerLeaves, ConnFields
  <1>16. CASE Interested(p)
    BY <1>16, <1>0, PlainStep DEF Interested, ConnFields
  <1>17. CASE Request(p)
    BY <1>17, <1>0, PlainStep DEF Request, ConnFields
  <1> QED
    BY <1>1, <1>2, <1>3, <1>4, <1>5, <1>6, <1>7, <1>9, <1>10, <1>11, <1>12, <1>13, <1>14,
       <1>15, <1>16, <1>17 DEF Handling, Remote

\* The session's steps that touch neither connections nor uploaders, and those of a
\* choking loop: only Stop's own phases matter.
LEMMA SameConns ==
  ASSUME IInv, UNCHANGED <<conn, up>>, phase # "stopping" \/ Counted(Newest) = {},
         phase' # "stopping"
  PROVE  IInv'
  <1>1. StoppedIsQuiet'
    BY DEF IInv, StoppedIsQuiet, Counted, Newest
  <1> QED  BY <1>1 DEF IInv, Shaped, ChokeAgrees

\* A new uploader, which is not stopped.
LEMMA NewStep ==
  ASSUME IInv, NEW n, NEW r, DOMAIN r = UpFields, ~r.stopped, up' = [up EXCEPT ![n] = r],
         phase # "stopping", phase' # "stopping", UNCHANGED conn
  PROVE  IInv'
  <1>1. \A u \in Uploader : up'[u] = IF u = n THEN r ELSE up[u]
    BY DEF IInv, Shaped
  <1>2. StoppedIsQuiet'
    BY <1>1 DEF IInv, StoppedIsQuiet, Counted
  <1> QED  BY <1>1, <1>2 DEF IInv, Shaped, ChokeAgrees

\* Connections learn of a piece or are closed, or nothing about them changes.
LEMMA TellStep ==
  ASSUME IInv, UNCHANGED <<up, phase>>, DOMAIN conn' = Peer,
         \A p \in Peer : /\ DOMAIN conn'[p] = ConnFields
                         /\ conn'[p].st = conn[p].st /\ conn'[p].up = conn[p].up
                         /\ conn'[p].choking = conn[p].choking /\ conn'[p].told = conn[p].told
                         /\ conn'[p].wmu = conn[p].wmu
  PROVE  IInv'
  <1>1. Shaped'
    BY DEF IInv, Shaped
  <1>2. \A p \in Peer : conn'[p].wmu = Nobody => conn'[p].choking = conn'[p].told
    BY DEF IInv, ChokeAgrees
  <1> QED  BY <1>1, <1>2, StepKeeps

LEMMA SessionKeeps ==
  ASSUME IInv, Session \/ Pause
  PROVE  IInv'
  <1> USE DEF sessionVars
  <1>0. \A p \in Peer : DOMAIN conn[p] = ConnFields
    BY DEF IInv, Shaped
  <1>n. ASSUME NEW b
        PROVE  LET r == NewUploader(b) IN
               /\ DOMAIN r = UpFields /\ ~r.stopped
               /\ DOMAIN [r EXCEPT !.live = TRUE] = UpFields /\ ~[r EXCEPT !.live = TRUE].stopped
    BY DEF NewUploader, UpFields
  <1>1. CASE BeginDownload
    BY <1>1, <1>n, NewStep DEF BeginDownload
  <1>2. CASE BeginSeeding
    BY <1>2, <1>n, NewStep DEF BeginSeeding
  <1>3. CASE SetPiece \/ \E i \in Piece : OnPiece(i)
    BY <1>3, <1>0, TellStep DEF SetPiece, OnPiece, IInv, Shaped
  <1>4. CASE SendHave
    <2>1. CASE UNCHANGED conn
      BY <1>4, <2>1, <1>0, TellStep DEF SendHave, IInv, Shaped
    <2>2. ASSUME NEW q, NEW k, conn' = [conn EXCEPT ![q].known = k]
          PROVE  IInv'
      <3>1. \A p \in Peer : conn'[p] = IF p = q THEN [conn[p] EXCEPT !.known = k] ELSE conn[p]
        BY <2>2 DEF IInv, Shaped
      <3>2. \A p \in Peer : /\ DOMAIN conn'[p] = ConnFields
                         /\ conn'[p].st = conn[p].st /\ conn'[p].up = conn[p].up
                         /\ conn'[p].choking = conn[p].choking /\ conn'[p].told = conn[p].told
                         /\ conn'[p].wmu = conn[p].wmu
        BY <3>1, <1>0 DEF ConnFields
      <3>3. DOMAIN conn' = Peer
        BY <2>2 DEF IInv, Shaped
      <3> QED  BY <1>4, <3>2, <3>3, TellStep DEF SendHave
    <2> QED  BY <1>4, <2>1, <2>2 DEF SendHave
  <1>5. CASE \E p \in Peer : StopCloses(p)
    <2> PICK q \in Peer : StopCloses(q)
      BY <1>5
    <2>1. conn' = [conn EXCEPT ![q] = [conn[q] EXCEPT !.open = FALSE]] /\ UNCHANGED <<up, phase>>
      BY DEF StopCloses
    <2>2. conn[q].wmu = Nobody => conn[q].choking = conn[q].told
      BY DEF IInv, ChokeAgrees
    <2> QED  BY <2>1, <2>2, <1>0, ConnStep DEF ConnFields
  <1>6. CASE DownloadCancelled \/ DownloadComplete \/ SeedingEnds
    BY <1>6, SameConns DEF DownloadCancelled, DownloadComplete, SeedingEnds
  <1>7. CASE StopBegins
    <2>1. \A u \in Uploader : /\ DOMAIN up'[u] = UpFields /\ up'[u].made = up[u].made
                              /\ u # Newest => up'[u] = up[u]
      BY <1>7 DEF StopBegins, IInv, Shaped, UpFields
    <2>2. Newest' = Newest
      BY <2>1 DEF Newest
    <2>3. StoppedIsQuiet'
      BY <1>7, <2>1, <2>2 DEF StopBegins, IInv, StoppedIsQuiet, Counted
    <2> QED  BY <1>7, <2>1, <2>3 DEF StopBegins, IInv, Shaped, ChokeAgrees
  <1>8. CASE StopWaits
    BY <1>8, SameConns DEF StopWaits
  <1>9. CASE Move
    BY <1>9, <1>n, NewStep, SameConns DEF Move
  <1>10. CASE MarkAll
    <2>1. \A p \in Peer : conn'[p] = conn[p] \/ conn'[p] = [conn[p] EXCEPT !.known = Piece]
      BY <1>10 DEF MarkAll
    <2>2. \A p \in Peer : /\ DOMAIN conn'[p] = ConnFields
                          /\ conn'[p].st = conn[p].st /\ conn'[p].up = conn[p].up
                          /\ conn'[p].choking = conn[p].choking /\ conn'[p].told = conn[p].told
                          /\ conn'[p].wmu = conn[p].wmu
      BY <2>1, <1>0 DEF ConnFields
    <2>3. Shaped' /\ ChokeAgrees'
      BY <1>10, <2>2 DEF MarkAll, IInv, Shaped, ChokeAgrees
    <2>4. StoppedIsQuiet'
      BY <1>10, <2>2 DEF MarkAll, IInv, StoppedIsQuiet, Counted
    <2> QED  BY <2>3, <2>4 DEF IInv
  <1>11. CASE Pause
    <2>1. \A u \in Uploader : up'[u] = [up[u] EXCEPT !.live = FALSE]
      BY <1>11 DEF Pause
    <2>2. \A u \in Uploader : /\ DOMAIN up'[u] = UpFields
                              /\ up'[u].stopped = up[u].stopped /\ up'[u].made = up[u].made
      BY <2>1 DEF IInv, Shaped, UpFields
    <2>3. Shaped'
      BY <1>11, <2>2 DEF Pause, IInv, Shaped
    <2> QED  BY <1>11, <2>2, <2>3, StepKeeps DEF Pause, IInv, ChokeAgrees
  <1> QED
    BY <1>1, <1>2, <1>3, <1>4, <1>5, <1>6, <1>7, <1>8, <1>9, <1>10, <1>11 DEF Session

LEMMA ChokingKeeps ==
  ASSUME IInv, NEW u \in Uploader, Sending(u) \/ rechoke(u) \/ rotateOptimistic(u)
  PROVE  IInv'
  <1> USE DEF sessionVars, Sends
  <1> DEFINE q == Head(pm[u].todo).to
             c == conn[q]
  <1>s. UNCHANGED <<up, phase>>
    BY DEF Sending, PmChecks, PmWrites, PmFlags, rechoke, rotateOptimistic
  <1>0. q \in Peer => DOMAIN c = ConnFields
    BY DEF IInv, Shaped
  <1>1. CASE UNCHANGED conn
    BY <1>1, <1>s DEF IInv, Shaped, StoppedIsQuiet, ChokeAgrees, Counted, Newest
  <1>2. ASSUME NEW d, conn' = [conn EXCEPT ![q] = d], q \notin Peer
        PROVE  IInv'
    <2>1. DOMAIN conn' = Peer /\ \A p \in Peer : conn'[p] = conn[p]
      BY <1>2 DEF IInv, Shaped
    <2> QED  BY <1>s, <2>1, TellStep DEF IInv, Shaped
  <1>3. CASE PmWrites(u)
    <2> DEFINE d == Written(c, Head(pm[u].todo).choke, "pm")
    <2>1. conn' = [conn EXCEPT ![q] = d] /\ c.wmu = Nobody
      BY <1>3 DEF PmWrites
    <2>2. CASE q \in Peer
      <3>1. /\ DOMAIN d = ConnFields /\ d.st = c.st /\ d.up = c.up
            /\ d.wmu = Nobody => d.choking = d.told
        BY <1>0, <2>1, <2>2 DEF Written, ConnFields, Nobody, IInv, ChokeAgrees
      <3> HIDE DEF d
      <3> QED  BY <1>s, <2>1, <2>2, <3>1, ConnStep
    <2> QED  BY <1>2, <2>1, <2>2
  <1>4. CASE PmFlags(u)
    <2> DEFINE d == Flagged(c)
    <2>1. conn' = [conn EXCEPT ![q] = d]
      BY <1>4 DEF PmFlags
    <2>2. CASE q \in Peer
      <3>1. DOMAIN d = ConnFields /\ d.st = c.st /\ d.up = c.up /\ d.choking = d.told
        BY <1>0, <2>2 DEF Flagged, ConnFields
      <3> HIDE DEF d
      <3> QED  BY <1>s, <2>1, <2>2, <3>1, ConnStep
    <2> QED  BY <1>2, <2>1, <2>2
  <1>5. CASE PmChecks(u) \/ rechoke(u) \/ rotateOptimistic(u)
    BY <1>5, <1>1 DEF PmChecks, rechoke, rotateOptimistic
  <1> QED  BY <1>3, <1>4, <1>5 DEF Sending

LEMMA ServingNext == IInv /\ [Next]_vars => IInv'
  <1> SUFFICES ASSUME IInv, [Next]_vars PROVE IInv'
    OBVIOUS
  <1>1. CASE UNCHANGED vars
    BY <1>1 DEF vars, sessionVars, IInv, Shaped, StoppedIsQuiet, ChokeAgrees, Counted, Newest
  <1> QED  BY <1>1, SessionKeeps, HandlingKeeps, ChokingKeeps DEF Next

\* Stop (upload.go:59-82): once it has returned no goroutine of that uploader runs and
\* none starts, whatever number of peers connect, pause and leave meanwhile.
THEOREM StopIsFinal == Spec => []StoppedIsQuiet
  <1>1. IInv => StoppedIsQuiet
    BY DEF IInv
  <1> QED  BY <1>1, ServingInit, ServingNext, PTL DEF Spec

\* SendChoke and SendUnchoke (download.go:315-359): with wmu free, c.choking is what
\* the peer was told last, however the choking loop and serveLoop interleave.
THEOREM FlagFollowsMessage == Spec => []ChokeAgrees
  <1>1. IInv => ChokeAgrees
    BY DEF IInv
  <1> QED  BY <1>1, ServingInit, ServingNext, PTL DEF Spec
=============================================================================

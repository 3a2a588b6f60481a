-------------------------------- MODULE Dht --------------------------------
(***************************************************************************)
(* The DHT node (dht/node.go, table.go, persist.go): two routing tables,   *)
(* iterative lookups that run side by side, the transactions they share,   *)
(* tokens, and the nodes file.  The remote nodes are honest: one is known  *)
(* by its ID, its address is the ID too unless this node confuses them,    *)
(* and what it answers is fixed.  Datagrams are lost or late.              *)
(***************************************************************************)
EXTENDS Integers, Sequences, FiniteSets, SequencesExt, Bitwise

CONSTANTS
  Bits,             \* 160: the length of an ID
  K, Alpha, MaxLookupNodes, MaxLookupPeers,
  Remote,           \* IDs of the remote nodes
  V6,               \* those with an IPv6 address
  Knows,            \* Knows[n]: the nodes n returns, in its order
  Values,           \* Values[n]: peers n returns to get_peers
  Erring,           \* nodes that answer with an error
  Boot,             \* bootstrap nodes
  Getter,           \* goroutines that call GetPeers, "get" among them
  Target,           \* the info hash that is looked up
  Txn,              \* 2^16: transaction IDs
  Plans             \* what happens: IDs this node may draw, lookups and their rounds (10), nodes that
                    \* ask, rotations of the secret, and starts of the process

ID == 0 .. 2^Bits - 1

ASSUME DhtConstants ==
  /\ {Bits, K, Alpha, MaxLookupNodes, MaxLookupPeers} \subseteq Nat \ {0}
  /\ Remote \subseteq ID /\ Target \in ID /\ \A p \in Plans : p.ids \subseteq ID \ Remote
  /\ V6 \subseteq Remote /\ Erring \subseteq Remote /\ Boot \subseteq Remote
  /\ Knows \in [Remote -> Seq(Remote)] /\ Values \in [Remote -> Nat]

VARIABLES
  plan,       \* one of Plans
  self,       \* d.id
  table,      \* table[f][i]: bucket i of the table for address family f
  look,       \* look[l]: the lookup of a getter, or of Bootstrap ("boot")
  query,      \* query[q]: a goroutine in d.query; q is a lookup and the ID it asks
  pending,    \* transaction -> the query that waits for it
  net,        \* responses under way
  reused,     \* a transaction ID was drawn twice
  secret,     \* tokenSecret and tokenSecretOld; 0 is the zero value
  issued,     \* tokens given out
  closed,
  file,       \* the nodes file
  life        \* starts so far

vars == <<plan, self, table, look, query, pending, net, reused, secret, issued, closed, file, life>>

Lookup == Getter \cup {"boot"}
Fam == {4, 6}
FamOf(a) == IF a \in V6 THEN 6 ELSE 4

-----------------------------------------------------------------------------
(* IDs and the routing table. *)

XorTable == [a \in ID |-> [b \in ID |-> a ^^ b]]

Distance(a, b) == XorTable[a][b]

ZeroPrefixLen(d) == CHOOSE i \in 0 .. Bits : d < 2^(Bits - i) /\ (i < Bits => 2^(Bits - 1 - i) <= d)

\* The number of leading zero bits of the distance; at most the last bucket.
bucketIndex(me, id) ==
  LET i == ZeroPrefixLen(Distance(me, id)) IN IF i >= Bits THEN Bits - 1 ELSE i

\* The first k IDs of a set in the order of their distance to a target.
Nearest(ids, target, k) ==
  {a \in ids : Cardinality({b \in ids : Distance(b, target) < Distance(a, target)}) < k}

Entries(t) == UNION {Range(t[i]) : i \in DOMAIN t}

\* Mutant: a known node is added again.
UpdateTwice(me, t, n) ==
  IF n.id = me THEN t
  ELSE LET i == bucketIndex(me, n.id)
       IN  IF Len(t[i]) = K THEN t ELSE [t EXCEPT ![i] = Append(@, n)]

\* A known node moves to the tail with the address it has now; a new one is
\* added unless the bucket is full.
Update(me, t, n) ==
  IF n.id = me THEN t
  ELSE LET i == bucketIndex(me, n.id)
           rest == SelectSeq(t[i], LAMBDA m : m.id # n.id)
       IN  IF Len(rest) = K THEN t ELSE [t EXCEPT ![i] = Append(rest, n)]

updateNode(me, tt, n) == [tt EXCEPT ![FamOf(n.addr)] = Update(me, @, n)]

\* The k entries of a table that are closest to an ID.
Closest(t, target, k) == {n \in Entries(t) : n.id \in Nearest({m.id : m \in Entries(t)}, target, k)}

Info(id) == [id |-> id, addr |-> id]

-----------------------------------------------------------------------------
(* Lookups. *)

NoLookup == [phase |-> "idle", seen |-> <<>>, queried |-> {}, peers |-> 0, round |-> 0, failed |-> FALSE]

TargetOf(l) == IF l \in Getter THEN Target ELSE self

\* seen: the closest of both tables; an ID in both counts with its IPv4 entry.
Seeds(l) ==
  LET v4 == Closest(table[4], TargetOf(l), K)
      v6 == Closest(table[6], TargetOf(l), K)
  IN  [id \in {n.id : n \in v4 \cup v6} |->
         (CHOOSE n \in v4 \cup v6 : n.id = id /\ (n \in v4 \/ \A m \in v4 : m.id # id)).addr]

\* A lookup starts when there are nodes to start from.
Begin(l) ==
  /\ look[l].phase = "ready"
  /\ look' = [look EXCEPT ![l] =
       IF Seeds(l) = <<>> THEN [@ EXCEPT !.phase = "done", !.failed = TRUE]
       ELSE [@ EXCEPT !.phase = "round", !.seen = Seeds(l)]]
  /\ UNCHANGED <<plan, self, table, query, pending, net, reused, secret, issued, closed, file, life>>

\* Mutant: only nodes closer than those asked before.
toQueryCloser(l) ==
  Nearest({n \in DOMAIN look[l].seen \ look[l].queried :
             \A m \in look[l].queried : Distance(n, TargetOf(l)) < Distance(m, TargetOf(l))}, TargetOf(l), Alpha)

\* The closest nodes not asked yet.
toQuery(l) == Nearest(DOMAIN look[l].seen \ look[l].queried, TargetOf(l), Alpha)

\* The top of the loop: the lookup ends, or starts a goroutine for each.
NextRound(l) ==
  /\ look[l].phase = "round"
  /\ IF closed \/ look[l].round = plan.rounds \/ toQuery(l) = {}
     THEN /\ look' = [look EXCEPT ![l].phase = "done"]
          /\ UNCHANGED query
     ELSE /\ look' = [look EXCEPT ![l].phase = "wait", ![l].queried = @ \cup toQuery(l)]
          /\ query' = [q \in DOMAIN query \cup ({l} \X toQuery(l)) |->
                         IF q \in DOMAIN query THEN query[q]
                         ELSE [state |-> "new", t |-> 0, addr |-> look[l].seen[q[2]], answer |-> <<>>]]
  /\ UNCHANGED <<plan, self, table, pending, net, reused, secret, issued, closed, file, life>>

\* The deadline of a lookup has passed.
LookupTimesOut(l) ==
  /\ look[l].phase = "round" /\ look[l].round > 0
  /\ look' = [look EXCEPT ![l].phase = "done", ![l].failed = TRUE]
  /\ UNCHANGED <<plan, self, table, query, pending, net, reused, secret, issued, closed, file, life>>

\* wg.Wait has returned: peers end a lookup for peers.
RoundEnds(l) ==
  /\ look[l].phase = "wait"
  /\ \A q \in DOMAIN query : q[1] = l => query[q].state = "over"
  /\ look' = [look EXCEPT ![l].round = @ + 1,
                          ![l].phase = IF l \in Getter /\ look[l].peers > 0 THEN "done" ELSE "round"]
  /\ UNCHANGED <<plan, self, table, query, pending, net, reused, secret, issued, closed, file, life>>

(* A query: sendQuery registers the transaction, whatever was there... *)

\* NewTxnID is random: one that was drawn before, or the next one that was not.
NewTxnID == {t \in Txn : \A u \in Txn : u < t => \E r \in DOMAIN query : query[r].t = u}

sendQuery(q, t) ==
  /\ query[q].state = "new"
  /\ query' = [query EXCEPT ![q].state = "waiting", ![q].t = t]
  /\ pending' = [u \in DOMAIN pending \cup {t} |-> IF u = t THEN q ELSE pending[u]]
  /\ net' = IF closed THEN net ELSE net \cup {[t |-> t, from |-> query[q].addr]}
  /\ reused' = (reused \/ \E r \in DOMAIN query : query[r].t = t)
  /\ UNCHANGED <<plan, self, table, look, secret, issued, closed, file, life>>

\* ... a response, good or an error, goes to the query that is registered...
handleResponse(m) ==
  /\ ~closed
  /\ net' = net \ {m}
  /\ IF m.t \in DOMAIN pending
     THEN /\ query' = [query EXCEPT ![pending[m.t]].answer = <<m.from>>]
          /\ pending' = [u \in DOMAIN pending \ {m.t} |-> pending[u]]
     ELSE UNCHANGED <<query, pending>>
  /\ UNCHANGED <<plan, self, table, look, reused, secret, issued, closed, file, life>>

\* Mutant: the room for peers is read before the answers are awaited.
AbsorbUnchecked(l, addr, from) ==
  LET s == look[l].seen
      got == IF l \notin Getter THEN 0 ELSE Values[from]
      new == SelectSeq(Knows[from], LAMBDA n : n \notin DOMAIN s)
      room == IF MaxLookupNodes > Cardinality(DOMAIN s) THEN MaxLookupNodes - Cardinality(DOMAIN s) ELSE 0
      taken == SubSeq(new, 1, IF Len(new) < room THEN Len(new) ELSE room)
  IN  /\ look' = [look EXCEPT ![l].peers = @ + got,
                              ![l].seen = [n \in DOMAIN s \cup Range(taken) |-> IF n \in DOMAIN s THEN s[n] ELSE n],
                              ![l].failed = @ \/ Len(taken) < Len(new)]
      /\ table' = FoldLeft(LAMBDA tt, n : updateNode(self, tt, Info(n)),
                           updateNode(self, table, [id |-> from, addr |-> addr]), taken)

\* Mutant: a node that is returned gets the address of the one that returns it.
AbsorbAddr(l, addr, from) ==
  LET s == look[l].seen
      space == MaxLookupPeers - look[l].peers
      got == IF l \notin Getter THEN 0 ELSE IF Values[from] > space THEN space ELSE Values[from]
      new == SelectSeq(Knows[from], LAMBDA n : n \notin DOMAIN s)
      room == IF MaxLookupNodes > Cardinality(DOMAIN s) THEN MaxLookupNodes - Cardinality(DOMAIN s) ELSE 0
      taken == SubSeq(new, 1, IF Len(new) < room THEN Len(new) ELSE room)
  IN  /\ look' = [look EXCEPT ![l].peers = @ + got,
                              ![l].seen = [n \in DOMAIN s \cup Range(taken) |-> IF n \in DOMAIN s THEN s[n] ELSE n],
                              ![l].failed = @ \/ Len(taken) < Len(new)]
      /\ table' = FoldLeft(LAMBDA tt, n : updateNode(self, tt, [id |-> n, addr |-> addr]),
                           updateNode(self, table, [id |-> from, addr |-> addr]), taken)

\* What the goroutine does with a response: it adds the node, the peers up to
\* the limit, and the nodes that are new, up to the limit, which it adds too.
Absorb(l, addr, from) ==
  LET s == look[l].seen
      space == MaxLookupPeers - look[l].peers
      got == IF l \notin Getter THEN 0 ELSE IF Values[from] > space THEN space ELSE Values[from]
      new == SelectSeq(Knows[from], LAMBDA n : n \notin DOMAIN s)
      room == IF MaxLookupNodes > Cardinality(DOMAIN s) THEN MaxLookupNodes - Cardinality(DOMAIN s) ELSE 0
      taken == SubSeq(new, 1, IF Len(new) < room THEN Len(new) ELSE room)
  IN  /\ look' = [look EXCEPT ![l].peers = @ + got,
                              ![l].seen = [n \in DOMAIN s \cup Range(taken) |-> IF n \in DOMAIN s THEN s[n] ELSE n],
                              ![l].failed = @ \/ Len(taken) < Len(new)]
      /\ table' = FoldLeft(LAMBDA tt, n : updateNode(self, tt, Info(n)),
                           updateNode(self, table, [id |-> from, addr |-> addr]), taken)

\* ... which takes it...
Answered(q) ==
  /\ query[q].state = "waiting" /\ query[q].answer # <<>>
  /\ query' = [query EXCEPT ![q].state = "over"]
  /\ IF query[q].answer[1] \notin Erring
     THEN Absorb(q[1], query[q].addr, query[q].answer[1])
     ELSE look' = [look EXCEPT ![q[1]].failed = TRUE] /\ UNCHANGED table
  /\ UNCHANGED <<plan, self, pending, net, reused, secret, issued, closed, file, life>>

\* Mutant: the goroutine waits for good.
QueryTimesOutNever(q) ==
  /\ FALSE
  /\ UNCHANGED <<plan, self, table, look, query, pending, net, reused, secret, issued, closed, file, life>>

\* ... or it gives up, and takes its transaction ID out, in whoever's use.
QueryTimesOut(q) ==
  /\ query[q].state = "waiting"
  /\ query' = [query EXCEPT ![q].state = "over"]
  /\ pending' = [u \in DOMAIN pending \ {query[q].t} |-> pending[u]]
  /\ look' = [look EXCEPT ![q[1]].failed = TRUE]
  /\ UNCHANGED <<plan, self, table, net, reused, secret, issued, closed, file, life>>

QueryClosed(q) ==
  /\ query[q].state = "waiting" /\ closed
  /\ query' = [query EXCEPT ![q].state = "over"]
  /\ look' = [look EXCEPT ![q[1]].failed = TRUE]
  /\ UNCHANGED <<plan, self, table, pending, net, reused, secret, issued, closed, file, life>>

\* Mutant: entries of queries that are not over are taken for stale.
CleanStaleEarly(t) ==
  /\ ~closed
  /\ pending' = [u \in DOMAIN pending \ {t} |-> pending[u]]
  /\ UNCHANGED <<plan, self, table, look, query, net, reused, secret, issued, closed, file, life>>

\* Mutant: Bootstrap's own transactions are not covered.
CleanStaleOwn(t) ==
  /\ ~closed
  /\ query[pending[t]].state = "over" /\ pending[t][1] # "start"
  /\ pending' = [u \in DOMAIN pending \ {t} |-> pending[u]]
  /\ UNCHANGED <<plan, self, table, look, query, net, reused, secret, issued, closed, file, life>>

\* cleanStalePending: after PendingTTL, which is longer than QueryTimeout.
CleanStale(t) ==
  /\ ~closed
  /\ query[pending[t]].state = "over"
  /\ pending' = [u \in DOMAIN pending \ {t} |-> pending[u]]
  /\ UNCHANGED <<plan, self, table, look, query, net, reused, secret, issued, closed, file, life>>

-----------------------------------------------------------------------------
(* Bootstrap: a find_node to each bootstrap node, then the self-lookup.  Its *)
(* goroutine is lookup "boot"; these queries are those of "start".           *)

Bootstrap ==
  /\ "boot" \in plan.lookups /\ look["boot"].phase = "idle" /\ ~closed
  /\ look' = [look EXCEPT !["boot"].phase = "start"]
  /\ query' = [q \in DOMAIN query \cup ({"start"} \X Boot) |->
                 IF q \in DOMAIN query THEN query[q]
                 ELSE [state |-> "new", t |-> 0, addr |-> q[2], answer |-> <<>>]]
  /\ UNCHANGED <<plan, self, table, pending, net, reused, secret, issued, closed, file, life>>

\* A response adds the bootstrap node and all that it returns; a query that
\* gets none is left, with its transaction.
BootstrapQueryEnds(q) ==
  /\ q[1] = "start" /\ query[q].state = "waiting"
  /\ query' = [query EXCEPT ![q].state = "over"]
  /\ \/ \E from \in Range(query[q].answer) \ Erring :
          table' = FoldLeft(LAMBDA tt, n : updateNode(self, tt, Info(n)),
                            updateNode(self, table, [id |-> from, addr |-> query[q].addr]), Knows[from])
     \/ Range(query[q].answer) \subseteq Erring /\ UNCHANGED table
  /\ UNCHANGED <<plan, self, look, pending, net, reused, secret, issued, closed, file, life>>

BootstrapLooks ==
  /\ look["boot"].phase = "start"
  /\ \A q \in DOMAIN query : q[1] = "start" => query[q].state = "over"
  /\ look' = [look EXCEPT !["boot"].phase = IF closed THEN "done" ELSE "ready"]
  /\ UNCHANGED <<plan, self, table, query, pending, net, reused, secret, issued, closed, file, life>>

GetPeers(l) ==
  /\ l \in plan.lookups /\ look[l].phase = "idle" /\ ~closed
  /\ look' = [look EXCEPT ![l].phase = "ready"]
  /\ UNCHANGED <<plan, self, table, query, pending, net, reused, secret, issued, closed, file, life>>

-----------------------------------------------------------------------------
(* Queries from other nodes: each adds the node that asks. *)

makeToken(a) == [addr |-> a, secret |-> secret.cur, age |-> 0]

\* ping, find_node and announce_peer; get_peers gives out a token.
handleQuery(a, token) ==
  /\ ~closed /\ a \in plan.asks
  /\ table' = updateNode(self, table, Info(a))
  /\ issued' = IF token THEN issued \cup {makeToken(a)} ELSE issued
  /\ UNCHANGED <<plan, self, look, query, pending, net, reused, secret, closed, file, life>>

\* Mutant: only the current secret counts.
validateTokenNow(a, token) == token.addr = a /\ token.secret = secret.cur

\* The token is a hash of the address and a secret.
validateToken(a, token) == token.addr = a /\ token.secret \in {secret.cur, secret.old}

rotateToken ==
  /\ ~closed /\ secret.cur < plan.rotations
  /\ secret' = [cur |-> secret.cur + 1, old |-> secret.cur]
  /\ issued' = {[k EXCEPT !.age = @ + 1] : k \in issued}
  /\ UNCHANGED <<plan, self, table, look, query, pending, net, reused, closed, file, life>>

-----------------------------------------------------------------------------
(* Engine.Stop and Start. *)

\* SaveNodes writes the IPv4 table, bucket by bucket, if there is anything in
\* it; a crash may cut the file short.
Stop ==
  /\ ~closed /\ life < plan.lives
  /\ closed' = TRUE
  /\ LET all == FlattenSeq([i \in 1 .. Bits |-> table[4][i - 1]])
     IN  IF all = <<>> THEN UNCHANGED file
         ELSE \E k \in 0 .. Len(all) : file' = SubSeq(all, 1, k)
  /\ UNCHANGED <<plan, self, table, look, query, pending, net, reused, secret, issued, life>>

LoadNodes(me) ==
  FoldLeft(LAMBDA tt, n : [tt EXCEPT ![4] = Update(me, @, n)],
           [f \in Fam |-> [i \in 0 .. Bits - 1 |-> <<>>]], file)

\* The process starts again, after Stop or a crash: New draws a new ID.
Start ==
  /\ life < plan.lives
  /\ life' = life + 1 /\ closed' = FALSE
  /\ \E me \in plan.ids : self' = me /\ table' = LoadNodes(me)
  /\ look' = [l \in Lookup |-> NoLookup]
  /\ query' = <<>> /\ pending' = <<>> /\ net' = {} /\ issued' = {}
  /\ secret' = [cur |-> 1, old |-> 0]
  /\ UNCHANGED <<plan, reused, file>>

-----------------------------------------------------------------------------
Init ==
  /\ plan \in Plans
  /\ self \in plan.ids
  /\ file = <<>>
  /\ table = LoadNodes(self)
  /\ look = [l \in Lookup |-> NoLookup]
  /\ query = <<>> /\ pending = <<>> /\ net = {} /\ reused = FALSE
  /\ secret = [cur |-> 1, old |-> 0] /\ issued = {}
  /\ closed = FALSE /\ life = 1

LookupStep(l) == Begin(l) \/ NextRound(l) \/ RoundEnds(l)

QueryStep(q) ==
  \/ \E t \in NewTxnID : sendQuery(q, t)
  \/ q[1] # "start" /\ (Answered(q) \/ QueryTimesOut(q) \/ QueryClosed(q))
  \/ BootstrapQueryEnds(q)

Next ==
  \/ Bootstrap \/ BootstrapLooks \/ \E l \in Getter : GetPeers(l)
  \/ \E l \in Lookup : LookupStep(l) \/ LookupTimesOut(l)
  \/ \E q \in DOMAIN query : QueryStep(q)
  \/ \E m \in net : handleResponse(m)
  \/ \E t \in DOMAIN pending : CleanStale(t)
  \/ \E a \in Remote, token \in BOOLEAN : handleQuery(a, token)
  \/ rotateToken \/ Stop \/ Start

\* What the goroutines of lookups and queries do, and the cleanup ticker.
Work ==
  \/ BootstrapLooks \/ \E l \in Lookup : LookupStep(l)
  \/ \E q \in DOMAIN query : QueryStep(q)
  \/ \E t \in DOMAIN pending : CleanStale(t)

\* None of them has more than a bounded number of steps to take, so that all are
\* done if some step is.
Spec == Init /\ [][Next]_vars /\ WF_vars(Work)

-----------------------------------------------------------------------------
(* Properties. *)

\* Every entry of a table is in the bucket of its distance and in the table of
\* its address family, once; no bucket is over K; this node is not listed
\* (table.go, Update).
TableOK ==
  \A f \in Fam : \A i \in 0 .. Bits - 1 :
    LET b == table[f][i]
    IN  /\ Len(b) <= K
        /\ \A n \in Range(b) : n.id # self /\ bucketIndex(self, n.id) = i /\ FamOf(n.addr) = f
        /\ \A j, k \in DOMAIN b : b[j].id = b[k].id => j = k

\* As long as no transaction ID is drawn twice, every table, lookup and nodes
\* file has a node under its own address, whatever is lost, late or cut short
\* (handleResponse, iterativeLookup, LoadNodes).
AddressesTrue ==
  ~reused =>
    /\ \A n \in Entries(table[4]) \cup Entries(table[6]) \cup Range(file) : n.addr = n.id
    /\ \A l \in Lookup : \A id \in DOMAIN look[l].seen : look[l].seen[id] = id

\* As long as no transaction ID is drawn twice, the answer to a query that is
\* still waited for finds it: no other query, timeout or cleanup takes its entry
\* (sendQuery, cleanStalePending).
WaitingIsPending ==
  ~reused =>
    \A q \in DOMAIN query :
      query[q].state = "waiting" /\ query[q].answer = <<>> =>
        query[q].t \in DOMAIN pending /\ pending[query[q].t] = q

\* The goroutines of a round of iterativeLookup together keep to its limits.
LookupCaps ==
  \A l \in Lookup :
    look[l].peers <= MaxLookupPeers /\ Cardinality(DOMAIN look[l].seen) <= MaxLookupNodes

\* A lookup that had all its answers, and room for them, ends without peers only
\* if no node that can be reached from those it has met has any (iterativeLookup).
LookupFinds ==
  \A l \in Getter :
    look[l].phase = "done" /\ ~look[l].failed /\ look[l].round < plan.rounds /\ look[l].peers = 0 /\ ~closed =>
      \A n \in DOMAIN look[l].seen : Values[n] = 0 /\ Range(Knows[n]) \subseteq DOMAIN look[l].seen

\* A token is good for the address it was given to, until the second rotation
\* (validateToken, rotateToken).
TokenWindow ==
  \A k \in issued, a \in plan.asks : validateToken(a, k) <=> (a = k.addr /\ k.age <= 1)

\* What the node promises between any two steps: its tables are in order and true, an
\* answer that is waited for is recognised, lookups keep to their limits and find what
\* can be found, and tokens are valid for as long as they should be.
DhtSound ==
  TableOK /\ AddressesTrue /\ WaitingIsPending /\ LookupCaps /\ LookupFinds /\ TokenWindow

\* Every lookup returns, whatever happens to its queries.
Returns == \A l \in {"boot", "get"} : look[l].phase = "ready" ~> look[l].phase \in {"done", "idle"}

\* Every transaction is forgotten in the end, also those of Bootstrap.
PendingDrains == pending # <<>> ~> (pending = <<>> \/ closed)

\* A lookup and what it leaves behind come to an end, whichever queries are lost or late
\* (Query's timeout, the lookup's rounds, cleanStale).
LookupEnds == Returns /\ PendingDrains
=============================================================================

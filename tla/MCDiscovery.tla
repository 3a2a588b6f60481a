---------------------------- MODULE MCDiscovery ----------------------------
EXTENDS Discovery

\* Seen from node 7, nodes 1, 2 and 3 share a bucket.  Node 4 knows 2, which is
\* farther from the target and has peers; 3 answers with errors, 6 is IPv6.
MCRemote == {1, 2, 3, 4, 6}
MCKnows == [n \in MCRemote |-> CASE n = 4 -> <<2>> [] n = 2 -> <<3, 1>> [] OTHER -> <<>>]
MCValues == [n \in MCRemote |-> CASE n = 2 -> 2 [] n = 1 -> 1 [] OTHER -> 0]
MCGetter == {"get", "again"} \cup Announcer

Idle == [from |-> "nothing", trackers |-> {}, private |-> FALSE, pe |-> FALSE, tries |-> 1,
         fails |-> "none", pex |-> FALSE, swarm |-> TRUE, stall |-> FALSE]

\* The DHT alone: a bootstrap; lookups while nodes ask; one with more peers than
\* it may collect; one cut off by a restart; a table that is filled, saved and
\* loaded; and tokens.
Node ==
  {[ids |-> {0, 7}, lookups |-> {"boot"}, rounds |-> 3, asks |-> {}, rotations |-> 0, lives |-> 1],
   [ids |-> {0, 7}, lookups |-> {"get"}, rounds |-> 3, asks |-> {4, 6}, rotations |-> 0, lives |-> 1],
   [ids |-> {0, 7}, lookups |-> {"get"}, rounds |-> 1, asks |-> {1, 2}, rotations |-> 0, lives |-> 1],
   [ids |-> {7}, lookups |-> {"get"}, rounds |-> 2, asks |-> {4}, rotations |-> 0, lives |-> 2],
   [ids |-> {0, 7}, lookups |-> {}, rounds |-> 1, asks |-> {1, 2, 3, 6}, rotations |-> 0, lives |-> 2],
   [ids |-> {0, 7}, lookups |-> {}, rounds |-> 1, asks |-> {4}, rotations |-> 4, lives |-> 1]}

\* A magnet link; the search for the peers of a torrent, and its download; a private
\* one up to seeding; the stall detector; a seed.
Run ==
  {[Idle EXCEPT !.from = "magnet", !.trackers = {"t1"}, !.pe = TRUE, !.fails = "download"],
   [Idle EXCEPT !.from = "magnet", !.trackers = {"t1"}, !.tries = 2, !.fails = "download"],
   [Idle EXCEPT !.from = "torrent", !.trackers = {"t1", "t2"}, !.tries = 2, !.fails = "download"],
   [Idle EXCEPT !.from = "torrent", !.trackers = {"t1"}, !.pex = TRUE, !.fails = "seed"],
   [Idle EXCEPT !.from = "torrent", !.trackers = {"t1"}, !.private = TRUE, !.swarm = FALSE],
   [Idle EXCEPT !.from = "torrent", !.trackers = {"t1"}, !.private = TRUE, !.swarm = FALSE, !.fails = "seed", !.stall = TRUE],
   [Idle EXCEPT !.from = "seeding", !.trackers = {"t1"}]}

Alone == [ids |-> {7}, lookups |-> {}, rounds |-> 1, asks |-> {}, rotations |-> 0, lives |-> 1]

\* A torrent without trackers, whose peers come from the DHT.
Trackerless == [Alone EXCEPT !.asks = {1}] @@ [Idle EXCEPT !.from = "torrent", !.tries = 2, !.fails = "seed"]

MCPlans == {n @@ Idle : n \in Node} \cup {Alone @@ r : r \in Run} \cup {Trackerless}
=============================================================================

----------------------------- MODULE MCServing -----------------------------
(***************************************************************************)
(* Instances of Serving: the move out of the temporary directory while     *)
(* peers come and go, pausing and resuming, the choking of three peers by  *)
(* a session that seeds, and a download worker among its peers.            *)
(***************************************************************************)
EXTENDS Exchange

Plan == [tmp |-> FALSE, done |-> FALSE, pauses |-> 0, peers |-> {1, 2},
         limit |-> 3, asks |-> {}, inTurn |-> FALSE, stay |-> {}, choke |-> {}, fetch |-> FALSE]

MCPlans ==
  { [Plan EXCEPT !.tmp = TRUE],
    [Plan EXCEPT !.limit = 1],
    [Plan EXCEPT !.tmp = TRUE, !.pauses = 1, !.peers = {1}],
    [Plan EXCEPT !.done = TRUE, !.pauses = 1, !.peers = {1}, !.asks = {1}, !.choke = 0 .. 2],
    [Plan EXCEPT !.done = TRUE, !.asks = {2}, !.stay = {2}, !.inTurn = TRUE, !.choke = 1 .. 2],
    [Plan EXCEPT !.done = TRUE, !.peers = {1, 2, 3}, !.stay = {1, 2, 3}, !.inTurn = TRUE, !.choke = {3}],
    [Plan EXCEPT !.done = TRUE, !.stay = {1, 2}, !.inTurn = TRUE, !.choke = {2}, !.fetch = TRUE] }

\* Two pieces, of two blocks, the second of them short, and of one.
MCLengths == <<3, 2>>
============================================================================

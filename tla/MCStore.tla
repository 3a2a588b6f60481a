------------------------------ MODULE MCStore ------------------------------
(* Instances of the store for TLC. *)
EXTENDS Store

CONSTANTS t1, t2, p1, p2

TwoTorrents == {t1, t2}
TwoProcs == {p1, p2}

AllOps == {"add", "remove", "change", "crash"}
=============================================================================

---------------------------- MODULE MCQueueOrder ----------------------------
(* Instances of the queue positions for TLC. *)
EXTENDS QueueOrder

CONSTANTS t1, t2, t3, t4

FourTorrents == {t1, t2, t3, t4}
=============================================================================

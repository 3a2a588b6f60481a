------------------------------- MODULE MCUtp -------------------------------
(***************************************************************************)
(* A transfer in each direction; a SYN that arrives twice; the first of two *)
(* such connections closed; and one closed in the middle of a transfer.    *)
(***************************************************************************)
EXTENDS Utp

Writing(client, server) == [e \in End |-> IF e = 0 THEN client ELSE IF e = 1 THEN server ELSE 0]

MCPlans ==
  {[writes |-> Writing(3, 0), closers |-> {}, syns |-> 1],
   [writes |-> Writing(0, 2), closers |-> {}, syns |-> 1],
   [writes |-> Writing(2, 0), closers |-> {}, syns |-> 2],
   [writes |-> Writing(1, 0), closers |-> {1}, syns |-> 2],
   [writes |-> Writing(2, 0), closers |-> {0}, syns |-> 1]}
=============================================================================

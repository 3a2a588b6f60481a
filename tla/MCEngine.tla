------------------------------- MODULE MCEngine -------------------------------
(* Instances of the engine for TLC. *)
EXTENDS Engine, TLC

CONSTANTS t1, t2, c1

OneTorrent == {t1}
TwoTorrents == {t1, t2}
OneCall == {c1}
FirstIsMagnet == {t1}
NoMagnets == {}
FixedLimit == {}
AskForNone == {0}
RemoveOnly == {"remove"}
AllButRemove == {"pause", "resume", "stop", "crash"}
=============================================================================

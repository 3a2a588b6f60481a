------------------------- MODULE MCDownloadWorkers -------------------------
\* Bounds for checking DownloadWorkers.
EXTENDS DownloadWorkers

CONSTANTS p1, p2, s1

Seed == [form |-> "nil", bits |-> {}, haveAll |-> TRUE]
WrongSize == [form |-> "badSize", bits |-> {}, haveAll |-> FALSE]
Partial(S) == [form |-> "sized", bits |-> S, haveAll |-> FALSE]

MCLevels == -2 .. 3
AllPieces == Piece
NoSkips == {}
Skips == {{}, {0}}
NoBitfields == {}

OnePeer == <<p1>>
TwoPeers == <<p1, p2>>

OnlySeeds == {Seed}
MixedPeers == {Seed, Partial({1}), WrongSize}
=============================================================================

---------------------------- MODULE MCPieceQueue ----------------------------
\* Bounds for checking PieceQueue alone: three pieces, an endgame threshold
\* of one, so that both sides of the threshold are reached.
EXTENDS PieceQueue

MCLevels == -1 .. 1
MCBitfields == {Piece, {0}, {1, 2}}
MCSkipMasks == {{}, {0}}
=============================================================================

------------------------------ MODULE MCResume ------------------------------
(* Instances of the data of one torrent for TLC. *)
EXTENDS Resume

Lay(lengths, pieceLen) == [files |-> lengths, pieceLen |-> pieceLen]

Config(tmp, layout, skip, change, ops) ==
  [tmp |-> tmp, layout |-> layout, skip |-> skip, change |-> change, ops |-> ops]

\* One file with a short last piece; pieces shared by two and by three files; files
\* without bytes, in the middle and behind the last piece; a file that ends with a
\* piece.
OneFile == Lay(<<5>>, 2)
Shared  == Lay(<<3, 2>>, 2)
Three   == Lay(<<1, 1, 3>>, 3)
Hollow  == Lay(<<2, 0, 1, 2>>, 2)
Behind  == Lay(<<2, 4, 0>>, 2)

\* Everything may happen without a temporary directory; with one the daemon
\* is stopped in an orderly way and a finished torrent is not paused.
Sound ==
  {Config(FALSE, OneFile, {}, {}, {"pause", "crash", "remove"}),
   Config(TRUE, OneFile, {}, {}, {"remove"}),
   Config(TRUE, Shared, {1}, {}, {"remove"}),
   Config(FALSE, Shared, {2}, {2}, {"pause", "crash"}),
   Config(FALSE, Three, {}, {}, {"crash"}),
   Config(FALSE, Hollow, {4}, {3, 4}, {}),
   Config(FALSE, Behind, {2}, {}, {"pause"})}
=============================================================================

----------------------------- MODULE UtpStream -----------------------------
(***************************************************************************)
(* What uTP promises about the chunks that one side writes: a net.Conn is  *)
(* a stream, so each connection the other side has for them reads a prefix *)
(* of what was written.  Chunks are numbered in the order of the Writes.   *)
(***************************************************************************)
EXTENDS Naturals, Sequences

CONSTANT Reader

VARIABLES
  written,      \* the number of chunks written
  read          \* read[r]: the chunks that Read has returned at r

svars == <<written, read>>

StreamInit == written = 0 /\ read = [r \in Reader |-> <<>>]

WriteChunk == written' = written + 1 /\ UNCHANGED read

ReadChunk(r) ==
  /\ Len(read[r]) < written
  /\ read' = [read EXCEPT ![r] = Append(@, Len(@) + 1)]
  /\ UNCHANGED written

StreamNext == WriteChunk \/ \E r \in Reader : ReadChunk(r)

StreamSpec == StreamInit /\ [][StreamNext]_svars
=============================================================================

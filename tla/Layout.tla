------------------------------- MODULE Layout -------------------------------
(***************************************************************************)
(* How the bytes of a torrent lie in its pieces and files: the writer and  *)
(* reader of storage/multifile.go, the ranges of download/webseed.go, the  *)
(* skip mask of engine/skip_mask.go, the progress of                       *)
(* engine/file_progress.go and the file ranges of engine/session.go. A     *)
(* layout L has the lengths of the files, in order, and the piece length;  *)
(* a file without bytes is one. A torrent of one file has a list of one.   *)
(* Bytes are numbered along the torrent; a cell <<f, o>> is the byte at    *)
(* offset o of file f.                                                     *)
(***************************************************************************)
EXTENDS Integers, Sequences, FiniteSets, SequencesExt, FiniteSetsExt

File(L) == DOMAIN L.files

\* The running offset that every one of these functions keeps.
Offset(L, f) == FoldLeft(LAMBDA a, b : a + b, 0, SubSeq(L.files, 1, f - 1))

TotalSize(L) == Offset(L, Len(L.files) + 1)

\* The pieces of a torrent file: the last one may be short.
NumPieces(L) == (TotalSize(L) + L.pieceLen - 1) \div L.pieceLen
PieceOf(L) == 0 .. NumPieces(L) - 1
PieceStart(L, i) == i * L.pieceLen
PieceEnd(L, i) == Min({PieceStart(L, i) + L.pieceLen, TotalSize(L)})

-----------------------------------------------------------------------------
(* Reference: byte by byte. *)

Byte(L, f) == Offset(L, f) .. Offset(L, f) + L.files[f] - 1
PieceBytes(L, i) == PieceStart(L, i) .. PieceEnd(L, i) - 1
CellOf(L, b) == LET f == CHOOSE f \in File(L) : b \in Byte(L, f) IN <<f, b - Offset(L, f)>>
PieceCells(L, i) == {CellOf(L, b) : b \in PieceBytes(L, i)}

-----------------------------------------------------------------------------
(* MultiFileWriter. *)

\* Mutant of Span: a file takes as much as it is long, from wherever it begins.
SpanFrom(L, acc, f) ==
  IF acc.left = 0 \/ acc.off >= Offset(L, f) + L.files[f] THEN acc
  ELSE LET fileOff == Max({acc.off - Offset(L, f), 0})
           n == Min({L.files[f], acc.left})
       IN  [off |-> acc.off + n, left |-> acc.left - n,
            cells |-> acc.cells \cup {<<f, fileOff + k, acc.off + k>> : k \in 0 .. n - 1}]

\* One turn of the loop: the part of the buffer that falls into file f.
Span(L, acc, f) ==
  IF acc.left = 0 \/ acc.off >= Offset(L, f) + L.files[f] THEN acc
  ELSE LET fileOff == Max({acc.off - Offset(L, f), 0})
           n == Min({L.files[f] - fileOff, acc.left})
       IN  [off |-> acc.off + n, left |-> acc.left - n,
            cells |-> acc.cells \cup {<<f, fileOff + k, acc.off + k>> : k \in 0 .. n - 1}]

\* WriteAt and ReadAt of length bytes at off: the triples <<f, o, b>> such that the
\* cell <<f, o>> takes, or gives, byte b of the torrent.
SpanAt(L, off, length) ==
  FoldLeft(LAMBDA acc, f : Span(L, acc, f),
           [off |-> off, left |-> length, cells |-> {}], [f \in File(L) |-> f]).cells

Right(L, t) == Offset(L, t[1]) + t[2] = t[3]

\* The right cells of a file system after WriteAt of piece i's data.
WriteAt(L, cells, i) ==
  LET ts == SpanAt(L, PieceStart(L, i), PieceEnd(L, i) - PieceStart(L, i))
  IN  (cells \ {<<t[1], t[2]>> : t \in ts}) \cup {<<t[1], t[2]>> : t \in {u \in ts : Right(L, u)}}

\* ReadAt gives all bytes of piece i, and they are right.
ReadsPiece(L, cells, i) ==
  LET ts == SpanAt(L, PieceStart(L, i), PieceEnd(L, i) - PieceStart(L, i))
  IN  /\ Cardinality(ts) = PieceEnd(L, i) - PieceStart(L, i)
      /\ \A t \in ts : Right(L, t) /\ <<t[1], t[2]>> \in cells

\* Mutant of Range1: after a file that is passed over the offset stays behind.
Range1Stale(L, acc, f) ==
  IF acc.left = 0 THEN acc
  ELSE IF acc.pos >= acc.fileOff + L.files[f] THEN acc
  ELSE LET n == Min({L.files[f] - (acc.pos - acc.fileOff), acc.left})
       IN  [pos |-> acc.pos + n, left |-> acc.left - n, fileOff |-> acc.fileOff + L.files[f],
            asked |-> Append(acc.asked, [file |-> f, off |-> acc.pos - acc.fileOff, len |-> n])]

\* One turn of the loop of downloadPieceHTTP, which keeps the offset itself.
Range1(L, acc, f) ==
  IF acc.left = 0 THEN acc
  ELSE IF acc.pos >= acc.fileOff + L.files[f] THEN [acc EXCEPT !.fileOff = @ + L.files[f]]
  ELSE LET n == Min({L.files[f] - (acc.pos - acc.fileOff), acc.left})
       IN  [pos |-> acc.pos + n, left |-> acc.left - n, fileOff |-> acc.fileOff + L.files[f],
            asked |-> Append(acc.asked, [file |-> f, off |-> acc.pos - acc.fileOff, len |-> n])]

\* The ranges it asks a web seed for, in order, to put piece i together.
downloadPieceHTTP(L, i) ==
  FoldLeft(LAMBDA acc, f : Range1(L, acc, f),
           [pos |-> PieceStart(L, i), left |-> PieceEnd(L, i) - PieceStart(L, i), fileOff |-> 0, asked |-> <<>>],
           [f \in File(L) |-> f]).asked

-----------------------------------------------------------------------------
(* Skipping and progress. *)

\* Mutant of Overlaps: a piece that begins where a file ends meets it.
OverlapsTouching(L, f, i) ==
  Offset(L, f) + L.files[f] >= PieceStart(L, i) /\ Offset(L, f) < PieceEnd(L, i)

Overlaps(L, f, i) ==
  Offset(L, f) + L.files[f] > PieceStart(L, i) /\ Offset(L, f) < PieceEnd(L, i)

\* skip is the set of files with PrioritySkip; without one there is no mask.
ComputeSkippedPieceMask(L, skip) ==
  {i \in PieceOf(L) :
     LET met == {f \in File(L) : Overlaps(L, f, i)} IN met # {} /\ met \subseteq skip}

\* rangeFor: the first and the last piece of file f; a file without bytes gets
\* one piece.
FirstPiece(L, f) ==
  LET first == Offset(L, f) \div L.pieceLen
  IN  IF L.files[f] = 0 THEN Min({first, NumPieces(L) - 1}) ELSE first

\* Mutant of LastPiece: the end of the file is taken for its last byte.
LastPieceOfEnd(L, f) ==
  IF L.files[f] = 0 THEN FirstPiece(L, f)
  ELSE Min({(Offset(L, f) + L.files[f]) \div L.pieceLen, NumPieces(L) - 1})

LastPiece(L, f) ==
  IF L.files[f] = 0 THEN FirstPiece(L, f)
  ELSE Min({(Offset(L, f) + L.files[f] - 1) \div L.pieceLen, NumPieces(L) - 1})

\* The files all of whose pieces are in bf.
CompleteFiles(L, bf) == {f \in File(L) : FirstPiece(L, f) .. LastPiece(L, f) \subseteq bf}

\* Mutant of computeFileDownloaded: a piece counts to its end.
computeFileDownloadedPlain(L, bf, f) ==
  LET part(i) == Max({0, PieceStart(L, i) + L.pieceLen - Max({PieceStart(L, i), Offset(L, f)})})
  IN  IF L.files[f] = 0 THEN 0
      ELSE MapThenSumSet(part, bf \cap (Offset(L, f) \div L.pieceLen .. LastPiece(L, f)))

computeFileDownloaded(L, bf, f) ==
  LET end == Offset(L, f) + L.files[f]
      part(i) == Max({0, Min({PieceEnd(L, i), end}) - Max({PieceStart(L, i), Offset(L, f)})})
  IN  IF L.files[f] = 0 THEN 0
      ELSE MapThenSumSet(part, bf \cap (Offset(L, f) \div L.pieceLen .. LastPiece(L, f)))
=============================================================================

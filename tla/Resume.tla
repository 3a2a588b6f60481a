------------------------------- MODULE Resume -------------------------------
(***************************************************************************)
(* One torrent's data across pauses, restarts, crashes and removals: run,  *)
(* phaseDownload, phaseSeedDirect and phaseSeed of engine/session.go, the  *)
(* calls of engine/engine.go that start and end them, and what             *)
(* VerifyPieces of storage/verify.go finds on disk.                        *)
(*                                                                         *)
(* What is on disk is the set of cells (Layout.tla) whose data is right.   *)
(* Files survive the process; the record survives as far as it was saved.  *)
(* A session's runs do not overlap here: Engine.tla is about the ones that *)
(* do.                                                                     *)
(***************************************************************************)
EXTENDS Layout

CONSTANT Setups  \* configurations: tmp, a temporary directory is configured;
                 \* layout, of the torrent; skip, the files with skip priority at
                 \* first; change, files whose priority is changed later; ops, the
                 \* calls and failures that happen

ASSUME ResumeConstants ==
  \A s \in Setups :
    /\ s.tmp \in BOOLEAN /\ s.ops \subseteq {"pause", "crash", "remove"}
    /\ s.layout.pieceLen > 0 /\ TotalSize(s.layout) > 0 /\ s.skip \cup s.change \subseteq File(s.layout)

VARIABLES
  setup,        \* the configuration, fixed
  data,         \* data["tmp"], data["final"]: the right cells of what is there
  exists,       \* whether there is a file at that place
  rec,          \* the record: state, bitfield, whether the bitfield has its
                \* length, whether SavePath is set, and the skipped files
  disk,         \* the record in the state file
  stage,        \* of the session's run; "off" without one, "down" without a process
  cancelled,    \* the run's context is cancelled
  stopping,     \* Engine.Stop waits for the run
  cur,          \* the piece written and not yet recorded
  offered,      \* the uploader's bitfield: what peers are told and may request
  goal,         \* the pieces wanted when the last download began
  flight,       \* pieces that were in flight when their file was skipped
  completed     \* s.completedFiles

vars == <<setup, data, exists, rec, disk, stage, cancelled, stopping, cur, offered, goal, flight, completed>>
files == <<data, exists>>
lists == <<goal, flight, completed>>

L == setup.layout
Piece == PieceOf(L)
Dir == Len(L.files) > 1   \* the torrent is a directory

Place == {"tmp", "final"}

\* savePath of phaseDownload.
Work == IF setup.tmp THEN "tmp" ELSE "final"

\* The file the uploader reads.
Served == IF stage \in {"download", "record", "finished"} THEN Work ELSE "final"

\* computeSkipMaskFromRecord.
Mask(r) == ComputeSkippedPieceMask(L, r.skip)

NewRecord == [state |-> "adding", bits |-> {}, sized |-> FALSE, path |-> FALSE, skip |-> setup.skip]

VerifyPieces(p) == IF exists[p] THEN {i \in Piece : ReadsPiece(L, data[p], i)} ELSE {}

-----------------------------------------------------------------------------
\* The run of a session that Engine.Start, ResumeTorrent or startQueued starts.
Startable ==
  /\ stage = "off" /\ ~stopping
  /\ rec.state \in {"adding", "downloading", "seeding"}

\* run, into phaseSeedDirect: the record says seeding and there is a file.
ResumeSeeding ==
  /\ Startable /\ rec.state = "seeding" /\ exists["final"]
  /\ stage' = "seed" /\ cancelled' = FALSE
  /\ rec' = [rec EXCEPT !.path = TRUE]
  /\ offered' = Piece
  /\ UNCHANGED <<files, disk, stopping, cur, lists>>

\* Mutant: the file is opened with O_TRUNC.
BeginTruncating ==
  /\ Startable /\ (rec.state = "seeding" => ~exists["final"])
  /\ LET have == IF rec.sized THEN rec.bits ELSE VerifyPieces(Work)
     IN  /\ offered' = have /\ completed' = CompleteFiles(L, have)
         /\ rec' = [rec EXCEPT !.state = "downloading", !.bits = have,
                               !.sized = @ \/ have # {}]
  /\ exists' = [exists EXCEPT ![Work] = TRUE]
  /\ data' = [data EXCEPT ![Work] = {}]
  /\ goal' = Piece \ Mask(rec) /\ flight' = {}
  /\ stage' = "download" /\ cancelled' = FALSE
  /\ UNCHANGED <<disk, stopping, cur>>

\* phaseResolve fails: no metadata, or no peers.
ResolveFails ==
  /\ Startable /\ rec.state # "seeding"
  /\ rec' = [rec EXCEPT !.state = "error"]
  /\ stage' = "ended" /\ cancelled' = FALSE
  /\ UNCHANGED <<files, disk, stopping, cur, offered, lists>>

\* run, into phaseDownload: a bitfield of the right length is believed, without
\* one the file is verified; then the file is opened, and created if missing.
BeginDownload ==
  /\ Startable /\ (rec.state = "seeding" => ~exists["final"])
  /\ LET have == IF rec.sized THEN rec.bits ELSE VerifyPieces(Work)
     IN  /\ offered' = have /\ completed' = CompleteFiles(L, have)
         /\ rec' = [rec EXCEPT !.state = "downloading", !.bits = have,
                               !.sized = @ \/ have # {}]
  /\ exists' = [exists EXCEPT ![Work] = TRUE]
  /\ goal' = Piece \ Mask(rec) /\ flight' = {}
  /\ stage' = "download" /\ cancelled' = FALSE
  /\ UNCHANGED <<data, disk, stopping, cur>>

\* A piece the run still has to get; the queue does not hand out one whose file
\* has been skipped since, but one in flight is completed.
MayArrive(i) == i \in goal \ offered /\ (i \notin Mask(rec) \/ i \in flight)

\* Mutant: OnPiece is called before the write.
WritePieceLast(i) ==
  /\ stage = "download" /\ MayArrive(i)
  /\ offered' = offered \cup {i}
  /\ rec' = [rec EXCEPT !.bits = offered', !.sized = TRUE]
  /\ cur' = {i}
  /\ stage' = "record"
  /\ UNCHANGED <<files, disk, cancelled, stopping, lists>>

\* The result loop of DownloadWithParams writes a piece that is neither had
\* nor skipped, also when the context is cancelled and a result is ready...
WritePiece(i) ==
  /\ stage = "download" /\ MayArrive(i)
  /\ data' = [data EXCEPT ![Work] = WriteAt(L, @, i)]
  /\ cur' = {i}
  /\ stage' = "record"
  /\ UNCHANGED <<exists, rec, disk, cancelled, stopping, offered, lists>>

\* ... and calls OnPiece, which sets the uploader's bit and the record's.
OnPiece ==
  /\ stage = "record"
  /\ offered' = offered \cup cur
  /\ rec' = [rec EXCEPT !.bits = offered', !.sized = TRUE]
  /\ completed' = completed \cup CompleteFiles(L, offered')
  /\ cur' = {}
  /\ stage' = "download"
  /\ UNCHANGED <<files, disk, cancelled, stopping, goal, flight>>

\* DownloadWithParams returns nil: nothing is left to download.
Finish ==
  /\ stage = "download" /\ goal \subseteq offered
  /\ stage' = "finished"
  /\ UNCHANGED <<files, rec, disk, cancelled, stopping, cur, offered, lists>>

\* DownloadWithParams returns an error, of the context or its own.
Interrupted ==
  /\ stage = "download" /\ ~(goal \subseteq offered)
  /\ \/ cancelled /\ UNCHANGED rec
     \/ rec' = [rec EXCEPT !.state = "error"]
  /\ stage' = "ended" /\ offered' = {}
  /\ UNCHANGED <<files, disk, cancelled, stopping, cur, lists>>

\* Mutant: the file in the temporary directory is dropped, not renamed.
MoveAway ==
  /\ stage = "finished" /\ ~(setup.tmp /\ Dir /\ exists["final"])
  /\ IF setup.tmp
     THEN /\ data' = [data EXCEPT !["tmp"] = {}]
          /\ exists' = [exists EXCEPT !["final"] = TRUE, !["tmp"] = FALSE]
     ELSE UNCHANGED files
  /\ stage' = "moved"
  /\ UNCHANGED <<rec, disk, cancelled, stopping, cur, offered, lists>>

\* The move out of the temporary directory: a rename replaces a file...
Move ==
  /\ stage = "finished" /\ ~(setup.tmp /\ Dir /\ exists["final"])
  /\ IF setup.tmp
     THEN /\ data' = [data EXCEPT !["final"] = data["tmp"], !["tmp"] = {}]
          /\ exists' = [exists EXCEPT !["final"] = TRUE, !["tmp"] = FALSE]
     ELSE UNCHANGED files
  /\ stage' = "moved"
  /\ UNCHANGED <<rec, disk, cancelled, stopping, cur, offered, lists>>

\* ... but not a directory with files in it.
MoveFails ==
  /\ stage = "finished" /\ setup.tmp /\ Dir /\ exists["final"]
  /\ rec' = [rec EXCEPT !.state = "error"]
  /\ stage' = "ended" /\ offered' = {}
  /\ UNCHANGED <<files, disk, cancelled, stopping, cur, lists>>

\* Every piece is marked available, and the state becomes seeding.
EnterSeeding ==
  /\ stage = "moved"
  /\ offered' = Piece
  /\ rec' = [rec EXCEPT !.state = "seeding", !.path = TRUE]
  /\ stage' = "seed"
  /\ UNCHANGED <<files, disk, cancelled, stopping, cur, lists>>

\* phaseSeed returns: a torrent that still seeds becomes complete.
SeedingEnds ==
  /\ stage = "seed" /\ cancelled
  /\ rec' = [rec EXCEPT !.state = IF @ = "seeding" THEN "complete" ELSE @]
  /\ stage' = "ended" /\ offered' = {}
  /\ UNCHANGED <<files, disk, cancelled, stopping, cur, lists>>

\* onSessionDone saves the record.
OnSessionDone ==
  /\ stage = "ended"
  /\ disk' = rec
  /\ stage' = "off"
  /\ UNCHANGED <<files, rec, cancelled, stopping, cur, offered, lists>>

-----------------------------------------------------------------------------
Up == stage # "down" /\ rec.state # "removed"

PauseTorrent ==
  /\ "pause" \in setup.ops /\ Up
  /\ rec.state \in {"adding", "downloading", "seeding"}
  /\ rec' = [rec EXCEPT !.state = "paused"]
  /\ disk' = rec'
  /\ cancelled' = TRUE
  /\ UNCHANGED <<files, stage, stopping, cur, offered, lists>>

\* With a slot free or not: the run starts now or by startQueued.
ResumeTorrent ==
  /\ Up /\ stage = "off" /\ rec.state \in {"paused", "error"}
  /\ rec' = [rec EXCEPT !.state = "adding"]
  /\ disk' = rec'
  /\ UNCHANGED <<files, stage, cancelled, stopping, cur, offered, lists>>

\* RemoveTorrent with deleteFiles: SavePath's file goes if it is set, and the
\* file in the temporary directory if there is one.
RemoveTorrent(deleteFiles) ==
  /\ "remove" \in setup.ops /\ Up /\ stage = "off"
  /\ LET gone == IF ~deleteFiles THEN {}
                 ELSE (IF rec.path THEN {"final"} ELSE {}) \cup (IF setup.tmp THEN {"tmp"} ELSE {})
     IN  /\ data' = [p \in Place |-> IF p \in gone THEN {} ELSE data[p]]
         /\ exists' = [p \in Place |-> exists[p] /\ p \notin gone]
  /\ rec' = [NewRecord EXCEPT !.state = "removed"]
  /\ disk' = rec'
  /\ UNCHANGED <<stage, cancelled, stopping, cur, offered, lists>>

\* The same torrent is added again.
AddTorrent ==
  /\ stage = "off" /\ rec.state = "removed"
  /\ rec' = NewRecord /\ disk' = NewRecord
  /\ UNCHANGED <<files, stage, cancelled, stopping, cur, offered, lists>>

\* SetFilePriority: the record, the mask of a running download, and a save.  A
\* piece that was left out when the download began stays out.
SetFilePriority(f, skip) ==
  /\ f \in setup.change /\ Up /\ ~stopping
  /\ rec' = [rec EXCEPT !.skip = IF skip THEN @ \cup {f} ELSE @ \ {f}]
  /\ rec'.skip # rec.skip
  /\ disk' = rec'
  /\ flight' \in IF stage \in {"download", "record"} THEN SUBSET ((goal \ offered) \ Mask(rec)) ELSE {{}}
  /\ UNCHANGED <<files, stage, cancelled, stopping, cur, offered, goal, completed>>

\* The save ticker, at any moment of a run.
PeriodicSave ==
  /\ stage # "down" /\ ~stopping
  /\ disk' = rec
  /\ UNCHANGED <<files, rec, stage, cancelled, stopping, cur, offered, lists>>

\* Engine.Stop cancels the run, waits for it, and saves.
Stop ==
  /\ stage # "down" /\ ~stopping
  /\ stopping' = TRUE /\ cancelled' = TRUE
  /\ UNCHANGED <<files, rec, disk, stage, cur, offered, lists>>

StopEnds ==
  /\ stopping /\ stage = "off"
  /\ disk' = rec
  /\ flight' = {} /\ completed' = {}
  /\ stage' = "down" /\ stopping' = FALSE
  /\ UNCHANGED <<files, rec, cancelled, cur, offered, goal>>

Crash ==
  /\ "crash" \in setup.ops /\ stage # "down"
  /\ stage' = "down" /\ stopping' = FALSE /\ cur' = {} /\ offered' = {} /\ flight' = {} /\ completed' = {}
  /\ UNCHANGED <<files, rec, disk, cancelled, goal>>

\* NewStore loads the records that Engine.Start restores.
Restart ==
  /\ stage = "down"
  /\ rec' = disk
  /\ stage' = "off"
  /\ UNCHANGED <<files, disk, cancelled, stopping, cur, offered, lists>>

-----------------------------------------------------------------------------
Init ==
  /\ setup \in Setups
  /\ data = [p \in Place |-> {}] /\ exists = [p \in Place |-> FALSE]
  /\ rec = NewRecord /\ disk = NewRecord
  /\ stage = "off" /\ cancelled = FALSE /\ stopping = FALSE
  /\ cur = {} /\ offered = {} /\ goal = {} /\ flight = {} /\ completed = {}

RunStep ==
  \/ ResumeSeeding \/ ResolveFails \/ BeginDownload
  \/ \E i \in Piece : WritePiece(i)
  \/ OnPiece \/ Finish \/ Interrupted \/ Move \/ MoveFails \/ EnterSeeding
  \/ SeedingEnds \/ OnSessionDone

Removal == \E deleteFiles \in BOOLEAN : RemoveTorrent(deleteFiles)

Next ==
  /\ \/ RunStep
     \/ \E f \in File(L), skip \in BOOLEAN : SetFilePriority(f, skip)
     \/ PauseTorrent \/ ResumeTorrent \/ Removal \/ AddTorrent
     \/ PeriodicSave \/ Stop \/ StopEnds \/ Crash \/ Restart
  /\ UNCHANGED setup

Spec == Init /\ [][Next]_vars

-----------------------------------------------------------------------------
\* The bytes of the pieces in S are where they belong.
Held(S, p) == \A i \in S : PieceCells(L, i) \subseteq data[p]

\* "resume with piece verification": whatever was paused, stopped, crashed,
\* removed or reprioritised in between, a wanted piece that peers are offered is
\* byte by byte in the files it is read from, also where it spans several files; a
\* torrent that seeds, which offers everything, so has all it wanted in the finished
\* files (phaseDownload, OnPiece, WriteAt, phaseSeedDirect, phaseSeed).
OfferedIsHeld == Held(offered \cap goal, Served)

\* The saved bitfield never runs ahead of the data: a crash at any moment
\* leaves a record whose pieces are on disk (OnPiece after WriteAt).
SavedIsHeld == \A i \in disk.bits : \E p \in Place : PieceCells(L, i) \subseteq data[p]

\* What phaseDownload and the saves claim is there: no piece is offered to peers or
\* recorded without its bytes being on disk.
ClaimedIsHeld == OfferedIsHeld /\ SavedIsHeld

\* ComputeSkippedPieceMask: no byte of a file that is wanted is left out, and no
\* piece is downloaded only for the sake of files that are not.
MaskExact ==
  \A i \in Piece : i \in Mask(rec) <=> \A f \in File(L) : PieceBytes(L, i) \cap Byte(L, f) # {} => f \in rec.skip

\* downloadPieceHTTP: the ranges a web seed is asked for, one after the other, are the
\* bytes of the piece, and no range is empty (a server would refuse it).
RangesExact ==
  \A i \in Piece :
    LET asked == downloadPieceHTTP(L, i)
        bytes(r) == [k \in 1 .. r.len |-> Offset(L, r.file) + r.off + k - 1]
    IN  /\ \A k \in DOMAIN asked : asked[k].len > 0 /\ asked[k].off + asked[k].len <= L.files[asked[k].file]
        /\ FlattenSeq([k \in DOMAIN asked |-> bytes(asked[k])])
             = [k \in 1 .. PieceEnd(L, i) - PieceStart(L, i) |-> PieceStart(L, i) + k - 1]

\* collectNewlyCompletedFiles and what phaseDownload seeds it with: while a download
\* runs, the files taken to be complete are those all of whose bytes are in.
FilesComplete ==
  stage \in {"download", "finished"} =>
    \A f \in File(L) : L.files[f] > 0 =>
      (f \in completed <=> \A i \in Piece : PieceBytes(L, i) \cap Byte(L, f) # {} => i \in offered)

\* computeFileDownloaded: the progress shown for a file is the number of its bytes
\* that lie in downloaded pieces, short last piece and shared pieces included.
ProgressExact ==
  \A f \in File(L) :
    computeFileDownloaded(L, offered, f) = Cardinality(Byte(L, f) \cap UNION {PieceBytes(L, i) : i \in offered})

\* The layout agrees with the bytes wherever it is computed anew: in the skip mask, the
\* web seed's ranges, the files reported complete and the progress shown.
LayoutExact == MaskExact /\ RangesExact /\ FilesComplete /\ ProgressExact

\* What was downloaded stays on disk, in one place or the other, until somebody
\* deletes it (the move of phaseDownload, PreallocateFiles).
DataKept ==
  [][RemoveTorrent(TRUE)
     \/ \A p \in Place : data[p] \subseteq data'["tmp"] \cup data'["final"]]_vars
=============================================================================

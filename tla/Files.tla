-------------------------------- MODULE Files --------------------------------
(***************************************************************************)
(* The file store: FileService behind FileController.                      *)
(*                                                                         *)
(* A file is a row of the table and bytes on the disk, and nothing makes   *)
(* the two change together.  upload writes the bytes and then the row,     *)
(* softDelete marks the row and then removes the bytes, download finds the *)
(* row and opens the bytes when the stream gets to it.  Any query or disk  *)
(* operation may fail, and the process may die between two of them.        *)
(***************************************************************************)
EXTENDS FiniteSets

CONSTANTS
  FileIds,   \* names under the upload root, one per row
  FileCalls  \* operations in progress: bounds their number

VARIABLES
  fileRow,  \* rows of File: "none", "live", or "deleted" (deletedAt is set)
  disk,     \* the bytes: "none", "part" of them, or the "whole" file
  fileCall, \* progress of each operation
  leftover  \* history: files an operation gave up half-way

filesVars == <<fileRow, disk, fileCall, leftover>>

FileIdle == [at |-> "idle"]
FilePlaces == {"permit", \* waiting for assertPermission, and for findFirst
               "write",  \* waiting for writeFile
               "insert", \* waiting for file.create
               "mark",   \* waiting for file.update
               "unlink", \* waiting for unlink
               "open"}   \* the stream has not opened its file yet

FilesTypeOK ==
  /\ fileRow \in [FileIds -> {"none", "live", "deleted"}]
  /\ disk \in [FileIds -> {"none", "part", "whole"}]
  /\ fileCall \in [FileCalls ->
       {FileIdle} \cup [at : FilePlaces, op : {"upload", "download", "delete"},
                        file : FileIds]]
  /\ leftover \subseteq FileIds

FilesInit ==
  /\ fileRow = [f \in FileIds |-> "none"]
  /\ disk = [f \in FileIds |-> "none"]
  /\ fileCall = [c \in FileCalls |-> FileIdle]
  /\ leftover = {}

-----------------------------------------------------------------------------

FileAt(c, place) == fileCall[c].at = place
FileGoto(c, place) == fileCall' = [fileCall EXCEPT ![c].at = place]
FileDone(c) == fileCall' = [fileCall EXCEPT ![c] = FileIdle]
FileOf(c) == fileCall[c].file

\* Files whose row and bytes differ while a call is on its way.
UnderWay == {FileOf(c) : c \in {d \in FileCalls :
               fileCall[d].at \in {"write", "insert", "unlink"}}}

\* randomUUID: an upload never takes the name of another.
FreshName(f) ==
  /\ fileRow[f] = "none" /\ disk[f] = "none"
  /\ \A c \in FileCalls : fileCall[c] # FileIdle => FileOf(c) # f

FileCalled(c, op, f) ==
  /\ fileCall[c] = FileIdle
  /\ op = "upload" => FreshName(f)
  /\ fileCall' = [fileCall EXCEPT ![c] = [at |-> "permit", op |-> op, file |-> f]]
  /\ UNCHANGED <<fileRow, disk, leftover>>

\* The permission, the size, a query or mkdir stops the call before it changed
\* anything.
FileRefused(c) ==
  /\ fileCall[c].at \in {"permit", "mark"}
  /\ FileDone(c)
  /\ UNCHANGED <<fileRow, disk, leftover>>

\* The row would be there before its bytes.
WriteBegunRowFirst(c) ==
  /\ FileAt(c, "permit") /\ fileCall[c].op = "upload"
  /\ disk' = [disk EXCEPT ![FileOf(c)] = "part"]
  /\ fileRow' = [fileRow EXCEPT ![FileOf(c)] = "live"]
  /\ FileGoto(c, "write")
  /\ UNCHANGED leftover
\* mkdir is done; writeFile creates the file and fills it.
WriteBegun(c) ==
  /\ FileAt(c, "permit") /\ fileCall[c].op = "upload"
  /\ disk' = [disk EXCEPT ![FileOf(c)] = "part"]
  /\ FileGoto(c, "write")
  /\ UNCHANGED <<fileRow, leftover>>

WriteEnded(c) ==
  /\ FileAt(c, "write")
  /\ disk' = [disk EXCEPT ![FileOf(c)] = "whole"]
  /\ FileGoto(c, "insert")
  /\ UNCHANGED <<fileRow, leftover>>

\* writeFile or file.create fails: nothing removes what was written.
UploadFailed(c) ==
  /\ fileCall[c].at \in {"write", "insert"}
  /\ leftover' = leftover \cup {FileOf(c)}
  /\ FileDone(c)
  /\ UNCHANGED <<fileRow, disk>>

FileInserted(c) ==
  /\ FileAt(c, "insert")
  /\ fileRow' = [fileRow EXCEPT ![FileOf(c)] = "live"]
  /\ FileDone(c)
  /\ UNCHANGED <<disk, leftover>>

\* findFirst of download and softDelete: only a row that is not deleted.
RowFound(c) ==
  /\ FileAt(c, "permit") /\ fileCall[c].op # "upload"
  /\ fileRow[FileOf(c)] = "live"
  /\ FileGoto(c, IF fileCall[c].op = "download" THEN "open" ELSE "mark")
  /\ UNCHANGED <<fileRow, disk, leftover>>

\* The update names only the id: a second softDelete that found the row marks
\* it again.
Marked(c) ==
  /\ FileAt(c, "mark")
  /\ fileRow' = [fileRow EXCEPT ![FileOf(c)] = "deleted"]
  /\ FileGoto(c, "unlink")
  /\ UNCHANGED <<disk, leftover>>

Unlinked(c) ==
  /\ FileAt(c, "unlink")
  /\ disk' = [disk EXCEPT ![FileOf(c)] = "none"]
  /\ FileDone(c)
  /\ UNCHANGED <<fileRow, leftover>>

\* unlink(...).catch(() => undefined)
UnlinkSwallowed(c) ==
  /\ FileAt(c, "unlink")
  /\ leftover' = leftover \cup {FileOf(c)}
  /\ FileDone(c)
  /\ UNCHANGED <<fileRow, disk>>

\* createReadStream opens the file; what is open can be read to its end.
Opened(c) ==
  /\ FileAt(c, "open") /\ disk[FileOf(c)] = "whole"
  /\ FileDone(c)
  /\ UNCHANGED <<fileRow, disk, leftover>>

FileProcessDies ==
  /\ fileCall' = [c \in FileCalls |-> FileIdle]
  /\ leftover' = leftover \cup UnderWay
  /\ UNCHANGED <<fileRow, disk>>

\* pipe leaves the stream's 'error' event without a listener, so a file that is
\* gone ends the process.
OpenFailed(c) ==
  /\ FileAt(c, "open") /\ disk[FileOf(c)] # "whole"
  /\ FileProcessDies

\* Anything else that ends the process.
FileCrash ==
  /\ \E c \in FileCalls : fileCall[c] # FileIdle
  /\ FileProcessDies

FilesNext ==
  \/ \E c \in FileCalls :
       \/ \E op \in {"upload", "download", "delete"}, f \in FileIds : FileCalled(c, op, f)
       \/ FileRefused(c) \/ WriteBegun(c) \/ WriteEnded(c) \/ UploadFailed(c)
       \/ FileInserted(c) \/ RowFound(c) \/ Marked(c) \/ Unlinked(c)
       \/ UnlinkSwallowed(c) \/ Opened(c) \/ OpenFailed(c)
  \/ FileCrash

FilesSpec == FilesInit /\ [][FilesNext]_filesVars

-----------------------------------------------------------------------------

\* A file that is listed can be downloaded: whatever fails, whoever deletes it
\* meanwhile and wherever the process dies, a live row has its bytes whole.
LiveRowHasBytes ==
  \A f \in FileIds : fileRow[f] = "live" => disk[f] = "whole"

\* The disk is not filled by the ordinary course of things: bytes without a live
\* row belong to a call that is still on its way or were left by one that failed.
StrayBytesExplained ==
  \A f \in FileIds :
    disk[f] # "none" /\ fileRow[f] # "live" => f \in UnderWay \cup leftover

\* Rows and bytes, kept in two places without a transaction, agree as far as both
\* directions promise.
BytesFollowRows == LiveRowHasBytes /\ StrayBytesExplained
=============================================================================

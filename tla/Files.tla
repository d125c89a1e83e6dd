------------------------------- MODULE Files --------------------------------
(***************************************************************************)
(* Uploads and downloads (web/files.rs, web/api.rs): the content goes to   *)
(* disk first, the row after it, so that a crash between the two leaves a  *)
(* file nobody can reach and never a row without its file.                 *)
(* A size stands for the content; writing may stop half way.               *)
(***************************************************************************)
EXTENDS Naturals, Sequences

CONSTANTS Uploads,       \* handler tasks that may run at once
          MaxFileSize,   \* MAX_FILE_SIZE, in chunks
          MaxFiles,      \* bound: file ids handed out
          MaxDownloads   \* bound: downloads answered, and under way at once

ASSUME FilesAssumption == {MaxFileSize, MaxFiles, MaxDownloads} \subseteq Nat

VARIABLES filerows,   \* files: rows [id, size]
          disk,       \* content root: [id, size, whole]
          ucalls,     \* the upload each task runs
          lastFile,   \* last file id handed out
          lostReply,  \* ids whose INSERT committed and whose reply was lost
          reading,    \* rows that downloads under way have read
          served      \* answers of the download handler

fileVars == <<filerows, disk, ucalls, lastFile, lostReply, reading, served>>

NoUpload == [at |-> "idle", size |-> 0, id |-> 0, code |-> 0]

FilesInit ==
    /\ filerows = {}
    /\ disk = {}
    /\ ucalls = [t \in Uploads |-> NoUpload]
    /\ lastFile = 0
    /\ lostReply = {}
    /\ reading = {}
    /\ served = <<>>

UAnswer(t, code) ==
    ucalls' = [ucalls EXCEPT ![t] = [NoUpload EXCEPT !.at = "answered", !.code = code]]

\* POST /api/files: fields other than "file" are skipped; a request without
\* that field, or one that cannot be parsed, is refused.
UploadCall(t) ==
    /\ ucalls[t].at \in {"idle", "answered"}
    /\ lastFile < MaxFiles
    /\ \/ ucalls' = [ucalls EXCEPT ![t] = [NoUpload EXCEPT !.at = "chunks"]]
       \/ UAnswer(t, 400)
    /\ UNCHANGED <<filerows, disk, lastFile, lostReply, reading, served>>

\* One more chunk, refused as soon as the total would pass the limit.
UploadChunk(t) ==
    /\ ucalls[t].at = "chunks"
    /\ \/ UAnswer(t, 400)
       \/ /\ ucalls[t].size + 1 > MaxFileSize
          /\ UAnswer(t, 413)
       \/ /\ ucalls[t].size + 1 <= MaxFileSize
          /\ ucalls' = [ucalls EXCEPT ![t].size = @ + 1]
    /\ UNCHANGED <<filerows, disk, lastFile, lostReply, reading, served>>

\* FileStore::save up to the id.
SaveNumber(t) ==
    /\ ucalls[t].at = "chunks"
    /\ \/ /\ UAnswer(t, 503)
          /\ UNCHANGED lastFile
       \/ /\ lastFile < MaxFiles
          /\ lastFile' = lastFile + 1
          /\ ucalls' = [ucalls EXCEPT ![t].at = "write", ![t].id = lastFile + 1]
    /\ UNCHANGED <<filerows, disk, lostReply, reading, served>>

Content(t, whole) == [id |-> ucalls[t].id, size |-> ucalls[t].size, whole |-> whole]

\* Mutant of SaveWrite: the outcome of the write is ignored.
SaveWrite_Unchecked(t) ==
    /\ ucalls[t].at = "write"
    /\ \E whole \in BOOLEAN : disk' = disk \cup {Content(t, whole)}
    /\ ucalls' = [ucalls EXCEPT ![t].at = "insert"]
    /\ UNCHANGED <<filerows, lastFile, lostReply, reading, served>>

\* tokio::fs::write: done, or failed with part of the file on disk.
SaveWrite(t) ==
    /\ ucalls[t].at = "write"
    /\ \/ /\ disk' = disk \cup {Content(t, TRUE)}
          /\ ucalls' = [ucalls EXCEPT ![t].at = "insert"]
       \/ /\ \/ disk' = disk
             \/ disk' = disk \cup {Content(t, FALSE)}
          /\ UAnswer(t, 500)
    /\ UNCHANGED <<filerows, lastFile, lostReply, reading, served>>

Row(t) == [id |-> ucalls[t].id, size |-> ucalls[t].size]

\* INSERT INTO files: stored; or failed, and the file is removed if it can be;
\* or stored with its reply lost, and the file is removed all the same.
SaveInsert(t) ==
    /\ ucalls[t].at = "insert"
    /\ \/ /\ filerows' = filerows \cup {Row(t)}
          /\ UAnswer(t, 201)
          /\ UNCHANGED <<disk, lostReply>>
       \/ /\ disk' \in {disk, {f \in disk : f.id # ucalls[t].id}}
          /\ UAnswer(t, 500)
          /\ \/ UNCHANGED <<filerows, lostReply>>
             \/ /\ filerows' = filerows \cup {Row(t)}
                /\ lostReply' = lostReply \cup {ucalls[t].id}
    /\ UNCHANGED <<lastFile, reading, served>>

save(t) == SaveNumber(t) \/ SaveWrite(t) \/ SaveInsert(t)

\* The server dies: handlers are gone, a write under way leaves what it wrote.
FilesCrash ==
    /\ \E t \in Uploads : ucalls[t].at \in {"write", "insert"}
    /\ disk' = disk \cup {Content(t, FALSE) : t \in {s \in Uploads : ucalls[s].at = "write"}}
    /\ ucalls' = [t \in Uploads |-> NoUpload]
    /\ reading' = {}
    /\ UNCHANGED <<filerows, lastFile, lostReply, served>>

\* What a download is answered: a code, and with 200 what was read.
DAnswer(id, code, size, whole) ==
    served' = Append(served, [id |-> id, code |-> code, size |-> size, whole |-> whole])

\* GET /api/files/{id}, FileStore::meta: the row; or none (404), or the
\* statement failed (500).
ReadMeta(id) ==
    /\ Len(served) < MaxDownloads
    /\ \/ \E r \in filerows :
             /\ r.id = id
             /\ reading' = reading \cup {r}
             /\ UNCHANGED served
       \/ /\ \A r \in filerows : r.id # id
          /\ DAnswer(id, 404, 0, FALSE)
          /\ UNCHANGED reading
       \/ /\ DAnswer(id, 500, 0, FALSE)
          /\ UNCHANGED reading
    /\ UNCHANGED <<filerows, disk, ucalls, lastFile, lostReply>>

\* The file of a row read: its content; or it is not there, or reading it
\* failed (500 both).
ReadDisk(r) ==
    /\ Len(served) < MaxDownloads
    /\ reading' = reading \ {r}
    /\ \/ \E f \in disk : f.id = r.id /\ DAnswer(r.id, 200, f.size, f.whole)
       \/ DAnswer(r.id, 500, 0, FALSE)
    /\ UNCHANGED <<filerows, disk, ucalls, lastFile, lostReply>>

FilesNext ==
    \/ \E t \in Uploads : UploadCall(t) \/ UploadChunk(t) \/ save(t)
    \/ FilesCrash
    \/ \E id \in 1..MaxFiles : ReadMeta(id)
    \/ \E r \in reading : ReadDisk(r)

FilesSpec == FilesInit /\ [][FilesNext]_fileVars

-----------------------------------------------------------------------------
\* Through failed writes, failed inserts and crashes a row has its whole file
\* beside it, of the recorded size and within the limit; the exception is an
\* insert that committed while its reply was lost, after which the handler
\* removes the file of a row that exists (files.rs:141). Whatever a download
\* may be refused with, what it is given with a 200 is without exception the
\* whole file, of the size in its row: never the rest of a write that failed
\* or of a crash, nor of an upload still under way.
RowHasFile ==
    /\ \A r \in filerows : r.id \in lostReply \/
          /\ [id |-> r.id, size |-> r.size, whole |-> TRUE] \in disk
          /\ r.size <= MaxFileSize
    /\ \A i \in DOMAIN served : served[i].code = 200 =>
          /\ served[i].whole
          /\ [id |-> served[i].id, size |-> served[i].size] \in filerows

=============================================================================

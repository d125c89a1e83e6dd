---------------------------- MODULE StoresProofs ----------------------------
(***************************************************************************)
(* Proofs about the tables behind the REST interface: the files, the       *)
(* groups, the accounts and the friends, for any number of users, rows,    *)
(* handlers and calls.                                                     *)
(***************************************************************************)
EXTENDS Friends, Accounts, Groups, Files, TLAPS

(***************************************************************************)
(* Files.                                                                  *)
(***************************************************************************)
Upload == [at : {"idle", "answered", "chunks", "write", "insert"},
           size : Nat, id : 0..lastFile, code : Nat]

FileAnswer == [id : Nat, code : Nat, size : Nat, whole : BOOLEAN]

FilesTypes ==
  /\ lastFile \in Nat
  /\ filerows \subseteq [id : 1..lastFile, size : Nat]
  /\ disk \subseteq [id : Nat, size : Nat, whole : BOOLEAN]
  /\ ucalls \in [Uploads -> Upload]
  /\ lostReply \subseteq Nat
  /\ reading \subseteq filerows
  /\ served \in Seq(FileAnswer)

\* The tasks that hold an id which is not in the table yet.
Saving(t) == ucalls[t].at \in {"write", "insert"}

\* The id of an upload under way belongs to it alone, and its row is not
\* written yet.
OwnIds ==
  \A t \in Uploads : Saving(t) =>
    /\ ucalls[t].id # 0
    /\ \A s \in Uploads : Saving(s) /\ ucalls[s].id = ucalls[t].id => s = t
    /\ \A r \in filerows : r.id # ucalls[t].id

\* An upload never holds more than the limit, and the row is inserted with its
\* file complete on disk.
FileFirst ==
  \A t \in Uploads :
    /\ ucalls[t].size <= MaxFileSize
    /\ ucalls[t].at = "insert" => Content(t, TRUE) \in disk

FilesInv == FilesTypes /\ OwnIds /\ FileFirst /\ RowHasFile

\* What is on disk under the id of an upload is that upload's own, and what is
\* there under the id of a row is what the row was written for.
Numbered == \A f \in disk : f.id <= lastFile
Own(c, f) == c.at # "write" /\ (c.at = "insert" => f.whole /\ f.size = c.size)
UploadsOwn == \A t \in Uploads, f \in disk : f.id = ucalls[t].id => Own(ucalls[t], f)
RowsOwn == \A r \in filerows, f \in disk : f.id = r.id => f.whole /\ f.size = r.size
DiskOwned == Numbered /\ UploadsOwn /\ RowsOwn

LEMMA FileBounds == 0 <= MaxFileSize /\ MaxFileSize \in Nat /\ MaxFiles \in Nat
<1> QED BY FilesAssumption

\* What UAnswer puts in place of a call.
Answered(code) == [NoUpload EXCEPT !.at = "answered", !.code = code]

LEMMA AnsweredUpload ==
  ASSUME lastFile \in Nat, NEW code \in Nat
  PROVE  /\ Answered(code) \in Upload
         /\ Answered(code).at = "answered" /\ Answered(code).size = 0
<1>1. NoUpload \in Upload /\ NoUpload.size = 0
  BY DEF NoUpload, Upload
<1> QED BY <1>1 DEF Upload, Answered

\* The call changes to one that does not hold an id, or no longer does; on disk
\* there may be more than before.
LEMMA NotSaving ==
  ASSUME FilesInv, NEW t \in Uploads, NEW u \in Upload,
         ucalls' = [ucalls EXCEPT ![t] = u],
         u.at \notin {"write", "insert"}, u.size <= MaxFileSize,
         disk \subseteq disk', disk' \subseteq [id : Nat, size : Nat, whole : BOOLEAN],
         UNCHANGED <<filerows, lastFile, lostReply, reading, served>>
  PROVE  FilesInv'
<1>1. ucalls'[t] = u /\ \A s \in Uploads \ {t} : ucalls'[s] = ucalls[s]
  BY DEF FilesInv, FilesTypes
<1>2. FilesTypes'
  BY DEF FilesInv, FilesTypes, Upload
<1>3. OwnIds'
  BY <1>1 DEF FilesInv, OwnIds, Saving
<1>4. FileFirst'
  BY <1>1 DEF FilesInv, FileFirst, Content
<1>5. RowHasFile'
  BY DEF FilesInv, RowHasFile
<1> QED BY <1>2, <1>3, <1>4, <1>5 DEF FilesInv

LEMMA UploadAnswered ==
  ASSUME FilesInv, NEW t \in Uploads, NEW code \in Nat, UAnswer(t, code),
         disk \subseteq disk', disk' \subseteq [id : Nat, size : Nat, whole : BOOLEAN],
         UNCHANGED <<filerows, lastFile, lostReply, reading, served>>
  PROVE  FilesInv'
<1>1. /\ Answered(code) \in Upload
      /\ Answered(code).at = "answered" /\ Answered(code).size = 0
  BY AnsweredUpload DEF FilesInv, FilesTypes
<1>2. ucalls' = [ucalls EXCEPT ![t] = Answered(code)]
  BY DEF UAnswer, Answered
<1>3. Answered(code).size <= MaxFileSize
  BY <1>1, FilesAssumption
<1> QED BY <1>1, <1>2, <1>3, NotSaving

\* Receiving the request.
LEMMA ReceivingStep ==
  ASSUME FilesInv, NEW t \in Uploads, UploadCall(t) \/ UploadChunk(t)
  PROVE  FilesInv'
<1>1. UNCHANGED <<filerows, disk, lastFile, lostReply, reading, served>>
  BY DEF UploadCall, UploadChunk
<1>2. CASE \E code \in {400, 413} : UAnswer(t, code)
  BY <1>1, <1>2, UploadAnswered DEF FilesInv, FilesTypes
<1>3. CASE ucalls' = [ucalls EXCEPT ![t] = [NoUpload EXCEPT !.at = "chunks"]]
  <2>1. NoUpload \in Upload /\ NoUpload.size = 0
    BY DEF NoUpload, Upload, FilesInv, FilesTypes
  <2> DEFINE u == [NoUpload EXCEPT !.at = "chunks"]
  <2>2. u \in Upload /\ u.at = "chunks" /\ u.size <= MaxFileSize
    BY <2>1, FilesAssumption DEF Upload
  <2>3. ucalls' = [ucalls EXCEPT ![t] = u]
    BY <1>3
  <2> HIDE DEF u
  <2> QED BY <1>1, <2>2, <2>3, NotSaving DEF FilesInv, FilesTypes
<1>4. CASE /\ ucalls[t].at = "chunks" /\ ucalls[t].size + 1 <= MaxFileSize
           /\ ucalls' = [ucalls EXCEPT ![t].size = @ + 1]
  <2> DEFINE u == [ucalls[t] EXCEPT !.size = @ + 1]
  <2>1. ucalls[t] \in Upload
    BY DEF FilesInv, FilesTypes
  <2>2. u \in Upload /\ u.at = "chunks" /\ u.size <= MaxFileSize
    BY <1>4, <2>1 DEF Upload
  <2>3. ucalls' = [ucalls EXCEPT ![t] = u]
    BY <1>4
  <2> HIDE DEF u
  <2> QED BY <1>1, <2>2, <2>3, NotSaving DEF FilesInv, FilesTypes
<1> QED BY <1>2, <1>3, <1>4 DEF UploadCall, UploadChunk

\* The id is new, so it is nobody else's and no row has it.
LEMMA NumberStep ==
  ASSUME FilesInv, NEW t \in Uploads, SaveNumber(t)
  PROVE  FilesInv'
<1>1. CASE UAnswer(t, 503) /\ UNCHANGED lastFile
  <2>1. UNCHANGED <<filerows, disk, lastFile, lostReply, reading, served>>
    BY <1>1 DEF SaveNumber
  <2> QED BY <1>1, <2>1, UploadAnswered DEF FilesInv, FilesTypes
<1>2. CASE /\ lastFile' = lastFile + 1
           /\ ucalls' = [ucalls EXCEPT ![t].at = "write", ![t].id = lastFile + 1]
  <2> DEFINE u == [[ucalls[t] EXCEPT !.at = "write"] EXCEPT !.id = lastFile + 1]
  <2>1. ucalls[t] \in Upload /\ ucalls \in [Uploads -> Upload]
    BY DEF FilesInv, FilesTypes
  <2>2. /\ u \in [at : {"idle", "answered", "chunks", "write", "insert"},
                   size : Nat, id : 0..(lastFile + 1), code : Nat]
        /\ u.at = "write" /\ u.id = lastFile + 1 /\ u.size = ucalls[t].size
    <3> DEFINE v == [ucalls[t] EXCEPT !.at = "write"]
    <3>1. v \in Upload /\ v.at = "write" /\ v.size = ucalls[t].size
      BY <2>1 DEF Upload
    <3>2. u = [v EXCEPT !.id = lastFile + 1]
      OBVIOUS
    <3>3. lastFile \in Nat /\ lastFile + 1 \in 0..(lastFile + 1)
      BY DEF FilesInv, FilesTypes
    <3> HIDE DEF v, u
    <3> QED BY <3>1, <3>2, <3>3 DEF Upload
  <2>3. ucalls' = [ucalls EXCEPT ![t] = u]
    BY <1>2, <2>1
  <2> HIDE DEF u
  <2>4. ucalls'[t] = u /\ \A s \in Uploads \ {t} : ucalls'[s] = ucalls[s]
    BY <2>1, <2>3
  <2>5. UNCHANGED <<filerows, disk, lostReply, reading, served>>
    BY DEF SaveNumber
  <2>6. Upload \subseteq Upload' /\ u \in Upload'
    BY <1>2, <2>2 DEF Upload, FilesInv, FilesTypes
  <2>7. FilesTypes'
    <3>1. ucalls' \in [Uploads -> Upload']
      BY <2>1, <2>3, <2>6
    <3>2. filerows' \subseteq [id : 1..lastFile', size : Nat]
      BY <1>2, <2>5 DEF FilesInv, FilesTypes
    <3> QED BY <1>2, <2>5, <3>1, <3>2 DEF FilesInv, FilesTypes
  <2>8. OwnIds'
    <3>1. \A s \in Uploads : ucalls[s].id \in 0..lastFile
      BY <2>1 DEF Upload
    <3>2. \A r \in filerows : r.id \in 1..lastFile
      BY DEF FilesInv, FilesTypes
    <3> QED BY <2>2, <2>4, <2>5, <3>1, <3>2 DEF FilesInv, FilesTypes, OwnIds, Saving
  <2>9. FileFirst'
    BY <2>2, <2>4, <2>5 DEF FilesInv, FileFirst, Content
  <2>10. RowHasFile'
    BY <2>5 DEF FilesInv, RowHasFile
  <2> QED BY <2>7, <2>8, <2>9, <2>10 DEF FilesInv
<1> QED BY <1>1, <1>2 DEF SaveNumber

\* What a task writes is typed, and an upload that gives up was never a row's.
LEMMA WriteStep ==
  ASSUME FilesInv, NEW t \in Uploads, SaveWrite(t)
  PROVE  FilesInv'
<1>1. ucalls[t] \in Upload /\ ucalls \in [Uploads -> Upload]
  BY DEF FilesInv, FilesTypes
<1>2. \A whole \in BOOLEAN : Content(t, whole) \in [id : Nat, size : Nat, whole : BOOLEAN]
  BY <1>1 DEF Content, Upload, FilesInv, FilesTypes
<1>3. disk \subseteq disk' /\ disk' \subseteq [id : Nat, size : Nat, whole : BOOLEAN]
  BY <1>2 DEF SaveWrite, FilesInv, FilesTypes
<1>4. ucalls[t].at = "write" /\ UNCHANGED <<filerows, lastFile, lostReply, reading, served>>
  BY DEF SaveWrite
<1>5. CASE UAnswer(t, 500)
  BY <1>3, <1>4, <1>5, UploadAnswered
<1>6. CASE /\ disk' = disk \cup {Content(t, TRUE)}
           /\ ucalls' = [ucalls EXCEPT ![t].at = "insert"]
  <2> DEFINE u == [ucalls[t] EXCEPT !.at = "insert"]
  <2>1. u \in Upload /\ u.at = "insert" /\ u.id = ucalls[t].id /\ u.size = ucalls[t].size
    BY <1>1 DEF Upload
  <2>2. ucalls' = [ucalls EXCEPT ![t] = u]
    BY <1>6
  <2> HIDE DEF u
  <2>3. ucalls'[t] = u /\ \A s \in Uploads \ {t} : ucalls'[s] = ucalls[s]
    BY <1>1, <2>2
  <2>4. FilesTypes'
    BY <1>3, <1>4, <2>1, <2>2 DEF FilesInv, FilesTypes, Upload
  <2>5. OwnIds'
    BY <1>4, <2>1, <2>3 DEF FilesInv, OwnIds, Saving
  <2>6. FileFirst'
    <3>1. Content(t, TRUE)' = Content(t, TRUE)
      BY <2>1, <2>3 DEF Content
    <3> QED BY <1>3, <1>6, <2>1, <2>3, <3>1 DEF FilesInv, FileFirst, Content
  <2>7. RowHasFile'
    BY <1>3, <1>4 DEF FilesInv, RowHasFile
  <2> QED BY <2>4, <2>5, <2>6, <2>7 DEF FilesInv
<1> QED BY <1>5, <1>6 DEF SaveWrite

\* The row goes in with the file complete; when the handler removes the file,
\* the id is its own: no other row and no other upload loses its file.
LEMMA InsertStep ==
  ASSUME FilesInv, NEW t \in Uploads, SaveInsert(t)
  PROVE  FilesInv'
<1>1. ucalls[t] \in Upload /\ ucalls \in [Uploads -> Upload] /\ ucalls[t].at = "insert"
  BY DEF FilesInv, FilesTypes, SaveInsert
<1>2. PICK code \in {201, 500} : UAnswer(t, code)
  BY DEF SaveInsert
<1> DEFINE u == Answered(code)
<1>3. ucalls' = [ucalls EXCEPT ![t] = u]
  BY <1>2 DEF UAnswer, Answered
<1>4. u \in Upload /\ u.at = "answered" /\ u.size = 0
  BY AnsweredUpload DEF FilesInv, FilesTypes
<1> HIDE DEF u
<1>5. ucalls'[t] = u /\ \A s \in Uploads \ {t} : ucalls'[s] = ucalls[s]
  BY <1>1, <1>3
<1>6. ucalls[t].id \in 1..lastFile /\ Row(t) \in [id : 1..lastFile, size : Nat]
  BY <1>1 DEF FilesInv, FilesTypes, OwnIds, Saving, Upload, Row
<1>7. /\ filerows' \in {filerows, filerows \cup {Row(t)}}
      /\ lostReply' \in {lostReply, lostReply \cup {ucalls[t].id}}
      /\ disk' \in {disk, {f \in disk : f.id # ucalls[t].id}}
      /\ disk' = disk \/ filerows' = filerows \/ ucalls[t].id \in lostReply'
      /\ UNCHANGED <<lastFile, reading, served>>
  BY DEF SaveInsert
<1>8. FilesTypes'
  BY <1>3, <1>4, <1>6, <1>7 DEF FilesInv, FilesTypes, Upload
<1>9. OwnIds'
  BY <1>1, <1>4, <1>5, <1>7 DEF FilesInv, OwnIds, Saving, Row
<1>10. FileFirst'
  <2> SUFFICES ASSUME NEW s \in Uploads
               PROVE  /\ ucalls'[s].size <= MaxFileSize
                      /\ ucalls'[s].at = "insert" => Content(s, TRUE)' \in disk'
    BY DEF FileFirst
  <2>1. CASE s = t
    BY <1>4, <1>5, <2>1, FileBounds
  <2>2. CASE s # t
    <3>1. Content(s, TRUE)' = Content(s, TRUE)
      BY <1>5, <2>2 DEF Content
    <3>2. ucalls[s].at = "insert" => Content(s, TRUE).id # ucalls[t].id
      BY <1>1, <2>2 DEF FilesInv, OwnIds, Saving, Content
    <3>3. /\ ucalls[s].size <= MaxFileSize
          /\ ucalls[s].at = "insert" => Content(s, TRUE) \in disk
      BY DEF FilesInv, FileFirst
    <3>4. ucalls[s].at = "insert" => Content(s, TRUE) \in disk'
      BY <1>7, <3>2, <3>3 DEF Content
    <3> QED BY <1>5, <2>2, <3>1, <3>3, <3>4
  <2> QED BY <2>1, <2>2
<1>11. RowHasFile'
  <2>1. \A r \in filerows : r.id # ucalls[t].id
    BY <1>1 DEF FilesInv, OwnIds, Saving
  <2>2. /\ [id |-> Row(t).id, size |-> Row(t).size, whole |-> TRUE] \in disk
        /\ Row(t).id = ucalls[t].id /\ Row(t).size <= MaxFileSize
    BY <1>1 DEF FilesInv, FileFirst, Content, Row
  <2>3. ASSUME NEW r \in filerows', r.id \notin lostReply'
        PROVE  /\ [id |-> r.id, size |-> r.size, whole |-> TRUE] \in disk'
               /\ r.size <= MaxFileSize
    <3>1. CASE r \in filerows
      BY <1>7, <2>1, <2>3, <3>1 DEF FilesInv, RowHasFile
    <3>2. CASE r = Row(t) /\ r \notin filerows
      BY <1>7, <2>2, <2>3, <3>2
    <3> QED BY <1>7, <2>3, <3>1, <3>2
  <2> QED BY <1>7, <2>3 DEF FilesInv, RowHasFile
<1> QED BY <1>8, <1>9, <1>10, <1>11 DEF FilesInv

\* A crash leaves more on disk.
LEMMA CrashStep ==
  ASSUME FilesInv, FilesCrash
  PROVE  FilesInv'
<1>1. ucalls \in [Uploads -> Upload] /\ lastFile \in Nat
  BY DEF FilesInv, FilesTypes
<1>2. NoUpload \in Upload /\ NoUpload.size = 0 /\ NoUpload.at = "idle"
  BY <1>1 DEF NoUpload, Upload
<1>3. \A t \in Uploads : Content(t, FALSE) \in [id : Nat, size : Nat, whole : BOOLEAN]
  BY <1>1 DEF Content, Upload
<1>4. disk \subseteq disk' /\ disk' \subseteq [id : Nat, size : Nat, whole : BOOLEAN]
  BY <1>3 DEF FilesCrash, FilesInv, FilesTypes
<1>5. /\ ucalls' = [t \in Uploads |-> NoUpload] /\ reading' = {}
      /\ UNCHANGED <<filerows, lastFile, lostReply, served>>
  BY DEF FilesCrash
<1>6. FilesTypes'
  BY <1>2, <1>4, <1>5 DEF FilesInv, FilesTypes, Upload
<1>7. OwnIds' /\ FileFirst'
  BY <1>2, <1>5, FileBounds DEF OwnIds, FileFirst, Saving
<1>8. RowHasFile'
  BY <1>4, <1>5 DEF FilesInv, RowHasFile
<1> QED BY <1>6, <1>7, <1>8 DEF FilesInv

\* An answer that is no 200, or that gives a row's whole file, may be sent.
LEMMA AnswerStep ==
  ASSUME FilesInv, NEW a \in FileAnswer, served' = Append(served, a),
         a.code = 200 => a.whole /\ [id |-> a.id, size |-> a.size] \in filerows,
         reading' \subseteq filerows,
         UNCHANGED <<filerows, disk, ucalls, lastFile, lostReply>>
  PROVE  FilesInv'
<1>1. served' \in Seq(FileAnswer)
  BY DEF FilesInv, FilesTypes
<1>2. \A i \in DOMAIN served' : served'[i] = a \/
                                (i \in DOMAIN served /\ served'[i] = served[i])
  BY DEF FilesInv, FilesTypes
<1>3. FilesTypes' /\ OwnIds' /\ FileFirst'
  BY <1>1 DEF FilesInv, FilesTypes, OwnIds, FileFirst, Saving, Content, Upload
<1>4. RowHasFile'
  BY <1>2 DEF FilesInv, RowHasFile
<1> QED BY <1>3, <1>4 DEF FilesInv

\* The row is read: it stays, so it is still there when its file is.
LEMMA MetaStep ==
  ASSUME FilesInv, NEW id \in 1..MaxFiles, ReadMeta(id)
  PROVE  FilesInv'
<1>1. UNCHANGED <<filerows, disk, ucalls, lastFile, lostReply>>
  BY DEF ReadMeta
<1>2. reading \subseteq filerows
  BY DEF FilesInv, FilesTypes
<1>3. CASE \E r \in filerows : reading' = reading \cup {r} /\ UNCHANGED served
  BY <1>1, <1>2, <1>3
     DEF FilesInv, FilesTypes, OwnIds, FileFirst, RowHasFile, Saving, Content, Upload
<1>4. ASSUME NEW code \in {404, 500}, DAnswer(id, code, 0, FALSE), UNCHANGED reading
      PROVE  FilesInv'
  <2> DEFINE a == [id |-> id, code |-> code, size |-> 0, whole |-> FALSE]
  <2>1. a \in FileAnswer /\ a.code # 200
    BY <1>4, FileBounds DEF FileAnswer
  <2>2. served' = Append(served, a) /\ reading' \subseteq filerows
    BY <1>2, <1>4 DEF DAnswer
  <2> HIDE DEF a
  <2>3. a.code = 200 => a.whole /\ [id |-> a.id, size |-> a.size] \in filerows
    BY <2>1
  <2> QED BY <1>1, <2>1, <2>2, <2>3, AnswerStep
<1> QED BY <1>3, <1>4 DEF ReadMeta

\* The file under a row's id is the whole one, so what is given is.
LEMMA DiskStep ==
  ASSUME FilesInv, DiskOwned, NEW r \in reading, ReadDisk(r)
  PROVE  FilesInv'
<1>1. /\ UNCHANGED <<filerows, disk, ucalls, lastFile, lostReply>>
      /\ reading' = reading \ {r} /\ reading' \subseteq filerows /\ r \in filerows
  BY DEF ReadDisk, FilesInv, FilesTypes
<1>2. r.id \in Nat /\ r = [id |-> r.id, size |-> r.size]
  <2>1. lastFile \in Nat /\ r \in [id : 1..lastFile, size : Nat]
    BY <1>1 DEF FilesInv, FilesTypes
  <2> QED BY <2>1
<1>3. CASE DAnswer(r.id, 500, 0, FALSE)
  <2> DEFINE a == [id |-> r.id, code |-> 500, size |-> 0, whole |-> FALSE]
  <2>1. a \in FileAnswer /\ a.code # 200
    BY <1>2 DEF FileAnswer
  <2>2. served' = Append(served, a)
    BY <1>3 DEF DAnswer
  <2> HIDE DEF a
  <2> QED BY <1>1, <2>1, <2>2, AnswerStep
<1>4. CASE \E f \in disk : f.id = r.id /\ DAnswer(r.id, 200, f.size, f.whole)
  <2>1. PICK f \in disk : f.id = r.id /\ DAnswer(r.id, 200, f.size, f.whole)
    BY <1>4
  <2>2. f.size \in Nat /\ f.whole \in BOOLEAN
    BY DEF FilesInv, FilesTypes
  <2>3. f.whole /\ f.size = r.size
    BY <1>1, <2>1 DEF DiskOwned, RowsOwn
  <2> DEFINE a == [id |-> r.id, code |-> 200, size |-> f.size, whole |-> f.whole]
  <2>4. a \in FileAnswer
    BY <1>2, <2>2 DEF FileAnswer
  <2>5. a.whole /\ [id |-> a.id, size |-> a.size] \in filerows
    BY <1>1, <1>2, <2>3
  <2>6. served' = Append(served, a)
    BY <2>1 DEF DAnswer
  <2> HIDE DEF a
  <2> QED BY <1>1, <2>4, <2>5, <2>6, AnswerStep
<1> QED BY <1>3, <1>4 DEF ReadDisk

LEMMA FilesInvStep == FilesInv /\ DiskOwned /\ [FilesNext]_fileVars => FilesInv'
<1> SUFFICES ASSUME FilesInv, DiskOwned, [FilesNext]_fileVars
             PROVE  FilesInv'
  OBVIOUS
<1>1. CASE UNCHANGED fileVars
  BY <1>1 DEF fileVars, FilesInv, FilesTypes, OwnIds, FileFirst, RowHasFile,
              Saving, Content, Upload
<1>2. CASE FilesNext
  BY <1>2, ReceivingStep, NumberStep, WriteStep, InsertStep, CrashStep, MetaStep, DiskStep
     DEF FilesNext, save
<1> QED BY <1>1, <1>2

\* A call that holds no id changes nothing of what is owned.
LEMMA DiskKept ==
  ASSUME FilesInv, DiskOwned, NEW t \in Uploads, NEW u,
         ucalls' = [ucalls EXCEPT ![t] = u], u.at \notin {"write", "insert"},
         UNCHANGED <<filerows, disk, lastFile>>
  PROVE  DiskOwned'
<1>1. ucalls'[t] = u /\ \A s \in Uploads \ {t} : ucalls'[s] = ucalls[s]
  BY DEF FilesInv, FilesTypes
<1> QED BY <1>1 DEF DiskOwned, Numbered, UploadsOwn, RowsOwn, Own

\* Writing: under an id nothing is on disk for, and that no row has.
LEMMA DiskWritten ==
  ASSUME FilesInv, DiskOwned, NEW t \in Uploads, SaveWrite(t)
  PROVE  DiskOwned'
<1>1. ucalls[t] \in Upload /\ ucalls \in [Uploads -> Upload] /\ lastFile \in Nat
  BY DEF FilesInv, FilesTypes
<1>2. ucalls[t].at = "write" /\ UNCHANGED <<filerows, lastFile>> /\ ucalls[t].id <= lastFile
  BY <1>1 DEF SaveWrite, Upload
<1>3. /\ \A f \in disk : f.id # ucalls[t].id
      /\ \A r \in filerows : r.id # ucalls[t].id
      /\ \A s \in Uploads : Saving(s) /\ ucalls[s].id = ucalls[t].id => s = t
  BY <1>2 DEF DiskOwned, UploadsOwn, Own, FilesInv, OwnIds, Saving
<1>4. \A whole \in BOOLEAN : Content(t, whole).id = ucalls[t].id
  BY DEF Content
<1>5. CASE /\ disk' = disk \cup {Content(t, TRUE)}
           /\ ucalls' = [ucalls EXCEPT ![t].at = "insert"]
  <2>1. /\ ucalls'[t].at = "insert" /\ ucalls'[t].id = ucalls[t].id
        /\ ucalls'[t].size = ucalls[t].size
        /\ \A s \in Uploads \ {t} : ucalls'[s] = ucalls[s]
    BY <1>1, <1>5 DEF Upload
  <2>2. Own(ucalls'[t], Content(t, TRUE))
    BY <2>1 DEF Own, Content
  <2>3. Numbered' /\ RowsOwn'
    <3>1. \A f \in disk' : f \in disk \/ f.id = ucalls[t].id
      BY <1>4, <1>5
    <3> QED BY <1>2, <1>3, <3>1 DEF DiskOwned, Numbered, RowsOwn
  <2>4. ASSUME NEW s \in Uploads, NEW f, f \in disk', f.id = ucalls'[s].id
        PROVE  Own(ucalls'[s], f)
    <3>1. CASE s = t
      BY <1>3, <1>5, <2>1, <2>2, <2>4, <3>1
    <3>2. CASE s # t /\ f \in disk
      BY <2>1, <2>4, <3>2 DEF DiskOwned, UploadsOwn
    <3>3. CASE s # t /\ f = Content(t, TRUE)
      BY <1>3, <1>4, <2>1, <2>4, <3>3 DEF Saving, Own
    <3> QED BY <1>5, <2>4, <3>1, <3>2, <3>3
  <2> QED BY <2>3, <2>4 DEF DiskOwned, UploadsOwn
<1>6. CASE /\ UAnswer(t, 500)
           /\ disk' = disk \/ disk' = disk \cup {Content(t, FALSE)}
  <2>1. Answered(500).at = "answered"
    BY <1>1, AnsweredUpload
  <2>2. ucalls'[t].at = "answered" /\ \A s \in Uploads \ {t} : ucalls'[s] = ucalls[s]
    BY <1>1, <1>6, <2>1 DEF UAnswer, Answered
  <2>3. \A f : Own(ucalls'[t], f)
    BY <2>2 DEF Own
  <2>4. Numbered' /\ RowsOwn'
    <3>1. \A f \in disk' : f \in disk \/ f.id = ucalls[t].id
      BY <1>4, <1>6
    <3> QED BY <1>2, <1>3, <3>1 DEF DiskOwned, Numbered, RowsOwn
  <2>5. ASSUME NEW s \in Uploads, NEW f, f \in disk', f.id = ucalls'[s].id
        PROVE  Own(ucalls'[s], f)
    <3>1. CASE s = t
      BY <2>3, <3>1
    <3>2. CASE s # t /\ f \in disk
      BY <2>2, <2>5, <3>2 DEF DiskOwned, UploadsOwn
    <3>3. CASE s # t /\ f = Content(t, FALSE)
      BY <1>3, <1>4, <2>2, <2>5, <3>3 DEF Saving, Own
    <3> QED BY <1>6, <2>5, <3>1, <3>2, <3>3
  <2> QED BY <2>4, <2>5 DEF DiskOwned, UploadsOwn
<1> QED BY <1>5, <1>6 DEF SaveWrite

LEMMA DiskOwnedStep == FilesInv /\ DiskOwned /\ [FilesNext]_fileVars => DiskOwned'
<1> SUFFICES ASSUME FilesInv, DiskOwned, [FilesNext]_fileVars
             PROVE  DiskOwned'
  OBVIOUS
<1>1. /\ ucalls \in [Uploads -> Upload] /\ lastFile \in Nat
      /\ disk \subseteq [id : Nat, size : Nat, whole : BOOLEAN]
  BY DEF FilesInv, FilesTypes
<1>2. ASSUME NEW t \in Uploads, NEW code \in Nat, UAnswer(t, code),
             UNCHANGED <<filerows, disk, lastFile>>
      PROVE  DiskOwned'
  <2>1. Answered(code).at = "answered" /\ ucalls' = [ucalls EXCEPT ![t] = Answered(code)]
    BY <1>1, <1>2, AnsweredUpload DEF UAnswer, Answered
  <2> QED BY <1>2, <2>1, DiskKept
<1>3. ASSUME NEW t \in Uploads, UploadCall(t) \/ UploadChunk(t)
      PROVE  DiskOwned'
  <2>1. UNCHANGED <<filerows, disk, lastFile>>
    BY <1>3 DEF UploadCall, UploadChunk
  <2>2. CASE \E code \in {400, 413} : UAnswer(t, code)
    BY <1>2, <2>1, <2>2
  <2>3. CASE ucalls' = [ucalls EXCEPT ![t] = [NoUpload EXCEPT !.at = "chunks"]]
    <3>1. [NoUpload EXCEPT !.at = "chunks"].at = "chunks"
      BY DEF NoUpload
    <3> QED BY <2>1, <2>3, <3>1, DiskKept
  <2>4. CASE /\ ucalls[t].at = "chunks"
             /\ ucalls' = [ucalls EXCEPT ![t].size = @ + 1]
    <3> DEFINE u == [ucalls[t] EXCEPT !.size = @ + 1]
    <3>1. u.at = "chunks"
      BY <1>1, <2>4 DEF Upload
    <3>2. ucalls' = [ucalls EXCEPT ![t] = u]
      BY <2>4
    <3> HIDE DEF u
    <3> QED BY <2>1, <3>1, <3>2, DiskKept
  <2> QED BY <1>3, <2>2, <2>3, <2>4 DEF UploadCall, UploadChunk
<1>4. ASSUME NEW t \in Uploads, SaveNumber(t)
      PROVE  DiskOwned'
  <2>1. CASE UAnswer(t, 503) /\ UNCHANGED lastFile
    BY <1>2, <1>4, <2>1 DEF SaveNumber
  <2>2. CASE /\ lastFile' = lastFile + 1
             /\ ucalls' = [ucalls EXCEPT ![t].at = "write", ![t].id = lastFile + 1]
    <3>1. /\ ucalls'[t].at = "write" /\ ucalls'[t].id = lastFile + 1
          /\ \A s \in Uploads \ {t} : ucalls'[s] = ucalls[s]
      BY <1>1, <2>2 DEF Upload
    <3>3. UNCHANGED <<filerows, disk>>
      BY <1>4 DEF SaveNumber
    <3>4. \A f \in disk : f.id \in Nat /\ f.id <= lastFile /\ f.id # lastFile + 1
      BY <1>1 DEF DiskOwned, Numbered
    <3>5. Numbered' /\ RowsOwn'
      BY <1>1, <2>2, <3>3, <3>4 DEF DiskOwned, Numbered, RowsOwn
    <3>6. UploadsOwn'
      BY <3>1, <3>3, <3>4 DEF DiskOwned, UploadsOwn
    <3> QED BY <3>5, <3>6 DEF DiskOwned
  <2> QED BY <1>4, <2>1, <2>2 DEF SaveNumber
<1>5. ASSUME NEW t \in Uploads, SaveInsert(t), NEW code \in {201, 500}, UAnswer(t, code)
      PROVE  DiskOwned'
  <2>1. code \in Nat /\ ucalls' = [ucalls EXCEPT ![t] = Answered(code)]
    BY <1>5 DEF UAnswer, Answered
  <2>2. Answered(code).at = "answered"
    BY <1>1, <2>1, AnsweredUpload
  <2>3. ucalls'[t].at = "answered" /\ \A s \in Uploads \ {t} : ucalls'[s] = ucalls[s]
    BY <1>1, <2>1, <2>2
  <2>4. \A f : Own(ucalls'[t], f)
    BY <2>3 DEF Own
  <2>5. /\ ucalls[t].at = "insert" /\ disk' \subseteq disk /\ lastFile' = lastFile
        /\ filerows' \subseteq filerows \cup {Row(t)}
    BY <1>5 DEF SaveInsert
  <2>6. \A f \in disk : f.id = Row(t).id => f.whole /\ f.size = Row(t).size
    BY <2>5 DEF DiskOwned, UploadsOwn, Own, Row
  <2>7. Numbered' /\ RowsOwn'
    BY <2>5, <2>6 DEF DiskOwned, Numbered, RowsOwn
  <2>8. UploadsOwn'
    BY <2>3, <2>4, <2>5 DEF DiskOwned, UploadsOwn
  <2> QED BY <2>7, <2>8 DEF DiskOwned
<1>6. CASE FilesCrash
  <2>1. /\ ucalls' = [t \in Uploads |-> NoUpload] /\ UNCHANGED <<filerows, lastFile>>
        /\ disk' = disk \cup {Content(t, FALSE) :
                               t \in {s \in Uploads : ucalls[s].at = "write"}}
    BY <1>6 DEF FilesCrash
  <2>2. \A t \in Uploads : ucalls'[t].at = "idle"
    BY <2>1 DEF NoUpload
  <2>3. ASSUME NEW t \in Uploads, ucalls[t].at = "write"
        PROVE  /\ Content(t, FALSE).id = ucalls[t].id /\ ucalls[t].id <= lastFile
               /\ \A r \in filerows : r.id # ucalls[t].id
    <3>1. ucalls[t] \in Upload
      BY <1>1
    <3> QED BY <1>1, <2>3, <3>1 DEF Content, FilesInv, OwnIds, Saving, Upload
  <2>4. Numbered' /\ RowsOwn'
    <3>1. \A f \in disk' : f \in disk \/
            (f.id <= lastFile /\ \A r \in filerows : r.id # f.id)
      <4> TAKE f \in disk'
      <4>1. CASE f \in disk
        BY <4>1
      <4>2. CASE f \notin disk
        <5>1. PICK t \in Uploads : ucalls[t].at = "write" /\ f = Content(t, FALSE)
          BY <2>1, <4>2
        <5> QED BY <2>3, <5>1
      <4> QED BY <4>1, <4>2
    <3> QED BY <2>1, <3>1 DEF DiskOwned, Numbered, RowsOwn
  <2>5. UploadsOwn'
    BY <2>2 DEF UploadsOwn, Own
  <2> QED BY <2>4, <2>5 DEF DiskOwned
<1>7. CASE UNCHANGED fileVars
  BY <1>7 DEF fileVars, DiskOwned, Numbered, UploadsOwn, RowsOwn
<1>8. ASSUME (\E id \in 1..MaxFiles : ReadMeta(id)) \/ (\E r \in reading : ReadDisk(r))
      PROVE  DiskOwned'
  <2>1. UNCHANGED <<filerows, disk, ucalls, lastFile>>
    BY <1>8 DEF ReadMeta, ReadDisk
  <2> QED BY <2>1 DEF DiskOwned, Numbered, UploadsOwn, RowsOwn
<1>9. ASSUME NEW t \in Uploads, SaveInsert(t)
      PROVE  DiskOwned'
  BY <1>5, <1>9 DEF SaveInsert
<1> QED BY <1>3, <1>4, <1>6, <1>7, <1>8, <1>9, DiskWritten DEF FilesNext, save

\* Through failed writes, failed inserts and crashes, and with any number of
\* uploads and downloads under way, a row has its whole file on disk, and what
\* a download is given is the whole file of its row (FileStore::save and read,
\* web/files.rs).
THEOREM RowsHaveFiles == FilesSpec => []RowHasFile
<1>1. FilesInit => FilesInv /\ DiskOwned
  BY FilesAssumption
     DEF FilesInit, FilesInv, FilesTypes, OwnIds, FileFirst, RowHasFile, Saving, NoUpload,
         Upload, DiskOwned, Numbered, UploadsOwn, RowsOwn
<1>2. FilesInv => RowHasFile
  BY DEF FilesInv
<1> QED BY <1>1, <1>2, FilesInvStep, DiskOwnedStep, PTL DEF FilesSpec

(***************************************************************************)
(* Groups.                                                                 *)
(***************************************************************************)
GroupCall == [at : {"idle", "answered", "create", "owner", "join", "dirty"},
              me : Folk \cup {0}, group : Nat, user : Folk \cup {0}, code : Nat]

\* A handler inserts for a caller with an account, and adds a member to a group
\* that exists.
SoundCall(c) ==
  /\ c \in GroupCall
  /\ c.at = "create" => c.me \in Enrolled
  /\ c.at = "join" => is_group(c.group)

GroupCalls == gcalls \in [GroupTasks -> GroupCall] /\ \A t \in GroupTasks : SoundCall(gcalls[t])

GroupRows ==
  /\ lastGroup \in Nat
  /\ groups \subseteq [id : 1..lastGroup, owner : Enrolled]
  /\ members \subseteq [group : 1..lastGroup, user : Enrolled, role : {"owner", "member"}]
  /\ \A m \in members : is_group(m.group)

\* The keys of the two tables.
GroupKeys ==
  /\ \A q, r \in groups : q.id = r.id => q = r
  /\ \A m, n \in members : m.group = n.group /\ m.user = n.user => m = n

\* The owner's row is there, and no other row has its role.
OwnerRows ==
  /\ \A row \in groups : OwnerRow(row.id, row.owner) \in members
  /\ \A m \in members : m.role = "owner" => [id |-> m.group, owner |-> m.user] \in groups

\* Members are never removed, so a token signed for one opens the room of a
\* group its user is still in.
GrantRows == \A k \in grants : \E m \in members : m.group = k.room /\ m.user = k.user

GroupsInv == GroupCalls /\ GroupRows /\ GroupKeys /\ OwnerRows /\ GrantRows

LEMMA GroupConstants == Enrolled \subseteq Folk
<1> QED BY GroupsAssumption

\* The invariant, read off the tables, is the property.
LEMMA OwnedFromRows ==
  ASSUME GroupsInv
  PROVE  OwnedGroups
<1>1. ASSUME NEW row \in groups
      PROVE  /\ row.owner \in list_members(row.id)
             /\ <<row.owner, "owner">> \in list_member_users(row.id)
  <2>1. PICK m \in members : m.group = row.id /\ m.user = row.owner /\ m.role = "owner"
    BY DEF GroupsInv, OwnerRows, OwnerRow
  <2>2. m \in {n \in members : n.group = row.id}
    BY <2>1
  <2> QED BY <2>1, <2>2 DEF list_members, list_member_users
<1>2. ASSUME NEW row \in groups, NEW u \in Folk
      PROVE  <<u, "owner">> \in list_member_users(row.id) <=> u = row.owner
  <2>1. row = [id |-> row.id, owner |-> row.owner]
    BY DEF GroupsInv, GroupRows
  <2>2. CASE u = row.owner
    BY <1>1, <2>2
  <2>3. ASSUME <<u, "owner">> \in list_member_users(row.id) PROVE u = row.owner
    <3>1. PICK m \in members : m.group = row.id /\ m.user = u /\ m.role = "owner"
      BY <2>3 DEF list_member_users
    <3>2. [id |-> row.id, owner |-> u] \in groups
      BY <3>1 DEF GroupsInv, OwnerRows
    <3> QED BY <3>2 DEF GroupsInv, GroupKeys
  <2> QED BY <2>2, <2>3
<1>3. \A m \in members : is_group(m.group) /\ <<m.group, m.role>> \in my_groups(m.user)
  BY DEF GroupsInv, GroupRows, my_groups
<1>4. \A m, n \in members : m.group = n.group /\ m.user = n.user => m = n
  BY DEF GroupsInv, GroupKeys
<1>5. \A k \in grants, row \in groups : room_name(row.id) = k.room => is_member(row.id, k.user)
  BY DEF GroupsInv, GrantRows, room_name, is_member
<1> QED BY <1>1, <1>2, <1>3, <1>4, <1>5 DEF OwnedGroups

\* What GAnswer puts in place of a call.
GroupAnswered(code) == [NoGroupCall EXCEPT !.at = "answered", !.code = code]

LEMMA AnswerCall ==
  ASSUME NEW code \in Nat
  PROVE  SoundCall(GroupAnswered(code)) /\ SoundCall(GroupAnswered(code))'
<1>1. NoGroupCall \in GroupCall
  BY DEF NoGroupCall, GroupCall
<1> QED BY <1>1 DEF SoundCall, GroupCall, GroupAnswered

\* A handler moves on; groups are never removed.
LEMMA CallMoves ==
  ASSUME GroupCalls, NEW t \in GroupTasks, NEW c, SoundCall(c)',
         gcalls' = [gcalls EXCEPT ![t] = c], groups \subseteq groups'
  PROVE  GroupCalls'
<1>1. c \in GroupCall
  BY DEF SoundCall, GroupCall
<1>2. gcalls'[t] = c /\ \A s \in GroupTasks \ {t} : gcalls'[s] = gcalls[s]
  BY DEF GroupCalls
<1>3. \A g : is_group(g) => is_group(g)'
  BY DEF is_group
<1>4. \A s \in GroupTasks \ {t} : SoundCall(gcalls[s])'
  BY <1>2, <1>3 DEF GroupCalls, SoundCall, GroupCall
<1>5. \A s \in GroupTasks : SoundCall(gcalls[s])'
  BY <1>2, <1>4 DEF SoundCall
<1> QED BY <1>1, <1>5 DEF GroupCalls, GroupCall, SoundCall, is_group

LEMMA AnswerMoves ==
  ASSUME NEW t \in GroupTasks, NEW code \in Nat, GAnswer(t, code), GroupCalls,
         groups \subseteq groups'
  PROVE  gcalls' = [gcalls EXCEPT ![t] = GroupAnswered(code)] /\ GroupCalls'
<1>1. gcalls' = [gcalls EXCEPT ![t] = GroupAnswered(code)]
  BY DEF GAnswer, GroupAnswered
<1>2. SoundCall(GroupAnswered(code))'
  BY AnswerCall
<1> QED BY <1>1, <1>2, CallMoves

\* A step of a handler that writes no table.
LEMMA ReadOnlyMove ==
  ASSUME GroupsInv, NEW t \in GroupTasks, NEW c, SoundCall(c)',
         gcalls' = [gcalls EXCEPT ![t] = c],
         UNCHANGED <<groups, members, lastGroup, grants>>
  PROVE  GroupsInv'
<1>1. GroupCalls'
  BY CallMoves DEF GroupsInv
<1> QED BY <1>1 DEF GroupsInv, GroupRows, GroupKeys, OwnerRows, GrantRows, OwnerRow, is_group

LEMMA ReadOnlyAnswer ==
  ASSUME GroupsInv, NEW t \in GroupTasks, NEW code \in Nat, GAnswer(t, code),
         UNCHANGED <<groups, members, lastGroup, grants>>
  PROVE  GroupsInv'
<1>1. GroupCalls'
  BY AnswerMoves DEF GroupsInv
<1> QED BY <1>1 DEF GroupsInv, GroupRows, GroupKeys, OwnerRows, GrantRows, OwnerRow, is_group

\* A call reaches its handler.
LEMMA StartStep ==
  ASSUME GroupsInv, NEW t \in GroupTasks, NEW me \in Enrolled,
         \/ \E blank \in BOOLEAN : CreateGroupCall(t, me, blank)
         \/ \E g \in 1..MaxGroups :
               \/ \E u \in Folk : AddMemberCall(t, me, g, u)
               \/ list_group_members(t, me, g)
  PROVE  GroupsInv'
<1>1. NoGroupCall \in GroupCall /\ me \in Folk /\ MaxGroups \in Nat
  BY GroupConstants, GroupsAssumption DEF NoGroupCall, GroupCall
<1>2. UNCHANGED <<groups, members, lastGroup, grants>>
  BY DEF CreateGroupCall, AddMemberCall, list_group_members, GStart
<1>3. CASE \E code \in Nat : GAnswer(t, code)
  BY <1>2, <1>3, ReadOnlyAnswer
<1>4. CASE gcalls' = [gcalls EXCEPT ![t] = [NoGroupCall EXCEPT !.at = "create", !.me = me]]
  <2> DEFINE v == [NoGroupCall EXCEPT !.at = "create"]
             w == [v EXCEPT !.me = me]
  <2>1. v \in GroupCall /\ v.at = "create"
    BY <1>1 DEF GroupCall
  <2>2. gcalls' = [gcalls EXCEPT ![t] = w]
    BY <1>4
  <2> HIDE DEF v
  <2>3. w \in GroupCall /\ w.at = "create" /\ w.me = me
    BY <1>1, <2>1 DEF GroupCall
  <2> HIDE DEF w
  <2>4. SoundCall(w)'
    BY <2>3 DEF SoundCall, GroupCall
  <2> QED BY <1>2, <2>2, <2>4, ReadOnlyMove
<1>5. ASSUME NEW g \in 1..MaxGroups, NEW u \in Folk, AddMemberCall(t, me, g, u)
      PROVE  GroupsInv'
  <2> DEFINE v == [[NoGroupCall EXCEPT !.at = "owner"] EXCEPT !.me = me]
             x == [v EXCEPT !.group = g]
             w == [x EXCEPT !.user = u]
  <2>1. v \in GroupCall /\ v.at = "owner"
    <3> DEFINE y == [NoGroupCall EXCEPT !.at = "owner"]
    <3>1. y \in GroupCall /\ y.at = "owner"
      BY <1>1 DEF GroupCall
    <3> HIDE DEF y
    <3>2. [y EXCEPT !.me = me] \in GroupCall /\ [y EXCEPT !.me = me].at = "owner"
      BY <1>1, <3>1 DEF GroupCall
    <3> QED BY <3>2 DEF y
  <2>2. gcalls' = [gcalls EXCEPT ![t] = w]
    BY <1>5 DEF AddMemberCall, GStart
  <2> HIDE DEF v
  <2>3. x \in GroupCall /\ x.at = "owner"
    BY <1>1, <2>1 DEF GroupCall
  <2> HIDE DEF x
  <2>4. w \in GroupCall /\ w.at = "owner"
    BY <1>1, <2>3 DEF GroupCall
  <2> HIDE DEF w
  <2>5. SoundCall(w)'
    BY <2>4 DEF SoundCall, GroupCall
  <2> QED BY <1>2, <2>2, <2>5, ReadOnlyMove
<1>6. ASSUME NEW blank \in BOOLEAN, CreateGroupCall(t, me, blank)
      PROVE  GroupsInv'
  <2>1. CASE blank
    <3>1. GAnswer(t, 400)
      BY <1>6, <2>1 DEF CreateGroupCall, GStart, GAnswer
    <3> QED BY <1>3, <3>1
  <2>2. CASE ~blank
    BY <1>4, <1>6, <2>2 DEF CreateGroupCall, GStart
  <2> QED BY <2>1, <2>2
<1>7. ASSUME NEW g \in 1..MaxGroups, list_group_members(t, me, g)
      PROVE  GroupsInv'
  <2>1. \E code \in {200, 403, 500} : GAnswer(t, code)
    BY <1>7, ZenonT(40) DEF list_group_members, GStart, GAnswer
  <2> QED BY <1>3, <2>1
<1> QED BY <1>5, <1>6, <1>7

\* Both rows of a group appear together, under an id no row has.
LEMMA CreateStep ==
  ASSUME GroupsInv, NEW t \in GroupTasks, create_group(t)
  PROVE  GroupsInv'
<1>1. gcalls[t].at = "create" /\ gcalls[t].me \in Enrolled
  BY DEF create_group, GroupsInv, GroupCalls, SoundCall
<1>2. CASE /\ \E code \in {503, 500} : GAnswer(t, code)
           /\ UNCHANGED <<groups, members, lastGroup>>
  BY <1>2, ReadOnlyAnswer DEF create_group
<1>3. CASE /\ lastGroup' = lastGroup + 1
           /\ groups' = groups \cup {[id |-> lastGroup + 1, owner |-> gcalls[t].me]}
           /\ members' = members \cup {OwnerRow(lastGroup + 1, gcalls[t].me)}
           /\ \E code \in {201, 500} : GAnswer(t, code)
  <2> DEFINE g == lastGroup + 1
             row == [id |-> g, owner |-> gcalls[t].me]
  <2>1. GroupCalls'
    <3>1. PICK code \in {201, 500} : GAnswer(t, code)
      BY <1>3
    <3>2. groups \subseteq groups' /\ GroupCalls /\ code \in Nat
      BY <1>3 DEF GroupsInv
    <3> QED BY <3>1, <3>2, AnswerMoves
  <2>2. /\ \A r \in groups : r.id \in 1..lastGroup
        /\ \A m \in members : m.group \in 1..lastGroup
        /\ lastGroup \in Nat
    BY DEF GroupsInv, GroupRows
  <2>3. GroupRows'
    <3>1. g \in 1..g /\ 1..lastGroup \subseteq 1..g
      BY <2>2
    <3>2. row \in [id : 1..g, owner : Enrolled]
      BY <1>1, <3>1
    <3>3. /\ OwnerRow(g, gcalls[t].me) \in [group : 1..g, user : Enrolled,
                                            role : {"owner", "member"}]
          /\ OwnerRow(g, gcalls[t].me).group = g
      BY <1>1, <3>1 DEF OwnerRow
    <3>4. \A m \in members' : is_group(m.group)'
      <4>1. \A m \in members : is_group(m.group)'
        BY <1>3 DEF GroupsInv, GroupRows, is_group
      <4> PICK h : h = g
        OBVIOUS
      <4>2. row \in groups' /\ row.id = h
        BY <1>3
      <4>3. is_group(h)'
        BY <4>2 DEF is_group
      <4>4. \A m \in members' : m \in members \/ m.group = h
        BY <1>3, <3>3
      <4> QED BY <4>1, <4>3, <4>4 DEF is_group
    <3>5. groups' \subseteq [id : 1..g, owner : Enrolled]
      BY <1>3, <3>1, <3>2 DEF GroupsInv, GroupRows
    <3>6. members' \subseteq [group : 1..g, user : Enrolled, role : {"owner", "member"}]
      BY <1>3, <3>1, <3>3 DEF GroupsInv, GroupRows
    <3> QED BY <1>3, <2>2, <3>4, <3>5, <3>6 DEF GroupRows
  <2>4. GroupKeys'
    BY <1>1, <1>3, <2>2 DEF GroupsInv, GroupKeys, OwnerRow
  <2>5. OwnerRows'
    BY <1>1, <1>3, <2>2 DEF GroupsInv, OwnerRows, OwnerRow
  <2>6. GrantRows'
    BY <1>3 DEF GroupsInv, GrantRows, create_group
  <2> QED BY <2>1, <2>3, <2>4, <2>5, <2>6 DEF GroupsInv
<1> QED BY <1>2, <1>3 DEF create_group

LEMMA OwnerStep ==
  ASSUME GroupsInv, NEW t \in GroupTasks, CheckOwner(t)
  PROVE  GroupsInv'
<1>1. UNCHANGED <<groups, members, lastGroup, grants>>
  BY DEF CheckOwner
<1>2. CASE \E code \in {404, 403, 500} : GAnswer(t, code)
  BY <1>1, <1>2, ReadOnlyAnswer
<1>3. CASE /\ \E r \in groups : r.id = gcalls[t].group
           /\ gcalls' = [gcalls EXCEPT ![t].at = "join"]
  <2>1. gcalls[t] \in GroupCall /\ gcalls \in [GroupTasks -> GroupCall]
    BY DEF GroupsInv, GroupCalls
  <2> PICK v : v = [gcalls[t] EXCEPT !.at = "join"]
    OBVIOUS
  <2>2. v \in GroupCall /\ v.at = "join" /\ v.group = gcalls[t].group
    BY <2>1 DEF GroupCall
  <2>3. gcalls' = [gcalls EXCEPT ![t] = v]
    BY <1>3
  <2>4. SoundCall(v)'
    BY <1>1, <1>3, <2>2 DEF SoundCall, GroupCall, is_group
  <2> QED BY <1>1, <2>3, <2>4, ReadOnlyMove
<1> QED BY <1>2, <1>3 DEF CheckOwner

\* Adding a user again leaves the row that is there, and its role.
LEMMA JoinStep ==
  ASSUME GroupsInv, NEW t \in GroupTasks, InsertMember(t)
  PROVE  GroupsInv'
<1> DEFINE g == gcalls[t].group
           u == gcalls[t].user
<1>1. /\ is_group(g) /\ gcalls[t] \in GroupCall
      /\ UNCHANGED <<groups, lastGroup, gcount, dirtied, grants>>
  BY DEF InsertMember, GroupsInv, GroupCalls, SoundCall
<1>2. \/ \E code \in {500} : GAnswer(t, code)
      \/ gcalls' = [gcalls EXCEPT ![t].at = "dirty"]
  BY DEF InsertMember
<1>3. GroupCalls'
  <2>1. CASE \E code \in {500} : GAnswer(t, code)
    BY <1>1, <2>1, AnswerMoves DEF GroupsInv
  <2>2. CASE gcalls' = [gcalls EXCEPT ![t].at = "dirty"]
    <3> PICK v : v = [gcalls[t] EXCEPT !.at = "dirty"]
      OBVIOUS
    <3>1. v \in GroupCall /\ v.at = "dirty"
      BY <1>1 DEF GroupCall
    <3>2. gcalls' = [gcalls EXCEPT ![t] = v]
      BY <2>2
    <3>3. SoundCall(v)'
      BY <3>1 DEF SoundCall, GroupCall
    <3> QED BY <1>1, <3>2, <3>3, CallMoves DEF GroupsInv
  <2> QED BY <1>2, <2>1, <2>2
<1>4. CASE UNCHANGED members
  BY <1>1, <1>3, <1>4
     DEF GroupsInv, GroupRows, GroupKeys, OwnerRows, GrantRows, OwnerRow, is_group
<1>5. CASE u \in Enrolled /\ ~is_member(g, u) /\ members' = Joined(g, u)
  <2> DEFINE m == [group |-> g, user |-> u, role |-> "member"]
  <2>1. members' = members \cup {m}
    BY <1>5 DEF Joined
  <2>2. g \in 1..lastGroup
    BY <1>1 DEF is_group, GroupsInv, GroupRows
  <2>3. \A n \in members : n.group # g \/ n.user # u
    BY <1>5 DEF is_member
  <2>4. GroupRows'
    BY <1>1, <1>5, <2>1, <2>2 DEF GroupsInv, GroupRows, is_group
  <2>5. GroupKeys'
    BY <1>1, <2>1, <2>3 DEF GroupsInv, GroupKeys
  <2>6. OwnerRows'
    BY <1>1, <2>1 DEF GroupsInv, OwnerRows, OwnerRow
  <2>7. GrantRows'
    BY <1>1, <2>1 DEF GroupsInv, GrantRows
  <2> QED BY <1>3, <2>4, <2>5, <2>6, <2>7 DEF GroupsInv
<1> QED BY <1>4, <1>5 DEF InsertMember, Joined

\* A token is signed for a member of the group of its room.
LEMMA GrantStep ==
  ASSUME GroupsInv, NEW t \in GroupTasks, NEW me \in Enrolled, NEW g \in 1..MaxGroups,
         meeting_token(t, me, g)
  PROVE  GroupsInv'
<1>1. UNCHANGED <<groups, members, lastGroup>>
  BY DEF meeting_token
<1>2. CASE UNCHANGED grants /\ \E code \in {403, 500} : GAnswer(t, code)
  BY <1>1, <1>2, ReadOnlyAnswer
<1>3. CASE /\ is_member(g, me) /\ GAnswer(t, 200)
           /\ grants' = grants \cup {sign_meeting_token(me, room_name(g))}
  <2>1. GroupCalls'
    BY <1>1, <1>3, AnswerMoves DEF GroupsInv
  <2>2. GrantRows'
    BY <1>1, <1>3 DEF GroupsInv, GrantRows, is_member, sign_meeting_token, room_name
  <2> QED BY <1>1, <2>1, <2>2
          DEF GroupsInv, GroupRows, GroupKeys, OwnerRows, OwnerRow, is_group
<1> QED BY <1>2, <1>3 DEF meeting_token

LEMMA GroupsInvInductive == GroupsInv /\ [GroupsNext]_groupVars => GroupsInv'
<1> SUFFICES ASSUME GroupsInv, [GroupsNext]_groupVars
             PROVE  GroupsInv'
  OBVIOUS
<1>1. CASE UNCHANGED groupVars
  BY <1>1 DEF groupVars, GroupsInv, GroupCalls, SoundCall, GroupCall, GroupRows, GroupKeys,
              OwnerRows, GrantRows, OwnerRow, is_group
<1>2. ASSUME NEW t \in GroupTasks, InvalidateGroup(t)
      PROVE  GroupsInv'
  BY <1>2, ReadOnlyAnswer DEF InvalidateGroup
<1>3. CASE GroupsNext
  BY <1>2, <1>3, StartStep, CreateStep, OwnerStep, JoinStep, GrantStep DEF GroupsNext
<1> QED BY <1>1, <1>3

\* However additions race and however often they are repeated, every group has
\* one owner, who is a member with that role and the only one with it, and a
\* meeting token stands for a member (web/groups.rs, meeting_token).
THEOREM GroupsOwned == GroupsSpec => []OwnedGroups
<1>1. GroupsInit => GroupsInv
  <2> SUFFICES ASSUME GroupsInit PROVE GroupsInv
    OBVIOUS
  <2>1. NoGroupCall \in GroupCall /\ NoGroupCall.at = "idle"
    BY DEF NoGroupCall, GroupCall
  <2>2. GroupCalls
    BY <2>1 DEF GroupsInit, GroupCalls, SoundCall
  <2> QED BY <2>2 DEF GroupsInit, GroupsInv, GroupRows, GroupKeys, OwnerRows, GrantRows
<1> QED BY <1>1, OwnedFromRows, GroupsInvInductive, PTL DEF GroupsSpec

(***************************************************************************)
(* Accounts.                                                               *)
(***************************************************************************)
RawNames == [name : Nat, style : {"plain", "capital", "padded"}]
PlainNames == [name : Nat, style : {"plain"}]
AccountCall == [at : {"idle", "answered", "insert", "verify", "issue"}, raw : RawNames,
                password : Nat, id : Nat, code : Nat]

AccountRows ==
  /\ lastUser \in Nat /\ lastToken \in Nat /\ now \in Nat
  /\ users \subseteq [id : 1..lastUser, username : PlainNames, password : Nat]
  /\ tokens \subseteq [token : 1..lastToken, user : Nat, expires : Nat]
  /\ \A row \in tokens : \E u \in users : u.id = row.user

\* The keys of the two tables.
AccountKeys ==
  /\ \A u, v \in users : u.username = v.username \/ u.id = v.id => u = v
  /\ \A row, other \in tokens : row.token = other.token => row = other

\* A registration holds an id no row has, and the name as it will be stored; a
\* token is issued to the user whose name was typed.
SoundAccountCall(c) ==
  /\ c \in AccountCall
  /\ c.at = "insert" => /\ c.raw \in PlainNames
                        /\ c.id \in 1..lastUser
                        /\ \A u \in users : u.id # c.id
  /\ c.at = "issue" => \E u \in users : u.id = c.id /\ u.username.name = c.raw.name

AccountCalls ==
  /\ acalls \in [AccountTasks -> AccountCall]
  /\ \A t \in AccountTasks : SoundAccountCall(acalls[t])

\* The ids registrations hold are all different.
OwnUserIds ==
  \A s, t \in AccountTasks :
     acalls[s].at = "insert" /\ acalls[t].at = "insert" /\ acalls[s].id = acalls[t].id
        => s = t

AccountsInv == AccountRows /\ AccountKeys /\ AccountCalls /\ OwnUserIds /\ UpgradedInTime

\* What lowercasing does to a name.
LEMMA LowercasedPlain ==
  ASSUME NEW raw \in RawNames
  PROVE  /\ Lowercased(raw) \in PlainNames /\ Lowercased(raw).name = raw.name
         /\ Lowercased(raw) = [name |-> raw.name, style |-> "plain"]
BY DEF Lowercased, RawNames, PlainNames

\* Trimmed again or not, the spellings of a name look up the same rows.
LEMMA OneLookup ==
  ASSUME NEW raw \in Spellings, NEW other \in Spellings, raw.name = other.name
  PROVE  find_user(raw) = find_user(other)
<1>1. ASSUME NEW r \in Spellings
      PROVE  find_user(r) = {u \in users : u.username = [name |-> r.name, style |-> "plain"]}
  <2> DEFINE v == [r EXCEPT !.style = IF @ = "padded" THEN "plain" ELSE @]
  <2>1. v \in RawNames /\ v.name = r.name
    BY AccountsAssumption DEF Spellings, RawNames
  <2>2. find_user(r) = find_by_username(v)
    BY DEF find_user
  <2> HIDE DEF v
  <2>3. Lowercased(v) = [name |-> r.name, style |-> "plain"]
    BY <2>1, LowercasedPlain
  <2> QED BY <2>2, <2>3 DEF find_by_username
<1> QED BY <1>1

LEMMA OneAccountFromRows ==
  ASSUME AccountsInv
  PROVE  OneAccountPerName
<1>1. ASSUME NEW u \in users, NEW v \in users, u.username.name = v.username.name
      PROVE  u.username = v.username
  <2>1. u.username \in PlainNames /\ v.username \in PlainNames
    BY DEF AccountsInv, AccountRows
  <2> QED BY <1>1, <2>1 DEF PlainNames
<1>2. \A u, v \in users : u.username.name = v.username.name \/ u.id = v.id => u = v
  BY <1>1 DEF AccountsInv, AccountKeys
<1>3. \A t \in AccountTasks : acalls[t].at = "issue" =>
         \E u \in users : u.id = acalls[t].id /\ u.username.name = acalls[t].raw.name
  BY DEF AccountsInv, AccountCalls, SoundAccountCall
<1> QED BY <1>2, <1>3, OneLookup DEF OneAccountPerName, AccountsInv, AccountRows

\* What Finish puts in place of a call.
Finished(code) == [NoCall EXCEPT !.at = "answered", !.code = code]

LEMMA FinishedCall ==
  ASSUME NEW code \in Nat
  PROVE  Finished(code) \in AccountCall /\ Finished(code).at = "answered"
<1>1. NoCall \in AccountCall
  BY DEF NoCall, AccountCall, RawNames
<1> QED BY <1>1 DEF Finished, AccountCall

\* A handler moves on, to a call that holds no id or the newest one; nothing is
\* deleted from the table of users.
LEMMA AccountCallMoves ==
  ASSUME AccountsInv, NEW t \in AccountTasks, NEW c, SoundAccountCall(c)',
         c.at = "insert" => \A s \in AccountTasks \ {t} :
                               acalls[s].at = "insert" => acalls[s].id # c.id,
         acalls' = [acalls EXCEPT ![t] = c], lastUser' \in Nat, lastUser <= lastUser',
         users \subseteq users',
         \A u \in users' \ users : \A s \in AccountTasks \ {t} :
            acalls[s].at = "insert" => acalls[s].id # u.id
  PROVE  AccountCalls' /\ OwnUserIds'
<1>1. c \in AccountCall
  BY DEF SoundAccountCall, AccountCall, RawNames
<1>2. acalls'[t] = c /\ \A s \in AccountTasks \ {t} : acalls'[s] = acalls[s]
  BY DEF AccountsInv, AccountCalls
<1>3. ASSUME NEW s \in AccountTasks \ {t}
      PROVE  SoundAccountCall(acalls[s])'
  <2>1. SoundAccountCall(acalls[s]) /\ lastUser \in Nat
    BY DEF AccountsInv, AccountCalls, AccountRows
  <2>2. acalls[s].at = "insert" => /\ \A u \in users' : u.id # acalls[s].id
                                  /\ acalls[s].id \in 1..lastUser'
    BY <2>1 DEF SoundAccountCall
  <2> QED BY <1>2, <2>1, <2>2 DEF SoundAccountCall, AccountCall, RawNames, PlainNames
<1>4. \A s \in AccountTasks : SoundAccountCall(acalls[s])'
  BY <1>2, <1>3 DEF SoundAccountCall
<1>5. AccountCalls'
  BY <1>1, <1>4 DEF AccountsInv, AccountCalls, AccountCall, RawNames
<1>6. OwnUserIds'
  BY <1>2 DEF AccountsInv, OwnUserIds
<1> QED BY <1>5, <1>6

\* A step that writes neither table.
LEMMA AccountReadOnly ==
  ASSUME AccountsInv, NEW t \in AccountTasks, NEW c, SoundAccountCall(c)',
         c.at = "insert" => \A s \in AccountTasks \ {t} :
                               acalls[s].at = "insert" => acalls[s].id # c.id,
         acalls' = [acalls EXCEPT ![t] = c], lastUser' \in Nat, lastUser <= lastUser',
         UNCHANGED <<users, tokens, lastToken, now, upgraded>>
  PROVE  AccountsInv'
<1>1. AccountCalls' /\ OwnUserIds'
  BY AccountCallMoves
<1>2. AccountRows'
  <2>1. 1..lastUser \subseteq 1..lastUser'
    BY DEF AccountsInv, AccountRows
  <2>2. [id : 1..lastUser, username : PlainNames, password : Nat]
           \subseteq [id : 1..lastUser', username : PlainNames, password : Nat]
    BY <2>1
  <2> QED BY <2>2 DEF AccountsInv, AccountRows, PlainNames
<1> QED BY <1>1, <1>2 DEF AccountsInv, AccountKeys, UpgradedInTime

\* The call holds no id, and none is drawn.
LEMMA AccountQuiet ==
  ASSUME AccountsInv, NEW t \in AccountTasks, NEW c, SoundAccountCall(c)', c.at # "insert",
         acalls' = [acalls EXCEPT ![t] = c],
         UNCHANGED <<users, tokens, lastUser, lastToken, now, upgraded>>
  PROVE  AccountsInv'
<1>1. lastUser' \in Nat /\ lastUser <= lastUser'
  BY DEF AccountsInv, AccountRows
<1>2. c.at = "insert" => \A s \in AccountTasks \ {t} :
                            acalls[s].at = "insert" => acalls[s].id # c.id
  OBVIOUS
<1>3. UNCHANGED <<users, tokens, lastToken, now, upgraded>>
  OBVIOUS
<1> QED BY <1>1, <1>2, <1>3, AccountReadOnly

LEMMA AccountAnswer ==
  ASSUME AccountsInv, NEW t \in AccountTasks, NEW code \in Nat, Finish(t, code),
         UNCHANGED <<users, tokens, lastUser, lastToken, now, upgraded>>
  PROVE  AccountsInv'
<1>1. acalls' = [acalls EXCEPT ![t] = Finished(code)]
  BY DEF Finish, Finished
<1>2. Finished(code) \in AccountCall /\ Finished(code).at = "answered"
  BY FinishedCall
<1>3. SoundAccountCall(Finished(code))'
  BY <1>2 DEF SoundAccountCall, AccountCall, RawNames, PlainNames
<1> QED BY <1>1, <1>2, <1>3, AccountQuiet

\* The same when the answer comes with new rows.
LEMMA AccountWritten ==
  ASSUME AccountsInv, NEW t \in AccountTasks, NEW code \in Nat, Finish(t, code),
         UNCHANGED lastUser, users \subseteq users',
         \A u \in users' \ users : \A s \in AccountTasks \ {t} :
            acalls[s].at = "insert" => acalls[s].id # u.id
  PROVE  AccountCalls' /\ OwnUserIds'
<1>1. PICK c : c = Finished(code)
  OBVIOUS
<1>2. acalls' = [acalls EXCEPT ![t] = c]
  BY <1>1 DEF Finish, Finished
<1>3. c \in AccountCall /\ c.at = "answered"
  BY <1>1, FinishedCall
<1>4. SoundAccountCall(c)'
  BY <1>3 DEF SoundAccountCall, AccountCall, RawNames, PlainNames
<1>5. lastUser' \in Nat /\ lastUser <= lastUser'
  BY DEF AccountsInv, AccountRows
<1>6. c.at = "insert" => \A s \in AccountTasks \ {t} :
                            acalls[s].at = "insert" => acalls[s].id # c.id
  BY <1>3
<1> QED BY <1>2, <1>4, <1>5, <1>6, AccountCallMoves

\* The id drawn is nobody's yet, and the name goes on as it will be stored.
LEMMA RegisterStep ==
  ASSUME AccountsInv, NEW t \in AccountTasks, NEW raw \in Spellings, NEW p \in Passwords,
         NEW blank \in BOOLEAN, RegisterCall(t, raw, p, blank)
  PROVE  AccountsInv'
<1>1. UNCHANGED <<users, tokens, lastToken, now, upgraded>>
  BY DEF RegisterCall
<1>2. CASE UNCHANGED lastUser /\ \E code \in {400, 503} : Finish(t, code)
  BY <1>1, <1>2, AccountAnswer
<1>3. CASE /\ lastUser' = lastUser + 1
           /\ acalls' = [acalls EXCEPT ![t] =
                [NoCall EXCEPT !.at = "insert", !.raw = Lowercased(raw),
                               !.password = p, !.id = lastUser + 1]]
  <2> PICK name : name = Lowercased(raw)
    OBVIOUS
  <2> PICK id : id = lastUser + 1
    OBVIOUS
  <2>1. /\ lastUser \in Nat /\ id \in Nat /\ lastUser' = id /\ id \in 1..lastUser'
        /\ \A u \in users : u.id # id
        /\ \A s \in AccountTasks : acalls[s].at = "insert" => acalls[s].id # id
    BY <1>3 DEF AccountsInv, AccountRows, AccountCalls, SoundAccountCall
  <2>2. name \in PlainNames /\ name \in RawNames /\ p \in Nat
    BY LowercasedPlain, AccountsAssumption DEF Spellings, RawNames, PlainNames
  <2>3. NoCall \in AccountCall
    BY DEF NoCall, AccountCall, RawNames
  <2> DEFINE v == [NoCall EXCEPT !.at = "insert"]
             w == [v EXCEPT !.raw = name]
             x == [w EXCEPT !.password = p]
             c == [x EXCEPT !.id = id]
  <2>4. acalls' = [acalls EXCEPT ![t] = c]
    BY <1>3
  <2>5. v \in AccountCall /\ v.at = "insert"
    BY <2>3 DEF AccountCall
  <2> HIDE DEF v
  <2>6. w \in AccountCall /\ w.at = "insert" /\ w.raw = name
    BY <2>2, <2>5 DEF AccountCall
  <2> HIDE DEF w
  <2>7. x \in AccountCall /\ x.at = "insert" /\ x.raw = name
    BY <2>2, <2>6 DEF AccountCall
  <2> HIDE DEF x
  <2>8. c \in AccountCall /\ c.at = "insert" /\ c.raw = name /\ c.id = id
    BY <2>1, <2>7 DEF AccountCall
  <2> HIDE DEF c
  <2>9. SoundAccountCall(c)'
    BY <1>1, <2>1, <2>2, <2>8 DEF SoundAccountCall, AccountCall, RawNames, PlainNames
  <2>10. lastUser' \in Nat /\ lastUser <= lastUser'
    BY <2>1, <1>3
  <2>11. c.at = "insert" => \A s \in AccountTasks \ {t} :
                               acalls[s].at = "insert" => acalls[s].id # c.id
    BY <2>1, <2>8
  <2> QED BY <1>1, <2>4, <2>9, <2>10, <2>11, AccountReadOnly
<1> QED BY <1>2, <1>3 DEF RegisterCall

\* The unique key refuses a second row of one name; the id is the caller's own.
LEMMA UserInsertStep ==
  ASSUME AccountsInv, NEW t \in AccountTasks, RegisterInsert(t)
  PROVE  AccountsInv'
<1>1. acalls[t].at = "insert" /\ UNCHANGED <<tokens, lastUser, lastToken, now, upgraded>>
  BY DEF RegisterInsert
<1>2. CASE UNCHANGED users /\ \E code \in {409, 500} : Finish(t, code)
  BY <1>1, <1>2, AccountAnswer
<1>3. CASE /\ \A u \in users : u.username # acalls[t].raw
           /\ users' = users \cup {[id |-> acalls[t].id, username |-> acalls[t].raw,
                                    password |-> acalls[t].password]}
           /\ \E code \in {201, 500} : Finish(t, code)
  <2> DEFINE row == [id |-> acalls[t].id, username |-> acalls[t].raw,
                     password |-> acalls[t].password]
  <2>1. /\ acalls[t].raw \in PlainNames /\ acalls[t].id \in 1..lastUser
        /\ acalls[t].password \in Nat
        /\ \A u \in users : u.id # acalls[t].id
    BY <1>1 DEF AccountsInv, AccountCalls, SoundAccountCall, AccountCall
  <2>2. /\ row \in [id : 1..lastUser, username : PlainNames, password : Nat]
        /\ row.id = acalls[t].id /\ row.username = acalls[t].raw
    BY <2>1
  <2>3. users' = users \cup {row}
    BY <1>3
  <2> HIDE DEF row
  <2>4. PICK code \in {201, 500} : Finish(t, code)
    BY <1>3
  <2>8. \A u \in users' \ users : \A s \in AccountTasks \ {t} :
           acalls[s].at = "insert" => acalls[s].id # u.id
    BY <1>1, <2>2, <2>3 DEF AccountsInv, OwnUserIds
  <2>9. AccountCalls' /\ OwnUserIds'
    BY <1>1, <2>3, <2>4, <2>8, AccountWritten
  <2>10. AccountRows'
    BY <1>1, <2>2, <2>3 DEF AccountsInv, AccountRows, PlainNames
  <2>11. AccountKeys'
    BY <1>1, <1>3, <2>1, <2>2, <2>3 DEF AccountsInv, AccountKeys
  <2>12. UpgradedInTime'
    BY <1>1, <2>3 DEF AccountsInv, UpgradedInTime
  <2> QED BY <2>9, <2>10, <2>11, <2>12 DEF AccountsInv
<1> QED BY <1>2, <1>3 DEF RegisterInsert

LEMMA LoginStep ==
  ASSUME AccountsInv, NEW t \in AccountTasks, NEW raw \in Spellings, NEW p \in Passwords,
         LoginCall(t, raw, p)
  PROVE  AccountsInv'
<1>1. UNCHANGED <<users, tokens, lastUser, lastToken, now, upgraded>> /\ lastUser \in Nat
  BY DEF LoginCall, AccountsInv, AccountRows
<1>2. CASE Finish(t, 400)
  BY <1>1, <1>2, AccountAnswer
<1>3. CASE acalls' = [acalls EXCEPT ![t] = [NoCall EXCEPT !.at = "verify", !.raw = raw,
                                                          !.password = p]]
  <2> DEFINE v == [NoCall EXCEPT !.at = "verify"]
             w == [v EXCEPT !.raw = raw]
             c == [w EXCEPT !.password = p]
  <2>1. NoCall \in AccountCall /\ raw \in RawNames /\ p \in Nat
    BY AccountsAssumption DEF NoCall, AccountCall, RawNames, Spellings
  <2>2. acalls' = [acalls EXCEPT ![t] = c]
    BY <1>3
  <2>3. v \in AccountCall /\ v.at = "verify"
    BY <2>1 DEF AccountCall
  <2> HIDE DEF v
  <2>4. w \in AccountCall /\ w.at = "verify"
    BY <2>1, <2>3 DEF AccountCall
  <2> HIDE DEF w
  <2>5. c \in AccountCall /\ c.at = "verify"
    BY <2>1, <2>4 DEF AccountCall
  <2> HIDE DEF c
  <2>6. SoundAccountCall(c)'
    BY <2>5 DEF SoundAccountCall, AccountCall, RawNames, PlainNames
  <2> QED BY <1>1, <2>2, <2>5, <2>6, AccountQuiet
<1> QED BY <1>2, <1>3 DEF LoginCall

\* The user found is the one whose name was typed.
LEMMA VerifyStep ==
  ASSUME AccountsInv, NEW t \in AccountTasks, VerifyLogin(t)
  PROVE  AccountsInv'
<1>1. UNCHANGED <<users, tokens, lastUser, lastToken, now, upgraded>> /\ lastUser \in Nat
  BY DEF VerifyLogin, AccountsInv, AccountRows
<1>2. CASE \E code \in {401, 500} : Finish(t, code)
  BY <1>1, <1>2, AccountAnswer
<1>3. ASSUME NEW u \in find_by_username(acalls[t].raw),
             acalls' = [acalls EXCEPT ![t].at = "issue", ![t].id = u.id]
      PROVE  AccountsInv'
  <2>1. acalls[t] \in AccountCall /\ acalls[t].raw \in RawNames
    BY DEF AccountsInv, AccountCalls, AccountCall
  <2>2. u \in users /\ u.id \in Nat /\ u.username.name = acalls[t].raw.name
    BY <2>1, LowercasedPlain DEF find_by_username, AccountsInv, AccountRows
  <2> PICK v : v = [acalls[t] EXCEPT !.at = "issue"]
    OBVIOUS
  <2> DEFINE c == [v EXCEPT !.id = u.id]
  <2>3. v \in AccountCall /\ v.at = "issue" /\ v.raw = acalls[t].raw
    BY <2>1 DEF AccountCall
  <2>4. acalls' = [acalls EXCEPT ![t] = c]
    BY <1>3
  <2>5. /\ c \in AccountCall /\ c.at = "issue" /\ c.id = u.id
        /\ c.raw = acalls[t].raw
    BY <2>2, <2>3 DEF AccountCall
  <2> HIDE DEF c
  <2>6. SoundAccountCall(c)'
    BY <1>1, <2>2, <2>5 DEF SoundAccountCall, AccountCall, RawNames, PlainNames
  <2> QED BY <1>1, <2>4, <2>5, <2>6, AccountQuiet
<1> QED BY <1>2, <1>3 DEF VerifyLogin

LEMMA IssueStep ==
  ASSUME AccountsInv, NEW t \in AccountTasks, issue_token(t)
  PROVE  AccountsInv'
<1>1. UNCHANGED <<users, lastUser, now, upgraded>>
  BY DEF issue_token
<1>2. CASE Finish(t, 500) /\ UNCHANGED <<tokens, lastToken>>
  BY <1>1, <1>2, AccountAnswer
<1>3. CASE /\ lastToken' = lastToken + 1
           /\ tokens' = tokens \cup {[token |-> lastToken + 1, user |-> acalls[t].id,
                                      expires |-> now + TokenTtl]}
           /\ \E code \in {200, 500} : Finish(t, code)
  <2> DEFINE row == [token |-> lastToken + 1, user |-> acalls[t].id,
                     expires |-> now + TokenTtl]
  <2>1. /\ \E u \in users : u.id = acalls[t].id
        /\ acalls[t].id \in Nat
        /\ lastToken \in Nat /\ now + TokenTtl \in Nat /\ lastUser \in Nat
    BY AccountsAssumption
       DEF issue_token, AccountsInv, AccountRows, AccountCalls, SoundAccountCall, AccountCall
  <2>2. /\ row \in [token : 1..lastToken', user : Nat, expires : Nat]
        /\ row.token = lastToken + 1 /\ row.user = acalls[t].id
    BY <1>3, <2>1
  <2>3. tokens' = tokens \cup {row}
    BY <1>3
  <2> HIDE DEF row
  <2>4. PICK code \in {200, 500} : Finish(t, code)
    BY <1>3
  <2>8. AccountCalls' /\ OwnUserIds'
    BY <1>1, <2>4, AccountWritten
  <2>9. tokens' \subseteq [token : 1..lastToken', user : Nat, expires : Nat]
    BY <1>3, <2>1, <2>2, <2>3 DEF AccountsInv, AccountRows
  <2>10. AccountRows'
    BY <1>1, <1>3, <2>1, <2>2, <2>3, <2>9 DEF AccountsInv, AccountRows, PlainNames
  <2>11. AccountKeys'
    <3>1. \A r \in tokens : r.token \in 1..lastToken
      BY DEF AccountsInv, AccountRows
    <3> QED BY <1>1, <2>1, <2>2, <2>3, <3>1 DEF AccountsInv, AccountKeys
  <2> QED BY <1>1, <2>8, <2>10, <2>11 DEF AccountsInv, UpgradedInTime
<1> QED BY <1>2, <1>3 DEF issue_token

\* A token is one row, so the row that let the socket in has not expired.
LEMMA UpgradeStep ==
  ASSUME AccountsInv, NEW k \in 1..MaxTokens, UpgradeSocket(k)
  PROVE  AccountsInv'
<1>1. /\ UNCHANGED <<users, tokens, acalls, lastUser, lastToken, now>>
      /\ \E u \in user_by_token(k), row \in tokens :
           /\ row.token = k
           /\ upgraded' = upgraded \cup {[user |-> u.id, at |-> now, expires |-> row.expires]}
  BY DEF UpgradeSocket
<1>2. PICK u \in user_by_token(k), row \in tokens :
         /\ row.token = k
         /\ upgraded' = upgraded \cup {[user |-> u.id, at |-> now, expires |-> row.expires]}
  BY <1>1
<1>3. u \in users /\ row.expires > now
  BY <1>2 DEF user_by_token, AccountsInv, AccountKeys
<1>4. row.expires \in Nat /\ now \in Nat
  BY DEF AccountsInv, AccountRows
<1>5. UpgradedInTime'
  BY <1>1, <1>2, <1>3, <1>4 DEF AccountsInv, UpgradedInTime
<1> QED BY <1>1, <1>5
        DEF AccountsInv, AccountRows, AccountKeys, AccountCalls, OwnUserIds, SoundAccountCall,
            AccountCall, RawNames, PlainNames

\* Revocation deletes tokens, the clock moves on.
LEMMA RevokeStep ==
  ASSUME AccountsInv, tokens' \subseteq tokens, now' \in Nat,
         UNCHANGED <<users, acalls, lastUser, lastToken, upgraded>>
  PROVE  AccountsInv'
<1>1. AccountRows'
  BY DEF AccountsInv, AccountRows, PlainNames
<1>2. AccountKeys'
  BY DEF AccountsInv, AccountKeys
<1> QED BY <1>1, <1>2
        DEF AccountsInv, AccountCalls, OwnUserIds, SoundAccountCall, AccountCall, RawNames,
            PlainNames, UpgradedInTime

LEMMA AccountsInvInductive == AccountsInv /\ [AccountsNext]_accountVars => AccountsInv'
<1> SUFFICES ASSUME AccountsInv, [AccountsNext]_accountVars
             PROVE  AccountsInv'
  OBVIOUS
<1>1. now \in Nat
  BY DEF AccountsInv, AccountRows
<1>2. CASE UNCHANGED accountVars
  BY <1>1, <1>2, RevokeStep DEF accountVars
<1>3. ASSUME NEW k \in 1..MaxTokens, revoke_token(k)
      PROVE  AccountsInv'
  BY <1>1, <1>3, RevokeStep DEF revoke_token
<1>4. ASSUME NEW u \in 1..MaxUserIds, revoke_all_tokens(u)
      PROVE  AccountsInv'
  BY <1>1, <1>4, RevokeStep DEF revoke_all_tokens
<1>5. CASE Tick
  BY <1>1, <1>5, RevokeStep DEF Tick
<1>6. CASE AccountsNext
  BY <1>3, <1>4, <1>5, <1>6, RegisterStep, UserInsertStep, LoginStep, VerifyStep, IssueStep,
     UpgradeStep DEF AccountsNext
<1> QED BY <1>2, <1>6

\* One name is one account however registrations race and however the name is
\* spelled, tokens and logins belong to users that exist, and a socket is opened
\* on a valid token only (web/account.rs, ws_handler).
THEOREM OneAccount == AccountsSpec => []OneAccountPerName
<1>1. AccountsInit => AccountsInv
  <2> SUFFICES ASSUME AccountsInit PROVE AccountsInv
    OBVIOUS
  <2>1. NoCall \in AccountCall /\ NoCall.at = "idle"
    BY DEF NoCall, AccountCall, RawNames
  <2>2. AccountCalls /\ OwnUserIds
    BY <2>1 DEF AccountsInit, AccountCalls, OwnUserIds, SoundAccountCall
  <2> QED BY <2>2 DEF AccountsInit, AccountsInv, AccountRows, AccountKeys, UpgradedInTime
<1> QED BY <1>1, OneAccountFromRows, AccountsInvInductive, PTL DEF AccountsSpec

(***************************************************************************)
(* Friends.                                                                *)
(***************************************************************************)
Statuses == {"pending", "accepted", "rejected"}
Unlocked == {"idle", "answered", "number", "upsert", "names", "notify", "update", "delete"}
FriendCall == [at : Unlocked \cup {"insert", "commit", "look", "purge", "close"},
               me : Nat, other : Nat, id : Nat, rows : SUBSET Nat,
               edge : SUBSET (Nat \X Nat), view : SUBSET Nat, code : Nat]

\* The tables: types and keys.
FriendKeys ==
  /\ lastId \in 0..MaxRequestIds
  /\ requests \subseteq [id : 1..lastId, from : Registered, to : Registered,
                         status : Statuses]
  /\ edges \subseteq Edges
  /\ \A r \in requests : r.from # r.to
  /\ \A q, r \in requests : (q.from = r.from /\ q.to = r.to) \/ q.id = r.id => q = r

\* An accepted request stands beside its edge.
AcceptedEdges == \A r \in requests : r.status = "accepted" => Edge(r.from, r.to) \in edges

\* What a handler knows of the tables thanks to the locks it holds.  An id drawn
\* for a request is in no row.  The row an accept has locked is still pending,
\* and its edge is locked or there.  The edge a removal has locked is still
\* there, the accepted rows beside it are in its view, and once it holds its
\* rows no row of the view is free.
SoundFriendCall(c) ==
  /\ c \in FriendCall
  /\ c.at \in Unlocked => c.rows = {} /\ c.edge = {}
  /\ c.at \in {"number", "upsert"} => c.me \in Registered /\ c.other \in Registered /\ c.me # c.other
  /\ c.at = "upsert" => c.id \in 1..lastId /\ \A r \in requests : r.id # c.id
  /\ c.at \in {"insert", "commit"} =>
        \E r \in requests : /\ c.rows = {r.id} /\ r.status = "pending"
                            /\ r.to = c.me /\ r.from = c.other
  /\ c.at = "insert" => c.edge = {}
  /\ c.at = "commit" => \/ c.edge = {} /\ Edge(c.me, c.other) \in edges
                        \/ c.edge = {Edge(c.me, c.other)}
  /\ c.at \in {"look", "purge", "close"} => /\ c.edge = {Edge(c.me, c.other)}
                                            /\ Edge(c.me, c.other) \in edges
  /\ c.at = "look" => c.rows = {}
  /\ c.at = "purge" => c.rows = {}
  /\ c.at \in {"purge", "close"} =>
        /\ c.view \subseteq 1..lastId
        /\ \A r \in requests :
              r.status = "accepted" /\ Edge(r.from, r.to) \in c.edge => r.id \in c.view
  /\ c.at = "close" => \A r \in requests : r.id \in c.view => r.id \in c.rows

\* What two handlers know of each other.  Locks are exclusive, ids are their
\* own, and an accept that found its edge there without locking it has its row
\* in the view of whoever removes that edge.
Apart(c, d) ==
  /\ c.rows \cap d.rows = {}
  /\ c.edge \cap d.edge = {}
  /\ c.at = "upsert" /\ d.at = "upsert" => c.id # d.id
  /\ c.at = "upsert" /\ d.at \in {"purge", "close"} => c.id \notin d.view
  /\ /\ c.at = "commit" /\ c.edge = {}
     /\ d.at \in {"purge", "close"} /\ Edge(c.me, c.other) \in d.edge
     => c.rows \subseteq d.view

FriendCalls ==
  /\ fcalls \in [FriendTasks -> FriendCall]
  /\ \A t \in FriendTasks : SoundFriendCall(fcalls[t])
  /\ \A s, t \in FriendTasks : s # t => Apart(fcalls[s], fcalls[t])

FriendsInv == FriendKeys /\ AcceptedEdges /\ FriendCalls

LEMMA FriendConstants == Registered \subseteq Nat /\ Registered \subseteq People /\ People \subseteq Nat
                         /\ MaxRequestIds \in Nat
<1> QED BY FriendsAssumption

LEMMA RequestTyped ==
  ASSUME FriendKeys, NEW r \in requests
  PROVE  /\ lastId \in Nat /\ r.id \in 1..lastId /\ r.id \in Nat
         /\ r.from \in Registered /\ r.to \in Registered
         /\ r.from \in Nat /\ r.to \in Nat
<1>1. lastId \in Nat
  BY FriendConstants DEF FriendKeys
<1>2. r.id \in 1..lastId /\ r.from \in Registered /\ r.to \in Registered
  BY DEF FriendKeys
<1>3. r.id \in Nat
  BY <1>1, <1>2
<1>4. r.from \in Nat /\ r.to \in Nat
  BY <1>2, FriendConstants
<1> QED BY <1>1, <1>2, <1>3, <1>4

\* One edge per pair, whoever asks.
LEMMA EdgeTyped ==
  ASSUME NEW a \in Nat, NEW b \in Nat
  PROVE  /\ Edge(a, b) = Edge(b, a) /\ Edge(a, b) \in Nat \X Nat
         /\ a \in People /\ b \in People /\ a # b => Edge(a, b) \in Edges
BY DEF Edge, Edges

LEMMA TablesAgreeFromInv ==
  ASSUME FriendsInv
  PROVE  FriendTablesAgree
<1>1. requests \subseteq Requests
  <2>1. 1..lastId \subseteq 1..MaxRequestIds
    BY FriendConstants DEF FriendsInv, FriendKeys
  <2> QED BY <2>1 DEF FriendsInv, FriendKeys, Requests, Statuses
<1>2. \A r \in requests : r.status = "accepted" => is_friend(r.from, r.to)
  BY DEF FriendsInv, AcceptedEdges, is_friend
<1>3. \A r \in requests : r.status = "pending" <=>
         r \in pending_requests(r.to).incoming \cap pending_requests(r.from).outgoing
  BY DEF pending_requests
<1>4. \A u, v \in Registered : v \in list_friends(u) => u \in list_friends(v)
  <2> SUFFICES ASSUME NEW u \in Registered, NEW v \in Registered, v \in list_friends(u)
               PROVE  u \in list_friends(v)
    OBVIOUS
  <2>1. Edge(u, v) = Edge(v, u)
    BY FriendConstants, EdgeTyped
  <2> QED BY <2>1 DEF list_friends, is_friend
<1> QED BY <1>1, <1>2, <1>3, <1>4 DEF FriendTablesAgree, FriendsInv, FriendKeys

\* A call that holds nothing.
Quiet(c) ==
  /\ c \in FriendCall /\ c.at \in Unlocked \ {"upsert"}
  /\ c.at = "number" => c.me \in Registered /\ c.other \in Registered /\ c.me # c.other
  /\ c.rows = {} /\ c.edge = {}

LEMMA QuietApart ==
  ASSUME NEW c, NEW d, Quiet(c)
  PROVE  Apart(c, d) /\ Apart(d, c)
BY DEF Quiet, Apart, Unlocked

LEMMA QuietSound ==
  ASSUME NEW c, Quiet(c)
  PROVE  SoundFriendCall(c) /\ SoundFriendCall(c)'
BY DEF Quiet, SoundFriendCall, Unlocked, FriendCall

\* What Answers puts in place of a call.
FriendAnswered(code) == [Idle EXCEPT !.at = "answered", !.code = code]

LEMMA IdleQuiet == Quiet(Idle)
BY DEF Quiet, Idle, FriendCall, Unlocked

LEMMA AnsweredQuiet ==
  ASSUME NEW code \in Nat
  PROVE  Quiet(FriendAnswered(code))
BY IdleQuiet DEF Quiet, FriendAnswered, FriendCall, Unlocked

\* A handler moves on while the others know what they knew.
LEMMA FriendMoves ==
  ASSUME FriendCalls, NEW t \in FriendTasks, NEW c, SoundFriendCall(c)',
         fcalls' = [fcalls EXCEPT ![t] = c],
         \A d : (\E s \in FriendTasks \ {t} : d = fcalls[s]) => SoundFriendCall(d)',
         \A s \in FriendTasks \ {t} : Apart(c, fcalls[s]) /\ Apart(fcalls[s], c)
  PROVE  FriendCalls'
<1>1. c \in FriendCall
  BY DEF SoundFriendCall, FriendCall, Unlocked
<1>2. fcalls'[t] = c /\ \A s \in FriendTasks \ {t} : fcalls'[s] = fcalls[s]
  BY DEF FriendCalls
<1>3. ASSUME NEW s \in FriendTasks
      PROVE  SoundFriendCall(fcalls[s])'
  <2> PICK d : d = fcalls'[s]
    OBVIOUS
  <2>1. SoundFriendCall(d)'
    BY <1>2
  <2> QED BY <2>1 DEF SoundFriendCall
<1>4. ASSUME NEW q \in FriendTasks, NEW s \in FriendTasks, q # s
      PROVE  Apart(fcalls[q], fcalls[s])'
  <2> PICK d : d = fcalls'[q]
    OBVIOUS
  <2> PICK e : e = fcalls'[s]
    OBVIOUS
  <2>1. Apart(d, e)
    BY <1>2, <1>4 DEF FriendCalls
  <2> QED BY <2>1 DEF Apart
<1> QED BY <1>1, <1>3, <1>4 DEF FriendCalls, FriendCall, Unlocked

\* What a handler knows outlives a step that writes neither table.
LEMMA SoundStays ==
  ASSUME NEW c, SoundFriendCall(c), lastId \in Nat, lastId' \in Nat, lastId <= lastId',
         UNCHANGED <<requests, edges>>
  PROVE  SoundFriendCall(c)'
<1>1. 1..lastId \subseteq 1..lastId'
  OBVIOUS
<1> QED BY <1>1 DEF SoundFriendCall, FriendCall, Unlocked

LEMMA FriendReadOnly ==
  ASSUME FriendsInv, NEW t \in FriendTasks, NEW c, SoundFriendCall(c)',
         fcalls' = [fcalls EXCEPT ![t] = c],
         \A s \in FriendTasks \ {t} : Apart(c, fcalls[s]) /\ Apart(fcalls[s], c),
         lastId' \in 0..MaxRequestIds, lastId <= lastId', UNCHANGED <<requests, edges>>
  PROVE  FriendsInv'
<1>1. lastId \in Nat /\ lastId' \in Nat
  BY FriendConstants DEF FriendsInv, FriendKeys
<1>2. \A d : (\E s \in FriendTasks \ {t} : d = fcalls[s]) => SoundFriendCall(d)'
  BY <1>1, SoundStays DEF FriendsInv, FriendCalls
<1>3. FriendCalls'
  BY <1>2, FriendMoves DEF FriendsInv
<1>4. FriendKeys'
  <2>1. 1..lastId \subseteq 1..lastId'
    BY <1>1
  <2>2. requests \subseteq [id : 1..lastId', from : Registered, to : Registered,
                           status : Statuses]
    BY <2>1 DEF FriendsInv, FriendKeys
  <2> QED BY <2>2 DEF FriendsInv, FriendKeys, Edges, Statuses
<1> QED BY <1>3, <1>4 DEF FriendsInv, AcceptedEdges, Edge

LEMMA FriendQuiet ==
  ASSUME FriendsInv, NEW t \in FriendTasks, NEW c, Quiet(c),
         fcalls' = [fcalls EXCEPT ![t] = c], UNCHANGED <<requests, edges, lastId>>
  PROVE  FriendsInv'
<1>1. SoundFriendCall(c)'
  BY QuietSound
<1>2. \A s \in FriendTasks \ {t} : Apart(c, fcalls[s]) /\ Apart(fcalls[s], c)
  BY QuietApart
<1>3. lastId' \in 0..MaxRequestIds /\ lastId <= lastId'
  BY DEF FriendsInv, FriendKeys
<1> QED BY <1>1, <1>2, <1>3, FriendReadOnly

LEMMA FriendAnswers ==
  ASSUME FriendsInv, NEW t \in FriendTasks, NEW code \in Nat, Answers(t, code),
         UNCHANGED <<requests, edges, lastId>>
  PROVE  FriendsInv'
<1>1. fcalls' = [fcalls EXCEPT ![t] = FriendAnswered(code)]
  BY DEF Answers, FriendAnswered
<1>2. Quiet(FriendAnswered(code))
  BY AnsweredQuiet
<1> QED BY <1>1, <1>2, FriendQuiet

\* A call reaches its handler.
LEMMA CreateRequestStep ==
  ASSUME FriendsInv, NEW t \in FriendTasks, NEW me \in Registered, NEW to \in People,
         CreateRequest(t, me, to)
  PROVE  FriendsInv'
<1>1. UNCHANGED <<requests, edges, lastId>>
  BY DEF CreateRequest, Starts
<1>2. CASE me = to \/ to \notin Registered
  <2>1. \E code \in {400, 404} : Answers(t, code)
    <3>1. CASE me = to
      BY <3>1 DEF CreateRequest, Starts, Answers
    <3>2. CASE me # to
      BY <1>2, <3>2 DEF CreateRequest, Starts, Answers
    <3> QED BY <3>1, <3>2
  <2> QED BY <1>1, <2>1, FriendAnswers
<1>3. CASE ~(me = to \/ to \notin Registered)
  <2> DEFINE v == [Idle EXCEPT !.at = "number"]
             w == [v EXCEPT !.me = me]
             c == [w EXCEPT !.other = to]
  <2>1. me \in Nat /\ to \in Nat
    BY FriendConstants
  <2>2. fcalls' = [fcalls EXCEPT ![t] = c]
    BY <1>3 DEF CreateRequest, Starts
  <2>3. Quiet(Idle)
    BY IdleQuiet
  <2>4. v \in FriendCall /\ v.at = "number" /\ v.rows = {} /\ v.edge = {}
    BY <2>3 DEF Quiet, FriendCall, Unlocked
  <2> HIDE DEF v
  <2>5. w \in FriendCall /\ w.at = "number" /\ w.rows = {} /\ w.edge = {} /\ w.me = me
    BY <2>1, <2>4 DEF FriendCall, Unlocked
  <2> HIDE DEF w
  <2>6. /\ c \in FriendCall /\ c.at = "number" /\ c.rows = {} /\ c.edge = {}
        /\ c.me = me /\ c.other = to
    BY <2>1, <2>5 DEF FriendCall, Unlocked
  <2> HIDE DEF c
  <2>7. Quiet(c)
    BY <1>3, <2>6 DEF Quiet, Unlocked
  <2> QED BY <1>1, <2>2, <2>7, FriendQuiet
<1> QED BY <1>2, <1>3

LEMMA AcceptRemoveCallStep ==
  ASSUME FriendsInv, NEW t \in FriendTasks, NEW me \in Registered,
         \/ \E id \in 1..MaxRequestIds : AcceptCall(t, me, id)
         \/ \E other \in People : RemoveCall(t, me, other)
  PROVE  FriendsInv'
<1>1. UNCHANGED <<requests, edges, lastId>>
  BY DEF AcceptCall, RemoveCall, Starts
<1>2. me \in Nat /\ Quiet(Idle)
  BY FriendConstants, IdleQuiet
<1>3. ASSUME NEW id \in 1..MaxRequestIds, AcceptCall(t, me, id)
      PROVE  FriendsInv'
  <2> DEFINE v == [Idle EXCEPT !.at = "update"]
             w == [v EXCEPT !.me = me]
             c == [w EXCEPT !.id = id]
  <2>1. id \in Nat
    BY FriendConstants
  <2>2. fcalls' = [fcalls EXCEPT ![t] = c]
    BY <1>3 DEF AcceptCall, Starts
  <2>3. v \in FriendCall /\ v.at = "update" /\ v.rows = {} /\ v.edge = {}
    BY <1>2 DEF Quiet, FriendCall, Unlocked
  <2> HIDE DEF v
  <2>4. w \in FriendCall /\ w.at = "update" /\ w.rows = {} /\ w.edge = {}
    BY <1>2, <2>3 DEF FriendCall, Unlocked
  <2> HIDE DEF w
  <2>5. c \in FriendCall /\ c.at = "update" /\ c.rows = {} /\ c.edge = {}
    BY <2>1, <2>4 DEF FriendCall, Unlocked
  <2> HIDE DEF c
  <2>6. Quiet(c)
    BY <2>5 DEF Quiet, Unlocked
  <2> QED BY <1>1, <2>2, <2>6, FriendQuiet
<1>4. ASSUME NEW other \in People, RemoveCall(t, me, other)
      PROVE  FriendsInv'
  <2> DEFINE v == [Idle EXCEPT !.at = "delete"]
             w == [v EXCEPT !.me = me]
             c == [w EXCEPT !.other = other]
  <2>1. other \in Nat
    BY FriendConstants
  <2>2. fcalls' = [fcalls EXCEPT ![t] = c]
    BY <1>4 DEF RemoveCall, Starts
  <2>3. v \in FriendCall /\ v.at = "delete" /\ v.rows = {} /\ v.edge = {}
    BY <1>2 DEF Quiet, FriendCall, Unlocked
  <2> HIDE DEF v
  <2>4. w \in FriendCall /\ w.at = "delete" /\ w.rows = {} /\ w.edge = {}
    BY <1>2, <2>3 DEF FriendCall, Unlocked
  <2> HIDE DEF w
  <2>5. c \in FriendCall /\ c.at = "delete" /\ c.rows = {} /\ c.edge = {}
    BY <2>1, <2>4 DEF FriendCall, Unlocked
  <2> HIDE DEF c
  <2>6. Quiet(c)
    BY <2>5 DEF Quiet, Unlocked
  <2> QED BY <1>1, <2>2, <2>6, FriendQuiet
<1> QED BY <1>3, <1>4

\* The id drawn is in no row, in nobody's view and nobody else's.
LEMMA RequestNumberStep ==
  ASSUME FriendsInv, NEW t \in FriendTasks, NumberRequest(t)
  PROVE  FriendsInv'
<1>1. UNCHANGED <<requests, edges>>
  BY DEF NumberRequest
<1>2. CASE Answers(t, 503) /\ UNCHANGED lastId
  BY <1>1, <1>2, FriendAnswers
<1>3. CASE /\ lastId < MaxRequestIds /\ lastId' = lastId + 1
           /\ fcalls' = [fcalls EXCEPT ![t].at = "upsert", ![t].id = lastId + 1]
  <2>1. /\ fcalls[t] \in FriendCall /\ fcalls[t].at = "number"
        /\ fcalls[t].me \in Registered /\ fcalls[t].other \in Registered
        /\ fcalls[t].me # fcalls[t].other
        /\ fcalls[t].rows = {} /\ fcalls[t].edge = {}
    BY DEF NumberRequest, At, FriendsInv, FriendCalls, SoundFriendCall, Unlocked
  <2>2. /\ lastId \in Nat /\ lastId' \in 0..MaxRequestIds /\ lastId <= lastId'
        /\ lastId' = lastId + 1
    BY <1>3, FriendConstants DEF FriendsInv, FriendKeys
  <2> PICK v : v = [fcalls[t] EXCEPT !.at = "upsert"]
    OBVIOUS
  <2> PICK id : id = lastId + 1
    OBVIOUS
  <2> DEFINE c == [v EXCEPT !.id = id]
  <2>3. fcalls' = [fcalls EXCEPT ![t] = c]
    BY <1>3
  <2>4. /\ v \in FriendCall /\ v.at = "upsert" /\ v.rows = {} /\ v.edge = {}
        /\ v.me = fcalls[t].me /\ v.other = fcalls[t].other
    BY <2>1 DEF FriendCall, Unlocked
  <2>5. /\ c \in FriendCall /\ c.at = "upsert" /\ c.rows = {} /\ c.edge = {} /\ c.id = id
        /\ c.me = fcalls[t].me /\ c.other = fcalls[t].other
    <3>1. id \in Nat
      BY <2>2
    <3> QED BY <2>4, <3>1 DEF FriendCall
  <2> HIDE DEF c
  <2>6. SoundFriendCall(c)'
    <3>1. id \in 1..lastId' /\ \A r \in requests : r.id # id
      BY <2>2 DEF FriendsInv, FriendKeys
    <3> QED BY <1>1, <2>1, <2>5, <3>1 DEF SoundFriendCall, FriendCall, Unlocked
  <2>7. ASSUME NEW s \in FriendTasks \ {t}
        PROVE  Apart(c, fcalls[s]) /\ Apart(fcalls[s], c)
    <3>1. SoundFriendCall(fcalls[s])
      BY DEF FriendsInv, FriendCalls
    <3>2. /\ fcalls[s].at = "upsert" => fcalls[s].id \in 1..lastId
          /\ fcalls[s].at \in {"purge", "close"} => fcalls[s].view \subseteq 1..lastId
      BY <3>1 DEF SoundFriendCall
    <3> QED BY <2>2, <2>5, <3>2 DEF Apart
  <2> QED BY <1>1, <2>2, <2>3, <2>6, <2>7, FriendReadOnly
<1> QED BY <1>2, <1>3 DEF NumberRequest

\* The steps that end a call, or only read.
LEMMA FriendReadStep ==
  ASSUME FriendsInv, NEW t \in FriendTasks,
         fetch_usernames(t) \/ Notify(t) \/ FriendDbError(t)
  PROVE  FriendsInv'
<1>1. UNCHANGED <<requests, edges, lastId>>
  BY DEF fetch_usernames, Notify, FriendDbError
<1>2. fcalls[t] \in FriendCall /\ fcalls[t].code \in Nat
  BY DEF FriendsInv, FriendCalls, FriendCall
<1>3. CASE \E code \in Nat : Answers(t, code)
  BY <1>1, <1>3, FriendAnswers
<1>4. CASE At(t, "names") /\ fcalls' = [fcalls EXCEPT ![t].at = "notify"]
  <2>1. fcalls[t].rows = {} /\ fcalls[t].edge = {}
    BY <1>4 DEF At, FriendsInv, FriendCalls, SoundFriendCall, Unlocked
  <2> PICK c : c = [fcalls[t] EXCEPT !.at = "notify"]
    OBVIOUS
  <2>2. c \in FriendCall /\ c.at = "notify" /\ c.rows = {} /\ c.edge = {}
    BY <1>2, <2>1 DEF FriendCall, Unlocked
  <2>3. fcalls' = [fcalls EXCEPT ![t] = c] /\ Quiet(c)
    BY <1>4, <2>2 DEF Quiet, Unlocked
  <2> QED BY <1>1, <2>3, FriendQuiet
<1> QED BY <1>2, <1>3, <1>4 DEF fetch_usernames, Notify, FriendDbError

\* A step that takes locks, or looks.
LEMMA FriendLocks ==
  ASSUME FriendsInv, NEW t \in FriendTasks, NEW c, SoundFriendCall(c),
         fcalls' = [fcalls EXCEPT ![t] = c],
         \A s \in FriendTasks \ {t} : Apart(c, fcalls[s]) /\ Apart(fcalls[s], c),
         UNCHANGED <<requests, edges, lastId>>
  PROVE  FriendsInv'
<1>1. lastId \in Nat /\ lastId' \in 0..MaxRequestIds /\ lastId <= lastId'
  BY FriendConstants DEF FriendsInv, FriendKeys
<1>2. SoundFriendCall(c)'
  BY <1>1, SoundStays
<1> QED BY <1>1, <1>2, FriendReadOnly

LEMMA AcceptUpdateStep ==
  ASSUME FriendsInv, NEW t \in FriendTasks, AcceptUpdate(t)
  PROVE  FriendsInv'
<1>1. UNCHANGED <<requests, edges, lastId>> /\ fcalls[t].at = "update"
  BY DEF AcceptUpdate, At
<1>2. CASE Answers(t, 404)
  BY <1>1, <1>2, FriendAnswers
<1>3. ASSUME NEW r \in Pending(fcalls[t].id, fcalls[t].me), RowFree(t, r),
             fcalls' = [fcalls EXCEPT ![t].at = "insert", ![t].other = r.from,
                                      ![t].rows = {r.id}]
      PROVE  FriendsInv'
  <2>1. /\ r \in requests /\ r.to = fcalls[t].me /\ r.status = "pending"
        /\ r.from \in Nat /\ r.id \in Nat
    <3>1. r \in requests /\ r.to = fcalls[t].me /\ r.status = "pending"
      BY DEF Pending
    <3> QED BY <3>1, RequestTyped DEF FriendsInv
  <2>2. fcalls[t] \in FriendCall /\ fcalls[t].edge = {}
    BY <1>1 DEF FriendsInv, FriendCalls, SoundFriendCall, Unlocked
  <2> PICK v : v = [fcalls[t] EXCEPT !.at = "insert"]
    OBVIOUS
  <2>3. /\ v \in FriendCall /\ v.at = "insert" /\ v.edge = {}
        /\ v.me = fcalls[t].me
    BY <2>2 DEF FriendCall
  <2> DEFINE w == [v EXCEPT !.other = r.from]
             c == [w EXCEPT !.rows = {r.id}]
  <2>4. fcalls' = [fcalls EXCEPT ![t] = c]
    BY <1>3
  <2>5. /\ w \in FriendCall /\ w.at = "insert" /\ w.edge = {}
        /\ w.me = fcalls[t].me /\ w.other = r.from
    BY <2>1, <2>3 DEF FriendCall
  <2> HIDE DEF w
  <2>6. /\ c \in FriendCall /\ c.at = "insert" /\ c.edge = {} /\ c.rows = {r.id}
        /\ c.me = fcalls[t].me /\ c.other = r.from
    BY <2>1, <2>5 DEF FriendCall
  <2> HIDE DEF c
  <2>7. SoundFriendCall(c)
    BY <2>1, <2>6 DEF SoundFriendCall, Unlocked
  <2>8. ASSUME NEW s \in FriendTasks \ {t}
        PROVE  Apart(c, fcalls[s]) /\ Apart(fcalls[s], c)
    BY <1>3, <2>6 DEF Apart, RowFree
  <2> QED BY <1>1, <2>4, <2>7, <2>8, FriendLocks
<1> QED BY <1>2, <1>3 DEF AcceptUpdate

\* The edge is locked, or found; no removal holds it.
LEMMA AcceptInsertStep ==
  ASSUME FriendsInv, NEW t \in FriendTasks, AcceptInsert(t)
  PROVE  FriendsInv'
<1> DEFINE e == Edge(fcalls[t].me, fcalls[t].other)
<1>1. /\ UNCHANGED <<requests, edges, lastId>> /\ fcalls[t].at = "insert" /\ EdgeFree(t, e)
      /\ fcalls' = [fcalls EXCEPT ![t].at = "commit",
                                  ![t].edge = IF e \in edges THEN {} ELSE {e}]
  BY DEF AcceptInsert, At
<1> PICK g : g = IF e \in edges THEN {} ELSE {e}
  OBVIOUS
<1>2. /\ fcalls[t] \in FriendCall /\ SoundFriendCall(fcalls[t])
      /\ \A s \in FriendTasks \ {t} : Apart(fcalls[t], fcalls[s]) /\ Apart(fcalls[s], fcalls[t])
  BY DEF FriendsInv, FriendCalls
<1>3. e \in Nat \X Nat
  BY <1>2, EdgeTyped DEF FriendCall
<1>4. g \subseteq {e} /\ ((g = {} /\ e \in edges) \/ g = {e})
  OBVIOUS
<1> PICK v : v = [fcalls[t] EXCEPT !.at = "commit"]
  OBVIOUS
<1>5. /\ v \in FriendCall /\ v.at = "commit" /\ v.rows = fcalls[t].rows
      /\ v.me = fcalls[t].me /\ v.other = fcalls[t].other
  BY <1>2 DEF FriendCall
<1> DEFINE c == [v EXCEPT !.edge = g]
<1>6. fcalls' = [fcalls EXCEPT ![t] = c]
  BY <1>1
<1>7. /\ c \in FriendCall /\ c.at = "commit" /\ c.rows = fcalls[t].rows /\ c.edge = g
      /\ c.me = fcalls[t].me /\ c.other = fcalls[t].other
  <2>1. g \in SUBSET (Nat \X Nat)
    BY <1>3, <1>4
  <2> HIDE DEF e
  <2> QED BY <1>5, <2>1 DEF FriendCall
<1> HIDE DEF c
<1>8. SoundFriendCall(c)
  <2>1. \E r \in requests : /\ c.rows = {r.id} /\ r.status = "pending"
                            /\ r.to = c.me /\ r.from = c.other
    BY <1>1, <1>2, <1>7 DEF SoundFriendCall
  <2> QED BY <1>4, <1>7, <2>1 DEF SoundFriendCall, Unlocked
<1>9. ASSUME NEW s \in FriendTasks \ {t}
      PROVE  Apart(c, fcalls[s]) /\ Apart(fcalls[s], c)
  <2>1. e \notin fcalls[s].edge
    BY <1>1 DEF EdgeFree
  <2>2. fcalls[t].rows \cap fcalls[s].rows = {}
    BY <1>2 DEF Apart
  <2> HIDE DEF e
  <2> QED BY <1>4, <1>7, <2>1, <2>2 DEF Apart, e
<1> QED BY <1>1, <1>6, <1>8, <1>9, FriendLocks

LEMMA RemoveDeleteStep ==
  ASSUME FriendsInv, NEW t \in FriendTasks, RemoveDelete(t)
  PROVE  FriendsInv'
<1> DEFINE e == Edge(fcalls[t].me, fcalls[t].other)
<1>1. UNCHANGED <<requests, edges, lastId>> /\ fcalls[t].at = "delete"
  BY DEF RemoveDelete, At
<1>2. CASE Answers(t, 404)
  BY <1>1, <1>2, FriendAnswers
<1>3. CASE /\ e \in edges /\ EdgeFree(t, e)
           /\ fcalls' = [fcalls EXCEPT ![t].at = "look", ![t].edge = {e}]
  <2>1. fcalls[t] \in FriendCall /\ fcalls[t].rows = {}
    BY <1>1 DEF FriendsInv, FriendCalls, SoundFriendCall, Unlocked
  <2> PICK g : g = {e}
    OBVIOUS
  <2>2. g \in SUBSET (Nat \X Nat)
    <3>1. fcalls[t].me \in Nat /\ fcalls[t].other \in Nat
      BY <2>1 DEF FriendCall
    <3>2. e \in Nat \X Nat
      BY <3>1, EdgeTyped
    <3> QED BY <3>2
  <2> PICK v : v = [fcalls[t] EXCEPT !.at = "look"]
    OBVIOUS
  <2>3. /\ v \in FriendCall /\ v.at = "look" /\ v.rows = {}
        /\ v.me = fcalls[t].me /\ v.other = fcalls[t].other
    BY <2>1 DEF FriendCall
  <2> DEFINE c == [v EXCEPT !.edge = g]
  <2>4. fcalls' = [fcalls EXCEPT ![t] = c]
    BY <1>3
  <2>5. /\ c \in FriendCall /\ c.at = "look" /\ c.rows = {} /\ c.edge = g
        /\ c.me = fcalls[t].me /\ c.other = fcalls[t].other
    BY <2>2, <2>3 DEF FriendCall
  <2> HIDE DEF c
  <2>6. SoundFriendCall(c)
    BY <1>3, <2>5 DEF SoundFriendCall, Unlocked
  <2>7. ASSUME NEW s \in FriendTasks \ {t}
        PROVE  Apart(c, fcalls[s]) /\ Apart(fcalls[s], c)
    <3>1. e \notin fcalls[s].edge
      BY <1>3 DEF EdgeFree
    <3> HIDE DEF e
    <3> QED BY <2>5, <3>1 DEF Apart, e
  <2> QED BY <1>1, <2>4, <2>6, <2>7, FriendLocks
<1> QED BY <1>2, <1>3 DEF RemoveDelete

\* The view holds every row of the pair that is there, so every accepted one,
\* and the one of an accept that relies on the edge without a lock on it.
LEMMA RemoveLookStep ==
  ASSUME FriendsInv, NEW t \in FriendTasks, RemoveLook(t)
  PROVE  FriendsInv'
<1> PICK me : me = fcalls[t].me
  OBVIOUS
<1> PICK other : other = fcalls[t].other
  OBVIOUS
<1>1. UNCHANGED <<requests, edges, lastId>> /\ fcalls[t].at = "look"
  BY DEF RemoveLook, At
<1>2. /\ fcalls[t] \in FriendCall /\ fcalls[t].rows = {}
      /\ fcalls[t].edge = {Edge(me, other)} /\ Edge(me, other) \in edges
      /\ me \in Nat /\ other \in Nat
  BY <1>1 DEF FriendsInv, FriendCalls, SoundFriendCall, FriendCall
<1> PICK view : view = {r.id : r \in Between(me, other)}
  OBVIOUS
<1>3. /\ view \subseteq 1..lastId
      /\ view \in SUBSET Nat
      /\ \A i \in view : \E r \in requests : i = r.id
      /\ \A r \in requests : Edge(r.from, r.to) = Edge(me, other) => r.id \in view
  <2>1. /\ \A r \in requests : r.id \in 1..lastId /\ r.from \in Nat /\ r.to \in Nat
        /\ \A r \in requests : r.id \in Nat
    BY RequestTyped DEF FriendsInv
  <2>2. view \subseteq 1..lastId
    BY <2>1 DEF Between
  <2>3. ASSUME NEW r \in requests, Edge(r.from, r.to) = Edge(me, other)
        PROVE  r.id \in view
    <3>1. {r.from, r.to} = {me, other}
      <4>1. r.from \in Nat /\ r.to \in Nat /\ me \in Nat /\ other \in Nat
        BY <1>2, <2>1
      <4>2. Edge(r.from, r.to) = Edge(me, other)
        BY <2>3
      <4>3. (r.from = me /\ r.to = other) \/ (r.from = other /\ r.to = me)
        BY <4>1, <4>2 DEF Edge
      <4> QED BY <4>3
    <3> QED BY <3>1 DEF Between
  <2>4. view \in SUBSET Nat /\ \A i \in view : \E r \in requests : i = r.id
    BY <2>1 DEF Between
  <2> QED BY <2>2, <2>3, <2>4
<1> PICK v : v = [fcalls[t] EXCEPT !.at = "purge"]
  OBVIOUS
<1>4. /\ v \in FriendCall /\ v.at = "purge" /\ v.rows = {} /\ v.edge = {Edge(me, other)}
      /\ v.me = me /\ v.other = other
  BY <1>2 DEF FriendCall
<1> DEFINE c == [v EXCEPT !.view = view]
<1>5. fcalls' = [fcalls EXCEPT ![t] = c]
  BY DEF RemoveLook, Purged
<1>6. /\ c \in FriendCall /\ c.at = "purge" /\ c.rows = {} /\ c.edge = {Edge(me, other)}
      /\ c.me = me /\ c.other = other /\ c.view = view
  <2> QED BY <1>3, <1>4 DEF FriendCall
<1> HIDE DEF c
<1>7. SoundFriendCall(c)
  BY <1>2, <1>3, <1>6 DEF SoundFriendCall, Unlocked
<1>8. ASSUME NEW s \in FriendTasks \ {t}
      PROVE  Apart(c, fcalls[s]) /\ Apart(fcalls[s], c)
  <2> PICK d : d = fcalls[s]
    OBVIOUS
  <2>1. SoundFriendCall(d) /\ d \in FriendCall
    BY DEF FriendsInv, FriendCalls
  <2>2. d.edge \cap c.edge = {}
    BY <1>2, <1>6 DEF FriendsInv, FriendCalls, Apart
  <2>3. Apart(c, d)
    BY <1>6, <2>2 DEF Apart
  <2>4. d.at = "upsert" => d.id \notin view
    BY <1>3, <2>1 DEF SoundFriendCall
  <2>5. d.at = "commit" /\ Edge(d.me, d.other) = Edge(me, other) => d.rows \subseteq view
    <3> SUFFICES ASSUME d.at = "commit", Edge(d.me, d.other) = Edge(me, other)
                 PROVE  d.rows \subseteq view
      OBVIOUS
    <3>1. PICK r \in requests : d.rows = {r.id} /\ r.to = d.me /\ r.from = d.other
      BY <2>1 DEF SoundFriendCall
    <3>2. Edge(r.from, r.to) = Edge(me, other)
      BY <2>1, <3>1, EdgeTyped DEF FriendCall
    <3> QED BY <1>3, <3>1, <3>2
  <2>6. Apart(d, c)
    <3> QED BY <1>6, <2>2, <2>4, <2>5 DEF Apart
  <2> QED BY <2>3, <2>6
<1> QED BY <1>1, <1>5, <1>7, <1>8, FriendLocks

\* Every row of the view that is still there is locked.
LEMMA RemovePurgeStep ==
  ASSUME FriendsInv, NEW t \in FriendTasks, RemovePurge(t)
  PROVE  FriendsInv'
<1>1. /\ UNCHANGED <<requests, edges, lastId>> /\ fcalls[t].at = "purge"
      /\ \A r \in requests : r.id \in fcalls[t].view => RowFree(t, r)
  BY DEF RemovePurge, At
<1>2. /\ fcalls[t] \in FriendCall /\ SoundFriendCall(fcalls[t])
      /\ \A s \in FriendTasks \ {t} : Apart(fcalls[t], fcalls[s]) /\ Apart(fcalls[s], fcalls[t])
  BY DEF FriendsInv, FriendCalls
<1> PICK rows : rows = {r.id : r \in {q \in requests : q.id \in fcalls[t].view}}
  OBVIOUS
<1>3. /\ rows \in SUBSET Nat
      /\ \A r \in requests : r.id \in fcalls[t].view => r.id \in rows
      /\ \A s \in FriendTasks \ {t} : fcalls[s].rows \cap rows = {}
  <2>1. \A r \in requests : r.id \in 1..lastId
    BY DEF FriendsInv, FriendKeys
  <2>2. rows \in SUBSET Nat
    BY <2>1
  <2>3. \A s \in FriendTasks \ {t} : fcalls[s].rows \cap rows = {}
    BY <1>1 DEF RowFree
  <2> QED BY <2>2, <2>3
<1> PICK v : v = [fcalls[t] EXCEPT !.at = "close"]
  OBVIOUS
<1>4. /\ v \in FriendCall /\ v.at = "close" /\ v.edge = fcalls[t].edge
      /\ v.me = fcalls[t].me /\ v.other = fcalls[t].other /\ v.view = fcalls[t].view
  BY <1>2 DEF FriendCall
<1> DEFINE c == [v EXCEPT !.rows = rows]
<1>5. fcalls' = [fcalls EXCEPT ![t] = c]
  BY DEF RemovePurge
<1>6. /\ c \in FriendCall /\ c.at = "close" /\ c.edge = fcalls[t].edge /\ c.rows = rows
      /\ c.me = fcalls[t].me /\ c.other = fcalls[t].other /\ c.view = fcalls[t].view
  BY <1>3, <1>4 DEF FriendCall
<1> HIDE DEF c
<1>7. SoundFriendCall(c)
  BY <1>1, <1>2, <1>3, <1>6 DEF SoundFriendCall, Unlocked
<1>8. ASSUME NEW s \in FriendTasks \ {t}
      PROVE  Apart(c, fcalls[s]) /\ Apart(fcalls[s], c)
  <2>1. Apart(fcalls[t], fcalls[s]) /\ Apart(fcalls[s], fcalls[t])
    BY <1>2
  <2> QED BY <1>1, <1>3, <1>6, <2>1 DEF Apart
<1> QED BY <1>1, <1>5, <1>7, <1>8, FriendLocks

\* Some of the rows, H, get another status.
WithStatus(H, st) == (requests \ H) \cup {[r EXCEPT !.status = st] : r \in H}

LEMMA Restated ==
  ASSUME FriendKeys, UNCHANGED lastId, NEW H \in SUBSET requests, NEW st \in Statuses,
         requests' = WithStatus(H, st)
  PROVE  /\ requests' \subseteq [id : 1..lastId', from : Registered, to : Registered,
                               status : Statuses]
         /\ \A q \in requests' : \E r \in requests :
               /\ q.id = r.id /\ q.from = r.from /\ q.to = r.to
               /\ (r \in H /\ q.status = st) \/ (r \notin H /\ q = r)
         /\ \A r \in requests \ H : r \in requests'
         /\ \A q, r \in requests' : (q.from = r.from /\ q.to = r.to) \/ q.id = r.id => q = r
         /\ \A r \in requests' : r.from # r.to
<1> DEFINE Rows == [id : 1..lastId, from : Registered, to : Registered, status : Statuses]
<1>1. requests \subseteq Rows
  BY DEF FriendKeys
<1>2. \A r \in H : LET q == [r EXCEPT !.status = st]
                  IN /\ q \in Rows /\ q.status = st
                     /\ q.id = r.id /\ q.from = r.from /\ q.to = r.to
  BY <1>1
<1>3. requests' \subseteq Rows
  BY <1>1, <1>2 DEF WithStatus
<1>4. \A q \in requests' : \E r \in requests :
        /\ q.id = r.id /\ q.from = r.from /\ q.to = r.to
        /\ (r \in H /\ q.status = st) \/ (r \notin H /\ q = r)
  BY <1>2 DEF WithStatus
<1>5. ASSUME NEW p \in requests', NEW q \in requests',
             (p.from = q.from /\ p.to = q.to) \/ p.id = q.id
      PROVE  p = q
  <2>1. PICK u \in requests : /\ p.id = u.id /\ p.from = u.from /\ p.to = u.to
                              /\ (u \in H /\ p.status = st) \/ (u \notin H /\ p = u)
    BY <1>4
  <2>2. PICK v \in requests : /\ q.id = v.id /\ q.from = v.from /\ q.to = v.to
                              /\ (v \in H /\ q.status = st) \/ (v \notin H /\ q = v)
    BY <1>4
  <2>3. u = v
    BY <1>5, <2>1, <2>2 DEF FriendKeys
  <2>4. p.id = q.id /\ p.from = q.from /\ p.to = q.to /\ p.status = q.status
    BY <2>1, <2>2, <2>3
  <2>5. p \in Rows /\ q \in Rows
    BY <1>3
  <2> QED BY <2>4, <2>5
<1>6. \A r \in requests' : r.from # r.to
  BY <1>4 DEF FriendKeys
<1>7. \A r \in requests \ H : r \in requests'
  BY DEF WithStatus
<1> QED BY <1>3, <1>4, <1>5, <1>6, <1>7

\* A transaction writes and ends; the others know what they knew.
LEMMA FriendWrites ==
  ASSUME FriendsInv, NEW t \in FriendTasks, NEW c, Quiet(c),
         fcalls' = [fcalls EXCEPT ![t] = c],
         \A d : (\E s \in FriendTasks \ {t} : d = fcalls[s]) => SoundFriendCall(d)'
  PROVE  FriendCalls'
<1>1. SoundFriendCall(c)'
  BY QuietSound
<1>2. \A s \in FriendTasks \ {t} : Apart(c, fcalls[s]) /\ Apart(fcalls[s], c)
  BY QuietApart
<1> QED BY <1>1, <1>2, FriendMoves DEF FriendsInv

\* The rows that get another status are locked by nobody else; when they become
\* accepted, a removal of their edge has them in its view.
LEMMA OthersRestated ==
  ASSUME FriendKeys, UNCHANGED lastId, NEW H \in SUBSET requests, NEW st \in Statuses,
         requests' = WithStatus(H, st),
         edges \subseteq edges',
         NEW d, SoundFriendCall(d), \A r \in H : r.id \notin d.rows,
         st = "accepted" /\ d.at \in {"purge", "close"}
            => \A r \in H : Edge(r.from, r.to) \in d.edge => r.id \in d.view
  PROVE  SoundFriendCall(d)'
<1>1. /\ \A q \in requests' : \E r \in requests :
           /\ q.id = r.id /\ q.from = r.from /\ q.to = r.to
           /\ (r \in H /\ q.status = st) \/ (r \notin H /\ q = r)
      /\ \A r \in requests \ H : r \in requests'
  BY Restated
<1>2. d.at = "upsert" => \A q \in requests' : q.id # d.id
  BY <1>1 DEF SoundFriendCall
<1>3. d.at \in {"insert", "commit"} =>
        \E r \in requests' : /\ d.rows = {r.id} /\ r.status = "pending"
                             /\ r.to = d.me /\ r.from = d.other
  BY <1>1 DEF SoundFriendCall
<1>4. d.at \in {"purge", "close"} => \A q \in requests' :
        q.status = "accepted" /\ Edge(q.from, q.to) \in d.edge => q.id \in d.view
  <2> SUFFICES ASSUME d.at \in {"purge", "close"}, NEW q \in requests',
                      q.status = "accepted", Edge(q.from, q.to) \in d.edge
               PROVE  q.id \in d.view
    OBVIOUS
  <2>1. PICK r \in requests : /\ q.id = r.id /\ q.from = r.from /\ q.to = r.to
                              /\ (r \in H /\ q.status = st) \/ (r \notin H /\ q = r)
    BY <1>1
  <2>2. CASE r \in H /\ q.status = st
    BY <2>1, <2>2
  <2>3. CASE q = r
    BY <2>3 DEF SoundFriendCall
  <2> QED BY <2>1, <2>2, <2>3
<1>5. d.at = "close" => \A q \in requests' : q.id \in d.view => q.id \in d.rows
  BY <1>1 DEF SoundFriendCall
<1> QED BY <1>2, <1>3, <1>4, <1>5 DEF SoundFriendCall, FriendCall, Unlocked

\* What a transaction that ends puts in place of its call.
LEMMA EndsQuiet ==
  ASSUME NEW l \in Unlocked \ {"upsert", "number"}, NEW code \in Nat
  PROVE  Quiet([Idle EXCEPT !.at = l, !.code = code])
BY IdleQuiet DEF Quiet, FriendCall, Unlocked

LEMMA CommitQuiet ==
  ASSUME NEW t \in FriendTasks, AfterCommit(t)
  PROVE  \E c : Quiet(c) /\ fcalls' = [fcalls EXCEPT ![t] = c]
<1>1. CASE Answers(t, 500)
  <2>1. fcalls' = [fcalls EXCEPT ![t] = FriendAnswered(500)]
    BY <1>1 DEF Answers, FriendAnswered
  <2>2. Quiet(FriendAnswered(500))
    BY AnsweredQuiet
  <2> QED BY <2>1, <2>2
<1>2. CASE fcalls' = [fcalls EXCEPT ![t] = [Idle EXCEPT !.at = "notify", !.code = 200]]
  <2> PICK c : c = [Idle EXCEPT !.at = "notify", !.code = 200]
    OBVIOUS
  <2>1. Quiet(c)
    BY EndsQuiet DEF Unlocked
  <2> QED BY <1>2, <2>1
<1> QED BY <1>1, <1>2 DEF AfterCommit

\* The rows keep their keys and edges are only added to.
LEMMA RestatedTables ==
  ASSUME FriendsInv, UNCHANGED lastId, NEW H \in SUBSET requests, NEW st \in Statuses,
         requests' = WithStatus(H, st), edges \subseteq edges', edges' \subseteq Edges,
         st = "accepted" => \A r \in H : Edge(r.from, r.to) \in edges'
  PROVE  FriendKeys' /\ AcceptedEdges'
<1>1. FriendKeys
  BY DEF FriendsInv
<1>2. /\ requests' \subseteq [id : 1..lastId', from : Registered, to : Registered,
                            status : Statuses]
      /\ \A q, r \in requests' : (q.from = r.from /\ q.to = r.to) \/ q.id = r.id => q = r
      /\ \A r \in requests' : r.from # r.to
  BY <1>1, Restated
<1>3. FriendKeys'
  BY <1>1, <1>2 DEF FriendKeys, Statuses, Edges
<1>4. \A q \in requests' : \E r \in requests :
        /\ q.id = r.id /\ q.from = r.from /\ q.to = r.to
        /\ (r \in H /\ q.status = st) \/ (r \notin H /\ q = r)
  BY <1>1, Restated
<1>5. AcceptedEdges'
  <2> SUFFICES ASSUME NEW q \in requests', q.status = "accepted"
               PROVE  Edge(q.from, q.to) \in edges'
    BY DEF AcceptedEdges, Edge
  <2>1. PICK r \in requests : /\ q.id = r.id /\ q.from = r.from /\ q.to = r.to
                              /\ (r \in H /\ q.status = st) \/ (r \notin H /\ q = r)
    BY <1>4
  <2>2. CASE r \in H /\ q.status = st
    BY <2>1, <2>2
  <2>3. CASE q = r
    BY <2>3 DEF FriendsInv, AcceptedEdges
  <2> QED BY <2>1, <2>2, <2>3
<1> QED BY <1>3, <1>5

\* A request inserted, or made pending again.
LEMMA UpsertStep ==
  ASSUME FriendsInv, NEW t \in FriendTasks, UpsertRequest(t)
  PROVE  FriendsInv'
<1> PICK c : c = fcalls[t]
  OBVIOUS
<1> PICK same : same = {r \in requests : r.from = c.me /\ r.to = c.other}
  OBVIOUS
<1>1. /\ UNCHANGED <<edges, lastId>> /\ c.at = "upsert"
      /\ \A r \in same : RowFree(t, r)
      /\ requests' = (requests \ same) \cup
            IF same = {} THEN {[id |-> c.id, from |-> c.me, to |-> c.other,
                                status |-> "pending"]}
                         ELSE {[r EXCEPT !.status = "pending"] : r \in same}
      /\ fcalls' = [fcalls EXCEPT ![t] = [Idle EXCEPT !.at = "names", !.code = 201]]
  BY DEF UpsertRequest, At
<1>2. /\ c \in FriendCall /\ SoundFriendCall(c)
      /\ \A s \in FriendTasks \ {t} : Apart(c, fcalls[s]) /\ SoundFriendCall(fcalls[s])
      /\ FriendKeys
  BY DEF FriendsInv, FriendCalls
<1> PICK e : e = [Idle EXCEPT !.at = "names", !.code = 201]
  OBVIOUS
<1>3. Quiet(e) /\ fcalls' = [fcalls EXCEPT ![t] = e]
  BY <1>1, EndsQuiet DEF Unlocked
<1>4. CASE same # {}
  <2>1. requests' = WithStatus(same, "pending") /\ same \in SUBSET requests
    BY <1>1, <1>4 DEF WithStatus
  <2>2. edges \subseteq edges' /\ edges' \subseteq Edges
    BY <1>1, <1>2 DEF FriendKeys
  <2>3. "pending" \in Statuses
    BY DEF Statuses
  <2>4. FriendKeys' /\ AcceptedEdges'
    BY <1>1, <2>1, <2>2, <2>3, RestatedTables
  <2>5. ASSUME NEW d, NEW s \in FriendTasks \ {t}, d = fcalls[s]
        PROVE  SoundFriendCall(d)'
    <3>1. SoundFriendCall(d) /\ \A r \in same : r.id \notin d.rows
      BY <1>1, <1>2, <2>5 DEF RowFree
    <3> QED BY <1>1, <1>2, <2>1, <2>2, <2>3, <3>1, OthersRestated
  <2> QED BY <1>3, <2>4, <2>5, FriendWrites DEF FriendsInv
<1>5. CASE same = {}
  <2> PICK n : n = [id |-> c.id, from |-> c.me, to |-> c.other, status |-> "pending"]
    OBVIOUS
  <2>1. /\ requests' = requests \cup {n}
        /\ n.id = c.id /\ n.from = c.me /\ n.to = c.other /\ n.status = "pending"
    BY <1>1, <1>5
  <2>2. /\ c.id \in 1..lastId /\ c.me \in Registered /\ c.other \in Registered
        /\ c.me # c.other /\ \A r \in requests : r.id # c.id
    BY <1>1, <1>2 DEF SoundFriendCall
  <2>3. n \in [id : 1..lastId, from : Registered, to : Registered, status : Statuses]
    BY <2>2 DEF Statuses
  <2>4. requests' \subseteq [id : 1..lastId', from : Registered, to : Registered,
                           status : Statuses]
    BY <1>1, <1>2, <2>1, <2>3 DEF FriendKeys
  <2>5. \A r \in requests : ~(r.from = c.me /\ r.to = c.other)
    BY <1>5
  <2>6. \A q, r \in requests' : (q.from = r.from /\ q.to = r.to) \/ q.id = r.id => q = r
    BY <1>2, <2>1, <2>2, <2>5 DEF FriendKeys
  <2>7. FriendKeys'
    BY <1>1, <1>2, <2>1, <2>2, <2>4, <2>6 DEF FriendKeys, Statuses, Edges
  <2>8. AcceptedEdges'
    BY <1>1, <2>1 DEF FriendsInv, AcceptedEdges, Edge
  <2>9. ASSUME NEW d, NEW s \in FriendTasks \ {t}, d = fcalls[s]
        PROVE  SoundFriendCall(d)'
    <3>1. SoundFriendCall(d) /\ Apart(c, d)
      BY <1>2, <2>9
    <3>2. d.at = "upsert" => n.id # d.id
      BY <1>1, <2>1, <3>1 DEF Apart
    <3>3. d.at = "close" => n.id \notin d.view
      BY <1>1, <2>1, <3>1 DEF Apart
    <3> QED BY <1>1, <2>1, <3>1, <3>2, <3>3 DEF SoundFriendCall, FriendCall, Unlocked
  <2> QED BY <1>3, <2>7, <2>8, <2>9, FriendWrites DEF FriendsInv
<1> QED BY <1>4, <1>5

\* The row locked by the accept gets its status together with its edge.
LEMMA AcceptCommitStep ==
  ASSUME FriendsInv, NEW t \in FriendTasks, AcceptCommit(t)
  PROVE  FriendsInv'
<1> PICK c : c = fcalls[t]
  OBVIOUS
<1> PICK H : H = {r \in requests : r.id \in c.rows}
  OBVIOUS
<1>1. /\ UNCHANGED lastId /\ c.at = "commit" /\ edges' = edges \cup c.edge
      /\ requests' = {IF r.id \in c.rows THEN [r EXCEPT !.status = "accepted"] ELSE r
                         : r \in requests}
      /\ AfterCommit(t)
  BY DEF AcceptCommit, At
<1>2. /\ c \in FriendCall /\ SoundFriendCall(c)
      /\ \A s \in FriendTasks \ {t} : Apart(c, fcalls[s]) /\ SoundFriendCall(fcalls[s])
      /\ FriendKeys
  BY DEF FriendsInv, FriendCalls
<1>3. PICK e : Quiet(e) /\ fcalls' = [fcalls EXCEPT ![t] = e]
  BY <1>1, CommitQuiet
<1>4. H \in SUBSET requests /\ requests' = WithStatus(H, "accepted") /\ "accepted" \in Statuses
  BY <1>1 DEF WithStatus, Statuses
<1>5. PICK r \in requests : c.rows = {r.id} /\ r.to = c.me /\ r.from = c.other
  BY <1>1, <1>2 DEF SoundFriendCall
<1>6. /\ r.from \in People /\ r.to \in People /\ r.from # r.to
      /\ r.from \in Nat /\ r.to \in Nat
  BY <1>2, RequestTyped, FriendConstants DEF FriendKeys
<1>7. Edge(r.from, r.to) = Edge(c.me, c.other) /\ Edge(r.from, r.to) \in Edges
  BY <1>5, <1>6, EdgeTyped
<1>8. \A q \in H : q = r
  BY <1>2, <1>5 DEF FriendKeys
<1>9. \/ c.edge = {} /\ Edge(c.me, c.other) \in edges
      \/ c.edge = {Edge(c.me, c.other)}
  BY <1>1, <1>2 DEF SoundFriendCall
<1>10. edges \subseteq edges' /\ edges' \subseteq Edges
  BY <1>1, <1>2, <1>7, <1>9 DEF FriendKeys
<1>11. \A q \in H : Edge(q.from, q.to) \in edges'
  BY <1>1, <1>7, <1>8, <1>9
<1>12. FriendKeys' /\ AcceptedEdges'
  BY <1>1, <1>4, <1>10, <1>11, RestatedTables
<1>13. ASSUME NEW d, NEW s \in FriendTasks \ {t}, d = fcalls[s]
       PROVE  SoundFriendCall(d)'
  <2>1. SoundFriendCall(d) /\ Apart(c, d)
    BY <1>2, <1>13
  <2>2. \A q \in H : q.id \notin d.rows
    BY <2>1, <1>5, <1>8 DEF Apart
  <2>3. d.at \in {"purge", "close"} =>
          \A q \in H : Edge(q.from, q.to) \in d.edge => q.id \in d.view
    BY <1>1, <1>5, <1>7, <1>8, <1>9, <2>1 DEF Apart
  <2> QED BY <1>1, <1>2, <1>4, <1>10, <2>1, <2>2, <2>3, OthersRestated
<1> QED BY <1>3, <1>12, <1>13, FriendWrites DEF FriendsInv

LEMMA RejectStep ==
  ASSUME FriendsInv, NEW t \in FriendTasks, NEW me \in Registered,
         NEW id \in 1..MaxRequestIds, RejectRequest(t, me, id)
  PROVE  FriendsInv'
<1> PICK H : H = Pending(id, me)
  OBVIOUS
<1>1. /\ UNCHANGED <<edges, lastId>> /\ H \in SUBSET requests
      /\ \A r \in H : RowFree(t, r)
      /\ requests' = WithStatus(H, "rejected") /\ "rejected" \in Statuses
  BY DEF RejectRequest, WithStatus, Pending, Statuses
<1>2. /\ \A s \in FriendTasks \ {t} : SoundFriendCall(fcalls[s])
      /\ FriendKeys /\ edges \subseteq edges' /\ edges' \subseteq Edges
  BY <1>1 DEF FriendsInv, FriendCalls, FriendKeys
<1>3. \E code \in {404, 200} : Answers(t, code)
  <2>1. Answers(t, IF H = {} THEN 404 ELSE 200)
    BY DEF RejectRequest
  <2> QED BY <2>1
<1>4. PICK e : Quiet(e) /\ fcalls' = [fcalls EXCEPT ![t] = e]
  <2>1. PICK code \in {404, 200} : Answers(t, code)
    BY <1>3
  <2>2. fcalls' = [fcalls EXCEPT ![t] = FriendAnswered(code)]
    BY <2>1 DEF Answers, FriendAnswered
  <2>3. Quiet(FriendAnswered(code))
    BY AnsweredQuiet
  <2> QED BY <2>2, <2>3
<1>5. FriendKeys' /\ AcceptedEdges'
  BY <1>1, <1>2, RestatedTables
<1>6. ASSUME NEW d, NEW s \in FriendTasks \ {t}, d = fcalls[s]
      PROVE  SoundFriendCall(d)'
  <2>1. SoundFriendCall(d) /\ \A r \in H : r.id \notin d.rows
    BY <1>1, <1>2, <1>6 DEF RowFree
  <2> QED BY <1>1, <1>2, <2>1, OthersRestated
<1> QED BY <1>4, <1>5, <1>6, FriendWrites DEF FriendsInv

\* The edge goes, and with it every accepted row beside it; an accept that
\* relied on the edge would have its row locked by both.
LEMMA RemoveCommitStep ==
  ASSUME FriendsInv, NEW t \in FriendTasks, RemoveCommit(t)
  PROVE  FriendsInv'
<1> PICK c : c = fcalls[t]
  OBVIOUS
<1>1. /\ UNCHANGED lastId /\ c.at = "close" /\ edges' = edges \ c.edge
      /\ requests' = {r \in requests : r.id \notin c.rows}
      /\ AfterCommit(t)
  BY DEF RemoveCommit, At
<1>2. /\ c \in FriendCall /\ SoundFriendCall(c)
      /\ \A s \in FriendTasks \ {t} :
            Apart(c, fcalls[s]) /\ Apart(fcalls[s], c) /\ SoundFriendCall(fcalls[s])
      /\ FriendKeys
  BY DEF FriendsInv, FriendCalls
<1>3. PICK e : Quiet(e) /\ fcalls' = [fcalls EXCEPT ![t] = e]
  BY <1>1, CommitQuiet
<1>4. requests' \subseteq requests /\ edges' \subseteq edges
  BY <1>1
<1>5. FriendKeys'
  BY <1>1, <1>2, <1>4 DEF FriendKeys, Statuses, Edges
<1>6. AcceptedEdges'
  <2> SUFFICES ASSUME NEW r \in requests', r.status = "accepted"
               PROVE  Edge(r.from, r.to) \in edges'
    BY DEF AcceptedEdges, Edge
  <2>1. r \in requests /\ r.id \notin c.rows /\ Edge(r.from, r.to) \in edges
    BY <1>1 DEF FriendsInv, AcceptedEdges
  <2>2. Edge(r.from, r.to) \notin c.edge
    BY <1>1, <1>2, <2>1 DEF SoundFriendCall
  <2> QED BY <1>1, <2>1, <2>2
<1>7. ASSUME NEW d, NEW s \in FriendTasks \ {t}, d = fcalls[s]
      PROVE  SoundFriendCall(d)'
  <2>1. SoundFriendCall(d) /\ Apart(c, d) /\ Apart(d, c)
    BY <1>2, <1>7
  <2>2. d.at \in {"insert", "commit"} =>
          \E r \in requests' : /\ d.rows = {r.id} /\ r.status = "pending"
                               /\ r.to = d.me /\ r.from = d.other
    BY <1>1, <2>1 DEF SoundFriendCall, Apart
  <2>3. d.at = "commit" /\ d.edge = {} => Edge(d.me, d.other) \in edges'
    <3> SUFFICES ASSUME d.at = "commit", d.edge = {}, Edge(d.me, d.other) \in c.edge
                 PROVE  FALSE
      BY <1>1, <2>1 DEF SoundFriendCall
    <3>1. PICK r \in requests : d.rows = {r.id}
      BY <2>1 DEF SoundFriendCall
    <3>2. r.id \in c.view
      BY <1>1, <2>1, <3>1 DEF Apart
    <3>3. r.id \in c.rows
      BY <1>1, <1>2, <3>2 DEF SoundFriendCall
    <3> QED BY <2>1, <3>1, <3>3 DEF Apart
  <2>4. d.at \in {"look", "purge", "close"} => Edge(d.me, d.other) \in edges'
    BY <1>1, <2>1 DEF SoundFriendCall, Apart
  <2> QED BY <1>1, <1>4, <2>1, <2>2, <2>3, <2>4 DEF SoundFriendCall, FriendCall, Unlocked
<1> QED BY <1>3, <1>5, <1>6, <1>7, FriendWrites DEF FriendsInv

LEMMA FriendsInvInductive == FriendsInv /\ [FriendsNext]_friendVars => FriendsInv'
<1> SUFFICES ASSUME FriendsInv, [FriendsNext]_friendVars
             PROVE  FriendsInv'
  OBVIOUS
<1>1. CASE UNCHANGED friendVars
  <2>1. UNCHANGED <<requests, edges, fcalls, lastId>>
    BY <1>1 DEF friendVars
  <2>2. FriendKeys' /\ AcceptedEdges'
    BY <2>1 DEF FriendsInv, FriendKeys, AcceptedEdges, Statuses, Edges, Edge
  <2>3. lastId \in Nat /\ lastId' \in Nat /\ lastId <= lastId'
    BY <2>1, FriendConstants DEF FriendsInv, FriendKeys
  <2>4. ASSUME NEW s \in FriendTasks
        PROVE  SoundFriendCall(fcalls[s])'
    <3> PICK d : d = fcalls[s]
      OBVIOUS
    <3>1. SoundFriendCall(d)'
      BY <2>1, <2>3, SoundStays DEF FriendsInv, FriendCalls
    <3> QED BY <2>1, <3>1 DEF SoundFriendCall
  <2>5. ASSUME NEW q \in FriendTasks, NEW s \in FriendTasks, q # s
        PROVE  Apart(fcalls[q], fcalls[s])'
    BY <2>1, <2>5 DEF FriendsInv, FriendCalls, Apart
  <2>6. FriendCalls'
    BY <2>1, <2>4, <2>5 DEF FriendsInv, FriendCalls, FriendCall, Unlocked
  <2> QED BY <2>2, <2>6 DEF FriendsInv
<1>2. ASSUME NEW t \in FriendTasks, create_request(t)
      PROVE  FriendsInv'
  BY <1>2, RequestNumberStep, UpsertStep, FriendReadStep DEF create_request
<1>3. ASSUME NEW t \in FriendTasks, accept_request(t)
      PROVE  FriendsInv'
  BY <1>3, AcceptUpdateStep, AcceptInsertStep, AcceptCommitStep DEF accept_request
<1>4. ASSUME NEW t \in FriendTasks, remove_friend(t)
      PROVE  FriendsInv'
  BY <1>4, RemoveDeleteStep, RemoveLookStep, RemovePurgeStep, RemoveCommitStep
     DEF remove_friend
<1>5. CASE FriendsNext
  BY <1>2, <1>3, <1>4, <1>5, CreateRequestStep, AcceptRemoveCallStep, RejectStep,
     FriendReadStep DEF FriendsNext
<1> QED BY <1>1, <1>5

\* Whatever accepts, rejections, removals and repeated requests race, and
\* whichever of them is rolled back, the requests and the edges agree at every
\* commit (web/friends.rs).
THEOREM TablesAgree == FriendsSpec => []FriendTablesAgree
<1>1. FriendsInit => FriendsInv
  <2> SUFFICES ASSUME FriendsInit PROVE FriendsInv
    OBVIOUS
  <2>1. Quiet(Idle) /\ SoundFriendCall(Idle) /\ Apart(Idle, Idle)
    BY IdleQuiet, QuietSound, QuietApart
  <2>2. FriendCalls
    BY <2>1 DEF FriendsInit, FriendCalls, Quiet
  <2> QED BY <2>2, FriendConstants DEF FriendsInit, FriendsInv, FriendKeys, AcceptedEdges
<1> QED BY <1>1, TablesAgreeFromInv, FriendsInvInductive, PTL DEF FriendsSpec
=============================================================================

-------------------------------- MODULE Files -------------------------------
(***************************************************************************)
(* Uploaded files (application/upload_usecase.go, milestone_files_usecase.go, *)
(* storeAttachments of dm_usecase.go).  A file lies on the disk under a fresh  *)
(* name; a row of uploads, milestone_files or dm_attachments says whose it is. *)
(* No transaction spans the two: a file is written and judged before its row   *)
(* is, and what is left of a request that fails is removed by hand.           *)
(* What a name, a size and a type must look like only decides whether a file   *)
(* is accepted, which it may be or not, before or after it is written.        *)
(***************************************************************************)
EXTENDS Classroom

CONSTANT MaxFiles   \* MaxDMAttachments, by workload

ASSUME FilesAssumption == MaxFiles \in [Workloads -> Nat]

VARIABLES
  disk,    \* files under UPLOAD_PATH and PRIVATE_UPLOAD_PATH
  filed    \* uploads, milestone_files, dm_attachments: what file, where, whose

files == <<disk, filed>>

FilesInit == disk = {} /\ filed = {}

\* generateUUID: the n-th file of a request has a name that no other file ever has.
Name(t, n) == <<t.serial, n>>

Written(t) == {Name(t, n) : n \in 1 .. t.written}

Rows(t, table, of) == {[file |-> f, table |-> table, of |-> of] : f \in Written(t)}

\* A request that brings `count` files and goes on at `then`.
Storing(u, count, then) ==
  [user |-> u, serial |-> served', count |-> count, written |-> 0, then |-> then]

-----------------------------------------------------------------------------
(* The file *)

\* copyUploadFile and validateUploadContent: whether it can be written, and is what
\* its name says.
Intact == BOOLEAN

\* Refused by its name, size or type, or copyUploadFile fails and removes the part
\* it has written; else it is there.
WriteFile(r) ==
  LET t == task[r]
  IN  /\ At(r, "file:write")
      /\ \E intact \in Intact :
           IF ~intact THEN Goto(r, "file:clean") /\ UNCHANGED disk
           ELSE /\ GotoWith(r, "file:check", [t EXCEPT !.written = @ + 1])
                /\ disk' = disk \cup {Name(t, t.written + 1)}
      /\ UNCHANGED <<money, active, classroom, filed>>

\* What has been written may be too long or no text; then comes the next file.
CheckFile(r) ==
  LET t == task[r]
  IN  /\ At(r, "file:check")
      /\ \E intact \in Intact :
           Goto(r, IF ~intact THEN "file:clean"
                   ELSE IF t.written < t.count THEN "file:write" ELSE t.then)
      /\ UNCHANGED <<money, active, classroom, files>>

LeftBehind_Last(t) == IF t.written = 0 THEN {} ELSE {Name(t, t.written)}

LeftBehind(t) == Written(t)

CleanFiles(r) ==
  /\ At(r, "file:clean")
  /\ Return(r)
  /\ disk' = disk \ LeftBehind(task[r])
  /\ UNCHANGED <<money, active, classroom, filed>>

-----------------------------------------------------------------------------
(* Public uploads, and the files of a business plan *)

Upload(r) ==
  \E u \in Users :
    /\ MayAct(u)
    /\ Receive(r, "Upload", "file:write", Storing(u, 1, "file:upload"))
    /\ UNCHANGED <<money, active, classroom, files>>

UploadFile(r) ==
  \E u \in Users :
    /\ MayAct(u)
    /\ Receive(r, "UploadFile", "file:write", Storing(u, 1, "file:plan"))
    /\ UNCHANGED <<money, active, classroom, files>>

\* The row, or the insert fails.
FileRow(r, step, table) ==
  LET t == task[r]
  IN  /\ At(r, step)
      /\ \/ Goto(r, "file:clean") /\ UNCHANGED filed
         \/ Return(r) /\ filed' = filed \cup Rows(t, table, t.user)
      /\ UNCHANGED <<money, active, classroom, disk>>

CreateUpload(r) == FileRow(r, "file:upload", "uploads")

AddFile(r) == FileRow(r, "file:plan", "milestone_files")

\* Whoever has uploaded it, or the admin.
DeleteFile(r) ==
  \E u \in Users, x \in filed :
    /\ x.table = "milestone_files" /\ (u = x.of \/ u = Staff) /\ MayAct(u)
    /\ Receive(r, "DeleteFile", "file:unlist", [row |-> x])
    /\ UNCHANGED <<money, active, classroom, files>>

\* DELETE, unless another request has deleted the row ...
DeleteFileRow(r) ==
  LET x == task[r].row
  IN  /\ At(r, "file:unlist")
      /\ IF x \in filed THEN Goto(r, "file:remove") /\ filed' = filed \ {x}
         ELSE Return(r) /\ UNCHANGED filed
      /\ UNCHANGED <<money, active, classroom, disk>>

\* ... and then the file.
RemoveFile(r) ==
  /\ At(r, "file:remove")
  /\ Return(r)
  /\ disk' = disk \ {task[r].row.file}
  /\ UNCHANGED <<money, active, classroom, filed>>

-----------------------------------------------------------------------------
FilesStep(r) ==
  \/ WriteFile(r) \/ CheckFile(r) \/ CleanFiles(r)
  \/ CreateUpload(r) \/ AddFile(r) \/ DeleteFileRow(r) \/ RemoveFile(r)

UploadRequest(r) == Upload(r)

PlanRequest(r) == UploadFile(r)

DeleteRequest(r) == DeleteFile(r)

FilesNext ==
  \E r \in Requests :
    FilesStep(r) \/ UploadRequest(r) \/ PlanRequest(r) \/ DeleteRequest(r)
=============================================================================

------------------------------ MODULE Documents ------------------------------
(***************************************************************************)
(* DocumentsService, StorageService and the documents section of a profile *)
(* (documents-section.tsx): one employee's files, looked at by one person  *)
(* whose access to them comes and goes.                                    *)
(*                                                                         *)
(* A handler awaits between its checks, the disk and the database.  Bytes  *)
(* are in the storage directory, rows in the documents table, and there is *)
(* no transaction over both.                                               *)
(* Whether the scope of the permission a request needs reaches the         *)
(* employee is one question here, for every permission of the controller.  *)
(***************************************************************************)
EXTENDS Naturals, FiniteSets

CONSTANTS
  Files,          \* uploads, each with a storage key of its own
  Confidential,   \* those uploaded with isConfidential
  Refused,        \* those of a type not in ALLOWED_MIME_TYPES
  Calls,          \* bound: requests of the page that may be under way at once
  MaxChanges,     \* bound: changes of what the person may see
  MaxFaults       \* bound: requests that die in the API

VARIABLES
  stored,     \* the files in the storage directory
  row,        \* the documents table; deletedAt makes a row "archived"
  visible,    \* the employee is within the person's scope
  cleared,    \* the person holds document:read_confidential
  call,       \* the requests under way
  shown,      \* the documents the page lists
  uploading,  \* the upload button is disabled
  removed,    \* what this page was told it had removed
  excused,    \* two lists of the page were under way together, or one failed
  changes, faults

page == <<shown, uploading, removed, excused>>
vars == <<stored, row, visible, cleared, call, page, changes, faults>>

Live == {f \in Files : row[f] = "live"}

Kind == {"none", "list", "upload", "download", "archive"}
Stage == {"none", "asked", "found", "allowed", "resolved", "saved", "ok", "error"}

\* A request: on which file, how far it is, whether the scope that was resolved
\* shows confidential files, whether the person had it at any time since the
\* request was made, and the files in the answer.
Free == [kind |-> "none", on |-> {}, stage |-> "none", sees |-> FALSE, had |-> FALSE,
         files |-> {}]

TypeOK ==
  /\ stored \subseteq Files
  /\ row \in [Files -> {"none", "live", "archived"}]
  /\ visible \in BOOLEAN /\ cleared \in BOOLEAN
  /\ call \in [Calls -> [kind : Kind, on : SUBSET Files, stage : Stage, sees : BOOLEAN,
                         had : BOOLEAN, files : SUBSET Files]]
  /\ shown \subseteq Files /\ removed \subseteq Files
  /\ uploading \in BOOLEAN /\ excused \in BOOLEAN
  /\ changes \in 0..MaxChanges /\ faults \in 0..MaxFaults

Asked(kind, on) ==
  [Free EXCEPT !.kind = kind, !.on = on, !.stage = "asked", !.had = cleared]

\* The page is mounted over what was uploaded before, and loads it.
Init ==
  /\ stored \in SUBSET (Files \ Refused)
  /\ row = [f \in Files |-> IF f \in stored THEN "live" ELSE "none"]
  /\ visible = TRUE /\ cleared \in BOOLEAN
  /\ call = [[c \in Calls |-> Free] EXCEPT ![CHOOSE c \in Calls : TRUE] = Asked("list", {})]
  /\ shown = {} /\ uploading = FALSE /\ removed = {} /\ excused = FALSE
  /\ changes = 0 /\ faults = 0

At(c, kind, stage) == call[c].kind = kind /\ call[c].stage = stage
GoTo(c, stage) == call' = [call EXCEPT ![c].stage = stage]
Listing(calls) == \E c \in calls : call[c].kind = "list"
-----------------------------------------------------------------------------
(* What the person may see changes: scopes are resolved on every request *)

Change ==
  /\ changes < MaxChanges /\ changes' = changes + 1
  /\ \/ visible' = ~visible /\ UNCHANGED <<cleared, call>>
     \/ /\ cleared' = ~cleared
        /\ call' = [c \in Calls |-> IF call[c] = Free THEN Free
                                    ELSE [call[c] EXCEPT !.had = @ \/ cleared']]
        /\ UNCHANGED visible
  /\ UNCHANGED <<stored, row, page, faults>>
-----------------------------------------------------------------------------
(* DocumentsService *)

\* getForDownload and archive: the row is read first, and must be live.
Find(c) ==
  /\ \E kind \in {"download", "archive"} : At(c, kind, "asked")
  /\ GoTo(c, IF call[c].on \subseteq Live THEN "found" ELSE "error")
  /\ UNCHANGED <<stored, row, visible, cleared, page, changes, faults>>

\* assertEmployeeVisible, and the type of an upload.
assertEmployeeVisible(c) ==
  /\ \/ \E kind \in {"list", "upload"} : At(c, kind, "asked")
     \/ \E kind \in {"download", "archive"} : At(c, kind, "found")
  /\ GoTo(c, IF visible /\ (call[c].kind = "upload" => call[c].on \cap Refused = {})
             THEN "allowed" ELSE "error")
  /\ UNCHANGED <<stored, row, visible, cleared, page, changes, faults>>

\* resolveScope(..., 'document:read_confidential').
ResolveConfidential(c) ==
  /\ At(c, "list", "allowed") \/ At(c, "download", "allowed")
  /\ call' = [call EXCEPT ![c].stage = "resolved", ![c].sees = cleared]
  /\ UNCHANGED <<stored, row, visible, cleared, page, changes, faults>>

\* Mutant of Shareable: confidential files are left out of nothing.
MutantShareableAll(c) == Files

\* "Their existence alone can be sensitive": they are left out, not locked.
Shareable(c) == IF call[c].sees THEN Files ELSE Files \ Confidential

\* listForEmployee's query, and the stream of getForDownload.
Read(c) ==
  /\ call[c].kind \in {"list", "download"} /\ call[c].stage = "resolved"
  /\ LET files == Shareable(c) \cap (IF call[c].kind = "list" THEN Live ELSE call[c].on)
     IN  call' = [call EXCEPT
                    ![c].stage = IF call[c].kind = "download" /\ files = {} THEN "error" ELSE "ok",
                    ![c].files = files]
  /\ UNCHANGED <<stored, row, visible, cleared, page, changes, faults>>

\* Mutant of Save: the row is what the upload begins with.
MutantSaveRowFirst(c) ==
  /\ At(c, "upload", "allowed")
  /\ row' = [f \in Files |-> IF f \in call[c].on THEN "live" ELSE row[f]]
  /\ GoTo(c, "saved")
  /\ UNCHANGED <<stored, visible, cleared, page, changes, faults>>

\* upload(): storage.save, and then document.create.
Save(c) ==
  /\ At(c, "upload", "allowed")
  /\ stored' = stored \union call[c].on
  /\ GoTo(c, "saved")
  /\ UNCHANGED <<row, visible, cleared, page, changes, faults>>

CreateRow(c) ==
  /\ At(c, "upload", "saved")
  /\ row' = [f \in Files |-> IF f \in call[c].on THEN "live" ELSE row[f]]
  /\ GoTo(c, "ok")
  /\ UNCHANGED <<stored, visible, cleared, page, changes, faults>>

\* archive(): the row is marked, the file stays.
ArchiveRow(c) ==
  /\ At(c, "archive", "allowed")
  /\ row' = [f \in Files |-> IF f \in call[c].on THEN "archived" ELSE row[f]]
  /\ GoTo(c, "ok")
  /\ UNCHANGED <<stored, visible, cleared, page, changes, faults>>

\* The disk or the database fails, or the process dies: nothing is cleaned up.
Die(c) ==
  /\ faults < MaxFaults /\ faults' = faults + 1
  /\ call[c].stage \notin {"none", "ok", "error"}
  /\ GoTo(c, "error")
  /\ UNCHANGED <<stored, row, visible, cleared, page, changes>>
-----------------------------------------------------------------------------
(* The page *)

\* handleUpload: one at a time, of a file that was not uploaded before.
HandleUpload(c, f) ==
  /\ call[c] = Free /\ ~uploading
  /\ row[f] = "none" /\ f \notin stored
  /\ call' = [call EXCEPT ![c] = Asked("upload", {f})]
  /\ uploading' = TRUE
  /\ UNCHANGED <<stored, row, visible, cleared, shown, removed, excused, changes, faults>>

\* handleDelete: the section offers it on what it lists, at any time.
HandleDelete(c, f) ==
  /\ call[c] = Free /\ f \in shown
  /\ call' = [call EXCEPT ![c] = Asked("archive", {f})]
  /\ UNCHANGED <<stored, row, visible, cleared, page, changes, faults>>

Download(c, f) ==
  /\ call[c] = Free /\ f \in shown
  /\ call' = [call EXCEPT ![c] = Asked("download", {f})]
  /\ UNCHANGED <<stored, row, visible, cleared, page, changes, faults>>

\* Mutant of Answered: a removal is not followed by a load.
MutantAnsweredNoLoad(c) ==
  /\ call' = [call EXCEPT ![c] = IF call[c].kind = "upload" THEN Asked("list", {}) ELSE Free]
  /\ UNCHANGED excused

\* After an upload or a removal the list is loaded again.
Answered(c) ==
  /\ call' = [call EXCEPT ![c] =
       IF call[c].kind \in {"upload", "archive"} THEN Asked("list", {}) ELSE Free]
  /\ excused' = (excused \/ (call[c].kind \in {"upload", "archive"} /\ Listing(Calls)))

Receive(c) ==
  /\ call[c].stage = "ok"
  /\ Answered(c)
  /\ shown' = IF call[c].kind = "list" THEN call[c].files ELSE shown
  /\ removed' = IF call[c].kind = "archive" THEN removed \union call[c].on ELSE removed
  /\ uploading' = (uploading /\ call[c].kind # "upload")
  /\ UNCHANGED <<stored, row, visible, cleared, changes, faults>>

\* The catch blocks show the message; what is listed stays.
Catch(c) ==
  /\ call[c].stage = "error"
  /\ call' = [call EXCEPT ![c] = Free]
  /\ uploading' = (uploading /\ call[c].kind # "upload")
  /\ excused' = (excused \/ call[c].kind = "list")
  /\ UNCHANGED <<stored, row, visible, cleared, shown, removed, changes, faults>>

Next ==
  \/ Change
  \/ \E c \in Calls :
       \/ Find(c) \/ assertEmployeeVisible(c) \/ ResolveConfidential(c) \/ Read(c)
       \/ Save(c) \/ CreateRow(c) \/ ArchiveRow(c) \/ Die(c)
       \/ Receive(c) \/ Catch(c)
       \/ \E f \in Files : HandleUpload(c, f) \/ HandleDelete(c, f) \/ Download(c, f)

Spec == Init /\ [][Next]_vars
-----------------------------------------------------------------------------
\* "The metadata row is the source of truth": every row, archived or not, has
\* its file, so that a download that passed its checks finds the bytes.
FilesBehindRows == \A f \in Files : row[f] # "none" => f \in stored

\* A file no row points to belongs to an upload under way, or to one that died.
OrphansNeedAFault ==
  \A f \in stored : row[f] = "none" =>
    faults > 0 \/ \E c \in Calls : call[c].kind = "upload" /\ f \in call[c].on

\* A confidential file is answered, and listed, only for a request during which
\* the person held document:read_confidential.
ConfidentialKept ==
  \A c \in Calls : call[c].files \cap Confidential # {} => call[c].had

\* Unless two lists were under way together, whose answers may come in either
\* order, or one failed, what this page removed is not listed when nothing is
\* under way.
RemovedIsGone ==
  (\A c \in Calls : call[c] = Free) /\ ~excused => shown \cap removed = {}
=============================================================================

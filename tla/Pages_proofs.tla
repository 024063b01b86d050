---------------------------- MODULE Pages_proofs ----------------------------
(***************************************************************************)
(* Proofs about Pages, for any number of calls, notices, files, editors    *)
(* and jobs: an invariant for each of the three places, one lemma for each *)
(* part of it, and the frame that what is not looked at stays as it is.    *)
(***************************************************************************)
EXTENDS Pages, TLAPS, FiniteSetTheorems

-----------------------------------------------------------------------------
(* The documents of a profile *)

Known == {f \in Files : row[f] # "none"}

\* What is listed, answered or asked about has a row, and what was removed is
\* archived.
RowsKnown ==
  /\ shown \subseteq Known
  /\ \A f \in removed : row[f] = "archived"
  /\ \A c \in Calls :
       /\ documentCall[c].files \subseteq Known
       /\ documentCall[c].kind \in {"download", "archive"}
            => documentCall[c].on \subseteq Known
       /\ Section!At(c, "archive", "ok")
            => \A f \in documentCall[c].on : row[f] = "archived"

\* One upload at a time; its file comes before its row.
Uploads ==
  /\ \A c, d \in Calls :
       documentCall[c].kind = "upload" /\ documentCall[d].kind = "upload" => c = d
  /\ \A c \in Calls : documentCall[c].kind = "upload" =>
       /\ uploading
       /\ documentCall[c].stage \in {"asked", "allowed", "saved", "ok", "error"}
       /\ documentCall[c].stage \in {"asked", "allowed"}
            => documentCall[c].on \cap stored = {}
       /\ documentCall[c].stage = "error"
            => documentFaults > 0 \/ documentCall[c].on \cap stored = {}
       /\ documentCall[c].stage \in {"asked", "allowed", "saved"}
            => documentCall[c].on \cap Known = {}
       /\ documentCall[c].stage = "saved" => documentCall[c].on \subseteq stored
       /\ documentCall[c].stage = "ok" => documentCall[c].on \subseteq Known

\* A request has been under way while the person held what it was answered by.
Cleared ==
  \A c \in Calls :
    /\ documentCall[c].kind = "none" => documentCall[c] = Section!Free
    /\ documentCall[c].kind # "none" /\ cleared => documentCall[c].had
    /\ documentCall[c].sees => documentCall[c].had

\* Of what was removed, a list that answers after the removal shows nothing.
ListsFresh ==
  ~excused =>
    /\ \A c \in Calls :
         Section!At(c, "list", "ok") => documentCall[c].files \cap removed = {}
    /\ ~Section!Listing(Calls) => shown \cap removed = {}

SectionInv ==
  /\ Section!TypeOK /\ DocumentsKept
  /\ RowsKnown /\ Uploads /\ Cleared /\ ListsFresh

-----------------------------------------------------------------------------
(* What each action of the section does to the requests *)

\* What TypeOK says of one request of the section.
LEMMA CallFields ==
  ASSUME Section!TypeOK, NEW c \in Calls
  PROVE  /\ documentCall[c].kind \in Section!Kind
         /\ documentCall[c].stage \in Section!Stage
         /\ documentCall[c].on \subseteq Files /\ documentCall[c].files \subseteq Files
         /\ documentCall[c].sees \in BOOLEAN /\ documentCall[c].had \in BOOLEAN
BY DEF Section!TypeOK

\* A request goes to its next stage, in most actions.
Moves(c) ==
  \/ Section!Find(c) \/ Section!assertEmployeeVisible(c) \/ Section!Save(c)
  \/ Section!CreateRow(c) \/ Section!ArchiveRow(c) \/ Section!Die(c)

\* A request that moves on keeps what it asks for, and touches no other.
LEMMA MoveFields ==
  ASSUME Section!TypeOK, NEW c \in Calls, Moves(c)
  PROVE  /\ documentCall[c].kind # "none" \/ documentCall[c].stage # "none"
         /\ \A d \in Calls :
              /\ documentCall'[d].stage =
                   IF d = c THEN documentCall'[c].stage ELSE documentCall[d].stage
              /\ d # c => documentCall'[d] = documentCall[d]
              /\ documentCall'[d].kind = documentCall[d].kind
              /\ documentCall'[d].on = documentCall[d].on
              /\ documentCall'[d].files = documentCall[d].files
              /\ documentCall'[d].sees = documentCall[d].sees
              /\ documentCall'[d].had = documentCall[d].had
         /\ UNCHANGED <<visible, cleared, shown, uploading, removed, excused, changes>>
<1>1. PICK stage : Section!GoTo(c, stage)
  BY DEF Moves, Section!Find, Section!assertEmployeeVisible, Section!Save,
         Section!CreateRow, Section!ArchiveRow, Section!Die
<1>2. \A d \in Calls :
              /\ documentCall'[d].stage = IF d = c THEN stage ELSE documentCall[d].stage
              /\ d # c => documentCall'[d] = documentCall[d]
              /\ documentCall'[d].kind = documentCall[d].kind
              /\ documentCall'[d].on = documentCall[d].on
              /\ documentCall'[d].files = documentCall[d].files
              /\ documentCall'[d].sees = documentCall[d].sees
              /\ documentCall'[d].had = documentCall[d].had
  BY <1>1 DEF Section!TypeOK, Section!GoTo
<1> QED
  BY <1>2 DEF Moves, Section!Find, Section!assertEmployeeVisible, Section!Save,
         Section!CreateRow, Section!ArchiveRow, Section!Die, Section!page, Section!At

\* The other ways a request changes.
LEMMA ResolveFields ==
  ASSUME Section!TypeOK, NEW c \in Calls, Section!ResolveConfidential(c)
  PROVE  /\ documentCall'[c].sees = cleared /\ documentCall'[c].stage = "resolved"
         /\ documentCall'[c].kind = documentCall[c].kind
         /\ documentCall'[c].on = documentCall[c].on
         /\ documentCall'[c].files = documentCall[c].files
         /\ documentCall'[c].had = documentCall[c].had
         /\ documentCall[c].kind \in {"list", "download"}
         /\ \A d \in Calls : d # c => documentCall'[d] = documentCall[d]
         /\ UNCHANGED <<stored, row, cleared, shown, uploading, removed, excused,
                        documentFaults>>
BY DEF Section!TypeOK, Section!ResolveConfidential, Section!At, Section!page

\* Read answers with the files the caller may see, and changes nothing else.
LEMMA ReadFields ==
  ASSUME Section!TypeOK, NEW c \in Calls, Section!Read(c)
  PROVE  /\ documentCall'[c].stage \in {"ok", "error"}
         /\ documentCall'[c].files = Section!Shareable(c) \cap
              (IF documentCall[c].kind = "list" THEN Section!Live ELSE documentCall[c].on)
         /\ documentCall'[c].kind = documentCall[c].kind
         /\ documentCall'[c].on = documentCall[c].on
         /\ documentCall'[c].sees = documentCall[c].sees
         /\ documentCall'[c].had = documentCall[c].had
         /\ documentCall[c].kind \in {"list", "download"}
         /\ \A d \in Calls : d # c => documentCall'[d] = documentCall[d]
         /\ UNCHANGED <<stored, row, cleared, shown, uploading, removed, excused,
                        documentFaults>>
BY DEF Section!TypeOK, Section!Read, Section!page

\* A request slot that is free.
LEMMA FreeFields ==
  /\ Section!Free.kind = "none" /\ Section!Free.stage = "none" /\ Section!Free.files = {}
  /\ Section!Free.on = {} /\ Section!Free.sees = FALSE /\ Section!Free.had = FALSE
BY DEF Section!Free

\* A request as the page sends it.
LEMMA AskedFields ==
  ASSUME NEW kind, NEW on
  PROVE  /\ Section!Asked(kind, on).kind = kind /\ Section!Asked(kind, on).on = on
         /\ Section!Asked(kind, on).stage = "asked" /\ Section!Asked(kind, on).files = {}
         /\ Section!Asked(kind, on).sees = FALSE
         /\ Section!Asked(kind, on).had = cleared
BY DEF Section!Asked, Section!Free

\* Writing one slot leaves the others.
LEMMA Replaced ==
  ASSUME Section!TypeOK, NEW c \in Calls, NEW with,
         documentCall' = [documentCall EXCEPT ![c] = with]
  PROVE  /\ documentCall'[c] = with
         /\ \A d \in Calls : d # c => documentCall'[d] = documentCall[d]
BY DEF Section!TypeOK

\* A change of grants or of the label moves no request; it only records who has
\* come to hold the permission.
LEMMA ChangeFields ==
  ASSUME Section!TypeOK, Section!Change
  PROVE  /\ \A d \in Calls :
              /\ documentCall'[d].stage = documentCall[d].stage
              /\ documentCall'[d].kind = documentCall[d].kind
              /\ documentCall'[d].on = documentCall[d].on
              /\ documentCall'[d].files = documentCall[d].files
              /\ documentCall'[d].sees = documentCall[d].sees
              /\ documentCall[d] = Section!Free => documentCall'[d] = Section!Free
              /\ documentCall[d] # Section!Free =>
                   (documentCall'[d].had <=>
                      documentCall[d].had \/ (cleared' /\ ~cleared))
         /\ UNCHANGED <<stored, row, shown, uploading, removed, excused, documentFaults>>
<1>1. UNCHANGED <<stored, row, shown, uploading, removed, excused, documentFaults>>
  BY DEF Section!Change, Section!page
<1>2. CASE UNCHANGED <<cleared, documentCall>>
  BY <1>1, <1>2, CallFields
<1>3. CASE /\ cleared' = ~cleared
           /\ documentCall' = [c \in Calls |->
                                 IF documentCall[c] = Section!Free THEN Section!Free
                                 ELSE [documentCall[c] EXCEPT !.had = @ \/ cleared']]
  <2>1. ASSUME NEW d \in Calls, documentCall[d] = Section!Free
        PROVE  documentCall'[d] = Section!Free
    BY <1>3, <2>1
  <2>2. ASSUME NEW d \in Calls, documentCall[d] # Section!Free
        PROVE  /\ documentCall'[d].stage = documentCall[d].stage
               /\ documentCall'[d].kind = documentCall[d].kind
               /\ documentCall'[d].on = documentCall[d].on
               /\ documentCall'[d].files = documentCall[d].files
               /\ documentCall'[d].sees = documentCall[d].sees
               /\ documentCall'[d].had <=> documentCall[d].had \/ cleared'
    BY <1>3, <2>2 DEF Section!TypeOK
  <2> QED
    BY <1>1, <1>3, <2>1, <2>2
<1> QED
  BY <1>2, <1>3 DEF Section!Change

\* A request the page makes, or one it is done with.
Starts(c, f) ==
  Section!HandleUpload(c, f) \/ Section!HandleDelete(c, f) \/ Section!Download(c, f)
Ends(c) == Section!Receive(c) \/ Section!Catch(c)

\* What Starts and Ends do to the slots.
LEMMA NewCall ==
  ASSUME Section!TypeOK, NEW c \in Calls, Ends(c) \/ \E f \in Files : Starts(c, f)
  PROVE  /\ \/ documentCall'[c] = Section!Free
            \/ \E kind \in Section!Kind \ {"none"}, on \in SUBSET Files :
                 documentCall'[c] = Section!Asked(kind, on)
         /\ documentCall' = [documentCall EXCEPT ![c] = documentCall'[c]]
         /\ \A d \in Calls : d # c => documentCall'[d] = documentCall[d]
         /\ UNCHANGED <<stored, row, visible, cleared, changes, documentFaults>>
<1>1. UNCHANGED <<stored, row, visible, cleared, changes, documentFaults>>
  BY DEF Ends, Starts, Section!Receive, Section!Catch, Section!HandleUpload,
         Section!HandleDelete, Section!Download, Section!page
<1>2. PICK with : /\ documentCall' = [documentCall EXCEPT ![c] = with]
                  /\ \/ with = Section!Free
                     \/ \E kind \in Section!Kind \ {"none"}, on \in SUBSET Files :
                          with = Section!Asked(kind, on)
  <2>1. {"list", "upload", "archive", "download"} \subseteq Section!Kind \ {"none"}
    BY DEF Section!Kind
  <2>2. \A f \in Files : {f} \in SUBSET Files
    OBVIOUS
  <2> QED
    BY <2>1, <2>2 DEF Ends, Starts, Section!Receive, Section!Catch, Section!Answered,
         Section!HandleUpload, Section!HandleDelete, Section!Download
<1> QED
  BY <1>1, <1>2, Replaced

Calling == [kind : Section!Kind, on : SUBSET Files, stage : Section!Stage,
            sees : BOOLEAN, had : BOOLEAN, files : SUBSET Files]

\* Every step of the section keeps its types.
LEMMA SectionTypes ==
  ASSUME Section!TypeOK, Section!Next
  PROVE  Section!TypeOK'
<1>0. /\ MaxFaults \in Nat /\ MaxChanges \in Nat /\ cleared \in BOOLEAN
      /\ Section!Free \in Calling
      /\ \A kind \in Section!Kind, on \in SUBSET Files :
           Section!Asked(kind, on) \in Calling
  BY PagesAssumption
  DEF Section!TypeOK, Section!Free, Section!Asked, Section!Kind, Section!Stage, Calling
<1>1. CASE Section!Change
  <2>1. documentCall' \in [Calls -> Calling]
    <3>1. \A r \in Calling : [r EXCEPT !.had = @ \/ cleared'] \in Calling
      BY DEF Calling
    <3>2. documentCall \in [Calls -> Calling]
      BY DEF Section!TypeOK, Calling
    <3> QED
      BY <1>0, <1>1, <3>1, <3>2 DEF Section!Change
  <2>2. changes' \in 0..MaxChanges
    BY <1>0, <1>1 DEF Section!TypeOK, Section!Change
  <2>3. visible' \in BOOLEAN /\ cleared' \in BOOLEAN
    BY <1>1, Zenon DEF Section!TypeOK, Section!Change
  <2> QED
    BY <1>1, <2>1, <2>2, <2>3, ChangeFields DEF Section!TypeOK, Calling
<1>2. ASSUME NEW c \in Calls, Moves(c) PROVE Section!TypeOK'
  BY <1>0, <1>2
  DEF Section!TypeOK, Moves, Section!Find, Section!assertEmployeeVisible, Section!Save,
      Section!CreateRow, Section!ArchiveRow, Section!Die, Section!page, Section!At,
      Section!GoTo, Section!Stage
<1>3. ASSUME NEW c \in Calls, Section!ResolveConfidential(c) \/ Section!Read(c)
      PROVE  Section!TypeOK'
  BY <1>0, <1>3 DEF Section!TypeOK, Section!ResolveConfidential, Section!Read,
         Section!page, Section!Stage, Section!Shareable, Section!Live
<1>4. ASSUME NEW c \in Calls, Ends(c) \/ \E f \in Files : Starts(c, f)
      PROVE  Section!TypeOK'
  <2>1. documentCall' \in [Calls -> Calling]
    BY <1>0, <1>4, NewCall DEF Section!TypeOK, Calling
  <2>2. /\ shown' \subseteq Files /\ removed' \subseteq Files
        /\ uploading' \in BOOLEAN /\ excused' \in BOOLEAN
    BY <1>4, CallFields
    DEF Section!TypeOK, Ends, Starts, Section!Receive, Section!Catch, Section!Answered,
        Section!HandleUpload, Section!HandleDelete, Section!Download, Section!page
  <2> QED
    BY <1>4, <2>1, <2>2, NewCall DEF Section!TypeOK, Calling
<1> QED
  BY <1>1, <1>2, <1>3, <1>4 DEF Section!Next, Moves, Ends, Starts

\* A confidential file is answered only to who held the permission meanwhile.
LEMMA ClearedKept ==
  ASSUME Section!TypeOK, Cleared, Section!ConfidentialKept, Section!Next
  PROVE  Cleared' /\ Section!ConfidentialKept'
<1>1. CASE Section!Change
  BY <1>1, ChangeFields, CallFields, FreeFields
  DEF Cleared, Section!ConfidentialKept, Section!TypeOK
<1>2. ASSUME NEW c \in Calls, Moves(c) PROVE Cleared' /\ Section!ConfidentialKept'
  BY <1>2, MoveFields, FreeFields DEF Cleared, Section!ConfidentialKept
<1>3. ASSUME NEW c \in Calls, Section!ResolveConfidential(c)
      PROVE  Cleared' /\ Section!ConfidentialKept'
  BY <1>3, ResolveFields, FreeFields DEF Cleared, Section!ConfidentialKept
<1>4. ASSUME NEW c \in Calls, Section!Read(c)
      PROVE  Cleared' /\ Section!ConfidentialKept'
  BY <1>4, ReadFields, FreeFields DEF Cleared, Section!ConfidentialKept, Section!Shareable
<1>5. ASSUME NEW c \in Calls, Ends(c) \/ \E f \in Files : Starts(c, f)
      PROVE  Cleared' /\ Section!ConfidentialKept'
  <2>1. /\ documentCall'[c].files = {} /\ documentCall'[c].sees = FALSE
        /\ \/ documentCall'[c] = Section!Free
           \/ documentCall'[c].kind # "none" /\ documentCall'[c].had = cleared
    <3>1. ASSUME NEW kind \in Section!Kind \ {"none"}, NEW on \in SUBSET Files,
                 documentCall'[c] = Section!Asked(kind, on)
          PROVE  /\ documentCall'[c].files = {} /\ documentCall'[c].sees = FALSE
                 /\ documentCall'[c].kind # "none" /\ documentCall'[c].had = cleared
      BY <3>1 DEF Section!Asked, Section!Free
    <3> QED
      BY <1>5, <3>1, NewCall, FreeFields
  <2> QED
    BY <1>5, <2>1, NewCall, FreeFields DEF Cleared, Section!ConfidentialKept
<1> QED
  BY <1>1, <1>2, <1>3, <1>4, <1>5 DEF Section!Next, Moves, Ends, Starts

\* A request that starts: an upload takes the button and a new file name.
LEMMA StartFields ==
  ASSUME Section!TypeOK, NEW c \in Calls, NEW f \in Files, Starts(c, f)
  PROVE  /\ documentCall[c] = Section!Free
         /\ documentCall'[c].kind \in {"upload", "archive", "download"}
         /\ documentCall'[c].on = {f} /\ documentCall'[c].stage = "asked"
         /\ documentCall'[c].files = {}
         /\ documentCall'[c].kind = "upload" =>
              ~uploading /\ uploading' /\ row[f] = "none" /\ f \notin stored
         /\ documentCall'[c].kind # "upload" => uploading' = uploading /\ f \in shown
         /\ UNCHANGED <<shown, removed, excused>>
<1>1. CASE Section!HandleUpload(c, f)
  <2>1. documentCall'[c] = Section!Asked("upload", {f})
    BY <1>1, Replaced DEF Section!HandleUpload
  <2>2. /\ documentCall'[c].kind = "upload" /\ documentCall'[c].on = {f}
        /\ documentCall'[c].stage = "asked" /\ documentCall'[c].files = {}
    BY <2>1 DEF Section!Asked, Section!Free
  <2> QED
    BY <1>1, <2>2 DEF Section!HandleUpload
<1>2. CASE Section!HandleDelete(c, f)
  <2>1. documentCall'[c] = Section!Asked("archive", {f})
    BY <1>2, Replaced DEF Section!HandleDelete
  <2>2. /\ documentCall'[c].kind = "archive" /\ documentCall'[c].on = {f}
        /\ documentCall'[c].stage = "asked" /\ documentCall'[c].files = {}
    BY <2>1 DEF Section!Asked, Section!Free
  <2> QED
    BY <1>2, <2>2 DEF Section!HandleDelete, Section!page
<1>3. CASE Section!Download(c, f)
  <2>1. documentCall'[c] = Section!Asked("download", {f})
    BY <1>3, Replaced DEF Section!Download
  <2>2. /\ documentCall'[c].kind = "download" /\ documentCall'[c].on = {f}
        /\ documentCall'[c].stage = "asked" /\ documentCall'[c].files = {}
    BY <2>1 DEF Section!Asked, Section!Free
  <2> QED
    BY <1>3, <2>2 DEF Section!Download, Section!page
<1> QED
  BY <1>1, <1>2, <1>3 DEF Starts

\* A request the page is done with: what becomes of the list and the button.
LEMMA EndFields ==
  ASSUME Section!TypeOK, NEW c \in Calls, Ends(c)
  PROVE  /\ documentCall'[c].files = {} /\ documentCall'[c].on = {}
         /\ \/ documentCall'[c].kind = "none"
            \/ documentCall'[c].kind = "list" /\ documentCall'[c].stage = "asked"
         /\ \/ /\ documentCall[c].stage = "ok"
               /\ documentCall[c].kind \in {"upload", "archive"}
                    => /\ documentCall'[c].kind = "list"
                       /\ Section!Listing(Calls) => excused'
               /\ shown' = IF documentCall[c].kind = "list" THEN documentCall[c].files
                           ELSE shown
               /\ removed' = IF documentCall[c].kind = "archive"
                             THEN removed \union documentCall[c].on ELSE removed
            \/ /\ documentCall[c].stage = "error" /\ UNCHANGED <<shown, removed>>
               /\ documentCall[c].kind = "list" => excused'
         /\ uploading' <=> uploading /\ documentCall[c].kind # "upload"
         /\ excused => excused'
<1>1. CASE Section!Receive(c)
  <2>1. documentCall'[c] = IF documentCall[c].kind \in {"upload", "archive"}
                           THEN Section!Asked("list", {}) ELSE Section!Free
    BY <1>1, Replaced DEF Section!Receive, Section!Answered
  <2>2. /\ documentCall'[c].files = {} /\ documentCall'[c].on = {}
        /\ IF documentCall[c].kind \in {"upload", "archive"}
           THEN documentCall'[c].kind = "list" /\ documentCall'[c].stage = "asked"
           ELSE documentCall'[c].kind = "none"
    BY <2>1 DEF Section!Asked, Section!Free
  <2> QED
    BY <1>1, <2>2 DEF Section!Receive, Section!Answered
<1>2. CASE Section!Catch(c)
  <2>1. documentCall'[c] = Section!Free
    BY <1>2, Replaced DEF Section!Catch
  <2> QED
    BY <1>2, <2>1, FreeFields DEF Section!Catch
<1> QED
  BY <1>1, <1>2 DEF Ends

\* No step makes a row without its file: the file is written first and never
\* removed.
LEMMA RowsKept ==
  ASSUME Section!TypeOK, RowsKnown, Uploads, Section!FilesBehindRows, Section!Next
  PROVE  RowsKnown' /\ Section!FilesBehindRows'
<1>1. CASE Section!Change
  BY <1>1, ChangeFields DEF RowsKnown, Known, Section!FilesBehindRows, Section!At
<1>2. ASSUME NEW c \in Calls, Moves(c)
      PROVE  RowsKnown' /\ Section!FilesBehindRows'
  <2> USE CallFields, MoveFields DEF RowsKnown, Known, Section!FilesBehindRows, Section!At
  <2>1. CASE Section!Find(c) \/ Section!assertEmployeeVisible(c) \/ Section!Die(c)
    <3>1. documentCall'[c].stage # "ok" /\ UNCHANGED <<row, stored>>
      BY <2>1 DEF Section!TypeOK, Section!Find, Section!assertEmployeeVisible,
             Section!Die, Section!GoTo
    <3> QED
      BY <1>2, <3>1
  <2>2. CASE Section!Save(c)
    BY <1>2, <2>2 DEF Section!TypeOK, Section!Save
  <2>3. CASE Section!CreateRow(c)
    BY <1>2, <2>3 DEF Section!TypeOK, Section!CreateRow, Uploads
  <2>4. CASE Section!ArchiveRow(c)
    BY <1>2, <2>4 DEF Section!TypeOK, Section!ArchiveRow
  <2> QED
    BY <1>2, <2>1, <2>2, <2>3, <2>4 DEF Moves
<1>3. ASSUME NEW c \in Calls, Section!ResolveConfidential(c)
      PROVE  RowsKnown' /\ Section!FilesBehindRows'
  BY <1>3, ResolveFields DEF RowsKnown, Known, Section!FilesBehindRows, Section!At
<1>4. ASSUME NEW c \in Calls, Section!Read(c)
      PROVE  RowsKnown' /\ Section!FilesBehindRows'
  BY <1>4, ReadFields
  DEF RowsKnown, Known, Section!FilesBehindRows, Section!At, Section!Live
<1>5. ASSUME NEW c \in Calls, Ends(c)
      PROVE  RowsKnown' /\ Section!FilesBehindRows'
  BY <1>5, EndFields, NewCall DEF RowsKnown, Known, Section!FilesBehindRows, Section!At
<1>6. ASSUME NEW c \in Calls, NEW f \in Files, Starts(c, f)
      PROVE  RowsKnown' /\ Section!FilesBehindRows'
  BY <1>6, StartFields, NewCall DEF RowsKnown, Known, Section!FilesBehindRows, Section!At
<1> QED
  BY <1>1, <1>2, <1>3, <1>4, <1>5, <1>6 DEF Section!Next, Moves, Ends, Starts

\* A file without a row belongs to the upload under way, or to one that failed.
LEMMA UploadsKept ==
  ASSUME Section!TypeOK, RowsKnown, Uploads, Section!OrphansNeedAFault, Section!Next
  PROVE  Uploads' /\ Section!OrphansNeedAFault'
<1>1. CASE Section!Change
  BY <1>1, ChangeFields DEF Uploads, Known, Section!OrphansNeedAFault
<1>2. ASSUME NEW c \in Calls, Moves(c)
      PROVE  Uploads' /\ Section!OrphansNeedAFault'
  <2> USE CallFields, MoveFields DEF Uploads, Known, Section!OrphansNeedAFault, Section!At
  <2>1. CASE Section!Find(c) \/ Section!assertEmployeeVisible(c)
    <3>1. /\ UNCHANGED <<row, stored, documentFaults>>
          /\ documentCall[c].kind = "upload" =>
               /\ documentCall[c].stage = "asked"
               /\ documentCall'[c].stage \in {"allowed", "error"}
      BY <2>1
      DEF Section!TypeOK, Section!Find, Section!assertEmployeeVisible, Section!GoTo
    <3> QED
      BY <1>2, <3>1
  <2>2. CASE Section!Save(c)
    <3>1. /\ UNCHANGED <<row, documentFaults>>
          /\ stored' = stored \union documentCall[c].on
          /\ documentCall[c].kind = "upload" /\ documentCall[c].stage = "allowed"
          /\ documentCall'[c].stage = "saved"
      BY <2>2 DEF Section!TypeOK, Section!Save, Section!GoTo
    <3> QED
      BY <1>2, <3>1
  <2>3. CASE Section!CreateRow(c)
    <3>1. /\ UNCHANGED <<stored, documentFaults>>
          /\ row' = [f \in Files |-> IF f \in documentCall[c].on THEN "live" ELSE row[f]]
          /\ documentCall[c].kind = "upload" /\ documentCall'[c].stage = "ok"
      BY <2>3 DEF Section!TypeOK, Section!CreateRow, Section!GoTo
    <3>2. /\ \A f \in Files :
               row'[f] = "none" <=> row[f] = "none" /\ f \notin documentCall[c].on
          /\ Known' = Known \union documentCall[c].on
      BY <3>1
    <3> HIDE DEF Known
    <3>3. Section!OrphansNeedAFault'
      BY <1>2, <3>1, <3>2 DEF Section!TypeOK
    <3>4. Uploads'
      BY <1>2, <3>1, <3>2
    <3> QED
      BY <3>3, <3>4
  <2>4. CASE Section!ArchiveRow(c)
    <3>1. /\ UNCHANGED <<stored, documentFaults>> /\ documentCall[c].kind = "archive"
          /\ row' = [f \in Files |->
                       IF f \in documentCall[c].on THEN "archived" ELSE row[f]]
      BY <2>4 DEF Section!TypeOK, Section!ArchiveRow, Section!GoTo
    <3>2. (\A f \in Files : row'[f] = "none" <=> row[f] = "none") /\ Known' = Known
      BY <3>1 DEF RowsKnown
    <3>3. UNCHANGED <<stored, documentFaults>>
      BY <3>1
    <3> HIDE DEF Known
    <3>4. Section!OrphansNeedAFault'
      BY <1>2, <3>2, <3>3 DEF Section!TypeOK
    <3>5. Uploads'
      <4>1. documentCall[c].kind # "upload"
        BY <3>1
      <4> QED
        BY <1>2, <3>2, <3>3, <4>1
    <3> QED
      BY <3>4, <3>5
  <2>5. CASE Section!Die(c)
    <3>1. /\ UNCHANGED <<row, stored>> /\ documentFaults' > 0
          /\ documentCall'[c].stage = "error"
      BY <2>5, PagesAssumption DEF Section!TypeOK, Section!Die, Section!GoTo
    <3> QED
      BY <1>2, <3>1
  <2> QED
    BY <1>2, <2>1, <2>2, <2>3, <2>4, <2>5 DEF Moves
<1>3. ASSUME NEW c \in Calls, Section!ResolveConfidential(c)
      PROVE  Uploads' /\ Section!OrphansNeedAFault'
  BY <1>3, ResolveFields DEF Uploads, Known, Section!OrphansNeedAFault
<1>4. ASSUME NEW c \in Calls, Section!Read(c)
      PROVE  Uploads' /\ Section!OrphansNeedAFault'
  BY <1>4, ReadFields DEF Uploads, Known, Section!OrphansNeedAFault
<1>5. ASSUME NEW c \in Calls, Ends(c)
      PROVE  Uploads' /\ Section!OrphansNeedAFault'
  BY <1>5, EndFields, NewCall DEF Uploads, Known, Section!OrphansNeedAFault
<1>6. ASSUME NEW c \in Calls, NEW f \in Files, Starts(c, f)
      PROVE  Uploads' /\ Section!OrphansNeedAFault'
  BY <1>6, StartFields, NewCall, FreeFields DEF Uploads, Known, Section!OrphansNeedAFault
<1> QED
  BY <1>1, <1>2, <1>3, <1>4, <1>5, <1>6 DEF Section!Next, Moves, Ends, Starts

\* No step lets a list asked for after a removal show what was removed.
LEMMA ListsKept ==
  ASSUME Section!TypeOK, RowsKnown, ListsFresh, Section!Next
  PROVE  ListsFresh'
<1> USE DEF ListsFresh, Section!At, Section!Listing
<1>1. CASE Section!Change
  BY <1>1, ChangeFields
<1>2. ASSUME NEW c \in Calls, Moves(c)
      PROVE  ListsFresh'
  <2>1. documentCall'[c].stage = "ok" => documentCall[c].kind \in {"upload", "archive"}
    BY <1>2 DEF Moves, Section!TypeOK, Section!Find, Section!assertEmployeeVisible,
           Section!Save, Section!CreateRow, Section!ArchiveRow, Section!Die, Section!GoTo
  <2> QED
    BY <1>2, <2>1, MoveFields
<1>3. ASSUME NEW c \in Calls, Section!ResolveConfidential(c)
      PROVE  ListsFresh'
  BY <1>3, ResolveFields
<1>4. ASSUME NEW c \in Calls, Section!Read(c)
      PROVE  ListsFresh'
  <2>1. Section!Live \cap removed = {}
    BY DEF Section!Live, RowsKnown
  <2> QED
    BY <1>4, <2>1, ReadFields
<1>5. ASSUME NEW c \in Calls, Ends(c)
      PROVE  ListsFresh'
  BY <1>5, EndFields, NewCall
<1>6. ASSUME NEW c \in Calls, NEW f \in Files, Starts(c, f)
      PROVE  ListsFresh'
  BY <1>6, StartFields, NewCall, FreeFields
<1> QED
  BY <1>1, <1>2, <1>3, <1>4, <1>5, <1>6 DEF Section!Next, Moves, Ends, Starts

\* The invariant is stronger than what the section promises.
LEMMA NothingListed == ListsFresh => Section!RemovedIsGone
BY FreeFields DEF ListsFresh, Section!RemovedIsGone, Section!Listing

-----------------------------------------------------------------------------
(* The bell *)

\* Every listed or marked item was sent, and only a call under way has a kind.
BellInv ==
  /\ Bell!TypeOK /\ data.listed \subseteq sent
  /\ \A c \in Calls :
       /\ bellCall[c].on \subseteq sent /\ bellCall[c].items.listed \subseteq sent
       /\ bellCall[c].items.read \subseteq sent
       /\ bellCall[c].kind = "none" => bellCall[c] = Bell!Free

BellCall == [kind : Bell!Kind, on : SUBSET Notices, stage : Bell!Stage,
             items : Bell!Items, count : 0..Cardinality(Notices)]

\* What may be in a call when those notices have been sent.
Fine(r, notices) ==
  /\ r.on \subseteq notices /\ r.items.listed \subseteq notices
  /\ r.items.read \subseteq notices
  /\ r.kind = "none" => r = Bell!Free

\* Bell counts as the library does, whose facts can then be used.
LEMMA BellCardinality ==
  ASSUME NEW S
  PROVE  Bell!Cardinality(S) = Cardinality(S)
BY DEF Bell!Cardinality, Cardinality

\* What BellInv says of the parts of the bell.
LEMMA BellFacts ==
  ASSUME BellInv
  PROVE  /\ sent \subseteq Notices /\ readAt \subseteq sent
         /\ data \in Bell!Items /\ data.listed \subseteq sent
         /\ bellCall \in [Calls -> BellCall]
         /\ \A c \in Calls : bellCall[c] \in BellCall /\ Fine(bellCall[c], sent)
         /\ Cardinality(Notices) \in Nat
         /\ unreadCount \in 0..Cardinality(Notices)
         /\ Bell!Counted \in 0..Cardinality(Notices)
<1>1. sent \ readAt \subseteq Notices
  BY DEF BellInv, Bell!TypeOK
<1>2. /\ Cardinality(Notices) \in Nat /\ Cardinality(sent \ readAt) \in Nat
      /\ Cardinality(sent \ readAt) <= Cardinality(Notices)
  BY <1>1, PagesAssumption, FS_CardinalityType, FS_Subset
<1>3. Bell!Counted \in 0..Cardinality(Notices)
  BY <1>2, BellCardinality DEF Bell!Counted, Bell!Unread
<1>4. bellCall \in [Calls -> BellCall]
  BY BellCardinality DEF BellInv, Bell!TypeOK, BellCall
<1>5. \A c \in Calls : bellCall[c] \in BellCall /\ Fine(bellCall[c], sent)
  BY <1>4 DEF BellInv, Fine
<1> QED
  BY <1>2, <1>3, <1>4, <1>5, BellCardinality DEF BellInv, Bell!TypeOK

\* A call slot that is free, or as the bell fills it.
LEMMA NewBellCalls ==
  ASSUME BellInv
  PROVE  /\ Bell!Free \in BellCall /\ Fine(Bell!Free, sent)
         /\ \A kind \in Bell!Kind \ {"none"}, on \in SUBSET sent :
              Bell!Asked(kind, on) \in BellCall /\ Fine(Bell!Asked(kind, on), sent)
<1>1. Cardinality(Notices) \in Nat /\ sent \subseteq Notices
  BY BellFacts
<1>2. Bell!Free \in BellCall /\ Fine(Bell!Free, sent)
  BY <1>1 DEF Bell!Free, Bell!Kind, Bell!Stage, Bell!Items, Bell!NoItems, BellCall, Fine
<1>3. ASSUME NEW kind \in Bell!Kind \ {"none"}, NEW on \in SUBSET sent
      PROVE  Bell!Asked(kind, on) \in BellCall /\ Fine(Bell!Asked(kind, on), sent)
  <2>1. \A r \in BellCall :
          [r EXCEPT !.kind = kind, !.on = on, !.stage = "asked"] \in BellCall
    BY <1>1 DEF BellCall, Bell!Stage
  <2>2. Bell!Asked(kind, on) \in BellCall
    BY <1>2, <2>1 DEF Bell!Asked
  <2>3. Fine(Bell!Asked(kind, on), sent)
    BY DEF Bell!Asked, Bell!Free, Bell!NoItems, Fine
  <2> QED
    BY <2>2, <2>3
<1> QED
  BY <1>2, <1>3

\* A step that puts one call in another state.
LEMMA BellStep ==
  ASSUME BellInv, NEW c \in Calls, NEW with \in BellCall,
         bellCall' = [bellCall EXCEPT ![c] = with] \/ UNCHANGED bellCall,
         Fine(with, sent), UNCHANGED sent,
         readAt' \subseteq sent, data' \in Bell!Items, data'.listed \subseteq sent,
         open' \in BOOLEAN, busy' \in BOOLEAN,
         unreadCount' \in 0..Cardinality(Notices),
         clicks' \in 0..MaxClicks, bellFaults' \in 0..MaxFaults
  PROVE  BellInv'
<1>1. /\ bellCall' \in [Calls -> BellCall]
      /\ \A d \in Calls : Fine(bellCall'[d], sent)
  BY BellFacts
<1>2. sent \subseteq Notices
  BY BellFacts
<1>3. Bell!TypeOK'
  BY <1>1, <1>2, BellCardinality DEF Bell!TypeOK, BellCall
<1> QED
  BY <1>1, <1>3 DEF BellInv, Fine

\* One step for each action of the bell.
LEMMA BellKept ==
  ASSUME BellInv, Bell!Next
  PROVE  BellInv'
<1>0. /\ MaxClicks \in Nat /\ MaxFaults \in Nat /\ open \in BOOLEAN /\ busy \in BOOLEAN
      /\ clicks \in 0..MaxClicks /\ bellFaults \in 0..MaxFaults
  BY PagesAssumption DEF BellInv, Bell!TypeOK
<1>1. ASSUME NEW n \in Notices, Bell!Notify(n) PROVE BellInv'
  <2>1. UNCHANGED <<readAt, open, data, unreadCount, busy, bellCall, clicks, bellFaults>>
        /\ sent' = sent \union {n}
    BY <1>1 DEF Bell!Notify
  <2> QED
    BY <2>1 DEF BellInv, Bell!TypeOK
<1>2. ASSUME NEW c \in Calls,
             Bell!Count(c) \/ Bell!List(c) \/ Bell!Mark(c) \/ Bell!Lose(c)
      PROVE  BellInv'
  <2>1. PICK with \in BellCall :
          bellCall' = [bellCall EXCEPT ![c] = with] /\ Fine(with, sent)
    <3>0. bellCall[c] \in BellCall /\ Fine(bellCall[c], sent)
      BY BellFacts
    <3>1. ASSUME Bell!Count(c)
          PROVE  LET with == [bellCall[c] EXCEPT !.stage = bellCall'[c].stage,
                                                 !.count = Bell!Counted]
                 IN  /\ bellCall' = [bellCall EXCEPT ![c] = with]
                     /\ with \in BellCall /\ Fine(with, sent)
      BY <3>0, <3>1, BellFacts
      DEF Bell!Count, Bell!Answer, BellCall, Fine, Bell!Stage, Bell!Lists
    <3>2. CASE Bell!List(c)
      <4>1. PICK stage \in Bell!Stage :
              bellCall' = [bellCall EXCEPT ![c] =
                             [bellCall[c] EXCEPT !.stage = stage,
                                !.items = [listed |-> sent, read |-> readAt]]]
        BY <3>2 DEF Bell!List, Bell!Answer, Bell!Stage
      <4> DEFINE items == [listed |-> sent, read |-> readAt]
      <4>2. items \in Bell!Items /\ items.listed = sent /\ items.read = readAt
        BY BellFacts DEF Bell!Items
      <4> HIDE DEF items
      <4>3. [bellCall[c] EXCEPT !.stage = stage, !.items = items] \in BellCall
        BY <3>0, <4>2 DEF BellCall
      <4>4. Fine([bellCall[c] EXCEPT !.stage = stage, !.items = items], sent)
        BY <3>0, <3>2, <4>2, BellFacts DEF Bell!List, BellCall, Fine, Bell!Lists
      <4> QED
        BY <4>1, <4>3, <4>4 DEF items
    <3>3. CASE Bell!Mark(c)
      <4>1. /\ bellCall' = [bellCall EXCEPT ![c] =
                              [bellCall[c] EXCEPT !.stage = "answered"]]
            /\ bellCall[c].kind # "none"
        BY <3>3 DEF Bell!Mark, Bell!Answer
      <4>2. [bellCall[c] EXCEPT !.stage = "answered"] \in BellCall
        BY <3>0 DEF BellCall, Bell!Stage
      <4>3. Fine([bellCall[c] EXCEPT !.stage = "answered"], sent)
        BY <3>0, <4>1 DEF BellCall, Fine
      <4> QED
        BY <4>1, <4>2, <4>3
    <3>4. CASE Bell!Lose(c)
      <4>1. /\ bellCall' = [bellCall EXCEPT ![c] =
                              [bellCall[c] EXCEPT !.stage = "failed"]]
            /\ bellCall[c].kind # "none"
        BY <3>0, <3>4 DEF Bell!Lose, Bell!Answer, Fine
      <4>2. [bellCall[c] EXCEPT !.stage = "failed"] \in BellCall
        BY <3>0 DEF BellCall, Bell!Stage
      <4>3. Fine([bellCall[c] EXCEPT !.stage = "failed"], sent)
        BY <3>0, <4>1 DEF BellCall, Fine
      <4> QED
        BY <4>1, <4>2, <4>3
    <3> QED
      BY <1>2, <3>1, <3>2, <3>3, <3>4
  <2>2. /\ UNCHANGED <<sent, open, data, unreadCount, busy, clicks>>
        /\ readAt' \subseteq sent /\ bellFaults' \in 0..MaxFaults
    BY <1>0, <1>2, BellFacts DEF Bell!Count, Bell!List, Bell!Mark, Bell!Lose, Fine
  <2> QED
    BY <1>0, <2>1, <2>2, BellFacts, BellStep
<1>3. ASSUME NEW c \in Calls, Bell!Receive(c) \/ Bell!Catch(c)
      PROVE  BellInv'
  <2>0. bellCall[c].kind # "none" /\ bellCall[c] \in BellCall
    <3>1. Bell!Free.stage = "none"
      BY DEF Bell!Free
    <3> QED
      BY <1>3, <3>1, BellFacts DEF Fine, Bell!Receive, Bell!Catch
  <2>1. PICK with \in BellCall :
          bellCall' = [bellCall EXCEPT ![c] = with] /\ Fine(with, sent)
    BY <1>3, <2>0, NewBellCalls
    DEF Bell!Receive, Bell!Catch, Bell!Answer, Bell!Kind, Bell!Lists, BellCall
  <2>2. /\ UNCHANGED <<sent, readAt, open, clicks, bellFaults>>
        /\ data' \in Bell!Items /\ data'.listed \subseteq sent
        /\ unreadCount' \in 0..Cardinality(Notices) /\ busy' \in BOOLEAN
    BY <1>0, <1>3, <2>0, BellFacts
    DEF Bell!Receive, Bell!Catch, Fine, Bell!Lists, Bell!Kind, BellCall
  <2> QED
    BY <1>0, <2>1, <2>2, BellFacts, BellStep
<1>4. ASSUME NEW c \in Calls, Bell!Poll(c) \/ Bell!Toggle(c) \/ Bell!MarkAllRead(c)
      PROVE  BellInv'
  <2>1. PICK with \in BellCall :
          /\ bellCall' = [bellCall EXCEPT ![c] = with] \/ UNCHANGED bellCall
          /\ Fine(with, sent)
    BY <1>4, NewBellCalls
    DEF Bell!Poll, Bell!Toggle, Bell!MarkAllRead, Bell!Ask, Bell!Kind
  <2>2. /\ UNCHANGED <<sent, readAt, data, unreadCount, bellFaults>>
        /\ clicks' \in 0..MaxClicks
    BY <1>0, <1>4 DEF Bell!Poll, Bell!Toggle, Bell!MarkAllRead
  <2>3. open' \in BOOLEAN /\ busy' \in BOOLEAN
    BY <1>0, <1>4, Zenon DEF Bell!Poll, Bell!Toggle, Bell!MarkAllRead
  <2> QED
    BY <1>0, <2>1, <2>2, <2>3, BellFacts, BellStep
<1>5. ASSUME NEW c \in Calls, NEW n \in Notices, Bell!OpenNotification(c, n)
      PROVE  BellInv'
  <2>1. PICK with \in BellCall :
          /\ bellCall' = [bellCall EXCEPT ![c] = with] \/ UNCHANGED bellCall
          /\ Fine(with, sent)
    BY <1>5, NewBellCalls, BellFacts DEF Bell!OpenNotification, Bell!Ask, Bell!Kind
  <2>2. /\ UNCHANGED <<sent, readAt, data, busy, bellFaults>>
        /\ open' \in BOOLEAN /\ clicks' \in 0..MaxClicks
        /\ unreadCount' \in 0..Cardinality(Notices)
    <3>1. UNCHANGED unreadCount \/ unreadCount' = Bell!OneLess
      BY <1>5 DEF Bell!OpenNotification
    <3>2. unreadCount' \in 0..Cardinality(Notices)
      BY <3>1, BellFacts DEF Bell!OneLess
    <3>3. UNCHANGED <<sent, readAt, data, busy, bellFaults>> /\ open' \in BOOLEAN
      BY <1>5 DEF Bell!OpenNotification
    <3>4. clicks' \in 0..MaxClicks
      <4>1. clicks < MaxClicks /\ clicks' = clicks + 1
        BY <1>5 DEF Bell!OpenNotification
      <4> QED
        BY <1>0, <4>1
    <3> QED
      BY <3>2, <3>3, <3>4
  <2> QED
    BY <1>0, <2>1, <2>2, BellFacts, BellStep
<1> QED
  BY <1>1, <1>2, <1>3, <1>4, <1>5 DEF Bell!Next, Bell!Serve

-----------------------------------------------------------------------------
(* The edit page *)

\* While the answer is that all went well, or may still be.
Succeeds(p) ==
  \/ p.stage \in {"job", "writeJob", "saved", "left"}
  \/ p.stage = "answered" /\ ~p.error

\* What a page has typed, saved and been told: what was not typed is as the record
\* has it if no other request saved since the page was loaded, and what was saved
\* is if none did since it was sent; an error comes only with an answer, and a job
\* is written last.
Told(p, who, what) ==
  /\ p.stage # "loading" /\ ~p.stale =>
       \A f \in Edit!Fields \ p.typed : p.personal[f] = who[f]
  /\ ~p.overtaken /\ Succeeds(p) =>
       /\ \A f \in Edit!Fields : p.personal[f] # "" => who[f] = p.personal[f]
       /\ p.changingJob /\ p.stage \notin {"job", "writeJob"} => what.is = p.job
  /\ p.stage \notin {"answered", "editing"} => ~p.error
  /\ p.stage \in {"sent", "allowed"} => p.wrote = {}
  /\ p.stage \in {"job", "writeJob"} => p.changingJob /\ "job" \notin p.wrote
  /\ p.error /\ ~p.excused =>
       "job" \notin p.wrote /\ ("personal" \in p.wrote => p.changingJob)

EditInv == Edit!TypeOK /\ \A p \in Edit!Requests : Told(page[p], person, job)

PageState == [stage : Edit!Stage, personal : Edit!Values \union {Edit!Blank.personal},
              typed : SUBSET Edit!Fields, stale : BOOLEAN, changingJob : BOOLEAN,
              job : Jobs, read : 0..1, overtaken : BOOLEAN,
              wrote : SUBSET {"personal", "job"}, excused : BOOLEAN, error : BOOLEAN]

\* What the type invariant says of the parts of the edit page.
LEMMA EditFacts ==
  ASSUME Edit!TypeOK
  PROVE  /\ page \in [Edit!Requests -> PageState]
         /\ \A p \in Edit!Requests : page[p] \in PageState
         /\ person \in Edit!Values /\ job \in [is : Jobs, since : 0..1]
         /\ archived \in BOOLEAN /\ submits \in 0..MaxSubmits
<1>1. page \in [Edit!Requests -> PageState]
  BY DEF Edit!TypeOK, PageState, Edit!Today
<1> QED
  BY <1>1 DEF Edit!TypeOK, Edit!Today, Edit!Job

\* The record a personal save writes, field by field.
LEMMA MergedIs ==
  ASSUME Edit!TypeOK, NEW p \in Edit!Requests
  PROVE  /\ Edit!Merged(p) \in Edit!Values
         /\ \A f \in Edit!Fields :
              Edit!Merged(p)[f] = IF page[p].personal[f] # "" THEN page[p].personal[f]
                                  ELSE person[f]
<1>1. /\ page[p].personal \in Edit!Values \union {Edit!Blank.personal}
      /\ person \in Edit!Values
  BY EditFacts DEF PageState
<1>2. \A f \in Edit!Fields :
              Edit!Merged(p)[f] = IF page[p].personal[f] # "" THEN page[p].personal[f]
                                  ELSE person[f]
  BY DEF Edit!Merged, Edit!Sent
<1>3. Edit!Merged(p) \in Edit!Values
  <2> DEFINE M(v, w) ==
               [f \in Edit!Fields |->
                  IF f \in {g \in Edit!Fields : v[g] # ""} THEN v[f] ELSE w[f]]
  <2>1. ASSUME NEW v \in Edit!Values, NEW w \in Edit!Values PROVE M(v, w) \in Edit!Values
    BY DEF Edit!Values, Edit!Fields
  <2>2. ASSUME NEW w \in Edit!Values PROVE M(Edit!Blank.personal, w) \in Edit!Values
    <3> DEFINE v == Edit!Blank.personal
    <3>1. v["workEmail"] = "" /\ v["phoneNumber"] = "" /\ v["status"] = "ACTIVE"
      BY DEF Edit!Blank
    <3> HIDE DEF v
    <3>2. M(v, w) \in Edit!Values
      BY <3>1 DEF Edit!Values, Edit!Fields
    <3> QED
      BY <3>2 DEF v
  <2>3. Edit!Merged(p) = M(page[p].personal, person)
    BY DEF Edit!Merged, Edit!Sent
  <2> HIDE DEF M
  <2> QED
    BY <1>1, <2>1, <2>2, <2>3
<1> QED
  BY <1>2, <1>3

\* A step that changes one page and no record.
LEMMA TurnKeeps ==
  ASSUME EditInv, NEW p \in Edit!Requests, NEW with \in PageState,
         Edit!Turn(p, with), Told(with, person, job), UNCHANGED <<person, job>>,
         archived' \in BOOLEAN, submits' \in 0..MaxSubmits
  PROVE  EditInv'
<1>1. /\ page' \in [Edit!Requests -> PageState]
      /\ \A q \in Edit!Requests : page'[q] = IF q = p THEN with ELSE page[q]
  BY EditFacts DEF EditInv, Edit!Turn
<1>2. Edit!TypeOK'
  BY <1>1, EditFacts DEF EditInv, Edit!TypeOK, PageState, Edit!Today, Edit!Job
<1> QED
  BY <1>1, <1>2 DEF EditInv

\* A page saves something, and the others do not know.
LEMMA SaveKeeps ==
  ASSUME EditInv, NEW p \in Edit!Requests,
         NEW what \in {"personal", "job"}, NEW next \in Edit!Stage,
         Edit!Save(p, what, next), person' \in Edit!Values, job' \in Edit!Job,
         Told([page[p] EXCEPT !.stage = next, !.wrote = @ \union {what}], person', job'),
         UNCHANGED <<archived, submits>>
  PROVE  EditInv'
<1> DEFINE own == [page[p] EXCEPT !.stage = next, !.wrote = @ \union {what}]
           other(q) == IF page[q].stage = "loading" THEN page[q]
                       ELSE [page[q] EXCEPT !.stale = TRUE, !.overtaken = TRUE]
<1>1. \A q \in Edit!Requests : page[q] \in PageState /\ Told(page[q], person, job)
  BY EditFacts DEF EditInv
<1>2. own \in PageState
  BY <1>1 DEF PageState
<1>3. ASSUME NEW q \in Edit!Requests
      PROVE  other(q) \in PageState /\ Told(other(q), person', job')
  <2>1. CASE page[q].stage = "loading"
    BY <1>1, <2>1 DEF Told, Succeeds
  <2>2. CASE page[q].stage # "loading"
    <3> DEFINE late == [page[q] EXCEPT !.stale = TRUE, !.overtaken = TRUE]
    <3>1. late \in PageState
      BY <1>1 DEF PageState
    <3>2. /\ late.stage = page[q].stage /\ late.changingJob = page[q].changingJob
          /\ late.wrote = page[q].wrote /\ late.excused = page[q].excused
          /\ late.error = page[q].error /\ late.stale /\ late.overtaken
      BY <1>1 DEF PageState
    <3>3. other(q) = late
      BY <2>2
    <3> HIDE DEF late, other
    <3> QED
      BY <1>1, <3>1, <3>2, <3>3 DEF Told, Succeeds
  <2> QED
    BY <2>1, <2>2
<1> HIDE DEF own, other
<1>4. page' = [q \in Edit!Requests |-> IF q = p THEN own ELSE other(q)]
  BY DEF Edit!Save, own, other
<1>5. page' \in [Edit!Requests -> PageState]
  BY <1>2, <1>3, <1>4
<1>6. Edit!TypeOK'
  BY <1>5, EditFacts DEF EditInv, Edit!TypeOK, PageState, Edit!Today
<1>7. \A q \in Edit!Requests : Told(page'[q], person', job')
  BY <1>3, <1>4 DEF own
<1> QED
  BY <1>6, <1>7 DEF EditInv

\* A save that failed at its answer, whatever it wrote before.
LEMMA FailKeeps ==
  ASSUME EditInv, NEW p \in Edit!Requests, Edit!Fail(p),
         page[p].stage \in {"sent", "allowed", "job", "writeJob"},
         UNCHANGED <<person, job, archived, submits>>
  PROVE  EditInv'
<1> DEFINE with == [page[p] EXCEPT !.stage = "answered", !.error = TRUE]
<1>1. page[p] \in PageState /\ Told(page[p], person, job)
  BY EditFacts DEF EditInv
<1>2. with \in PageState
  BY <1>1 DEF PageState, Edit!Stage
<1>3. Told(with, person, job)
  BY <1>1 DEF PageState, Told, Succeeds
<1>4. Edit!Turn(p, with)
  BY DEF Edit!Fail
<1> HIDE DEF with
<1> QED
  BY <1>2, <1>3, <1>4, TurnKeeps, EditFacts DEF EditInv

\* One step for each action of the edit page.
LEMMA EditKept ==
  ASSUME EditInv, Edit!Next
  PROVE  EditInv'
<1>0. /\ person \in Edit!Values /\ job \in Edit!Job /\ archived \in BOOLEAN
      /\ submits \in 0..MaxSubmits /\ MaxSubmits \in Nat
      /\ \A p \in Edit!Requests : page[p] \in PageState /\ Told(page[p], person, job)
      /\ Editors \subseteq Edit!Requests /\ Lost \subseteq Edit!Requests
  BY EditFacts, PagesAssumption DEF EditInv, Edit!TypeOK, Edit!Requests
<1>1. CASE Edit!Archive
  BY <1>0, <1>1 DEF Edit!Archive, EditInv, Edit!TypeOK
<1>2. ASSUME NEW p \in Editors, Edit!Load(p) PROVE EditInv'
  <2> DEFINE with == [page[p] EXCEPT !.stage = "editing",
                                     !.personal = Edit!Loaded, !.job = job.is]
  <2>1. with \in PageState
    <3>1. job.is \in Jobs /\ Edit!Loaded \in Edit!Values /\ "editing" \in Edit!Stage
      BY <1>0 DEF Edit!Stage, Edit!Loaded, Edit!Job
    <3> QED
      BY <1>0, <3>1 DEF PageState
  <2>2. Told(with, person, job)
    <3>1. /\ with.stage = "editing" /\ with.personal = person
          /\ with.error = page[p].error /\ page[p].stage = "loading"
      BY <1>0, <1>2 DEF PageState, Edit!Load, Edit!Loaded
    <3>2. Told(page[p], person, job)
      BY <1>0
    <3> HIDE DEF with
    <3> QED
      BY <3>1, <3>2 DEF Told, Succeeds
  <2>3. Edit!Turn(p, with) /\ UNCHANGED <<person, job, archived, submits>>
    BY <1>2 DEF Edit!Load
  <2> HIDE DEF with
  <2> QED
    BY <1>0, <2>1, <2>2, <2>3, TurnKeeps
<1>3. ASSUME NEW p \in Editors, Edit!Submit(p) PROVE EditInv'
  <2>1. PICK v \in Edit!Values, on \in BOOLEAN, j \in Jobs :
          Edit!Turn(p, [page[p] EXCEPT
            !.stage = "sent", !.personal = v, !.changingJob = on, !.job = j,
            !.typed = @ \union {f \in Edit!Fields : v[f] # page[p].personal[f]},
            !.overtaken = FALSE, !.wrote = {}, !.excused = FALSE, !.error = FALSE])
    BY <1>3 DEF Edit!Submit
  <2> DEFINE more == {f \in Edit!Fields : v[f] # page[p].personal[f]}
             with == [page[p] EXCEPT
                        !.stage = "sent", !.personal = v, !.changingJob = on, !.job = j,
                        !.typed = @ \union more,
                        !.overtaken = FALSE, !.wrote = {}, !.excused = FALSE, !.error = FALSE]
  <2>2. with \in PageState
    <3>1. "sent" \in Edit!Stage /\ more \in SUBSET Edit!Fields
      BY DEF Edit!Stage
    <3>2. page[p].typed \union more \in SUBSET Edit!Fields
      BY <1>0, <3>1 DEF PageState
    <3> HIDE DEF more
    <3> DEFINE typed == page[p].typed \union more
    <3> HIDE DEF typed
    <3> DEFINE form == [page[p] EXCEPT
            !.stage = "sent", !.personal = v, !.changingJob = on, !.job = j, !.typed = typed]
    <3>3. form \in PageState
      <4>1. typed \in SUBSET Edit!Fields
        BY <3>2 DEF typed
      <4>2. page[p] \in PageState /\ v \in Edit!Values \union {Edit!Blank.personal}
        BY <1>0
      <4> QED
        BY <2>1, <3>1, <4>1, <4>2 DEF PageState
    <3>4. \A r \in PageState : [r EXCEPT !.overtaken = FALSE, !.wrote = {},
                                         !.excused = FALSE, !.error = FALSE] \in PageState
      BY DEF PageState
    <3>5. [page[p] EXCEPT
            !.stage = "sent", !.personal = v, !.changingJob = on, !.job = j, !.typed = typed,
            !.overtaken = FALSE, !.wrote = {}, !.excused = FALSE, !.error = FALSE] \in PageState
      BY <3>3, <3>4
    <3> QED
      BY <3>5 DEF typed
  <2>3. /\ with.stage = "sent" /\ with.personal = v
        /\ with.typed = page[p].typed \union more
        /\ with.stale = page[p].stale /\ with.wrote = {} /\ with.error = FALSE
    BY <1>0 DEF PageState
  <2>4. page[p].stage = "editing" /\ submits' \in 0..MaxSubmits
        /\ UNCHANGED <<person, job, archived>>
    BY <1>0, <1>3 DEF Edit!Submit
  <2>5. Told(with, person, job)
    <3> HIDE DEF with
    <3> QED
      BY <1>0, <2>3, <2>4 DEF Told, Succeeds
  <2>6. Edit!Turn(p, with)
    BY <2>1
  <2> HIDE DEF with
  <2> QED
    BY <1>0, <2>2, <2>4, <2>5, <2>6, TurnKeeps
<1>4. ASSUME NEW p \in Editors, Edit!Answer(p) PROVE EditInv'
  <2> DEFINE with == [page[p] EXCEPT
                        !.stage = IF page[p].error THEN "editing" ELSE "left"]
  <2>1. with \in PageState
    <3>1. PICK next \in Edit!Stage : next = IF page[p].error THEN "editing" ELSE "left"
      BY DEF Edit!Stage
    <3>2. [page[p] EXCEPT !.stage = next] \in PageState
      BY <1>0 DEF PageState
    <3> QED
      BY <3>1, <3>2
  <2>2. Told(with, person, job)
    <3>1. /\ page[p].stage = "answered"
          /\ with.stage = IF page[p].error THEN "editing" ELSE "left"
          /\ with.personal = page[p].personal /\ with.typed = page[p].typed
          /\ with.stale = page[p].stale /\ with.overtaken = page[p].overtaken
          /\ with.changingJob = page[p].changingJob
          /\ with.job = page[p].job /\ with.error = page[p].error
          /\ with.excused = page[p].excused /\ with.wrote = page[p].wrote
      BY <1>0, <1>4 DEF PageState, Edit!Answer
    <3>2. Told(page[p], person, job)
      BY <1>0
    <3> HIDE DEF with
    <3> QED
      BY <3>1, <3>2 DEF Told, Succeeds
  <2>3. Edit!Turn(p, with) /\ UNCHANGED <<person, job, archived, submits>>
    BY <1>4 DEF Edit!Answer
  <2> HIDE DEF with
  <2> QED
    BY <1>0, <2>1, <2>2, <2>3, TurnKeeps
<1>5. ASSUME NEW p \in Edit!Requests, Edit!CheckAccess(p) PROVE EditInv'
  <2>1. CASE Edit!Fail(p)
    BY <1>5, <2>1, FailKeeps DEF Edit!CheckAccess
  <2>2. CASE ~Edit!Fail(p)
    <3> DEFINE with == [page[p] EXCEPT !.stage = "allowed"]
    <3>1. with \in PageState
      BY <1>0 DEF PageState, Edit!Stage
    <3>2. Told(with, person, job)
      BY <1>0, <1>5 DEF PageState, Edit!CheckAccess, Told, Succeeds
    <3>3. Edit!Turn(p, with) /\ UNCHANGED <<person, job, archived, submits>>
      BY <1>5, <2>2 DEF Edit!CheckAccess
    <3> HIDE DEF with
    <3> QED
      BY <1>0, <3>1, <3>2, <3>3, TurnKeeps
  <2> QED
    BY <2>1, <2>2
<1>6. ASSUME NEW p \in Edit!Requests, Edit!WritePersonal(p) PROVE EditInv'
  <2>1. CASE Edit!Merged(p).workEmail = "taken"
    BY <1>6, <2>1, FailKeeps DEF Edit!WritePersonal
  <2>2. CASE Edit!Merged(p).workEmail # "taken"
    <3> DEFINE next == Edit!AfterPersonal(p)
               own == [page[p] EXCEPT !.stage = next, !.wrote = @ \union {"personal"}]
    <3>1. /\ Edit!Save(p, "personal", next) /\ person' = Edit!Merged(p)
          /\ page[p].stage = "allowed"
          /\ UNCHANGED <<job, archived, submits>>
      BY <1>6, <2>2 DEF Edit!WritePersonal
    <3>2. /\ next \in {"job", "saved"} /\ next \in Edit!Stage
          /\ next = "job" <=> page[p].changingJob
      BY DEF Edit!AfterPersonal, Edit!Stage
    <3>3. /\ own.stage = next /\ own.wrote = page[p].wrote \union {"personal"}
          /\ own.personal = page[p].personal /\ own.typed = page[p].typed
          /\ own.stale = page[p].stale /\ own.overtaken = page[p].overtaken
          /\ own.changingJob = page[p].changingJob
          /\ own.error = page[p].error
      BY <1>0 DEF PageState
    <3> HIDE DEF next, own
    <3>4. person' \in Edit!Values /\ job' \in Edit!Job
      BY <1>0, <3>1, MergedIs DEF EditInv
    <3>5. Told(own, person', job')
      <4>1. Told(page[p], person, job) /\ page[p].stage = "allowed"
        BY <1>0, <3>1
      <4>2. ~own.error /\ own.wrote = {"personal"}
        BY <3>3, <4>1 DEF Told
      <4>3. ~page[p].stale =>
               \A f \in Edit!Fields \ page[p].typed : page[p].personal[f] = person'[f]
        <5> SUFFICES ASSUME ~page[p].stale, NEW f \in Edit!Fields \ page[p].typed
                     PROVE  page[p].personal[f] = person'[f]
          OBVIOUS
        <5>1. page[p].personal[f] = person[f]
          BY <4>1 DEF Told
        <5> QED
          BY <3>1, <5>1, MergedIs DEF EditInv
      <4>4. \A f \in Edit!Fields :
              page[p].personal[f] # "" => person'[f] = page[p].personal[f]
        BY <3>1, MergedIs DEF EditInv
      <4> QED
        BY <3>2, <3>3, <4>2, <4>3, <4>4 DEF Told, Succeeds
    <3> QED
      BY <3>1, <3>2, <3>4, <3>5, SaveKeeps DEF own
  <2> QED
    BY <2>1, <2>2
<1>7. ASSUME NEW p \in Edit!Requests, Edit!ReadJob(p) PROVE EditInv'
  <2>1. CASE Edit!Fail(p)
    BY <1>7, <2>1, FailKeeps DEF Edit!ReadJob
  <2>2. CASE ~Edit!Differs(p) /\ Edit!Turn(p, [page[p] EXCEPT !.stage = "saved"])
    <3> DEFINE with == [page[p] EXCEPT !.stage = "saved"]
    <3>1. with \in PageState
      BY <1>0 DEF PageState, Edit!Stage
    <3>2. Told(with, person, job)
      <4>1. /\ page[p].stage = "job" /\ with.stage = "saved"
            /\ with.personal = page[p].personal /\ with.typed = page[p].typed
            /\ with.stale = page[p].stale /\ with.overtaken = page[p].overtaken
            /\ with.job = page[p].job /\ with.error = page[p].error
            /\ page[p].job = job.is
        BY <1>0, <1>7, <2>2 DEF PageState, Edit!ReadJob, Edit!Differs
      <4>2. Told(page[p], person, job)
        BY <1>0
      <4> HIDE DEF with
      <4> QED
        BY <4>1, <4>2 DEF Told, Succeeds
    <3>3. UNCHANGED <<person, job, archived, submits>>
      BY <1>7 DEF Edit!ReadJob
    <3> HIDE DEF with
    <3> QED
      BY <1>0, <2>2, <3>1, <3>2, <3>3, TurnKeeps DEF with
  <2>3. CASE Edit!Turn(p, [page[p] EXCEPT !.stage = "writeJob", !.read = job.since])
    <3> DEFINE with == [page[p] EXCEPT !.stage = "writeJob", !.read = job.since]
    <3>1. with \in PageState
      <4>1. job.since \in 0..1 /\ "writeJob" \in Edit!Stage
        BY <1>0 DEF Edit!Stage, Edit!Job, Edit!Today
      <4> QED
        BY <1>0, <4>1 DEF PageState
    <3>2. Told(with, person, job)
      <4>1. /\ page[p].stage = "job" /\ with.stage = "writeJob"
            /\ with.personal = page[p].personal /\ with.typed = page[p].typed
            /\ with.stale = page[p].stale /\ with.overtaken = page[p].overtaken
          /\ with.changingJob = page[p].changingJob
            /\ with.wrote = page[p].wrote /\ with.error = page[p].error
        BY <1>0, <1>7 DEF PageState, Edit!ReadJob
      <4>2. Told(page[p], person, job)
        BY <1>0
      <4> HIDE DEF with
      <4> QED
        BY <4>1, <4>2 DEF Told, Succeeds
    <3>3. UNCHANGED <<person, job, archived, submits>>
      BY <1>7 DEF Edit!ReadJob
    <3> HIDE DEF with
    <3> QED
      BY <1>0, <2>3, <3>1, <3>2, <3>3, TurnKeeps DEF with
  <2> QED
    BY <1>7, <2>1, <2>2, <2>3 DEF Edit!ReadJob
<1>8. ASSUME NEW p \in Edit!Requests, Edit!WriteJob(p) PROVE EditInv'
  <2>1. CASE job.since # page[p].read
    BY <1>8, <2>1, FailKeeps DEF Edit!WriteJob
  <2>2. CASE job.since = page[p].read
    <3> DEFINE own == [page[p] EXCEPT !.stage = "saved", !.wrote = @ \union {"job"}]
    <3>1. /\ Edit!Save(p, "job", "saved") /\ job' = [is |-> page[p].job, since |-> 1]
          /\ page[p].stage = "writeJob"
          /\ UNCHANGED <<person, archived, submits>>
      BY <1>8, <2>2 DEF Edit!WriteJob, Edit!Today
    <3>2. "saved" \in Edit!Stage
      BY DEF Edit!Stage
    <3>3. /\ own.stage = "saved" /\ own.wrote = page[p].wrote \union {"job"}
          /\ own.personal = page[p].personal /\ own.typed = page[p].typed
          /\ own.stale = page[p].stale /\ own.overtaken = page[p].overtaken
          /\ own.job = page[p].job
          /\ own.error = page[p].error
      BY <1>0 DEF PageState
    <3>4. job' \in Edit!Job /\ job'.is = page[p].job /\ person' \in Edit!Values
      BY <1>0, <3>1 DEF PageState, Edit!Job, Edit!Today
    <3> HIDE DEF own
    <3>5. Told(own, person', job')
      <4>1. Told(page[p], person, job) /\ person' = person /\ page[p].stage = "writeJob"
        BY <1>0, <3>1
      <4>2. ~own.error /\ own.stage = "saved" /\ job'.is = own.job
        BY <3>3, <3>4, <4>1 DEF Told
      <4>3. /\ ~page[p].stale =>
                 \A f \in Edit!Fields \ page[p].typed : page[p].personal[f] = person'[f]
            /\ ~page[p].overtaken =>
                 \A f \in Edit!Fields :
                   page[p].personal[f] # "" => person'[f] = page[p].personal[f]
        BY <4>1 DEF Told, Succeeds
      <4> QED
        BY <3>3, <4>2, <4>3 DEF Told, Succeeds
    <3> QED
      BY <3>1, <3>2, <3>4, <3>5, SaveKeeps DEF own
  <2> QED
    BY <2>1, <2>2
<1>9. ASSUME NEW p \in Edit!Requests, Edit!FindOne(p) PROVE EditInv'
  <2>0. PICK gone \in BOOLEAN : gone = ~Edit!Visible
    BY Zenon
  <2> DEFINE with == [page[p] EXCEPT
                        !.stage = "answered", !.error = gone, !.excused = gone]
  <2>1. with \in PageState
    <3>1. "answered" \in Edit!Stage
      BY DEF Edit!Stage
    <3> QED
      BY <1>0, <3>1 DEF PageState
  <2>2. Told(with, person, job)
    <3>1. /\ page[p].stage = "saved" /\ with.stage = "answered"
          /\ with.personal = page[p].personal /\ with.typed = page[p].typed
          /\ with.stale = page[p].stale /\ with.overtaken = page[p].overtaken
          /\ with.changingJob = page[p].changingJob
          /\ with.job = page[p].job /\ with.error = gone /\ with.excused = gone
      BY <1>0, <1>9 DEF PageState, Edit!FindOne
    <3>2. Told(page[p], person, job)
      BY <1>0
    <3> HIDE DEF with
    <3> QED
      BY <3>1, <3>2 DEF Told, Succeeds
  <2>3. Edit!Turn(p, with) /\ UNCHANGED <<person, job, archived, submits>>
    BY <1>9, <2>0, Zenon DEF Edit!FindOne
  <2> HIDE DEF with
  <2> QED
    BY <1>0, <2>1, <2>2, <2>3, TurnKeeps
<1>10. ASSUME NEW p \in Editors, NEW g \in Lost, Edit!Die(p, g) PROVE EditInv'
  <2> DEFINE with == [page[p] EXCEPT
                        !.stage = "answered", !.error = TRUE, !.excused = TRUE]
  <2>1. with \in PageState
    <3>1. "answered" \in Edit!Stage
      BY DEF Edit!Stage
    <3> QED
      BY <1>0, <3>1 DEF PageState
  <2>2. Told(with, person, job)
    <3>1. /\ page[p].stage # "loading" /\ with.stage = "answered"
          /\ with.personal = page[p].personal /\ with.typed = page[p].typed
          /\ with.stale = page[p].stale /\ with.overtaken = page[p].overtaken
          /\ with.error /\ with.excused
      BY <1>0, <1>10 DEF PageState, Edit!Die
    <3>2. Told(page[p], person, job)
      BY <1>0
    <3> HIDE DEF with
    <3> QED
      BY <3>1, <3>2 DEF Told, Succeeds
  <2>3. /\ page' = [page EXCEPT ![g] = page[p], ![p] = with]
        /\ UNCHANGED <<person, job, archived, submits>>
    BY <1>10 DEF Edit!Die
  <2> HIDE DEF with
  <2>4. /\ page' \in [Edit!Requests -> PageState]
        /\ \A q \in Edit!Requests :
             page'[q] \in {page[q], page[p], with} /\ (page'[q] = page[q] \/ q \in {p, g})
    BY <1>0, <2>1, <2>3, EditFacts DEF EditInv
  <2>5. Edit!TypeOK'
    BY <1>0, <2>3, <2>4 DEF Edit!TypeOK, PageState, Edit!Today
  <2>6. \A q \in Edit!Requests : Told(page'[q], person', job')
    BY <1>0, <2>2, <2>3, <2>4
  <2> QED
    BY <2>5, <2>6 DEF EditInv
<1> QED
  BY <1>1, <1>2, <1>3, <1>4, <1>5, <1>6, <1>7, <1>8, <1>9, <1>10 DEF Edit!Next

\* What a save may change of the record.
LEMMA UntouchedKept ==
  ASSUME EditInv, Edit!Next, NEW p \in Edit!Requests, page[p].stage = "allowed",
         page'[p].stage # "allowed", NEW f \in Edit!Fields, person'[f] # person[f]
  PROVE  f \in page[p].typed \/ page[p].stale
<1>0. page \in [Edit!Requests -> PageState] /\ Told(page[p], person, job)
  BY EditFacts DEF EditInv
<1>1. PICK q \in Edit!Requests : Edit!WritePersonal(q) /\ person' = Edit!Merged(q)
  BY DEF Edit!Next, Edit!Archive, Edit!Load, Edit!Submit, Edit!Answer, Edit!CheckAccess,
         Edit!WritePersonal, Edit!ReadJob, Edit!WriteJob, Edit!FindOne, Edit!Die
<1>2. q = p
  <2>1. page[p] \in PageState /\ page[q].stage = "allowed"
    BY <1>0, <1>1 DEF Edit!WritePersonal
  <2>2. ASSUME NEW next, Edit!Save(q, "personal", next), q # p PROVE page'[p].stage = page[p].stage
    BY <1>0, <2>1, <2>2 DEF Edit!Save, PageState
  <2>3. CASE Edit!Fail(q)
    BY <1>0, <2>3 DEF Edit!Fail, Edit!Turn
  <2> QED
    BY <1>1, <2>2, <2>3 DEF Edit!WritePersonal
<1>3. person'[f] = IF page[p].personal[f] # "" THEN page[p].personal[f] ELSE person[f]
  BY <1>1, <1>2, MergedIs DEF EditInv
<1>4. f \notin page[p].typed /\ ~page[p].stale => page[p].personal[f] = person[f]
  BY <1>0 DEF Told
<1> QED
  BY <1>3, <1>4

-----------------------------------------------------------------------------
(* The three places together *)

PagesInv == looking \in Places /\ BellInv /\ SectionInv /\ EditInv

\* The three places start in their invariants.
LEMMA BellStarts == Bell!Init => BellInv
<1> SUFFICES ASSUME Bell!Init PROVE BellInv
  OBVIOUS
<1>1. Cardinality(Notices) \in Nat /\ MaxClicks \in Nat /\ MaxFaults \in Nat
  BY PagesAssumption, FS_CardinalityType
<1>2. Bell!NoItems \in Bell!Items /\ Bell!NoItems.listed = {} /\ Bell!NoItems.read = {}
  BY DEF Bell!NoItems, Bell!Items
<1>3. Bell!Free \in BellCall /\ Fine(Bell!Free, {})
  BY <1>1, <1>2 DEF Bell!Free, Bell!Kind, Bell!Stage, BellCall, Fine
<1>4. Bell!TypeOK
  <2>1. bellCall \in [Calls -> BellCall]
    BY <1>3 DEF Bell!Init
  <2>2. /\ sent = {} /\ readAt = {} /\ open \in BOOLEAN /\ busy \in BOOLEAN
        /\ data = Bell!NoItems
    BY DEF Bell!Init
  <2>3. /\ unreadCount \in 0..Cardinality(Notices)
        /\ clicks \in 0..MaxClicks /\ bellFaults \in 0..MaxFaults
    BY <1>1 DEF Bell!Init
  <2> QED
    BY <1>2, <2>1, <2>2, <2>3, BellCardinality DEF Bell!TypeOK, BellCall
<1> QED
  BY <1>2, <1>3, <1>4 DEF Bell!Init, BellInv, Fine

\* The section starts with an empty list, and with a request for it under way.
LEMMA SectionStarts == Section!Init => SectionInv
<1> SUFFICES ASSUME Section!Init PROVE SectionInv
  OBVIOUS
<1> DEFINE first == CHOOSE c \in Calls : TRUE
           asked == Section!Asked("list", {})
<1>1. first \in Calls /\ MaxFaults \in Nat /\ MaxChanges \in Nat
  BY PagesAssumption
<1>2. asked \in Calling /\ Section!Free \in Calling
  BY DEF Section!Init, Section!Asked, Section!Free, Calling, Section!Kind, Section!Stage
<1>3. \A c \in Calls : documentCall[c] = IF c = first THEN asked ELSE Section!Free
  BY DEF Section!Init
<1>4. /\ asked.kind = "list" /\ asked.on = {} /\ asked.files = {} /\ asked.stage = "asked"
      /\ asked.sees = FALSE /\ asked.had = cleared
  BY DEF Section!Asked, Section!Free
<1>5. Section!TypeOK
  <2>1. documentCall \in [Calls -> Calling]
    BY <1>2 DEF Section!Init
  <2>2. /\ stored \subseteq Files /\ row \in [Files -> {"none", "live", "archived"}]
        /\ visible \in BOOLEAN /\ cleared \in BOOLEAN
    BY DEF Section!Init
  <2>3. /\ shown = {} /\ removed = {} /\ uploading \in BOOLEAN /\ excused \in BOOLEAN
        /\ changes = 0 /\ documentFaults = 0
    BY DEF Section!Init
  <2>4. changes \in 0..MaxChanges /\ documentFaults \in 0..MaxFaults
    BY <1>1, <2>3
  <2> QED
    BY <2>1, <2>2, <2>3, <2>4 DEF Section!TypeOK, Calling
<1> HIDE DEF first, asked
<1>6. RowsKnown /\ Uploads /\ Cleared /\ Section!ConfidentialKept
  BY <1>3, <1>4, FreeFields
  DEF Section!Init, RowsKnown, Known, Uploads, Cleared,
      Section!ConfidentialKept, Section!At
<1>7. ListsFresh /\ Section!FilesBehindRows /\ Section!OrphansNeedAFault
  BY DEF Section!Init, ListsFresh, Section!FilesBehindRows, Section!OrphansNeedAFault
<1> QED
  BY <1>5, <1>6, <1>7, NothingListed DEF SectionInv, DocumentsKept

\* Nothing has been typed when the edit page starts.
LEMMA EditStarts == Edit!Init => EditInv
<1> SUFFICES ASSUME Edit!Init PROVE EditInv
  OBVIOUS
<1>1. MaxSubmits \in Nat
  BY PagesAssumption
<1>2. (CHOOSE j \in Jobs : TRUE) \in Jobs
  BY PagesAssumption
<1>3. Edit!Blank \in PageState
  BY <1>2 DEF Edit!Blank, PageState, Edit!Stage
<1>4. Told(Edit!Blank, person, job)
  BY DEF Edit!Blank, Told, Succeeds
<1>5. Edit!TypeOK
  <2>1. page \in [Edit!Requests -> PageState]
    BY <1>3 DEF Edit!Init
  <2>2. /\ person \in Edit!Values /\ job \in Edit!Job /\ archived \in BOOLEAN
        /\ submits = 0
    BY DEF Edit!Init
  <2> QED
    BY <1>1, <2>1, <2>2 DEF Edit!TypeOK, PageState, Edit!Today
<1> QED
  BY <1>4, <1>5 DEF Edit!Init, EditInv

\* The parts of the section, put together.
LEMMA SectionKept ==
  ASSUME SectionInv, Section!Next
  PROVE  SectionInv'
<1>1. Section!TypeOK' /\ Cleared' /\ Section!ConfidentialKept'
  BY SectionTypes, ClearedKept DEF SectionInv, DocumentsKept
<1>2. RowsKnown' /\ Section!FilesBehindRows' /\ Uploads' /\ Section!OrphansNeedAFault'
  BY RowsKept, UploadsKept DEF SectionInv, DocumentsKept
<1>3. ListsFresh' /\ Section!RemovedIsGone'
  <2>1. ListsFresh'
    BY ListsKept DEF SectionInv
  <2>2. ListsFresh' => Section!RemovedIsGone'
    BY NothingListed, PTL
  <2> QED
    BY <2>1, <2>2
<1> QED
  BY <1>1, <1>2, <1>3 DEF SectionInv, DocumentsKept

\* A place that is not looked at stays as it is.
LEMMA BellFrame == BellInv /\ UNCHANGED bell => BellInv'
BY DEF bell, BellInv, Bell!TypeOK

LEMMA SectionFrame == SectionInv /\ UNCHANGED documents => SectionInv'
BY DEF documents, SectionInv, Section!TypeOK, DocumentsKept, Section!FilesBehindRows,
       Section!OrphansNeedAFault, Section!ConfidentialKept, Section!RemovedIsGone,
       RowsKnown, Known, Uploads, Cleared, ListsFresh, Section!Listing, Section!At

LEMMA EditFrame == EditInv /\ UNCHANGED records => EditInv'
BY DEF records, EditInv, Edit!TypeOK

\* The invariant holds at the start.
LEMMA InitPagesInv == Init => PagesInv
BY BellStarts, SectionStarts, EditStarts DEF Init, PagesInv

\* A step is one of the place looked at; the frame lemmas do the other two.
LEMMA NextPagesInv == PagesInv /\ [Next]_vars => PagesInv'
<1> SUFFICES ASSUME PagesInv, [Next]_vars PROVE PagesInv'
  OBVIOUS
<1>1. CASE LookAtBell
  BY <1>1, BellKept, SectionFrame, EditFrame DEF LookAtBell, AtBell, PagesInv
<1>2. CASE LookAtDocuments
  BY <1>2, BellFrame, SectionKept, EditFrame DEF LookAtDocuments, PagesInv
<1>3. CASE LookAtEdit
  BY <1>3, BellFrame, SectionFrame, EditKept DEF LookAtEdit, PagesInv
<1>4. CASE UNCHANGED vars
  BY <1>4, BellFrame, SectionFrame, EditFrame DEF vars, PagesInv
<1> QED
  BY <1>1, <1>2, <1>3, <1>4 DEF Next

-----------------------------------------------------------------------------
(* Theorems *)

\* The bell, the section and the edit page stay in their invariants, however
\* their calls, answers and faults interleave.
THEOREM InvariantHolds == Spec => []PagesInv
<1> QED
  BY InitPagesInv, NextPagesInv, PTL DEF Spec

\* Every page and every call is in a state the code can put it in; the number
\* on the bell is never below zero.
THEOREM TypeCorrect == Spec => []TypeOK
<1>1. PagesInv => TypeOK
  BY DEF PagesInv, BellInv, SectionInv, EditInv, TypeOK
<1> QED
  BY <1>1, InvariantHolds, PTL

\* Whatever overlaps, dies or loses its permission: a row has its file, a stray
\* file its upload or its fault, a confidential answer its permission, and what
\* was removed is not listed again.
THEOREM DocumentsHeld == Spec => []DocumentsKept
<1>1. PagesInv => DocumentsKept
  BY DEF PagesInv, SectionInv
<1> QED
  BY <1>1, InvariantHolds, PTL

\* However many pages save the same employee, and however many requests go on
\* after their page gave up on them, a success has saved what its form showed
\* unless another request saved since it was sent, and an error whose answer was
\* heard has not changed the job (EmployeesService.update, handleSubmit).
THEOREM EditorsKnow == Spec => []EditorsAreTold
<1>1. PagesInv => EditorsAreTold
  BY DEF PagesInv, EditInv, Told, Succeeds, EditorsAreTold, Edit!SavedAsShown,
         Edit!ErrorsSayWhatHappened, Edit!Requests
<1> QED
  BY <1>1, InvariantHolds, PTL

\* A save changes no field that nobody typed in, unless its form is older than
\* the record.
THEOREM UntouchedFields == Spec => UntouchedStands
<1>1. ASSUME PagesInv, [Next]_vars
      PROVE  [\A p \in Edit!Requests : page[p].stage = "allowed" =>
                \A f \in Edit!Fields :
                  page'[p].stage # "allowed" /\ person'[f] # person[f] =>
                    f \in page[p].typed \/ page[p].stale]_(Edit!vars)
  <2>1. CASE Edit!Next
    BY <1>1, <2>1, UntouchedKept DEF PagesInv
  <2>2. CASE UNCHANGED records
    BY <2>2 DEF records, Edit!vars
  <2> QED
    BY <1>1, <2>1, <2>2 DEF Next, LookAtBell, AtBell, LookAtDocuments, LookAtEdit, vars
<1> QED
  BY <1>1, InvariantHolds, PTL DEF Spec, UntouchedStands, Edit!UntouchedStands
=============================================================================

------------------------------ MODULE Uploads ------------------------------
(***************************************************************************)
(* The life of an uploaded file in the storage service: the row of File,   *)
(* the object at the storage provider and its access list, and the upload  *)
(* token.  A request reads the row, calls the provider and writes the row  *)
(* by its id, without a condition on what it read; each awaited call is a  *)
(* step.  All requests come from the owner, and the clean-up of expired    *)
(* uploads is the periodic job the storage service exports a function for. *)
(*                                                                         *)
(* The provider is S3 or OBS; with local storage an upload token is good   *)
(* for one PUT (a choice below) and there is no access list.               *)
(***************************************************************************)
EXTENDS FiniteSets

CONSTANTS
  Files,            \* file ids, each with its own storage key
  Uploaders,        \* requests of the owner and runs of the clean-up
  UploadConditions  \* what may go wrong

UploadTroubles ==
  {"refused",  \* the provider refuses to change an access list
   "cut"}      \* a request breaks off between two calls
ASSUME UploadAssumption == UploadConditions \subseteq UploadTroubles

VARIABLES
  fileRow,    \* File.status, or that there is no row yet or no more
  isPublic,   \* File.isPublic
  overdue,    \* the rows whose expiresAt has passed
  object,     \* the files whose object the provider holds
  exposed,    \* the files whose object the provider shows to everyone
  token,      \* the files whose upload token still admits a PUT
  put,        \* the files a PUT is being written for
  job,        \* the requests
  contested   \* history: what two requests, or half a request, wrote over each
              \* other, and the files whose confirmation came when they had expired

uploadVars == <<fileRow, isPublic, overdue, object, exposed, token, put, job, contested>>
fileVars == <<fileRow, isPublic, overdue>>
storeVars == <<object, exposed, token, put>>

FileStatus == {"PENDING", "UPLOADED", "FAILED", "DELETED"}
UploadOps == {"confirm", "cancel", "delete", "cleanup", "publish"}
UploadLabels == {"idle", "exists", "fail", "acl", "save", "drop", "write"}

\* on: the files of the request; left: those whose object it still has to
\* delete; public: the visibility it is about to set.
Job == [op : UploadOps, at : UploadLabels, on : SUBSET Files, left : SUBSET Files,
        public : BOOLEAN]

NoJob == [op |-> "confirm", at |-> "idle", on |-> {}, left |-> {}, public |-> FALSE]

UploadTypeOK ==
  /\ fileRow \in [Files -> FileStatus \cup {"none", "gone"}]
  /\ isPublic \in [Files -> BOOLEAN] /\ exposed \in SUBSET Files
  /\ overdue \in SUBSET Files /\ object \in SUBSET Files
  /\ token \in SUBSET Files /\ put \in SUBSET Files
  /\ job \in [Uploaders -> Job]
  /\ contested \in SUBSET (Files \X {"object", "acl", "late"})

InitUploads ==
  /\ fileRow = [f \in Files |-> "none"]
  /\ isPublic = [f \in Files |-> FALSE]
  /\ overdue = {} /\ object = {} /\ exposed = {} /\ token = {} /\ put = {}
  /\ job = [j \in Uploaders |-> NoJob]
  /\ contested = {}

HasRow(f) == fileRow[f] \in FileStatus
JobAt(j, op, label) == job[j].op = op /\ job[j].at = label
JobGoto(j, label) == job' = [job EXCEPT ![j].at = label]
JobEnds(j) == job' = [job EXCEPT ![j] = NoJob]
Working(f, ops) == {j \in Uploaders : job[j].op \in ops /\ f \in job[j].on}

Removals == {"cancel", "delete", "cleanup"}
Publishers == {"confirm", "publish"}

\* Two requests of these kinds write over each other.
Disturbs(op, other) ==
  (IF {op, other} \subseteq Publishers THEN {"acl"} ELSE {})
  \cup (IF "confirm" \in {op, other} /\ {op, other} \cap Removals # {} THEN {"object"} ELSE {})

Clashes(op, files) ==
  {c \in files \X {"object", "acl"} :
     \E k \in Working(c[1], UploadOps) : c[2] \in Disturbs(op, job[k].op)}

Start(j, op, label, files, public) ==
  /\ job[j] = NoJob
  /\ job' = [job EXCEPT ![j] = [op |-> op, at |-> label, on |-> files, public |-> public,
                                left |-> IF label = "drop" THEN files ELSE {}]]
  /\ contested' = contested \cup Clashes(op, files)
-----------------------------------------------------------------------------
\* Faulty: the row is confirmed whatever the provider answered.
CheckObjectNever(j) ==
  /\ JobAt(j, "confirm", "exists")
  /\ JobGoto(j, "acl")
  /\ UNCHANGED <<fileVars, storeVars, contested>>

\* Faulty: the clean-up takes every pending row, whatever its expiry.
FindPending(j) ==
  LET found == {f \in Files : fileRow[f] = "PENDING"} IN
  /\ found # {}
  /\ Start(j, "cleanup", "drop", found, FALSE)
  /\ UNCHANGED <<fileVars, storeVars>>

\* Faulty: a file is always made public when it is confirmed.
SetAclOpen(j) ==
  /\ job[j].at = "acl"
  /\ exposed' = IF job[j].op = "confirm" \/ job[j].public THEN exposed \cup (job[j].on \cap object)
                ELSE exposed \ job[j].on
  /\ JobGoto(j, "save")
  /\ UNCHANGED <<fileVars, object, token, put, contested>>

\* Faulty: the row keeps its old status.
MarkFailedOdd(j) ==
  /\ JobAt(j, "confirm", "fail")
  /\ fileRow' = [f \in Files |-> IF f \in job[j].on /\ HasRow(f) THEN "EXPIRED" ELSE fileRow[f]]
  /\ JobEnds(j)
  /\ UNCHANGED <<isPublic, overdue, storeVars, contested>>
-----------------------------------------------------------------------------
(***************************************************************************)
(* createSignedUploadUrl, and the PUT of the client                        *)
(***************************************************************************)
Sign(f, public) ==
  /\ fileRow[f] = "none"
  /\ fileRow' = [fileRow EXCEPT ![f] = "PENDING"]
  /\ isPublic' = [isPublic EXCEPT ![f] = public]
  /\ token' = token \cup {f}
  /\ UNCHANGED <<overdue, object, exposed, put, job, contested>>

\* validateUploadToken is asked before the body is read.
PutBegins(f) ==
  /\ f \in token
  /\ put' = put \cup {f}
  /\ UNCHANGED <<fileVars, object, exposed, token, job, contested>>

\* The object is new and private.
PutEnds(f) ==
  /\ f \in put
  /\ object' = object \cup {f} /\ exposed' = exposed \ {f}
  /\ put' = put \ {f} /\ token' \in {token, token \ {f}}
  /\ UNCHANGED <<fileVars, job, contested>>

\* The signed URL and the pending row have one expiry, which comes at any time.
Expire(f) ==
  /\ fileRow[f] = "PENDING" /\ f \notin overdue
  /\ overdue' = overdue \cup {f} /\ token' = token \ {f}
  /\ UNCHANGED <<fileRow, isPublic, object, exposed, put, job, contested>>
-----------------------------------------------------------------------------
(***************************************************************************)
(* confirmUpload, which does not ask whether the row has expired           *)
(***************************************************************************)
Confirm(j, f) ==
  /\ fileRow[f] = "PENDING"
  /\ Start(j, "confirm", "exists", {f}, isPublic[f])
  /\ UNCHANGED <<fileVars, storeVars>>

CheckObject(j) ==
  /\ JobAt(j, "confirm", "exists")
  /\ JobGoto(j, IF job[j].on \subseteq object THEN "acl" ELSE "fail")
  /\ UNCHANGED <<fileVars, storeVars, contested>>

\* An update of a row that is gone throws.
MarkFailed(j) ==
  /\ JobAt(j, "confirm", "fail")
  /\ fileRow' = [f \in Files |-> IF f \in job[j].on /\ HasRow(f) THEN "FAILED" ELSE fileRow[f]]
  /\ JobEnds(j)
  /\ UNCHANGED <<isPublic, overdue, storeVars, contested>>

MarkUploaded(j) ==
  /\ JobAt(j, "confirm", "save")
  /\ LET rows == {f \in job[j].on : HasRow(f)} IN
     /\ fileRow' = [f \in Files |-> IF f \in rows THEN "UPLOADED" ELSE fileRow[f]]
     /\ overdue' = overdue \ rows
     /\ contested' = contested \cup ((rows \cap overdue) \X {"late"})
  /\ JobEnds(j)
  /\ UNCHANGED <<isPublic, storeVars>>
-----------------------------------------------------------------------------
(***************************************************************************)
(* cancelUpload, deleteFiles and cleanupExpiredPendingFiles: the objects,  *)
(* then the rows.  The provider's errors are swallowed.                    *)
(***************************************************************************)
Cancel(j, f) ==
  /\ fileRow[f] = "PENDING"
  /\ Start(j, "cancel", "drop", {f}, FALSE)
  /\ UNCHANGED <<fileVars, storeVars>>

\* Any status will do, DELETED too.
Delete(j, files) ==
  /\ files # {} /\ \A f \in files : HasRow(f)
  /\ Start(j, "delete", "drop", files, FALSE)
  /\ UNCHANGED <<fileVars, storeVars>>

FindExpired(j) ==
  LET found == {f \in overdue : fileRow[f] = "PENDING"} IN
  /\ found # {}  \* without one the run changes nothing
  /\ Start(j, "cleanup", "drop", found, FALSE)
  /\ UNCHANGED <<fileVars, storeVars>>

DropObject(j, f) ==
  /\ job[j].at = "drop" /\ f \in job[j].left
  /\ \/ object' = object \ {f} /\ exposed' = exposed \ {f}
     \/ UNCHANGED <<object, exposed>>
  /\ LET left == job[j].left \ {f} IN
     job' = [job EXCEPT ![j].left = left, ![j].at = IF left = {} THEN "write" ELSE "drop"]
  /\ UNCHANGED <<fileVars, token, put, contested>>

WriteRemoval(j) ==
  LET end == IF job[j].op = "delete" THEN "DELETED" ELSE "gone"
      rows == {f \in job[j].on : HasRow(f)} IN
  /\ job[j].at = "write"
  /\ fileRow' = [f \in Files |-> IF f \in rows THEN end ELSE fileRow[f]]
  /\ overdue' = IF end = "gone" THEN overdue \ rows ELSE overdue
  /\ JobEnds(j)
  /\ UNCHANGED <<isPublic, storeVars, contested>>
-----------------------------------------------------------------------------
(***************************************************************************)
(* toggleFilePublic and updateFile                                         *)
(***************************************************************************)
Toggle(j, f) ==
  /\ HasRow(f)
  /\ Start(j, "publish", "acl", {f}, ~isPublic[f])
  /\ UNCHANGED <<fileVars, storeVars>>

\* The provider is only called when the row says otherwise.
Update(j, f, public) ==
  /\ HasRow(f)
  /\ Start(j, "publish", IF public # isPublic[f] THEN "acl" ELSE "save", {f}, public)
  /\ UNCHANGED <<fileVars, storeVars>>

\* setFileVisibility, of a confirmation too.  It swallows the errors of the
\* provider, of which a missing object is one.
SetAcl(j) ==
  /\ job[j].at = "acl"
  /\ exposed' = IF job[j].public THEN exposed \cup (job[j].on \cap object) ELSE exposed \ job[j].on
  /\ JobGoto(j, "save")
  /\ UNCHANGED <<fileVars, object, token, put, contested>>

SetAclRefused(j) ==
  /\ "refused" \in UploadConditions /\ job[j].at = "acl"
  /\ contested' = contested \cup (job[j].on \X {"acl"})
  /\ JobGoto(j, "save")
  /\ UNCHANGED <<fileVars, storeVars>>

SavePublic(j) ==
  /\ JobAt(j, "publish", "save")
  /\ isPublic' = [f \in Files |-> IF f \in job[j].on /\ HasRow(f) THEN job[j].public
                                  ELSE isPublic[f]]
  /\ JobEnds(j)
  /\ UNCHANGED <<fileRow, overdue, storeVars, contested>>

\* The process dies, or the database call fails.
BreakOff(j) ==
  /\ "cut" \in UploadConditions /\ job[j] # NoJob
  /\ contested' = contested \cup
       (job[j].on \X (CASE job[j].op \in Removals -> {"object"}
                        [] job[j].op = "publish" -> {"acl"}
                        [] OTHER -> {}))
  /\ JobEnds(j)
  /\ UNCHANGED <<fileVars, storeVars>>
-----------------------------------------------------------------------------
NextUploads ==
  \/ \E f \in Files, public \in BOOLEAN : Sign(f, public)
  \/ \E f \in Files : PutBegins(f) \/ PutEnds(f) \/ Expire(f)
  \/ \E j \in Uploaders, f \in Files : Confirm(j, f) \/ Cancel(j, f) \/ DropObject(j, f) \/ Toggle(j, f)
  \/ \E j \in Uploaders, files \in SUBSET Files : Delete(j, files)
  \/ \E j \in Uploaders, f \in Files, public \in BOOLEAN : Update(j, f, public)
  \/ \E j \in Uploaders :
       \/ CheckObject(j) \/ MarkFailed(j) \/ MarkUploaded(j)
       \/ FindExpired(j) \/ WriteRemoval(j)
       \/ SetAcl(j) \/ SetAclRefused(j) \/ SavePublic(j) \/ BreakOff(j)

UploadsSpec == InitUploads /\ [][NextUploads]_uploadVars
-----------------------------------------------------------------------------
(***************************************************************************)
(* Properties                                                              *)
(***************************************************************************)

\* A file that is listed as uploaded (and can be shared and streamed) has
\* its object, while no removal is under way, whatever else ran beside it.
\* Only a removal that overlapped the confirmation, or broke off before its
\* write, may leave a row without one.
UploadedHasObject ==
  \A f \in Files : fileRow[f] = "UPLOADED" /\ <<f, "object">> \notin contested
     => f \in object \/ Working(f, Removals) # {}

\* The provider shows an object to everyone only if its row says so: the
\* row decides who may read through the service, the access list who may
\* read without it.  Only two requests that set both at once, one that broke
\* off between them and a refusal the provider's adapter swallows may leave a
\* private file open.
PrivateNotExposed ==
  \A f \in Files :
    HasRow(f) /\ ~isPublic[f] /\ f \in exposed
      => <<f, "acl">> \in contested \/ Working(f, Publishers) # {}

\* A file whose confirmation was written before it expired is taken away only
\* by a request of the owner.  The clean-up never does, although it deletes by
\* id what it read as pending some calls ago; a file confirmed after its expiry
\* it may have read already, and then takes.
InTimeKept ==
  [][\A f \in Files :
       /\ fileRow[f] = "UPLOADED" /\ fileRow'[f] \in {"gone", "DELETED"}
       /\ <<f, "late">> \notin contested
       => \E j \in Working(f, {"cancel", "delete"}) : job'[j] = NoJob]_uploadVars
=============================================================================

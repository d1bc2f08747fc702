---------------------------- MODULE UploadsProof ----------------------------
(***************************************************************************)
(* Of uploaded files, for any number of files and of requests of their     *)
(* owner at once: an uploaded file has its object and a private one is not *)
(* exposed, but for what two requests wrote over each other, and the       *)
(* clean-up never takes a file that was confirmed before it expired.       *)
(***************************************************************************)
EXTENDS Uploads, TLAPS

\* A request is at a label of its own operation.
Shaped(r) ==
  /\ r.left \subseteq r.on
  /\ r.at = "idle" => r = NoJob
  /\ r.at \in {"exists", "fail"} => r.op = "confirm"
  /\ r.at \in {"drop", "write"} => r.op \in Removals
  /\ r.at \in {"acl", "save"} => r.op \in Publishers

\* While one publisher works on a file, its object is shown as the row says.
AclSound(r, f) ==
  <<f, "acl">> \notin contested =>
    /\ r.op = "confirm" =>
         /\ HasRow(f) /\ ~isPublic[f] => f \notin exposed
         /\ r.at \in {"exists", "acl"} => r.public = isPublic[f]
    /\ r.op = "publish" /\ r.at = "save" /\ HasRow(f) /\ ~r.public => f \notin exposed

\* What a confirmation found is there while no removal works on it.
ObjectSound(r, f) ==
  <<f, "object">> \notin contested /\ r.op = "confirm" /\ r.at \in {"acl", "save"} => f \in object

\* What the clean-up has found stays expired, and is not confirmed but late.
Spoilt(f) == fileRow[f] = "gone" \/ (f \in overdue /\ fileRow[f] # "UPLOADED")
ExpirySound(r, f) == r.op = "cleanup" /\ <<f, "late">> \notin contested => Spoilt(f)

JobSound(r) ==
  Shaped(r) /\ \A f \in r.on : fileRow[f] # "none" /\ AclSound(r, f) /\ ObjectSound(r, f) /\ ExpirySound(r, f)

JobsSound == \A j \in Uploaders : JobSound(job[j])

\* Two requests that write over each other are on record.
Recorded ==
  \A j, k \in Uploaders : j # k =>
    \A f \in job[j].on \cap job[k].on, c \in Disturbs(job[j].op, job[k].op) : <<f, c>> \in contested

Unsigned == \A f \in Files : fileRow[f] = "none" => f \notin exposed

UInv ==
  /\ UploadTypeOK /\ JobsSound /\ Recorded /\ Unsigned
  /\ UploadedHasObject /\ PrivateNotExposed
-----------------------------------------------------------------------------
\* A step leaves the request r on the file f as sound as it was.
Spares(r, f) ==
  /\ fileRow'[f] # "none" /\ (HasRow(f)' => HasRow(f))
  /\ <<f, "acl">> \notin contested' /\ r.op \in Publishers =>
       isPublic'[f] = isPublic[f] /\ (f \in exposed' => f \in exposed)
  /\ <<f, "object">> \notin contested' /\ r.op = "confirm" /\ f \in object => f \in object'
  /\ <<f, "late">> \notin contested' /\ r.op = "cleanup" /\ Spoilt(f) => Spoilt(f)'

LEMMA SparedSound ==
  ASSUME NEW r \in Job, JobSound(r), contested \subseteq contested', \A f \in r.on : Spares(r, f)
  PROVE  JobSound(r)'
<1> SUFFICES ASSUME NEW f \in r.on
             PROVE  fileRow'[f] # "none" /\ AclSound(r, f)' /\ ObjectSound(r, f)' /\ ExpirySound(r, f)'
  BY DEF JobSound
<1>1. Spares(r, f) /\ AclSound(r, f) /\ ObjectSound(r, f) /\ ExpirySound(r, f)
  BY DEF JobSound
<1>2. AclSound(r, f)'
  <2> SUFFICES ASSUME <<f, "acl">> \notin contested'
               PROVE  AclSound(r, f)'
    BY DEF AclSound
  <2>1. <<f, "acl">> \notin contested
    OBVIOUS
  <2> QED  BY <1>1, <2>1 DEF AclSound, Spares, Spoilt, Publishers
<1>3. ObjectSound(r, f)'
  BY <1>1 DEF ObjectSound, Spares, Spoilt
<1>4. ExpirySound(r, f)'
  BY <1>1 DEF ExpirySound, Spoilt, Spares
<1> QED  BY <1>1, <1>2, <1>3, <1>4 DEF Spares, Spoilt

LEMMA JobFacts ==
  ASSUME UInv, NEW j \in Uploaders
  PROVE  /\ job[j] \in Job /\ JobSound(job[j]) /\ job[j].on \subseteq Files
         /\ job[j].left \subseteq Files /\ job[j].op \in UploadOps /\ job[j].public \in BOOLEAN
BY DEF UInv, UploadTypeOK, JobsSound, Job

LEMMA NoJobSound == NoJob \in Job /\ NoJob.on = {} /\ JobSound(NoJob) /\ JobSound(NoJob)'
BY DEF NoJob, Job, UploadOps, UploadLabels, JobSound, Shaped

\* A step of the request j, which goes on as r with no new files, or ends.
LEMMA JobStep ==
  ASSUME UInv, NEW j \in Uploaders, NEW r \in Job, job' = [job EXCEPT ![j] = r],
         r.on \subseteq job[j].on, r.on = {} \/ r.op = job[j].op,
         contested \subseteq contested', JobSound(r)',
         \A k \in Uploaders \ {j} : \A f \in job[k].on : Spares(job[k], f)
  PROVE  JobsSound' /\ Recorded' /\ job' \in [Uploaders -> Job]
<1>1. \A k \in Uploaders : job'[k] = IF k = j THEN r ELSE job[k]
  BY DEF UInv, UploadTypeOK
<1>2. JobsSound'
  <2> SUFFICES ASSUME NEW k \in Uploaders PROVE JobSound(job[k])'
    BY DEF JobsSound
  <2>1. CASE k = j
    <3>1. job'[k] = r
      BY <1>1, <2>1
    <3> QED  BY <3>1 DEF JobSound, Shaped, AclSound, ObjectSound, ExpirySound, Spoilt, HasRow
  <2>2. CASE k # j
    <3>1. PICK x \in Job : x = job[k]
      BY JobFacts
    <3>2. JobSound(x) /\ \A f \in x.on : Spares(x, f)
      BY <2>2, <3>1, JobFacts DEF Spares, Spoilt
    <3>3. JobSound(x)'
      BY <3>2, SparedSound
    <3>4. job'[k] = x
      BY <1>1, <2>2, <3>1
    <3> QED  BY <3>3, <3>4 DEF JobSound, Shaped, AclSound, ObjectSound, ExpirySound, Spoilt, HasRow
  <2> QED  BY <2>1, <2>2
<1>3. Recorded'
  <2> SUFFICES ASSUME NEW k \in Uploaders, NEW l \in Uploaders, k # l,
                      NEW f \in job'[k].on \cap job'[l].on, NEW c \in Disturbs(job'[k].op, job'[l].op)
               PROVE  <<f, c>> \in contested'
    BY DEF Recorded, Disturbs
  <2>1. /\ f \in job[k].on \cap job[l].on
        /\ job'[k].op = job[k].op /\ job'[l].op = job[l].op
    BY <1>1
  <2> QED  BY <2>1 DEF UInv, Recorded
<1> QED  BY <1>2, <1>3 DEF UInv, UploadTypeOK
-----------------------------------------------------------------------------
LEMMA InitUInv == InitUploads => UInv
<1> SUFFICES ASSUME InitUploads PROVE UInv
  OBVIOUS
<1>1. \A j \in Uploaders : job[j] = NoJob
  BY DEF InitUploads
<1>2. UploadTypeOK
  BY NoJobSound DEF InitUploads, UploadTypeOK
<1>3. JobsSound
  BY <1>1, NoJobSound DEF JobsSound
<1>4. Recorded
  BY <1>1, NoJobSound DEF Recorded
<1>5. Unsigned /\ UploadedHasObject /\ PrivateNotExposed
  BY DEF InitUploads, Unsigned, UploadedHasObject, PrivateNotExposed, HasRow, FileStatus
<1> QED  BY <1>2, <1>3, <1>4, <1>5 DEF UInv

\* Whoever works on f with an operation that op disturbs is on record.
LEMMA ClashesRecord ==
  ASSUME UInv, NEW op \in UploadOps, NEW files \in SUBSET Files, NEW k \in Uploaders,
         NEW f \in files \cap job[k].on, NEW c \in Disturbs(op, job[k].op)
  PROVE  <<f, c>> \in Clashes(op, files)
<1>1. c \in {"object", "acl"}
  BY DEF Disturbs
<1>2. k \in Working(f, UploadOps)
  BY JobFacts DEF Working
<1> QED  BY <1>1, <1>2 DEF Clashes

\* A request that starts is as sound as the state it finds.
LEMMA StartSound ==
  ASSUME UInv, NEW j \in Uploaders, NEW op \in UploadOps, NEW label \in UploadLabels \ {"idle"},
         NEW files \in SUBSET Files, NEW public \in BOOLEAN,
         Start(j, op, label, files, public), UNCHANGED <<fileVars, storeVars>>,
         NEW r \in Job, r = [op |-> op, at |-> label, on |-> files, public |-> public,
                             left |-> IF label = "drop" THEN files ELSE {}],
         Shaped(r), \A f \in files : fileRow[f] # "none" /\ ExpirySound(r, f),
         op = "confirm" => label = "exists" /\ \A f \in files : public = isPublic[f],
         op = "publish" /\ label = "save" => \A f \in files : public = isPublic[f]
  PROVE  JobSound(r)'
<1> SUFFICES ASSUME NEW f \in files
             PROVE  fileRow'[f] # "none" /\ AclSound(r, f)' /\ ObjectSound(r, f)' /\ ExpirySound(r, f)'
  BY DEF JobSound, Shaped
<1>1. contested' = contested \cup Clashes(op, files) /\ UNCHANGED <<fileRow, isPublic, overdue, object, exposed>>
  BY DEF Start, fileVars, storeVars
<1>2. AclSound(r, f)'
  <2>1. CASE op \in Publishers /\ Working(f, Publishers) # {}
    <3>1. PICK k \in Uploaders : job[k].op \in Publishers /\ f \in job[k].on
      BY <2>1 DEF Working
    <3>2. "acl" \in Disturbs(op, job[k].op)
      BY <2>1, <3>1 DEF Disturbs
    <3>3. <<f, "acl">> \in contested'
      BY <1>1, <3>1, <3>2, ClashesRecord
    <3> QED  BY <3>3 DEF AclSound
  <2>2. CASE op \in Publishers /\ Working(f, Publishers) = {}
    <3>1. <<f, "acl">> \notin contested' /\ HasRow(f) /\ ~isPublic[f] => f \notin exposed
      BY <1>1, <2>2 DEF UInv, PrivateNotExposed
    <3> QED  BY <1>1, <3>1 DEF AclSound, HasRow
  <2>3. CASE op \notin Publishers
    BY <2>3 DEF AclSound, Publishers
  <2> QED  BY <2>1, <2>2, <2>3
<1>3. ObjectSound(r, f)'
  BY DEF ObjectSound
<1>4. ExpirySound(r, f)'
  BY <1>1 DEF ExpirySound, Spoilt
<1> QED  BY <1>1, <1>2, <1>3, <1>4

LEMMA StartKeeps ==
  ASSUME UInv, NEW j \in Uploaders, NEW op \in UploadOps, NEW label \in UploadLabels \ {"idle"},
         NEW files \in SUBSET Files, NEW public \in BOOLEAN,
         Start(j, op, label, files, public), UNCHANGED <<fileVars, storeVars>>,
         NEW r \in Job, r = [op |-> op, at |-> label, on |-> files, public |-> public,
                             left |-> IF label = "drop" THEN files ELSE {}],
         JobSound(r)'
  PROVE  UInv'
<1>1. /\ contested' = contested \cup Clashes(op, files) /\ job[j] = NoJob
      /\ job' = [job EXCEPT ![j] = r]
      /\ UNCHANGED <<fileRow, isPublic, overdue, object, exposed, token, put>>
  BY DEF Start, fileVars, storeVars
<1>2. \A k \in Uploaders : job'[k] = IF k = j THEN r ELSE job[k]
  BY <1>1 DEF UInv, UploadTypeOK
<1>3. UploadTypeOK'
  <2>1. contested' \subseteq Files \X {"object", "acl", "late"}
    BY <1>1 DEF UInv, UploadTypeOK, Clashes
  <2> QED  BY <1>1, <2>1 DEF UInv, UploadTypeOK
<1>4. JobsSound'
  <2> SUFFICES ASSUME NEW k \in Uploaders PROVE JobSound(job[k])'
    BY DEF JobsSound
  <2>1. CASE k = j
    <3>1. job'[k] = r
      BY <1>2, <2>1
    <3> QED  BY <3>1 DEF JobSound, Shaped, AclSound, ObjectSound, ExpirySound, Spoilt, HasRow
  <2>2. CASE k # j
    <3>1. PICK x \in Job : x = job[k]
      BY JobFacts
    <3>2. JobSound(x) /\ \A f \in x.on : Spares(x, f)
      BY <1>1, <3>1, JobFacts DEF Spares, Spoilt, HasRow, JobSound
    <3>3. JobSound(x)'
      BY <1>1, <3>2, SparedSound
    <3>4. job'[k] = x
      BY <1>2, <2>2, <3>1
    <3> QED  BY <3>3, <3>4 DEF JobSound, Shaped, AclSound, ObjectSound, ExpirySound, Spoilt, HasRow
  <2> QED  BY <2>1, <2>2
<1>5. Recorded'
  <2> SUFFICES ASSUME NEW k \in Uploaders, NEW l \in Uploaders, k # l,
                      NEW f \in job'[k].on \cap job'[l].on, NEW c \in Disturbs(job'[k].op, job'[l].op)
               PROVE  <<f, c>> \in contested'
    BY DEF Recorded, Disturbs
  <2>1. CASE k # j /\ l # j
    BY <1>1, <1>2, <2>1 DEF UInv, Recorded
  <2>2. CASE k = j
    BY <1>1, <1>2, <2>2, ClashesRecord
  <2>3. CASE l = j
    <3>1. c \in Disturbs(op, job[k].op)
      BY <1>2, <2>3 DEF Disturbs
    <3> QED  BY <1>1, <1>2, <2>3, <3>1, ClashesRecord
  <2> QED  BY <2>1, <2>2, <2>3
<1>6. Unsigned'
  BY <1>1 DEF UInv, Unsigned
<1>7. \A f \in Files, ops \in {Removals, Publishers} : Working(f, ops) # {} => Working(f, ops)' # {}
  BY <1>1, <1>2, NoJobSound DEF Working
<1>8. UploadedHasObject' /\ PrivateNotExposed'
  BY <1>1, <1>7 DEF UInv, UploadedHasObject, PrivateNotExposed, HasRow
<1> QED  BY <1>3, <1>4, <1>5, <1>6, <1>8 DEF UInv

LEMMA StartUInv ==
  ASSUME UInv, NEW j \in Uploaders, NEW op \in UploadOps, NEW label \in UploadLabels \ {"idle"},
         NEW files \in SUBSET Files, NEW public \in BOOLEAN,
         Start(j, op, label, files, public), UNCHANGED <<fileVars, storeVars>>,
         \/ op = "confirm" /\ label = "exists"
         \/ op \in Removals /\ label = "drop"
         \/ op = "publish" /\ label \in {"acl", "save"},
         \A f \in files : HasRow(f),
         op = "cleanup" => \A f \in files : f \in overdue /\ fileRow[f] # "UPLOADED",
         op = "confirm" => \A f \in files : public = isPublic[f],
         op = "publish" /\ label = "save" => \A f \in files : public = isPublic[f]
  PROVE  UInv'
<1>0. PICK left \in SUBSET Files : left = IF label = "drop" THEN files ELSE {}
  OBVIOUS
<1>1. PICK r \in Job : r = [op |-> op, at |-> label, on |-> files, public |-> public,
                            left |-> IF label = "drop" THEN files ELSE {}]
  <2>1. [op |-> op, at |-> label, on |-> files, public |-> public, left |-> left] \in Job
    BY DEF Job
  <2> QED  BY <1>0, <2>1
<1>2. r.op = op /\ r.at = label /\ r.left \subseteq r.on
  BY <1>1
<1>3. Shaped(r)
  BY <1>2 DEF Shaped, Removals, Publishers
<1>4. \A f \in files : fileRow[f] # "none" /\ ExpirySound(r, f)
  BY <1>2 DEF HasRow, FileStatus, ExpirySound, Spoilt
<1>5. op = "confirm" => label = "exists" /\ \A f \in files : public = isPublic[f]
  BY DEF Removals
<1>6. JobSound(r)'
  BY <1>1, <1>3, <1>4, <1>5, StartSound
<1> QED  BY <1>1, <1>6, StartKeeps

LEMMA StartsKeep ==
  ASSUME UInv, NEW j \in Uploaders, NEW f \in Files, NEW files \in SUBSET Files, NEW public \in BOOLEAN,
         \/ Confirm(j, f) \/ Cancel(j, f) \/ Toggle(j, f) \/ Update(j, f, public)
         \/ Delete(j, files) \/ FindExpired(j)
  PROVE  UInv'
<1> USE DEF UploadOps, UploadLabels, Removals, HasRow, FileStatus
<1>0. isPublic \in [Files -> BOOLEAN]
  BY DEF UInv, UploadTypeOK
<1>1. CASE Confirm(j, f)
  <2>1. isPublic[f] \in BOOLEAN /\ Start(j, "confirm", "exists", {f}, isPublic[f])
    BY <1>0, <1>1 DEF Confirm
  <2> QED  BY <1>1, <2>1, StartUInv DEF Confirm
<1>2. CASE Cancel(j, f)
  <2>1. {f} \in SUBSET Files /\ Start(j, "cancel", "drop", {f}, FALSE) /\ HasRow(f)
    BY <1>2 DEF Cancel
  <2> QED  BY <1>2, <2>1, StartUInv DEF Cancel
<1>3. CASE Toggle(j, f)
  <2>1. PICK new \in BOOLEAN : new = ~isPublic[f]
    BY <1>0
  <2>2. {f} \in SUBSET Files /\ Start(j, "publish", "acl", {f}, new) /\ HasRow(f)
    BY <1>3, <2>1 DEF Toggle
  <2> QED  BY <1>3, <2>2, StartUInv DEF Toggle
<1>4. CASE Update(j, f, public) /\ public # isPublic[f]
  BY <1>4, StartUInv DEF Update
<1>5. CASE Update(j, f, public) /\ public = isPublic[f]
  BY <1>5, StartUInv DEF Update
<1>6. CASE Delete(j, files)
  BY <1>6, StartUInv DEF Delete
<1>7. CASE FindExpired(j)
  <2>1. PICK found \in SUBSET Files : found = {g \in overdue : fileRow[g] = "PENDING"}
    BY DEF UInv, UploadTypeOK
  <2>2. Start(j, "cleanup", "drop", found, FALSE) /\ UNCHANGED <<fileVars, storeVars>>
    BY <1>7, <2>1 DEF FindExpired
  <2> QED  BY <2>1, <2>2, StartUInv
<1> QED  BY <1>1, <1>2, <1>3, <1>4, <1>5, <1>6, <1>7
-----------------------------------------------------------------------------
(***************************************************************************)
(* Steps of the host and the client: no request changes.                   *)
(***************************************************************************)
LEMMA HostStep ==
  ASSUME UInv, UNCHANGED <<job, contested>>,
         \A k \in Uploaders : \A f \in job[k].on : Spares(job[k], f)
  PROVE  JobsSound' /\ Recorded' /\ \A f \in Files : \A ops : Working(f, ops)' = Working(f, ops)
<1>1. JobsSound'
  <2> SUFFICES ASSUME NEW k \in Uploaders PROVE JobSound(job[k])'
    BY DEF JobsSound
  <2>1. PICK x \in Job : x = job[k]
    BY JobFacts
  <2>2. JobSound(x) /\ \A f \in x.on : Spares(x, f)
    BY <2>1, JobFacts DEF Spares, Spoilt
  <2>3. JobSound(x)'
    BY <2>2, SparedSound
  <2> QED  BY <2>1, <2>3 DEF JobSound, Shaped, AclSound, ObjectSound, ExpirySound, Spoilt, HasRow
<1>2. Recorded'
  BY DEF UInv, Recorded
<1> QED  BY <1>1, <1>2 DEF Working

LEMMA JobHasRow ==
  ASSUME UInv, NEW k \in Uploaders, NEW f \in job[k].on
  PROVE  f \in Files /\ fileRow[f] # "none"
BY JobFacts DEF JobSound

LEMMA SignKeeps ==
  ASSUME UInv, NEW f \in Files, NEW public \in BOOLEAN, Sign(f, public)
  PROVE  UInv'
<1>1. /\ fileRow[f] = "none" /\ fileRow' = [fileRow EXCEPT ![f] = "PENDING"]
      /\ isPublic' = [isPublic EXCEPT ![f] = public]
      /\ token' = token \cup {f} /\ UNCHANGED <<overdue, object, exposed, put, job, contested>>
  BY DEF Sign
<1>2. UploadTypeOK'
  BY <1>1 DEF UInv, UploadTypeOK, FileStatus
<1>3. \A g \in Files : fileRow'[g] = (IF g = f THEN "PENDING" ELSE fileRow[g])
                       /\ isPublic'[g] = (IF g = f THEN public ELSE isPublic[g])
  BY <1>1 DEF UInv, UploadTypeOK
<1>4. \A k \in Uploaders : \A g \in job[k].on : Spares(job[k], g)
  BY <1>1, <1>3, JobHasRow DEF Spares, Spoilt, HasRow
<1>5. Unsigned' /\ UploadedHasObject' /\ PrivateNotExposed'
  BY <1>1, <1>3, <1>4, HostStep
     DEF UInv, Unsigned, UploadedHasObject, PrivateNotExposed, HasRow, Working
<1> QED  BY <1>1, <1>2, <1>4, <1>5, HostStep DEF UInv

\* The client's PUT: the object comes, and is private.
LEMMA PutKeeps ==
  ASSUME UInv, NEW f \in Files, PutBegins(f) \/ PutEnds(f)
  PROVE  UInv'
<1>1. /\ object \subseteq object' /\ object' \subseteq object \cup {f}
      /\ exposed' \subseteq exposed /\ token' \subseteq token /\ put' \subseteq put \cup {f}
      /\ UNCHANGED <<fileRow, isPublic, overdue, job, contested>>
  BY DEF PutBegins, PutEnds, fileVars
<1>2. UploadTypeOK'
  BY <1>1 DEF UInv, UploadTypeOK
<1>3. \A k \in Uploaders : \A g \in job[k].on : Spares(job[k], g)
  BY <1>1, JobHasRow DEF Spares, Spoilt, HasRow
<1>4. Unsigned' /\ UploadedHasObject' /\ PrivateNotExposed'
  BY <1>1 DEF UInv, Unsigned, UploadedHasObject, PrivateNotExposed, HasRow, Working
<1> QED  BY <1>1, <1>2, <1>3, <1>4, HostStep DEF UInv

LEMMA ExpireKeeps ==
  ASSUME UInv, NEW f \in Files, Expire(f)
  PROVE  UInv'
<1>1. /\ overdue' = overdue \cup {f} /\ token' \subseteq token
      /\ UNCHANGED <<fileRow, isPublic, object, exposed, put, job, contested>>
  BY DEF Expire
<1>2. UploadTypeOK'
  BY <1>1 DEF UInv, UploadTypeOK
<1>3. \A k \in Uploaders : \A g \in job[k].on : Spares(job[k], g)
  BY <1>1, JobHasRow DEF Spares, Spoilt, HasRow, Working
<1>4. Unsigned' /\ UploadedHasObject' /\ PrivateNotExposed'
  BY <1>1 DEF UInv, Unsigned, UploadedHasObject, PrivateNotExposed, HasRow, Working
<1> QED  BY <1>1, <1>2, <1>3, <1>4, HostStep DEF UInv
-----------------------------------------------------------------------------
(***************************************************************************)
(* Steps of one request                                                    *)
(***************************************************************************)
LEMMA Clashed ==
  ASSUME UInv, NEW j \in Uploaders, NEW k \in Uploaders \ {j}, NEW f \in job[j].on \cap job[k].on
  PROVE  /\ job[j].op \in Publishers /\ job[k].op \in Publishers => <<f, "acl">> \in contested
         /\ job[j].op = "confirm" /\ job[k].op \in Removals => <<f, "object">> \in contested
         /\ job[k].op = "confirm" /\ job[j].op \in Removals => <<f, "object">> \in contested
BY DEF UInv, Recorded, Disturbs

LEMMA JobsAfter ==
  ASSUME UInv, NEW j \in Uploaders, NEW r, job' = [job EXCEPT ![j] = r]
  PROVE  \A k \in Uploaders : job'[k] = IF k = j THEN r ELSE job[k]
BY DEF UInv, UploadTypeOK

\* The request moves on, or breaks off; the rows and the store stay.
LEMMA MoveKeeps ==
  ASSUME UInv, NEW j \in Uploaders, NEW r \in Job, job' = [job EXCEPT ![j] = r],
         UNCHANGED <<fileVars, storeVars>>, JobSound(r)',
         contested \subseteq contested', contested' \subseteq Files \X {"object", "acl", "late"},
         \/ r.on = job[j].on /\ r.op = job[j].op
         \/ r = NoJob /\ \A f \in job[j].on :
              /\ job[j].op \in Removals => <<f, "object">> \in contested'
              /\ job[j].op = "publish" => <<f, "acl">> \in contested'
  PROVE  UInv'
<1>1. UNCHANGED <<fileRow, isPublic, overdue, object, exposed, token, put>>
  BY DEF fileVars, storeVars
<1>2. r.on \subseteq job[j].on /\ (r.on = {} \/ r.op = job[j].op)
  BY NoJobSound
<1>3. \A k \in Uploaders \ {j} : \A f \in job[k].on : Spares(job[k], f)
  BY <1>1, JobHasRow DEF Spares, Spoilt, HasRow
<1>4. JobsSound' /\ Recorded' /\ job' \in [Uploaders -> Job]
  BY <1>2, <1>3, JobStep
<1>5. UploadTypeOK'
  BY <1>1, <1>4 DEF UInv, UploadTypeOK
<1>6. Unsigned'
  BY <1>1 DEF UInv, Unsigned
<1>7. UploadedHasObject'
  <2> SUFFICES ASSUME NEW f \in Files, fileRow[f] = "UPLOADED", <<f, "object">> \notin contested',
                      f \notin object
               PROVE  Working(f, Removals)' # {}
    BY <1>1 DEF UploadedHasObject
  <2>1. Working(f, Removals) # {}
    BY DEF UInv, UploadedHasObject
  <2>2. /\ Working(f, Removals)' # {} \/ (f \in job[j].on /\ job[j].op \in Removals)
        /\ r.on = job[j].on /\ r.op = job[j].op => Working(f, Removals)' = Working(f, Removals)
    BY <2>1, JobsAfter DEF Working
  <2> QED  BY <2>1, <2>2
<1>8. PrivateNotExposed'
  <2> SUFFICES ASSUME NEW f \in Files, HasRow(f), ~isPublic[f], f \in exposed,
                      <<f, "acl">> \notin contested'
               PROVE  Working(f, Publishers)' # {}
    BY <1>1 DEF PrivateNotExposed, HasRow
  <2>1. Working(f, Publishers) # {}
    BY DEF UInv, PrivateNotExposed
  <2>2. ~(f \in job[j].on /\ job[j].op = "confirm")
    BY JobFacts DEF JobSound, AclSound
  <2>3. /\ Working(f, Publishers)' # {} \/ (f \in job[j].on /\ job[j].op \in Publishers)
        /\ r.on = job[j].on /\ r.op = job[j].op => Working(f, Publishers)' = Working(f, Publishers)
    BY <2>1, JobsAfter DEF Working
  <2>4. job[j].op \in Publishers => job[j].op \in {"confirm", "publish"}
    BY DEF Publishers
  <2> QED  BY <2>1, <2>2, <2>3, <2>4
<1> QED  BY <1>4, <1>5, <1>6, <1>7, <1>8 DEF UInv

LEMMA CheckObjectKeeps ==
  ASSUME UInv, NEW j \in Uploaders, CheckObject(j)
  PROVE  UInv'
<1> DEFINE label == IF job[j].on \subseteq object THEN "acl" ELSE "fail"
<1>1. /\ job[j].op = "confirm" /\ job[j].at = "exists"
      /\ UNCHANGED <<fileVars, storeVars, contested>>
      /\ job' = [job EXCEPT ![j].at = label]
  BY DEF CheckObject, JobAt, JobGoto
<1>2. job[j] \in Job /\ JobSound(job[j])
  BY JobFacts
<1>3. PICK r \in Job : r = [job[j] EXCEPT !.at = label]
  BY <1>2 DEF Job, UploadLabels
<1>4. /\ r.at = label /\ r.op = "confirm" /\ r.on = job[j].on /\ r.public = job[j].public
      /\ r.left = job[j].left /\ job' = [job EXCEPT ![j] = r]
  BY <1>1, <1>2, <1>3 DEF Job
<1>5. \A f \in r.on : /\ AclSound(r, f) /\ ObjectSound(r, f) /\ ExpirySound(r, f)
                      /\ fileRow[f] # "none"
  BY <1>1, <1>2, <1>4 DEF JobSound, AclSound, ObjectSound, ExpirySound, Spoilt
<1>6. Shaped(r)
  BY <1>2, <1>4 DEF JobSound, Shaped, Publishers
<1>7. JobSound(r)'
  BY <1>1, <1>5, <1>6
     DEF JobSound, Shaped, AclSound, ObjectSound, ExpirySound, Spoilt, HasRow, fileVars, storeVars
<1>8. contested' = contested /\ contested \subseteq Files \X {"object", "acl", "late"}
  BY <1>1 DEF UInv, UploadTypeOK
<1> QED  BY <1>1, <1>4, <1>7, <1>8, MoveKeeps

\* setFileVisibility after an error of the provider: on record.
LEMMA SetAclRefusedKeeps ==
  ASSUME UInv, NEW j \in Uploaders, SetAclRefused(j)
  PROVE  UInv'
<1>1. /\ job[j].at = "acl" /\ UNCHANGED <<fileVars, storeVars>>
      /\ contested' = contested \cup (job[j].on \X {"acl"})
      /\ job' = [job EXCEPT ![j].at = "save"]
  BY DEF SetAclRefused, JobGoto
<1>2. job[j] \in Job /\ JobSound(job[j]) /\ job[j].on \subseteq Files
  BY JobFacts
<1>3. PICK r \in Job : r = [job[j] EXCEPT !.at = "save"]
  BY <1>2 DEF Job, UploadLabels
<1>4. /\ r.at = "save" /\ r.op = job[j].op /\ r.on = job[j].on /\ r.public = job[j].public
      /\ r.left = job[j].left /\ job' = [job EXCEPT ![j] = r]
  BY <1>1, <1>2, <1>3 DEF Job
<1>5. \A f \in r.on : /\ <<f, "acl">> \in contested' /\ ObjectSound(r, f) /\ ExpirySound(r, f)
                      /\ fileRow[f] # "none"
  BY <1>1, <1>2, <1>4 DEF JobSound, ObjectSound, ExpirySound, Spoilt
<1>6. Shaped(r)
  BY <1>1, <1>2, <1>4 DEF JobSound, Shaped
<1>7. contested \subseteq contested' /\ contested' \subseteq Files \X {"object", "acl", "late"}
  BY <1>1, <1>2 DEF UInv, UploadTypeOK
<1>8. JobSound(r)'
  BY <1>1, <1>5, <1>6, <1>7
     DEF JobSound, Shaped, AclSound, ObjectSound, ExpirySound, Spoilt, fileVars, storeVars
<1> QED  BY <1>1, <1>4, <1>7, <1>8, MoveKeeps

LEMMA BreakOffKeeps ==
  ASSUME UInv, NEW j \in Uploaders, BreakOff(j)
  PROVE  UInv'
<1> DEFINE what == CASE job[j].op \in Removals -> {"object"}
                     [] job[j].op = "publish" -> {"acl"}
                     [] OTHER -> {}
<1>1. /\ UNCHANGED <<fileVars, storeVars>> /\ job' = [job EXCEPT ![j] = NoJob]
      /\ contested' = contested \cup (job[j].on \X what)
  BY DEF BreakOff, JobEnds
<1>2. /\ job[j].op \in Removals => what = {"object"}
      /\ job[j].op = "publish" => what = {"acl"}
      /\ what \subseteq {"object", "acl"}
  BY JobFacts DEF Removals, UploadOps
<1> HIDE DEF what
<1>3. contested \subseteq contested' /\ contested' \subseteq Files \X {"object", "acl", "late"}
  BY <1>1, <1>2, JobFacts DEF UInv, UploadTypeOK
<1>4. \A f \in job[j].on : /\ job[j].op \in Removals => <<f, "object">> \in contested'
                           /\ job[j].op = "publish" => <<f, "acl">> \in contested'
  BY <1>1, <1>2
<1> QED  BY <1>1, <1>3, <1>4, NoJobSound, MoveKeeps

LEMMA RecordKept ==
  ASSUME UInv, UNCHANGED contested
  PROVE  contested \subseteq contested' /\ contested' \subseteq Files \X {"object", "acl", "late"}
BY DEF UInv, UploadTypeOK

\* An end of the request that wrote rows: what is left to show of each file.
LEMMA EndKeeps ==
  ASSUME UInv, NEW j \in Uploaders, JobEnds(j), UNCHANGED storeVars,
         contested \subseteq contested', contested' \subseteq Files \X {"object", "acl", "late"},
         fileRow' \in [Files -> FileStatus \cup {"none", "gone"}],
         isPublic' \in [Files -> BOOLEAN], overdue' \subseteq Files,
         \A f \in Files : fileRow[f] = "none" <=> fileRow'[f] = "none",
         \A k \in Uploaders \ {j} : \A f \in job[k].on : Spares(job[k], f),
         \A f \in Files : fileRow'[f] = "UPLOADED" /\ <<f, "object">> \notin contested' /\ f \notin object
            => fileRow[f] = "UPLOADED" /\ ~(f \in job[j].on /\ job[j].op \in Removals),
         \A f \in Files : HasRow(f)' /\ ~isPublic'[f] /\ <<f, "acl">> \notin contested' /\ f \in exposed
            => HasRow(f) /\ ~isPublic[f] /\ ~(f \in job[j].on /\ job[j].op \in Publishers)
  PROVE  UInv'
<1>1. /\ job' = [job EXCEPT ![j] = NoJob]
      /\ UNCHANGED <<object, exposed, token, put>>
  BY DEF JobEnds, storeVars
<1>2. \A k \in Uploaders : job'[k] = IF k = j THEN NoJob ELSE job[k]
  BY <1>1 DEF UInv, UploadTypeOK
<1>3. JobsSound' /\ Recorded' /\ job' \in [Uploaders -> Job]
  BY <1>1, NoJobSound, JobStep
<1>4. UploadTypeOK'
  BY <1>1, <1>3 DEF UInv, UploadTypeOK
<1>5. Unsigned'
  BY <1>1 DEF UInv, Unsigned
<1>6. UploadedHasObject'
  BY <1>1, <1>2 DEF UInv, UploadedHasObject, Working
<1>7. PrivateNotExposed'
  <2> SUFFICES ASSUME NEW f \in Files, HasRow(f)', ~isPublic'[f], f \in exposed,
                      <<f, "acl">> \notin contested'
               PROVE  Working(f, Publishers)' # {}
    BY <1>1 DEF PrivateNotExposed
  <2>1. Working(f, Publishers) # {} /\ ~(f \in job[j].on /\ job[j].op \in Publishers)
    BY DEF UInv, PrivateNotExposed
  <2> QED  BY <1>2, <2>1 DEF Working
<1> QED  BY <1>3, <1>4, <1>5, <1>6, <1>7 DEF UInv

LEMMA MarkFailedKeeps ==
  ASSUME UInv, NEW j \in Uploaders, MarkFailed(j)
  PROVE  UInv'
<1>1. /\ job[j].op = "confirm" /\ job[j].at = "fail" /\ JobEnds(j)
      /\ UNCHANGED <<isPublic, overdue, storeVars, contested, object, exposed>>
      /\ fileRow' = [f \in Files |-> IF f \in job[j].on /\ HasRow(f) THEN "FAILED" ELSE fileRow[f]]
  BY DEF MarkFailed, JobAt, storeVars
<1>2. fileRow \in [Files -> FileStatus \cup {"none", "gone"}] /\ isPublic \in [Files -> BOOLEAN]
      /\ overdue \subseteq Files
  BY DEF UInv, UploadTypeOK
<1>3. \A f \in Files : /\ fileRow'[f] = fileRow[f] \/ (fileRow'[f] = "FAILED" /\ HasRow(f))
                       /\ fileRow[f] = "none" <=> fileRow'[f] = "none"
                       /\ HasRow(f)' <=> HasRow(f)
  BY <1>1 DEF HasRow, FileStatus
<1>4. \A k \in Uploaders \ {j} : \A f \in job[k].on : Spares(job[k], f)
  BY <1>1, <1>3, JobHasRow DEF Spares, Spoilt, HasRow, FileStatus
<1>5. \A f \in job[j].on : <<f, "acl">> \notin contested /\ HasRow(f) /\ ~isPublic[f] => f \notin exposed
  BY <1>1, JobFacts DEF JobSound, AclSound
<1>6. fileRow' \in [Files -> FileStatus \cup {"none", "gone"}]
  BY <1>1, <1>2 DEF FileStatus
<1>7. \A f \in Files : fileRow'[f] = "UPLOADED" => fileRow[f] = "UPLOADED"
  BY <1>3
<1>8. job[j].op \notin Removals
  BY <1>1 DEF Removals
<1> QED  BY <1>1, <1>2, <1>3, <1>4, <1>5, <1>6, <1>7, <1>8, RecordKept, EndKeeps

LEMMA MarkUploadedKeeps ==
  ASSUME UInv, NEW j \in Uploaders, MarkUploaded(j)
  PROVE  UInv'
<1> DEFINE rows == {f \in job[j].on : HasRow(f)}
<1>1. /\ job[j].op = "confirm" /\ job[j].at = "save" /\ JobEnds(j)
      /\ UNCHANGED <<isPublic, storeVars, object, exposed>>
      /\ fileRow' = [f \in Files |-> IF f \in rows THEN "UPLOADED" ELSE fileRow[f]]
      /\ overdue' = overdue \ rows
      /\ contested' = contested \cup ((rows \cap overdue) \X {"late"})
  BY DEF MarkUploaded, JobAt, storeVars
<1>2. fileRow \in [Files -> FileStatus \cup {"none", "gone"}] /\ isPublic \in [Files -> BOOLEAN]
      /\ overdue \subseteq Files
  BY DEF UInv, UploadTypeOK
<1>3. \A f \in Files : /\ fileRow'[f] = IF f \in rows THEN "UPLOADED" ELSE fileRow[f]
                       /\ fileRow[f] = "none" <=> fileRow'[f] = "none"
                       /\ HasRow(f)' <=> HasRow(f)
  BY <1>1 DEF HasRow, FileStatus
<1>4. \A f \in job[j].on : /\ AclSound(job[j], f) /\ ObjectSound(job[j], f)
                           /\ ExpirySound(job[j], f) /\ f \in Files
  BY JobFacts DEF JobSound
<1>5. ASSUME NEW k \in Uploaders \ {j}, NEW f \in job[k].on
      PROVE  Spares(job[k], f)
  <2>1. f \in Files /\ fileRow[f] # "none"
    BY JobHasRow
  <2>2. <<f, "late">> \notin contested' /\ Spoilt(f) => f \notin rows
    BY <1>1 DEF Spoilt, HasRow, FileStatus
  <2> QED  BY <1>1, <1>3, <2>1, <2>2 DEF Spares, Spoilt
<1>6. \A f \in job[j].on : /\ <<f, "acl">> \notin contested /\ HasRow(f) /\ ~isPublic[f] => f \notin exposed
                           /\ <<f, "object">> \notin contested => f \in object
  BY <1>1, <1>4 DEF AclSound, ObjectSound
<1>7. fileRow' \in [Files -> FileStatus \cup {"none", "gone"}] /\ overdue' \subseteq Files
  BY <1>1, <1>2 DEF FileStatus
<1>8. job[j].op \notin Removals
  BY <1>1 DEF Removals
<1>9. \A f \in Files : fileRow'[f] = "UPLOADED" /\ <<f, "object">> \notin contested /\ f \notin object
            => fileRow[f] = "UPLOADED"
  BY <1>3, <1>6
<1>10. contested \subseteq contested' /\ contested' \subseteq Files \X {"object", "acl", "late"}
  BY <1>1, <1>2 DEF UInv, UploadTypeOK
<1>11. \A f \in Files : HasRow(f)' /\ ~isPublic'[f] /\ <<f, "acl">> \notin contested' /\ f \in exposed
            => HasRow(f) /\ ~isPublic[f] /\ f \notin job[j].on
  BY <1>1, <1>3, <1>6, <1>10
<1> QED  BY <1>1, <1>2, <1>3, <1>5, <1>7, <1>8, <1>9, <1>10, <1>11, EndKeeps

LEMMA WriteRemovalKeeps ==
  ASSUME UInv, NEW j \in Uploaders, WriteRemoval(j)
  PROVE  UInv'
<1> DEFINE end == IF job[j].op = "delete" THEN "DELETED" ELSE "gone"
           rows == {f \in job[j].on : HasRow(f)}
<1>1. /\ job[j].op \in Removals /\ JobEnds(j)
      /\ UNCHANGED <<isPublic, storeVars, contested, object, exposed>>
      /\ fileRow' = [f \in Files |-> IF f \in rows THEN end ELSE fileRow[f]]
      /\ overdue' \subseteq overdue /\ (end = "DELETED" => overdue' = overdue)
      /\ \A f \in Files \ rows : f \in overdue => f \in overdue'
  BY JobFacts DEF WriteRemoval, storeVars, JobSound, Shaped
<1>2. fileRow \in [Files -> FileStatus \cup {"none", "gone"}] /\ isPublic \in [Files -> BOOLEAN]
      /\ overdue \subseteq Files
  BY DEF UInv, UploadTypeOK
<1>3. end \in {"DELETED", "gone"}
  OBVIOUS
<1> HIDE DEF end
<1>4. \A f \in Files : /\ fileRow'[f] = IF f \in rows THEN end ELSE fileRow[f]
                       /\ fileRow[f] = "none" <=> fileRow'[f] = "none"
                       /\ HasRow(f)' => HasRow(f)
  BY <1>1, <1>3 DEF HasRow, FileStatus
<1>5. ASSUME NEW k \in Uploaders \ {j}, NEW f \in job[k].on
      PROVE  Spares(job[k], f)
  <2>1. f \in Files /\ fileRow[f] # "none"
    BY JobHasRow
  <2>2. f \in overdue /\ fileRow[f] # "UPLOADED" /\ fileRow'[f] # "gone" => f \in overdue' /\ fileRow'[f] # "UPLOADED"
    BY <1>1, <1>3, <1>4, <2>1
  <2>3. fileRow[f] = "gone" => fileRow'[f] = "gone"
    BY <1>4, <2>1 DEF HasRow, FileStatus
  <2> QED  BY <1>1, <1>4, <2>1, <2>2, <2>3 DEF Spares, Spoilt
<1>6. fileRow' \in [Files -> FileStatus \cup {"none", "gone"}] /\ overdue' \subseteq Files
  BY <1>1, <1>2, <1>3 DEF FileStatus
<1>7. job[j].op \notin Publishers
  BY <1>1 DEF Removals, Publishers
<1>8. \A f \in Files : fileRow'[f] = "UPLOADED" => fileRow[f] = "UPLOADED" /\ f \notin job[j].on
  BY <1>3, <1>4 DEF HasRow, FileStatus
<1> QED  BY <1>1, <1>2, <1>4, <1>5, <1>6, <1>7, <1>8, RecordKept, EndKeeps

LEMMA SavePublicKeeps ==
  ASSUME UInv, NEW j \in Uploaders, SavePublic(j)
  PROVE  UInv'
<1>1. /\ job[j].op = "publish" /\ job[j].at = "save" /\ JobEnds(j)
      /\ UNCHANGED <<fileRow, overdue, storeVars, contested, object, exposed>>
      /\ isPublic' = [f \in Files |-> IF f \in job[j].on /\ HasRow(f) THEN job[j].public
                                      ELSE isPublic[f]]
  BY DEF SavePublic, JobAt, storeVars
<1>2. fileRow \in [Files -> FileStatus \cup {"none", "gone"}] /\ isPublic \in [Files -> BOOLEAN]
      /\ overdue \subseteq Files /\ job[j].public \in BOOLEAN
  BY JobFacts DEF UInv, UploadTypeOK
<1>3. \A f \in Files : isPublic'[f] = IF f \in job[j].on /\ HasRow(f) THEN job[j].public ELSE isPublic[f]
  BY <1>1
<1>4. ASSUME NEW k \in Uploaders \ {j}, NEW f \in job[k].on
      PROVE  Spares(job[k], f)
  <2>1. f \in Files /\ fileRow[f] # "none"
    BY JobHasRow
  <2>2. f \in job[j].on /\ job[k].op \in Publishers => <<f, "acl">> \in contested
    BY <1>1, Clashed DEF Publishers
  <2> QED  BY <1>1, <1>3, <2>1, <2>2 DEF Spares, Spoilt, HasRow
<1>5. \A f \in job[j].on : <<f, "acl">> \notin contested /\ HasRow(f) /\ ~job[j].public => f \notin exposed
  BY <1>1, JobFacts DEF JobSound, AclSound
<1>6. isPublic' \in [Files -> BOOLEAN]
  BY <1>1, <1>2
<1>7. \A f \in Files : HasRow(f)' /\ ~isPublic'[f] /\ <<f, "acl">> \notin contested /\ f \in exposed
            => HasRow(f) /\ f \notin job[j].on /\ ~isPublic[f]
  BY <1>1, <1>3, <1>5 DEF HasRow
<1>8. job[j].op \notin Removals
  BY <1>1 DEF Removals
<1> QED  BY <1>1, <1>2, <1>4, <1>6, <1>7, <1>8, RecordKept, EndKeeps

\* An object goes while a removal works on its file, which goes on doing so.
LEMMA DropObjectKeeps ==
  ASSUME UInv, NEW j \in Uploaders, NEW f \in Files, DropObject(j, f)
  PROVE  UInv'
<1> DEFINE left == job[j].left \ {f}
           label == IF left = {} THEN "write" ELSE "drop"
<1>1. /\ job[j].at = "drop" /\ UNCHANGED <<fileRow, isPublic, overdue, token, put, contested>>
      /\ object \ {f} \subseteq object' /\ object' \subseteq object /\ exposed' \subseteq exposed
      /\ job' = [job EXCEPT ![j].left = left, ![j].at = label]
      /\ f \in job[j].left
  BY DEF DropObject, fileVars
<1>2. job[j] \in Job /\ JobSound(job[j]) /\ job[j].op \in Removals
  BY <1>1, JobFacts DEF JobSound, Shaped
<1>3. left \in SUBSET Files /\ label \in UploadLabels
  BY <1>2 DEF Job, UploadLabels
<1>4. PICK r \in Job : r = [job[j] EXCEPT !.left = left, !.at = label]
  BY <1>2, <1>3 DEF Job
<1>5. /\ r.at = label /\ r.op = job[j].op /\ r.on = job[j].on
      /\ job' = [job EXCEPT ![j] = r]
  BY <1>1, <1>2, <1>4 DEF Job
<1>6. f \in job[j].on /\ r.left \subseteq r.on
  BY <1>1, <1>2, <1>4 DEF JobSound, Shaped, Job
<1>7. \A k \in Uploaders : job'[k] = IF k = j THEN r ELSE job[k]
  BY <1>5, JobsAfter
<1>8. ASSUME NEW k \in Uploaders \ {j}, NEW g \in job[k].on
      PROVE  Spares(job[k], g)
  <2>1. g \in Files /\ fileRow[g] # "none"
    BY JobHasRow
  <2>2. g = f /\ job[k].op = "confirm" => <<g, "object">> \in contested
    BY <1>2, <1>6, Clashed
  <2> QED  BY <1>1, <2>1, <2>2 DEF Spares, Spoilt, HasRow
<1>9. JobSound(r)'
  <2>1. label \in {"drop", "write"} /\ r.op \in Removals
    BY <1>2, <1>5
  <2>2. Shaped(r)
    BY <1>5, <1>6, <2>1 DEF Shaped
  <2>3. r.op \notin Publishers /\ r.op # "confirm" /\ r.op # "publish"
    BY <2>1 DEF Removals, Publishers
  <2>4. \A g \in r.on : fileRow[g] # "none" /\ ExpirySound(r, g)
    BY <1>2, <1>5 DEF JobSound, ExpirySound, Spoilt
  <2> QED  BY <1>1, <2>2, <2>3, <2>4 DEF JobSound, Shaped, AclSound, ObjectSound, ExpirySound, Spoilt
<1>10. JobsSound' /\ Recorded' /\ job' \in [Uploaders -> Job]
  BY <1>1, <1>5, <1>8, <1>9, JobStep
<1>11. UploadTypeOK'
  BY <1>1, <1>10 DEF UInv, UploadTypeOK
<1>12. UploadedHasObject'
  <2> SUFFICES ASSUME NEW g \in Files, fileRow[g] = "UPLOADED", <<g, "object">> \notin contested,
                      g \notin object'
               PROVE  Working(g, Removals)' # {}
    BY <1>1 DEF UploadedHasObject
  <2>1. CASE g = f
    BY <1>2, <1>5, <1>6, <1>7, <2>1 DEF Working
  <2>2. CASE g # f
    <3>1. Working(g, Removals) # {}
      BY <1>1, <2>2 DEF UInv, UploadedHasObject
    <3> QED  BY <1>5, <1>7, <3>1 DEF Working
  <2> QED  BY <2>1, <2>2
<1>13. Unsigned'
  BY <1>1 DEF UInv, Unsigned
<1>14. PrivateNotExposed'
  <2> SUFFICES ASSUME NEW g \in Files, HasRow(g), ~isPublic[g], g \in exposed,
                      <<g, "acl">> \notin contested
               PROVE  Working(g, Publishers)' # {}
    BY <1>1 DEF PrivateNotExposed, HasRow
  <2>1. Working(g, Publishers) # {}
    BY DEF UInv, PrivateNotExposed
  <2> QED  BY <1>5, <1>7, <2>1 DEF Working
<1> QED  BY <1>10, <1>11, <1>12, <1>13, <1>14 DEF UInv

\* The access list of the files of a publisher follows what it is about to save.
LEMMA SetAclKeeps ==
  ASSUME UInv, NEW j \in Uploaders, SetAcl(j)
  PROVE  UInv'
<1>1. /\ job[j].at = "acl" /\ UNCHANGED <<fileRow, isPublic, overdue, object, token, put, contested>>
      /\ exposed' = IF job[j].public THEN exposed \cup (job[j].on \cap object) ELSE exposed \ job[j].on
      /\ job' = [job EXCEPT ![j].at = "save"]
  BY DEF SetAcl, JobGoto, fileVars
<1>2. job[j] \in Job /\ JobSound(job[j]) /\ job[j].op \in Publishers /\ job[j].on \subseteq Files
  BY <1>1, JobFacts DEF JobSound, Shaped
<1>3. PICK r \in Job : r = [job[j] EXCEPT !.at = "save"]
  BY <1>2 DEF Job, UploadLabels
<1>4. /\ r.at = "save" /\ r.op = job[j].op /\ r.on = job[j].on /\ r.public = job[j].public
      /\ r.left = job[j].left /\ job' = [job EXCEPT ![j] = r]
  BY <1>1, <1>2, <1>3 DEF Job
<1>5. \A k \in Uploaders : job'[k] = IF k = j THEN r ELSE job[k]
  BY <1>4, JobsAfter
<1>6. ASSUME NEW k \in Uploaders \ {j}, NEW f \in job[k].on
      PROVE  Spares(job[k], f)
  <2>1. f \in Files /\ fileRow[f] # "none"
    BY JobHasRow
  <2>2. f \in job[j].on /\ job[k].op \in Publishers => <<f, "acl">> \in contested
    BY <1>2, Clashed
  <2> QED  BY <1>1, <2>1, <2>2 DEF Spares, Spoilt, HasRow
<1>7. JobSound(r)'
  <2>1. Shaped(r)
    BY <1>2, <1>4 DEF JobSound, Shaped
  <2>2. \A f \in r.on : /\ fileRow[f] # "none" /\ ExpirySound(r, f) /\ ObjectSound(r, f)
                        /\ <<f, "acl">> \notin contested /\ r.op = "confirm" => r.public = isPublic[f]
    BY <1>1, <1>2, <1>4 DEF JobSound, ExpirySound, Spoilt, ObjectSound, AclSound
  <2>3. \A f \in r.on : ~r.public => f \notin exposed'
    BY <1>1, <1>4
  <2>4. ASSUME NEW f \in r.on PROVE AclSound(r, f)'
    <3>1. <<f, "acl">> \notin contested /\ r.op = "confirm" /\ ~isPublic[f] => ~r.public
      BY <2>2
    <3> QED  BY <1>1, <1>4, <2>3, <3>1 DEF AclSound, HasRow
  <2>5. \A f \in r.on : fileRow'[f] # "none" /\ ExpirySound(r, f)' /\ ObjectSound(r, f)'
    BY <1>1, <2>2 DEF ExpirySound, Spoilt, ObjectSound
  <2> QED  BY <2>1, <2>4, <2>5 DEF JobSound, Shaped
<1>8. JobsSound' /\ Recorded' /\ job' \in [Uploaders -> Job]
  BY <1>1, <1>4, <1>6, <1>7, JobStep
<1>9. UploadTypeOK'
  BY <1>1, <1>2, <1>8 DEF UInv, UploadTypeOK
<1>10. Unsigned'
  BY <1>1, JobHasRow DEF UInv, Unsigned
<1>11. UploadedHasObject'
  BY <1>1, <1>4, <1>5 DEF UInv, UploadedHasObject, Working
<1>12. PrivateNotExposed'
  <2> SUFFICES ASSUME NEW f \in Files, HasRow(f), ~isPublic[f], f \in exposed',
                      <<f, "acl">> \notin contested
               PROVE  Working(f, Publishers)' # {}
    BY <1>1 DEF PrivateNotExposed, HasRow
  <2>1. CASE f \in job[j].on
    BY <1>2, <1>4, <1>5, <2>1 DEF Working
  <2>2. CASE f \notin job[j].on
    <3>1. Working(f, Publishers) # {}
      BY <1>1, <2>2 DEF UInv, PrivateNotExposed
    <3> QED  BY <1>4, <1>5, <3>1 DEF Working
  <2> QED  BY <2>1, <2>2
<1> QED  BY <1>8, <1>9, <1>10, <1>11, <1>12 DEF UInv
-----------------------------------------------------------------------------
LEMMA NextUInv == UInv /\ [NextUploads]_uploadVars => UInv'
<1> SUFFICES ASSUME UInv, [NextUploads]_uploadVars PROVE UInv'
  OBVIOUS
<1>1. CASE UNCHANGED uploadVars
  BY <1>1 DEF uploadVars, UInv, UploadTypeOK, JobsSound, JobSound, Shaped, AclSound, ObjectSound,
     ExpirySound, Spoilt, HasRow, Recorded, Unsigned, UploadedHasObject, PrivateNotExposed, Working
<1>2. ASSUME NEW f \in Files, NEW public \in BOOLEAN, Sign(f, public) PROVE UInv'
  BY <1>2, SignKeeps
<1>3. ASSUME NEW f \in Files, PutBegins(f) \/ PutEnds(f) \/ Expire(f) PROVE UInv'
  BY <1>3, PutKeeps, ExpireKeeps
<1>4. ASSUME NEW j \in Uploaders, NEW f \in Files,
             Confirm(j, f) \/ Cancel(j, f) \/ DropObject(j, f) \/ Toggle(j, f)
      PROVE  UInv'
  BY <1>4, StartsKeep, DropObjectKeeps
<1>5. ASSUME NEW j \in Uploaders, NEW files \in SUBSET Files, Delete(j, files) PROVE UInv'
  <2>1. CASE Files = {}
    BY <1>5, <2>1 DEF Delete
  <2>2. CASE Files # {}
    BY <1>5, <2>2, StartsKeep
  <2> QED  BY <2>1, <2>2
<1>6. ASSUME NEW j \in Uploaders, NEW f \in Files, NEW public \in BOOLEAN, Update(j, f, public)
      PROVE  UInv'
  BY <1>6, StartsKeep
<1>7. ASSUME NEW j \in Uploaders, FindExpired(j) PROVE UInv'
  <2>1. Files # {}
    BY <1>7 DEF FindExpired, UInv, UploadTypeOK
  <2> QED  BY <1>7, <2>1, StartsKeep
<1>8. ASSUME NEW j \in Uploaders,
             \/ CheckObject(j) \/ MarkFailed(j) \/ MarkUploaded(j) \/ WriteRemoval(j)
             \/ SetAcl(j) \/ SetAclRefused(j) \/ SavePublic(j) \/ BreakOff(j)
      PROVE  UInv'
  BY <1>8, CheckObjectKeeps, MarkFailedKeeps, MarkUploadedKeeps, WriteRemovalKeeps, SetAclKeeps,
     SetAclRefusedKeeps, SavePublicKeeps, BreakOffKeeps
<1> QED  BY <1>1, <1>2, <1>3, <1>4, <1>5, <1>6, <1>7, <1>8 DEF NextUploads

LEMMA UploadsInv == UploadsSpec => []UInv
BY InitUInv, NextUInv, PTL DEF UploadsSpec

\* The rows, objects, tokens and requests keep their types.
THEOREM UploadTyping == UploadsSpec => []UploadTypeOK
<1>1. UInv => UploadTypeOK
  BY DEF UInv
<1> QED  BY <1>1, UploadsInv, PTL

\* A file listed as uploaded has its object, unless a removal is under way or
\* a confirmation and a removal wrote over each other.
THEOREM UploadedStored == UploadsSpec => []UploadedHasObject
<1>1. UInv => UploadedHasObject
  BY DEF UInv
<1> QED  BY <1>1, UploadsInv, PTL

\* The provider shows an object to everyone only if its row says so, unless
\* two requests set both at once, one broke off or the provider refused.
THEOREM PrivateKept == UploadsSpec => []PrivateNotExposed
<1>1. UInv => PrivateNotExposed
  BY DEF UInv
<1> QED  BY <1>1, UploadsInv, PTL

\* The clean-up never takes a file whose confirmation was written before it
\* expired (cleanupExpiredPendingFiles, confirmUpload), although it deletes by
\* id what it had read as pending.
THEOREM CleanUpKeeps == UploadsSpec => InTimeKept
<1> DEFINE Taken(f) ==
             /\ fileRow[f] = "UPLOADED" /\ fileRow'[f] \in {"gone", "DELETED"}
             /\ <<f, "late">> \notin contested
           ByOwner(f) == \E j \in Working(f, {"cancel", "delete"}) : job'[j] = NoJob
           Fine == \A f \in Files : Taken(f) => ByOwner(f)
<1>1. ASSUME UInv, NextUploads, NEW f \in Files, Taken(f) PROVE ByOwner(f)
  <2>1. fileRow'[f] # fileRow[f] /\ fileRow'[f] \in {"gone", "DELETED"}
    BY <1>1
  <2>2. PICK j \in Uploaders : WriteRemoval(j)
    BY <1>1, <2>1
       DEF UInv, UploadTypeOK, NextUploads, Sign, PutBegins, PutEnds, Expire, Confirm, Cancel,
           DropObject, Toggle, Delete, Update, CheckObject, MarkFailed, MarkUploaded, FindExpired,
           SetAcl, SetAclRefused, SavePublic, BreakOff, fileVars, storeVars
  <2>3. f \in job[j].on
    BY <1>1, <2>1, <2>2 DEF WriteRemoval
  <2>4. job[j].op \in Removals /\ JobSound(job[j])
    BY <1>1, <2>2, JobFacts DEF WriteRemoval, JobSound, Shaped
  <2>5. job[j].op # "cleanup"
    BY <1>1, <2>3, <2>4 DEF JobSound, ExpirySound, Spoilt
  <2>6. job'[j] = NoJob
    BY <1>1, <2>2 DEF WriteRemoval, JobEnds, UInv, UploadTypeOK
  <2> QED  BY <2>3, <2>4, <2>5, <2>6 DEF Working, Removals
<1>2. UInv /\ NextUploads => Fine
  <2> HIDE DEF Taken, ByOwner
  <2> QED  BY <1>1
<1>3. UInv /\ [NextUploads]_uploadVars => [Fine]_uploadVars
  BY <1>2
<1> QED  BY <1>3, UploadsInv, PTL DEF UploadsSpec, InTimeKept
=============================================================================

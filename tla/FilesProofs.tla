---------------------------- MODULE FilesProofs ----------------------------
(***************************************************************************)
(* What holds of files, for every number of requests, keys and entities,   *)
(* jobs' attempts and faults: one primary file for an entity, never none   *)
(* once one was asked for, and an object for every file.                   *)
(***************************************************************************)
EXTENDS Files, SequenceTheorems, TLAPS

-----------------------------------------------------------------------------
(* Types.  Inductive: a job that waits or is carried out has an attempt    *)
(* left and has not stalled too often, and one that is gone has left       *)
(* nothing behind.                                                         *)
Request == [at : {"idle"} \cup Confirming \cup Deleting, form : File \cup {NoForm}, id : Nat]

JobsLeft ==
  \A p \in Keys :
    /\ jobs[p].state = "none" => jobs[p] = NoJob
    /\ jobs[p].state \in Pending => jobs[p].left > 0 /\ jobs[p].stalls <= MaxStalls

TypeInv == TypeOK /\ req \in [Requests -> Request] /\ JobsLeft

(* What is confirmed becomes a row that is primary if that was asked for.  *)
FormsHonest ==
  \A r \in Requests : req[r].at \in Confirming => req[r].form.primary = req[r].form.asked

(* One primary file.  Between the statement that unsets the others and the *)
(* one that creates the row, the entity has no primary file.               *)
ConfirmedAlone ==
  \A r, s \in Requests :
    /\ r # s /\ req[r].at \in Confirming /\ req[s].at \in Confirming
    /\ req[r].form.asked /\ req[s].form.asked
    => req[r].form.entity # req[s].form.entity

UnsetBefore ==
  \A r \in Requests, e \in Entities :
    At(r, "create") /\ OfEntity(r, e) => PrimariesOf(e) = {}

PrimaryInv ==
  /\ TypeInv /\ FormsHonest
  /\ Without({"overlap"}) => ConfirmedAlone /\ UnsetBefore /\ OnePrimary

(* Never none.  A key that is confirmed once has no row until the          *)
(* confirmation ends.                                                      *)
KeysFree ==
  \A r \in Requests : req[r].at \in Confirming =>
    /\ ~Taken(req[r].form.key)
    /\ \A s \in Requests \ {r} :
         req[s].at \in Confirming => req[s].form.key # req[r].form.key

LastInv ==
  /\ TypeInv /\ FormsHonest
  /\ Without({"twice"}) => KeysFree
  /\ LastPrimaryStays

(* An object for every file.  A job is at work on the path of a deleted    *)
(* row only; a confirmation that has seen its object will find it, or its  *)
(* key taken.                                                              *)
OwnPaths ==
  /\ \A i \in DOMAIN files : files[i].path = files[i].key
  /\ \A r \in Requests : req[r].at \in Confirming => req[r].form.path = req[r].form.key

JobsOfDeleted ==
  /\ \A r \in Requests : At(r, "remove") => files[req[r].id].deleted
  /\ \A p \in Keys : jobs[p].state \in Pending =>
       \E i \in DOMAIN files : files[i].path = p /\ files[i].deleted

SeenObject ==
  \A r \in Requests :
    req[r].at \in {"unset", "create"} =>
      store[req[r].form.path] = "object" \/ Taken(req[r].form.key)

ObjectInv ==
  /\ TypeInv
  /\ Without({"mixed"}) => OwnPaths /\ JobsOfDeleted /\ SeenObject /\ FileHasObject

-----------------------------------------------------------------------------
(* Types.                                                                  *)

JobStep(p) == Take(p) \/ DeleteS3File(p) \/ DeleteFails(p) \/ Stall(p) \/ Forget(p)

Confirms(r) ==
  \E key, path \in Keys, entity \in Entities \cup {None}, isPrimary \in BOOLEAN :
    ConfirmUpload(r, Form(key, path, entity, isPrimary))

Job == [state : {"none", "completed", "failed"} \cup Pending,
        left : 0..Attempts, stalls : 0..(MaxStalls + 1)]

\* What a request and the rows are, by what the request is at.
LEMMA Locals ==
  ASSUME TypeInv, NEW r \in Requests
  PROVE  /\ req[r].at \in Confirming => req[r].form \in File
         /\ req[r].at \in Deleting => req[r].id \in DOMAIN files
<1>1. \/ req[r] = Idle
      \/ req[r].at \in Confirming /\ req[r].form \in File
      \/ req[r].at \in Deleting /\ req[r].id \in DOMAIN files
  BY DEF TypeInv, TypeOK
<1>2. /\ Confirming \cap Deleting = {}
      /\ Idle.at \notin Confirming \cup Deleting
  BY DEF Confirming, Deleting, Idle
<1> QED
  BY <1>1, <1>2

LEMMA Rows ==
  ASSUME TypeInv
  PROVE  /\ files \in Seq(File)
         /\ \A i \in DOMAIN files : files[i] \in File /\ files[i].path \in Keys
         /\ \A i, j \in DOMAIN files : files[i].key = files[j].key => i = j
<1>1. /\ files \in Seq(File)
      /\ \A i, j \in DOMAIN files : files[i].key = files[j].key => i = j
  BY DEF TypeInv, TypeOK
<1>2. \A i \in DOMAIN files : files[i] \in File
  BY <1>1
<1>3. \A f \in File : f.path \in Keys
  BY DEF File
<1> QED
  BY <1>1, <1>2, <1>3

LEMMA NewRow ==
  ASSUME NEW rows \in Seq(File), NEW row \in File
  PROVE  /\ Append(rows, row) \in Seq(File)
         /\ DOMAIN Append(rows, row) = DOMAIN rows \cup {Len(rows) + 1}
         /\ Len(rows) + 1 \notin DOMAIN rows
         /\ Append(rows, row)[Len(rows) + 1] = row
         /\ \A i \in DOMAIN rows : i \in Nat /\ i <= Len(rows) /\ Append(rows, row)[i] = rows[i]
  OBVIOUS

LEMMA FileFields ==
  ASSUME NEW f \in File
  PROVE  /\ [f EXCEPT !.primary = FALSE] \in File
         /\ [f EXCEPT !.primary = FALSE].key = f.key
         /\ [f EXCEPT !.primary = FALSE].path = f.path
         /\ [f EXCEPT !.primary = FALSE].entity = f.entity
         /\ [f EXCEPT !.primary = FALSE].asked = f.asked
         /\ [f EXCEPT !.primary = FALSE].deleted = f.deleted
         /\ [f EXCEPT !.primary = FALSE].primary = FALSE
         /\ [f EXCEPT !.deleted = TRUE] \in File
         /\ [f EXCEPT !.deleted = TRUE].key = f.key
         /\ [f EXCEPT !.deleted = TRUE].path = f.path
         /\ [f EXCEPT !.deleted = TRUE].entity = f.entity
         /\ [f EXCEPT !.deleted = TRUE].asked = f.asked
         /\ [f EXCEPT !.deleted = TRUE].primary = f.primary
         /\ [f EXCEPT !.deleted = TRUE].deleted = TRUE
  BY DEF File

LEMMA UnsetRows ==
  ASSUME NEW rows \in Seq(File), NEW entity
  PROVE  LET unset == [i \in DOMAIN rows |->
                         IF rows[i].entity = entity
                           THEN [rows[i] EXCEPT !.primary = FALSE] ELSE rows[i]]
         IN  unset \in Seq(File) /\ DOMAIN unset = DOMAIN rows
<1> DEFINE unset == [i \in DOMAIN rows |->
                       IF rows[i].entity = entity
                         THEN [rows[i] EXCEPT !.primary = FALSE] ELSE rows[i]]
<1>1. DOMAIN rows = 1..Len(rows) /\ Len(rows) \in Nat
  OBVIOUS
<1>2. \A i \in DOMAIN rows : unset[i] \in File
  <2>1. \A i \in DOMAIN rows : rows[i] \in File
    OBVIOUS
  <2> QED
    BY <2>1, FileFields
<1>3. unset \in [1..Len(rows) -> File]
  BY <1>1, <1>2
<1> HIDE DEF unset
<1>4. unset \in Seq(File) /\ DOMAIN unset = DOMAIN rows
  BY <1>1, <1>3
<1> QED
  BY <1>4 DEF unset

\* What a step makes of the rows there are.
LEMMA RowsKept ==
  ASSUME TypeInv, [Next]_vars
  PROVE  /\ files' \in Seq(File)
         /\ \A i \in DOMAIN files :
              /\ i \in DOMAIN files'
              /\ files'[i].key = files[i].key /\ files'[i].path = files[i].path
              /\ files'[i].entity = files[i].entity /\ files'[i].asked = files[i].asked
              /\ files[i].deleted => files'[i].deleted
              /\ files'[i].primary => files[i].primary
         /\ \A i \in DOMAIN files' \ DOMAIN files :
              \E r \in Requests : /\ Create(r) /\ ~Taken(req[r].form.key)
                                  /\ files' = Append(files, req[r].form)
                                  /\ i = Len(files) + 1 /\ files'[i] = req[r].form
<1>0. files \in Seq(File)
  BY DEF TypeInv, TypeOK
<1>1. CASE files' = files
  BY <1>0, <1>1
<1>2. ASSUME NEW r \in Requests, UnsetPrimary(r)
      PROVE  /\ files' \in Seq(File) /\ DOMAIN files' = DOMAIN files
             /\ \A i \in DOMAIN files :
                  /\ files'[i].key = files[i].key /\ files'[i].path = files[i].path
                  /\ files'[i].entity = files[i].entity /\ files'[i].asked = files[i].asked
                  /\ files'[i].deleted = files[i].deleted
                  /\ files'[i].primary => files[i].primary
  <2>1. files' \in Seq(File) /\ DOMAIN files' = DOMAIN files
    BY <1>0, <1>2, UnsetRows DEF UnsetPrimary
  <2>2. \A i \in DOMAIN files : files[i] \in File
    BY <1>0
  <2> QED
    BY <1>2, <2>1, <2>2, FileFields DEF UnsetPrimary
<1>3. ASSUME NEW r \in Requests, Create(r), ~Taken(req[r].form.key)
      PROVE  /\ files' \in Seq(File)
             /\ DOMAIN files' = DOMAIN files \cup {Len(files) + 1}
             /\ files' = Append(files, req[r].form)
             /\ files'[Len(files) + 1] = req[r].form
             /\ \A i \in DOMAIN files : files'[i] = files[i]
  <2>1. req[r].form \in File
    BY <1>3 DEF TypeInv, TypeOK, Create, At, Idle, Confirming, Deleting
  <2>2. files' = Append(files, req[r].form)
    BY <1>3 DEF Create
  <2> QED
    BY <1>0, <2>1, <2>2, NewRow
<1>4. ASSUME NEW r \in Requests, SoftDelete(r)
      PROVE  /\ files' \in Seq(File) /\ DOMAIN files' = DOMAIN files
             /\ \A i \in DOMAIN files :
                  /\ files'[i].key = files[i].key /\ files'[i].path = files[i].path
                  /\ files'[i].entity = files[i].entity /\ files'[i].asked = files[i].asked
                  /\ files[i].deleted => files'[i].deleted
                  /\ files'[i].primary = files[i].primary
  <2>1. req[r].at = "mark"
    BY <1>4 DEF SoftDelete, At
  <2>2. req[r].id \in DOMAIN files
    BY SMTT(30), <2>1 DEF TypeInv, TypeOK, Idle, Confirming
  <2>3. files[req[r].id] \in File
    BY <1>0, <2>2
  <2>4. files' = [files EXCEPT ![req[r].id] = [files[req[r].id] EXCEPT !.deleted = TRUE]]
    BY <1>4 DEF SoftDelete
  <2>5. files' \in Seq(File) /\ DOMAIN files' = DOMAIN files
    <3>1. [files[req[r].id] EXCEPT !.deleted = TRUE] \in File
      BY <2>3, FileFields
    <3>2. req[r].id \in 1 .. Len(files)
      BY <1>0, <2>2
    <3> QED
      BY <1>0, <2>4, <3>1, <3>2, ExceptSeq
  <2>6. \A i \in DOMAIN files :
          files'[i] = IF i = req[r].id THEN [files[i] EXCEPT !.deleted = TRUE] ELSE files[i]
    BY <2>4
  <2>7. \A i \in DOMAIN files : files[i] \in File
    BY <1>0
  <2>8. ASSUME NEW i \in DOMAIN files, i # req[r].id
        PROVE  files'[i] = files[i]
    BY <2>6, <2>8
  <2>9. ASSUME NEW i \in DOMAIN files, i = req[r].id
        PROVE  /\ files'[i].key = files[i].key /\ files'[i].path = files[i].path
               /\ files'[i].entity = files[i].entity /\ files'[i].asked = files[i].asked
               /\ files'[i].deleted = TRUE
               /\ files'[i].primary = files[i].primary
    <3>1. files'[i] = [files[i] EXCEPT !.deleted = TRUE] /\ files[i] \in File
      BY <2>6, <2>7, <2>9
    <3> QED
      BY <3>1, FileFields
  <2> QED
    BY <2>5, <2>8, <2>9
<1>5. CASE \E r \in Requests : Create(r)
  BY <1>1, <1>3, <1>5 DEF Create
<1>6. CASE \/ \E p \in Keys : Upload(p) \/ JobStep(p)
           \/ \E r \in Requests :
                \/ Confirms(r) \/ (\E i \in DOMAIN files : DeleteFile(r, i))
                \/ VerifyFileExists(r) \/ AddDeleteS3FileJob(r) \/ Abort(r)
           \/ UNCHANGED vars
  <2>1. ASSUME NEW p \in Keys, Upload(p) \/ JobStep(p)
        PROVE  files' = files
    BY <2>1 DEF Upload, JobStep, Take, DeleteS3File, DeleteFails, Stall, Forget, ElseUnchanged
  <2>2. ASSUME NEW r \in Requests, Confirms(r)
        PROVE  files' = files
    BY <2>2 DEF Confirms, ConfirmUpload
  <2>3. ASSUME NEW r \in Requests, NEW i \in DOMAIN files, DeleteFile(r, i)
        PROVE  files' = files
    BY <2>3 DEF DeleteFile
  <2>4. ASSUME NEW r \in Requests, VerifyFileExists(r) \/ AddDeleteS3FileJob(r) \/ Abort(r)
        PROVE  files' = files
    BY <2>4 DEF VerifyFileExists, AddDeleteS3FileJob, Abort
  <2>5. CASE UNCHANGED vars
    BY <1>1, <2>5 DEF vars
  <2> QED
    BY <1>1, <1>6, <2>1, <2>2, <2>3, <2>4, <2>5
<1> QED
  BY <1>2, <1>4, <1>5, <1>6 DEF Next, Proceed, Confirms, JobStep

LEMMA StepKinds ==
  Next <=> \/ \E p \in Keys : Upload(p) \/ JobStep(p)
           \/ \E r \in Requests :
                \/ Confirms(r) \/ (\E i \in DOMAIN files : DeleteFile(r, i))
                \/ Proceed(r) \/ Abort(r)
  BY DEF Next, Confirms, JobStep

\* What a step makes of the request it belongs to.
OfRequest(q, rows) ==
  \/ q = Idle
  \/ /\ q.at \in Confirming /\ q.form \in File /\ q.id = 0
     /\ q.at = "unset" => q.form.asked /\ q.form.entity # None
  \/ q.at \in Deleting /\ q.form = NoForm /\ q.id \in DOMAIN rows

LEMMA RequestsTyped ==
  ASSUME TypeInv
  PROVE  \A r \in Requests : req[r] \in Request /\ OfRequest(req[r], files)
  BY DEF TypeInv, TypeOK, OfRequest

LEMMA OneMoves ==
  ASSUME TypeInv, NEW r \in Requests,
         Confirms(r) \/ (\E i \in DOMAIN files : DeleteFile(r, i)) \/ Proceed(r) \/ Abort(r)
  PROVE  /\ req' \in [Requests -> Request]
         /\ \A s \in Requests \ {r} : req'[s] = req[s]
         /\ OfRequest(req'[r], files)
<1>0. /\ req \in [Requests -> Request] /\ req[r] \in Request /\ OfRequest(req[r], files)
      /\ Idle \in Request /\ OfRequest(Idle, files)
  BY RequestsTyped DEF TypeInv, Idle, Request, OfRequest
<1>1. ASSUME NEW q \in Request, OfRequest(q, files), req' = [req EXCEPT ![r] = q]
      PROVE  /\ req' \in [Requests -> Request]
             /\ \A s \in Requests \ {r} : req'[s] = req[s]
             /\ OfRequest(req'[r], files)
  BY <1>0, <1>1
<1>2. CASE req' = req \/ End(r)
  BY <1>0, <1>1, <1>2 DEF End
<1>3. ASSUME Confirms(r)
      PROVE  req' = req \/ \E q \in Request : OfRequest(q, files) /\ req' = [req EXCEPT ![r] = q]
  <2>1. PICK key \in Keys, path \in Keys, entity \in Entities \cup {None}, isPrimary \in BOOLEAN :
          ConfirmUpload(r, Form(key, path, entity, isPrimary))
    BY <1>3 DEF Confirms
  <2> DEFINE form == Form(key, path, entity, isPrimary)
             q == [Idle EXCEPT !.at = "verify", !.form = form]
  <2>2. form \in File
    BY DEF Form, File
  <2>3. q \in Request /\ OfRequest(q, files)
    BY <2>2 DEF Idle, Request, OfRequest, Confirming
  <2>4. req' = req \/ req' = [req EXCEPT ![r] = q]
    BY <2>1 DEF ConfirmUpload
  <2> QED
    BY <2>3, <2>4
<1>4. ASSUME NEW i \in DOMAIN files, DeleteFile(r, i)
      PROVE  \E q \in Request : OfRequest(q, files) /\ req' = [req EXCEPT ![r] = q]
  <2> DEFINE q == [Idle EXCEPT !.at = "mark", !.id = i]
  <2>1. files \in Seq(File)
    BY DEF TypeInv, TypeOK
  <2>2. i \in Nat
    BY <2>1
  <2>3. q \in Request /\ OfRequest(q, files)
    BY <2>2 DEF Idle, Request, OfRequest, Deleting
  <2> QED
    BY <1>4, <2>3 DEF DeleteFile
<1>5. ASSUME NEW stage \in Confirming \cup Deleting, GoTo(r, stage),
             \/ /\ req[r].at \in Confirming /\ stage \in Confirming
                /\ stage = "unset" => req[r].form.asked /\ req[r].form.entity # None
             \/ req[r].at \in Deleting /\ stage \in Deleting
      PROVE  \E q \in Request : OfRequest(q, files) /\ req' = [req EXCEPT ![r] = q]
  <2> DEFINE q == [req[r] EXCEPT !.at = stage]
  <2>1. q \in Request /\ q.at = stage /\ q.form = req[r].form /\ q.id = req[r].id
    BY <1>0 DEF Request
  <2>2. req' = [req EXCEPT ![r] = q]
    BY <1>5 DEF GoTo
  <2> HIDE DEF q
  <2>3. OfRequest(q, files)
    BY <1>0, <1>5, <2>1 DEF OfRequest, Idle, Confirming, Deleting
  <2> QED
    BY <2>1, <2>2, <2>3
<1>6. CASE VerifyFileExists(r)
  <2>1. CASE End(r)
    BY <1>2, <2>1
  <2>2. CASE GoTo(r, IF req[r].form.asked /\ req[r].form.entity # None THEN "unset" ELSE "create")
    <3>1. req[r].at = "verify"
      BY <1>6 DEF VerifyFileExists, At
    <3>2. CASE req[r].form.asked /\ req[r].form.entity # None
      <4>1. GoTo(r, "unset") /\ "unset" \in Confirming \cup Deleting
        BY <2>2, <3>2 DEF Confirming
      <4> QED
        BY <1>1, <1>5, <3>1, <3>2, <4>1 DEF Confirming
    <3>3. CASE ~(req[r].form.asked /\ req[r].form.entity # None)
      <4>1. GoTo(r, "create") /\ "create" \in Confirming \cup Deleting
        BY <2>2, <3>3 DEF Confirming
      <4> QED
        BY <1>1, <1>5, <3>1, <4>1 DEF Confirming
    <3> QED
      BY <3>2, <3>3
  <2> QED
    BY <1>6, <2>1, <2>2 DEF VerifyFileExists
<1>7. CASE UnsetPrimary(r)
  <2>1. GoTo(r, "create") /\ "create" \in Confirming \cup Deleting /\ req[r].at = "unset"
    BY <1>7 DEF UnsetPrimary, At, Confirming
  <2> QED
    BY <1>1, <1>5, <2>1 DEF Confirming
<1>8. CASE SoftDelete(r)
  <2>1. GoTo(r, "remove") /\ "remove" \in Confirming \cup Deleting /\ req[r].at = "mark"
    BY <1>8 DEF SoftDelete, At, Deleting
  <2> QED
    BY <1>1, <1>5, <2>1 DEF Deleting
<1>9. CASE Create(r) \/ AddDeleteS3FileJob(r) \/ Abort(r)
  BY <1>2, <1>9 DEF Create, AddDeleteS3FileJob, Abort
<1> QED
  BY <1>1, <1>2, <1>3, <1>4, <1>6, <1>7, <1>8, <1>9 DEF Proceed

\* What a step makes of the jobs.
LEMMA JobsMove ==
  ASSUME TypeInv, [Next]_vars
  PROVE  jobs' \in [Keys -> Job] /\ JobsLeft'
<1>0. jobs \in [Keys -> Job] /\ Attempts \in Nat \ {0} /\ MaxStalls \in Nat
  BY FilesAssumption DEF TypeInv, TypeOK, Job
<1>1. NoJob \in Job /\ NoJob.state = "none" /\ "none" \notin Pending
  BY <1>0 DEF NoJob, Job, Pending
<1>2. ASSUME NEW p \in Keys, NEW j \in Job, jobs' = [jobs EXCEPT ![p] = j],
             j.state = "none" => j = NoJob,
             j.state \in Pending => j.left > 0 /\ j.stalls <= MaxStalls
      PROVE  jobs' \in [Keys -> Job] /\ JobsLeft'
  BY <1>0, <1>2 DEF TypeInv, JobsLeft
<1>3. CASE jobs' = jobs
  BY <1>0, <1>3 DEF TypeInv, JobsLeft
<1>4. ASSUME NEW r \in Requests, AddDeleteS3FileJob(r)
      PROVE  jobs' \in [Keys -> Job] /\ JobsLeft'
  <2> DEFINE p == files[req[r].id].path
             j == [NoJob EXCEPT !.state = "waiting"]
  <2>1. CASE jobs[p].state = "none"
    <3>1. p \in Keys
      BY <1>4, Locals, Rows DEF AddDeleteS3FileJob, At, Deleting
    <3>2. jobs[p] = NoJob
      BY <2>1, <3>1 DEF TypeInv, JobsLeft
    <3>3. jobs' = [jobs EXCEPT ![p] = j]
      BY <1>4, <2>1, <3>2 DEF AddDeleteS3FileJob
    <3>4. j \in Job /\ j.state = "waiting" /\ j.left > 0 /\ j.stalls <= MaxStalls
      BY <1>0 DEF NoJob, Job, Pending
    <3> HIDE DEF p, j
    <3> QED
      BY <1>2, <3>1, <3>3, <3>4
  <2>2. CASE jobs[p].state # "none"
    BY <1>3, <1>4, <2>2 DEF AddDeleteS3FileJob
  <2> QED
    BY <2>1, <2>2
<1>5. ASSUME NEW p \in Keys, Take(p) \/ DeleteS3File(p) \/ Forget(p)
      PROVE  jobs' \in [Keys -> Job] /\ JobsLeft'
  <2>0. jobs[p] \in Job /\ (jobs[p].state \in Pending => jobs[p].left > 0 /\ jobs[p].stalls <= MaxStalls)
    BY <1>0 DEF TypeInv, JobsLeft
  <2>1. CASE Take(p)
    <3> DEFINE j == [jobs[p] EXCEPT !.state = "active"]
    <3>1. jobs' = [jobs EXCEPT ![p] = j] /\ jobs[p].state = "waiting"
      BY <2>1 DEF Take
    <3>2. j \in Job /\ j.state = "active" /\ j.left > 0 /\ j.stalls <= MaxStalls
      BY <2>0, <3>1 DEF Job, Pending
    <3> HIDE DEF j
    <3> QED
      BY <1>2, <3>1, <3>2
  <2>2. CASE DeleteS3File(p)
    <3> DEFINE j == [jobs[p] EXCEPT !.state = "completed"]
    <3>1. jobs' = [jobs EXCEPT ![p] = j]
      BY <2>2 DEF DeleteS3File
    <3>2. j \in Job /\ j.state = "completed"
      BY <2>0 DEF Job, Pending
    <3>3. "completed" \notin Pending
      BY DEF Pending
    <3> HIDE DEF j
    <3> QED
      BY <1>2, <3>1, <3>2, <3>3
  <2>3. CASE Forget(p)
    BY <1>1, <1>2, <2>3 DEF Forget
  <2> QED
    BY <1>5, <2>1, <2>2, <2>3
<1>6. ASSUME NEW p \in Keys, DeleteFails(p)
      PROVE  jobs' \in [Keys -> Job] /\ JobsLeft'
  <2> DEFINE j == [jobs[p] EXCEPT !.state = IF jobs[p].left > 1 THEN "waiting" ELSE "failed",
                                  !.left = jobs[p].left - 1]
  <2>1. /\ jobs[p] \in Job /\ jobs[p].left > 0 /\ jobs[p].stalls <= MaxStalls
        /\ jobs' = [jobs EXCEPT ![p] = j]
    BY <1>0, <1>6 DEF TypeInv, JobsLeft, DeleteFails, Pending
  <2>2. jobs[p].left \in 0..Attempts
    BY <2>1 DEF Job
  <2>3. /\ j.state = IF jobs[p].left > 1 THEN "waiting" ELSE "failed"
        /\ j.left = jobs[p].left - 1 /\ j.stalls = jobs[p].stalls
    BY <2>1 DEF Job
  <2>4. jobs[p].left - 1 \in 0..Attempts
    BY <1>0, <2>1, <2>2
  <2>5. j \in Job
    BY <2>1, <2>4 DEF Job, Pending
  <2> HIDE DEF j
  <2>6. /\ j.state # "none"
        /\ j.state \in Pending => j.left > 0 /\ j.stalls <= MaxStalls
    BY <1>0, <2>1, <2>2, <2>3 DEF Pending
  <2> QED
    BY <1>2, <2>1, <2>5, <2>6
<1>7. ASSUME NEW p \in Keys, Stall(p)
      PROVE  jobs' \in [Keys -> Job] /\ JobsLeft'
  <2> DEFINE j == [jobs[p] EXCEPT !.state = IF jobs[p].stalls < MaxStalls THEN "waiting" ELSE "failed",
                                  !.stalls = jobs[p].stalls + 1]
  <2>1. /\ jobs[p] \in Job /\ jobs[p].left > 0 /\ jobs[p].stalls <= MaxStalls
        /\ jobs' = [jobs EXCEPT ![p] = j]
    BY <1>0, <1>7 DEF TypeInv, JobsLeft, Stall, Pending
  <2>2. jobs[p].stalls \in 0..(MaxStalls + 1)
    BY <2>1 DEF Job
  <2>3. /\ j.state = IF jobs[p].stalls < MaxStalls THEN "waiting" ELSE "failed"
        /\ j.stalls = jobs[p].stalls + 1 /\ j.left = jobs[p].left
    BY <2>1 DEF Job
  <2>4. jobs[p].stalls + 1 \in 0..(MaxStalls + 1)
    BY <1>0, <2>1, <2>2
  <2>5. j \in Job
    BY <2>1, <2>4 DEF Job, Pending
  <2> HIDE DEF j
  <2>6. /\ j.state # "none"
        /\ j.state \in Pending => j.left > 0 /\ j.stalls <= MaxStalls
    BY <1>0, <2>1, <2>2, <2>3 DEF Pending
  <2> QED
    BY <1>2, <2>1, <2>5, <2>6
<1>8. CASE \/ \E p \in Keys : Upload(p)
           \/ \E r \in Requests :
                \/ Confirms(r) \/ (\E i \in DOMAIN files : DeleteFile(r, i)) \/ Abort(r)
                \/ VerifyFileExists(r) \/ UnsetPrimary(r) \/ Create(r) \/ SoftDelete(r)
           \/ UNCHANGED vars
  <2>1. ASSUME NEW r \in Requests, Confirms(r)
        PROVE  jobs' = jobs
    BY <2>1 DEF Confirms, ConfirmUpload
  <2>2. ASSUME NEW r \in Requests, NEW i \in DOMAIN files, DeleteFile(r, i)
        PROVE  jobs' = jobs
    BY <2>2 DEF DeleteFile
  <2>3. ASSUME NEW r \in Requests,
               \/ VerifyFileExists(r) \/ UnsetPrimary(r) \/ Create(r) \/ SoftDelete(r)
               \/ Abort(r)
        PROVE  jobs' = jobs
    BY <2>3 DEF VerifyFileExists, UnsetPrimary, Create, SoftDelete, Abort
  <2>4. ASSUME NEW p \in Keys, Upload(p)
        PROVE  jobs' = jobs
    BY <2>4 DEF Upload
  <2>5. UNCHANGED vars => jobs' = jobs
    BY DEF vars
  <2> QED
    BY <1>3, <1>8, <2>1, <2>2, <2>3, <2>4, <2>5
<1> QED
  BY <1>4, <1>5, <1>6, <1>7, <1>8, StepKinds DEF Proceed, JobStep

LEMMA FaultsStay ==
  ASSUME [Next]_vars
  PROVE  faults' = faults
<1>1. ASSUME NEW p \in Keys, Upload(p) \/ JobStep(p)
      PROVE  faults' = faults
  BY <1>1 DEF Upload, JobStep, Take, DeleteS3File, DeleteFails, Stall, Forget, ElseUnchanged
<1>2. ASSUME NEW r \in Requests, Confirms(r)
      PROVE  faults' = faults
  BY <1>2 DEF Confirms, ConfirmUpload
<1>3. ASSUME NEW r \in Requests, NEW i \in DOMAIN files, DeleteFile(r, i)
      PROVE  faults' = faults
  BY <1>3 DEF DeleteFile
<1>4. ASSUME NEW r \in Requests, Proceed(r) \/ Abort(r)
      PROVE  faults' = faults
  BY <1>4 DEF Proceed, VerifyFileExists, UnsetPrimary, Create, SoftDelete,
     AddDeleteS3FileJob, Abort
<1>5. UNCHANGED vars => faults' = faults
  BY DEF vars
<1> QED
  BY <1>1, <1>2, <1>3, <1>4, <1>5, StepKinds

LEMMA TypeInvInit == Init => TypeInv
<1> SUFFICES ASSUME Init
             PROVE  TypeInv
  OBVIOUS
<1>1. faults \subseteq AllFaults /\ Attempts \in Nat \ {0} /\ MaxStalls \in Nat /\ MaxRequests \in Nat
  BY FilesAssumption DEF Init
<1>2. NoJob \in Job /\ NoJob.state = "none" /\ "none" \notin Pending
  BY <1>1 DEF NoJob, Job, Pending
<1>3. jobs \in [Keys -> Job] /\ JobsLeft
  BY <1>2 DEF Init, JobsLeft
<1>4. files \in Seq(File) /\ DOMAIN files = {}
  BY DEF Init
<1>5. Idle \in Request /\ Idle.at = "idle"
  BY DEF Idle, Request
<1>6. TypeOK
  BY <1>1, <1>3, <1>4, <1>5 DEF TypeOK, Init, Job
<1> QED
  BY <1>3, <1>5, <1>6 DEF TypeInv, Init

LEMMA TypeInvStep == TypeInv /\ [Next]_vars => TypeInv'
<1> SUFFICES ASSUME TypeInv, [Next]_vars
             PROVE  TypeInv'
  OBVIOUS
<1>1. jobs' \in [Keys -> Job] /\ JobsLeft'
  BY JobsMove
<1>2. /\ files' \in Seq(File)
      /\ \A i \in DOMAIN files : i \in DOMAIN files' /\ files'[i].key = files[i].key
      /\ \A i \in DOMAIN files' \ DOMAIN files :
           \E r \in Requests : ~Taken(req[r].form.key) /\ i = Len(files) + 1
                               /\ files'[i] = req[r].form
  BY RowsKept
<1>3. \A i, j \in DOMAIN files' : files'[i].key = files'[j].key => i = j
  <2>1. \A i, j \in DOMAIN files : files[i].key = files[j].key => i = j
    BY DEF TypeInv, TypeOK
  <2>2. \A i \in DOMAIN files' \ DOMAIN files : \A j \in DOMAIN files :
          files'[i].key # files[j].key
    BY <1>2 DEF Taken
  <2>3. \A i, j \in DOMAIN files' \ DOMAIN files : i = j
    BY <1>2
  <2> QED
    BY <1>2, <2>1, <2>2, <2>3
<1>4. faults' = faults
  BY FaultsStay
<1>5. requests' \in 0..MaxRequests
  <2>0. requests \in 0..MaxRequests /\ MaxRequests \in Nat
    BY FilesAssumption DEF TypeInv, TypeOK
  <2>1. ASSUME NEW p \in Keys, Upload(p) \/ JobStep(p)
        PROVE  requests' = requests
    BY <2>1 DEF Upload, JobStep, Take, DeleteS3File, DeleteFails, Stall, Forget, ElseUnchanged
  <2>2. ASSUME NEW r \in Requests, Confirms(r)
        PROVE  requests' = requests + 1 /\ requests < MaxRequests
    BY <2>2 DEF Confirms, ConfirmUpload
  <2>3. ASSUME NEW r \in Requests, NEW i \in DOMAIN files, DeleteFile(r, i)
        PROVE  requests' = requests + 1 /\ requests < MaxRequests
    BY <2>3 DEF DeleteFile
  <2>4. ASSUME NEW r \in Requests, Proceed(r) \/ Abort(r)
        PROVE  requests' = requests
    BY <2>4 DEF Proceed, VerifyFileExists, UnsetPrimary, Create, SoftDelete,
       AddDeleteS3FileJob, Abort
  <2>5. UNCHANGED vars => requests' = requests
    BY DEF vars
  <2>6. requests' = requests \/ (requests' = requests + 1 /\ requests < MaxRequests)
    BY <2>1, <2>2, <2>3, <2>4, <2>5, StepKinds
  <2> QED
    BY <2>0, <2>6
<1>6. store' \in [Keys -> {"nothing", "object", "removed"}]
  <2>0. store \in [Keys -> {"nothing", "object", "removed"}]
    BY DEF TypeInv, TypeOK
  <2>1. ASSUME NEW p \in Keys, Upload(p) \/ JobStep(p)
        PROVE  store' \in [Keys -> {"nothing", "object", "removed"}]
    BY <2>0, <2>1 DEF Upload, JobStep, Take, DeleteS3File, DeleteFails, Stall, Forget, Remove
  <2>2. ASSUME NEW r \in Requests, Confirms(r)
        PROVE  store' = store
    BY <2>2 DEF Confirms, ConfirmUpload
  <2>3. ASSUME NEW r \in Requests, NEW i \in DOMAIN files, DeleteFile(r, i)
        PROVE  store' = store
    BY <2>3 DEF DeleteFile
  <2>4. ASSUME NEW r \in Requests, Proceed(r) \/ Abort(r)
        PROVE  store' = store
    BY <2>4 DEF Proceed, VerifyFileExists, UnsetPrimary, Create, SoftDelete,
       AddDeleteS3FileJob, Abort
  <2>5. UNCHANGED vars => store' = store
    BY DEF vars
  <2> QED
    BY <2>0, <2>1, <2>2, <2>3, <2>4, <2>5, StepKinds
<1>7. /\ req' \in [Requests -> Request]
      /\ \A s \in Requests : OfRequest(req'[s], files')
  <2>0. /\ req \in [Requests -> Request]
        /\ \A q : OfRequest(q, files) => OfRequest(q, files')
        /\ \A s \in Requests : OfRequest(req[s], files)
    BY <1>2, RequestsTyped DEF TypeInv, OfRequest
  <2>1. ASSUME NEW r \in Requests,
               Confirms(r) \/ (\E i \in DOMAIN files : DeleteFile(r, i)) \/ Proceed(r) \/ Abort(r)
        PROVE  /\ req' \in [Requests -> Request]
               /\ \A s \in Requests : OfRequest(req'[s], files')
    BY <2>0, <2>1, OneMoves
  <2>2. ASSUME NEW p \in Keys, Upload(p) \/ JobStep(p)
        PROVE  req' = req
    BY <2>2 DEF Upload, JobStep, Take, DeleteS3File, DeleteFails, Stall, Forget, ElseUnchanged
  <2>3. UNCHANGED vars => req' = req
    BY DEF vars
  <2> QED
    BY <2>0, <2>1, <2>2, <2>3, StepKinds
<1>8. TypeOK'
  <2>1. \A s \in Requests :
          \/ req'[s] = Idle
          \/ req'[s].at \in Confirming /\ req'[s].form \in File /\ req'[s].id = 0
          \/ req'[s].at \in Deleting /\ req'[s].form = NoForm /\ req'[s].id \in DOMAIN files'
    BY <1>7 DEF OfRequest
  <2>2. \A s \in Requests :
          req'[s].at = "unset" => req'[s].form.asked /\ req'[s].form.entity # None
    BY <1>7 DEF OfRequest, Idle, Deleting
  <2> QED
    BY <1>1, <1>2, <1>3, <1>4, <1>5, <1>6, <2>1, <2>2 DEF TypeInv, TypeOK, Job
<1> QED
  BY <1>1, <1>7, <1>8 DEF TypeInv

(* Requests, rows and jobs are what they should be, for every number of    *)
(* each: no key is confirmed twice, a job never runs out of attempts or    *)
(* stalls below what it was given, and only a request for a primary file   *)
(* unsets others.                                                          *)
THEOREM FilesTyped == Spec => []TypeOK
<1>1. TypeInv => TypeOK
  BY DEF TypeInv
<1> QED
  BY <1>1, TypeInvInit, TypeInvStep, PTL DEF Spec

-----------------------------------------------------------------------------
(* How a confirmation goes on.                                             *)

\* What confirmUpload has made sure of before its first await.
Admitted(form) ==
  /\ form.primary = form.asked
  /\ Without({"mixed"}) => form.path = form.key
  /\ ~Taken(form.key)
  /\ \A s \in Requests : req[s].at \in Confirming =>
       /\ Without({"twice"}) => req[s].form.key # form.key
       /\ Without({"overlap"}) /\ form.asked /\ req[s].form.asked =>
            req[s].form.entity # form.entity

LEMMA ConfirmAdmits ==
  ASSUME TypeInv, NEW r \in Requests, Confirms(r)
  PROVE  /\ files' = files /\ \A s \in Requests \ {r} : req'[s] = req[s]
         /\ req[r].at = "idle"
         /\ \/ req' = req
            \/ req'[r].at = "verify" /\ Admitted(req'[r].form)
<1>1. PICK key \in Keys, path \in Keys, entity \in Entities \cup {None}, isPrimary \in BOOLEAN :
        ConfirmUpload(r, Form(key, path, entity, isPrimary))
  BY DEF Confirms
<1> DEFINE form == Form(key, path, entity, isPrimary)
<1>2. /\ files' = files /\ \A s \in Requests \ {r} : req'[s] = req[s]
      /\ req[r].at = "idle"
  BY <1>1, OneMoves DEF ConfirmUpload, At
<1>3. CASE Taken(form.key)
  BY <1>1, <1>2, <1>3 DEF ConfirmUpload
<1>4. CASE ~Taken(form.key)
  <2>1. req'[r] = [Idle EXCEPT !.at = "verify", !.form = form]
    BY <1>1, <1>4 DEF ConfirmUpload, TypeInv
  <2>2. req'[r].at = "verify" /\ req'[r].form = form
    BY <2>1 DEF Idle
  <2>3. /\ form.key = key /\ form.path = path /\ form.entity = entity
        /\ form.asked = isPrimary /\ form.primary = isPrimary
    BY DEF Form
  <2>4. /\ form.path = form.key \/ "mixed" \in faults
        /\ \A s \in Requests :
             /\ "twice" \in faults \/ ~(req[s].at \in Confirming /\ req[s].form.key = form.key)
             /\ "overlap" \in faults \/ ~(form.asked /\ OfEntity(s, form.entity))
    BY <1>1 DEF ConfirmUpload
  <2> HIDE DEF form
  <2>5. Admitted(form)
    BY <1>4, <2>3, <2>4 DEF Admitted, OfEntity, Without
  <2> QED
    BY <1>2, <2>2, <2>5
<1> QED
  BY <1>3, <1>4

\* How a request that is at a confirmation got there.
LEMMA ConfirmingMoves ==
  ASSUME TypeInv, [Next]_vars, NEW r \in Requests, req'[r].at \in Confirming
  PROVE  \/ req[r].at \in Confirming /\ req'[r].form = req[r].form
         \/ /\ files' = files /\ \A s \in Requests \ {r} : req'[s] = req[s]
            /\ Admitted(req'[r].form) /\ req'[r].at = "verify"
<1>0. req \in [Requests -> Request] /\ req[r] \in Request /\ Idle.at = "idle"
  BY DEF TypeInv, Idle
<1>1. CASE req'[r] = req[r]
  BY <1>1
<1>2. CASE Confirms(r)
  BY <1>1, <1>2, ConfirmAdmits
<1>3. CASE VerifyFileExists(r) \/ UnsetPrimary(r) \/ Create(r) \/ Abort(r)
  <2>1. CASE End(r)
    BY <1>0, <2>1 DEF End, Confirming
  <2>2. ASSUME NEW stage, GoTo(r, stage), req[r].at \in Confirming
        PROVE  req'[r].form = req[r].form
    BY <1>0, <2>2 DEF GoTo, Request
  <2> QED
    BY <1>3, <2>1, <2>2 DEF VerifyFileExists, UnsetPrimary, Create, Abort, At, Confirming
<1>4. CASE SoftDelete(r) \/ AddDeleteS3FileJob(r) \/ \E i \in DOMAIN files : DeleteFile(r, i)
  <2>1. req'[r].at \in {"remove", "idle", "mark"}
    BY ZenonT(40), <1>0, <1>4
       DEF SoftDelete, AddDeleteS3FileJob, DeleteFile, End, GoTo, Idle, Request
  <2> QED
    BY <2>1 DEF Confirming
<1>5. ASSUME NEW s \in Requests, s # r,
             Confirms(s) \/ (\E i \in DOMAIN files : DeleteFile(s, i)) \/ Proceed(s) \/ Abort(s)
      PROVE  req'[r] = req[r]
  BY <1>5, OneMoves
<1>6. ASSUME NEW p \in Keys, Upload(p) \/ JobStep(p)
      PROVE  req' = req
  BY <1>6 DEF Upload, JobStep, Take, DeleteS3File, DeleteFails, Stall, Forget, ElseUnchanged
<1>7. UNCHANGED vars => req' = req
  BY DEF vars
<1> QED
  BY <1>1, <1>2, <1>3, <1>4, <1>5, <1>6, <1>7, StepKinds DEF Proceed

\* How it got past the look at S3.
LEMMA PastVerify ==
  ASSUME TypeInv, [Next]_vars, NEW r \in Requests, req'[r].at \in {"unset", "create"}
  PROVE  /\ req[r].at \in Confirming /\ req'[r].form = req[r].form
         /\ \/ req'[r] = req[r]
            \/ UnsetPrimary(r)
            \/ /\ store[req[r].form.path] = "object" /\ UNCHANGED <<files, store>>
               /\ req'[r].at = "create" => ~(req[r].form.asked /\ req[r].form.entity # None)
<1>0. req \in [Requests -> Request] /\ req[r] \in Request /\ Idle.at = "idle"
  BY DEF TypeInv, Idle
<1>1. /\ req'[r].at # "verify"
      /\ req'[r].at \in Confirming
  BY DEF Confirming
<1>2. req[r].at \in Confirming /\ req'[r].form = req[r].form
  BY <1>1, ConfirmingMoves
<1>3. ASSUME VerifyFileExists(r)
      PROVE  /\ store[req[r].form.path] = "object" /\ UNCHANGED <<files, store>>
             /\ req'[r].at = "create" => ~(req[r].form.asked /\ req[r].form.entity # None)
  <2>1. ~End(r)
    BY <1>0 DEF End
  <2>2. /\ store[req[r].form.path] = "object" /\ UNCHANGED <<files, store>>
        /\ GoTo(r, IF req[r].form.asked /\ req[r].form.entity # None THEN "unset" ELSE "create")
    BY <1>3, <2>1 DEF VerifyFileExists
  <2> QED
    BY <1>0, <2>2 DEF GoTo, Request
<1>4. ~Create(r) /\ ~Abort(r) /\ ~AddDeleteS3FileJob(r)
  BY <1>0 DEF Create, Abort, AddDeleteS3FileJob, End
<1>5. ~SoftDelete(r) /\ ~Confirms(r) /\ \A i \in DOMAIN files : ~DeleteFile(r, i)
  BY <1>2, ConfirmAdmits DEF SoftDelete, DeleteFile, At, Confirming
<1>6. ASSUME NEW s \in Requests, s # r,
             Confirms(s) \/ (\E i \in DOMAIN files : DeleteFile(s, i)) \/ Proceed(s) \/ Abort(s)
      PROVE  req'[r] = req[r]
  BY <1>6, OneMoves
<1>7. ASSUME NEW p \in Keys, Upload(p) \/ JobStep(p)
      PROVE  req' = req
  BY <1>7 DEF Upload, JobStep, Take, DeleteS3File, DeleteFails, Stall, Forget, ElseUnchanged
<1>8. UNCHANGED vars => req' = req
  BY DEF vars
<1> QED
  BY <1>2, <1>3, <1>4, <1>5, <1>6, <1>7, <1>8, StepKinds DEF Proceed

LEMMA FormsHonestStep ==
  ASSUME TypeInv, FormsHonest, [Next]_vars
  PROVE  FormsHonest'
  BY ConfirmingMoves DEF FormsHonest, Admitted

-----------------------------------------------------------------------------
(* One primary file.                                                       *)

\* A step adds a primary file only where one was asked for.
LEMMA PrimaryAdded ==
  ASSUME TypeInv, FormsHonest, [Next]_vars, NEW e,
         NEW i \in PrimariesOf(e)', i \notin PrimariesOf(e)
  PROVE  \E r \in Requests :
           /\ Create(r) /\ i = Len(files) + 1
           /\ req[r].form.asked /\ req[r].form.entity = e
<1>1. i \in DOMAIN files' /\ files'[i].entity = e /\ files'[i].primary
  BY DEF PrimariesOf
<1>2. i \notin DOMAIN files
  BY <1>1, RowsKept DEF PrimariesOf
<1>3. PICK r \in Requests : Create(r) /\ i = Len(files) + 1 /\ files'[i] = req[r].form
  BY <1>1, <1>2, RowsKept
<1>4. req[r].form.primary = req[r].form.asked
  BY <1>3 DEF FormsHonest, Create, At, Confirming
<1> QED
  BY <1>1, <1>3, <1>4

LEMMA CreateEnds ==
  ASSUME TypeInv, NEW r \in Requests, Create(r)
  PROVE  req'[r].at = "idle"
  BY DEF Create, End, TypeInv, Idle

LEMMA PrimaryInvInit == Init => PrimaryInv
  BY TypeInvInit
  DEF Init, PrimaryInv, FormsHonest, ConfirmedAlone, UnsetBefore, OnePrimary, PrimariesOf,
      Idle, At, Confirming

LEMMA PrimaryInvStep == PrimaryInv /\ [Next]_vars => PrimaryInv'
<1> SUFFICES ASSUME PrimaryInv, [Next]_vars
             PROVE  PrimaryInv'
  OBVIOUS
<1>1. TypeInv /\ FormsHonest /\ TypeInv' /\ FormsHonest' /\ faults' = faults
  BY TypeInvStep, FormsHonestStep, FaultsStay DEF PrimaryInv
<1> SUFFICES ASSUME Without({"overlap"})
             PROVE  ConfirmedAlone' /\ UnsetBefore' /\ OnePrimary'
  BY <1>1 DEF PrimaryInv, Without
<1>2. ConfirmedAlone /\ UnsetBefore /\ \A e \in Entities : \A i, j \in PrimariesOf(e) : i = j
  BY DEF PrimaryInv, OnePrimary
<1>3. ConfirmedAlone'
  <2> SUFFICES ASSUME NEW r \in Requests, NEW s \in Requests, r # s,
                      req'[r].at \in Confirming, req'[s].at \in Confirming,
                      req'[r].form.asked, req'[s].form.asked
               PROVE  req'[r].form.entity # req'[s].form.entity
    BY DEF ConfirmedAlone
  <2>1. CASE /\ req[r].at \in Confirming /\ req'[r].form = req[r].form
             /\ req[s].at \in Confirming /\ req'[s].form = req[s].form
    BY <1>2, <2>1 DEF ConfirmedAlone
  <2>2. CASE req'[s] = req[s] /\ Admitted(req'[r].form)
    BY <2>2 DEF Admitted
  <2>3. CASE req'[r] = req[r] /\ Admitted(req'[s].form)
    BY <2>3 DEF Admitted
  <2> QED
    BY <1>1, <2>1, <2>2, <2>3, ConfirmingMoves
<1>4. UnsetBefore'
  <2> SUFFICES ASSUME NEW r \in Requests, NEW e \in Entities, req'[r].at = "create",
                      req'[r].form.asked, req'[r].form.entity = e,
                      NEW i \in PrimariesOf(e)'
               PROVE  FALSE
    BY DEF UnsetBefore, At, OfEntity
  <2>1. /\ req[r].at \in Confirming /\ req'[r].form = req[r].form
        /\ req[r].form.entity = e /\ e # None
    BY <1>1, PastVerify, FilesAssumption
  <2>2. CASE UnsetPrimary(r)
    <3>1. DOMAIN files' = DOMAIN files /\ files \in Seq(File)
      BY <1>1, <2>2 DEF UnsetPrimary, TypeInv, TypeOK
    <3>2. i \in DOMAIN files /\ files'[i].entity = e /\ files'[i].primary
      BY <2>1, <3>1 DEF PrimariesOf
    <3>3. files[i] \in File
      BY <3>1, <3>2
    <3>4. files'[i].primary = FALSE
      <4>1. files'[i] = IF files[i].entity = e THEN [files[i] EXCEPT !.primary = FALSE] ELSE files[i]
        BY <2>1, <2>2, <3>2 DEF UnsetPrimary
      <4> QED
        BY <3>2, <3>3, <4>1, FileFields
    <3> QED
      BY <3>2, <3>4
  <2>3. CASE req'[r] = req[r]
    <3>1. PrimariesOf(e) = {}
      BY <1>2, <2>1, <2>3 DEF UnsetBefore, At, OfEntity, Confirming
    <3>2. PICK s \in Requests : Create(s) /\ req[s].form.asked /\ req[s].form.entity = e
      BY <1>1, <2>1, <3>1, PrimaryAdded
    <3>3. s # r
      BY <1>1, <3>2, CreateEnds
    <3> QED
      BY <1>2, <2>1, <3>2, <3>3 DEF ConfirmedAlone, Create, At, Confirming
  <2> QED
    BY <1>1, <2>1, <2>2, <2>3, PastVerify
<1>5. OnePrimary'
  <2> SUFFICES ASSUME NEW e \in Entities, NEW i \in PrimariesOf(e)', NEW j \in PrimariesOf(e)'
               PROVE  i = j
    BY DEF OnePrimary
  <2>1. CASE i \in PrimariesOf(e) /\ j \in PrimariesOf(e)
    BY <1>2, <2>1
  <2>2. ASSUME NEW k \in PrimariesOf(e)', k \notin PrimariesOf(e)
        PROVE  PrimariesOf(e) = {} /\ k = Len(files) + 1
    <3>1. PICK r \in Requests : /\ Create(r) /\ k = Len(files) + 1
                                /\ req[r].form.asked /\ req[r].form.entity = e
      BY <1>1, <2>2, PrimaryAdded
    <3> QED
      BY <1>2, <3>1 DEF UnsetBefore, Create, OfEntity, At, Confirming
  <2> QED
    BY <2>1, <2>2
<1> QED
  BY <1>3, <1>4, <1>5

(* For every number of requests and files: an entity has one primary file  *)
(* at most, deleted rows included, whatever fails, is confirmed twice or   *)
(* under another path, unless two are confirmed for it together.           *)
THEOREM AtMostOnePrimary == Spec => []OnePrimary
<1>1. PrimaryInv => OnePrimary
  BY DEF PrimaryInv, OnePrimary, Without
<1> QED
  BY <1>1, PrimaryInvInit, PrimaryInvStep, PTL DEF Spec

-----------------------------------------------------------------------------
(* Never none.                                                             *)

\* Only UnsetPrimary makes a file no longer primary.
LEMMA PrimaryStays ==
  ASSUME TypeInv, [Next]_vars, NEW i \in DOMAIN files,
         \A r \in Requests : UnsetPrimary(r) => req[r].form.entity # files[i].entity
  PROVE  files'[i].primary = files[i].primary
<1>0. files \in Seq(File) /\ \A k \in DOMAIN files : files[k] \in File
  BY DEF TypeInv, TypeOK
<1>1. ASSUME NEW r \in Requests, UnsetPrimary(r)
      PROVE  files'[i].primary = files[i].primary
  BY <1>1 DEF UnsetPrimary
<1>2. ASSUME NEW r \in Requests, Create(r)
      PROVE  files'[i].primary = files[i].primary
  <2>1. req[r].form \in File
    BY <1>2 DEF TypeInv, TypeOK, Create, At, Idle, Confirming, Deleting
  <2> QED
    BY <1>0, <1>2, <2>1, NewRow DEF Create
<1>3. ASSUME NEW r \in Requests, SoftDelete(r)
      PROVE  files'[i].primary = files[i].primary
  <2>1. files' = [files EXCEPT ![req[r].id].deleted = TRUE]
    BY <1>3 DEF SoftDelete
  <2>2. files'[i] = IF i = req[r].id THEN [files[i] EXCEPT !.deleted = TRUE] ELSE files[i]
    BY <2>1
  <2> QED
    BY <1>0, <2>2, FileFields
<1>4. ASSUME NEW r \in Requests,
             \/ Confirms(r) \/ (\E k \in DOMAIN files : DeleteFile(r, k))
             \/ VerifyFileExists(r) \/ AddDeleteS3FileJob(r) \/ Abort(r)
      PROVE  files' = files
  BY <1>4, ConfirmAdmits DEF DeleteFile, VerifyFileExists, AddDeleteS3FileJob, Abort
<1>5. ASSUME NEW p \in Keys, Upload(p) \/ JobStep(p)
      PROVE  files' = files
  BY <1>5 DEF Upload, JobStep, Take, DeleteS3File, DeleteFails, Stall, Forget, ElseUnchanged
<1>6. UNCHANGED vars => files' = files
  BY DEF vars
<1> QED
  BY <1>1, <1>2, <1>3, <1>4, <1>5, <1>6, StepKinds DEF Proceed

\* A request about to create its row does so, or is cut short.
LEMMA CreateOrAbort ==
  ASSUME TypeInv, [Next]_vars, NEW r \in Requests, At(r, "create")
  PROVE  req'[r] = req[r] \/ Create(r) \/ "abort" \in faults
<1>1. CASE \/ Confirms(r) \/ (\E i \in DOMAIN files : DeleteFile(r, i))
           \/ Proceed(r) \/ Abort(r)
  BY <1>1, ConfirmAdmits DEF At, DeleteFile, Proceed, VerifyFileExists, UnsetPrimary,
     SoftDelete, AddDeleteS3FileJob, Abort
<1>2. ASSUME NEW s \in Requests, s # r,
             Confirms(s) \/ (\E i \in DOMAIN files : DeleteFile(s, i)) \/ Proceed(s) \/ Abort(s)
      PROVE  req'[r] = req[r]
  BY <1>2, OneMoves
<1>3. ASSUME NEW p \in Keys, Upload(p) \/ JobStep(p)
      PROVE  req' = req
  BY <1>3 DEF Upload, JobStep, Take, DeleteS3File, DeleteFails, Stall, Forget, ElseUnchanged
<1>4. UNCHANGED vars => req' = req
  BY DEF vars
<1> QED
  BY <1>1, <1>2, <1>3, <1>4, StepKinds

LEMMA KeysFreeStep ==
  ASSUME TypeInv, KeysFree, [Next]_vars, Without({"twice"})
  PROVE  KeysFree'
<1> SUFFICES ASSUME NEW r \in Requests, req'[r].at \in Confirming
             PROVE  /\ \A i \in DOMAIN files' : files'[i].key # req'[r].form.key
                    /\ \A s \in Requests \ {r} :
                         req'[s].at \in Confirming => req'[s].form.key # req'[r].form.key
  BY DEF KeysFree, Taken
<1>1. \A s \in Requests \ {r} :
        req'[s].at \in Confirming => req'[s].form.key # req'[r].form.key
  <2> SUFFICES ASSUME NEW s \in Requests \ {r}, req'[s].at \in Confirming
               PROVE  req'[s].form.key # req'[r].form.key
    OBVIOUS
  <2>1. CASE /\ req[r].at \in Confirming /\ req'[r].form = req[r].form
             /\ req[s].at \in Confirming /\ req'[s].form = req[s].form
    BY <2>1 DEF KeysFree
  <2>2. CASE req'[s] = req[s] /\ Admitted(req'[r].form)
    BY <2>2 DEF Admitted
  <2>3. CASE req'[r] = req[r] /\ Admitted(req'[s].form)
    BY <2>3 DEF Admitted
  <2> QED
    BY <2>1, <2>2, <2>3, ConfirmingMoves
<1>2. ASSUME NEW i \in DOMAIN files', files'[i].key = req'[r].form.key
      PROVE  FALSE
  <2>1. CASE files' = files /\ Admitted(req'[r].form)
    BY <1>2, <2>1 DEF Admitted, Taken
  <2>2. CASE req[r].at \in Confirming /\ req'[r].form = req[r].form
    <3>1. \A k \in DOMAIN files : files[k].key # req[r].form.key
      BY <2>2 DEF KeysFree, Taken
    <3>2. i \notin DOMAIN files
      BY <1>2, <2>2, <3>1, RowsKept
    <3>3. PICK s \in Requests : Create(s) /\ files'[i] = req[s].form
      BY <1>2, <3>2, RowsKept
    <3>4. s # r
      BY <3>3, CreateEnds DEF Confirming
    <3>5. req[s].at \in Confirming
      BY <3>3 DEF Create, At, Confirming
    <3> QED
      BY <1>2, <2>2, <3>3, <3>4, <3>5 DEF KeysFree
  <2> QED
    BY <2>1, <2>2, ConfirmingMoves
<1> QED
  BY <1>1, <1>2

LEMMA LastInvInit == Init => LastInv
  BY TypeInvInit
  DEF Init, LastInv, FormsHonest, KeysFree, LastPrimaryStays, Asked, Idle, Confirming

LEMMA LastInvStep == LastInv /\ [Next]_vars => LastInv'
<1> SUFFICES ASSUME LastInv, [Next]_vars
             PROVE  LastInv'
  OBVIOUS
<1>1. TypeInv /\ FormsHonest /\ TypeInv' /\ FormsHonest' /\ faults' = faults
  BY TypeInvStep, FormsHonestStep, FaultsStay DEF LastInv
<1>2. Without({"twice"})' => KeysFree'
  BY <1>1, KeysFreeStep DEF LastInv, Without
<1>3. ASSUME Without({"abort", "twice"}), NEW e \in Entities
      PROVE  \/ Asked(e)' = {}
             \/ \E r \in Requests : At(r, "create")' /\ OfEntity(r, e)'
             \/ \E i \in Asked(e)' : files'[i].primary /\ \A j \in Asked(e)' : j <= i
  <2>0. /\ files \in Seq(File) /\ files' \in Seq(File)
        /\ \A i \in DOMAIN files' : i \in Nat
        /\ e # None
    BY <1>1, FilesAssumption DEF TypeInv, TypeOK
  <2>1. CASE \E r \in Requests : UnsetPrimary(r) /\ req[r].form.entity = e
    <3>1. PICK r \in Requests : UnsetPrimary(r) /\ req[r].form.entity = e
      BY <2>1
    <3>2. req[r] \in Request /\ req[r].at = "unset" /\ req[r].form.asked
      BY <1>1, <3>1 DEF UnsetPrimary, At, TypeInv, TypeOK
    <3>3. req'[r].at = "create" /\ req'[r].form = req[r].form
      BY <1>1, <3>1, <3>2 DEF UnsetPrimary, GoTo, TypeInv, Request
    <3> QED
      BY <3>1, <3>2, <3>3 DEF At, OfEntity, Confirming
  <2>2. ASSUME NEW r \in Requests, Create(r), OfEntity(r, e)
        PROVE  \E i \in Asked(e)' : files'[i].primary /\ \A j \in Asked(e)' : j <= i
    <3>1. ~Taken(req[r].form.key) /\ req[r].form.asked /\ req[r].form.entity = e
      BY <1>3, <2>2 DEF LastInv, KeysFree, OfEntity, Without
    <3>2. req[r].form \in File /\ req[r].form.primary = req[r].form.asked
      BY <1>1, <2>2 DEF TypeInv, TypeOK, FormsHonest, Create, At, Idle, Confirming, Deleting
    <3>3. files' = Append(files, req[r].form)
      BY <2>2, <3>1 DEF Create
    <3>4. /\ DOMAIN files' = DOMAIN files \cup {Len(files) + 1}
          /\ files'[Len(files) + 1] = req[r].form
          /\ \A i \in DOMAIN files : i \in Nat /\ i <= Len(files)
      BY <2>0, <3>2, <3>3, NewRow
    <3>5. Len(files) \in Nat
      BY <2>0
    <3>6. \A i \in DOMAIN files' : i <= Len(files) + 1
      BY <3>4, <3>5
    <3>7. Len(files) + 1 \in Asked(e)'
      BY <3>1, <3>4 DEF Asked
    <3> QED
      BY <3>1, <3>2, <3>4, <3>6, <3>7 DEF Asked
  <2>3. CASE /\ \A r \in Requests : UnsetPrimary(r) => req[r].form.entity # e
             /\ \A r \in Requests : Create(r) => ~OfEntity(r, e)
    <3>1. Asked(e)' = Asked(e)
      <4>1. \A i \in DOMAIN files' \ DOMAIN files : ~(files'[i].entity = e /\ files'[i].asked)
        <5>1. ASSUME NEW i \in DOMAIN files' \ DOMAIN files
              PROVE  ~(files'[i].entity = e /\ files'[i].asked)
          <6>1. PICK r \in Requests : Create(r) /\ files'[i] = req[r].form
            BY <1>1, RowsKept
          <6> QED
            BY <2>3, <6>1 DEF OfEntity, Create, At, Confirming
        <5> QED
          BY <5>1
      <4> QED
        BY <1>1, <4>1, RowsKept DEF Asked
    <3>2. \A i \in Asked(e) : files'[i].primary = files[i].primary
      BY <1>1, <2>3, PrimaryStays DEF Asked
    <3>3. ASSUME NEW r \in Requests, At(r, "create"), OfEntity(r, e)
          PROVE  At(r, "create")' /\ OfEntity(r, e)'
      <4>1. req'[r] = req[r]
        BY <1>1, <1>3, <2>3, <3>3, CreateOrAbort DEF Without
      <4> QED
        BY <3>3, <4>1 DEF At, OfEntity
    <3>4. \/ Asked(e) = {}
          \/ \E r \in Requests : At(r, "create") /\ OfEntity(r, e)
          \/ \E i \in Asked(e) : files[i].primary /\ \A j \in Asked(e) : j <= i
      BY <1>3 DEF LastInv, LastPrimaryStays
    <3> QED
      BY <3>1, <3>2, <3>3, <3>4
  <2> QED
    BY <2>1, <2>2, <2>3
<1>4. LastPrimaryStays'
  BY <1>1, <1>3 DEF LastPrimaryStays, Without
<1> QED
  BY <1>1, <1>2, <1>4 DEF LastInv

(* An entity for which a primary file was ever asked has one, and it is    *)
(* the last that was confirmed, overlapping confirmations included, unless *)
(* a confirmation fails after it unset the others.                         *)
THEOREM LastConfirmedIsPrimary == Spec => []LastPrimaryStays
<1>1. LastInv => LastPrimaryStays
  BY DEF LastInv
<1> QED
  BY <1>1, LastInvInit, LastInvStep, PTL DEF Spec

-----------------------------------------------------------------------------
(* An object for every file.                                               *)

LEMMA TakenStays ==
  ASSUME TypeInv, [Next]_vars, NEW key, Taken(key)
  PROVE  Taken(key)'
  BY RowsKept DEF Taken

\* Only a job that is carried out removes an object.
LEMMA StoreLoses ==
  ASSUME TypeInv, [Next]_vars, NEW p \in Keys, store[p] = "object", store'[p] # "object"
  PROVE  jobs[p].state \in Pending
<1>0. store \in [Keys -> {"nothing", "object", "removed"}]
  BY DEF TypeInv, TypeOK
<1>1. ASSUME NEW q \in Keys, JobStep(q)
      PROVE  jobs[p].state \in Pending
  BY <1>0, <1>1 DEF JobStep, Take, DeleteS3File, DeleteFails, Stall, Forget, Remove, Pending
<1>2. \A q \in Keys : ~Upload(q)
  BY <1>0 DEF Upload
<1>3. ASSUME NEW r \in Requests, Confirms(r)
      PROVE  store' = store
  BY <1>3 DEF Confirms, ConfirmUpload
<1>4. ASSUME NEW r \in Requests, NEW i \in DOMAIN files, DeleteFile(r, i)
      PROVE  store' = store
  BY <1>4 DEF DeleteFile
<1>5. ASSUME NEW r \in Requests, Proceed(r) \/ Abort(r)
      PROVE  store' = store
  BY <1>5 DEF Proceed, VerifyFileExists, UnsetPrimary, Create, SoftDelete,
     AddDeleteS3FileJob, Abort
<1>6. UNCHANGED vars => store' = store
  BY DEF vars
<1> QED
  BY <1>1, <1>2, <1>3, <1>4, <1>5, <1>6, StepKinds

\* A job waits for what a request asked to have removed.
LEMMA JobAdded ==
  ASSUME TypeInv, [Next]_vars, NEW p \in Keys,
         jobs'[p].state \in Pending, jobs[p].state \notin Pending
  PROVE  \E r \in Requests : At(r, "remove") /\ p = files[req[r].id].path /\ files' = files
<1>0. jobs \in [Keys -> Job]
  BY DEF TypeInv, TypeOK, Job
<1>1. ASSUME NEW r \in Requests, AddDeleteS3FileJob(r)
      PROVE  At(r, "remove") /\ p = files[req[r].id].path /\ files' = files
  BY <1>0, <1>1 DEF AddDeleteS3FileJob
<1>2. ASSUME NEW q \in Keys, JobStep(q)
      PROVE  FALSE
  <2>1. CASE p # q
    BY <1>0, <1>2, <2>1 DEF JobStep, Take, DeleteS3File, DeleteFails, Stall, Forget
  <2>2. CASE p = q /\ (Take(q) \/ DeleteS3File(q) \/ DeleteFails(q) \/ Stall(q))
    BY <2>2 DEF Take, DeleteS3File, DeleteFails, Stall, Pending
  <2>3. CASE p = q /\ Forget(q)
    <3>1. jobs'[p] = NoJob
      BY <1>0, <2>3 DEF Forget
    <3> QED
      BY <3>1 DEF NoJob, Pending
  <2> QED
    BY <1>2, <2>1, <2>2, <2>3 DEF JobStep
<1>3. ASSUME NEW r \in Requests, Confirms(r)
      PROVE  jobs' = jobs
  BY <1>3 DEF Confirms, ConfirmUpload
<1>4. ASSUME NEW r \in Requests, NEW i \in DOMAIN files, DeleteFile(r, i)
      PROVE  jobs' = jobs
  BY <1>4 DEF DeleteFile
<1>5. ASSUME NEW r \in Requests,
             \/ VerifyFileExists(r) \/ UnsetPrimary(r) \/ Create(r) \/ SoftDelete(r) \/ Abort(r)
      PROVE  jobs' = jobs
  BY <1>5 DEF VerifyFileExists, UnsetPrimary, Create, SoftDelete, Abort
<1>6. ASSUME NEW q \in Keys, Upload(q)
      PROVE  jobs' = jobs
  BY <1>6 DEF Upload
<1>7. UNCHANGED vars => jobs' = jobs
  BY DEF vars
<1> QED
  BY <1>1, <1>2, <1>3, <1>4, <1>5, <1>6, <1>7, StepKinds DEF Proceed

\* A request that is about to add the job has marked its row.
LEMMA MarkedFirst ==
  ASSUME TypeInv, [Next]_vars, NEW r \in Requests, At(r, "remove")'
  PROVE  \/ req'[r] = req[r]
         \/ req'[r].id = req[r].id /\ req[r].id \in DOMAIN files /\ files'[req[r].id].deleted
<1>0. req \in [Requests -> Request] /\ req[r] \in Request /\ files \in Seq(File)
  BY DEF TypeInv, TypeOK
<1>1. ASSUME SoftDelete(r)
      PROVE  req'[r].id = req[r].id /\ req[r].id \in DOMAIN files /\ files'[req[r].id].deleted
  <2>1. req[r].at = "mark"
    BY <1>1 DEF SoftDelete, At
  <2>2. req[r].id \in DOMAIN files
    BY <2>1, Locals DEF Deleting
  <2>3. files[req[r].id] \in File
    BY <1>0, <2>2
  <2>4. files'[req[r].id] = [files[req[r].id] EXCEPT !.deleted = TRUE]
    BY <1>1, <2>2 DEF SoftDelete
  <2>5. req'[r].id = req[r].id
    BY <1>0, <1>1 DEF SoftDelete, GoTo, Request
  <2> QED
    BY <2>2, <2>3, <2>4, <2>5, FileFields
<1>2. ~Confirms(r) \/ req'[r] = req[r]
  BY ConfirmAdmits DEF At
<1>3. \A i \in DOMAIN files : ~DeleteFile(r, i)
  BY <1>0 DEF DeleteFile, At, Idle
<1>4. ~(VerifyFileExists(r) \/ UnsetPrimary(r) \/ Create(r) \/ AddDeleteS3FileJob(r) \/ Abort(r))
  BY <1>0 DEF VerifyFileExists, UnsetPrimary, Create, AddDeleteS3FileJob, Abort, End, GoTo,
     At, Idle, Request
<1>5. ASSUME NEW s \in Requests, s # r,
             Confirms(s) \/ (\E i \in DOMAIN files : DeleteFile(s, i)) \/ Proceed(s) \/ Abort(s)
      PROVE  req'[r] = req[r]
  BY <1>5, OneMoves
<1>6. ASSUME NEW p \in Keys, Upload(p) \/ JobStep(p)
      PROVE  req' = req
  BY <1>6 DEF Upload, JobStep, Take, DeleteS3File, DeleteFails, Stall, Forget, ElseUnchanged
<1>7. UNCHANGED vars => req' = req
  BY DEF vars
<1> QED
  BY <1>1, <1>2, <1>3, <1>4, <1>5, <1>6, <1>7, StepKinds DEF Proceed

LEMMA ObjectInvInit == Init => ObjectInv
  BY TypeInvInit
  DEF Init, ObjectInv, OwnPaths, JobsOfDeleted, SeenObject, FileHasObject, Idle, NoJob,
      Pending, At, Confirming

LEMMA ObjectInvStep == ObjectInv /\ [Next]_vars => ObjectInv'
<1> SUFFICES ASSUME ObjectInv, [Next]_vars
             PROVE  ObjectInv'
  OBVIOUS
<1>1. TypeInv /\ TypeInv' /\ faults' = faults
  BY TypeInvStep, FaultsStay DEF ObjectInv
<1> SUFFICES ASSUME Without({"mixed"})
             PROVE  OwnPaths' /\ JobsOfDeleted' /\ SeenObject' /\ FileHasObject'
  BY <1>1 DEF ObjectInv, Without
<1>2. /\ OwnPaths /\ JobsOfDeleted /\ SeenObject
      /\ \A i \in DOMAIN files : ~files[i].deleted => store[files[i].path] = "object"
  BY DEF ObjectInv, FileHasObject
<1>3. /\ files \in Seq(File)
      /\ \A i \in DOMAIN files : files[i] \in File /\ files[i].path \in Keys
      /\ \A i, j \in DOMAIN files : files[i].key = files[j].key => i = j
  BY <1>1, Rows
<1>4. OwnPaths'
  <2>1. ASSUME NEW r \in Requests, req'[r].at \in Confirming
        PROVE  req'[r].form.path = req'[r].form.key
    BY <1>1, <1>2, <2>1, ConfirmingMoves DEF OwnPaths, Admitted
  <2>2. ASSUME NEW i \in DOMAIN files'
        PROVE  files'[i].path = files'[i].key
    <3>1. CASE i \in DOMAIN files
      BY <1>1, <1>2, <3>1, RowsKept DEF OwnPaths
    <3>2. CASE i \notin DOMAIN files
      BY <1>1, <1>2, <2>2, <3>2, RowsKept DEF OwnPaths, Create, At, Confirming
    <3> QED
      BY <3>1, <3>2
  <2> QED
    BY <2>1, <2>2 DEF OwnPaths
<1>5. JobsOfDeleted'
  <2>1. ASSUME NEW r \in Requests, At(r, "remove")'
        PROVE  files'[req'[r].id].deleted
    <3>1. CASE req'[r] = req[r]
      <4>1. At(r, "remove") /\ req[r].id \in DOMAIN files
        BY <1>1, <2>1, <3>1, Locals DEF At, Deleting
      <4> QED
        BY <1>1, <1>2, <3>1, <4>1, RowsKept DEF JobsOfDeleted
    <3> QED
      BY <1>1, <2>1, <3>1, MarkedFirst
  <2>2. ASSUME NEW p \in Keys, jobs'[p].state \in Pending
        PROVE  \E i \in DOMAIN files' : files'[i].path = p /\ files'[i].deleted
    <3>1. CASE jobs[p].state \in Pending
      BY <1>1, <1>2, <3>1, RowsKept DEF JobsOfDeleted
    <3>2. CASE jobs[p].state \notin Pending
      <4>1. PICK r \in Requests :
              At(r, "remove") /\ p = files[req[r].id].path /\ files' = files
        BY <1>1, <2>2, <3>2, JobAdded
      <4>2. req[r].id \in DOMAIN files /\ files[req[r].id].deleted
        BY <1>1, <1>2, <4>1, Locals DEF JobsOfDeleted, At, Deleting
      <4> QED
        BY <4>1, <4>2
    <3> QED
      BY <3>1, <3>2
  <2> QED
    BY <2>1, <2>2 DEF JobsOfDeleted
<1>6. SeenObject'
  <2> SUFFICES ASSUME NEW r \in Requests, req'[r].at \in {"unset", "create"}
               PROVE  \/ store'[req'[r].form.path] = "object"
                      \/ \E i \in DOMAIN files' : files'[i].key = req'[r].form.key
    BY DEF SeenObject, Taken
  <2> DEFINE form == req[r].form
  <2>1. /\ req[r].at \in Confirming /\ req'[r].form = form
        /\ \/ req[r].at \in {"unset", "create"}
           \/ store[form.path] = "object"
    BY <1>1, PastVerify DEF UnsetPrimary, At
  <2>2. form \in File /\ form.path = form.key /\ form.path \in Keys
    <3>1. form \in File /\ form.path = form.key
      BY <1>1, <1>2, <2>1, Locals DEF OwnPaths
    <3> QED
      BY <3>1 DEF File
  <2>3. store[form.path] = "object" \/ Taken(form.key)
    BY <1>2, <2>1 DEF SeenObject
  <2>4. CASE Taken(form.key)
    BY <1>1, <2>1, <2>4, TakenStays DEF Taken
  <2>5. CASE store[form.path] = "object" /\ store'[form.path] # "object"
    <3>1. jobs[form.path].state \in Pending
      BY <1>1, <2>2, <2>5, StoreLoses
    <3>2. PICK i \in DOMAIN files : files[i].path = form.path
      BY <1>2, <2>2, <3>1 DEF JobsOfDeleted
    <3>3. files[i].key = form.key
      BY <1>2, <2>2, <3>2 DEF OwnPaths
    <3> QED
      BY <1>1, <2>1, <3>3, RowsKept
  <2> QED
    BY <2>1, <2>3, <2>4, <2>5
<1>7. FileHasObject'
  <2> SUFFICES ASSUME NEW i \in DOMAIN files', ~files'[i].deleted
               PROVE  store'[files'[i].path] = "object"
    BY DEF FileHasObject
  <2>1. CASE i \in DOMAIN files
    <3>1. files'[i].path = files[i].path /\ ~files[i].deleted
      BY <1>1, <2>1, RowsKept
    <3>2. store[files[i].path] = "object"
      BY <1>2, <2>1, <3>1
    <3>3. ASSUME store'[files[i].path] # "object"
          PROVE  FALSE
      <4>1. jobs[files[i].path].state \in Pending
        BY <1>1, <1>3, <2>1, <3>2, <3>3, StoreLoses
      <4>2. PICK j \in DOMAIN files : files[j].path = files[i].path /\ files[j].deleted
        BY <1>2, <1>3, <2>1, <4>1 DEF JobsOfDeleted
      <4>3. i = j
        BY <1>2, <1>3, <2>1, <4>2 DEF OwnPaths
      <4> QED
        BY <3>1, <4>2, <4>3
    <3> QED
      BY <3>1, <3>3
  <2>2. CASE i \notin DOMAIN files
    <3>1. PICK r \in Requests : Create(r) /\ ~Taken(req[r].form.key) /\ files'[i] = req[r].form
      BY <1>1, <2>2, RowsKept
    <3>2. store' = store /\ store[req[r].form.path] = "object"
      BY <1>2, <3>1 DEF Create, At, SeenObject
    <3> QED
      BY <3>1, <3>2
  <2> QED
    BY <2>1, <2>2
<1> QED
  BY <1>4, <1>5, <1>6, <1>7

(* Every file that is not deleted has its object, for every number of      *)
(* uploads, requests and attempts of a job: no job, however late, stalled  *)
(* or repeated, and no upload or confirmation made twice takes it away, as *)
(* long as paths are confirmed with their own keys.                        *)
THEOREM LiveFilesHaveObjects == Spec => []FileHasObject
<1>1. ObjectInv => FileHasObject
  BY DEF ObjectInv, FileHasObject
<1> QED
  BY <1>1, ObjectInvInit, ObjectInvStep, PTL DEF Spec

=============================================================================

------------------------------- MODULE Files -------------------------------
(***************************************************************************)
(* Files: the client PUTs an object under a signed URL and confirms it,    *)
(* which makes a row; deleting the file marks the row and leaves the       *)
(* object to a job of the file queue.  Requests overlap, await by await.   *)
(* The job that confirmUpload adds last does nothing (a placeholder) and   *)
(* is left out.                                                            *)
(*                                                                         *)
(* faults:  "overlap"  primary files of one entity are confirmed together  *)
(*          "twice"    a key is confirmed again while it is confirmed      *)
(*          "mixed"    a confirmation carries the path of another upload   *)
(*          "again"    a signed URL is used after the object was removed   *)
(*          "abort"    a statement fails or the process dies, before or    *)
(*                     after it committed                                  *)
(*          "queue"    the queue refuses the job                           *)
(*          "s3"       S3 answers with an error, which a HEAD takes for no *)
(*                     and a DELETE may do after having deleted            *)
(*          "crash"    the worker of a job dies                            *)
(***************************************************************************)
EXTENDS Naturals, Sequences

CONSTANTS
  Requests,     \* requests that can be served at one time
  Keys,         \* file keys; the path createUploadUrl gave out with a key goes by its name
  Entities, None,
  Attempts,     \* attempts of a job
  MaxStalls,    \* maxStalledCount
  MaxRequests,  \* bound: requests served
  FaultSets

AllFaults == {"overlap", "twice", "mixed", "again", "abort", "queue", "s3", "crash"}

ASSUME FilesAssumption ==
  /\ Attempts \in Nat \ {0} /\ MaxStalls \in Nat /\ MaxRequests \in Nat
  /\ None \notin Entities \cup Keys
  /\ FaultSets \subseteq SUBSET AllFaults

VARIABLES
  faults,    \* what this execution has to live with, fixed by Init
  store,     \* store[p]: what S3 has under path p
  files,     \* the rows of media.files, in the order of their creation
  req,       \* req[r]: the request r and its locals
  requests,  \* requests served so far
  jobs       \* jobs[p]: the queue's job for path p

vars == <<faults, store, files, req, requests, jobs>>

Without(some) == faults \cap some = {}

\* asked: the isPrimary it was confirmed with.
File == [key : Keys, path : Keys, entity : Entities \cup {None},
         asked : BOOLEAN, primary : BOOLEAN, deleted : BOOLEAN]

Confirming == {"verify", "unset", "create"}
Deleting == {"mark", "remove"}

\* form: the confirmed row to be; id: the row to be deleted.
NoForm == [key |-> None, path |-> None, entity |-> None,
           asked |-> FALSE, primary |-> FALSE, deleted |-> FALSE]
Idle == [at |-> "idle", form |-> NoForm, id |-> 0]

NoJob == [state |-> "none", left |-> Attempts, stalls |-> 0]
Pending == {"waiting", "active"}

(* A request has what its next step needs, and only one that asks for a    *)
(* primary file of some entity unsets others; a key has one row.           *)
TypeOK ==
  /\ faults \subseteq AllFaults
  /\ store \in [Keys -> {"nothing", "object", "removed"}]
  /\ files \in Seq(File)
  /\ requests \in 0..MaxRequests
  /\ jobs \in [Keys -> [state : {"none", "completed", "failed"} \cup Pending,
                        left : 0..Attempts, stalls : 0..(MaxStalls + 1)]]
  /\ \A r \in Requests :
       \/ req[r] = Idle
       \/ req[r].at \in Confirming /\ req[r].form \in File /\ req[r].id = 0
       \/ req[r].at \in Deleting /\ req[r].form = NoForm /\ req[r].id \in DOMAIN files
  /\ \A r \in Requests :
       req[r].at = "unset" => req[r].form.asked /\ req[r].form.entity # None
  /\ \A i, j \in DOMAIN files : files[i].key = files[j].key => i = j

Init ==
  /\ faults \in FaultSets
  /\ store = [p \in Keys |-> "nothing"]
  /\ files = <<>>
  /\ req = [r \in Requests |-> Idle]
  /\ requests = 0
  /\ jobs = [p \in Keys |-> NoJob]

-----------------------------------------------------------------------------
At(r, stage) == req[r].at = stage
GoTo(r, stage) == req' = [req EXCEPT ![r].at = stage]

(* Faulty variant, for the mutation runs: the locals survive the request.  *)
EndKeepingLocals(r) == GoTo(r, "idle")

End(r) == req' = [req EXCEPT ![r] = Idle]

(* Faulty variant, for the mutation runs: deleted rows are not seen, as    *)
(* with the soft-delete filter and a partial unique index.                 *)
TakenByLive(key) == \E i \in DOMAIN files : files[i].key = key /\ ~files[i].deleted

(* findUnique and the unique constraint see deleted rows too.              *)
Taken(key) == \E i \in DOMAIN files : files[i].key = key

(* PUT to a signed URL.                                                    *)
Upload(p) ==
  /\ store[p] = "nothing" \/ ("again" \in faults /\ store[p] = "removed")
  /\ store' = [store EXCEPT ![p] = "object"]
  /\ UNCHANGED <<faults, files, req, requests, jobs>>

-----------------------------------------------------------------------------
OfEntity(r, entity) ==
  req[r].at \in Confirming /\ req[r].form.asked /\ req[r].form.entity = entity

Form(key, path, entity, isPrimary) ==
  [key |-> key, path |-> path, entity |-> entity,
   asked |-> isPrimary, primary |-> isPrimary, deleted |-> FALSE]

(* confirmUpload, up to its first await: a key is confirmed once.          *)
ConfirmUpload(r, form) ==
  /\ At(r, "idle") /\ requests < MaxRequests
  /\ form.path = form.key \/ "mixed" \in faults
  /\ \A s \in Requests :
       /\ "twice" \in faults \/ ~(req[s].at \in Confirming /\ req[s].form.key = form.key)
       /\ "overlap" \in faults \/ ~(form.asked /\ OfEntity(s, form.entity))
  /\ requests' = requests + 1
  /\ IF Taken(form.key)
       THEN UNCHANGED req
       ELSE req' = [req EXCEPT ![r] = [Idle EXCEPT !.at = "verify", !.form = form]]
  /\ UNCHANGED <<faults, store, files, jobs>>

VerifyFileExists(r) ==
  LET form == req[r].form
  IN  /\ At(r, "verify")
      /\ \/ /\ store[form.path] = "object"
            /\ GoTo(r, IF form.asked /\ form.entity # None THEN "unset" ELSE "create")
         \/ /\ store[form.path] # "object" \/ "s3" \in faults
            /\ End(r)
      /\ UNCHANGED <<faults, store, files, requests, jobs>>

(* Faulty variant, for the mutation runs: deleted rows are left alone.     *)
UnsetPrimaryOfLive(r) ==
  /\ At(r, "unset")
  /\ files' = [i \in DOMAIN files |->
                 IF files[i].entity = req[r].form.entity /\ ~files[i].deleted
                   THEN [files[i] EXCEPT !.primary = FALSE] ELSE files[i]]
  /\ GoTo(r, "create")
  /\ UNCHANGED <<faults, store, requests, jobs>>

UnsetPrimary(r) ==
  /\ At(r, "unset")
  /\ files' = [i \in DOMAIN files |->
                 IF files[i].entity = req[r].form.entity
                   THEN [files[i] EXCEPT !.primary = FALSE] ELSE files[i]]
  /\ GoTo(r, "create")
  /\ UNCHANGED <<faults, store, requests, jobs>>

(* Faulty variant, for the mutation runs: the others are unset last.       *)
CreateThenUnset(r) ==
  /\ At(r, "create")
  /\ files' = IF Taken(req[r].form.key) THEN files
              ELSE Append(files, [req[r].form EXCEPT !.primary = FALSE])
  /\ End(r)
  /\ UNCHANGED <<faults, store, requests, jobs>>

(* The unique constraint refuses what another request confirmed meanwhile. *)
Create(r) ==
  /\ At(r, "create")
  /\ files' = IF Taken(req[r].form.key) THEN files ELSE Append(files, req[r].form)
  /\ End(r)
  /\ UNCHANGED <<faults, store, requests, jobs>>

-----------------------------------------------------------------------------
(* deleteFile, up to its first await: what is deleted already is not found. *)
DeleteFile(r, i) ==
  /\ At(r, "idle") /\ requests < MaxRequests
  /\ ~files[i].deleted
  /\ requests' = requests + 1
  /\ req' = [req EXCEPT ![r] = [Idle EXCEPT !.at = "mark", !.id = i]]
  /\ UNCHANGED <<faults, store, files, jobs>>

SoftDelete(r) ==
  /\ At(r, "mark")
  /\ files' = [files EXCEPT ![req[r].id].deleted = TRUE]
  /\ GoTo(r, "remove")
  /\ UNCHANGED <<faults, store, requests, jobs>>

(* The job's id is made of the path: adding it again, while BullMQ still   *)
(* has it, finished or not, does nothing.                                  *)
AddDeleteS3FileJob(r) ==
  LET path == files[req[r].id].path
  IN  /\ At(r, "remove")
      /\ jobs' = IF jobs[path].state = "none" THEN [jobs EXCEPT ![path].state = "waiting"]
                                              ELSE jobs
      /\ End(r)
      /\ UNCHANGED <<faults, store, files, requests>>

Abort(r) ==
  /\ \/ "abort" \in faults /\ ~At(r, "idle")
     \/ "queue" \in faults /\ At(r, "remove")
  /\ End(r)
  /\ UNCHANGED <<faults, store, files, requests, jobs>>

Proceed(r) ==
  \/ VerifyFileExists(r) \/ UnsetPrimary(r) \/ Create(r)
  \/ SoftDelete(r) \/ AddDeleteS3FileJob(r)

-----------------------------------------------------------------------------
ElseUnchanged == UNCHANGED <<faults, files, req, requests>>

Take(p) ==
  /\ jobs[p].state = "waiting"
  /\ jobs' = [jobs EXCEPT ![p].state = "active"]
  /\ UNCHANGED store /\ ElseUnchanged

(* DELETE is no error where there is nothing.                              *)
Remove(p) == store' = [store EXCEPT ![p] = IF @ = "object" THEN "removed" ELSE @]

DeleteS3File(p) ==
  /\ jobs[p].state = "active"
  /\ Remove(p)
  /\ jobs' = [jobs EXCEPT ![p].state = "completed"]
  /\ ElseUnchanged

(* Faulty variant, for the mutation runs: the catch block does not rethrow. *)
DeleteFailsUnnoticed(p) ==
  /\ jobs[p].state = "active" /\ "s3" \in faults
  /\ jobs' = [jobs EXCEPT ![p].state = "completed"]
  /\ UNCHANGED store /\ ElseUnchanged

DeleteFails(p) ==
  /\ jobs[p].state = "active" /\ "s3" \in faults
  /\ Remove(p) \/ UNCHANGED store
  /\ jobs' = [jobs EXCEPT ![p].state = IF jobs[p].left > 1 THEN "waiting" ELSE "failed",
                          ![p].left = @ - 1]
  /\ ElseUnchanged

(* A stalled job is handed out again, maxStalledCount times.               *)
Stall(p) ==
  /\ jobs[p].state = "active" /\ "crash" \in faults
  /\ Remove(p) \/ UNCHANGED store
  /\ jobs' = [jobs EXCEPT ![p].state = IF jobs[p].stalls < MaxStalls THEN "waiting" ELSE "failed",
                          ![p].stalls = @ + 1]
  /\ ElseUnchanged

(* removeOnComplete, removeOnFail: a finished job leaves the window.       *)
Forget(p) ==
  /\ jobs[p].state \in {"completed", "failed"}
  /\ jobs' = [jobs EXCEPT ![p] = NoJob]
  /\ UNCHANGED store /\ ElseUnchanged

Next ==
  \/ \E p \in Keys : Upload(p)
  \/ \E r \in Requests :
       \/ \E key, path \in Keys, entity \in Entities \cup {None}, isPrimary \in BOOLEAN :
            ConfirmUpload(r, Form(key, path, entity, isPrimary))
       \/ \E i \in DOMAIN files : DeleteFile(r, i)
       \/ Proceed(r)
       \/ Abort(r)
  \/ \E p \in Keys : Take(p) \/ DeleteS3File(p) \/ DeleteFails(p) \/ Stall(p) \/ Forget(p)

Spec == Init /\ [][Next]_vars

(* Awaits return, and a worker takes what waits and finishes what it took, *)
(* well or not.                                                            *)
FairSpec ==
  /\ Spec
  /\ \A r \in Requests : WF_vars(Proceed(r))
  /\ \A p \in Keys : WF_vars(Take(p)) /\ WF_vars(DeleteS3File(p) \/ DeleteFails(p))

-----------------------------------------------------------------------------
PrimariesOf(e) == {i \in DOMAIN files : files[i].entity = e /\ files[i].primary}
Asked(e) == {i \in DOMAIN files : files[i].entity = e /\ files[i].asked}

(* An entity has one primary file at most, deleted rows included (restore  *)
(* brings one back as it was), whatever fails and whatever is confirmed    *)
(* twice, unless two are confirmed for it together.                        *)
OnePrimary ==
  Without({"overlap"}) => \A e \in Entities : \A i, j \in PrimariesOf(e) : i = j

(* ... and has one if one was ever asked for: confirmations, overlapping   *)
(* ones included, leave the last one confirmed primary.  A confirmation    *)
(* that fails after it unset the others leaves none: when a statement      *)
(* fails, or the key has been confirmed meanwhile.                         *)
LastPrimaryStays ==
  Without({"abort", "twice"}) =>
    \A e \in Entities :
      Asked(e) = {} \/ (\E r \in Requests : At(r, "create") /\ OfEntity(r, e))
      \/ \E i \in Asked(e) : files[i].primary /\ \A j \in Asked(e) : j <= i

(* A file that is not deleted has its object: it was there when it was     *)
(* confirmed, and no job, however late or repeated, removes it, as long as *)
(* paths are confirmed with their own keys.                                *)
FileHasObject ==
  Without({"mixed"}) =>
    \A i \in DOMAIN files : ~files[i].deleted => store[files[i].path] = "object"

(* A deletion that is answered ends with the object removed for good,      *)
(* unless the job fails for good: what BullMQ still has of an earlier job  *)
(* for that path never stands in its way.  A job that the queue refused,   *)
(* and an upload after the removal, leave the object for ever.             *)
DeletedObjectGoes ==
  \A p \in Keys :
    /\ Without({"abort", "queue", "again"})
    /\ \E r \in Requests : At(r, "remove") /\ files[req[r].id].path = p
    ~> [](store[p] # "object") \/ jobs[p].state = "failed"

=============================================================================

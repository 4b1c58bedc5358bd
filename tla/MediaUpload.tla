---------------------------- MODULE MediaUpload ----------------------------
(***************************************************************************)
(* One upload in apps/media: the row of media_objects, the object and the  *)
(* thumbnail in the MinIO bucket, the requests that complete the upload    *)
(* and the BullMQ job that makes the thumbnail.                            *)
(*                                                                         *)
(* A request acts on the row it read first.  Its save, like the worker's,  *)
(* selects the row once more, and updates the columns in which the two     *)
(* differ.  The client may upload again as long as its presigned URL lives.*)
(* BullMQ and TypeORM are external: BullMQ keeps a job until it completes, *)
(* a failed one for ever, and ignores an addition with the id of a job it  *)
(* has.                                                                    *)
(***************************************************************************)
EXTENDS Integers

CONSTANTS
  Requests,        \* calls of POST /media/uploads/:id/complete
  MaxUploads,      \* bound on the client's uploads to the presigned URL
  MaxJobAttempts,  \* attempts of a thumbnail job
  MaxStops         \* bound on stops of the service in one behaviour

MediaBounds == MaxUploads \in Nat /\ MaxJobAttempts \in Nat \ {0} /\ MaxStops \in Nat

VARIABLES
  media,       \* the row: its status and whether it names a thumbnail
  object,      \* what lies under the object key: nothing, or an object of
               \* at most MAX_UPLOAD_BYTES, or a larger one
  thumbnail,   \* whether the thumbnail lies in the bucket
  request,     \* what each call does, with the row it read and the one its save selected
  completed,   \* whether a call has answered that the upload is complete, and
               \* whether a call, or its job for good, has failed since
  overtaken,   \* a save has set the row back that was READY
  thumbJob,    \* the job in Redis
  jobTries,    \* its failed attempts
  maker,       \* what the worker of the job is doing
  loaded,      \* the row that its save selected
  uploads, stops

rowVars == <<media, completed, overtaken>>
bucketVars == <<object, thumbnail>>
jobVars == <<thumbJob, jobTries, maker, loaded>>
vars == <<rowVars, bucketVars, request, jobVars, uploads, stops>>

NoRow == [status |-> "NONE", named |-> FALSE]
AtRest == [pc |-> "IDLE", row |-> NoRow, seen |-> NoRow]

Init ==
  /\ media = NoRow /\ completed = "NO" /\ overtaken = FALSE
  /\ object = "NONE" /\ thumbnail = FALSE
  /\ request = [r \in Requests |-> AtRest]
  /\ thumbJob = "NONE" /\ jobTries = 0 /\ maker = "IDLE" /\ loaded = NoRow
  /\ uploads = 0 /\ stops = 0

\* save's UPDATE: of the columns in which what is saved differs from the row selected.
Saved(want, seen) ==
  [status |-> IF want.status # seen.status THEN want.status ELSE media.status,
   named  |-> IF want.named # seen.named THEN want.named ELSE media.named]

-----------------------------------------------------------------------------
(* The client and the requests.                                            *)

\* The announced type and size are allowed: a row, and a presigned URL.
CreateUpload ==
  /\ media = NoRow
  /\ media' = [status |-> "PENDING", named |-> FALSE]
  /\ UNCHANGED <<completed, overtaken, bucketVars, request, jobVars, uploads, stops>>

\* The URL binds the key, not the size.
PutByClient(size) ==
  /\ media # NoRow
  /\ uploads < MaxUploads
  /\ uploads' = uploads + 1
  /\ object' = size
  /\ UNCHANGED <<rowVars, thumbnail, request, jobVars, stops>>

Goto(r, pc) == request' = [request EXCEPT ![r].pc = pc]

Answer(r) == request' = [request EXCEPT ![r] = AtRest]

FindById(r) ==
  /\ request[r] = AtRest /\ media # NoRow
  /\ request' = [request EXCEPT ![r] = [pc |-> "FOUND", row |-> media, seen |-> NoRow]]
  /\ UNCHANGED <<rowVars, bucketVars, jobVars, uploads, stops>>

\* Mutant: an upload marked before is taken for complete.
AlreadyMarked(r) ==
  /\ request[r].pc = "FOUND" /\ request[r].row.status # "PENDING"
  /\ completed' = "YES"
  /\ Answer(r)
  /\ UNCHANGED <<media, overtaken, bucketVars, jobVars, uploads, stops>>

AlreadyReady(r) ==
  /\ request[r].pc = "FOUND" /\ request[r].row.status = "READY"
  /\ completed' = "YES"
  /\ Answer(r)
  /\ UNCHANGED <<media, overtaken, bucketVars, jobVars, uploads, stops>>

\* No object is an error to the client, too large a one is removed first.
StatObject(r) ==
  /\ request[r].pc = "FOUND" /\ request[r].row.status # "READY"
  /\ CASE object = "NONE"  -> Answer(r)
       [] object = "LARGE" -> Goto(r, "REMOVE")
       [] object = "SMALL" -> Goto(r, IF request[r].row.status = "PENDING" THEN "SAVE" ELSE "ENQUEUE")
  /\ UNCHANGED <<rowVars, bucketVars, jobVars, uploads, stops>>

RemoveObject(r) ==
  /\ request[r].pc = "REMOVE"
  /\ object' = "NONE"
  /\ Answer(r)
  /\ UNCHANGED <<rowVars, thumbnail, jobVars, uploads, stops>>

SelectUploaded(r) ==
  /\ request[r].pc = "SAVE"
  /\ request' = [request EXCEPT ![r].pc = "UPDATE", ![r].seen = media]
  /\ UNCHANGED <<rowVars, bucketVars, jobVars, uploads, stops>>

\* The row read while it was PENDING, marked.
SaveUploaded(r) ==
  /\ request[r].pc = "UPDATE"
  /\ media' = Saved([request[r].row EXCEPT !.status = "UPLOADED"], request[r].seen)
  /\ overtaken' = (overtaken \/ (media.status = "READY" /\ media'.status # "READY"))
  /\ request' = [request EXCEPT ![r].pc = "ENQUEUE", ![r].seen = NoRow]
  /\ UNCHANGED <<completed, bucketVars, jobVars, uploads, stops>>

\* The answer, of Redis or to the client, may be lost.
EnqueueThumbnail(r) ==
  /\ request[r].pc = "ENQUEUE"
  /\ IF thumbJob = "NONE" THEN thumbJob' = "WAITING" /\ jobTries' = 0
                          ELSE UNCHANGED <<thumbJob, jobTries>>
  /\ completed' \in {completed, "YES"}
  /\ Answer(r)
  /\ UNCHANGED <<media, overtaken, bucketVars, maker, loaded, uploads, stops>>

FailedSince == IF completed = "YES" THEN "FAILED" ELSE completed

\* Postgres, MinIO or Redis fails the call.
FailCompletion(r) ==
  /\ request[r].pc # "IDLE"
  /\ completed' = FailedSince
  /\ Answer(r)
  /\ UNCHANGED <<media, overtaken, bucketVars, jobVars, uploads, stops>>

-----------------------------------------------------------------------------
(* The worker.                                                             *)

Worker(from, to) ==
  /\ maker = from
  /\ maker' = to
  /\ UNCHANGED <<overtaken, request, uploads, stops>>

FindForProcessing ==
  /\ Worker("IDLE", IF media.status = "READY" THEN "DONE" ELSE "GET")
  /\ thumbJob = "WAITING"
  /\ thumbJob' = "ACTIVE"
  /\ UNCHANGED <<media, completed, bucketVars, jobTries, loaded>>

\* The download is cut off beyond the limit: that is a failure.
GetObject ==
  /\ Worker("GET", "PUT")
  /\ object = "SMALL"
  /\ UNCHANGED <<media, completed, bucketVars, thumbJob, jobTries, loaded>>

PutThumbnail ==
  /\ Worker("PUT", "SAVE")
  /\ thumbnail' = TRUE
  /\ UNCHANGED <<media, completed, object, thumbJob, jobTries, loaded>>

SelectReady ==
  /\ Worker("SAVE", "UPDATE")
  /\ loaded' = media
  /\ UNCHANGED <<media, completed, bucketVars, thumbJob, jobTries>>

Thumbnailed == [status |-> "READY", named |-> TRUE]

SaveReady ==
  /\ Worker("UPDATE", "DONE")
  /\ media' = Saved(Thumbnailed, loaded)
  /\ loaded' = NoRow
  /\ UNCHANGED <<completed, bucketVars, thumbJob, jobTries>>

CompleteThumbnail ==
  /\ Worker("DONE", "IDLE")
  /\ thumbJob' = "NONE"
  /\ UNCHANGED <<media, completed, bucketVars, jobTries, loaded>>

\* The row is not read, the object is missing, broken or too large, a call to MinIO or
\* the save fails, or the answer of its update is lost.
FailThumbnail ==
  /\ maker # "IDLE"
  /\ Worker(maker, "IDLE")
  /\ media' = media \/ (maker = "UPDATE" /\ media' = Saved(Thumbnailed, loaded))
  /\ loaded' = NoRow
  /\ jobTries' = jobTries + 1
  /\ thumbJob' = IF jobTries' < MaxJobAttempts THEN "WAITING" ELSE "FAILED"
  /\ completed' = IF thumbJob' = "FAILED" THEN FailedSince ELSE completed
  /\ UNCHANGED bucketVars

\* The service stops: calls end without an answer, an active job waits again.
StopService ==
  /\ stops < MaxStops
  /\ stops' = stops + 1
  /\ request' = [r \in Requests |-> AtRest]
  /\ maker' = "IDLE" /\ loaded' = NoRow
  /\ thumbJob' = IF thumbJob = "ACTIVE" THEN "WAITING" ELSE thumbJob
  /\ UNCHANGED <<rowVars, bucketVars, jobTries, uploads>>

-----------------------------------------------------------------------------
CompleteUpload(r) ==
  \/ FindById(r) \/ AlreadyReady(r) \/ StatObject(r) \/ RemoveObject(r)
  \/ SelectUploaded(r) \/ SaveUploaded(r) \/ EnqueueThumbnail(r) \/ FailCompletion(r)

GenerateThumbnail ==
  \/ FindForProcessing \/ GetObject \/ PutThumbnail \/ SelectReady \/ SaveReady
  \/ CompleteThumbnail \/ FailThumbnail

Next ==
  \/ CreateUpload
  \/ \E size \in {"SMALL", "LARGE"} : PutByClient(size)
  \/ \E r \in Requests : CompleteUpload(r)
  \/ GenerateThumbnail
  \/ StopService

Spec == Init /\ [][Next]_vars

-----------------------------------------------------------------------------
(* The state is what the declarations say.                                 *)
MediaRow == [status : {"NONE", "PENDING", "UPLOADED", "READY"}, named : BOOLEAN]

TypeOK ==
  /\ media \in MediaRow
  /\ completed \in {"NO", "YES", "FAILED"} /\ overtaken \in BOOLEAN
  /\ object \in {"NONE", "SMALL", "LARGE"}
  /\ thumbnail \in BOOLEAN
  /\ request \in [Requests -> [pc   : {"IDLE", "FOUND", "REMOVE", "SAVE", "UPDATE", "ENQUEUE"},
                             row  : MediaRow,
                             seen : MediaRow]]
  /\ thumbJob \in {"NONE", "WAITING", "ACTIVE", "FAILED"}
  /\ jobTries \in 0..MaxJobAttempts
  /\ maker \in {"IDLE", "GET", "PUT", "SAVE", "UPDATE", "DONE"} /\ loaded \in MediaRow
  /\ uploads \in 0..MaxUploads
  /\ stops \in 0..MaxStops

\* Once a client was told that its upload is complete, Redis has the thumbnail's job
\* or the thumbnail is made: no overlapping call, repeated upload, failed attempt, lost
\* answer or stop of the service loses both.  The row is READY or the job is there,
\* failed for good perhaps, unless a save has set back the row that was READY.  A row
\* that is READY, or names a thumbnail, has one; and as long as none was set back, the
\* row names its thumbnail when it is READY and only then.
CompletedIsProcessed ==
  /\ completed # "NO" => thumbnail \/ thumbJob # "NONE"
  /\ completed # "NO" => media.status = "READY" \/ thumbJob # "NONE" \/ overtaken
  /\ media.status = "READY" \/ media.named => thumbnail
  /\ overtaken \/ (media.named <=> media.status = "READY")

\* After a call has answered that the upload is complete, and until a call or the job
\* fails, the row is READY, its job is going to make it so, or a call is going to add
\* the job: complete on a READY row changes nothing, and complete after a failure
\* enqueues the job anew.
CompletedEndsReady ==
  completed = "YES" =>
    \/ media.status = "READY"
    \/ thumbJob \in {"WAITING", "ACTIVE"}
    \/ \E r \in Requests : request[r].pc \in {"SAVE", "UPDATE", "ENQUEUE"}
=============================================================================

---------------------------- MODULE MediaUpload ----------------------------
(***************************************************************************)
(* Managed Media uploads.  An intent row in the Studio database reserves   *)
(* the media id and the storage key of an upload; a request streams the    *)
(* body to R2 under that key and then, in one batch, turns the intent into *)
(* a Media row.  D1 and R2 share no transaction: an object whose row was   *)
(* not committed is deleted by the request itself, and the storage keys of *)
(* cancelled, expired and deleted uploads go through a queue table that    *)
(* cleaners drain.  Every D1 or R2 call is one step, and a request or a    *)
(* cleaner may be evicted between any two of them.  An upload stands for   *)
(* its intent, media id and storage key, which are drawn together.         *)
(***************************************************************************)
EXTENDS FiniteSets

CONSTANTS
  Uploads,   \* upload ids, never drawn twice
  Requests,  \* PUT requests that run at the same time
  Cleaners,  \* maintenance runs and media deletions that drain
  Failures   \* which failures the environment may produce

FailureKinds ==
  {"eviction",       \* a request or cleaner stops between two calls
   "database",       \* a database call fails and has no effect
   "lostReply",      \* a call is reported as failed after it took effect
   "compensation",   \* R2 rejects the deletion of an uncommitted object
   "cleanup"}        \* R2 rejects the deletion of queued objects

ASSUME MediaAssumption == Failures \subseteq FailureKinds

VARIABLES
  intent,    \* media_upload_intents: no row yet, a row, an expired row, removed
  media,     \* media: uploads that have a Media row
  bucket,    \* R2: uploads that have an object
  deletions, \* media_object_deletions: uploads whose key is queued
  pc,        \* PUT request: next call
  key,       \* PUT request: the upload it read the intent of
  stage,     \* cleaner: next call
  batch,     \* cleaner: the uploads whose keys it selected
  \* History: the uploads that met a race the code leaves open.
  doubted,   \* committed unseen by their request, or queued for deletion
             \* although they could still be, or were, committed
  overtaken, \* deleted by a drain while a request could still store them
  cleared    \* their intent was cleared during the upload, and not queued

requestVars == <<pc, key>>
cleanerVars == <<stage, batch>>
historyVars == <<doubted, overtaken, cleared>>
vars == <<intent, media, bucket, deletions, pc, key, stage, batch,
          doubted, overtaken, cleared>>

IntentStates == {"unused", "live", "expired", "removed"}
RequestSteps == {"idle", "uploading", "stored", "committed", "compensating", "queueing"}
CleanerSteps == {"idle", "listed", "deleted"}

TypeOK ==
  /\ intent \in [Uploads -> IntentStates]
  /\ media \subseteq {u \in Uploads : intent[u] = "removed"}
  /\ bucket \subseteq Uploads
  /\ deletions \subseteq Uploads
  /\ pc \in [Requests -> RequestSteps]
  /\ key \in [Requests -> Uploads]
  /\ stage \in [Cleaners -> CleanerSteps]
  /\ batch \in [Cleaners -> SUBSET Uploads]
  /\ doubted \subseteq Uploads
  /\ overtaken \subseteq Uploads
  /\ cleared \subseteq Uploads

Init ==
  /\ intent = [u \in Uploads |-> "unused"]
  /\ media = {}
  /\ bucket = {}
  /\ deletions = {}
  /\ pc = [r \in Requests |-> "idle"]
  /\ key \in [Requests -> Uploads]
  /\ \A q, r \in Requests : key[q] = key[r]
  /\ stage = [c \in Cleaners |-> "idle"]
  /\ batch = [c \in Cleaners |-> {}]
  /\ doubted = {}
  /\ overtaken = {}
  /\ cleared = {}

HasIntent(u) == intent[u] \in {"live", "expired"}

MayStore(r, u) == pc[r] = "uploading" /\ key[r] = u
Awaited(u) == \E r \in Requests : MayStore(r, u)

Proceed(r, step) == pc' = [pc EXCEPT ![r] = step]

-----------------------------------------------------------------------------
(* Intents *)

CreateIntent(u) ==
  /\ intent[u] = "unused"
  /\ intent' = [intent EXCEPT ![u] = "live"]
  /\ UNCHANGED <<media, bucket, deletions, requestVars, cleanerVars, historyVars>>

ExpireIntent(u) ==
  /\ intent[u] = "live"
  /\ intent' = [intent EXCEPT ![u] = "expired"]
  /\ UNCHANGED <<media, bucket, deletions, requestVars, cleanerVars, historyVars>>

\* Faulty variant: the rows are removed and their keys forgotten.
RemoveWithoutQueueing(S) ==
  /\ S # {}
  /\ intent' = [u \in Uploads |-> IF u \in S THEN "removed" ELSE intent[u]]
  /\ UNCHANGED <<deletions, media, bucket, requestVars, cleanerVars, historyVars>>

\* One batch queues the keys and removes the rows.
QueueAndRemove(S) ==
  /\ S # {}
  /\ deletions' = deletions \cup S
  /\ intent' = [u \in Uploads |-> IF u \in S THEN "removed" ELSE intent[u]]
  /\ UNCHANGED <<media, bucket, requestVars, cleanerVars, historyVars>>

CancelIntent(u) ==
  /\ HasIntent(u)
  /\ QueueAndRemove({u})

CollectExpiredIntents ==
  QueueAndRemove({u \in Uploads : intent[u] = "expired"})

\* S: the pending uploads of an invitation that is cancelled, or of an
\* inactive account that is deleted.
DeleteUser(S) ==
  /\ \A u \in S : HasIntent(u)
  /\ QueueAndRemove(S)

-----------------------------------------------------------------------------
(* PUT /uploads/:id *)

\* The clock is read once, before the intent, and the whole request uses it.
ReadIntent(r, u) ==
  /\ pc[r] = "idle"
  /\ intent[u] = "live"
  /\ Proceed(r, "uploading")
  /\ key' = [key EXCEPT ![r] = u]
  /\ UNCHANGED <<intent, media, bucket, deletions, cleanerVars, historyVars>>

\* A body of the wrong size or kind, or an R2 error: nothing is stored, and
\* the intent stays for a retry.
RejectBody(r) ==
  /\ pc[r] = "uploading"
  /\ Proceed(r, "idle")
  /\ UNCHANGED <<intent, media, bucket, deletions, key, cleanerVars, historyVars>>

\* Faulty variant: an object that is already there is replaced.
PutUnconditionally(r) ==
  /\ pc[r] = "uploading"
  /\ bucket' = bucket \cup {key[r]}
  /\ \E step \in {"stored", "compensating"} : Proceed(r, step)
  /\ UNCHANGED <<intent, media, deletions, key, cleanerVars, historyVars>>

\* The object is only created where none exists; R2 may report a size other
\* than the announced one.
PutObject(r) ==
  /\ pc[r] = "uploading"
  /\ key[r] \notin bucket
  /\ bucket' = bucket \cup {key[r]}
  /\ \E step \in {"stored", "compensating"} : Proceed(r, step)
  /\ UNCHANGED <<intent, media, deletions, key, cleanerVars, historyVars>>

PutConflicts(r) ==
  /\ pc[r] = "uploading"
  /\ key[r] \in bucket
  /\ Proceed(r, "idle")
  /\ UNCHANGED <<intent, media, bucket, deletions, key, cleanerVars, historyVars>>

PutReplyLost(r) ==
  /\ "lostReply" \in Failures
  /\ pc[r] = "uploading"
  /\ key[r] \notin bucket
  /\ bucket' = bucket \cup {key[r]}
  /\ Proceed(r, "idle")
  /\ UNCHANGED <<intent, media, deletions, key, cleanerVars, historyVars>>

\* Faulty variant: the Media row is inserted from the intent as it was read.
CompleteFromMemory(r) ==
  /\ pc[r] = "stored"
  /\ media' = media \cup {key[r]}
  /\ intent' = [intent EXCEPT ![key[r]] = "removed"]
  /\ Proceed(r, "committed")
  /\ UNCHANGED <<bucket, deletions, key, cleanerVars, historyVars>>

\* The batch inserts the Media row from the intent row and removes the
\* latter: an intent removed in between leaves nothing to insert.
CompleteUpload(r) ==
  /\ pc[r] = "stored"
  /\ IF HasIntent(key[r])
     THEN /\ media' = media \cup {key[r]}
          /\ intent' = [intent EXCEPT ![key[r]] = "removed"]
          /\ \/ /\ Proceed(r, "committed")
                /\ UNCHANGED doubted
             \/ /\ "lostReply" \in Failures
                /\ Proceed(r, "compensating")
                /\ doubted' = doubted \cup {key[r]}
     ELSE /\ Proceed(r, "compensating")
          /\ UNCHANGED <<intent, media, doubted>>
  /\ UNCHANGED <<bucket, deletions, key, cleanerVars, overtaken, cleared>>

CompleteFails(r) ==
  /\ "database" \in Failures
  /\ pc[r] = "stored"
  /\ Proceed(r, "compensating")
  /\ UNCHANGED <<intent, media, bucket, deletions, key, cleanerVars, historyVars>>

\* getMedia after the batch: a row that was deleted meanwhile counts as a
\* failed completion, and so does a read that fails although the row is there.
ReadBack(r) ==
  /\ pc[r] = "committed"
  /\ \/ /\ key[r] \in media
        /\ Proceed(r, "idle")
        /\ UNCHANGED doubted
     \/ /\ key[r] \notin media
        /\ Proceed(r, "compensating")
        /\ UNCHANGED doubted
     \/ /\ "database" \in Failures
        /\ Proceed(r, "compensating")
        /\ doubted' = doubted \cup ({key[r]} \cap media)
  /\ UNCHANGED <<intent, media, bucket, deletions, key, cleanerVars,
                 overtaken, cleared>>

Compensate(r) ==
  /\ pc[r] = "compensating"
  /\ bucket' = bucket \ {key[r]}
  /\ Proceed(r, "idle")
  /\ UNCHANGED <<intent, media, deletions, key, cleanerVars, historyVars>>

CompensationFails(r) ==
  /\ "compensation" \in Failures
  /\ pc[r] = "compensating"
  /\ Proceed(r, "queueing")
  /\ bucket' \in {bucket} \cup
       (IF "lostReply" \in Failures THEN {bucket \ {key[r]}} ELSE {})
  /\ UNCHANGED <<intent, media, deletions, key, cleanerVars, historyVars>>

QueueCompensation(r) ==
  /\ pc[r] = "queueing"
  /\ Proceed(r, "idle")
  /\ \/ /\ deletions' = deletions \cup {key[r]}
        /\ doubted' = doubted \cup
             {u \in {key[r]} : HasIntent(u) \/ u \in media}
     \/ "database" \in Failures /\ UNCHANGED <<deletions, doubted>>
  /\ UNCHANGED <<intent, media, bucket, key, cleanerVars, overtaken, cleared>>

EvictRequest(r) ==
  /\ "eviction" \in Failures
  /\ pc[r] # "idle"
  /\ Proceed(r, "idle")
  /\ UNCHANGED <<intent, media, bucket, deletions, key, cleanerVars, historyVars>>

-----------------------------------------------------------------------------
(* Deletion of Media, and the cleanup of queued objects *)

\* One batch queues the key and deletes the unused row; the request, or a
\* task it leaves behind, then cleans up that key alone.
DeleteMedia(c, u) ==
  /\ stage[c] = "idle"
  /\ u \in media
  /\ media' = media \ {u}
  /\ deletions' = deletions \cup {u}
  /\ stage' = [stage EXCEPT ![c] = "listed"]
  /\ batch' = [batch EXCEPT ![c] = {u}]
  /\ UNCHANGED <<intent, bucket, requestVars, historyVars>>

\* Clear content: the keys of Media rows are queued, intents are deleted, in
\* one batch; the drain that follows is a ListDeletions of some cleaner.
ClearContent ==
  /\ deletions' = deletions \cup media
  /\ media' = {}
  /\ intent' = [u \in Uploads |-> IF HasIntent(u) THEN "removed" ELSE intent[u]]
  /\ cleared' = cleared \cup {u \in Uploads : HasIntent(u) /\ (u \in bucket \/ Awaited(u))}
  /\ UNCHANGED <<bucket, requestVars, cleanerVars, doubted, overtaken>>

\* The handler is over, and with it the list it worked on.
Rest(c) ==
  /\ stage' = [stage EXCEPT ![c] = "idle"]
  /\ batch' = [batch EXCEPT ![c] = {}]

ListDeletions(c) ==
  /\ stage[c] = "idle"
  /\ deletions # {}
  /\ stage' = [stage EXCEPT ![c] = "listed"]
  /\ batch' = [batch EXCEPT ![c] = deletions]
  /\ UNCHANGED <<intent, media, bucket, deletions, requestVars, historyVars>>

DeleteObjects(c) ==
  /\ stage[c] = "listed"
  /\ bucket' = bucket \ batch[c]
  /\ overtaken' = overtaken \cup
       {u \in batch[c] : HasIntent(u) \/ Awaited(u)}
  /\ \/ /\ stage' = [stage EXCEPT ![c] = "deleted"]
        /\ UNCHANGED batch
     \/ "lostReply" \in Failures /\ Rest(c)
  /\ UNCHANGED <<intent, media, deletions, requestVars, doubted, cleared>>

\* Faulty variant: the queue rows go whether or not R2 deleted the objects.
ForgetFailedDeletions(c) ==
  /\ "cleanup" \in Failures
  /\ stage[c] = "listed"
  /\ stage' = [stage EXCEPT ![c] = "deleted"]
  /\ UNCHANGED <<intent, media, bucket, deletions, batch, requestVars, historyVars>>

\* recordFailedAttempt only changes the order of later attempts.
DeleteObjectsFails(c) ==
  /\ "cleanup" \in Failures
  /\ stage[c] = "listed"
  /\ Rest(c)
  /\ UNCHANGED <<intent, media, bucket, deletions, requestVars, historyVars>>

RemoveCompletedRows(c) ==
  /\ stage[c] = "deleted"
  /\ \/ deletions' = deletions \ batch[c]
     \/ "database" \in Failures /\ UNCHANGED deletions
  /\ Rest(c)
  /\ UNCHANGED <<intent, media, bucket, requestVars, historyVars>>

EvictCleaner(c) ==
  /\ "eviction" \in Failures
  /\ stage[c] # "idle"
  /\ Rest(c)
  /\ UNCHANGED <<intent, media, bucket, deletions, requestVars, historyVars>>

-----------------------------------------------------------------------------

IntentStep ==
  \/ \E u \in Uploads : CreateIntent(u) \/ ExpireIntent(u) \/ CancelIntent(u)
  \/ CollectExpiredIntents
  \/ \E S \in SUBSET Uploads : DeleteUser(S)

Store(r) == PutObject(r) \/ PutConflicts(r) \/ PutReplyLost(r) \/ RejectBody(r)

Finish(r) ==
  \/ CompleteUpload(r) \/ CompleteFails(r) \/ ReadBack(r)
  \/ Compensate(r) \/ CompensationFails(r) \/ QueueCompensation(r)

RequestStep(r) ==
  \/ \E u \in Uploads : ReadIntent(r, u)
  \/ Store(r)
  \/ Finish(r)
  \/ EvictRequest(r)

CleanerStep(c) ==
  \/ \E u \in Uploads : DeleteMedia(c, u)
  \/ ListDeletions(c)
  \/ DeleteObjects(c) \/ DeleteObjectsFails(c)
  \/ RemoveCompletedRows(c)
  \/ EvictCleaner(c)

Next ==
  \/ IntentStep
  \/ ClearContent
  \/ \E r \in Requests : RequestStep(r)
  \/ \E c \in Cleaners : CleanerStep(c)

Spec == Init /\ [][Next]_vars

\* Time passes, the daily run collects and drains, each request ends, and an
\* R2 deletion that is retried every day succeeds in the end.
Fairness ==
  /\ \A u \in Uploads : WF_vars(ExpireIntent(u))
  /\ WF_vars(CollectExpiredIntents)
  /\ \A r \in Requests : WF_vars(Store(r)) /\ WF_vars(Finish(r))
  /\ \A c \in Cleaners :
       /\ SF_vars(ListDeletions(c))
       /\ SF_vars(DeleteObjects(c))
       /\ WF_vars(RemoveCompletedRows(c))

FairSpec == Spec /\ Fairness

-----------------------------------------------------------------------------
(* Properties *)

\* A Media row never outlives its object: no compensation, cancellation,
\* expiry or drain deletes the object of an upload that was committed, except
\* when its own request did not see the commit, or when the object had been
\* queued for deletion beside a live intent.
CommittedObjectsKept == media \ doubted \subseteq bucket

\* No object is forgotten in the bucket: whoever may stop, a Media row, an
\* intent or a queued deletion still refers to it.  Only an object that a
\* request stored after a drain had deleted its key, or whose intent Clear
\* content removed during the upload, may be left without a record.
ObjectsAreTracked ==
  \A u \in bucket \ (overtaken \cup cleared) :
    u \in media \/ HasIntent(u) \/ u \in deletions

\* An upload that was cancelled, collected or deleted stays out of the
\* library, whatever a request that is still streaming does afterwards.
RemovalIsFinal ==
  [][\A u \in Uploads :
       intent[u] = "removed" /\ u \notin media => u \notin media']_vars

\* Every stored object ends up in the library or is deleted, with the same
\* two exceptions.
ObjectsSettle ==
  \A u \in Uploads :
    (u \in bucket) ~> (u \in media \cup overtaken \cup cleared \/ u \notin bucket)

Status(u) ==
  IF intent[u] = "unused" THEN "unused"
  ELSE IF HasIntent(u) THEN "reserved"
  ELSE IF u \in media THEN "published"
  ELSE "retired"

Lifecycle == INSTANCE MediaLifecycle WITH
  files <- bucket,
  status <- [u \in Uploads |-> Status(u)],
  doubted <- doubted

\* Requests, batches, queue and cleaners implement the life cycle of an
\* upload: published at most once, with its file, which it keeps until it is
\* retired unless its publication was put in doubt.
ImplementsLifecycle == Lifecycle!Spec
=============================================================================

------------------------- MODULE MediaUploadProofs -------------------------
(***************************************************************************)
(* Proofs about MediaUpload for any number of uploads, requests and        *)
(* cleaners and for every choice of Failures: no theorem assumes anything  *)
(* about the environment.                                                  *)
(***************************************************************************)
EXTENDS MediaUpload, TLAPS

-----------------------------------------------------------------------------
(* Type correctness and the finality of removal. *)

LEMMA TypeStep ==
  ASSUME TypeOK, [Next]_vars
  PROVE  TypeOK'
<1> USE DEF TypeOK, IntentStates, RequestSteps, CleanerSteps, requestVars,
            cleanerVars, historyVars, HasIntent, Proceed
<1>1. CASE IntentStep
  <2>1. ASSUME NEW u \in Uploads, CreateIntent(u) \/ ExpireIntent(u)
        PROVE  TypeOK'
    BY <2>1 DEF CreateIntent, ExpireIntent
  <2>2. ASSUME NEW S \in SUBSET Uploads, QueueAndRemove(S)
        PROVE  TypeOK'
    BY <2>2 DEF QueueAndRemove
  <2>3. {u \in Uploads : intent[u] = "expired"} \in SUBSET Uploads
    OBVIOUS
  <2> QED
    BY <1>1, <2>1, <2>2, <2>3 DEF IntentStep, CancelIntent,
       CollectExpiredIntents, DeleteUser
<1>2. CASE ClearContent
  BY <1>2 DEF ClearContent
<1>3. ASSUME NEW r \in Requests, RequestStep(r)
      PROVE  TypeOK'
  <2>1. CASE \E u \in Uploads : ReadIntent(r, u)
    BY <2>1 DEF ReadIntent
  <2>2. CASE Store(r)
    BY <2>2 DEF Store, PutObject, PutConflicts, PutReplyLost, RejectBody
  <2>3. CASE CompleteUpload(r)
    BY <2>3 DEF CompleteUpload
  <2>4. CASE CompleteFails(r) \/ ReadBack(r) \/ QueueCompensation(r)
    BY <2>4 DEF CompleteFails, ReadBack, QueueCompensation
  <2>5. CASE Compensate(r)
    BY <2>5 DEF Compensate
  <2>6. CASE CompensationFails(r)
    BY <2>6 DEF CompensationFails
  <2>7. CASE EvictRequest(r)
    BY <2>7 DEF EvictRequest
  <2> QED
    BY <1>3, <2>1, <2>2, <2>3, <2>4, <2>5, <2>6, <2>7 DEF RequestStep, Finish
<1>4. ASSUME NEW c \in Cleaners, CleanerStep(c)
      PROVE  TypeOK'
  BY <1>4 DEF CleanerStep, DeleteMedia, ListDeletions, DeleteObjects,
     DeleteObjectsFails, RemoveCompletedRows, EvictCleaner, Rest
<1>5. CASE UNCHANGED vars
  BY <1>5 DEF vars
<1> QED BY <1>1, <1>2, <1>3, <1>4, <1>5 DEF Next

\* Every reachable state has the types of the tables, of the bucket and of
\* the processes, and an upload never has both an intent and a Media row.
THEOREM TypeCorrect == Spec => []TypeOK
<1>1. Init => TypeOK
  BY DEF Init, TypeOK, IntentStates, RequestSteps, CleanerSteps
<1>2. TypeOK /\ [Next]_vars => TypeOK'
  BY TypeStep
<1> QED BY <1>1, <1>2, PTL DEF Spec

\* A removed upload stays out of the library under every failure.
THEOREM RemovedStaysRemoved == Spec => RemovalIsFinal
<1>1. ASSUME TypeOK, [Next]_vars, NEW u \in Uploads,
             intent[u] = "removed", u \notin media
      PROVE  u \notin media'
  <2> USE <1>1 DEF TypeOK
  <2>1. CASE IntentStep
    BY <2>1 DEF IntentStep, CreateIntent, ExpireIntent, CancelIntent,
       CollectExpiredIntents, DeleteUser, QueueAndRemove
  <2>2. CASE ClearContent
    BY <2>2 DEF ClearContent
  <2>3. ASSUME NEW r \in Requests, RequestStep(r)
        PROVE  u \notin media'
    BY <2>3 DEF RequestStep, ReadIntent, Store, PutObject, PutConflicts,
       PutReplyLost, RejectBody, Finish, CompleteUpload, CompleteFails,
       ReadBack, Compensate, CompensationFails, QueueCompensation,
       EvictRequest, HasIntent
  <2>4. ASSUME NEW c \in Cleaners, CleanerStep(c)
        PROVE  u \notin media'
    BY <2>4 DEF CleanerStep, DeleteMedia, ListDeletions, DeleteObjects,
       DeleteObjectsFails, RemoveCompletedRows, EvictCleaner, Rest
  <2>5. CASE UNCHANGED vars
    BY <2>5 DEF vars
  <2> QED BY <2>1, <2>2, <2>3, <2>4, <2>5 DEF Next
<1>2. TypeOK /\ [Next]_vars
        => [\A u \in Uploads :
              intent[u] = "removed" /\ u \notin media => u \notin media']_vars
  BY <1>1
<1> QED BY <1>2, TypeCorrect, PTL DEF Spec, RemovalIsFinal

-----------------------------------------------------------------------------
(* Committed objects are kept.                                             *)

Selected(c) == IF stage[c] = "idle" THEN {} ELSE batch[c]

Holds(r, u) == key[r] = u /\ pc[r] \in {"stored", "compensating"}

\* A request only works on an upload that was reserved; it sees its own
\* commit, or is in doubt.
ReservedInv ==
  /\ \A r \in Requests : pc[r] # "idle" => intent[key[r]] # "unused"
  /\ \A r \in Requests : pc[r] = "committed" => intent[key[r]] = "removed"
  /\ \A u \in Uploads : intent[u] = "unused" => u \notin bucket

\* The deletion of an object is only queued when its upload is over, or is
\* in doubt.
RetiredInv ==
  /\ \A u \in deletions \ doubted : intent[u] = "removed" /\ u \notin media
  /\ \A c \in Cleaners : \A u \in Selected(c) \ doubted :
       intent[u] = "removed" /\ u \notin media
  /\ \A u \in doubted : intent[u] # "unused"

\* While the intent is there, one request at most has stored the object, and
\* it is not deleted behind its back; a request that still has to complete or
\* to compensate never faces a committed upload.
HolderInv ==
  /\ \A r \in Requests, u \in Uploads \ doubted :
       Holds(r, u) => u \notin media /\ (HasIntent(u) => u \in bucket)
  /\ \A q, r \in Requests, u \in Uploads \ doubted :
       Holds(q, u) /\ Holds(r, u) /\ HasIntent(u) => q = r

KeptInv == TypeOK /\ ReservedInv /\ RetiredInv /\ HolderInv /\ CommittedObjectsKept

LEMMA KeptInit == Init => KeptInv
BY DEF Init, KeptInv, TypeOK, ReservedInv, RetiredInv, HolderInv, Holds, Selected,
   HasIntent, CommittedObjectsKept, IntentStates, RequestSteps, CleanerSteps

LEMMA KeptStep ==
  ASSUME KeptInv, [Next]_vars
  PROVE  KeptInv'
<1>0. TypeOK'
  BY TypeStep DEF KeptInv
<1> SUFFICES (ReservedInv /\ RetiredInv /\ HolderInv /\ CommittedObjectsKept)'
  BY <1>0 DEF KeptInv
<1> USE DEF KeptInv, TypeOK, ReservedInv, RetiredInv, HolderInv,
        CommittedObjectsKept, Holds, Selected, HasIntent, Proceed,
        requestVars, cleanerVars, historyVars
<1>1. CASE IntentStep
  <2>1. ASSUME NEW u \in Uploads, CreateIntent(u)
        PROVE  (ReservedInv /\ RetiredInv /\ HolderInv /\ CommittedObjectsKept)'
    BY <2>1 DEF CreateIntent
  <2>2. ASSUME NEW u \in Uploads, ExpireIntent(u)
        PROVE  (ReservedInv /\ RetiredInv /\ HolderInv /\ CommittedObjectsKept)'
    BY <2>2 DEF ExpireIntent
  <2>3. ASSUME NEW S \in SUBSET Uploads, \A u \in S : HasIntent(u), QueueAndRemove(S)
        PROVE  (ReservedInv /\ RetiredInv /\ HolderInv /\ CommittedObjectsKept)'
    BY <2>3 DEF QueueAndRemove
  <2>4. \A u \in {v \in Uploads : intent[v] = "expired"} : HasIntent(u)
    OBVIOUS
  <2> QED
    BY <1>1, <2>1, <2>2, <2>3, <2>4 DEF IntentStep, CancelIntent,
       CollectExpiredIntents, DeleteUser
<1>2. CASE ClearContent
  BY <1>2 DEF ClearContent
<1>3. ASSUME NEW r \in Requests, RequestStep(r)
      PROVE  (ReservedInv /\ RetiredInv /\ HolderInv /\ CommittedObjectsKept)'
  <2>1. CASE \E u \in Uploads : ReadIntent(r, u)
    BY <2>1 DEF ReadIntent
  <2>2. CASE PutObject(r)
    BY <2>2 DEF PutObject
  <2>3. CASE PutConflicts(r) \/ RejectBody(r) \/ EvictRequest(r)
    BY <2>3 DEF PutConflicts, RejectBody, EvictRequest
  <2>4. CASE CompleteUpload(r)
    BY <2>4 DEF CompleteUpload
  <2>5. CASE CompleteFails(r)
    BY <2>5 DEF CompleteFails
  <2>6. CASE ReadBack(r)
    BY <2>6 DEF ReadBack
  <2>7. CASE Compensate(r)
    BY <2>7 DEF Compensate
  <2>8. CASE CompensationFails(r)
    BY <2>8 DEF CompensationFails
  <2>9. CASE QueueCompensation(r)
    <3>1. /\ intent' = intent /\ media' = media /\ bucket' = bucket
          /\ stage' = stage /\ batch' = batch /\ key' = key
          /\ pc' = [pc EXCEPT ![r] = "idle"]
          /\ pc[r] = "queueing"
      BY <2>9 DEF QueueCompensation
    <3>2. /\ deletions' \subseteq deletions \cup {key[r]}
          /\ doubted \subseteq doubted'
          /\ doubted' \subseteq doubted \cup {key[r]}
          /\ key[r] \in deletions' \ doubted' =>
               \/ key[r] \in deletions \ doubted
               \/ ~ HasIntent(key[r]) /\ key[r] \notin media
      BY <2>9 DEF QueueCompensation
    <3>3. intent[key[r]] # "unused"
      BY <3>1
    <3>4. \A u \in Uploads : u \in doubted' => intent'[u] # "unused"
      BY <3>1, <3>2, <3>3
    <3>5. \A u \in deletions' \ doubted' : intent'[u] = "removed" /\ u \notin media'
      BY <3>1, <3>2, <3>3 DEF IntentStates
    <3>6. RetiredInv'
      BY <3>1, <3>2, <3>4, <3>5
    <3>7. (ReservedInv /\ HolderInv /\ CommittedObjectsKept)'
      BY <3>1, <3>2
    <3> QED BY <3>6, <3>7
  <2>10. CASE PutReplyLost(r)
    BY <2>10 DEF PutReplyLost
  <2> QED
    BY <1>3, <2>1, <2>2, <2>3, <2>4, <2>5, <2>6, <2>7, <2>8, <2>9, <2>10
       DEF RequestStep, Store, Finish
<1>4. ASSUME NEW c \in Cleaners, CleanerStep(c)
      PROVE  (ReservedInv /\ RetiredInv /\ HolderInv /\ CommittedObjectsKept)'
  <2>1. ASSUME NEW u \in Uploads, DeleteMedia(c, u)
        PROVE  (ReservedInv /\ RetiredInv /\ HolderInv /\ CommittedObjectsKept)'
    BY <2>1 DEF DeleteMedia
  <2>2. CASE ListDeletions(c)
    BY <2>2 DEF ListDeletions
  <2>3. CASE DeleteObjects(c)
    BY <2>3 DEF DeleteObjects, Rest
  <2>4. CASE DeleteObjectsFails(c) \/ RemoveCompletedRows(c) \/ EvictCleaner(c)
    BY <2>4 DEF DeleteObjectsFails, RemoveCompletedRows, EvictCleaner, Rest
  <2> QED BY <1>4, <2>1, <2>2, <2>3, <2>4 DEF CleanerStep
<1>5. CASE UNCHANGED vars
  BY <1>5 DEF vars
<1> QED BY <1>1, <1>2, <1>3, <1>4, <1>5 DEF Next

\* No interleaving, eviction or failing call deletes the object of an upload
\* that was committed to the library.
THEOREM CommittedObjectsAreKept ==
  Spec => []CommittedObjectsKept
<1>1. KeptInv /\ [Next]_vars => KeptInv'
  BY KeptStep
<1>2. KeptInv => CommittedObjectsKept
  BY DEF KeptInv
<1> QED BY <1>1, <1>2, KeptInit, PTL DEF Spec

-----------------------------------------------------------------------------
(* Objects are tracked.  An upload that lost its last record can no longer  *)
(* be stored either: the drain that removes its queue row deleted the      *)
(* object when no request could store it and no intent could be read.      *)

Untouched(u) == u \notin bucket /\ ~ Awaited(u)

TrackedInv ==
  /\ \A u \in Uploads \ (overtaken \cup cleared) :
       intent[u] = "removed" => u \in media \/ u \in deletions \/ Untouched(u)
  /\ \A c \in Cleaners :
       stage[c] = "deleted" =>
         \A u \in batch[c] \ overtaken : Untouched(u) /\ intent[u] = "removed"

LEMMA TrackedStep ==
  ASSUME KeptInv, TrackedInv, [Next]_vars
  PROVE  TrackedInv'
<1> USE DEF KeptInv, TypeOK, ReservedInv, RetiredInv, TrackedInv, Untouched,
        Awaited, MayStore, Selected, HasIntent, Proceed, requestVars, cleanerVars, historyVars
<1>1. CASE IntentStep
  <2>1. ASSUME NEW u \in Uploads, CreateIntent(u) \/ ExpireIntent(u)
        PROVE  TrackedInv'
    BY <2>1 DEF CreateIntent, ExpireIntent
  <2>2. ASSUME NEW S \in SUBSET Uploads, QueueAndRemove(S)
        PROVE  TrackedInv'
    BY <2>2 DEF QueueAndRemove
  <2>3. {u \in Uploads : intent[u] = "expired"} \in SUBSET Uploads
    OBVIOUS
  <2> QED
    BY <1>1, <2>1, <2>2, <2>3 DEF IntentStep, CancelIntent,
       CollectExpiredIntents, DeleteUser
<1>2. CASE ClearContent
  BY <1>2 DEF ClearContent
<1>3. ASSUME NEW r \in Requests, RequestStep(r)
      PROVE  TrackedInv'
  <2>1. CASE \E u \in Uploads : ReadIntent(r, u)
    BY <2>1 DEF ReadIntent
  <2>2. CASE PutObject(r)
    BY <2>2 DEF PutObject
  <2>3. CASE CompleteUpload(r)
    BY <2>3 DEF CompleteUpload
  <2>4. CASE Compensate(r)
    BY <2>4 DEF Compensate
  <2>5. CASE PutConflicts(r) \/ RejectBody(r) \/ EvictRequest(r)
             \/ CompleteFails(r) \/ ReadBack(r)
    BY <2>5 DEF PutConflicts, RejectBody, EvictRequest, CompleteFails, ReadBack
  <2>6. CASE CompensationFails(r)
    BY <2>6 DEF CompensationFails
  <2>7. CASE QueueCompensation(r)
    BY <2>7 DEF QueueCompensation
  <2>8. CASE PutReplyLost(r)
    BY <2>8 DEF PutReplyLost
  <2> QED
    BY <1>3, <2>1, <2>2, <2>3, <2>4, <2>5, <2>6, <2>7, <2>8
       DEF RequestStep, Store, Finish
<1>4. ASSUME NEW c \in Cleaners, CleanerStep(c)
      PROVE  TrackedInv'
  <2>1. ASSUME NEW u \in Uploads, DeleteMedia(c, u)
        PROVE  TrackedInv'
    BY <2>1 DEF DeleteMedia
  <2>2. CASE ListDeletions(c)
    BY <2>2 DEF ListDeletions
  <2>3. CASE DeleteObjects(c)
    <3>1. /\ stage[c] = "listed" /\ bucket' = bucket \ batch[c]
          /\ overtaken' = overtaken \cup {u \in batch[c] : HasIntent(u) \/ Awaited(u)}
          /\ UNCHANGED <<intent, media, deletions, pc, key, cleared>>
      BY <2>3 DEF DeleteObjects
    <3>2. ASSUME NEW d \in Cleaners, stage'[d] = "deleted"
          PROVE  stage[d] = "deleted" \/ d = c
      BY <2>3, <3>2 DEF DeleteObjects, Rest
    <3>3. ASSUME NEW d \in Cleaners, stage'[d] = "deleted"
          PROVE  batch'[d] = batch[d]
      BY <2>3, <3>3 DEF DeleteObjects, Rest
    <3>4. ASSUME NEW u \in batch[c] \ overtaken'
          PROVE  ~ Awaited(u) /\ intent[u] = "removed"
      <4>1. ~ HasIntent(u) /\ ~ Awaited(u)
        BY <3>1, <3>4
      <4>2. intent[u] # "unused"
        BY <3>1
      <4> QED BY <4>1, <4>2 DEF IntentStates
    <3>5. \A u \in Uploads : Untouched(u) => Untouched(u)'
      BY <3>1
    <3>6. \A u \in batch[c] \ overtaken' : Untouched(u)' /\ intent'[u] = "removed"
      BY <3>1, <3>4
    <3>7. \A d \in Cleaners : stage'[d] = "deleted" =>
            \A u \in batch'[d] \ overtaken' : Untouched(u)' /\ intent'[u] = "removed"
      BY <3>1, <3>2, <3>3, <3>5, <3>6
    <3>8. \A u \in Uploads \ (overtaken' \cup cleared') :
            intent'[u] = "removed" => u \in media' \/ u \in deletions' \/ Untouched(u)'
      BY <3>1, <3>5
    <3> QED BY <3>7, <3>8
  <2>4. CASE RemoveCompletedRows(c)
    BY <2>4 DEF RemoveCompletedRows, Rest
  <2>5. CASE DeleteObjectsFails(c) \/ EvictCleaner(c)
    BY <2>5 DEF DeleteObjectsFails, EvictCleaner, Rest
  <2> QED BY <1>4, <2>1, <2>2, <2>3, <2>4, <2>5 DEF CleanerStep
<1>5. CASE UNCHANGED vars
  BY <1>5 DEF vars
<1> QED BY <1>1, <1>2, <1>3, <1>4, <1>5 DEF Next

\* Whichever process is evicted and whichever call fails, the database keeps
\* a record of every object in the bucket.
THEOREM ObjectsStayTracked ==
  Spec => []ObjectsAreTracked
<1>1. Init => TrackedInv
  BY DEF Init, TrackedInv, Untouched, Awaited, MayStore
<1>2. KeptInv /\ TrackedInv /\ [Next]_vars => KeptInv' /\ TrackedInv'
  BY KeptStep, TrackedStep
<1>3. KeptInv /\ TrackedInv => ObjectsAreTracked
  BY DEF KeptInv, TrackedInv, TypeOK, IntentStates, ReservedInv, Untouched,
     ObjectsAreTracked, HasIntent
<1> QED BY <1>1, <1>2, <1>3, KeptInit, PTL DEF Spec

-----------------------------------------------------------------------------
(* Refinement of the abstract life cycle. *)

LEMMA LifecycleStep ==
  ASSUME KeptInv, KeptInv', [Next]_vars
  PROVE  [Lifecycle!Next]_(Lifecycle!vars)
<1> DEFINE status == [u \in Uploads |-> Status(u)]
<1>a. ASSUME NEW u \in Uploads,
             \/ Lifecycle!Reserve(u) \/ Lifecycle!Store(u)
             \/ Lifecycle!Publish(u) \/ Lifecycle!Doubt(u)
      PROVE  Lifecycle!Next
  BY <1>a DEF Lifecycle!Next
<1>b. ASSUME NEW S \in SUBSET Uploads, Lifecycle!Retire(S) \/ Lifecycle!Discard(S)
      PROVE  Lifecycle!Next
  BY <1>b DEF Lifecycle!Next
<1> USE DEF KeptInv, TypeOK, Status, HasIntent, requestVars, cleanerVars, historyVars,
        Lifecycle!vars, Proceed
<1>0. ASSUME UNCHANGED <<intent, media>>
      PROVE  status' = status
  BY <1>0
<1>1. CASE IntentStep
  <2>1. ASSUME NEW u \in Uploads, CreateIntent(u)
        PROVE  Lifecycle!Reserve(u)
    BY <2>1 DEF CreateIntent, Lifecycle!Reserve
  <2>2. ASSUME NEW u \in Uploads, ExpireIntent(u)
        PROVE  UNCHANGED Lifecycle!vars
    BY <2>2 DEF ExpireIntent
  <2>3. ASSUME NEW S \in SUBSET Uploads, \A u \in S : HasIntent(u), QueueAndRemove(S)
        PROVE  Lifecycle!Retire(S)
    <3>1. \A u \in Uploads : Status(u)' = IF u \in S THEN "retired" ELSE Status(u)
      BY <2>3 DEF QueueAndRemove
    <3>2. \A u \in S : Status(u) \in {"reserved", "published"}
      BY <2>3
    <3>3. bucket' = bucket /\ doubted' = doubted
      BY <2>3 DEF QueueAndRemove
    <3> QED BY <3>1, <3>2, <3>3 DEF Lifecycle!Retire
  <2>4. /\ {v \in Uploads : intent[v] = "expired"} \in SUBSET Uploads
        /\ \A u \in {v \in Uploads : intent[v] = "expired"} : HasIntent(u)
    OBVIOUS
  <2>5. CASE \E u \in Uploads : CreateIntent(u) \/ ExpireIntent(u)
    BY <2>5, <2>1, <2>2, <1>a
  <2>6. CASE \E S \in SUBSET Uploads :
               (\A u \in S : HasIntent(u)) /\ QueueAndRemove(S)
    BY <2>6, <2>3, <1>b
  <2> QED
    BY <1>1, <2>4, <2>5, <2>6 DEF IntentStep, CancelIntent,
       CollectExpiredIntents, DeleteUser
<1>2. CASE ClearContent
  <2> DEFINE S == media \cup {u \in Uploads : HasIntent(u)}
  <2>1. \A u \in Uploads : Status(u)' = IF u \in S THEN "retired" ELSE Status(u)
    BY <1>2 DEF ClearContent, IntentStates
  <2>3. \A u \in S : Status(u) \in {"reserved", "published"}
    OBVIOUS
  <2>4. bucket' = bucket /\ doubted' = doubted
    BY <1>2 DEF ClearContent
  <2>2. PICK R \in SUBSET Uploads : R = S
    OBVIOUS
  <2>5. Lifecycle!Retire(R)
    BY <2>1, <2>2, <2>3, <2>4 DEF Lifecycle!Retire
  <2> QED BY <2>5, <1>b
<1>3. ASSUME NEW r \in Requests, RequestStep(r)
      PROVE  [Lifecycle!Next]_(Lifecycle!vars)
  <2>1. CASE PutObject(r) \/ PutReplyLost(r)
    <3>1. /\ bucket' = bucket \cup {key[r]}
          /\ key[r] \in Uploads
          /\ Status(key[r]) # "unused"
      BY <2>1 DEF PutObject, PutReplyLost, ReservedInv
    <3>3. status' = status /\ doubted' = doubted
      BY <2>1, <1>0 DEF PutObject, PutReplyLost
    <3>4. Lifecycle!Store(key[r])
      BY <3>1, <3>3 DEF Lifecycle!Store
    <3> QED BY <3>1, <3>4, <1>a
  <2>2. CASE CompleteUpload(r) /\ HasIntent(key[r])
    <3>1. key[r] \in bucket \cup doubted
      BY <2>2 DEF CompleteUpload, HolderInv, Holds
    <3>2. \A u \in Uploads : Status(u)' = IF u = key[r] THEN "published" ELSE Status(u)
      BY <2>2 DEF CompleteUpload
    <3>3. bucket' = bucket /\ key[r] \in Uploads /\ Status(key[r]) = "reserved"
      BY <2>2 DEF CompleteUpload
    <3>4. PICK u \in Uploads : u = key[r]
      BY <3>3
    <3>6. doubted' \in {doubted, doubted \cup {u}}
      BY <2>2, <3>4 DEF CompleteUpload
    <3>5. Lifecycle!Publish(u)
      BY <3>1, <3>2, <3>3, <3>4, <3>6 DEF Lifecycle!Publish
    <3> QED BY <3>5, <1>a
  <2>3. CASE (Compensate(r) \/ CompensationFails(r)) /\ bucket' # bucket
    <3>1. key[r] \in doubted \/ (key[r] \notin media /\ intent[key[r]] # "unused")
      BY <2>3 DEF Compensate, CompensationFails, HolderInv, Holds, ReservedInv
    <3>4. status' = status /\ bucket' = bucket \ {key[r]} /\ doubted' = doubted
      BY <2>3, <1>0 DEF Compensate, CompensationFails
    <3>5. Status(key[r]) \in {"reserved", "retired"} \/ key[r] \in doubted
      BY <3>1
    <3>2. Lifecycle!Discard({key[r]})
      BY <3>4, <3>5 DEF Lifecycle!Discard
    <3>3. {key[r]} \in SUBSET Uploads
      OBVIOUS
    <3> QED BY <3>2, <3>3, <1>b
  <2>4. CASE (ReadBack(r) \/ QueueCompensation(r)) /\ doubted' # doubted
    <3>1. doubted' = doubted \cup {key[r]} /\ (HasIntent(key[r]) \/ key[r] \in media)
      <4>1. CASE ReadBack(r)
        <5>1. doubted' = doubted \cup ({key[r]} \cap media)
          BY <2>4, <4>1 DEF ReadBack
        <5>2. key[r] \in media
          BY <2>4, <5>1
        <5> QED BY <5>1, <5>2
      <4>2. CASE QueueCompensation(r)
        <5>1. doubted' = doubted \cup {u \in {key[r]} : HasIntent(u) \/ u \in media}
          BY <2>4, <4>2 DEF QueueCompensation
        <5>2. HasIntent(key[r]) \/ key[r] \in media
          BY <2>4, <5>1
        <5> QED BY <5>1, <5>2
      <4> QED BY <2>4, <4>1, <4>2
    <3>2. Status(key[r]) \in {"reserved", "published"}
      BY <3>1
    <3>3. status' = status /\ bucket' = bucket
      BY <2>4, <1>0 DEF ReadBack, QueueCompensation
    <3>4. Lifecycle!Doubt(key[r])
      BY <3>1, <3>2, <3>3 DEF Lifecycle!Doubt
    <3> QED BY <3>4, <1>a
  <2>5. CASE \/ \E u \in Uploads : ReadIntent(r, u)
             \/ PutConflicts(r) \/ RejectBody(r) \/ CompleteFails(r)
             \/ EvictRequest(r)
             \/ CompleteUpload(r) /\ ~ HasIntent(key[r])
    BY <2>5, <1>0 DEF ReadIntent, PutConflicts, RejectBody, CompleteFails,
       EvictRequest, CompleteUpload
  <2>6. CASE (Compensate(r) \/ CompensationFails(r)) /\ bucket' = bucket
    BY <2>6, <1>0 DEF Compensate, CompensationFails
  <2>7. CASE (ReadBack(r) \/ QueueCompensation(r)) /\ doubted' = doubted
    BY <2>7, <1>0 DEF ReadBack, QueueCompensation
  <2> QED
    BY <1>3, <2>1, <2>2, <2>3, <2>4, <2>5, <2>6, <2>7 DEF RequestStep, Store, Finish
<1>4. ASSUME NEW c \in Cleaners, CleanerStep(c)
      PROVE  [Lifecycle!Next]_(Lifecycle!vars)
  <2>1. ASSUME NEW u \in Uploads, DeleteMedia(c, u)
        PROVE  Lifecycle!Retire({u})
    BY <2>1 DEF DeleteMedia, Lifecycle!Retire
  <2>2. CASE DeleteObjects(c)
    <3>1. Lifecycle!Discard(batch[c])
      BY <2>2, <1>0 DEF DeleteObjects, Lifecycle!Discard, RetiredInv, Selected
    <3>2. batch[c] \in SUBSET Uploads
      OBVIOUS
    <3> QED BY <3>1, <3>2, <1>b
  <2>3. CASE ListDeletions(c) \/ DeleteObjectsFails(c)
             \/ RemoveCompletedRows(c) \/ EvictCleaner(c)
    BY <2>3, <1>0 DEF ListDeletions, DeleteObjectsFails, RemoveCompletedRows,
       EvictCleaner, Rest
  <2>4. CASE \E u \in Uploads : DeleteMedia(c, u)
    <3>1. \A u \in Uploads : {u} \in SUBSET Uploads
      OBVIOUS
    <3> QED BY <2>4, <2>1, <3>1, <1>b
  <2> QED BY <1>4, <2>2, <2>3, <2>4 DEF CleanerStep
<1>5. CASE UNCHANGED vars
  BY <1>5, <1>0 DEF vars
<1> QED BY <1>1, <1>2, <1>3, <1>4, <1>5 DEF Next

\* Uploads behave as MediaLifecycle promises, for any number of requests and
\* cleaners, Clear content and drains that overtake requests included.
THEOREM UploadsImplementLifecycle ==
  Spec => ImplementsLifecycle
<1>1. Init => Lifecycle!Init
  BY DEF Init, Lifecycle!Init, Status
<1>2. KeptInv /\ KeptInv' /\ [Next]_vars => [Lifecycle!Next]_(Lifecycle!vars)
  BY LifecycleStep
<1>3. KeptInv /\ [Next]_vars => KeptInv'
  BY KeptStep
<1> QED
  BY <1>1, <1>2, <1>3, KeptInit, PTL DEF Spec, ImplementsLifecycle, Lifecycle!Spec
=============================================================================

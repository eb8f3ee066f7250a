-------------------------- MODULE PostNotification --------------------------
(***************************************************************************)
(* Mailing a published Post revision to the newsletter.  A request writes  *)
(* one delivery row per subscriber and sends a dispatch message; consumers *)
(* of the mail queue expand it page by page into one message per row, and  *)
(* each of those claims an attempt of its row, calls the mail provider and *)
(* records the outcome.  The queue delivers at least once, in any order;   *)
(* database, queue and provider share no transaction, so every call is one *)
(* step.  A delivery is named by its subscription, because the post and    *)
(* its revision are fixed: it is the rest of its idempotency key, and the  *)
(* numbers order the keys.                                                 *)
(***************************************************************************)
EXTENDS Naturals, FiniteSets

CONSTANTS
  Subscriptions,  \* newsletter subscriptions, in the order of their keys
  Requests,       \* bound: requests of an author to notify the subscribers
  Consumers,      \* queue consumers that run at the same time
  NoMessage,      \* what an idle consumer holds
  PageSize,       \* rows a dispatch reads, and messages it sends (100)
  MaxAttempts,    \* deliveries of one message: max_retries + 1
  MaxDuplicates,  \* bound: messages that the queue delivers twice
  MaxChanges,     \* bound: changes of subscribers and newsletter
  Failures,       \* which failures the environment may produce
  RetriesSuffice  \* assumption: the last attempt of a message is not cut off

FailureKinds ==
  {"eviction",     \* a request or consumer stops between two calls
   "database",     \* a database or queue call fails and has no effect
   "lostReply",    \* a call is reported as failed after it took effect
   "provider",     \* no mail configuration, or the provider rejects the mail
   "maintenance"}  \* the Edge database is not ready

ASSUME SubscriptionAssumption ==
  Subscriptions \subseteq Nat \ {0} /\ IsFiniteSet(Subscriptions)

ASSUME QueueAssumption ==
  /\ PageSize \in Nat \ {0, 1}
  /\ MaxAttempts \in Nat \ {0}
  /\ MaxDuplicates \in Nat
  /\ MaxChanges \in Nat

ASSUME FailureAssumption ==
  /\ Failures \subseteq FailureKinds
  /\ RetriesSuffice \in BOOLEAN

VARIABLES
  reader,     \* newsletter_subscriptions and newsletter_suppressions
  active,     \* newsletter_lists: whether the newsletter is active
  changes,    \* changes of subscribers and newsletter so far
  status,     \* newsletter_deliveries: status of the delivery, if any
  attempts,   \* newsletter_deliveries: attempt_count
  request,    \* notification request: next call
  waiting,    \* the queue: how often each message waits in it
  duplicates, \* messages that were delivered twice
  pc,         \* consumer: next call
  held,       \* consumer: the message it was given
  page,       \* consumer: the rows its dispatch selected
  mails       \* the provider: mails it accepted, by delivery and attempt

readerVars == <<reader, active, changes>>
ledgerVars == <<reader, active, changes, status, attempts>>
queueVars == <<waiting, duplicates>>
consumerVars == <<pc, held, page>>
vars == <<reader, active, changes, status, attempts, request, waiting,
          duplicates, pc, held, page, mails>>

Start == 0  \* after_idempotency_key IS NULL

Attempts == 1 .. MaxAttempts
Dispatches ==
  [type : {"dispatch"}, after : Subscriptions \cup {Start}, attempt : Attempts]
Notifications ==
  [type : {"notification"}, delivery : Subscriptions, attempt : Attempts]
Messages == Dispatches \cup Notifications

ASSUME NoMessageAssumption == NoMessage \notin Messages

Statuses == {"none", "queued", "sent", "failed", "skipped", "deleted"}
RequestSteps == {"ready", "active", "inserted", "pending", "done", "failed"}
ConsumerSteps ==
  {"idle", "received", "paged", "skipping", "claiming", "claimed", "accepted",
   "failing", "acked"}

TypeOK ==
  /\ reader \in [Subscriptions -> {"subscribed", "unsubscribed", "deleted"}]
  /\ active \in BOOLEAN
  /\ changes \in 0 .. MaxChanges
  /\ status \in [Subscriptions -> Statuses]
  /\ attempts \in [Subscriptions -> 0 .. MaxAttempts]
  /\ request \in [Requests -> RequestSteps]
  /\ waiting \in [Messages -> Nat]
  /\ duplicates \in 0 .. MaxDuplicates
  /\ pc \in [Consumers -> ConsumerSteps]
  /\ held \in [Consumers -> Messages \cup {NoMessage}]
  /\ page \in [Consumers -> SUBSET Subscriptions]
  /\ mails \in [Subscriptions -> [Attempts -> Nat]]

Init ==
  /\ reader = [s \in Subscriptions |-> "subscribed"]
  /\ active = TRUE
  /\ changes = 0
  /\ status = [s \in Subscriptions |-> "none"]
  /\ attempts = [s \in Subscriptions |-> 0]
  /\ request = [r \in Requests |-> "ready"]
  /\ waiting = [m \in Messages |-> 0]
  /\ duplicates = 0
  /\ pc = [c \in Consumers |-> "idle"]
  /\ held = [c \in Consumers |-> NoMessage]
  /\ page = [c \in Consumers |-> {}]
  /\ mails = [s \in Subscriptions |-> [n \in Attempts |-> 0]]

Deliverable(s) == active /\ reader[s] = "subscribed"

\* status IN ('queued', 'failed')
Unsettled(s) == status[s] \in {"queued", "failed"}

\* Materialized and not attempted yet: what a dispatch selects.
Pending == {s \in Subscriptions : status[s] = "queued" /\ attempts[s] = 0}

-----------------------------------------------------------------------------
(* Subscribers and the newsletter *)

Change ==
  /\ changes < MaxChanges
  /\ changes' = changes + 1

\* On the public site; confirmation, and a lifted suppression, included.
Subscribe(s) ==
  /\ Change
  /\ reader[s] = "unsubscribed"
  /\ reader' = [reader EXCEPT ![s] = "subscribed"]
  /\ UNCHANGED <<active, status, attempts, request, queueVars, consumerVars, mails>>

\* By the administrator, by the subscriber, or by a suppression.
Unsubscribe(s) ==
  /\ Change
  /\ reader[s] = "subscribed"
  /\ reader' = [reader EXCEPT ![s] = "unsubscribed"]
  /\ UNCHANGED <<active, status, attempts, request, queueVars, consumerVars, mails>>

\* The delivery rows of a subscription are deleted with it.
DeleteSubscription(s) ==
  /\ Change
  /\ reader[s] # "deleted"
  /\ reader' = [reader EXCEPT ![s] = "deleted"]
  /\ status' = [status EXCEPT ![s] = IF @ = "none" THEN @ ELSE "deleted"]
  /\ UNCHANGED <<active, attempts, request, queueVars, consumerVars, mails>>

UpdateNewsletter ==
  /\ Change
  /\ active' = ~ active
  /\ UNCHANGED <<reader, status, attempts, request, queueVars, consumerVars, mails>>

-----------------------------------------------------------------------------
(* POST /posts/:id/newsletter-notification *)

ProceedRequest(r, step) == request' = [request EXCEPT ![r] = step]

FindNewsletter(r) ==
  /\ request[r] = "ready"
  /\ ProceedRequest(r, IF active THEN "active" ELSE "done")
  /\ UNCHANGED <<ledgerVars, queueVars, consumerVars, mails>>

\* INSERT OR IGNORE ... SELECT: rows of an earlier request stay as they are.
Materialize(r) ==
  /\ request[r] = "active"
  /\ status' = [s \in Subscriptions |->
                  IF status[s] = "none" /\ reader[s] = "subscribed"
                  THEN "queued" ELSE status[s]]
  /\ ProceedRequest(r, "inserted")
  /\ UNCHANGED <<readerVars, attempts, queueVars, consumerVars, mails>>

CountPending(r) ==
  /\ request[r] = "inserted"
  /\ ProceedRequest(r, IF Pending # {} THEN "pending" ELSE "done")
  /\ UNCHANGED <<ledgerVars, queueVars, consumerVars, mails>>

Dispatch(after) == [type |-> "dispatch", after |-> after, attempt |-> 1]
Notification(s) == [type |-> "notification", delivery |-> s, attempt |-> 1]

QueueWith(batch) == [m \in Messages |-> waiting[m] + IF m \in batch THEN 1 ELSE 0]

SendDispatch(r) ==
  /\ request[r] = "pending"
  /\ waiting' = QueueWith({Dispatch(Start)})
  /\ \/ ProceedRequest(r, "done")
     \/ "lostReply" \in Failures /\ ProceedRequest(r, "failed")
  /\ UNCHANGED <<ledgerVars, duplicates, consumerVars, mails>>

\* A failed call or an evicted request: the author is told to try again.
RequestFails(r) ==
  /\ Failures \cap {"eviction", "database"} # {}
  /\ request[r] \in {"ready", "active", "inserted", "pending"}
  /\ ProceedRequest(r, "failed")
  /\ UNCHANGED <<ledgerVars, queueVars, consumerVars, mails>>

-----------------------------------------------------------------------------
(* The queue *)

Proceed(c, step) == pc' = [pc EXCEPT ![c] = step]

Receive(c, m) ==
  /\ pc[c] = "idle"
  /\ waiting[m] > 0
  /\ \/ /\ waiting' = [waiting EXCEPT ![m] = @ - 1]
        /\ UNCHANGED duplicates
     \/ /\ duplicates < MaxDuplicates
        /\ duplicates' = duplicates + 1
        /\ UNCHANGED waiting
  /\ Proceed(c, "received")
  /\ held' = [held EXCEPT ![c] = m]
  /\ UNCHANGED <<ledgerVars, request, page, mails>>

IsLast(m) == m.attempt = MaxAttempts

\* message.retry(), or a batch without answer: the message is delivered
\* again until its attempts are used up.
Redeliver(c, queue) ==
  /\ waiting' = IF IsLast(held[c]) THEN queue
                ELSE [queue EXCEPT ![[held[c] EXCEPT !.attempt = @ + 1]] = @ + 1]
  /\ Proceed(c, "idle")
  /\ held' = [held EXCEPT ![c] = NoMessage]
  /\ page' = [page EXCEPT ![c] = {}]
  /\ UNCHANGED duplicates

Retry(c) == Redeliver(c, waiting)

\* message.ack() counts when the batch is over.
Ack(c) ==
  /\ Proceed(c, "acked")
  /\ page' = [page EXCEPT ![c] = {}]
  /\ UNCHANGED <<held, queueVars>>

Continue(c, step) ==
  /\ Proceed(c, step)
  /\ UNCHANGED <<held, page, queueVars>>

\* A failure of this kind may hit the call that consumer c is about to make.
MayFail(c, kind) ==
  /\ kind \in Failures
  /\ RetriesSuffice => ~ IsLast(held[c])

EndBatch(c) ==
  /\ pc[c] = "acked"
  /\ Proceed(c, "idle")
  /\ held' = [held EXCEPT ![c] = NoMessage]
  /\ UNCHANGED <<ledgerVars, request, queueVars, page, mails>>

EvictConsumer(c) ==
  /\ pc[c] # "idle"
  /\ MayFail(c, "eviction")
  /\ Retry(c)
  /\ UNCHANGED <<ledgerVars, request, mails>>

\* The Edge database is not ready: the whole batch is retried.
RetryBatch(c) ==
  /\ pc[c] = "received"
  /\ MayFail(c, "maintenance")
  /\ Retry(c)
  /\ UNCHANGED <<ledgerVars, request, mails>>

\* Faulty variant: the handler acknowledges what it could not process.
AckFailedCall(c) ==
  /\ pc[c] \in {"received", "paged", "skipping", "claiming", "failing"}
  /\ MayFail(c, "database")
  /\ Ack(c)
  /\ UNCHANGED <<ledgerVars, request, mails>>

\* A read that fails, or a write that fails without effect, before an
\* attempt was claimed, while a failed one is recorded, or in a dispatch.
CallFails(c) ==
  /\ pc[c] \in {"received", "paged", "skipping", "claiming", "failing"}
  /\ MayFail(c, "database")
  /\ Retry(c)
  /\ UNCHANGED <<ledgerVars, request, mails>>

\* A call that took effect continues the job, or retries it because its
\* reply is lost.
Answered(c, job) == job \/ (MayFail(c, "lostReply") /\ Retry(c))

-----------------------------------------------------------------------------
(* newsletter.post_notification.dispatch *)

\* ORDER BY idempotency_key LIMIT PageSize
FirstRows(S) == {s \in S : Cardinality({t \in S : t <= s}) <= PageSize}

ReadPage(c) ==
  /\ pc[c] = "received"
  /\ held[c].type = "dispatch"
  /\ LET rows == FirstRows({s \in Pending : s > held[c].after}) IN
       IF rows = {} THEN Ack(c)
       ELSE /\ Proceed(c, "paged")
            /\ page' = [page EXCEPT ![c] = rows]
            /\ UNCHANGED <<held, queueVars>>
  /\ UNCHANGED <<ledgerVars, request, mails>>

Greatest(S) == CHOOSE s \in S : \A t \in S : t <= s

\* Faulty variant: the next page starts after the row that was left out.
BatchSkippingRow(rows) ==
  IF Cardinality(rows) = PageSize
  THEN {Notification(s) : s \in rows \ {Greatest(rows)}}
         \cup {Dispatch(Greatest(rows))}
  ELSE {Notification(s) : s \in rows}

\* A full page leaves its last row and the rest to a continuation.
BatchOf(rows) ==
  IF Cardinality(rows) = PageSize
  THEN LET sent == rows \ {Greatest(rows)} IN
         {Notification(s) : s \in sent} \cup {Dispatch(Greatest(sent))}
  ELSE {Notification(s) : s \in rows}

SendBatch(c) ==
  /\ pc[c] = "paged"
  /\ LET queue == QueueWith(BatchOf(page[c])) IN
       \/ /\ waiting' = queue
          /\ Proceed(c, "acked")
          /\ page' = [page EXCEPT ![c] = {}]
          /\ UNCHANGED <<held, duplicates>>
       \/ MayFail(c, "lostReply") /\ Redeliver(c, queue)
  /\ UNCHANGED <<ledgerVars, request, mails>>

-----------------------------------------------------------------------------
(* newsletter.post_notification *)

Processing(c) == held[c].type = "notification"
Delivery(c) == held[c].delivery
Attempt(c) == held[c].attempt

\* Faulty variant: whoever was subscribed when the rows were written.
ReadJobOnce(c) ==
  /\ pc[c] = "received"
  /\ Processing(c)
  /\ IF Unsettled(Delivery(c)) THEN Continue(c, "claiming") ELSE Ack(c)
  /\ UNCHANGED <<ledgerVars, request, mails>>

ReadJob(c) ==
  /\ pc[c] = "received"
  /\ Processing(c)
  /\ IF Unsettled(Delivery(c))
     THEN Continue(c, IF Deliverable(Delivery(c)) THEN "claiming" ELSE "skipping")
     ELSE Ack(c)
  /\ UNCHANGED <<ledgerVars, request, mails>>

Skip(c) ==
  /\ pc[c] = "skipping"
  /\ status' = [status EXCEPT ![Delivery(c)] =
                  IF Unsettled(Delivery(c)) THEN "skipped" ELSE @]
  /\ Answered(c, Ack(c))
  /\ UNCHANGED <<readerVars, attempts, request, mails>>

\* Faulty variant: an attempt may be claimed again.
ClaimableAgain(c) == Unsettled(Delivery(c)) /\ attempts[Delivery(c)] <= Attempt(c)

Claimable(c) == Unsettled(Delivery(c)) /\ attempts[Delivery(c)] < Attempt(c)

Claim(c) ==
  /\ pc[c] = "claiming"
  /\ IF Claimable(c)
     THEN /\ status' = [status EXCEPT ![Delivery(c)] = "queued"]
          /\ attempts' = [attempts EXCEPT ![Delivery(c)] = Attempt(c)]
          /\ Answered(c, Continue(c, "claimed"))
     ELSE /\ Ack(c)
          /\ UNCHANGED <<status, attempts>>
  /\ UNCHANGED <<readerVars, request, mails>>

Deliver(c) ==
  /\ pc[c] = "claimed"
  /\ mails' = [mails EXCEPT ![Delivery(c)][Attempt(c)] = @ + 1]
  /\ \/ Continue(c, "accepted")
     \/ "lostReply" \in Failures /\ Continue(c, "failing")
  /\ UNCHANGED <<ledgerVars, request>>

DeliverFails(c) ==
  /\ pc[c] = "claimed"
  /\ "provider" \in Failures
  /\ Continue(c, "failing")
  /\ UNCHANGED <<ledgerVars, request, mails>>

\* status = 'queued' AND attempt_count = ?
OwnsAttempt(c) ==
  status[Delivery(c)] = "queued" /\ attempts[Delivery(c)] = Attempt(c)

MarkSent(c) ==
  /\ pc[c] = "accepted"
  /\ status' = [status EXCEPT ![Delivery(c)] = IF OwnsAttempt(c) THEN "sent" ELSE @]
  /\ \/ Ack(c)
     \/ "lostReply" \in Failures /\ Continue(c, "failing")
  /\ UNCHANGED <<readerVars, attempts, request, mails>>

MarkSentFails(c) ==
  /\ pc[c] = "accepted"
  /\ "database" \in Failures
  /\ Continue(c, "failing")
  /\ UNCHANGED <<ledgerVars, request, mails>>

\* Faulty variant: a failure is recorded whatever was recorded before.
MarkFailedAlways(c) ==
  /\ pc[c] = "failing"
  /\ status' = [status EXCEPT ![Delivery(c)] =
                  IF attempts[Delivery(c)] = Attempt(c) THEN "failed" ELSE @]
  /\ Retry(c)
  /\ UNCHANGED <<readerVars, attempts, request, mails>>

\* The error is thrown on, so the message is retried.
MarkFailed(c) ==
  /\ pc[c] = "failing"
  /\ status' = [status EXCEPT ![Delivery(c)] =
                  IF Unsettled(Delivery(c)) /\ attempts[Delivery(c)] = Attempt(c)
                  THEN "failed" ELSE @]
  /\ Retry(c)
  /\ UNCHANGED <<readerVars, attempts, request, mails>>

-----------------------------------------------------------------------------

SubscriberStep ==
  \/ UpdateNewsletter
  \/ \E s \in Subscriptions : Subscribe(s) \/ Unsubscribe(s) \/ DeleteSubscription(s)

Notify(r) == FindNewsletter(r) \/ Materialize(r) \/ CountPending(r) \/ SendDispatch(r)

Work(c) ==
  \/ ReadPage(c) \/ SendBatch(c)
  \/ ReadJob(c) \/ Skip(c) \/ Claim(c)
  \/ Deliver(c) \/ DeliverFails(c)
  \/ MarkSent(c) \/ MarkSentFails(c) \/ MarkFailed(c)
  \/ EndBatch(c)

ConsumerStep(c) ==
  \/ \E m \in Messages : Receive(c, m)
  \/ Work(c)
  \/ RetryBatch(c) \/ CallFails(c) \/ EvictConsumer(c)

Next ==
  \/ SubscriberStep
  \/ \E r \in Requests : Notify(r) \/ RequestFails(r)
  \/ \E c \in Consumers : ConsumerStep(c)

Spec == Init /\ [][Next]_vars

\* A request that is not cut off and a consumer that is not evicted go on;
\* the queue delivers some message while any waits and a consumer is idle.
Fairness ==
  /\ \A r \in Requests : WF_vars(Notify(r))
  /\ \A c \in Consumers : WF_vars(Work(c))
  /\ WF_vars(\E c \in Consumers, m \in Messages : Receive(c, m))

FairSpec == Spec /\ Fairness

-----------------------------------------------------------------------------
(* Properties *)

\* However often a job is duplicated, redelivered or retried, the provider
\* is called at most once for an attempt of a delivery, so a reader gets at
\* most MaxAttempts copies even from a provider without idempotency keys.
MailedOncePerAttempt ==
  \A s \in Subscriptions, n \in Attempts : mails[s][n] <= 1

\* A delivery recorded as sent was accepted by the provider in the very
\* attempt that the row shows.
SentIsTruthful ==
  \A s \in Subscriptions :
    status[s] = "sent" => attempts[s] \in Attempts /\ mails[s][attempts[s]] > 0

\* What is sent or skipped is never queued, mailed anew or failed by a job
\* that is late, duplicated or retried after a lost reply.
SettledIsFinal ==
  [][\A s \in Subscriptions :
       status[s] \in {"sent", "skipped"} =>
         status'[s] \in {status[s], "deleted"} /\ attempts'[s] = attempts[s]]_vars

InFlight(s) ==
  \E c \in Consumers :
    /\ pc[c] \in {"claiming", "claimed", "accepted"}
    /\ Processing(c)
    /\ Delivery(c) = s

\* Once a reader has opted out and the jobs that were under way have ended,
\* no job that still waits in the queue gets to mailing that reader.
OptOutIsRespected ==
  [][\A s \in Subscriptions :
       ~ Deliverable(s) /\ ~ InFlight(s) => ~ InFlight(s)']_vars

Carries(m, s) ==
  IF m.type = "notification" THEN m.delivery = s
  ELSE s \in Pending /\ m.after < s

InQueue(m) ==
  waiting[m] > 0 \/ \E c \in Consumers : held[c] = m /\ pc[c] # "acked"

\* No recipient is forgotten between two pages, two requests or two
\* attempts: as long as retries suffice, a message that will settle a queued
\* delivery is in the queue or with a consumer, unless a request failed.
QueuedIsCovered ==
  \A s \in Subscriptions :
    status[s] = "queued" =>
      \/ \E m \in Messages : Carries(m, s) /\ InQueue(m)
      \/ /\ s \in Pending
         /\ \E r \in Requests : request[r] \in {"inserted", "pending", "failed"}

\* Every queued delivery is sent, skipped or failed in the end, unless it was
\* never attempted and an author was told to try again.
NotificationSettles ==
  \A s \in Subscriptions :
    status[s] = "queued" ~>
      \/ status[s] # "queued"
      \/ s \in Pending /\ \E r \in Requests : request[r] = "failed"
=============================================================================

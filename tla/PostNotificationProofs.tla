----------------------- MODULE PostNotificationProofs -----------------------
(***************************************************************************)
(* Proofs about PostNotification, for any number of subscriptions,         *)
(* requests, consumers and attempts, and under every failure.              *)
(***************************************************************************)
EXTENDS PostNotification, FiniteSetTheorems, TLAPS

JobSteps == {"skipping", "claiming", "claimed", "accepted", "failing"}

\* What a consumer holds while it is at work.
HeldInv ==
  \A c \in Consumers :
    /\ pc[c] # "idle" => held[c] \in Messages
    /\ pc[c] \in JobSteps => held[c] \in Notifications

\* The types of the queue and of its consumers, and those of the rest.
DeliveryTypes ==
  /\ waiting \in [Messages -> Nat]
  /\ duplicates \in 0 .. MaxDuplicates
  /\ pc \in [Consumers -> ConsumerSteps]
  /\ held \in [Consumers -> Messages \cup {NoMessage}]
  /\ page \in [Consumers -> SUBSET Subscriptions]
  /\ HeldInv

LedgerTypes ==
  /\ reader \in [Subscriptions -> {"subscribed", "unsubscribed", "deleted"}]
  /\ active \in BOOLEAN
  /\ changes \in 0 .. MaxChanges
  /\ status \in [Subscriptions -> Statuses]
  /\ attempts \in [Subscriptions -> 0 .. MaxAttempts]
  /\ request \in [Requests -> RequestSteps]
  /\ mails \in [Subscriptions -> [Attempts -> Nat]]

TypeInv == DeliveryTypes /\ LedgerTypes

LEMMA TypeInvSplits == TypeInv <=> TypeOK /\ HeldInv
  BY DEF TypeInv, DeliveryTypes, LedgerTypes, TypeOK

\* Messages keep their kind and body when they are delivered again.
LEMMA MessageTypes ==
  /\ \A m \in Messages : m.attempt \in Attempts
  /\ \A m \in Messages : m.type = "notification" => m \in Notifications
  /\ \A m \in Notifications :
       m.type = "notification" /\ m.delivery \in Subscriptions /\ m.attempt \in Attempts
  /\ \A m \in Dispatches : m.type = "dispatch"
  BY DEF Messages, Notifications, Dispatches

\* Giving a message back to the queue keeps the types.
LEMMA RedeliverTypes ==
  ASSUME DeliveryTypes, NEW c \in Consumers, NEW queue \in [Messages -> Nat],
         Redeliver(c, queue)
  PROVE  DeliveryTypes'
  <1>1. waiting' \in [Messages -> Nat]
    <2> DEFINE again == [held[c] EXCEPT !.attempt = @ + 1]
    <2> HIDE DEF again
    <2>1. CASE again \in Messages
      <3>1. queue[again] \in Nat
        BY <2>1
      <3>2. queue[again] + 1 \in Nat
        BY <3>1
      <3>3. [queue EXCEPT ![again] = @ + 1] \in [Messages -> Nat]
        BY <3>2, Zenon
      <3> QED BY <3>3 DEF Redeliver, again
    <2>2. CASE again \notin Messages
      <3>1. [queue EXCEPT ![again] = @ + 1] = queue
        BY <2>2
      <3> QED BY <3>1 DEF Redeliver, again
    <2> QED BY <2>1, <2>2
  <1>2. pc' \in [Consumers -> ConsumerSteps] /\ pc' = [pc EXCEPT ![c] = "idle"]
    BY DEF Redeliver, Proceed, DeliveryTypes, ConsumerSteps
  <1>3. held' \in [Consumers -> Messages \cup {NoMessage}]
    BY DEF Redeliver, DeliveryTypes
  <1>4. page' \in [Consumers -> SUBSET Subscriptions]
    BY DEF Redeliver, DeliveryTypes
  <1>5. \A d \in Consumers : d # c => held'[d] = held[d] /\ pc'[d] = pc[d]
    BY <1>2 DEF Redeliver, DeliveryTypes
  <1>6. pc'[c] = "idle"
    BY <1>2 DEF DeliveryTypes
  <1>7. HeldInv'
    BY <1>5, <1>6 DEF HeldInv, DeliveryTypes, JobSteps
  <1> QED BY <1>1, <1>2, <1>3, <1>4, <1>7 DEF Redeliver, DeliveryTypes

\* So does giving back the message itself.
LEMMA RetryTypes ==
  ASSUME DeliveryTypes, NEW c \in Consumers, Retry(c)
  PROVE  DeliveryTypes'
  <1>1. waiting \in [Messages -> Nat] /\ Redeliver(c, waiting)
    BY DEF Retry, DeliveryTypes
  <1> QED BY <1>1, RedeliverTypes

\* A new set of messages keeps the type of the queue.
LEMMA QueueWithTypes ==
  ASSUME DeliveryTypes, NEW batch
  PROVE  QueueWith(batch) \in [Messages -> Nat]
  BY DEF QueueWith, DeliveryTypes

\* A consumer that goes on with its message keeps the types.
LEMMA ContinueTypes ==
  ASSUME DeliveryTypes, NEW c \in Consumers, NEW step \in ConsumerSteps,
         pc[c] # "idle", step \in JobSteps => held[c] \in Notifications,
         Continue(c, step)
  PROVE  DeliveryTypes'
  <1>1. pc' = [pc EXCEPT ![c] = step] /\ held' = held
    BY DEF Continue, Proceed
  <1>2. pc' \in [Consumers -> ConsumerSteps]
    BY <1>1 DEF DeliveryTypes
  <1>3. pc'[c] = step /\ \A d \in Consumers : d # c => pc'[d] = pc[d]
    BY <1>1 DEF DeliveryTypes
  <1>4. HeldInv'
    BY <1>1, <1>3 DEF HeldInv, DeliveryTypes
  <1> QED BY <1>1, <1>2, <1>4 DEF Continue, DeliveryTypes, queueVars

\* An acknowledged message is kept until the batch ends.
LEMMA AckTypes ==
  ASSUME DeliveryTypes, NEW c \in Consumers, pc[c] # "idle", Ack(c)
  PROVE  DeliveryTypes'
  <1>1. pc' = [pc EXCEPT ![c] = "acked"] /\ held' = held
    BY DEF Ack, Proceed
  <1>2. pc' \in [Consumers -> ConsumerSteps]
    BY <1>1 DEF DeliveryTypes, ConsumerSteps
  <1>3. pc'[c] = "acked" /\ \A d \in Consumers : d # c => pc'[d] = pc[d]
    BY <1>1 DEF DeliveryTypes
  <1>4. HeldInv'
    BY <1>1, <1>3 DEF HeldInv, DeliveryTypes, JobSteps
  <1>5. page' \in [Consumers -> SUBSET Subscriptions]
    BY DEF Ack, DeliveryTypes
  <1> QED BY <1>1, <1>2, <1>4, <1>5 DEF Ack, DeliveryTypes, queueVars

\* Everything a consumer does keeps the types of the queue and consumers.
LEMMA ConsumerKeepsDelivery ==
  ASSUME TypeInv, NEW c \in Consumers, ConsumerStep(c)
  PROVE  DeliveryTypes'
  <1> USE DEF TypeInv
  <1>h. /\ pc[c] # "idle" => held[c] \in Messages
        /\ pc[c] \in JobSteps => held[c] \in Notifications
    BY DEF DeliveryTypes, HeldInv
  <1>s. JobSteps \subseteq ConsumerSteps /\ "acked" \notin JobSteps /\ "paged" \notin JobSteps
    BY DEF JobSteps, ConsumerSteps
  <1>1. CASE \E m \in Messages : Receive(c, m)
    <2>1. PICK m \in Messages : Receive(c, m)
      BY <1>1
    <2>2. waiting' \in [Messages -> Nat] /\ duplicates' \in 0 .. MaxDuplicates
      BY <2>1, QueueAssumption DEF Receive, DeliveryTypes
    <2>3. pc' = [pc EXCEPT ![c] = "received"] /\ held' = [held EXCEPT ![c] = m]
      BY <2>1 DEF Receive, Proceed
    <2>4. /\ pc' \in [Consumers -> ConsumerSteps]
          /\ held' \in [Consumers -> Messages \cup {NoMessage}]
          /\ page' \in [Consumers -> SUBSET Subscriptions]
      BY <2>1, <2>3 DEF Receive, DeliveryTypes, ConsumerSteps
    <2>5. HeldInv'
      BY <2>3 DEF HeldInv, DeliveryTypes, JobSteps
    <2> QED BY <2>2, <2>4, <2>5 DEF DeliveryTypes
  <1>2. CASE RetryBatch(c) \/ CallFails(c) \/ EvictConsumer(c) \/ MarkFailed(c)
    <2>1. Retry(c)
      BY <1>2 DEF RetryBatch, CallFails, EvictConsumer, MarkFailed
    <2> QED BY <2>1, RetryTypes
  <1>3. CASE ReadPage(c)
    <2>1. CASE Ack(c)
      BY <1>3, <2>1, AckTypes DEF ReadPage
    <2>2. CASE ~ Ack(c)
      <3> DEFINE rows == FirstRows({s \in Pending : s > held[c].after})
      <3>1. rows \subseteq Subscriptions
        BY DEF FirstRows, Pending
      <3> HIDE DEF rows
      <3>2. /\ pc' = [pc EXCEPT ![c] = "paged"] /\ page' = [page EXCEPT ![c] = rows]
            /\ held' = held /\ waiting' = waiting /\ duplicates' = duplicates
            /\ pc[c] = "received"
        BY <1>3, <2>2 DEF ReadPage, Proceed, queueVars, rows
      <3>3. /\ pc' \in [Consumers -> ConsumerSteps]
            /\ page' \in [Consumers -> SUBSET Subscriptions]
        BY <3>1, <3>2 DEF DeliveryTypes, ConsumerSteps
      <3>4. HeldInv'
        BY <3>2 DEF HeldInv, DeliveryTypes, JobSteps
      <3> QED BY <3>2, <3>3, <3>4 DEF DeliveryTypes
    <2> QED BY <2>1, <2>2
  <1>4. CASE SendBatch(c)
    <2> DEFINE queue == QueueWith(BatchOf(page[c]))
    <2>1. queue \in [Messages -> Nat]
      BY QueueWithTypes
    <2> HIDE DEF queue
    <2>2. CASE Redeliver(c, queue)
      BY <2>1, <2>2, RedeliverTypes
    <2>3. CASE ~ Redeliver(c, queue)
      <3>1. /\ waiting' = queue /\ pc' = [pc EXCEPT ![c] = "acked"]
            /\ page' = [page EXCEPT ![c] = {}]
            /\ held' = held /\ duplicates' = duplicates /\ pc[c] = "paged"
        BY <1>4, <2>3 DEF SendBatch, Proceed, queue
      <3>2. /\ pc' \in [Consumers -> ConsumerSteps]
            /\ page' \in [Consumers -> SUBSET Subscriptions]
        BY <3>1 DEF DeliveryTypes, ConsumerSteps
      <3>3. HeldInv'
        BY <3>1 DEF HeldInv, DeliveryTypes, JobSteps
      <3> QED BY <2>1, <3>1, <3>2, <3>3 DEF DeliveryTypes
    <2> QED BY <2>2, <2>3
  <1>5. CASE ReadJob(c)
    <2>1. pc[c] = "received" /\ held[c] \in Notifications
      BY <1>5, <1>h, MessageTypes DEF ReadJob, Processing
    <2>2. Ack(c) \/ Continue(c, "claiming") \/ Continue(c, "skipping")
      BY <1>5 DEF ReadJob
    <2> QED BY <2>1, <2>2, AckTypes, ContinueTypes DEF ConsumerSteps
  <1>6. CASE Skip(c)
    BY <1>6, AckTypes, RetryTypes DEF Skip, Answered
  <1>7. CASE Claim(c) \/ Deliver(c) \/ DeliverFails(c) \/ MarkSent(c) \/ MarkSentFails(c)
    <2>1. pc[c] # "idle" /\ held[c] \in Notifications
      BY <1>7, <1>h DEF Claim, Deliver, DeliverFails, MarkSent, MarkSentFails, JobSteps
    <2>2. \/ Ack(c) \/ Retry(c)
          \/ \E step \in {"claimed", "accepted", "failing"} : Continue(c, step)
      BY <1>7 DEF Claim, Deliver, DeliverFails, MarkSent, MarkSentFails, Answered
    <2>3. {"claimed", "accepted", "failing"} \subseteq ConsumerSteps
      BY DEF ConsumerSteps
    <2> QED BY <2>1, <2>2, <2>3, AckTypes, RetryTypes, ContinueTypes
  <1>8. CASE EndBatch(c)
    <2>1. /\ pc' = [pc EXCEPT ![c] = "idle"] /\ held' = [held EXCEPT ![c] = NoMessage]
          /\ page' = page /\ waiting' = waiting /\ duplicates' = duplicates
      BY <1>8 DEF EndBatch, Proceed, queueVars
    <2>2. /\ pc' \in [Consumers -> ConsumerSteps]
          /\ held' \in [Consumers -> Messages \cup {NoMessage}]
      BY <2>1 DEF DeliveryTypes, ConsumerSteps
    <2>3. HeldInv'
      BY <2>1 DEF HeldInv, DeliveryTypes, JobSteps
    <2> QED BY <2>1, <2>2, <2>3 DEF DeliveryTypes
  <1> QED BY <1>1, <1>2, <1>3, <1>4, <1>5, <1>6, <1>7, <1>8 DEF ConsumerStep, Work

\* The row a consumer works on, and the attempt it works for.
LEMMA JobTypes ==
  ASSUME DeliveryTypes, NEW c \in Consumers, pc[c] \in JobSteps
  PROVE  Delivery(c) \in Subscriptions /\ Attempt(c) \in Attempts
  BY MessageTypes DEF DeliveryTypes, HeldInv, Delivery, Attempt

\* Everything a consumer does keeps the types of the rows.
LEMMA ConsumerKeepsLedger ==
  ASSUME TypeInv, NEW c \in Consumers, ConsumerStep(c)
  PROVE  LedgerTypes'
  <1> USE DEF TypeInv
  <1>s. {"skipped", "queued", "sent", "failed"} \subseteq Statuses
    BY DEF Statuses
  <1>1. CASE Skip(c) \/ MarkSent(c) \/ MarkFailed(c)
    <2>1. pc[c] \in JobSteps
      BY <1>1 DEF Skip, MarkSent, MarkFailed, JobSteps
    <2>2. Delivery(c) \in Subscriptions
      BY <2>1, JobTypes
    <2>3. PICK new \in {"skipped", "sent", "failed", status[Delivery(c)]} :
            status' = [status EXCEPT ![Delivery(c)] = new]
      BY <1>1 DEF Skip, MarkSent, MarkFailed
    <2>4. status' \in [Subscriptions -> Statuses]
      BY <2>2, <2>3, <1>s DEF LedgerTypes
    <2> QED BY <1>1, <2>4 DEF LedgerTypes, Skip, MarkSent, MarkFailed, readerVars
  <1>2. CASE Claim(c)
    <2>1. CASE Claimable(c)
      <3>1. Delivery(c) \in Subscriptions /\ Attempt(c) \in Attempts
        BY <1>2, JobTypes DEF Claim, JobSteps
      <3>2. /\ status' = [status EXCEPT ![Delivery(c)] = "queued"]
            /\ attempts' = [attempts EXCEPT ![Delivery(c)] = Attempt(c)]
        BY <1>2, <2>1 DEF Claim
      <3>3. status' \in [Subscriptions -> Statuses]
        BY <3>1, <3>2, <1>s DEF LedgerTypes
      <3>4. attempts' \in [Subscriptions -> 0 .. MaxAttempts]
        BY <3>1, <3>2, QueueAssumption DEF LedgerTypes, Attempts
      <3> QED BY <1>2, <3>3, <3>4 DEF Claim, LedgerTypes, readerVars
    <2>2. CASE ~ Claimable(c)
      BY <1>2, <2>2 DEF Claim, LedgerTypes, readerVars
    <2> QED BY <2>1, <2>2
  <1>3. CASE Deliver(c)
    <2>1. Delivery(c) \in Subscriptions /\ Attempt(c) \in Attempts
      BY <1>3, JobTypes DEF Deliver, JobSteps
    <2>2. mails[Delivery(c)] \in [Attempts -> Nat]
      BY <2>1 DEF LedgerTypes
    <2>3. mails[Delivery(c)][Attempt(c)] + 1 \in Nat
      BY <2>1, <2>2
    <2>4. [mails[Delivery(c)] EXCEPT ![Attempt(c)] = @ + 1] \in [Attempts -> Nat]
      BY <2>2, <2>3, Zenon
    <2>5. mails' = [mails EXCEPT ![Delivery(c)] =
                      [mails[Delivery(c)] EXCEPT ![Attempt(c)] = @ + 1]]
      BY <1>3 DEF Deliver
    <2>6. mails' \in [Subscriptions -> [Attempts -> Nat]]
      BY <2>4, <2>5, Zenon DEF LedgerTypes
    <2> QED BY <1>3, <2>6 DEF Deliver, LedgerTypes, ledgerVars
  <1>4. CASE UNCHANGED <<ledgerVars, request, mails>>
    BY <1>4 DEF LedgerTypes, ledgerVars
  <1>5. \/ Skip(c) \/ MarkSent(c) \/ MarkFailed(c) \/ Claim(c) \/ Deliver(c)
        \/ UNCHANGED <<ledgerVars, request, mails>>
    BY DEF ConsumerStep, Work, Receive, ReadPage, SendBatch, ReadJob, DeliverFails,
           MarkSentFails, EndBatch, RetryBatch, CallFails, EvictConsumer
  <1> QED BY <1>1, <1>2, <1>3, <1>4, <1>5

LEMMA TypesHold == Spec => []TypeInv
  <1>1. Init => TypeInv
    BY QueueAssumption
    DEF Init, TypeInv, DeliveryTypes, LedgerTypes, HeldInv, JobSteps, ConsumerSteps,
        RequestSteps, Statuses
  <1>2. TypeInv /\ [Next]_vars => TypeInv'
    <2> SUFFICES ASSUME TypeInv, [Next]_vars PROVE TypeInv'
      OBVIOUS
    <2> USE DEF TypeInv
    <2>1. ASSUME NEW c \in Consumers, ConsumerStep(c) PROVE TypeInv'
      BY <2>1, ConsumerKeepsDelivery, ConsumerKeepsLedger
    <2>2. CASE SubscriberStep
      <3>1. UNCHANGED <<attempts, request, queueVars, consumerVars, mails>>
        BY <2>2 DEF SubscriberStep, Subscribe, Unsubscribe, DeleteSubscription,
                    UpdateNewsletter
      <3>2. changes' \in 0 .. MaxChanges
        BY <2>2, QueueAssumption
        DEF SubscriberStep, Subscribe, Unsubscribe, DeleteSubscription,
            UpdateNewsletter, Change, LedgerTypes
      <3>3. /\ reader' \in [Subscriptions -> {"subscribed", "unsubscribed", "deleted"}]
            /\ active' \in BOOLEAN
            /\ status' \in [Subscriptions -> Statuses]
        BY <2>2 DEF SubscriberStep, Subscribe, Unsubscribe, DeleteSubscription,
                    UpdateNewsletter, LedgerTypes, Statuses
      <3> QED BY <3>1, <3>2, <3>3
          DEF DeliveryTypes, LedgerTypes, HeldInv, queueVars, consumerVars
    <2>3. ASSUME NEW r \in Requests, Notify(r) \/ RequestFails(r) PROVE TypeInv'
      <3>1. PICK step \in RequestSteps : request' = [request EXCEPT ![r] = step]
        BY <2>3 DEF Notify, FindNewsletter, Materialize, CountPending, SendDispatch,
                    RequestFails, ProceedRequest, RequestSteps
      <3>2. request' \in [Requests -> RequestSteps]
        BY <3>1 DEF LedgerTypes
      <3>3. status' \in [Subscriptions -> Statuses]
        BY <2>3 DEF Notify, FindNewsletter, Materialize, CountPending, SendDispatch,
                    RequestFails, LedgerTypes, ledgerVars, Statuses
      <3>4. UNCHANGED <<readerVars, attempts, duplicates, consumerVars, mails>>
        BY <2>3 DEF Notify, FindNewsletter, Materialize, CountPending, SendDispatch,
                    RequestFails, ledgerVars, queueVars, readerVars
      <3>5. waiting' \in [Messages -> Nat]
        <4>1. waiting' = waiting \/ waiting' = QueueWith({Dispatch(Start)})
          BY <2>3 DEF Notify, FindNewsletter, Materialize, CountPending, SendDispatch,
                      RequestFails, queueVars
        <4>2. waiting \in [Messages -> Nat]
          BY DEF DeliveryTypes
        <4>3. QueueWith({Dispatch(Start)}) \in [Messages -> Nat]
          BY QueueWithTypes
        <4> QED BY <4>1, <4>2, <4>3
      <3> QED BY <3>2, <3>3, <3>4, <3>5
          DEF DeliveryTypes, LedgerTypes, HeldInv, consumerVars, readerVars
    <2>4. CASE UNCHANGED vars
      BY <2>4 DEF vars, DeliveryTypes, LedgerTypes, HeldInv
    <2> QED BY <2>1, <2>2, <2>3, <2>4 DEF Next
  <1> QED BY <1>1, <1>2, PTL DEF Spec

\* Every reachable state has the types of the tables, the queue and the
\* consumers: no job works on a row or an attempt that does not exist.
THEOREM TypeCorrect == Spec => []TypeOK
  <1>1. TypeInv => TypeOK
    BY TypeInvSplits
  <1> QED BY <1>1, TypesHold, PTL

-----------------------------------------------------------------------------
(* One mail per attempt *)

\* Who has claimed an attempt owns it alone, and has not sent its mail yet.
ClaimInv ==
  /\ \A c \in Consumers :
       pc[c] = "claimed" =>
         /\ Attempt(c) <= attempts[Delivery(c)]
         /\ mails[Delivery(c)][Attempt(c)] = 0
  /\ \A c, d \in Consumers :
       pc[c] = "claimed" /\ pc[d] = "claimed" /\ Delivery(c) = Delivery(d)
       /\ Attempt(c) = Attempt(d) => c = d

\* Only attempts that were claimed have been mailed.
MailInv ==
  \A s \in Subscriptions, n \in Attempts :
    mails[s][n] <= 1 /\ (mails[s][n] > 0 => n <= attempts[s])

SentInv ==
  /\ \A c \in Consumers : pc[c] = "accepted" => mails[Delivery(c)][Attempt(c)] > 0
  /\ SentIsTruthful

AttemptInv == ClaimInv /\ MailInv /\ SentInv

\* A consumer leaves the others alone.
LEMMA OthersKeep ==
  ASSUME TypeInv, NEW c \in Consumers, ConsumerStep(c),
         NEW d \in Consumers, d # c
  PROVE  pc'[d] = pc[d] /\ held'[d] = held[d] /\ page'[d] = page[d]
  <1>1. \E step \in ConsumerSteps : pc' = [pc EXCEPT ![c] = step]
    BY DEF ConsumerStep, Work, Receive, ReadPage, SendBatch, ReadJob, Skip, Claim,
           Deliver, DeliverFails, MarkSent, MarkSentFails, MarkFailed, EndBatch,
           RetryBatch, CallFails, EvictConsumer, Answered, Ack, Retry, Redeliver,
           Continue, Proceed, ConsumerSteps
  <1>2. held' = held \/ \E m : held' = [held EXCEPT ![c] = m]
    BY DEF ConsumerStep, Work, Receive, ReadPage, SendBatch, ReadJob, Skip, Claim,
           Deliver, DeliverFails, MarkSent, MarkSentFails, MarkFailed, EndBatch,
           RetryBatch, CallFails, EvictConsumer, Answered, Ack, Retry, Redeliver,
           Continue
  <1>3. page' = page \/ \E rows : page' = [page EXCEPT ![c] = rows]
    BY DEF ConsumerStep, Work, Receive, ReadPage, SendBatch, ReadJob, Skip, Claim,
           Deliver, DeliverFails, MarkSent, MarkSentFails, MarkFailed, EndBatch,
           RetryBatch, CallFails, EvictConsumer, Answered, Ack, Retry, Redeliver,
           Continue
  <1> QED BY <1>1, <1>2, <1>3 DEF TypeInv, DeliveryTypes

\* Steps that neither claim an attempt nor mail: no consumer newly owns or
\* has mailed an attempt.
Uneventful(c) ==
  /\ UNCHANGED <<attempts, mails>>
  /\ pc'[c] \notin {"claimed", "accepted"}

LEMMA ConsumerCases ==
  ASSUME TypeInv, NEW c \in Consumers, ConsumerStep(c)
  PROVE  \/ Claim(c) /\ Claimable(c)
         \/ Deliver(c)
         \/ Uneventful(c)
  <1>1. ASSUME \E step \in {"idle", "received", "paged", "skipping", "claiming",
                            "failing", "acked"} : pc' = [pc EXCEPT ![c] = step],
               UNCHANGED <<attempts, mails>>
        PROVE  Uneventful(c)
    BY <1>1 DEF Uneventful, TypeInv, DeliveryTypes
  <1>2. ASSUME Claim(c), ~ Claimable(c) PROVE Uneventful(c)
    BY <1>1, <1>2 DEF Claim, Ack, Proceed
  <1>3. ASSUME \/ \E m \in Messages : Receive(c, m)
               \/ RetryBatch(c) \/ CallFails(c) \/ EvictConsumer(c)
        PROVE  Uneventful(c)
    BY <1>1, <1>3 DEF Receive, RetryBatch, CallFails, EvictConsumer, Retry, Redeliver,
                      Proceed, ledgerVars
  <1>4. ASSUME ReadPage(c) \/ SendBatch(c) \/ ReadJob(c) \/ EndBatch(c)
        PROVE  Uneventful(c)
    BY <1>1, <1>4 DEF ReadPage, SendBatch, ReadJob, EndBatch, Ack, Continue, Redeliver,
                      Proceed, ledgerVars
  <1>5. ASSUME Skip(c) \/ DeliverFails(c) \/ MarkSent(c) \/ MarkSentFails(c) \/ MarkFailed(c)
        PROVE  Uneventful(c)
    BY <1>1, <1>5 DEF Skip, DeliverFails, MarkSent, MarkSentFails, MarkFailed, Answered,
                      Ack, Continue, Retry, Redeliver, Proceed, ledgerVars
  <1> QED BY <1>2, <1>3, <1>4, <1>5 DEF ConsumerStep, Work

\* Only MarkSent records a delivery as sent, and only for its own attempt.
LEMMA SentByOwner ==
  ASSUME TypeInv, NEW c \in Consumers, ConsumerStep(c),
         NEW s \in Subscriptions, status'[s] = "sent"
  PROVE  \/ status[s] = "sent"
         \/ pc[c] = "accepted" /\ s = Delivery(c) /\ OwnsAttempt(c)
  <1>1. CASE UNCHANGED status
    BY <1>1
  <1>2. CASE Skip(c) \/ MarkFailed(c) \/ Claim(c)
    <2>1. PICK new \in {"skipped", "failed", "queued", status[Delivery(c)]} :
            status' = [status EXCEPT ![Delivery(c)] = new] \/ UNCHANGED status
      BY <1>2 DEF Skip, MarkFailed, Claim
    <2> QED BY <2>1 DEF TypeInv, LedgerTypes
  <1>3. CASE MarkSent(c)
    BY <1>3 DEF MarkSent, TypeInv, LedgerTypes
  <1> QED BY <1>1, <1>2, <1>3
      DEF ConsumerStep, Work, Receive, ReadPage, SendBatch, ReadJob, Deliver,
          DeliverFails, MarkSentFails, EndBatch, RetryBatch, CallFails, EvictConsumer,
          ledgerVars

\* What is settled keeps its attempt count.
LEMMA ClaimNeedsUnsettled ==
  ASSUME TypeInv, NEW c \in Consumers, ConsumerStep(c),
         NEW s \in Subscriptions, ~ Unsettled(s)
  PROVE  attempts'[s] = attempts[s]
  <1>1. CASE Claim(c) /\ Claimable(c)
    <2>1. s # Delivery(c)
      BY <1>1 DEF Claimable
    <2> QED BY <1>1, <2>1 DEF Claim, TypeInv, LedgerTypes
  <1>2. CASE Deliver(c) \/ Uneventful(c)
    BY <1>2 DEF Deliver, Uneventful, ledgerVars
  <1> QED BY <1>1, <1>2, ConsumerCases

LEMMA ConsumerKeepsAttempts ==
  ASSUME TypeInv, AttemptInv, NEW c \in Consumers, ConsumerStep(c)
  PROVE  AttemptInv'
  <1> USE DEF AttemptInv
  <1>o. \A d \in Consumers : d # c =>
          pc'[d] = pc[d] /\ Delivery(d)' = Delivery(d) /\ Attempt(d)' = Attempt(d)
    BY OthersKeep DEF Delivery, Attempt
  <1>t. \A d \in Consumers : pc[d] \in JobSteps =>
          Delivery(d) \in Subscriptions /\ Attempt(d) \in Attempts
    BY JobTypes DEF TypeInv
  <1>n. Attempts \subseteq Nat /\ \A s \in Subscriptions : attempts[s] \in Nat
    BY QueueAssumption DEF Attempts, TypeInv, LedgerTypes
  <1>m. \A s \in Subscriptions, n \in Attempts : mails[s][n] \in Nat
    BY DEF TypeInv, LedgerTypes
  <1>s. \A s \in Subscriptions : status'[s] = "sent" =>
          \/ status[s] = "sent"
          \/ pc[c] = "accepted" /\ s = Delivery(c) /\ OwnsAttempt(c)
    BY SentByOwner
  <1>u. \A s \in Subscriptions : ~ Unsettled(s) => attempts'[s] = attempts[s]
    BY ClaimNeedsUnsettled
  <1>1. CASE Claim(c) /\ Claimable(c)
    <2>a. PICK d \in Subscriptions : d = Delivery(c)
      BY <1>1, <1>t DEF Claim, JobSteps
    <2>b. PICK n \in Attempts : n = Attempt(c)
      BY <1>1, <1>t DEF Claim, JobSteps
    <2>1. d = Delivery(c) /\ n = Attempt(c) /\ pc[c] = "claiming"
      BY <1>1, <2>a, <2>b DEF Claim
    <2>e. attempts \in [Subscriptions -> 0 .. MaxAttempts]
      BY DEF TypeInv, LedgerTypes
    <2>2. attempts' = [attempts EXCEPT ![d] = n] /\ attempts[d] < n /\ mails' = mails
      BY <1>1, <2>1 DEF Claim, Claimable
    <2>3. attempts'[d] = n /\ \A s \in Subscriptions : attempts[s] <= attempts'[s]
      BY <2>2, <2>e, <1>n
    <2>4. /\ pc'[c] # "accepted"
          /\ pc'[c] = "claimed" => Delivery(c)' = d /\ Attempt(c)' = n
      BY <1>1, <2>1 DEF Claim, Answered, Continue, Retry, Redeliver, Proceed, Delivery, Attempt,
                  TypeInv, DeliveryTypes
    <2>5. mails[d][n] = 0
      BY <2>1, <2>2, <1>n, <1>m DEF MailInv
    <2>6. \A e \in Consumers : e # c /\ pc[e] = "claimed" =>
            ~ (Delivery(e) = d /\ Attempt(e) = n)
      BY <2>1, <2>2, <1>n DEF ClaimInv
    <2>7. ClaimInv'
      <3>1. ASSUME NEW e \in Consumers, pc'[e] = "claimed"
            PROVE  /\ Attempt(e)' <= attempts'[Delivery(e)']
                   /\ mails'[Delivery(e)'][Attempt(e)'] = 0
        <4>1. CASE e = c
          BY <3>1, <4>1, <2>1, <2>2, <2>3, <2>4, <2>5, <1>n
        <4>2. CASE e # c
          <5>1. /\ pc[e] = "claimed" /\ Delivery(e)' = Delivery(e)
                /\ Attempt(e)' = Attempt(e)
            BY <3>1, <4>2, <1>o
          <5>2. /\ Delivery(e) \in Subscriptions /\ Attempt(e) \in Attempts
                /\ Attempt(e) <= attempts[Delivery(e)] /\ mails[Delivery(e)][Attempt(e)] = 0
            BY <5>1, <1>t DEF JobSteps, ClaimInv
          <5>3. attempts'[Delivery(e)] \in Nat
            BY <5>2, <2>2, <2>e, <1>n
          <5> QED BY <5>1, <5>2, <5>3, <2>2, <2>3, <1>n
        <4> QED BY <4>1, <4>2
      <3>2. ASSUME NEW e \in Consumers, NEW f \in Consumers,
                   pc'[e] = "claimed", pc'[f] = "claimed",
                   Delivery(e)' = Delivery(f)', Attempt(e)' = Attempt(f)'
            PROVE  e = f
        BY <3>2, <1>o, <2>4, <2>6 DEF ClaimInv
      <3> QED BY <3>1, <3>2 DEF ClaimInv
    <2>8. MailInv'
      <3> SUFFICES ASSUME NEW s \in Subscriptions, NEW k \in Attempts
                   PROVE  mails'[s][k] <= 1 /\ (mails'[s][k] > 0 => k <= attempts'[s])
        BY DEF MailInv
      <3>1. mails[s][k] <= 1 /\ (mails[s][k] > 0 => k <= attempts[s])
        BY DEF MailInv
      <3>2. attempts'[s] \in Nat
        BY <2>2, <2>e, <1>n
      <3> QED BY <3>1, <3>2, <2>2, <2>3, <1>n
    <2>9. SentInv'
      <3>1. \A s \in Subscriptions : status'[s] = "sent" =>
              status[s] = "sent" /\ attempts'[s] = attempts[s]
        BY <1>s, <1>u, <2>1 DEF Unsettled
      <3> QED BY <3>1, <2>2, <2>4, <1>o DEF SentInv, SentIsTruthful
    <2> QED BY <2>7, <2>8, <2>9
  <1>2. CASE Deliver(c)
    <2>a. PICK d \in Subscriptions : d = Delivery(c)
      BY <1>2, <1>t DEF Deliver, JobSteps
    <2>b. PICK n \in Attempts : n = Attempt(c)
      BY <1>2, <1>t DEF Deliver, JobSteps
    <2>1. d = Delivery(c) /\ n = Attempt(c) /\ pc[c] = "claimed"
      BY <1>2, <2>a, <2>b DEF Deliver
    <2>2. mails' = [mails EXCEPT ![d][n] = @ + 1] /\ attempts' = attempts /\ status' = status
      BY <1>2, <2>1 DEF Deliver, ledgerVars
    <2>3. mails[d][n] = 0 /\ n <= attempts[d]
      BY <2>1 DEF ClaimInv
    <2>4. /\ mails'[d][n] = 1
          /\ \A s \in Subscriptions, k \in Attempts :
               ~ (s = d /\ k = n) => mails'[s][k] = mails[s][k]
      BY <2>1, <2>2, <2>3 DEF TypeInv, LedgerTypes
    <2>5. pc'[c] # "claimed" /\ Delivery(c)' = d /\ Attempt(c)' = n
      BY <1>2, <2>1 DEF Deliver, Continue, Proceed, Delivery, Attempt, TypeInv, DeliveryTypes
    <2>6. \A e \in Consumers : e # c /\ pc[e] = "claimed" =>
            ~ (Delivery(e) = d /\ Attempt(e) = n)
      BY <2>1 DEF ClaimInv
    <2>7. ClaimInv'
      BY <2>2, <2>4, <2>5, <2>6, <1>o, <1>t DEF ClaimInv, JobSteps
    <2>8. MailInv'
      BY <2>2, <2>3, <2>4 DEF MailInv
    <2>9. SentInv'
      <3>1. \A s \in Subscriptions, k \in Attempts : mails[s][k] > 0 => mails'[s][k] > 0
        BY <2>4
      <3>2. \A e \in Consumers : pc'[e] = "accepted" =>
              mails'[Delivery(e)'][Attempt(e)'] > 0
        BY <3>1, <2>4, <2>5, <1>o, <1>t DEF SentInv, JobSteps
      <3> QED BY <3>1, <3>2, <2>2 DEF SentInv, SentIsTruthful
    <2> QED BY <2>7, <2>8, <2>9
  <1>3. CASE Uneventful(c)
    <2>1. attempts' = attempts /\ mails' = mails /\ pc'[c] \notin {"claimed", "accepted"}
      BY <1>3 DEF Uneventful
    <2>2. ClaimInv' /\ MailInv'
      BY <2>1, <1>o DEF ClaimInv, MailInv
    <2>3. \A e \in Consumers : pc'[e] = "accepted" =>
            mails'[Delivery(e)'][Attempt(e)'] > 0
      BY <2>1, <1>o DEF SentInv
    <2>4. ASSUME NEW s \in Subscriptions, status'[s] = "sent"
          PROVE  attempts'[s] \in Attempts /\ mails'[s][attempts'[s]] > 0
      <3>1. CASE status[s] = "sent"
        BY <3>1, <2>1 DEF SentInv, SentIsTruthful
      <3>2. CASE pc[c] = "accepted" /\ s = Delivery(c) /\ OwnsAttempt(c)
        BY <3>2, <2>1, <1>t DEF SentInv, OwnsAttempt, JobSteps
      <3> QED BY <2>4, <3>1, <3>2, <1>s
    <2> QED BY <2>2, <2>3, <2>4 DEF SentInv, SentIsTruthful
  <1> QED BY <1>1, <1>2, <1>3, ConsumerCases

\* Subscribers and requests mail nothing and settle nothing.
LEMMA OthersKeepAttempts ==
  ASSUME TypeInv,
         \/ SubscriberStep
         \/ \E r \in Requests : Notify(r) \/ RequestFails(r)
         \/ UNCHANGED vars
  PROVE  /\ UNCHANGED <<attempts, mails, consumerVars>>
         /\ \A s \in Subscriptions :
              /\ status'[s] = "sent" => status[s] = "sent"
              /\ status[s] \in {"sent", "skipped"} => status'[s] \in {status[s], "deleted"}
  <1>1. CASE SubscriberStep
    BY <1>1 DEF SubscriberStep, Subscribe, Unsubscribe, DeleteSubscription,
                UpdateNewsletter, TypeInv, LedgerTypes
  <1>2. CASE \E r \in Requests : Notify(r) \/ RequestFails(r)
    BY <1>2 DEF Notify, FindNewsletter, Materialize, CountPending, SendDispatch,
                RequestFails, ledgerVars, TypeInv, LedgerTypes
  <1>3. CASE UNCHANGED vars
    BY <1>3 DEF vars, consumerVars
  <1> QED BY <1>1, <1>2, <1>3

LEMMA AttemptsHold == Spec => []AttemptInv
  <1>1. Init => AttemptInv
    BY DEF Init, AttemptInv, ClaimInv, MailInv, SentInv, SentIsTruthful
  <1>2. TypeInv /\ AttemptInv /\ [Next]_vars => AttemptInv'
    <2> SUFFICES ASSUME TypeInv, AttemptInv, [Next]_vars PROVE AttemptInv'
      OBVIOUS
    <2>1. CASE \E c \in Consumers : ConsumerStep(c)
      BY <2>1, ConsumerKeepsAttempts
    <2>2. CASE ~ \E c \in Consumers : ConsumerStep(c)
      BY <2>2, OthersKeepAttempts
      DEF Next, AttemptInv, ClaimInv, MailInv, SentInv, SentIsTruthful, consumerVars,
          Delivery, Attempt
    <2> QED BY <2>1, <2>2
  <1> QED BY <1>1, <1>2, TypesHold, PTL DEF Spec

\* The provider is called at most once for an attempt of a delivery: the
\* claim, and nothing else, decides which copy of a job may call it.
THEOREM AttemptIsMailedOnce == Spec => []MailedOncePerAttempt
  <1>1. AttemptInv => MailedOncePerAttempt
    BY DEF AttemptInv, MailInv, MailedOncePerAttempt
  <1> QED BY <1>1, AttemptsHold, PTL

\* A row that says sent stands for a mail that was accepted in the attempt
\* it shows, although any other attempt may still be under way.
THEOREM SentIsTrue == Spec => []SentIsTruthful
  <1>1. AttemptInv => SentIsTruthful
    BY DEF AttemptInv, SentInv
  <1> QED BY <1>1, AttemptsHold, PTL

-----------------------------------------------------------------------------
(* What a step may never do *)

\* No consumer touches the status of a row that is not queued or failed.
LEMMA ConsumerKeepsSettled ==
  ASSUME TypeInv, NEW c \in Consumers, ConsumerStep(c),
         NEW s \in Subscriptions, ~ Unsettled(s)
  PROVE  status'[s] = status[s]
  <1>1. CASE UNCHANGED status
    BY <1>1
  <1>2. CASE Skip(c) \/ MarkFailed(c) \/ Claim(c) \/ MarkSent(c)
    <2>1. CASE s = Delivery(c)
      BY <1>2, <2>1 DEF Skip, MarkFailed, Claim, Claimable, MarkSent, OwnsAttempt,
                        Unsettled, TypeInv, LedgerTypes
    <2>2. CASE s # Delivery(c)
      BY <1>2, <2>2 DEF Skip, MarkFailed, Claim, MarkSent, TypeInv, LedgerTypes
    <2> QED BY <2>1, <2>2
  <1> QED BY <1>1, <1>2
      DEF ConsumerStep, Work, Receive, ReadPage, SendBatch, ReadJob, Deliver,
          DeliverFails, MarkSentFails, EndBatch, RetryBatch, CallFails, EvictConsumer,
          ledgerVars

\* What was sent or skipped stays so, whichever copy of its job comes late.
THEOREM SettledStaysSettled == Spec => SettledIsFinal
  <1> DEFINE Kept ==
        \A s \in Subscriptions :
          status[s] \in {"sent", "skipped"} =>
            status'[s] \in {status[s], "deleted"} /\ attempts'[s] = attempts[s]
  <1>1. TypeInv /\ [Next]_vars => Kept
    <2> SUFFICES ASSUME TypeInv, [Next]_vars PROVE Kept
      OBVIOUS
    <2>1. ASSUME NEW c \in Consumers, ConsumerStep(c) PROVE Kept
      BY <2>1, ConsumerKeepsSettled, ClaimNeedsUnsettled DEF Unsettled
    <2>2. CASE ~ \E c \in Consumers : ConsumerStep(c)
      BY <2>2, OthersKeepAttempts DEF Next
    <2> QED BY <2>1, <2>2
  <1>2. TypeInv /\ [Next]_vars => [Kept]_vars
    BY <1>1
  <1> QED BY <1>2, TypesHold, PTL DEF Spec, SettledIsFinal

\* A job that is under way was so before, or has just read its row and found
\* the reader subscribed.
LEMMA InFlightByRead ==
  ASSUME TypeInv, NEW c \in Consumers, ConsumerStep(c),
         pc'[c] \in {"claiming", "claimed", "accepted"}
  PROVE  /\ held'[c] = held[c]
         /\ \/ pc[c] \in {"claiming", "claimed", "accepted"}
            \/ Processing(c) /\ Deliverable(Delivery(c))
  <1> USE DEF TypeInv, DeliveryTypes
  <1>1. CASE \E m \in Messages : Receive(c, m)
    BY <1>1 DEF Receive, Proceed
  <1>2. CASE RetryBatch(c) \/ CallFails(c) \/ EvictConsumer(c) \/ MarkFailed(c) \/ EndBatch(c)
    BY <1>2 DEF RetryBatch, CallFails, EvictConsumer, MarkFailed, EndBatch, Retry,
                Redeliver, Proceed
  <1>3. CASE ReadPage(c) \/ SendBatch(c) \/ Skip(c)
    BY <1>3 DEF ReadPage, SendBatch, Skip, Answered, Ack, Retry, Redeliver, Proceed
  <1>4. CASE ReadJob(c)
    BY <1>4 DEF ReadJob, Ack, Continue, Proceed
  <1>5. CASE Claim(c) \/ Deliver(c) \/ DeliverFails(c) \/ MarkSent(c) \/ MarkSentFails(c)
    BY <1>5 DEF Claim, Deliver, DeliverFails, MarkSent, MarkSentFails, Answered, Ack,
                Continue, Retry, Redeliver, Proceed
  <1> QED BY <1>1, <1>2, <1>3, <1>4, <1>5 DEF ConsumerStep, Work

\* After an opt-out no further job begins to mail the reader, however many
\* copies of it still wait in the queue.
THEOREM OptOutHolds == Spec => OptOutIsRespected
  <1> DEFINE Respected ==
        \A s \in Subscriptions : ~ Deliverable(s) /\ ~ InFlight(s) => ~ InFlight(s)'
  <1>1. TypeInv /\ [Next]_vars => Respected
    <2> SUFFICES ASSUME TypeInv, [Next]_vars, NEW s \in Subscriptions,
                        ~ Deliverable(s), ~ InFlight(s), InFlight(s)'
                 PROVE  FALSE
      OBVIOUS
    <2>1. PICK d \in Consumers :
            /\ pc'[d] \in {"claiming", "claimed", "accepted"}
            /\ Processing(d)' /\ Delivery(d)' = s
      BY DEF InFlight
    <2>2. ASSUME NEW c \in Consumers, ConsumerStep(c) PROVE FALSE
      <3>1. CASE c = d
        BY <2>1, <2>2, <3>1, InFlightByRead DEF InFlight, Processing, Delivery
      <3>2. CASE c # d
        BY <2>1, <2>2, <3>2, OthersKeep DEF InFlight, Processing, Delivery
      <3> QED BY <3>1, <3>2
    <2>3. CASE ~ \E c \in Consumers : ConsumerStep(c)
      BY <2>1, <2>3, OthersKeepAttempts DEF Next, InFlight, Processing, Delivery, consumerVars
    <2> QED BY <2>2, <2>3
  <1>2. TypeInv /\ [Next]_vars => [Respected]_vars
    BY <1>1
  <1> QED BY <1>2, TypesHold, PTL DEF Spec, OptOutIsRespected

-----------------------------------------------------------------------------
(* No recipient is forgotten *)

\* How many rows of S a page that ends with s would hold.
Rank(S, s) == Cardinality({t \in S : t <= s})

\* The ranks of a finite set of rows are 1 .. Cardinality(S), in order.
LEMMA RanksInOrder ==
  ASSUME NEW S \in SUBSET Nat, IsFiniteSet(S)
  PROVE  /\ \A s \in S : Rank(S, s) \in 1 .. Cardinality(S)
         /\ \A s, t \in S : s < t <=> Rank(S, s) < Rank(S, t)
         /\ \A k \in 1 .. Cardinality(S) : \E s \in S : Rank(S, s) = k
  <1> DEFINE Upto(s) == {t \in S : t <= s}
  <1>n. Cardinality(S) \in Nat /\ 1 .. Cardinality(S) \subseteq Nat
    BY FS_CardinalityType
  <1>1. \A s \in S : Rank(S, s) \in 1 .. Cardinality(S) /\ IsFiniteSet(Upto(s))
    <2> TAKE s \in S
    <2>1. Upto(s) \in SUBSET S /\ s \in Upto(s)
      OBVIOUS
    <2> HIDE DEF Upto
    <2>2. /\ IsFiniteSet(Upto(s)) /\ Cardinality(Upto(s)) <= Cardinality(S)
          /\ Cardinality(Upto(s)) \in Nat /\ Cardinality(Upto(s)) # 0
      BY <2>1, FS_Subset, FS_CardinalityType, FS_EmptySet
    <2>3. Rank(S, s) = Cardinality(Upto(s))
      BY DEF Rank, Upto
    <2> QED BY <1>n, <2>2, <2>3
  <1>2. ASSUME NEW s \in S, NEW t \in S, s < t PROVE Rank(S, s) < Rank(S, t)
    <2>0. s \in Nat /\ t \in Nat
      OBVIOUS
    <2>1. Upto(s) \in SUBSET Upto(t) /\ t \in Upto(t) /\ t \notin Upto(s)
      <3>1. t <= t /\ ~ (t <= s) /\ \A u \in Nat : u <= s => u <= t
        BY <1>2, <2>0
      <3> QED BY <3>1
    <2>2. Rank(S, s) = Cardinality(Upto(s)) /\ Rank(S, t) = Cardinality(Upto(t))
      BY DEF Rank
    <2> HIDE DEF Upto
    <2>3. /\ Cardinality(Upto(s)) <= Cardinality(Upto(t))
          /\ Cardinality(Upto(s)) # Cardinality(Upto(t))
      BY <1>1, <2>1, FS_Subset
    <2> QED BY <1>1, <1>n, <2>2, <2>3
  <1>3. \A s, t \in S : s < t <=> Rank(S, s) < Rank(S, t)
    <2> TAKE s, t \in S
    <2>1. s \in Nat /\ t \in Nat /\ Rank(S, s) \in Nat /\ Rank(S, t) \in Nat
      <3> HIDE DEF Upto
      <3> QED BY <1>1, <1>n
    <2>2. s < t \/ t < s \/ s = t
      BY <2>1
    <2> QED BY <1>2, <2>1, <2>2
  <1>4. \A k \in 1 .. Cardinality(S) : \E s \in S : Rank(S, s) = k
    <2> DEFINE rank == [s \in S |-> Rank(S, s)]
    <2>1. rank \in [S -> 1 .. Cardinality(S)]
      BY <1>1
    <2>2. ASSUME NEW s \in S, NEW t \in S, rank[s] = rank[t] PROVE s = t
      <3>1. s \in Nat /\ t \in Nat /\ Rank(S, s) \in Nat /\ Rank(S, t) \in Nat
        <4> HIDE DEF Upto
        <4> QED BY <1>1, <1>n
      <3>2. Rank(S, s) = Rank(S, t)
        BY <2>2
      <3> QED BY <1>2, <3>1, <3>2
    <2>3. rank \in Injection(S, 1 .. Cardinality(S))
      BY <2>1, <2>2 DEF Injection, IsInjective
    <2>4. /\ IsFiniteSet(1 .. Cardinality(S))
          /\ Cardinality(1 .. Cardinality(S)) = Cardinality(S)
      BY <1>n, FS_Interval
    <2> HIDE DEF rank
    <2>5. rank \in Surjection(S, 1 .. Cardinality(S))
      BY <2>3, <2>4, FS_Injection
    <2>6. \A k \in 1 .. Cardinality(S) : \E s \in S : rank[s] = k
      BY <2>5 DEF Surjection
    <2> QED BY <2>6 DEF rank
  <1> QED BY <1>1, <1>3, <1>4

\* A non-empty page has a last row.
LEMMA GreatestIsGreatest ==
  ASSUME NEW S \in SUBSET Nat, IsFiniteSet(S), S # {}
  PROVE  Greatest(S) \in S /\ \A t \in S : t <= Greatest(S)
  <1>1. Cardinality(S) \in Nat /\ Cardinality(S) # 0
    BY FS_CardinalityType, FS_EmptySet
  <1>2. PICK s \in S : Rank(S, s) = Cardinality(S)
    BY <1>1, RanksInOrder
  <1>3. \A t \in S : t <= s
    <2> TAKE t \in S
    <2>1. Rank(S, t) \in 1 .. Cardinality(S) /\ (s < t <=> Rank(S, s) < Rank(S, t))
      BY RanksInOrder
    <2> QED BY <1>1, <1>2, <2>1
  <1> QED BY <1>3 DEF Greatest

\* A page leaves out a row only when it is full, and then only rows beyond
\* its last one.
LEMMA LeftOutOfPage ==
  ASSUME NEW S \in SUBSET Nat, IsFiniteSet(S), NEW s \in S, s \notin FirstRows(S)
  PROVE  Cardinality(FirstRows(S)) = PageSize /\ \A t \in FirstRows(S) : t < s
  <1> DEFINE rows == FirstRows(S)
  <1>0. PageSize \in Nat
    BY QueueAssumption
  <1>n. Cardinality(S) \in Nat
    BY FS_CardinalityType
  <1>1. rows = {t \in S : Rank(S, t) <= PageSize}
    BY DEF FirstRows, Rank
  <1>2. \A t \in S : Rank(S, t) \in 1 .. Cardinality(S)
    BY RanksInOrder
  <1>3. PageSize < Rank(S, s) /\ PageSize < Cardinality(S)
    BY <1>0, <1>n, <1>1, <1>2
  <1>4. \A t \in rows : t < s
    <2> TAKE t \in rows
    <2>1. t \in S /\ Rank(S, t) <= PageSize
      BY <1>1
    <2>2. Rank(S, t) < Rank(S, s)
      BY <2>1, <1>0, <1>2, <1>3, <1>n
    <2> QED BY <2>1, <2>2, RanksInOrder
  <1>5. Cardinality(rows) = PageSize
    <2> DEFINE rank == [t \in rows |-> Rank(S, t)]
    <2>1. rows \subseteq S /\ \A t \in rows : rank[t] = Rank(S, t)
      BY <1>1
    <2>2. rank \in [rows -> 1 .. PageSize]
      <3>1. ASSUME NEW t \in rows PROVE Rank(S, t) \in 1 .. PageSize
        <4>1. Rank(S, t) \in 1 .. Cardinality(S) /\ Rank(S, t) <= PageSize
          BY <1>1, <1>2
        <4> HIDE DEF rows
        <4> QED BY <4>1, <1>0, <1>n
      <3> QED BY <3>1
    <2>3. ASSUME NEW t \in rows, NEW u \in rows, rank[t] = rank[u] PROVE t = u
      <3>1. t \in S /\ u \in S /\ t \in Nat /\ u \in Nat /\ Rank(S, t) = Rank(S, u)
        BY <2>1, <2>3
      <3>2. Rank(S, t) \in Nat /\ ~ (t < u) /\ ~ (u < t)
        BY <3>1, <1>2, <1>n, RanksInOrder
      <3> QED BY <3>1, <3>2
    <2>4. ASSUME NEW k \in 1 .. PageSize PROVE \E t \in rows : rank[t] = k
      <3>1. PICK t \in S : Rank(S, t) = k
        BY <1>0, <1>3, <1>n, RanksInOrder
      <3>2. t \in rows
        BY <3>1, <1>0, <1>1
      <3> QED BY <3>1, <3>2
    <2>5. IsFiniteSet(rows)
      BY <2>1, FS_Subset
    <2>6. rank \in Injection(rows, 1 .. PageSize) /\ rank \in Surjection(rows, 1 .. PageSize)
      <3> HIDE DEF rows, rank
      <3> QED BY <2>2, <2>3, <2>4 DEF Injection, IsInjective, Surjection
    <2>7. ExistsBijection(rows, 1 .. PageSize)
      BY <2>6 DEF ExistsBijection, Bijection
    <2>8. Cardinality(1 .. PageSize) = PageSize
      BY <1>0, FS_Interval
    <2> HIDE DEF rows, rank
    <2> QED BY <2>5, <2>7, <2>8, FS_Bijection
  <1> QED BY <1>4, <1>5

\* The rows that the batch of a page takes care of: those of the page and,
\* when it is full, those beyond its last one.
PageCarries(rows, s) ==
  \/ s \in rows
  \/ Cardinality(rows) = PageSize /\ \A t \in rows : t < s

\* Message m leads to another attempt of delivery s after n of them.
Settles(m, s, n) ==
  IF m.type = "notification" THEN m.delivery = s /\ n < m.attempt
  ELSE n = 0 /\ m.after < s

\* Consumer c is about to attempt or settle delivery s, or to send a message
\* that does.
WorksFor(c, s) ==
  \/ pc[c] \in {"received", "skipping", "claiming"} /\ Settles(held[c], s, attempts[s])
  \/ /\ pc[c] \in {"claimed", "accepted", "failing"}
     /\ Delivery(c) = s /\ attempts[s] = Attempt(c)
  \/ /\ pc[c] = "paged"
     /\ held[c] \in Dispatches /\ Settles(held[c], s, attempts[s]) /\ PageCarries(page[c], s)

Waits(s) == \E m \in Messages : waiting[m] > 0 /\ Settles(m, s, attempts[s])

IsRequested(s) ==
  attempts[s] = 0 /\ \E r \in Requests : request[r] \in {"inserted", "pending", "failed"}

IsCovered(s) ==
  Waits(s) \/ (\E c \in Consumers : WorksFor(c, s)) \/ IsRequested(s)

\* A queued delivery has a message or a consumer for the attempt it needs,
\* or a request that dispatches it; rows that were not written have none.
CoverInv ==
  \A s \in Subscriptions :
    /\ status[s] = "queued" => IsCovered(s)
    /\ status[s] = "none" => attempts[s] = 0

\* The batch of a page takes care of the rows it should.
LEMMA BatchCarriesPage ==
  ASSUME NEW rows \in SUBSET Subscriptions, NEW s \in Subscriptions,
         PageCarries(rows, s)
  PROVE  \E m \in BatchOf(rows) : m \in Messages /\ Settles(m, s, 0)
  <1>0. /\ Subscriptions \subseteq Nat \ {0} /\ IsFiniteSet(Subscriptions)
        /\ PageSize \in Nat \ {0, 1} /\ 1 \in Attempts
    BY SubscriptionAssumption, QueueAssumption DEF Attempts
  <1>f. rows \in SUBSET Nat /\ IsFiniteSet(rows)
    BY <1>0, FS_Subset
  <1>1. ASSUME NEW t \in Subscriptions
        PROVE  Notification(t) \in Messages /\ Dispatch(t) \in Messages
    BY <1>0 DEF Notification, Dispatch, Messages, Notifications, Dispatches
  <1>2. Settles(Notification(s), s, 0)
    BY <1>0 DEF Settles, Notification
  <1>3. CASE Cardinality(rows) = PageSize
    <2> DEFINE last == Greatest(rows)
               sent == rows \ {last}
               next == Greatest(sent)
    <2>1. rows # {} /\ IsFiniteSet(sent) /\ Cardinality(sent) = PageSize - 1
      <3>1. rows # {}
        BY <1>0, <1>3, FS_EmptySet
      <3>2. last \in rows
        BY <1>f, <3>1, GreatestIsGreatest
      <3> HIDE DEF last
      <3> QED BY <1>f, <1>3, <3>1, <3>2, FS_RemoveElement
    <2>2. last \in rows /\ \A t \in rows : t <= last
      BY <1>f, <2>1, GreatestIsGreatest
    <2>3. sent # {} /\ sent \in SUBSET Nat
      <3>1. sent \in SUBSET Nat
        BY <1>f
      <3>2. PageSize - 1 # 0
        BY <1>0
      <3> HIDE DEF sent
      <3> QED BY <2>1, <3>1, <3>2, FS_EmptySet
    <2>4. next \in sent
      BY <2>1, <2>3, GreatestIsGreatest
    <2>5. BatchOf(rows) = {Notification(t) : t \in sent} \cup {Dispatch(next)}
      BY <1>3 DEF BatchOf
    <2> HIDE DEF last, next
    <2>6. CASE s \in sent
      BY <1>1, <1>2, <2>5, <2>6
    <2>7. CASE s \notin sent
      <3>1. next \in Nat /\ last \in Nat /\ s \in Nat /\ next < last /\ last <= s
        <4>1. s = last \/ \A t \in rows : t < s
          BY <2>7 DEF PageCarries
        <4>2. next \in rows /\ next # last
          BY <2>4
        <4> HIDE DEF sent
        <4> QED BY <4>1, <4>2, <2>2, <1>0, <1>f
      <3>2. Settles(Dispatch(next), s, 0)
        BY <3>1 DEF Settles, Dispatch
      <3>3. Dispatch(next) \in Messages
        BY <2>4, <1>1
      <3> QED BY <2>5, <3>2, <3>3
    <2> QED BY <2>6, <2>7
  <1>4. CASE Cardinality(rows) # PageSize
    <2>1. s \in rows
      BY <1>4 DEF PageCarries
    <2>2. BatchOf(rows) = {Notification(t) : t \in rows}
      BY <1>4 DEF BatchOf
    <2> QED BY <2>1, <2>2, <1>1, <1>2
  <1> QED BY <1>3, <1>4

\* A message that comes again settles what it settled, or the attempt that
\* was claimed with it.
LEMMA AgainSettles ==
  ASSUME NEW m \in Messages, ~ IsLast(m),
         NEW s \in Subscriptions, NEW n \in Nat,
         \/ Settles(m, s, n)
         \/ m \in Notifications /\ m.delivery = s /\ n = m.attempt
  PROVE  LET again == [m EXCEPT !.attempt = @ + 1] IN
           again \in Messages /\ Settles(again, s, n)
  <1> DEFINE again == [m EXCEPT !.attempt = @ + 1]
  <1>1. m.attempt \in 1 .. MaxAttempts /\ m.attempt # MaxAttempts /\ MaxAttempts \in Nat
    BY MessageTypes, QueueAssumption DEF IsLast, Attempts
  <1>2. m.attempt + 1 \in Attempts /\ m.attempt < m.attempt + 1
    BY <1>1 DEF Attempts
  <1>3. CASE m \in Notifications
    <2>1. /\ again \in Notifications /\ again.type = "notification"
          /\ again.delivery = m.delivery /\ again.attempt = m.attempt + 1
      BY <1>2, <1>3 DEF Notifications
    <2>2. m.delivery = s /\ (n < m.attempt \/ n = m.attempt)
      BY <1>3, MessageTypes DEF Settles
    <2>3. n < m.attempt + 1
      BY <1>1, <2>2
    <2> QED BY <2>1, <2>2, <2>3 DEF Settles, Messages
  <1>4. CASE m \in Dispatches
    <2>1. again \in Dispatches /\ again.type = "dispatch" /\ again.after = m.after
      BY <1>2, <1>4 DEF Dispatches
    <2>2. n = 0 /\ m.after < s
      BY <1>4, MessageTypes DEF Settles
    <2> QED BY <2>1, <2>2 DEF Settles, Messages
  <1> QED BY <1>3, <1>4 DEF Messages

\* What is given back, and what waits already, waits afterwards.
LEMMA RedeliveredWaits ==
  ASSUME TypeInv, NEW c \in Consumers, held[c] \in Messages,
         NEW queue \in [Messages -> Nat], Redeliver(c, queue),
         NEW again, again = [held[c] EXCEPT !.attempt = @ + 1]
  PROVE  /\ \A m \in Messages : queue[m] > 0 => waiting'[m] > 0
         /\ ~ IsLast(held[c]) /\ again \in Messages => waiting'[again] > 0
  <1>1. CASE IsLast(held[c])
    BY <1>1 DEF Redeliver
  <1>2. CASE ~ IsLast(held[c])
    <2>1. waiting' = [queue EXCEPT ![again] = @ + 1]
      BY <1>2 DEF Redeliver
    <2>2. \A m \in Messages : waiting'[m] = IF m = again THEN queue[m] + 1 ELSE queue[m]
      BY <2>1
    <2>3. \A m \in Messages : queue[m] \in Nat
      OBVIOUS
    <2> QED BY <2>2, <2>3
  <1> QED BY <1>1, <1>2

\* A message waits until a consumer receives it.
LEMMA WaitsUntilReceived ==
  ASSUME TypeInv, NEW c \in Consumers, ConsumerStep(c),
         NEW m \in Messages, waiting[m] > 0
  PROVE  waiting'[m] > 0 \/ Receive(c, m)
  <1>w. waiting \in [Messages -> Nat]
    BY DEF TypeInv, DeliveryTypes
  <1>h. pc[c] # "idle" => held[c] \in Messages
    BY DEF TypeInv, DeliveryTypes, HeldInv
  <1>1. CASE \E n \in Messages : Receive(c, n)
    <2>1. PICK n \in Messages : Receive(c, n)
      BY <1>1
    <2>2. n # m => waiting'[m] = waiting[m]
      BY <1>w, <2>1 DEF Receive
    <2> QED BY <2>1, <2>2
  <1>2. ASSUME Retry(c), pc[c] # "idle" PROVE waiting'[m] > 0
    BY <1>2, <1>h, <1>w, RedeliveredWaits DEF Retry
  <1>3. CASE SendBatch(c)
    <2> DEFINE queue == QueueWith(BatchOf(page[c]))
    <2>1. queue \in [Messages -> Nat] /\ queue[m] > 0
      BY <1>w, QueueWithTypes DEF QueueWith, TypeInv
    <2> HIDE DEF queue
    <2>2. waiting' = queue \/ Redeliver(c, queue)
      BY <1>3 DEF SendBatch, queue
    <2>3. held[c] \in Messages
      BY <1>3, <1>h DEF SendBatch
    <2> QED BY <2>1, <2>2, <2>3, RedeliveredWaits
  <1>4. CASE RetryBatch(c) \/ CallFails(c) \/ EvictConsumer(c) \/ MarkFailed(c)
    BY <1>4, <1>2 DEF RetryBatch, CallFails, EvictConsumer, MarkFailed
  <1>5. CASE Skip(c) \/ Claim(c)
    <2>1. pc[c] # "idle" /\ (Retry(c) \/ waiting' = waiting)
      BY <1>5 DEF Skip, Claim, Answered, Ack, Continue, queueVars
    <2> QED BY <2>1, <1>2
  <1>6. CASE \/ ReadPage(c) \/ ReadJob(c) \/ Deliver(c) \/ DeliverFails(c) \/ MarkSent(c)
             \/ MarkSentFails(c) \/ EndBatch(c)
    BY <1>6 DEF ReadPage, ReadJob, Deliver, DeliverFails, MarkSent, MarkSentFails, EndBatch,
                Ack, Continue, queueVars
  <1> QED BY <1>1, <1>3, <1>4, <1>5, <1>6 DEF ConsumerStep, Work

\* A consumer that is given back its message before the last attempt leaves
\* a message that settles what it worked for.
LEMMA RetryCovers ==
  ASSUME TypeInv, NEW c \in Consumers, pc[c] # "idle", Retry(c), ~ IsLast(held[c]),
         NEW s \in Subscriptions, NEW n \in Nat, attempts'[s] = n,
         \/ Settles(held[c], s, n)
         \/ pc[c] \in JobSteps /\ Delivery(c) = s /\ n = Attempt(c)
  PROVE  Waits(s)'
  <1> DEFINE again == [held[c] EXCEPT !.attempt = @ + 1]
  <1>1. held[c] \in Messages /\ (pc[c] \in JobSteps => held[c] \in Notifications)
    BY DEF HeldInv, TypeInv, DeliveryTypes
  <1>2. again \in Messages /\ Settles(again, s, n)
    BY <1>1, AgainSettles DEF Delivery, Attempt
  <1>3. waiting \in [Messages -> Nat]
    BY DEF TypeInv, DeliveryTypes
  <1> HIDE DEF again
  <1>4. again = [held[c] EXCEPT !.attempt = @ + 1] => waiting'[again] > 0
    BY <1>1, <1>2, <1>3, RedeliveredWaits DEF Retry
  <1>5. waiting'[again] > 0
    BY <1>4 DEF again
  <1> QED BY <1>2, <1>5 DEF Waits

\* What a dispatch will cover, the page that it reads covers as well.
LEMMA PageCovers ==
  ASSUME TypeInv, NEW c \in Consumers, ReadPage(c),
         NEW s \in Subscriptions, s \in Pending, Settles(held[c], s, 0)
  PROVE  WorksFor(c, s)'
  <1> USE DEF TypeInv
  <1> DEFINE S == {t \in Pending : t > held[c].after}
             rows == FirstRows(S)
  <1>0. Subscriptions \subseteq Nat /\ IsFiniteSet(Subscriptions) /\ PageSize \in Nat \ {0}
    BY SubscriptionAssumption, QueueAssumption
  <1>1. held[c] \in Dispatches /\ pc[c] = "received" /\ held[c].after < s
    BY MessageTypes DEF ReadPage, DeliveryTypes, HeldInv, Messages, Settles
  <1>2. S \in SUBSET Subscriptions
    BY DEF Pending
  <1>3. S \in SUBSET Nat /\ IsFiniteSet(S)
    <2> HIDE DEF S
    <2> QED BY <1>0, <1>2, FS_Subset
  <1>4. s \in S
    <2>1. \A m \in Dispatches : m.after \in Subscriptions \cup {0}
      BY DEF Dispatches, Start
    <2>2. held[c].after \in Nat /\ s \in Nat
      <3> HIDE DEF S, TypeInv
      <3>1. held[c].after \in Subscriptions \cup {0} BY <1>1, <2>1
      <3>2. \A a \in Subscriptions \cup {0} : a \in Nat BY <1>0
      <3> QED BY <3>1, <3>2
    <2> QED BY <1>1, <2>2
  <1> HIDE DEF S
  <1>5. PageCarries(rows, s) /\ rows # {}
    <2>1. CASE s \in rows
      BY <2>1 DEF PageCarries
    <2>2. CASE s \notin rows
      <3>1. Cardinality(rows) = PageSize /\ \A t \in rows : t < s
        BY <1>3, <1>4, <2>2, LeftOutOfPage
      <3> QED BY <1>0, <3>1, FS_EmptySet DEF PageCarries
    <2> QED BY <2>1, <2>2
  <1>6. pc' = [pc EXCEPT ![c] = "paged"] /\ page' = [page EXCEPT ![c] = rows] /\ held' = held
    BY <1>5 DEF ReadPage, Proceed, S
  <1>7. attempts' = attempts /\ attempts[s] = 0
    BY DEF ReadPage, ledgerVars, Pending
  <1> HIDE DEF rows
  <1>8. pc'[c] = "paged" /\ page'[c] = rows /\ held'[c] = held[c]
    BY <1>6 DEF DeliveryTypes
  <1> QED BY <1>1, <1>5, <1>7, <1>8 DEF WorksFor

\* While retries suffice, a consumer goes on with what it works for, or
\* leaves a message that does, unless the row is claimed or settled.
LEMMA WorkerKeepsCover ==
  ASSUME TypeInv, RetriesSuffice, NEW c \in Consumers, ConsumerStep(c),
         NEW s \in Subscriptions, status[s] = "queued", status'[s] = "queued",
         attempts'[s] = attempts[s], WorksFor(c, s)
  PROVE  Waits(s)' \/ WorksFor(c, s)'
  <1> USE DEF TypeInv
  <1>n. attempts[s] \in Nat /\ attempts'[s] \in Nat /\ status \in [Subscriptions -> Statuses]
    BY QueueAssumption DEF LedgerTypes
  <1>h. held[c] \in Messages /\ (pc[c] \in JobSteps => held[c] \in Notifications)
    BY DEF DeliveryTypes, HeldInv, WorksFor
  <1>j. pc[c] \in JobSteps => Delivery(c) = s
    BY <1>h, MessageTypes DEF WorksFor, Settles, Delivery, JobSteps
  <1>1. ASSUME Retry(c), ~ IsLast(held[c]) PROVE Waits(s)'
    BY <1>1, <1>n, RetryCovers DEF WorksFor, JobSteps
  <1>2. CASE RetryBatch(c) \/ CallFails(c) \/ EvictConsumer(c)
    BY <1>1, <1>2 DEF RetryBatch, CallFails, EvictConsumer, MayFail
  <1>3. CASE ReadPage(c)
    <2>1. s \in Pending /\ Settles(held[c], s, 0)
      BY <1>3, <1>h, MessageTypes DEF ReadPage, WorksFor, Settles, Pending
    <2> QED BY <1>3, <2>1, PageCovers
  <1>4. CASE SendBatch(c)
    <2>1. PageCarries(page[c], s) /\ attempts[s] = 0 /\ page[c] \in SUBSET Subscriptions
      BY <1>4, MessageTypes DEF SendBatch, WorksFor, Settles, DeliveryTypes
    <2>2. PICK m \in BatchOf(page[c]) : m \in Messages /\ Settles(m, s, 0)
      BY <2>1, BatchCarriesPage
    <2> DEFINE queue == QueueWith(BatchOf(page[c]))
    <2>3. queue \in [Messages -> Nat] /\ queue[m] > 0
      BY <2>2, QueueWithTypes DEF QueueWith, DeliveryTypes
    <2> HIDE DEF queue
    <2>4. waiting' = queue \/ Redeliver(c, queue)
      BY <1>4 DEF SendBatch, queue
    <2>5. waiting'[m] > 0
      BY <1>h, <2>2, <2>3, <2>4, RedeliveredWaits
    <2> QED BY <2>1, <2>2, <2>5 DEF Waits
  <1>5. CASE ReadJob(c)
    <2>1. Settles(held[c], s, attempts[s]) /\ Delivery(c) = s
      BY <1>5, MessageTypes DEF ReadJob, WorksFor, Settles, Processing, Delivery
    <2>2. pc'[c] \in {"claiming", "skipping"} /\ held'[c] = held[c]
      BY <1>5, <2>1 DEF ReadJob, Unsettled, Continue, Proceed, DeliveryTypes
    <2> QED BY <2>1, <2>2 DEF WorksFor
  <1>6. CASE Skip(c)
    <2>1. status'[s] = "skipped"
      BY <1>6, <1>j, <1>n DEF Skip, JobSteps, Unsettled
    <2> QED BY <2>1
  <1>7. CASE Claim(c)
    <2>1. Claimable(c) /\ Delivery(c) = s
      BY <1>7, <1>h, <1>j, MessageTypes
      DEF Claim, Claimable, Unsettled, WorksFor, Settles, JobSteps, Attempt
    <2>2. attempts'[s] = Attempt(c) /\ attempts[s] < Attempt(c)
      BY <1>7, <2>1 DEF Claim, Claimable, LedgerTypes
    <2> QED BY <1>n, <2>2
  <1>8. CASE Deliver(c) \/ DeliverFails(c) \/ MarkSentFails(c)
    <2>1. Delivery(c) = s /\ attempts[s] = Attempt(c)
      BY <1>8 DEF Deliver, DeliverFails, MarkSentFails, WorksFor
    <2>2. pc'[c] \in {"accepted", "failing"} /\ held'[c] = held[c]
      BY <1>8 DEF Deliver, DeliverFails, MarkSentFails, Continue, Proceed, DeliveryTypes
    <2> QED BY <1>n, <2>1, <2>2 DEF WorksFor, Delivery, Attempt
  <1>9. CASE MarkSent(c)
    <2>1. Delivery(c) = s /\ OwnsAttempt(c)
      BY <1>9 DEF MarkSent, WorksFor, OwnsAttempt
    <2> QED BY <1>9, <1>n, <2>1 DEF MarkSent
  <1>10. CASE MarkFailed(c)
    <2>1. Delivery(c) = s /\ attempts[s] = Attempt(c)
      BY <1>10 DEF MarkFailed, WorksFor
    <2> QED BY <1>10, <1>n, <2>1 DEF MarkFailed, Unsettled
  <1>11. CASE EndBatch(c) \/ \E m \in Messages : Receive(c, m)
    BY <1>11 DEF EndBatch, Receive, WorksFor
  <1> QED BY <1>2, <1>3, <1>4, <1>5, <1>6, <1>7, <1>8, <1>9, <1>10, <1>11
      DEF ConsumerStep, Work

\* A claim makes its consumer, or the message it leaves, cover the row.
LEMMA ClaimCovers ==
  ASSUME TypeInv, RetriesSuffice, NEW c \in Consumers, Claim(c), Claimable(c),
         NEW s \in Subscriptions, Delivery(c) = s
  PROVE  Waits(s)' \/ WorksFor(c, s)'
  <1> USE DEF TypeInv
  <1>1. Attempt(c) \in Nat /\ attempts'[s] = Attempt(c)
    BY JobTypes, QueueAssumption DEF Claim, JobSteps, LedgerTypes, Attempts
  <1>2. CASE Continue(c, "claimed")
    BY <1>1, <1>2
    DEF Continue, Proceed, DeliveryTypes, WorksFor, Delivery, Attempt
  <1>3. CASE Retry(c) /\ ~ IsLast(held[c])
    BY <1>1, <1>3, RetryCovers DEF Claim, JobSteps
  <1> QED BY <1>2, <1>3 DEF Claim, Answered, MayFail

\* What a consumer works for does not depend on the other consumers.
LEMMA OthersWork ==
  ASSUME TypeInv, NEW c \in Consumers, ConsumerStep(c), NEW d \in Consumers, d # c,
         NEW s \in Subscriptions, attempts'[s] = attempts[s], WorksFor(d, s)
  PROVE  WorksFor(d, s)'
  BY OthersKeep DEF WorksFor, Delivery, Attempt

LEMMA ConsumerKeepsCover ==
  ASSUME TypeInv, CoverInv, RetriesSuffice, NEW c \in Consumers, ConsumerStep(c)
  PROVE  CoverInv'
  <1> USE DEF TypeInv
  <1>a. \A s \in Subscriptions : ~ Unsettled(s) =>
          status'[s] = status[s] /\ attempts'[s] = attempts[s]
    BY ConsumerKeepsSettled, ClaimNeedsUnsettled
  <1> SUFFICES ASSUME NEW s \in Subscriptions
               PROVE  /\ status'[s] = "queued" => IsCovered(s)'
                      /\ status'[s] = "none" => attempts'[s] = 0
    BY DEF CoverInv
  <1>1. CASE Claim(c) /\ Claimable(c) /\ Delivery(c) = s
    <2>1. status'[s] = "queued"
      BY <1>1 DEF Claim, LedgerTypes
    <2> QED BY <1>1, <2>1, ClaimCovers DEF IsCovered
  <1>2. CASE ~ (Claim(c) /\ Claimable(c) /\ Delivery(c) = s)
    <2>1. attempts'[s] = attempts[s]
      BY <1>2, ConsumerCases DEF Claim, Deliver, Uneventful, ledgerVars, LedgerTypes
    <2>2. status'[s] \in {"queued", "none"} => status[s] = status'[s]
      <3>1. CASE Skip(c) \/ MarkSent(c) \/ MarkFailed(c) \/ Claim(c)
        <4>1. PICK new \in {"skipped", "sent", "failed", status[Delivery(c)]} :
                status'[s] = status[s] \/ status' = [status EXCEPT ![Delivery(c)] = new]
          BY <1>2, <3>1 DEF Skip, MarkSent, MarkFailed, Claim, LedgerTypes
        <4> QED BY <4>1 DEF LedgerTypes
      <3>2. CASE UNCHANGED status
        BY <3>2
      <3> QED BY <3>1, <3>2
          DEF ConsumerStep, Work, Receive, ReadPage, SendBatch, ReadJob, Deliver,
              DeliverFails, MarkSentFails, EndBatch, RetryBatch, CallFails, EvictConsumer,
              ledgerVars
    <2>3. status'[s] = "none" => attempts'[s] = 0
      BY <2>1, <2>2 DEF CoverInv
    <2>4. ASSUME status'[s] = "queued" PROVE IsCovered(s)'
      <3>1. status[s] = "queued" /\ IsCovered(s)
        BY <2>2, <2>4 DEF CoverInv
      <3>2. CASE Waits(s)
        <4>1. PICK m \in Messages : waiting[m] > 0 /\ Settles(m, s, attempts[s])
          BY <3>2 DEF Waits
        <4>2. CASE waiting'[m] > 0
          BY <2>1, <4>1, <4>2 DEF Waits, IsCovered
        <4>3. CASE Receive(c, m)
          <5>1. pc'[c] = "received" /\ held'[c] = m
            BY <4>3 DEF Receive, Proceed, DeliveryTypes
          <5> QED BY <2>1, <4>1, <5>1 DEF WorksFor, IsCovered
        <4> QED BY <4>1, <4>2, <4>3, WaitsUntilReceived
      <3>3. ASSUME NEW d \in Consumers, WorksFor(d, s) PROVE IsCovered(s)'
        <4>1. CASE d = c
          BY <2>1, <2>4, <3>1, <3>3, <4>1, WorkerKeepsCover DEF IsCovered
        <4>2. CASE d # c
          BY <2>1, <3>3, <4>2, OthersWork DEF IsCovered
        <4> QED BY <4>1, <4>2
      <3>4. CASE IsRequested(s)
        <4>1. request' = request
          BY DEF ConsumerStep, Work, Receive, ReadPage, SendBatch, ReadJob, Skip, Claim,
                 Deliver, DeliverFails, MarkSent, MarkSentFails, MarkFailed, EndBatch,
                 RetryBatch, CallFails, EvictConsumer
        <4> QED BY <2>1, <3>4, <4>1 DEF IsRequested, IsCovered
      <3> QED BY <3>1, <3>2, <3>3, <3>4 DEF IsCovered
    <2> QED BY <2>3, <2>4
  <1> QED BY <1>1, <1>2

\* Subscribers and requests leave messages and consumers as they are, but
\* for the dispatch that a request sends.
LEMMA OthersKeepCover ==
  ASSUME TypeInv, CoverInv,
         \/ SubscriberStep
         \/ \E r \in Requests : Notify(r) \/ RequestFails(r)
         \/ UNCHANGED vars
  PROVE  CoverInv'
  <1> USE DEF TypeInv
  <1>0. Subscriptions \subseteq Nat \ {0}
    BY SubscriptionAssumption
  <1>k. UNCHANGED <<attempts, consumerVars>>
    BY OthersKeepAttempts
  <1>w. ASSUME NEW s \in Subscriptions, NEW d \in Consumers, WorksFor(d, s)
        PROVE  WorksFor(d, s)'
    BY <1>k, <1>w DEF WorksFor, Delivery, Attempt, consumerVars
  <1>1. CASE SubscriberStep \/ UNCHANGED vars
    <2>1. UNCHANGED <<request, waiting>>
      BY <1>1 DEF SubscriberStep, Subscribe, Unsubscribe, DeleteSubscription,
                  UpdateNewsletter, vars, queueVars
    <2>2. \A s \in Subscriptions : status'[s] \in {"queued", "none"} => status[s] = status'[s]
      BY <1>1 DEF SubscriberStep, Subscribe, Unsubscribe, DeleteSubscription,
                  UpdateNewsletter, vars, LedgerTypes
    <2>3. ASSUME NEW s \in Subscriptions, IsCovered(s) PROVE IsCovered(s)'
      BY <1>k, <1>w, <2>1, <2>3 DEF IsCovered, Waits, IsRequested
    <2> QED BY <1>k, <2>2, <2>3 DEF CoverInv
  <1>2. ASSUME NEW r \in Requests, FindNewsletter(r) \/ CountPending(r) \/ RequestFails(r)
        PROVE  CoverInv'
    <2>1. UNCHANGED <<status, waiting>>
      BY <1>2 DEF FindNewsletter, CountPending, RequestFails, ledgerVars, queueVars
    <2>2. ASSUME NEW s \in Subscriptions, status[s] = "queued", IsRequested(s)
          PROVE  IsRequested(s)'
      <3>1. PICK q \in Requests : request[q] \in {"inserted", "pending", "failed"}
        BY <2>2 DEF IsRequested
      <3>2. s \in Pending /\ attempts[s] = 0
        BY <2>2 DEF Pending, IsRequested
      <3>3. request'[q] \in {"inserted", "pending", "failed"}
        BY <1>2, <3>1, <3>2
        DEF FindNewsletter, CountPending, RequestFails, ProceedRequest, LedgerTypes
      <3> QED BY <1>k, <3>2, <3>3 DEF IsRequested
    <2>3. ASSUME NEW s \in Subscriptions, status[s] = "queued", IsCovered(s)
          PROVE  IsCovered(s)'
      BY <1>k, <1>w, <2>1, <2>2, <2>3 DEF IsCovered, Waits
    <2> QED BY <1>k, <2>1, <2>3 DEF CoverInv
  <1>3. ASSUME NEW r \in Requests, Materialize(r) PROVE CoverInv'
    <2>1. waiting' = waiting /\ request' = [request EXCEPT ![r] = "inserted"]
          /\ request[r] = "active"
      BY <1>3 DEF Materialize, queueVars, ProceedRequest
    <2>2. request'[r] = "inserted" /\ \A q \in Requests : q # r => request'[q] = request[q]
      BY <2>1 DEF LedgerTypes
    <2>3. ASSUME NEW s \in Subscriptions, IsCovered(s) PROVE IsCovered(s)'
      BY <1>k, <1>w, <2>1, <2>2, <2>3 DEF IsCovered, Waits, IsRequested
    <2>4. \A s \in Subscriptions :
            /\ status'[s] = "none" => status[s] = "none"
            /\ status'[s] = "queued" => status[s] \in {"queued", "none"}
      BY <1>3 DEF Materialize, LedgerTypes
    <2>5. ASSUME NEW s \in Subscriptions, attempts[s] = 0 PROVE IsCovered(s)'
      BY <1>k, <2>2, <2>5 DEF IsCovered, IsRequested
    <2> QED BY <1>k, <2>3, <2>4, <2>5 DEF CoverInv
  <1>4. ASSUME NEW r \in Requests, SendDispatch(r) PROVE CoverInv'
    <2>1. waiting \in [Messages -> Nat] /\ waiting' = QueueWith({Dispatch(Start)})
          /\ status' = status
      BY <1>4 DEF SendDispatch, DeliveryTypes, ledgerVars
    <2>2. \A m \in Messages : waiting[m] > 0 => waiting'[m] > 0
      BY <2>1 DEF QueueWith
    <2>3. Dispatch(Start) \in Messages /\ waiting'[Dispatch(Start)] > 0
      <3>1. Dispatch(Start) \in Messages
        BY QueueAssumption DEF Dispatch, Messages, Dispatches, Attempts
      <3> HIDE DEF Dispatch
      <3> QED BY <2>1, <3>1 DEF QueueWith
    <2>4. ASSUME NEW s \in Subscriptions, IsRequested(s) PROVE Waits(s)'
      <3>1. attempts[s] = 0 /\ 0 < s
        BY <1>0, <2>4 DEF IsRequested
      <3>2. Settles(Dispatch(Start), s, 0)
        BY <3>1 DEF Settles, Dispatch, Start
      <3> QED BY <1>k, <2>3, <3>1, <3>2 DEF Waits
    <2>5. ASSUME NEW s \in Subscriptions, IsCovered(s) PROVE IsCovered(s)'
      BY <1>k, <1>w, <2>2, <2>4, <2>5 DEF IsCovered, Waits
    <2> QED BY <1>k, <2>1, <2>5 DEF CoverInv
  <1> QED BY <1>1, <1>2, <1>3, <1>4 DEF Notify

\* Under every failure, and for duplicated messages as well: while the last
\* attempt of a message is not cut off, each queued delivery has a message
\* or a consumer that will attempt it, or a request that dispatches it.
THEOREM NobodyIsForgotten ==
  ASSUME RetriesSuffice
  PROVE  Spec => []QueuedIsCovered
  <1>1. Init => CoverInv
    BY DEF Init, CoverInv
  <1>2. TypeInv /\ CoverInv /\ [Next]_vars => CoverInv'
    BY ConsumerKeepsCover, OthersKeepCover DEF Next
  <1>3. TypeInv /\ CoverInv => QueuedIsCovered
    <2> SUFFICES ASSUME TypeInv, CoverInv, NEW s \in Subscriptions, status[s] = "queued"
                 PROVE  \/ \E m \in Messages : Carries(m, s) /\ InQueue(m)
                        \/ /\ s \in Pending
                           /\ \E r \in Requests :
                                request[r] \in {"inserted", "pending", "failed"}
      BY DEF QueuedIsCovered
    <2>1. IsCovered(s)
      BY DEF CoverInv
    <2>2. \A m \in Messages : Settles(m, s, attempts[s]) => Carries(m, s)
      BY DEF Settles, Carries, Pending
    <2>3. CASE Waits(s)
      BY <2>2, <2>3 DEF Waits, InQueue
    <2>4. ASSUME NEW c \in Consumers, WorksFor(c, s)
          PROVE  \E m \in Messages : Carries(m, s) /\ InQueue(m)
      <3>1. held[c] \in Messages /\ (pc[c] \in JobSteps => held[c] \in Notifications)
        BY <2>4 DEF WorksFor, TypeInv, DeliveryTypes, HeldInv
      <3>2. Carries(held[c], s)
        BY <2>2, <2>4, <3>1, MessageTypes DEF WorksFor, Carries, Delivery, JobSteps
      <3>3. InQueue(held[c])
        BY <2>4 DEF InQueue, WorksFor
      <3> QED BY <3>1, <3>2, <3>3
    <2>5. CASE IsRequested(s)
      BY <2>5 DEF IsRequested, Pending
    <2> QED BY <2>1, <2>3, <2>4, <2>5 DEF IsCovered
  <1> QED BY <1>1, <1>2, <1>3, TypesHold, PTL DEF Spec
=============================================================================

------------------------ MODULE CommentTargetOutbox ------------------------
(***************************************************************************)
(* The projection of Posts and Pages of the Studio database onto the       *)
(* comment targets of the Edge database.  Triggers of the Studio database  *)
(* append one outbox row per content write; drains, which any request, the *)
(* daily cron or a reconciliation may start, lease the oldest row of each  *)
(* target, replay the leased rows on the Edge database and delete them.    *)
(* The two databases share no transaction: every database call is one step *)
(* here, and a drain may stop between any two of them.                     *)
(***************************************************************************)
EXTENDS Naturals, FiniteSets

CONSTANTS
  Targets,            \* posts and pages: a (target_type, public_id) pair each
  Drains,             \* drain invocations that can run at the same time
  NoLease,            \* lease_id IS NULL
  Abandoned,          \* the lease_id of an invocation that no longer runs
  MaxRevision,        \* bound: revisions a target goes through
  ClaimLimit,         \* the limit argument of a drain (25 or 250 in the code)
  DrainsWithinLease   \* assumption: no drain writes to Edge after its lease

ASSUME LeaseAssumption ==
  /\ NoLease \notin Drains
  /\ Abandoned \notin Drains
  /\ NoLease # Abandoned

ASSUME BoundAssumption ==
  /\ MaxRevision \in Nat \ {0}
  /\ ClaimLimit \in Nat \ {0}

ASSUME EnvironmentAssumption == DrainsWithinLease \in BOOLEAN

VARIABLES
  content,     \* Studio: revision of the stored row of a target, NoRow if none
  allocated,   \* Studio: targets whose public id was given out
  mode,        \* Studio: the edge_integration_mode setting
  outbox,      \* Studio: the outbox table, id -> event and lease
  lastId,      \* Studio: AUTOINCREMENT value of the outbox table
  edge,        \* Edge: revision the comment target of a target mirrors
  activation,  \* the request that switches the integration on (see NoActivation)
  pc,          \* drain invocation: next database call
  held         \* drain invocation: the events it selected

studioVars == <<content, allocated, mode, outbox, lastId>>
drainVars == <<pc, held>>
vars == <<content, allocated, mode, outbox, lastId, edge, activation, pc, held>>

NoRow == 0

Values == 0 .. MaxRevision
Events == [id : Nat, target : Targets, value : Values]
Leases == Drains \cup {NoLease, Abandoned}
OutboxRows == [target : Targets, value : Values, lease : Leases, expired : BOOLEAN]

DrainSteps == {"idle", "ready", "leased", "claimed", "applied", "failed"}

\* A request that switches the integration on has found the outbox empty
\* (running) and some targets equal on both sides (matched).  The field missed
\* is a history, read by properties only: the targets that were written, with
\* no trigger to tell, between their comparison and the stored mode, and have
\* not been written since.
Activations ==
  [running : BOOLEAN, matched : SUBSET Targets, missed : SUBSET Targets]

NoActivation == [running |-> FALSE, matched |-> {}, missed |-> {}]

TypeOK ==
  /\ content \in [Targets -> Values]
  /\ allocated \subseteq Targets
  /\ mode \in {"enabled", "disabled"}
  /\ lastId \in Nat
  /\ DOMAIN outbox \subseteq 1 .. lastId
  /\ outbox \in [DOMAIN outbox -> OutboxRows]
  /\ edge \in [Targets -> Values]
  /\ activation \in Activations
  /\ pc \in [Drains -> DrainSteps]
  /\ held \in [Drains -> SUBSET Events]

Init ==
  /\ content = [t \in Targets |-> NoRow]
  /\ allocated = {}
  /\ mode = "enabled"
  /\ outbox = [i \in {} |-> NoRow]
  /\ lastId = 0
  /\ edge = [t \in Targets |-> NoRow]
  /\ activation = NoActivation
  /\ pc = [d \in Drains |-> "idle"]
  /\ held = [d \in Drains |-> {}]

-----------------------------------------------------------------------------
(* Content writes and the outbox triggers *)

\* The triggers fire inside the transaction of the write, and only while the
\* integration is enabled.
Trigger(t, v) ==
  IF mode = "enabled"
  THEN /\ lastId' = lastId + 1
       /\ outbox' = [i \in DOMAIN outbox \cup {lastId + 1} |->
                       IF i = lastId + 1
                       THEN [target |-> t, value |-> v,
                             lease |-> NoLease, expired |-> FALSE]
                       ELSE outbox[i]]
  ELSE UNCHANGED <<lastId, outbox>>

WriteContent(t, v) ==
  /\ content' = [content EXCEPT ![t] = v]
  /\ Trigger(t, v)
  /\ activation' = [activation EXCEPT !.missed =
       IF mode = "enabled" THEN @ \ {t} ELSE @ \cup ({t} \cap activation.matched)]
  /\ UNCHANGED <<mode, edge, pc, held>>

\* A public id is taken from a counter and never given out twice.
CreateContent(t) ==
  /\ t \notin allocated
  /\ allocated' = allocated \cup {t}
  /\ WriteContent(t, 1)

UpdateContent(t) ==
  /\ content[t] # NoRow
  /\ content[t] < MaxRevision
  /\ WriteContent(t, content[t] + 1)
  /\ UNCHANGED allocated

DeleteContent(t) ==
  /\ content[t] # NoRow
  /\ WriteContent(t, NoRow)
  /\ UNCHANGED allocated

-----------------------------------------------------------------------------
(* Switching the integration off and on *)

DisableIntegration ==
  /\ mode = "enabled"
  /\ mode' = "disabled"
  /\ activation' = NoActivation      \* the settings revision moved
  /\ UNCHANGED <<content, allocated, outbox, lastId, edge, pc, held>>

\* The health inspection counts the pending events, ...
CountPending ==
  /\ mode = "disabled"
  /\ DOMAIN outbox = {}
  /\ activation' = [NoActivation EXCEPT !.running = TRUE]
  /\ UNCHANGED <<studioVars, edge, drainVars>>

\* ... then compares the targets of both databases, some rows at a time and
\* beside content requests, until two differ ...
CompareTarget(t) ==
  /\ activation.running
  /\ t \notin activation.matched
  /\ activation' = IF edge[t] = content[t]
                   THEN [activation EXCEPT !.matched = @ \cup {t}]
                   ELSE NoActivation
  /\ UNCHANGED <<studioVars, edge, drainVars>>

\* Faulty variant: an empty outbox is taken for parity.
EnableWithoutParity ==
  /\ activation.running
  /\ mode' = "enabled"
  /\ activation' = [NoActivation EXCEPT !.missed = activation.missed]
  /\ UNCHANGED <<content, allocated, outbox, lastId, edge, pc, held>>

\* ... and then, in a transaction of its own, the mode is stored.
EnableIntegration ==
  /\ activation.running
  /\ activation.matched = Targets
  /\ mode' = "enabled"
  /\ activation' = [NoActivation EXCEPT !.missed = activation.missed]
  /\ UNCHANGED <<content, allocated, outbox, lastId, edge, pc, held>>

-----------------------------------------------------------------------------
(* The drain *)

RowsLeasedBy(d) == {i \in DOMAIN outbox : outbox[i].lease = d}

EarlierRow(i) ==
  \E j \in DOMAIN outbox : j < i /\ outbox[j].target = outbox[i].target

\* Faulty variants: a claim takes younger rows of a target as well, or it
\* waits for the holder of a lease that ran out.
ClaimableInAnyOrder ==
  {i \in DOMAIN outbox : outbox[i].lease = NoLease \/ outbox[i].expired}

ClaimableOnceReleased ==
  {i \in DOMAIN outbox : outbox[i].lease = NoLease /\ ~ EarlierRow(i)}

\* Rows a claim may take: not under a running lease, and the oldest row of
\* their target whatever the state of the older ones.
Claimable ==
  {i \in DOMAIN outbox : /\ outbox[i].lease = NoLease \/ outbox[i].expired
                         /\ ~ EarlierRow(i)}

FirstClaimable ==
  {i \in Claimable : Cardinality({j \in Claimable : j < i}) < ClaimLimit}

\* An invocation that ends leaves its lease id behind on rows nobody cleared.
WithoutHolder(d) ==
  [i \in DOMAIN outbox |->
     IF outbox[i].lease = d THEN [outbox[i] EXCEPT !.lease = Abandoned]
     ELSE outbox[i]]

Finish(d) ==
  /\ pc' = [pc EXCEPT ![d] = "idle"]
  /\ held' = [held EXCEPT ![d] = {}]

BeginDrain(d, force) ==
  /\ pc[d] = "idle"
  /\ mode = "enabled" \/ force
  /\ pc' = [pc EXCEPT ![d] = "ready"]
  /\ UNCHANGED <<studioVars, edge, activation, held>>

ClaimUpdate(d) ==
  /\ pc[d] = "ready"
  /\ outbox' = [i \in DOMAIN outbox |->
                  IF i \in FirstClaimable
                  THEN [outbox[i] EXCEPT !.lease = d, !.expired = FALSE]
                  ELSE outbox[i]]
  /\ pc' = [pc EXCEPT ![d] = "leased"]
  /\ UNCHANGED <<content, allocated, mode, lastId, edge, activation, held>>

EventOf(i) == [id |-> i, target |-> outbox[i].target, value |-> outbox[i].value]

ClaimSelect(d) ==
  /\ pc[d] = "leased"
  /\ held' = [held EXCEPT ![d] = {EventOf(i) : i \in RowsLeasedBy(d)}]
  /\ pc' = [pc EXCEPT ![d] = IF RowsLeasedBy(d) = {} THEN "idle" ELSE "claimed"]
  /\ UNCHANGED <<studioVars, edge, activation>>

\* The Edge targets once the events of d are replayed: an upsert stores the
\* captured row, a delete (NoRow) removes the target.
Replayed(d) ==
  [t \in Targets |->
     IF \E e \in held[d] : e.target = t
     THEN (CHOOSE e \in held[d] : e.target = t).value
     ELSE edge[t]]

ApplyBatch(d) ==
  /\ pc[d] = "claimed"
  /\ edge' = Replayed(d)
  /\ pc' = [pc EXCEPT ![d] = "applied"]
  /\ UNCHANGED <<studioVars, activation, held>>

\* The Edge batch reports an error; it may have been committed all the same.
ApplyFails(d) ==
  /\ pc[d] = "claimed"
  /\ edge' \in {edge, Replayed(d)}
  /\ pc' = [pc EXCEPT ![d] = "failed"]
  /\ UNCHANGED <<studioVars, activation, held>>

ReleaseLease(d) ==
  /\ pc[d] = "failed"
  /\ outbox' = [i \in DOMAIN outbox |->
                  IF outbox[i].lease = d
                  THEN [outbox[i] EXCEPT !.lease = NoLease, !.expired = FALSE]
                  ELSE outbox[i]]
  /\ Finish(d)
  /\ UNCHANGED <<content, allocated, mode, lastId, edge, activation>>

Acknowledge(d) ==
  /\ pc[d] = "applied"
  /\ outbox' = [i \in DOMAIN outbox \ RowsLeasedBy(d) |-> outbox[i]]
  /\ Finish(d)
  /\ UNCHANGED <<content, allocated, mode, lastId, edge, activation>>

\* A database call fails, or the Worker is evicted: the invocation ends with
\* its lease in place.
AbandonDrain(d) ==
  /\ pc[d] # "idle"
  /\ outbox' = WithoutHolder(d)
  /\ Finish(d)
  /\ UNCHANGED <<content, allocated, mode, lastId, edge, activation>>

\* Five minutes pass since the claim of holder h.
LeaseExpires(h) ==
  /\ h \in Drains /\ DrainsWithinLease => pc[h] \notin {"leased", "claimed"}
  /\ \E i \in DOMAIN outbox : outbox[i].lease = h /\ ~ outbox[i].expired
  /\ outbox' = [i \in DOMAIN outbox |->
                  IF outbox[i].lease = h THEN [outbox[i] EXCEPT !.expired = TRUE]
                  ELSE outbox[i]]
  /\ UNCHANGED <<content, allocated, mode, lastId, edge, activation, drainVars>>

-----------------------------------------------------------------------------
DrainStep(d) ==
  \/ \E force \in BOOLEAN : BeginDrain(d, force)
  \/ ClaimUpdate(d)
  \/ ClaimSelect(d)
  \/ ApplyBatch(d)
  \/ ApplyFails(d)
  \/ ReleaseLease(d)
  \/ Acknowledge(d)
  \/ AbandonDrain(d)

ContentStep == \E t \in Targets : CreateContent(t) \/ UpdateContent(t) \/ DeleteContent(t)

ActivationStep ==
  \/ DisableIntegration
  \/ CountPending
  \/ \E t \in Targets : CompareTarget(t)
  \/ EnableIntegration

Next ==
  \/ ContentStep
  \/ ActivationStep
  \/ \E d \in Drains : DrainStep(d)
  \/ \E h \in Drains \cup {Abandoned} : LeaseExpires(h)

Spec == Init /\ [][Next]_vars

\* The cron and content writes keep starting drains, leases run out, a failed
\* drain ends, and not every drain that finds rows is interrupted or refused
\* by the Edge database.
Fairness ==
  /\ \A d \in Drains :
       /\ WF_vars(BeginDrain(d, FALSE))
       /\ SF_vars(FirstClaimable # {} /\ ClaimUpdate(d))
       /\ SF_vars(RowsLeasedBy(d) # {} /\ ClaimSelect(d))
       /\ WF_vars(ClaimSelect(d))
       /\ SF_vars(ApplyBatch(d))
       /\ SF_vars(RowsLeasedBy(d) # {} /\ Acknowledge(d))
       /\ WF_vars(Acknowledge(d))
       /\ WF_vars(ReleaseLease(d))
  /\ \A h \in Drains \cup {Abandoned} : WF_vars(LeaseExpires(h))

FairSpec == Spec /\ Fairness

-----------------------------------------------------------------------------
(* Properties *)

PendingOf(t) == {i \in DOMAIN outbox : outbox[i].target = t}

\* While the integration is enabled, a target whose Edge row differs from the
\* stored content has an event on the way, and the newest event on the way
\* carries the stored content: no write is lost and none is left stale, but
\* for a target written between its comparison and the stored mode, and that
\* one only until it is written again.
NoLostProjection ==
  mode = "enabled" =>
    \A t \in Targets \ activation.missed :
      /\ PendingOf(t) = {} => edge[t] = content[t]
      /\ \A i \in PendingOf(t) :
           (\A j \in PendingOf(t) : j <= i) => outbox[i].value = content[t]

\* Two drains never hold events of the same target at the point where each is
\* about to write them to the Edge database.
ExclusiveReplay ==
  \A c, d \in Drains :
    c # d /\ pc[c] = "claimed" /\ pc[d] = "claimed" =>
      \A e \in held[c], f \in held[d] : e.target # f.target

\* An outbox row disappears only after its value was written to the Edge
\* database and nothing older was written since.
DeletedOnlyWhenProjected ==
  [][\A i \in DOMAIN outbox \ DOMAIN outbox' :
       edge[outbox[i].target] = outbox[i].value]_vars

\* Once the integration stays enabled and writes stop, the Edge targets reach
\* the stored content, whatever drains failed or were interrupted before.
EventuallyProjected ==
  <>[](mode = "enabled") =>
    <>[](\A t \in Targets \ activation.missed : edge[t] = content[t])

-----------------------------------------------------------------------------
(* What the projection promises.                                           *)

\* Rows of the outbox table by age.
Position(S, i) == Cardinality({j \in S : j <= i})
Nth(S, n) == CHOOSE i \in S : Position(S, i) = n
InOrder(rows, S) == [n \in 1 .. Cardinality(S) |-> rows[Nth(S, n)].value]

\* The values still to be replayed for a target, oldest first.
QueueOf(t) == InOrder(outbox, PendingOf(t))

Replication == INSTANCE TargetReplication WITH
  Absent <- NoRow,
  source <- content,
  queue <- [t \in Targets |-> QueueOf(t)],
  replica <- edge,
  tracked <- mode = "enabled",
  compared <- activation.matched

\* Outbox, leases and drains implement in-order, at-least-once replication of
\* every content write while the integration is enabled, whatever the
\* interleaving, failures and evictions; and it is enabled on targets that
\* were each found equal, one after another, since it was disabled.
ImplementsReplication == Replication!Spec
=============================================================================

------------------------- MODULE StudioContentProofs -------------------------
(***************************************************************************)
(* Proofs about the content of the Studio database: the outbox that        *)
(* projects Posts and Pages onto the Edge database (CommentTargetOutbox),  *)
(* for any number of targets, drains and revisions, and the hierarchy of   *)
(* the Pages and their front page (PageTree), for any set of Pages and any *)
(* number of requests and writes.                                          *)
(***************************************************************************)
EXTENDS CommentTargetOutbox, PageTree, TLAPS, SequenceTheorems, FiniteSetTheorems

-----------------------------------------------------------------------------
(* The outbox.  Its theorems assume what the code assumes: a drain writes  *)
(* to the Edge database while its lease runs.                              *)

\* Only the oldest row of a target is ever under a lease, an invocation that
\* has not claimed yet leases nothing, and one that has not written to Edge
\* yet holds leases that still run.
LeaseInv ==
  /\ \A i \in DOMAIN outbox : outbox[i].lease # NoLease => ~ EarlierRow(i)
  /\ \A d \in Drains : pc[d] \in {"idle", "ready"} => RowsLeasedBy(d) = {}
  /\ \A d \in Drains : pc[d] \in {"leased", "claimed"} =>
       \A i \in RowsLeasedBy(d) : ~ outbox[i].expired

\* The events a drain selected are exactly the rows under its lease.
HeldInv ==
  \A d \in Drains : pc[d] = "claimed" => held[d] = {EventOf(i) : i \in RowsLeasedBy(d)}

\* The rows still under the lease of a drain whose batch succeeded are mirrored.
AppliedInv ==
  \A d \in Drains : pc[d] = "applied" =>
    \A i \in RowsLeasedBy(d) : edge[outbox[i].target] = outbox[i].value

\* While the integration is being switched on nothing is pending, and the
\* targets compared so far are equal but for those written since.
ActivationInv ==
  /\ activation.running => mode = "disabled" /\ DOMAIN outbox = {}
  /\ ~ activation.running => activation.matched = {}
  /\ mode = "disabled" =>
       \A t \in activation.matched \ activation.missed : edge[t] = content[t]

IndInv == TypeOK /\ LeaseInv /\ HeldInv /\ AppliedInv /\ ActivationInv /\ NoLostProjection
-----------------------------------------------------------------------------
\* The database types hold in every state.
THEOREM TypeCorrect == Spec => []TypeOK
<1>1. Init => TypeOK
  BY BoundAssumption
  DEF Init, TypeOK, Values, NoRow, DrainSteps, Activations, NoActivation
<1>2. TypeOK /\ [Next]_vars => TypeOK'
  <2> SUFFICES ASSUME TypeOK, [Next]_vars PROVE TypeOK'
    OBVIOUS
  <2> USE DEF TypeOK, Leases, OutboxRows, Values, NoRow, DrainSteps
  <2>1. ASSUME NEW t \in Targets, NEW v \in Values, WriteContent(t, v)
        PROVE  /\ content' \in [Targets -> Values]
               /\ lastId' \in Nat
               /\ DOMAIN outbox' \subseteq 1 .. lastId'
               /\ outbox' \in [DOMAIN outbox' -> OutboxRows]
               /\ activation' \in Activations
    <3>0. activation' \in Activations
      BY <2>1 DEF WriteContent, Activations
    <3>1. CASE mode = "enabled"
      <4>1. lastId' = lastId + 1 /\ DOMAIN outbox' = DOMAIN outbox \cup {lastId + 1}
        BY <2>1, <3>1 DEF WriteContent, Trigger
      <4>2. ASSUME NEW i \in DOMAIN outbox' PROVE outbox'[i] \in OutboxRows
        <5>1. CASE i = lastId + 1
          <6>1. outbox'[i] = [target |-> t, value |-> v, lease |-> NoLease, expired |-> FALSE]
            BY <2>1, <3>1, <4>1, <5>1 DEF WriteContent, Trigger
          <6> QED BY <6>1
        <5>2. CASE i # lastId + 1
          BY <2>1, <3>1, <4>1, <5>2 DEF WriteContent, Trigger
        <5> QED BY <5>1, <5>2
      <4>3. outbox' = [i \in DOMAIN outbox' |-> outbox'[i]]
        BY <2>1, <3>1 DEF WriteContent, Trigger
      <4> QED BY <2>1, <3>0, <4>1, <4>2, <4>3 DEF WriteContent
    <3>2. CASE mode # "enabled"
      BY <2>1, <3>0, <3>2 DEF WriteContent, Trigger
    <3> QED BY <3>1, <3>2
  <2>2. ASSUME NEW t \in Targets, CreateContent(t) PROVE TypeOK'
    <3>1. 1 \in Values BY BoundAssumption
    <3> QED BY <2>1, <2>2, <3>1 DEF CreateContent, WriteContent
  <2>3. ASSUME NEW t \in Targets, UpdateContent(t) PROVE TypeOK'
    <3>1. content[t] + 1 \in Values BY <2>3, BoundAssumption DEF UpdateContent
    <3> QED BY <2>1, <2>3, <3>1 DEF UpdateContent, WriteContent
  <2>4. ASSUME NEW t \in Targets, DeleteContent(t) PROVE TypeOK'
    <3>1. NoRow \in Values BY BoundAssumption
    <3> QED BY <2>1, <2>4, <3>1 DEF DeleteContent, WriteContent
  <2>5. CASE ActivationStep
    <3>1. NoActivation \in Activations /\ activation \in Activations
      BY DEF Activations, NoActivation
    <3>2. activation' \in Activations
      <4>1. ASSUME NEW t \in Targets, CompareTarget(t) PROVE activation' \in Activations
        BY <3>1, <4>1 DEF CompareTarget, Activations
      <4>2. [NoActivation EXCEPT !.running = TRUE] \in Activations
        BY <3>1 DEF Activations
      <4>3. [NoActivation EXCEPT !.missed = activation.missed] \in Activations
        BY <3>1 DEF Activations
      <4> QED
        BY <2>5, <3>1, <4>1, <4>2, <4>3
        DEF ActivationStep, DisableIntegration, CountPending, EnableIntegration
    <3>3. /\ UNCHANGED <<content, allocated, outbox, lastId, edge, pc, held>>
          /\ mode' \in {"enabled", "disabled"}
      BY <2>5 DEF ActivationStep, DisableIntegration, CountPending, CompareTarget,
         EnableIntegration, studioVars, drainVars
    <3> QED BY <3>2, <3>3
  <2>6. ASSUME NEW d \in Drains, NEW force \in BOOLEAN, BeginDrain(d, force) PROVE TypeOK'
    BY <2>6 DEF BeginDrain, studioVars
  <2>7. ASSUME NEW d \in Drains, ClaimUpdate(d) PROVE TypeOK'
    <3>1. \A i \in DOMAIN outbox : outbox'[i] \in OutboxRows
      BY <2>7 DEF ClaimUpdate
    <3> QED BY <2>7, <3>1 DEF ClaimUpdate
  <2>8. ASSUME NEW d \in Drains, ClaimSelect(d) PROVE TypeOK'
    <3>1. {EventOf(i) : i \in RowsLeasedBy(d)} \subseteq Events
      BY DEF EventOf, RowsLeasedBy, Events
    <3> QED BY <2>8, <3>1 DEF ClaimSelect, studioVars
  <2>9. ASSUME NEW d \in Drains PROVE Replayed(d) \in [Targets -> Values]
    BY DEF Replayed, Events
  <2>10. ASSUME NEW d \in Drains, ApplyBatch(d) PROVE TypeOK'
    BY <2>9, <2>10 DEF ApplyBatch, studioVars
  <2>11. ASSUME NEW d \in Drains, ApplyFails(d) PROVE TypeOK'
    BY <2>9, <2>11 DEF ApplyFails, studioVars
  <2>12. ASSUME NEW d \in Drains, ReleaseLease(d) PROVE TypeOK'
    <3>1. \A i \in DOMAIN outbox : outbox'[i] \in OutboxRows
      BY <2>12 DEF ReleaseLease
    <3> QED BY <2>12, <3>1 DEF ReleaseLease, Finish
  <2>13. ASSUME NEW d \in Drains, Acknowledge(d) PROVE TypeOK'
    BY <2>13 DEF Acknowledge, Finish, RowsLeasedBy
  <2>14. ASSUME NEW d \in Drains, AbandonDrain(d) PROVE TypeOK'
    <3>1. \A i \in DOMAIN outbox : outbox'[i] \in OutboxRows
      BY <2>14 DEF AbandonDrain, WithoutHolder
    <3> QED BY <2>14, <3>1 DEF AbandonDrain, WithoutHolder, Finish
  <2>15. ASSUME NEW h \in Drains \cup {Abandoned}, LeaseExpires(h) PROVE TypeOK'
    <3>1. \A i \in DOMAIN outbox : outbox'[i] \in OutboxRows
      BY <2>15 DEF LeaseExpires
    <3> QED BY <2>15, <3>1 DEF LeaseExpires, drainVars
  <2>16. CASE UNCHANGED vars
    BY <2>16 DEF vars
  <2> QED
    BY <2>2, <2>3, <2>4, <2>5, <2>6, <2>7, <2>8, <2>10, <2>11, <2>12, <2>13,
       <2>14, <2>15, <2>16 DEF Next, ContentStep, DrainStep
<1> QED BY <1>1, <1>2, PTL DEF Spec
-----------------------------------------------------------------------------
\* What a content write does to the outbox: one row more, without a lease and
\* younger than every other, or nothing.
LEMMA WriteOutbox ==
  ASSUME TypeOK, NEW t \in Targets, NEW v, WriteContent(t, v)
  PROVE  /\ mode = "enabled" =>
              /\ DOMAIN outbox' = DOMAIN outbox \cup {lastId + 1}
              /\ lastId + 1 \notin DOMAIN outbox
              /\ outbox'[lastId + 1] = [target |-> t, value |-> v,
                                       lease |-> NoLease, expired |-> FALSE]
              /\ \A i \in DOMAIN outbox : outbox'[i] = outbox[i] /\ i < lastId + 1
         /\ mode # "enabled" => outbox' = outbox
         /\ UNCHANGED <<mode, edge, pc, held>>
         /\ content' = [content EXCEPT ![t] = v]
<1>1. \A i \in DOMAIN outbox : i \in Nat /\ i < lastId + 1
  BY DEF TypeOK
<1>2. lastId + 1 \notin DOMAIN outbox
  BY <1>1
<1>3. CASE mode = "enabled"
  BY <1>1, <1>2, <1>3 DEF WriteContent, Trigger
<1>4. CASE mode # "enabled"
  BY <1>4 DEF WriteContent, Trigger
<1> QED BY <1>3, <1>4

\* A content write is what every content step amounts to.
LEMMA ContentStepWrites ==
  ASSUME ContentStep
  PROVE  \E t \in Targets : \E v : WriteContent(t, v)
BY DEF ContentStep, CreateContent, UpdateContent, DeleteContent

LEMMA LeaseStep ==
  ASSUME TypeOK, LeaseInv, DrainsWithinLease, [Next]_vars
  PROVE  LeaseInv'
<1> USE DEF LeaseInv, EarlierRow, RowsLeasedBy
<1>1. CASE ContentStep
  <2>0. PICK t \in Targets : \E v : WriteContent(t, v)
    BY <1>1, ContentStepWrites
  <2>1. PICK v : WriteContent(t, v)
    BY <2>0
  <2>2. CASE mode = "enabled"
    <3>1. /\ DOMAIN outbox' = DOMAIN outbox \cup {lastId + 1}
          /\ lastId + 1 \notin DOMAIN outbox
          /\ \A i \in DOMAIN outbox : outbox'[i] = outbox[i] /\ i < lastId + 1
          /\ outbox'[lastId + 1].lease = NoLease
          /\ pc' = pc
      <4>1. outbox'[lastId + 1] = [target |-> t, value |-> v,
                                   lease |-> NoLease, expired |-> FALSE]
        BY <2>1, <2>2, WriteOutbox
      <4>2. /\ DOMAIN outbox' = DOMAIN outbox \cup {lastId + 1}
            /\ lastId + 1 \notin DOMAIN outbox
            /\ \A i \in DOMAIN outbox : outbox'[i] = outbox[i] /\ i < lastId + 1
            /\ pc' = pc
        BY <2>1, <2>2, WriteOutbox
      <4> QED BY <4>1, <4>2
    <3>2. lastId + 1 \in Nat /\ DOMAIN outbox \subseteq Nat
      <4>1. 1 .. lastId \subseteq Nat OBVIOUS
      <4> QED BY <4>1 DEF TypeOK
    <3>3. \A i \in DOMAIN outbox : EarlierRow(i)' <=> EarlierRow(i)
      <4> SUFFICES ASSUME NEW i \in DOMAIN outbox PROVE EarlierRow(i)' <=> EarlierRow(i)
        OBVIOUS
      <4>1. ~ (lastId + 1 < i) /\ i \in Nat BY <3>1, <3>2
      <4>2. \A j \in DOMAIN outbox : outbox'[j] = outbox[j] BY <3>1
      <4> QED BY <3>1, <4>1, <4>2
    <3>4. \A d \in Drains : RowsLeasedBy(d)' = RowsLeasedBy(d)
      BY <3>1, LeaseAssumption
    <3> QED BY <3>1, <3>3, <3>4
  <2>3. CASE mode # "enabled"
    <3>1. outbox' = outbox /\ pc' = pc
      BY <2>1, <2>3, WriteOutbox
    <3> QED BY <3>1
  <2> QED BY <2>2, <2>3
<1>2. CASE ActivationStep
  BY <1>2 DEF ActivationStep, DisableIntegration, CountPending, CompareTarget,
     EnableIntegration, studioVars, drainVars
<1>3. ASSUME NEW d \in Drains, NEW force \in BOOLEAN, BeginDrain(d, force) PROVE LeaseInv'
  BY <1>3 DEF BeginDrain, studioVars, TypeOK
<1>4. ASSUME NEW d \in Drains, ClaimUpdate(d) PROVE LeaseInv'
  <2>1. FirstClaimable \subseteq Claimable
    BY DEF FirstClaimable
  <2>2. DOMAIN outbox' = DOMAIN outbox
    BY <1>4 DEF ClaimUpdate
  <2>3. \A i \in DOMAIN outbox :
          \/ /\ i \in FirstClaimable
             /\ outbox'[i] = [outbox[i] EXCEPT !.lease = d, !.expired = FALSE]
          \/ i \notin FirstClaimable /\ outbox'[i] = outbox[i]
    BY <1>4 DEF ClaimUpdate
  <2>4. \A i \in DOMAIN outbox :
          /\ outbox'[i].target = outbox[i].target
          /\ i \in FirstClaimable => outbox'[i].lease = d /\ ~ outbox'[i].expired
    BY <2>3 DEF TypeOK, OutboxRows
  <2>5. \A i \in FirstClaimable : ~ EarlierRow(i)
    BY <2>1 DEF Claimable
  <2>6. pc' = [pc EXCEPT ![d] = "leased"] /\ pc[d] = "ready"
    BY <1>4 DEF ClaimUpdate
  <2>7. (\A i \in DOMAIN outbox : outbox[i].lease # NoLease => ~ EarlierRow(i))'
    BY <2>2, <2>3, <2>4, <2>5
  <2>8. ASSUME NEW c \in Drains, pc'[c] \in {"idle", "ready"}
        PROVE  RowsLeasedBy(c)' = {}
    <3>1. c # d /\ pc[c] \in {"idle", "ready"}
      BY <2>6, <2>8 DEF TypeOK
    <3>2. RowsLeasedBy(c) = {}
      BY <3>1
    <3>3. \A i \in DOMAIN outbox : outbox'[i].lease # c
      BY <2>3, <2>4, <3>1, <3>2
    <3> QED BY <2>2, <3>3
  <2>9. ASSUME NEW c \in Drains, pc'[c] \in {"leased", "claimed"}, NEW i \in RowsLeasedBy(c)'
        PROVE  ~ outbox'[i].expired
    <3>1. CASE c = d
      <4>1. i \in FirstClaimable BY <2>2, <2>3, <2>6, <2>9, <3>1
      <4> QED BY <2>4, <4>1, <2>2
    <3>2. CASE c # d
      <4>1. pc[c] \in {"leased", "claimed"} BY <2>6, <2>9, <3>2 DEF TypeOK
      <4>2. i \notin FirstClaimable BY <2>2, <2>4, <2>9, <3>2
      <4> QED BY <2>2, <2>3, <2>9, <4>1, <4>2
    <3> QED BY <3>1, <3>2
  <2> QED BY <2>7, <2>8, <2>9
<1>5. ASSUME NEW d \in Drains, ClaimSelect(d) PROVE LeaseInv'
  BY <1>5 DEF ClaimSelect, studioVars, TypeOK
<1>6. ASSUME NEW d \in Drains, ApplyBatch(d) \/ ApplyFails(d) PROVE LeaseInv'
  BY <1>6 DEF ApplyBatch, ApplyFails, studioVars, TypeOK
<1>7. ASSUME NEW d \in Drains, ReleaseLease(d) PROVE LeaseInv'
  <2>1. DOMAIN outbox' = DOMAIN outbox
    BY <1>7 DEF ReleaseLease
  <2>2. \A i \in DOMAIN outbox :
          /\ outbox'[i].target = outbox[i].target
          /\ outbox[i].lease # d => outbox'[i] = outbox[i]
          /\ outbox[i].lease = d => outbox'[i].lease = NoLease
    BY <1>7 DEF ReleaseLease, TypeOK, OutboxRows
  <2>3. pc' = [pc EXCEPT ![d] = "idle"]
    BY <1>7 DEF ReleaseLease, Finish
  <2>4. RowsLeasedBy(d)' = {}
    BY <2>1, <2>2, LeaseAssumption
  <2>5. \A c \in Drains : c # d => RowsLeasedBy(c)' = RowsLeasedBy(c) /\ pc'[c] = pc[c]
    BY <2>1, <2>2, <2>3, LeaseAssumption DEF TypeOK
  <2>6. pc'[d] = "idle"
    BY <2>3 DEF TypeOK
  <2>7. (\A i \in DOMAIN outbox : outbox[i].lease # NoLease => ~ EarlierRow(i))'
    BY <2>1, <2>2
  <2> QED BY <2>1, <2>2, <2>4, <2>5, <2>6, <2>7
<1>8. ASSUME NEW d \in Drains, Acknowledge(d) PROVE LeaseInv'
  BY <1>8 DEF Acknowledge, Finish, TypeOK, OutboxRows
<1>9. ASSUME NEW d \in Drains, AbandonDrain(d) PROVE LeaseInv'
  <2>1. DOMAIN outbox' = DOMAIN outbox
    BY <1>9 DEF AbandonDrain, WithoutHolder
  <2>2. \A i \in DOMAIN outbox :
          /\ outbox'[i].target = outbox[i].target
          /\ outbox'[i].expired = outbox[i].expired
          /\ outbox[i].lease # d => outbox'[i].lease = outbox[i].lease
          /\ outbox[i].lease = d => outbox'[i].lease = Abandoned
    BY <1>9, LeaseAssumption DEF AbandonDrain, WithoutHolder, TypeOK, OutboxRows
  <2>3. pc' = [pc EXCEPT ![d] = "idle"]
    BY <1>9 DEF AbandonDrain, Finish
  <2>4. RowsLeasedBy(d)' = {}
    BY <2>1, <2>2, LeaseAssumption
  <2>5. \A c \in Drains : c # d => RowsLeasedBy(c)' = RowsLeasedBy(c) /\ pc'[c] = pc[c]
    BY <2>1, <2>2, <2>3, LeaseAssumption DEF TypeOK
  <2>6. pc'[d] = "idle"
    BY <2>3 DEF TypeOK
  <2>7. (\A i \in DOMAIN outbox : outbox[i].lease # NoLease => ~ EarlierRow(i))'
    BY <2>1, <2>2, LeaseAssumption
  <2> QED BY <2>1, <2>2, <2>4, <2>5, <2>6, <2>7
<1>10. ASSUME NEW h \in Drains \cup {Abandoned}, LeaseExpires(h) PROVE LeaseInv'
  BY <1>10, LeaseAssumption DEF LeaseExpires, drainVars, TypeOK, OutboxRows
<1>11. CASE UNCHANGED vars
  BY <1>11 DEF vars
<1> QED
  BY <1>1, <1>2, <1>3, <1>4, <1>5, <1>6, <1>7, <1>8, <1>9, <1>10, <1>11
  DEF Next, DrainStep

-----------------------------------------------------------------------------
\* Rows change their lease and nothing else; only an acknowledgement removes
\* rows, and only those under the lease of the drain that acknowledges.
LEMMA RowsKeepEvents ==
  ASSUME TypeOK, [Next]_vars
  PROVE  \A i \in DOMAIN outbox \cap DOMAIN outbox' :
           outbox'[i].target = outbox[i].target /\ outbox'[i].value = outbox[i].value
<1>1. CASE ContentStep
  <2>0. PICK t \in Targets : \E v : WriteContent(t, v)
    BY <1>1, ContentStepWrites
  <2>1. PICK v : WriteContent(t, v)
    BY <2>0
  <2> QED BY <2>1, WriteOutbox
<1>2. CASE ActivationStep
  BY <1>2 DEF ActivationStep, DisableIntegration, CountPending, CompareTarget,
     EnableIntegration, studioVars
<1>3. ASSUME NEW d \in Drains, DrainStep(d)
      PROVE  \A i \in DOMAIN outbox \cap DOMAIN outbox' :
               outbox'[i].target = outbox[i].target /\ outbox'[i].value = outbox[i].value
  <2> DEFINE Kept == \A i \in DOMAIN outbox \cap DOMAIN outbox' :
               outbox'[i].target = outbox[i].target /\ outbox'[i].value = outbox[i].value
  <2>1. ASSUME ClaimUpdate(d) PROVE Kept
    <3>1. \A i \in DOMAIN outbox :
            \/ outbox'[i] = [outbox[i] EXCEPT !.lease = d, !.expired = FALSE]
            \/ outbox'[i] = outbox[i]
      BY <2>1 DEF ClaimUpdate
    <3> QED BY <3>1 DEF TypeOK, OutboxRows
  <2>2. ASSUME ReleaseLease(d) PROVE Kept
    <3>1. \A i \in DOMAIN outbox :
            \/ outbox'[i] = [outbox[i] EXCEPT !.lease = NoLease, !.expired = FALSE]
            \/ outbox'[i] = outbox[i]
      BY <2>2 DEF ReleaseLease
    <3> QED BY <3>1 DEF TypeOK, OutboxRows
  <2>3. Acknowledge(d) => Kept
    BY DEF Acknowledge
  <2>4. AbandonDrain(d) => Kept
    BY DEF AbandonDrain, WithoutHolder, TypeOK, OutboxRows
  <2> QED
    BY <1>3, <2>1, <2>2, <2>3, <2>4 DEF DrainStep, BeginDrain, ClaimSelect,
       ApplyBatch, ApplyFails, studioVars
<1>4. ASSUME NEW h \in Drains \cup {Abandoned}, LeaseExpires(h)
      PROVE  \A i \in DOMAIN outbox \cap DOMAIN outbox' :
               outbox'[i].target = outbox[i].target /\ outbox'[i].value = outbox[i].value
  BY <1>4 DEF LeaseExpires, TypeOK, OutboxRows
<1>5. CASE UNCHANGED vars
  BY <1>5 DEF vars
<1> QED BY <1>1, <1>2, <1>3, <1>4, <1>5 DEF Next

\* Nobody takes rows from, or gives rows to, a drain between its claim and its
\* write to Edge.
LEMMA ClaimIsStable ==
  ASSUME TypeOK, LeaseInv, [Next]_vars, NEW c \in Drains,
         pc[c] = "claimed", pc'[c] = "claimed"
  PROVE  RowsLeasedBy(c)' = RowsLeasedBy(c) /\ held'[c] = held[c]
<1> USE DEF RowsLeasedBy
<1>1. CASE ContentStep
  <2>0. PICK t \in Targets : \E v : WriteContent(t, v)
    BY <1>1, ContentStepWrites
  <2>1. PICK v : WriteContent(t, v)
    BY <2>0
  <2>2. CASE mode = "enabled"
    <3>1. outbox'[lastId + 1] = [target |-> t, value |-> v,
                                 lease |-> NoLease, expired |-> FALSE]
      BY <2>1, <2>2, WriteOutbox
    <3>2. outbox'[lastId + 1].lease # c
      BY <3>1, LeaseAssumption
    <3> QED BY <2>1, <2>2, <3>2, WriteOutbox
  <2>3. CASE mode # "enabled"
    BY <2>1, <2>3, WriteOutbox
  <2> QED BY <2>2, <2>3
<1>2. CASE ActivationStep
  BY <1>2 DEF ActivationStep, DisableIntegration, CountPending, CompareTarget,
     EnableIntegration, studioVars, drainVars
<1>3. ASSUME NEW d \in Drains, DrainStep(d), d # c
      PROVE  RowsLeasedBy(c)' = RowsLeasedBy(c) /\ held'[c] = held[c]
  <2>1. ASSUME ClaimUpdate(d) PROVE RowsLeasedBy(c)' = RowsLeasedBy(c) /\ held'[c] = held[c]
    <3>1. \A i \in RowsLeasedBy(c) : i \notin FirstClaimable
      BY LeaseAssumption DEF LeaseInv, FirstClaimable, Claimable
    <3>2. \A i \in FirstClaimable : i \in DOMAIN outbox => outbox'[i].lease = d
      BY <2>1 DEF ClaimUpdate, TypeOK, OutboxRows
    <3>3. \A i \in DOMAIN outbox : i \notin FirstClaimable => outbox'[i] = outbox[i]
      BY <2>1 DEF ClaimUpdate
    <3>4. DOMAIN outbox' = DOMAIN outbox /\ held' = held
      BY <2>1 DEF ClaimUpdate
    <3> QED BY <1>3, <3>1, <3>2, <3>3, <3>4
  <2>2. ASSUME ReleaseLease(d) PROVE RowsLeasedBy(c)' = RowsLeasedBy(c) /\ held'[c] = held[c]
    BY <1>3, <2>2, LeaseAssumption DEF ReleaseLease, Finish, TypeOK, OutboxRows
  <2>3. ASSUME Acknowledge(d) PROVE RowsLeasedBy(c)' = RowsLeasedBy(c) /\ held'[c] = held[c]
    BY <1>3, <2>3 DEF Acknowledge, Finish, TypeOK, OutboxRows
  <2>4. ASSUME AbandonDrain(d) PROVE RowsLeasedBy(c)' = RowsLeasedBy(c) /\ held'[c] = held[c]
    BY <1>3, <2>4, LeaseAssumption DEF AbandonDrain, WithoutHolder, Finish, TypeOK, OutboxRows
  <2> QED
    BY <1>3, <2>1, <2>2, <2>3, <2>4 DEF DrainStep, BeginDrain, ClaimSelect,
       ApplyBatch, ApplyFails, studioVars, TypeOK
<1>4. ASSUME DrainStep(c) PROVE FALSE
  BY <1>4 DEF DrainStep, BeginDrain, ClaimUpdate, ClaimSelect, ApplyBatch, ApplyFails,
     ReleaseLease, Acknowledge, AbandonDrain, Finish, TypeOK
<1>5. ASSUME NEW h \in Drains \cup {Abandoned}, LeaseExpires(h)
      PROVE  RowsLeasedBy(c)' = RowsLeasedBy(c) /\ held'[c] = held[c]
  BY <1>5 DEF LeaseExpires, drainVars, TypeOK, OutboxRows
<1>6. CASE UNCHANGED vars
  BY <1>6 DEF vars
<1> QED BY <1>1, <1>2, <1>3, <1>4, <1>5, <1>6 DEF Next

LEMMA HeldStep ==
  ASSUME TypeOK, LeaseInv, HeldInv, [Next]_vars
  PROVE  HeldInv'
<1> SUFFICES ASSUME NEW c \in Drains, pc'[c] = "claimed"
             PROVE  held'[c] = {EventOf(i) : i \in RowsLeasedBy(c)}'
  BY DEF HeldInv
<1>1. CASE pc[c] = "claimed"
  <2>1. RowsLeasedBy(c)' = RowsLeasedBy(c) /\ held'[c] = held[c]
    BY <1>1, ClaimIsStable
  <2>2. \A i \in RowsLeasedBy(c) : EventOf(i)' = EventOf(i)
    <3>1. \A i \in RowsLeasedBy(c) : i \in DOMAIN outbox \cap DOMAIN outbox'
      BY <2>1 DEF RowsLeasedBy
    <3> QED BY <3>1, RowsKeepEvents DEF EventOf
  <2>3. held[c] = {EventOf(i) : i \in RowsLeasedBy(c)}
    BY <1>1 DEF HeldInv
  <2> QED BY <2>1, <2>2, <2>3
<1>2. CASE pc[c] # "claimed"
  <2>1. ClaimSelect(c)
    <3>1. pc' # pc BY <1>2
    <3>2. PICK d \in Drains : DrainStep(d)
      <4>1. ContentStep => pc' = pc
        BY ContentStepWrites, WriteOutbox
      <4> QED
        BY <3>1, <4>1 DEF Next, ActivationStep, DisableIntegration, CountPending,
           CompareTarget, EnableIntegration, LeaseExpires, drainVars, vars
    <3> QED
      BY <1>2, <3>2 DEF DrainStep, BeginDrain, ClaimUpdate, ClaimSelect, ApplyBatch,
         ApplyFails, ReleaseLease, Acknowledge, AbandonDrain, Finish, TypeOK
  <2>2. outbox' = outbox /\ held'[c] = {EventOf(i) : i \in RowsLeasedBy(c)}
    BY <2>1 DEF ClaimSelect, studioVars, TypeOK
  <2> QED BY <2>2 DEF EventOf, RowsLeasedBy
<1> QED BY <1>1, <1>2

\* Replaying the events of a drain writes, for each leased row, its value.
LEMMA ReplayWritesRows ==
  ASSUME TypeOK, LeaseInv, HeldInv, NEW d \in Drains, pc[d] = "claimed"
  PROVE  /\ \A i \in RowsLeasedBy(d) : Replayed(d)[outbox[i].target] = outbox[i].value
         /\ \A t \in Targets : (\A i \in RowsLeasedBy(d) : outbox[i].target # t)
                               => Replayed(d)[t] = edge[t]
<1>1. held[d] = {EventOf(i) : i \in RowsLeasedBy(d)}
  BY DEF HeldInv
<1>2. \A i, j \in RowsLeasedBy(d) : outbox[i].target = outbox[j].target => i = j
  <2> SUFFICES ASSUME NEW i \in RowsLeasedBy(d), NEW j \in RowsLeasedBy(d),
                      outbox[i].target = outbox[j].target
               PROVE  i = j
    OBVIOUS
  <2>1. ~ EarlierRow(i) /\ ~ EarlierRow(j)
    BY LeaseAssumption DEF LeaseInv, RowsLeasedBy
  <2>2. i \in Nat /\ j \in Nat
    BY DEF RowsLeasedBy, TypeOK
  <2> QED BY <2>1, <2>2 DEF EarlierRow, RowsLeasedBy
<1>3. ASSUME NEW i \in RowsLeasedBy(d)
      PROVE  Replayed(d)[outbox[i].target] = outbox[i].value
  <2> DEFINE e == CHOOSE e \in held[d] : e.target = outbox[i].target
  <2>1. EventOf(i) \in held[d] /\ EventOf(i).target = outbox[i].target
    BY <1>1 DEF EventOf
  <2>2. e \in held[d] /\ e.target = outbox[i].target
    BY <2>1
  <2>3. PICK j \in RowsLeasedBy(d) : e = EventOf(j)
    BY <1>1, <2>2
  <2>4. j = i
    BY <1>2, <2>2, <2>3 DEF EventOf
  <2>5. e.value = outbox[i].value
    <3> HIDE DEF e
    <3>1. e = [id |-> i, target |-> outbox[i].target, value |-> outbox[i].value]
      BY <2>3, <2>4 DEF EventOf
    <3> QED BY <3>1
  <2>6. outbox[i].target \in Targets
    BY DEF RowsLeasedBy, TypeOK, OutboxRows
  <2> QED BY <2>1, <2>5, <2>6 DEF Replayed
<1>4. ASSUME NEW t \in Targets, \A i \in RowsLeasedBy(d) : outbox[i].target # t
      PROVE  Replayed(d)[t] = edge[t]
  <2>1. ~ \E e \in held[d] : e.target = t
    BY <1>1, <1>4 DEF EventOf
  <2> QED BY <2>1 DEF Replayed
<1> QED BY <1>3, <1>4

LEMMA AppliedStep ==
  ASSUME TypeOK, LeaseInv, HeldInv, AppliedInv, [Next]_vars
  PROVE  AppliedInv'
<1> SUFFICES ASSUME NEW c \in Drains, pc'[c] = "applied", NEW i \in RowsLeasedBy(c)'
             PROVE  edge'[outbox'[i].target] = outbox'[i].value
  BY DEF AppliedInv
<1>1. CASE ContentStep
  <2>0. PICK t \in Targets : \E v : WriteContent(t, v)
    BY <1>1, ContentStepWrites
  <2>1. PICK v : WriteContent(t, v)
    BY <2>0
  <2>2. CASE mode = "enabled"
    <3>1. outbox'[lastId + 1] = [target |-> t, value |-> v,
                                 lease |-> NoLease, expired |-> FALSE]
      BY <2>1, <2>2, WriteOutbox
    <3>2. i # lastId + 1
      BY <3>1, LeaseAssumption DEF RowsLeasedBy
    <3>3. i \in DOMAIN outbox /\ outbox'[i] = outbox[i] /\ edge' = edge /\ pc' = pc
      BY <2>1, <2>2, <3>2, WriteOutbox DEF RowsLeasedBy
    <3> QED BY <3>3 DEF AppliedInv, RowsLeasedBy
  <2>3. CASE mode # "enabled"
    BY <2>1, <2>3, WriteOutbox DEF AppliedInv, RowsLeasedBy
  <2> QED BY <2>2, <2>3
<1>2. CASE ActivationStep
  BY <1>2 DEF ActivationStep, DisableIntegration, CountPending, CompareTarget,
     EnableIntegration, studioVars, drainVars, AppliedInv, RowsLeasedBy
<1>3. ASSUME NEW d \in Drains, DrainStep(d)
      PROVE  edge'[outbox'[i].target] = outbox'[i].value
  <2>1. i \in DOMAIN outbox \cap DOMAIN outbox'
    BY <1>3 DEF RowsLeasedBy, DrainStep, BeginDrain, ClaimUpdate, ClaimSelect, ApplyBatch,
       ApplyFails, ReleaseLease, Acknowledge, AbandonDrain, WithoutHolder, studioVars
  <2>2. outbox'[i].target = outbox[i].target /\ outbox'[i].value = outbox[i].value
    BY <2>1, RowsKeepEvents
  <2>3. CASE d = c
    <3>1. ApplyBatch(c)
      BY <1>3, <2>3 DEF DrainStep, BeginDrain, ClaimUpdate, ClaimSelect, ApplyFails,
         ReleaseLease, Acknowledge, AbandonDrain, Finish, TypeOK
    <3>2. i \in RowsLeasedBy(c) /\ edge' = Replayed(c) /\ pc[c] = "claimed"
      BY <3>1 DEF ApplyBatch, studioVars, RowsLeasedBy
    <3> QED BY <2>2, <3>2, ReplayWritesRows
  <2>4. CASE d # c
    <3>1. pc[c] = "applied"
      BY <1>3, <2>4 DEF DrainStep, BeginDrain, ClaimUpdate, ClaimSelect, ApplyBatch,
         ApplyFails, ReleaseLease, Acknowledge, AbandonDrain, Finish, TypeOK
    <3>2. i \in RowsLeasedBy(c)
      <4>1. ClaimUpdate(d) => outbox'[i].lease = d \/ outbox'[i] = outbox[i]
        <5>1. outbox[i] \in OutboxRows BY <2>1 DEF TypeOK
        <5>2. [outbox[i] EXCEPT !.lease = d, !.expired = FALSE].lease = d
          BY <5>1 DEF OutboxRows
        <5> QED BY <2>1, <5>2 DEF ClaimUpdate
      <4>2. ReleaseLease(d) => outbox'[i].lease = NoLease \/ outbox'[i] = outbox[i]
        <5>1. outbox[i] \in OutboxRows BY <2>1 DEF TypeOK
        <5>2. [outbox[i] EXCEPT !.lease = NoLease, !.expired = FALSE].lease = NoLease
          BY <5>1 DEF OutboxRows
        <5> QED BY <2>1, <5>2 DEF ReleaseLease
      <4>3. AbandonDrain(d) => outbox'[i].lease = Abandoned \/ outbox'[i] = outbox[i]
        BY <2>1 DEF AbandonDrain, WithoutHolder, TypeOK, OutboxRows
      <4> QED
        BY <1>3, <2>1, <2>4, <4>1, <4>2, <4>3, LeaseAssumption DEF RowsLeasedBy, DrainStep,
           BeginDrain, ClaimSelect, ApplyBatch, ApplyFails, Acknowledge, studioVars
    <3>3. edge[outbox[i].target] = outbox[i].value
      BY <3>1, <3>2 DEF AppliedInv
    <3>4. edge'[outbox[i].target] = edge[outbox[i].target]
      <4>1. CASE pc[d] = "claimed" /\ edge' = Replayed(d)
        <5>1. ASSUME NEW j \in RowsLeasedBy(d) PROVE outbox[j].target # outbox[i].target
          <6>1. i # j BY <2>4, <3>2 DEF RowsLeasedBy
          <6>2. ~ EarlierRow(i) /\ ~ EarlierRow(j)
            BY <3>2, LeaseAssumption DEF LeaseInv, RowsLeasedBy
          <6>3. i \in Nat /\ j \in Nat BY <2>1 DEF TypeOK, RowsLeasedBy
          <6> QED BY <2>1, <6>1, <6>2, <6>3 DEF EarlierRow, RowsLeasedBy
        <5>2. outbox[i].target \in Targets
          BY <2>1 DEF TypeOK, OutboxRows
        <5> QED BY <4>1, <5>1, <5>2, ReplayWritesRows
      <4>2. CASE edge' = edge
        BY <4>2
      <4> QED
        BY <1>3, <4>1, <4>2 DEF DrainStep, BeginDrain, ClaimUpdate, ClaimSelect,
           ApplyBatch, ApplyFails, ReleaseLease, Acknowledge, AbandonDrain, drainVars
    <3> QED BY <2>2, <3>3, <3>4
  <2> QED BY <2>3, <2>4
<1>4. ASSUME NEW h \in Drains \cup {Abandoned}, LeaseExpires(h)
      PROVE  edge'[outbox'[i].target] = outbox'[i].value
  BY <1>4 DEF LeaseExpires, drainVars, AppliedInv, RowsLeasedBy, TypeOK, OutboxRows
<1>5. CASE UNCHANGED vars
  BY <1>5 DEF vars, AppliedInv, RowsLeasedBy
<1> QED BY <1>1, <1>2, <1>3, <1>4, <1>5 DEF Next

LEMMA ActivationInvStep ==
  ASSUME TypeOK, LeaseInv, HeldInv, ActivationInv, [Next]_vars
  PROVE  ActivationInv'
<1>1. CASE ContentStep
  <2>0. PICK t \in Targets : \E v : WriteContent(t, v)
    BY <1>1, ContentStepWrites
  <2>1. PICK v : WriteContent(t, v)
    BY <2>0
  <2>2. /\ activation'.running = activation.running
        /\ activation'.matched = activation.matched
        /\ mode # "enabled" =>
             activation'.missed = activation.missed \cup ({t} \cap activation.matched)
    BY <2>1 DEF WriteContent, TypeOK, Activations
  <2>3. /\ UNCHANGED <<mode, edge>>
        /\ content' = [content EXCEPT ![t] = v]
        /\ mode # "enabled" => outbox' = outbox
    BY <2>1, WriteOutbox
  <2>4. ASSUME mode = "disabled", NEW u \in activation'.matched \ activation'.missed
        PROVE  edge'[u] = content'[u]
    <3>1. u # t /\ u \in activation.matched \ activation.missed /\ u \in Targets
      BY <2>2, <2>4 DEF TypeOK, Activations
    <3> QED BY <2>3, <2>4, <3>1 DEF ActivationInv, TypeOK
  <2> QED BY <2>2, <2>3, <2>4 DEF ActivationInv
<1>2. CASE ActivationStep
  <2>1. ASSUME NEW t \in Targets, CompareTarget(t) PROVE ActivationInv'
    <3>1. UNCHANGED <<mode, outbox, edge, content>>
      BY <2>1 DEF CompareTarget, studioVars
    <3>2. CASE edge[t] = content[t]
      <4>1. /\ activation'.running = activation.running
            /\ activation'.matched = activation.matched \cup {t}
            /\ activation'.missed = activation.missed
        BY <2>1, <3>2 DEF CompareTarget, TypeOK, Activations
      <4> QED BY <2>1, <3>1, <3>2, <4>1 DEF ActivationInv, CompareTarget
    <3>3. CASE edge[t] # content[t]
      BY <2>1, <3>1, <3>3 DEF CompareTarget, ActivationInv, NoActivation
    <3> QED BY <3>2, <3>3
  <2> QED
    BY <1>2, <2>1 DEF ActivationStep, DisableIntegration, CountPending,
       EnableIntegration, studioVars, drainVars, ActivationInv, NoActivation
<1>3. ASSUME NEW d \in Drains, DrainStep(d) PROVE ActivationInv'
  <2>1. UNCHANGED <<mode, activation, content>> /\ DOMAIN outbox' \subseteq DOMAIN outbox
    BY <1>3 DEF DrainStep, BeginDrain, ClaimUpdate, ClaimSelect, ApplyBatch, ApplyFails,
       ReleaseLease, Acknowledge, AbandonDrain, WithoutHolder, studioVars
  <2>2. DOMAIN outbox = {} => edge' = edge
    <3>1. CASE pc[d] = "claimed" /\ edge' = Replayed(d) /\ DOMAIN outbox = {}
      <4>1. \A t \in Targets : Replayed(d)[t] = edge[t]
        BY <3>1, ReplayWritesRows DEF RowsLeasedBy
      <4> QED BY <3>1, <4>1 DEF Replayed, TypeOK
    <3> QED
      BY <1>3, <3>1 DEF DrainStep, BeginDrain, ClaimUpdate, ClaimSelect,
         ApplyBatch, ApplyFails, ReleaseLease, Acknowledge, AbandonDrain, drainVars
  <2>3. activation.running => edge' = edge
    BY <2>2 DEF ActivationInv
  <2>4. activation.matched # {} => activation.running
    BY DEF ActivationInv
  <2> QED BY <2>1, <2>3, <2>4 DEF ActivationInv
<1>4. ASSUME NEW h \in Drains \cup {Abandoned}, LeaseExpires(h) PROVE ActivationInv'
  BY <1>4 DEF LeaseExpires, ActivationInv
<1>5. CASE UNCHANGED vars
  BY <1>5 DEF vars, ActivationInv
<1> QED BY <1>1, <1>2, <1>3, <1>4, <1>5 DEF Next

LEMMA ProjectionStep ==
  ASSUME TypeOK, LeaseInv, HeldInv, AppliedInv, ActivationInv, NoLostProjection, [Next]_vars
  PROVE  NoLostProjection'
<1> SUFFICES ASSUME mode' = "enabled", NEW u \in Targets, u \notin activation'.missed
             PROVE  /\ PendingOf(u)' = {} => edge'[u] = content'[u]
                    /\ \A i \in PendingOf(u)' :
                         (\A j \in PendingOf(u)' : j <= i) => outbox'[i].value = content'[u]
  BY DEF NoLostProjection
<1> DEFINE Goal == /\ PendingOf(u)' = {} => edge'[u] = content'[u]
                   /\ \A i \in PendingOf(u)' :
                        (\A j \in PendingOf(u)' : j <= i) => outbox'[i].value = content'[u]
<1>1. CASE ContentStep
  <2>0. PICK t \in Targets : \E v : WriteContent(t, v)
    BY <1>1, ContentStepWrites
  <2>1. PICK v : WriteContent(t, v)
    BY <2>0
  <2>2. /\ mode = "enabled" /\ edge' = edge
        /\ content' = [content EXCEPT ![t] = v]
        /\ DOMAIN outbox' = DOMAIN outbox \cup {lastId + 1}
        /\ lastId + 1 \notin DOMAIN outbox
        /\ \A i \in DOMAIN outbox : outbox'[i] = outbox[i] /\ i < lastId + 1
    BY <2>1, WriteOutbox
  <2>a. activation'.missed = activation.missed \ {t}
    BY <2>1, <2>2 DEF WriteContent, TypeOK, Activations
  <2>3. outbox'[lastId + 1].target = t /\ outbox'[lastId + 1].value = v
    <3>1. outbox'[lastId + 1] = [target |-> t, value |-> v,
                                 lease |-> NoLease, expired |-> FALSE]
      BY <2>1, <2>2, WriteOutbox
    <3> QED BY <3>1
  <2>4. lastId + 1 \in Nat /\ \A i \in DOMAIN outbox : i \in Nat
    BY DEF TypeOK
  <2>5. CASE u = t
    <3>1. lastId + 1 \in PendingOf(u)'
      BY <2>2, <2>3, <2>5 DEF PendingOf
    <3>2. \A i \in PendingOf(u)' : i # lastId + 1 => ~ (lastId + 1 <= i)
      BY <2>2, <2>4 DEF PendingOf
    <3>3. content'[u] = v
      BY <2>2, <2>5 DEF TypeOK
    <3> QED BY <2>3, <3>1, <3>2, <3>3
  <2>6. CASE u # t
    <3>1. PendingOf(u)' = PendingOf(u)
      BY <2>2, <2>3, <2>6 DEF PendingOf
    <3>2. content'[u] = content[u] /\ \A i \in PendingOf(u) : outbox'[i] = outbox[i]
      BY <2>2, <2>6 DEF TypeOK, PendingOf
    <3>3. u \notin activation.missed
      BY <2>6, <2>a
    <3> QED BY <2>2, <3>1, <3>2, <3>3 DEF NoLostProjection
  <2> QED BY <2>5, <2>6
<1>2. CASE ActivationStep
  <2>1. EnableIntegration
    <3>1. ActivationInv /\ activation.running => mode = "disabled"
      BY DEF ActivationInv
    <3> QED
      BY <1>2, <3>1 DEF ActivationStep, DisableIntegration, CountPending, CompareTarget,
         studioVars
  <2>2. /\ activation.running /\ activation.matched = Targets
        /\ activation'.missed = activation.missed
        /\ UNCHANGED <<content, outbox, edge>>
    BY <2>1 DEF EnableIntegration, NoActivation
  <2>3. PendingOf(u)' = {}
    BY <2>2 DEF ActivationInv, PendingOf
  <2>4. edge[u] = content[u]
    BY <2>2 DEF ActivationInv
  <2> QED BY <2>2, <2>3, <2>4
<1>3. ASSUME NEW d \in Drains, DrainStep(d) PROVE Goal
  <2>1. UNCHANGED <<mode, content, activation>> /\ DOMAIN outbox' \subseteq DOMAIN outbox
    BY <1>3 DEF DrainStep, BeginDrain, ClaimUpdate, ClaimSelect, ApplyBatch, ApplyFails,
       ReleaseLease, Acknowledge, AbandonDrain, WithoutHolder, studioVars
  <2>2. \A i \in DOMAIN outbox' :
          outbox'[i].target = outbox[i].target /\ outbox'[i].value = outbox[i].value
    BY <2>1, RowsKeepEvents
  <2>3. CASE DOMAIN outbox' = DOMAIN outbox
    <3>1. PendingOf(u)' = PendingOf(u)
      BY <2>2, <2>3 DEF PendingOf
    <3>2. PendingOf(u) = {} => edge'[u] = edge[u]
      <4>1. CASE pc[d] = "claimed" /\ edge' = Replayed(d)
        <5>1. PendingOf(u) = {} => \A i \in RowsLeasedBy(d) : outbox[i].target # u
          BY DEF PendingOf, RowsLeasedBy
        <5> QED BY <4>1, <5>1, ReplayWritesRows
      <4> QED
        BY <1>3, <4>1 DEF DrainStep, BeginDrain, ClaimUpdate, ClaimSelect,
           ApplyBatch, ApplyFails, ReleaseLease, Acknowledge, AbandonDrain, drainVars
    <3>3. \A i \in PendingOf(u)' : outbox'[i].value = outbox[i].value
      BY <2>2 DEF PendingOf
    <3> QED BY <2>1, <3>1, <3>2, <3>3 DEF NoLostProjection
  <2>4. CASE DOMAIN outbox' # DOMAIN outbox
    <3>1. Acknowledge(d)
      BY <1>3, <2>4 DEF DrainStep, BeginDrain, ClaimUpdate, ClaimSelect, ApplyBatch,
         ApplyFails, ReleaseLease, AbandonDrain, WithoutHolder, studioVars
    <3>2. /\ DOMAIN outbox' = DOMAIN outbox \ RowsLeasedBy(d)
          /\ edge' = edge /\ pc[d] = "applied"
      BY <3>1 DEF Acknowledge
    <3>3. \A i \in RowsLeasedBy(d) :
            edge[outbox[i].target] = outbox[i].value /\ ~ EarlierRow(i)
      BY <3>2, LeaseAssumption DEF AppliedInv, LeaseInv, RowsLeasedBy
    <3>4. \A i \in DOMAIN outbox : i \in Nat
      BY DEF TypeOK
    <3>5. CASE \E i \in RowsLeasedBy(d) : outbox[i].target = u
      <4>1. PICK i \in RowsLeasedBy(d) : outbox[i].target = u
        BY <3>5
      <4>2. i \in PendingOf(u) /\ \A j \in PendingOf(u) : i <= j
        BY <3>3, <3>4, <4>1 DEF PendingOf, RowsLeasedBy, EarlierRow
      <4>3. \A j \in PendingOf(u) : j # i => j \notin RowsLeasedBy(d)
        <5> SUFFICES ASSUME NEW j \in PendingOf(u), j # i, j \in RowsLeasedBy(d) PROVE FALSE
          OBVIOUS
        <5>1. i < j
          BY <3>4, <4>2 DEF PendingOf
        <5>2. EarlierRow(j)
          BY <4>1, <5>1 DEF EarlierRow, PendingOf, RowsLeasedBy
        <5> QED BY <3>3, <5>2
      <4>4. PendingOf(u)' = PendingOf(u) \ {i}
        BY <2>2, <3>2, <4>1, <4>3 DEF PendingOf
      <4>5. CASE PendingOf(u) = {i}
        <5>1. outbox[i].value = content[u]
          BY <3>4, <4>5, <4>2, <2>1 DEF NoLostProjection, PendingOf
        <5> QED BY <2>1, <3>2, <3>3, <4>1, <4>4, <4>5, <5>1
      <4>6. CASE PendingOf(u) # {i}
        <5>1. PICK k \in PendingOf(u) : k # i
          BY <4>2, <4>6
        <5>2. \A m \in PendingOf(u)' : (\A j \in PendingOf(u)' : j <= m)
                                      => \A j \in PendingOf(u) : j <= m
          <6> SUFFICES ASSUME NEW m \in PendingOf(u)', \A j \in PendingOf(u)' : j <= m
                       PROVE  i <= m
            BY <4>4
          <6> QED BY <4>2, <4>4
        <5>3. PendingOf(u)' # {}
          BY <4>4, <5>1
        <5>4. \A m \in PendingOf(u)' : outbox'[m].value = outbox[m].value
          BY <2>2 DEF PendingOf
        <5> QED BY <2>1, <4>4, <5>2, <5>3, <5>4 DEF NoLostProjection
      <4> QED BY <4>5, <4>6
    <3>6. CASE ~ \E i \in RowsLeasedBy(d) : outbox[i].target = u
      <4>1. PendingOf(u)' = PendingOf(u)
        BY <2>2, <3>2, <3>6 DEF PendingOf
      <4>2. \A m \in PendingOf(u)' : outbox'[m].value = outbox[m].value
        BY <2>2 DEF PendingOf
      <4> QED BY <2>1, <3>2, <4>1, <4>2 DEF NoLostProjection
    <3> QED BY <3>5, <3>6
  <2> QED BY <2>3, <2>4
<1>4. ASSUME NEW h \in Drains \cup {Abandoned}, LeaseExpires(h) PROVE Goal
  <2>1. DOMAIN outbox' = DOMAIN outbox /\ UNCHANGED <<mode, content, edge, activation>>
    BY <1>4 DEF LeaseExpires
  <2>2. \A i \in DOMAIN outbox :
          outbox'[i].target = outbox[i].target /\ outbox'[i].value = outbox[i].value
    BY <2>1, RowsKeepEvents
  <2>3. PendingOf(u)' = PendingOf(u)
    BY <2>1, <2>2 DEF PendingOf
  <2>4. \A i \in PendingOf(u) : outbox'[i].value = outbox[i].value
    BY <2>2 DEF PendingOf
  <2> QED BY <2>1, <2>3, <2>4 DEF NoLostProjection
<1>5. CASE UNCHANGED vars
  BY <1>5 DEF vars, NoLostProjection, PendingOf
<1> QED BY <1>1, <1>2, <1>3, <1>4, <1>5 DEF Next

-----------------------------------------------------------------------------
LEMMA InductiveInvariant ==
  ASSUME DrainsWithinLease
  PROVE  Spec => []IndInv
<1>1. Init => IndInv
  <2> SUFFICES ASSUME Init PROVE IndInv
    OBVIOUS
  <2>1. TypeOK
    BY BoundAssumption
    DEF Init, TypeOK, Values, NoRow, DrainSteps, Activations, NoActivation
  <2>2. DOMAIN outbox = {} /\ pc = [d \in Drains |-> "idle"] /\ edge = content
        /\ activation = NoActivation
    BY DEF Init
  <2> QED
    BY <2>1, <2>2 DEF IndInv, LeaseInv, HeldInv, AppliedInv, ActivationInv,
       NoLostProjection, PendingOf, RowsLeasedBy, NoActivation
<1>2. TypeOK' /\ IndInv /\ [Next]_vars => IndInv'
  BY LeaseStep, HeldStep, AppliedStep, ActivationInvStep, ProjectionStep DEF IndInv
<1>3. Spec => []TypeOK
  BY TypeCorrect
<1> QED BY <1>1, <1>2, <1>3, PTL DEF Spec

\* No content write is lost and none is left stale on the Edge side while the
\* integration is enabled, but for a target written between its comparison and
\* the stored mode: the guarantee the outbox table exists for, with the one
\* window PUT /edge-services leaves open (NoLostProjection).
THEOREM ProjectionSafe ==
  ASSUME DrainsWithinLease
  PROVE  Spec => []NoLostProjection
BY InductiveInvariant, PTL DEF IndInv

\* Leases keep two drains from replaying the same target at the same time
\* (claimEvents in target-projection-outbox.ts).
THEOREM ReplayIsExclusive ==
  ASSUME DrainsWithinLease
  PROVE  Spec => []ExclusiveReplay
<1>1. IndInv => ExclusiveReplay
  <2> SUFFICES ASSUME IndInv, NEW c \in Drains, NEW d \in Drains, c # d,
                      pc[c] = "claimed", pc[d] = "claimed",
                      NEW e \in held[c], NEW f \in held[d], e.target = f.target
               PROVE  FALSE
    BY DEF ExclusiveReplay
  <2>1. PICK i \in RowsLeasedBy(c) : e = EventOf(i)
    BY DEF IndInv, HeldInv
  <2>2. PICK j \in RowsLeasedBy(d) : f = EventOf(j)
    BY DEF IndInv, HeldInv
  <2>3. i # j /\ outbox[i].target = outbox[j].target
    BY <2>1, <2>2 DEF RowsLeasedBy, EventOf
  <2>4. ~ EarlierRow(i) /\ ~ EarlierRow(j)
    BY <2>1, <2>2, LeaseAssumption DEF IndInv, LeaseInv, RowsLeasedBy
  <2>5. i \in Nat /\ j \in Nat
    BY DEF IndInv, TypeOK, RowsLeasedBy
  <2> QED BY <2>3, <2>4, <2>5 DEF EarlierRow, RowsLeasedBy
<1> QED BY <1>1, InductiveInvariant, PTL

\* An acknowledgement deletes only events that are mirrored on the Edge side
\* (the DELETE after EDGE_DB.batch in drainCommentTargetProjectionOutbox).
THEOREM AcknowledgedIsProjected ==
  ASSUME DrainsWithinLease
  PROVE  Spec => DeletedOnlyWhenProjected
<1>1. IndInv /\ [Next]_vars =>
        [\A i \in DOMAIN outbox \ DOMAIN outbox' :
           edge[outbox[i].target] = outbox[i].value]_vars
  <2> SUFFICES ASSUME IndInv, [Next]_vars, NEW i \in DOMAIN outbox \ DOMAIN outbox'
               PROVE  edge[outbox[i].target] = outbox[i].value
    OBVIOUS
  <2>1. PICK d \in Drains : Acknowledge(d)
    <3>1. ContentStep => DOMAIN outbox \subseteq DOMAIN outbox'
      BY ContentStepWrites, WriteOutbox DEF IndInv
    <3> QED
      BY <3>1 DEF Next, ActivationStep, DisableIntegration, CountPending, CompareTarget,
         EnableIntegration, DrainStep, BeginDrain, ClaimUpdate, ClaimSelect, ApplyBatch,
         ApplyFails, ReleaseLease, AbandonDrain, WithoutHolder, LeaseExpires, studioVars, vars
  <2>2. pc[d] = "applied" /\ i \in RowsLeasedBy(d)
    BY <2>1 DEF Acknowledge
  <2> QED BY <2>2 DEF IndInv, AppliedInv
<1> QED BY <1>1, InductiveInvariant, PTL DEF Spec, DeletedOnlyWhenProjected

-----------------------------------------------------------------------------
(* Rows by age: the n-th row of a finite set of row ids, and what becomes  *)
(* of the order when the youngest is added or the oldest is removed.       *)

LEMMA PositionType ==
  ASSUME NEW S \in SUBSET Nat, IsFiniteSet(S), NEW i \in S
  PROVE  Position(S, i) \in 1 .. Cardinality(S)
<1> DEFINE T == {j \in S : j <= i}
<1>1. i \in T OBVIOUS
<1>2. T \in SUBSET S OBVIOUS
<1> HIDE DEF T
<1>3. IsFiniteSet(T) /\ Cardinality(T) <= Cardinality(S) BY <1>2, FS_Subset
<1>4. Cardinality(T) # 0 BY <1>1, <1>3, FS_EmptySet
<1>5. Cardinality(T) \in Nat /\ Cardinality(S) \in Nat BY <1>3, FS_CardinalityType
<1>6. Cardinality(T) \in 1 .. Cardinality(S) BY <1>3, <1>4, <1>5
<1> QED BY <1>6 DEF Position, T

LEMMA PositionGrows ==
  ASSUME NEW S \in SUBSET Nat, IsFiniteSet(S), NEW i \in S, NEW j \in S, i < j
  PROVE  Position(S, i) < Position(S, j)
<1> DEFINE T == {k \in S : k <= i}
           U == {k \in S : k <= j}
<1>0. i \in Nat /\ j \in Nat /\ \A k \in S : k \in Nat OBVIOUS
<1>1. T \in SUBSET U
  <2>1. \A k \in S : k <= i => k <= j BY <1>0
  <2> QED BY <2>1
<1>2. j \in U /\ j \notin T BY <1>0
<1>3. U \in SUBSET S OBVIOUS
<1> HIDE DEF T, U
<1>4. IsFiniteSet(U) BY <1>3, FS_Subset
<1>5. IsFiniteSet(T) /\ Cardinality(T) <= Cardinality(U) /\ Cardinality(U) # Cardinality(T)
  BY <1>1, <1>2, <1>4, FS_Subset
<1>6. Cardinality(T) \in Nat /\ Cardinality(U) \in Nat BY <1>4, <1>5, FS_CardinalityType
<1>7. Cardinality(T) < Cardinality(U) BY <1>5, <1>6
<1> QED BY <1>7 DEF Position, T, U

LEMMA PositionsDiffer ==
  ASSUME NEW S \in SUBSET Nat, IsFiniteSet(S), NEW i \in S, NEW j \in S,
         Position(S, i) = Position(S, j)
  PROVE  i = j
<1>1. i \in Nat /\ j \in Nat OBVIOUS
<1>2. Position(S, i) \in Nat /\ Position(S, j) \in Nat
  <2>1. Cardinality(S) \in Nat BY FS_CardinalityType
  <2> QED BY <2>1, PositionType
<1>3. CASE i < j BY <1>2, <1>3, PositionGrows
<1>4. CASE j < i BY <1>2, <1>4, PositionGrows
<1> QED BY <1>1, <1>3, <1>4

\* The row at a position is the n-th.
LEMMA NthAt ==
  ASSUME NEW S \in SUBSET Nat, IsFiniteSet(S), NEW i \in S
  PROVE  Nth(S, Position(S, i)) = i
<1> DEFINE n == Position(S, i)
<1>1. \E j \in S : Position(S, j) = n OBVIOUS
<1> HIDE DEF n
<1>2. Nth(S, n) \in S /\ Position(S, Nth(S, n)) = n BY <1>1 DEF Nth
<1>3. Position(S, Nth(S, n)) = Position(S, i) BY <1>2 DEF n
<1>4. Nth(S, n) = i
  <2> DEFINE j == Nth(S, n)
  <2>1. j \in S /\ Position(S, j) = Position(S, i) BY <1>2, <1>3
  <2> HIDE DEF j
  <2>2. j = i BY <2>1, PositionsDiffer
  <2> QED BY <2>2 DEF j
<1> QED BY <1>4 DEF n

\* As many positions as rows, each taken by one row.
LEMMA NthExists ==
  ASSUME NEW S \in SUBSET Nat, IsFiniteSet(S), NEW n \in 1 .. Cardinality(S)
  PROVE  Nth(S, n) \in S /\ Position(S, Nth(S, n)) = n
<1> DEFINE f == [i \in S |-> Position(S, i)]
           N == 1 .. Cardinality(S)
<1>1. Cardinality(S) \in Nat BY FS_CardinalityType
<1>2. f \in [S -> N] BY PositionType
<1>3. \A i, j \in S : f[i] = f[j] => i = j BY PositionsDiffer
<1>4. IsFiniteSet(N) /\ Cardinality(N) = Cardinality(S)
  BY <1>1, FS_Interval
<1>5. f \in Injection(S, N) BY <1>2, <1>3 DEF Injection, IsInjective
<1> HIDE DEF f, N
<1>6. f \in Surjection(S, N) BY <1>4, <1>5, FS_Injection
<1>7. \E i \in S : f[i] = n BY <1>6 DEF Surjection, N
<1>8. \E i \in S : Position(S, i) = n BY <1>7 DEF f
<1> QED BY <1>8 DEF Nth

\* A younger row comes last and moves no other.
LEMMA NthAdded ==
  ASSUME NEW S \in SUBSET Nat, IsFiniteSet(S), NEW m \in Nat, \A j \in S : j < m
  PROVE  /\ IsFiniteSet(S \cup {m}) /\ Cardinality(S \cup {m}) = Cardinality(S) + 1
         /\ Nth(S \cup {m}, Cardinality(S) + 1) = m
         /\ \A n \in 1 .. Cardinality(S) : Nth(S \cup {m}, n) = Nth(S, n)
<1> DEFINE T == S \cup {m}
<1>0. m \notin S OBVIOUS
<1>1. IsFiniteSet(T) /\ Cardinality(T) = Cardinality(S) + 1 BY <1>0, FS_AddElement
<1>2. T \in SUBSET Nat /\ m \in T OBVIOUS
<1>3. Position(T, m) = Cardinality(S) + 1
  <2>1. \A j \in T : j <= m OBVIOUS
  <2>2. {j \in T : j <= m} = T BY <2>1
  <2> QED BY <1>1, <2>2 DEF Position
<1>4. Nth(T, Cardinality(S) + 1) = m BY <1>1, <1>2, <1>3, NthAt
<1>5. ASSUME NEW n \in 1 .. Cardinality(S)
      PROVE  Nth(T, n) = Nth(S, n)
  <2>1. Nth(S, n) \in S /\ Position(S, Nth(S, n)) = n BY NthExists
  <2>2. {j \in T : j <= Nth(S, n)} = {j \in S : j <= Nth(S, n)}
    <3>1. ~(m <= Nth(S, n))
      <4>1. Nth(S, n) \in Nat /\ Nth(S, n) < m BY <2>1
      <4> QED BY <4>1
    <3> QED BY <3>1
  <2>3. Position(T, Nth(S, n)) = n /\ Nth(S, n) \in T BY <2>1, <2>2 DEF Position
  <2> QED BY <1>1, <1>2, <2>3, NthAt
<1> QED BY <1>1, <1>4, <1>5

\* The oldest row comes first; without it the others move up.
LEMMA NthRemoved ==
  ASSUME NEW S \in SUBSET Nat, IsFiniteSet(S), NEW m \in S, \A j \in S : m <= j
  PROVE  /\ IsFiniteSet(S \ {m}) /\ Cardinality(S \ {m}) = Cardinality(S) - 1
         /\ Cardinality(S) \in Nat \ {0}
         /\ Nth(S, 1) = m
         /\ \A n \in 1 .. Cardinality(S) - 1 : Nth(S \ {m}, n) = Nth(S, n + 1)
<1> DEFINE T == S \ {m}
<1>1. IsFiniteSet(T) /\ Cardinality(T) = Cardinality(S) - 1 BY FS_RemoveElement
<1>2. Cardinality(S) \in Nat \ {0} BY FS_CardinalityType, FS_EmptySet
<1>3. Nth(S, 1) = m
  <2>0. \A j \in S : j <= m => j = m OBVIOUS
  <2>1. {j \in S : j <= m} = {m}
    <3>1. m <= m OBVIOUS
    <3> QED BY <2>0, <3>1
  <2>2. Position(S, m) = 1 BY <2>1, FS_Singleton DEF Position
  <2> QED BY <2>2, NthAt
<1>4. ASSUME NEW n \in 1 .. Cardinality(S) - 1
      PROVE  Nth(T, n) = Nth(S, n + 1)
  <2> DEFINE i == Nth(T, n)
             U == {j \in S : j <= i}
  <2>1. i \in T /\ Position(T, i) = n
    <3>1. T \in SUBSET Nat /\ n \in 1 .. Cardinality(T) BY <1>1
    <3> HIDE DEF T
    <3> QED BY <1>1, <3>1, NthExists
  <2> HIDE DEF i
  <2>2. i \in S /\ m \in U /\ U \in SUBSET S BY <2>1
  <2>3. {j \in T : j <= i} = U \ {m} OBVIOUS
  <2> HIDE DEF U
  <2>4. IsFiniteSet(U) BY <2>2, FS_Subset
  <2>5. Cardinality(U \ {m}) = Cardinality(U) - 1 /\ Cardinality(U) \in Nat
    BY <2>2, <2>4, FS_RemoveElement, FS_CardinalityType
  <2>6. Cardinality(U) = n + 1
    BY <2>1, <2>3, <2>5 DEF Position
  <2>7. Position(S, i) = n + 1 BY <2>6 DEF Position, U
  <2>8. Nth(S, n + 1) = i BY <2>2, <2>7, NthAt
  <2> QED BY <2>8 DEF i
<1> QED BY <1>1, <1>2, <1>3, <1>4

LEMMA OrderType ==
  ASSUME NEW S \in SUBSET Nat, IsFiniteSet(S), NEW V, NEW rows, \A i \in S : rows[i].value \in V
  PROVE  /\ InOrder(rows, S) \in Seq(V)
         /\ Len(InOrder(rows, S)) = Cardinality(S)
         /\ \A n \in 1 .. Cardinality(S) : InOrder(rows, S)[n] = rows[Nth(S, n)].value
         /\ InOrder(rows, S) = << >> <=> S = {}
<1>1. Cardinality(S) \in Nat /\ (Cardinality(S) = 0 <=> S = {}) BY FS_CardinalityType, FS_EmptySet
<1>2. \A n \in 1 .. Cardinality(S) : rows[Nth(S, n)].value \in V BY NthExists
<1> DEFINE s == InOrder(rows, S)
<1>3. /\ s \in [1 .. Cardinality(S) -> V]
      /\ \A n \in 1 .. Cardinality(S) : s[n] = rows[Nth(S, n)].value
  BY <1>2 DEF InOrder
<1> HIDE DEF s
<1>4. s \in Seq(V) BY <1>1, <1>3, SeqDef
<1>5. Len(s) = Cardinality(S)
  <2>1. Len(s) \in Nat /\ DOMAIN s = 1 .. Len(s) BY <1>4, LenProperties
  <2>2. 1 .. Len(s) = 1 .. Cardinality(S) BY <1>3, <2>1
  <2> QED BY <1>1, <2>1, <2>2, FS_Interval
<1>6. s = << >> <=> S = {}
  BY <1>1, <1>4, <1>5, EmptySeq
<1> QED BY <1>3, <1>4, <1>5, <1>6 DEF s

LEMMA OrderKept ==
  ASSUME NEW S \in SUBSET Nat, IsFiniteSet(S), NEW rows, NEW rows2,
         \A i \in S : rows2[i].value = rows[i].value
  PROVE  InOrder(rows2, S) = InOrder(rows, S)
<1>1. \A n \in 1 .. Cardinality(S) : rows2[Nth(S, n)].value = rows[Nth(S, n)].value
  BY NthExists
<1> QED BY <1>1 DEF InOrder

Younger(m, S) == \A j \in S : j < m

LEMMA OrderAdded ==
  ASSUME NEW S \in SUBSET Nat, IsFiniteSet(S), NEW rows, NEW m \in Nat, Younger(m, S)
  PROVE  InOrder(rows, S \cup {m}) = Append(InOrder(rows, S), rows[m].value)
<1> DEFINE T == S \cup {m}
           a == Append(InOrder(rows, S), rows[m].value)
           V == {rows[i].value : i \in T}
<1> USE DEF Younger
<1>0. (\A i \in S : rows[i].value \in V) /\ rows[m].value \in V OBVIOUS
<1>1. /\ IsFiniteSet(T) /\ Cardinality(T) = Cardinality(S) + 1
      /\ Nth(T, Cardinality(S) + 1) = m
      /\ \A n \in 1 .. Cardinality(S) : Nth(T, n) = Nth(S, n)
  BY NthAdded
<1>2. T \in SUBSET Nat /\ \A i \in T : rows[i].value \in V OBVIOUS
<1>3. Cardinality(S) \in Nat BY FS_CardinalityType
<1> HIDE DEF T, V
<1>5. /\ InOrder(rows, T) \in Seq(V) /\ Len(InOrder(rows, T)) = Cardinality(S) + 1
      /\ \A n \in 1 .. Cardinality(S) + 1 : InOrder(rows, T)[n] = rows[Nth(T, n)].value
  <2>1. InOrder(rows, T) \in Seq(V) BY <1>1, <1>2, OrderType
  <2>2. Len(InOrder(rows, T)) = Cardinality(T) BY <1>1, <1>2, OrderType
  <2>3. \A n \in 1 .. Cardinality(T) : InOrder(rows, T)[n] = rows[Nth(T, n)].value
    BY DEF InOrder
  <2> QED BY <1>1, <2>1, <2>2, <2>3
<1>6. /\ InOrder(rows, S) \in Seq(V) /\ Len(InOrder(rows, S)) = Cardinality(S)
      /\ \A n \in 1 .. Cardinality(S) : InOrder(rows, S)[n] = rows[Nth(S, n)].value
  <2>1. InOrder(rows, S) \in Seq(V) BY <1>0, OrderType
  <2>2. Len(InOrder(rows, S)) = Cardinality(S) BY <1>0, OrderType
  <2>3. \A n \in 1 .. Cardinality(S) : InOrder(rows, S)[n] = rows[Nth(S, n)].value BY DEF InOrder
  <2> QED BY <2>1, <2>2, <2>3
<1>7. /\ a \in Seq(V) /\ Len(a) = Cardinality(S) + 1
      /\ \A n \in 1 .. Cardinality(S) : a[n] = InOrder(rows, S)[n]
      /\ a[Cardinality(S) + 1] = rows[m].value
  BY <1>0, <1>6, AppendProperties
<1> HIDE DEF a
<1>8. \A n \in 1 .. Cardinality(S) + 1 : InOrder(rows, T)[n] = a[n]
  <2> SUFFICES ASSUME NEW n \in 1 .. Cardinality(S) + 1 PROVE InOrder(rows, T)[n] = a[n]
    OBVIOUS
  <2>1. CASE n = Cardinality(S) + 1 BY <1>1, <1>5, <1>7, <2>1
  <2>2. CASE n # Cardinality(S) + 1
    <3>1. n \in 1 .. Cardinality(S) BY <1>3, <2>2
    <3>2. InOrder(rows, T)[n] = rows[Nth(S, n)].value BY <1>1, <1>5, <3>1
    <3>3. a[n] = rows[Nth(S, n)].value BY <1>6, <1>7, <3>1
    <3> QED BY <3>2, <3>3
  <2> QED BY <2>1, <2>2
<1>9. InOrder(rows, T) = a BY <1>5, <1>7, <1>8, SeqEqual
<1> QED BY <1>9 DEF T, a

Oldest(m, S) == \A j \in S : m <= j

LEMMA OrderRemoved ==
  ASSUME NEW S \in SUBSET Nat, IsFiniteSet(S), NEW rows, NEW m \in S, Oldest(m, S)
  PROVE  /\ InOrder(rows, S) # << >>
         /\ Head(InOrder(rows, S)) = rows[m].value
         /\ InOrder(rows, S \ {m}) = Tail(InOrder(rows, S))
<1> DEFINE T == S \ {m}
           s == InOrder(rows, S)
           V == {rows[i].value : i \in S}
<1> USE DEF Oldest
<1>0. \A i \in S : rows[i].value \in V OBVIOUS
<1>1. /\ IsFiniteSet(T) /\ Cardinality(T) = Cardinality(S) - 1
      /\ Cardinality(S) \in Nat \ {0}
      /\ Nth(S, 1) = m
      /\ \A n \in 1 .. Cardinality(S) - 1 : Nth(T, n) = Nth(S, n + 1)
  BY NthRemoved
<1>2. T \in SUBSET Nat /\ \A i \in T : rows[i].value \in V OBVIOUS
<1> HIDE DEF T, V
<1>5. /\ InOrder(rows, T) \in Seq(V) /\ Len(InOrder(rows, T)) = Cardinality(S) - 1
      /\ \A n \in 1 .. Cardinality(S) - 1 : InOrder(rows, T)[n] = rows[Nth(T, n)].value
  <2>1. InOrder(rows, T) \in Seq(V) BY <1>1, <1>2, OrderType
  <2>2. Len(InOrder(rows, T)) = Cardinality(T) BY <1>1, <1>2, OrderType
  <2>3. \A n \in 1 .. Cardinality(T) : InOrder(rows, T)[n] = rows[Nth(T, n)].value
    BY DEF InOrder
  <2> QED BY <1>1, <2>1, <2>2, <2>3
<1>6. /\ s \in Seq(V) /\ Len(s) = Cardinality(S) /\ s # << >>
      /\ \A n \in 1 .. Cardinality(S) : s[n] = rows[Nth(S, n)].value
  <2>1. S # {} OBVIOUS
  <2>2. s \in Seq(V) BY <1>0, OrderType
  <2>3. Len(s) = Cardinality(S) BY <1>0, OrderType
  <2>4. s # << >> BY <1>0, <2>1, OrderType
  <2>5. \A n \in 1 .. Cardinality(S) : s[n] = rows[Nth(S, n)].value BY DEF InOrder
  <2> QED BY <2>2, <2>3, <2>4, <2>5
<1> HIDE DEF s
<1>7. Head(s) = rows[m].value
  <2>1. Head(s) = s[1] BY <1>6
  <2>2. 1 \in 1 .. Cardinality(S) BY <1>1
  <2> QED BY <1>1, <1>6, <2>1, <2>2
<1>8. /\ Tail(s) \in Seq(V) /\ Len(Tail(s)) = Cardinality(S) - 1
      /\ \A n \in 1 .. Cardinality(S) - 1 : Tail(s)[n] = s[n + 1]
  BY <1>6, HeadTailProperties
<1>9. \A n \in 1 .. Cardinality(S) - 1 : InOrder(rows, T)[n] = Tail(s)[n]
  <2> SUFFICES ASSUME NEW n \in 1 .. Cardinality(S) - 1 PROVE InOrder(rows, T)[n] = Tail(s)[n]
    OBVIOUS
  <2>1. n + 1 \in 1 .. Cardinality(S) /\ n \in 1 .. Cardinality(T) BY <1>1
  <2>2. InOrder(rows, T)[n] = rows[Nth(S, n + 1)].value BY <1>1, <1>5, <2>1
  <2>3. Tail(s)[n] = rows[Nth(S, n + 1)].value BY <1>6, <1>8, <2>1
  <2> QED BY <2>2, <2>3
<1>10. InOrder(rows, T) = Tail(s) BY <1>5, <1>8, <1>9, SeqEqual
<1> QED BY <1>6, <1>7, <1>10 DEF T, s

-----------------------------------------------------------------------------
(* The outbox implements the replication of every target in order.         *)

LEMMA PendingRows ==
  ASSUME TypeOK, NEW t \in Targets
  PROVE  /\ PendingOf(t) \in SUBSET Nat /\ IsFiniteSet(PendingOf(t))
         /\ \A i \in PendingOf(t) : outbox[i].value \in Values
<1>1. PendingOf(t) \in SUBSET (1 .. lastId) /\ lastId \in Nat BY DEF PendingOf, TypeOK
<1>2. IsFiniteSet(PendingOf(t))
  <2>1. IsFiniteSet(1 .. lastId) BY <1>1, FS_Interval
  <2> QED BY <1>1, <2>1, FS_Subset
<1>3. PendingOf(t) \in SUBSET Nat BY <1>1
<1>4. \A i \in PendingOf(t) : outbox[i].value \in Values BY DEF PendingOf, TypeOK, OutboxRows
<1> QED BY <1>2, <1>3, <1>4

\* Leases are not part of a queue.
LEMMA QueuesKept ==
  ASSUME TypeOK, [Next]_vars, DOMAIN outbox' = DOMAIN outbox
  PROVE  \A t \in Targets : QueueOf(t)' = QueueOf(t)
<1> SUFFICES ASSUME NEW t \in Targets PROVE QueueOf(t)' = QueueOf(t)
  OBVIOUS
<1>1. \A i \in DOMAIN outbox :
        outbox'[i].target = outbox[i].target /\ outbox'[i].value = outbox[i].value
  BY RowsKeepEvents
<1>2. PendingOf(t)' = PendingOf(t) BY <1>1 DEF PendingOf
<1>3. \A i \in PendingOf(t) : outbox'[i].value = outbox[i].value BY <1>1 DEF PendingOf
<1>4. InOrder(outbox', PendingOf(t)) = InOrder(outbox, PendingOf(t))
  BY <1>3, PendingRows, OrderKept
<1> QED BY <1>2, <1>4 DEF QueueOf

\* A content write appends its value to the queue of its target.
LEMMA QueueGrows ==
  ASSUME TypeOK, NEW t \in Targets, NEW v \in Values, WriteContent(t, v), mode = "enabled"
  PROVE  /\ QueueOf(t)' = Append(QueueOf(t), v)
         /\ \A u \in Targets \ {t} : QueueOf(u)' = QueueOf(u)
<1> DEFINE m == lastId + 1
<1>0. /\ DOMAIN outbox' = DOMAIN outbox \cup {m} /\ m \notin DOMAIN outbox
      /\ outbox'[m] = [target |-> t, value |-> v, lease |-> NoLease, expired |-> FALSE]
      /\ \A i \in DOMAIN outbox : outbox'[i] = outbox[i] /\ i < m
  BY WriteOutbox
<1>2. m \in Nat BY DEF TypeOK
<1> HIDE DEF m
<1>1. /\ DOMAIN outbox' = DOMAIN outbox \cup {m} /\ m \notin DOMAIN outbox
      /\ outbox'[m].target = t /\ outbox'[m].value = v
      /\ \A i \in DOMAIN outbox : outbox'[i] = outbox[i] /\ i < m
  BY <1>0
<1>3. PendingOf(t)' = PendingOf(t) \cup {m}
  BY <1>1 DEF PendingOf
<1>4. \A i \in PendingOf(t) : i < m /\ outbox'[i].value = outbox[i].value BY <1>1 DEF PendingOf
<1>5. InOrder(outbox', PendingOf(t) \cup {m}) = Append(InOrder(outbox, PendingOf(t)), outbox'[m].value)
  <2> DEFINE S == PendingOf(t)
  <2>1. S \in SUBSET Nat /\ IsFiniteSet(S) BY PendingRows
  <2>2. Younger(m, S) BY <1>4 DEF Younger
  <2>3. InOrder(outbox', S) = InOrder(outbox, S) BY <1>4, <2>1, OrderKept
  <2> HIDE DEF S
  <2>4. InOrder(outbox', S \cup {m}) = Append(InOrder(outbox', S), outbox'[m].value)
    BY <1>2, <2>1, <2>2, OrderAdded
  <2> QED BY <2>3, <2>4 DEF S
<1>6. ASSUME NEW u \in Targets \ {t} PROVE QueueOf(u)' = QueueOf(u)
  <2>1. PendingOf(u)' = PendingOf(u) BY <1>1 DEF PendingOf
  <2>2. \A i \in PendingOf(u) : outbox'[i].value = outbox[i].value BY <1>1 DEF PendingOf
  <2>3. InOrder(outbox', PendingOf(u)) = InOrder(outbox, PendingOf(u))
    BY <2>2, PendingRows, OrderKept
  <2> QED BY <2>1, <2>3 DEF QueueOf
<1> QED BY <1>1, <1>3, <1>5, <1>6 DEF QueueOf

\* The row of a target that a drain leases is the head of the queue, and
\* without it the queue is the tail.
LEMMA LeasedIsHead ==
  ASSUME TypeOK, LeaseInv, NEW d \in Drains, NEW i \in RowsLeasedBy(d)
  PROVE  LET t == outbox[i].target IN
         /\ t \in Targets /\ i \in PendingOf(t)
         /\ QueueOf(t) # << >> /\ Head(QueueOf(t)) = outbox[i].value
         /\ InOrder(outbox, PendingOf(t) \ {i}) = Tail(QueueOf(t))
<1> DEFINE t == outbox[i].target
           S == PendingOf(t)
<1>1. t \in Targets /\ i \in S BY DEF RowsLeasedBy, TypeOK, OutboxRows, PendingOf
<1>2. ~ EarlierRow(i) BY LeaseAssumption DEF LeaseInv, RowsLeasedBy
<1>3. S \in SUBSET Nat /\ IsFiniteSet(S) BY <1>1, PendingRows
<1>4. Oldest(i, S)
  <2>1. \A j \in S : ~(j < i) BY <1>2 DEF EarlierRow, PendingOf
  <2>2. \A j \in S : j \in Nat BY <1>3
  <2> HIDE DEF S
  <2> QED BY <1>1, <2>1, <2>2 DEF Oldest
<1> HIDE DEF S
<1>5. /\ InOrder(outbox, S) # << >>
      /\ Head(InOrder(outbox, S)) = outbox[i].value
      /\ InOrder(outbox, S \ {i}) = Tail(InOrder(outbox, S))
  BY <1>1, <1>3, <1>4, OrderRemoved
<1> QED BY <1>1, <1>5 DEF S, QueueOf

\* Nothing changes on the abstract side when no queue, row or mode does.
LEMMA Unseen ==
  ASSUME UNCHANGED <<content, edge, mode>>, activation'.matched = activation.matched,
         \A t \in Targets : QueueOf(t)' = QueueOf(t)
  PROVE  UNCHANGED Replication!vars
BY DEF Replication!vars

\* A content write is a write of the source, which is queued while tracked.
LEMMA ContentIsWritten ==
  ASSUME TypeOK, NEW t \in Targets, NEW v \in Values, WriteContent(t, v)
  PROVE  Replication!Write(t, v)
<1>1. /\ content' = [content EXCEPT ![t] = v]
      /\ UNCHANGED <<edge, mode>>
      /\ activation'.matched = activation.matched
  BY WriteOutbox DEF WriteContent, TypeOK, Activations
<1>2. CASE mode = "enabled"
  <2>1. QueueOf(t)' = Append(QueueOf(t), v) /\ \A u \in Targets \ {t} : QueueOf(u)' = QueueOf(u)
    BY <1>2, QueueGrows
  <2>2. [u \in Targets |-> QueueOf(u)'] =
          [[u \in Targets |-> QueueOf(u)] EXCEPT ![t] = Append(@, v)]
    <3> DEFINE a == Append(QueueOf(t), v)
    <3>1. QueueOf(t)' = a BY <2>1
    <3> HIDE DEF a
    <3>2. [u \in Targets |-> QueueOf(u)'] = [[u \in Targets |-> QueueOf(u)] EXCEPT ![t] = a]
      BY <2>1, <3>1
    <3> QED BY <3>2 DEF a
  <2> QED BY <1>1, <1>2, <2>2 DEF Replication!Write
<1>3. CASE mode # "enabled"
  <2>1. \A u \in Targets : QueueOf(u)' = QueueOf(u)
    BY <1>3, WriteOutbox DEF QueueOf, PendingOf
  <2> QED BY <1>1, <1>3, <2>1 DEF Replication!Write
<1> QED BY <1>2, <1>3

\* The targets a drain holds leases on, and what their queues start with.
TargetsLeasedBy(d) == {outbox[i].target : i \in RowsLeasedBy(d)}

LEMMA OneRowPerTarget ==
  ASSUME TypeOK, LeaseInv, NEW d \in Drains,
         NEW i \in RowsLeasedBy(d), NEW j \in RowsLeasedBy(d), outbox[i].target = outbox[j].target
  PROVE  i = j
<1>1. ~ EarlierRow(i) /\ ~ EarlierRow(j)
  BY LeaseAssumption DEF LeaseInv, RowsLeasedBy
<1>2. i \in Nat /\ j \in Nat
  BY DEF RowsLeasedBy, TypeOK
<1> QED BY <1>1, <1>2 DEF EarlierRow, RowsLeasedBy

\* A batch replays the heads of the queues of the leased targets.
LEMMA BatchReplays ==
  ASSUME TypeOK, LeaseInv, HeldInv, NEW d \in Drains, pc[d] = "claimed",
         edge' = Replayed(d), UNCHANGED <<content, mode, outbox, activation>>
  PROVE  Replication!Replay(TargetsLeasedBy(d))
<1> DEFINE S == TargetsLeasedBy(d)
<1>1. \A t \in S : QueueOf(t) # << >> /\ Replayed(d)[t] = Head(QueueOf(t))
  <2> SUFFICES ASSUME NEW i \in RowsLeasedBy(d)
               PROVE  LET t == outbox[i].target IN
                      QueueOf(t) # << >> /\ Replayed(d)[t] = Head(QueueOf(t))
    BY DEF TargetsLeasedBy
  <2> QED BY LeasedIsHead, ReplayWritesRows
<1>2. \A t \in Targets \ S : Replayed(d)[t] = edge[t]
  BY ReplayWritesRows DEF TargetsLeasedBy
<1>3. edge' = [t \in Targets |-> Replayed(d)[t]]
  BY DEF Replayed
<1>4. \A u \in Targets : QueueOf(u)' = QueueOf(u)
  BY DEF QueueOf, PendingOf
<1>5. S \subseteq Targets
  BY DEF TargetsLeasedBy, RowsLeasedBy, TypeOK, OutboxRows
<1> HIDE DEF S
<1>6. \A t \in S : [u \in Targets |-> QueueOf(u)][t] = QueueOf(t)
  BY <1>5
<1>7. edge' = [t \in Targets |->
                 IF t \in S THEN Head([u \in Targets |-> QueueOf(u)][t]) ELSE edge[t]]
  <2>1. \A t \in Targets :
          Replayed(d)[t] = IF t \in S THEN Head([u \in Targets |-> QueueOf(u)][t]) ELSE edge[t]
    <3> SUFFICES ASSUME NEW t \in Targets
                 PROVE  Replayed(d)[t] =
                        IF t \in S THEN Head([u \in Targets |-> QueueOf(u)][t]) ELSE edge[t]
      OBVIOUS
    <3>1. CASE t \in S BY <1>1, <1>6, <3>1
    <3>2. CASE t \notin S BY <1>2, <3>2
    <3> QED BY <3>1, <3>2
  <2> QED BY <1>3, <2>1
<1>8. Replication!Replay(S)
  BY <1>1, <1>4, <1>6, <1>7 DEF Replication!Replay
<1> QED BY <1>8 DEF S

\* An acknowledgement takes the heads off the queues of the leased targets,
\* which the Edge database mirrors by then.
LEMMA AcknowledgeConfirms ==
  ASSUME TypeOK, LeaseInv, AppliedInv, NEW d \in Drains, Acknowledge(d)
  PROVE  Replication!Confirm(TargetsLeasedBy(d))
<1> DEFINE S == TargetsLeasedBy(d)
<1>0. /\ pc[d] = "applied" /\ UNCHANGED <<content, mode, edge, activation>>
      /\ DOMAIN outbox' = DOMAIN outbox \ RowsLeasedBy(d)
      /\ \A i \in DOMAIN outbox' : outbox'[i] = outbox[i]
  BY DEF Acknowledge
<1>1. ASSUME NEW t \in S
      PROVE  /\ QueueOf(t) # << >> /\ edge[t] = Head(QueueOf(t))
             /\ QueueOf(t)' = Tail(QueueOf(t))
  <2> PICK i \in RowsLeasedBy(d) : outbox[i].target = t
    BY DEF TargetsLeasedBy
  <2> DEFINE P == PendingOf(t)
  <2>1. /\ t \in Targets /\ i \in P
        /\ QueueOf(t) # << >> /\ Head(QueueOf(t)) = outbox[i].value
        /\ InOrder(outbox, P \ {i}) = Tail(QueueOf(t))
    BY LeasedIsHead
  <2>2. \A j \in RowsLeasedBy(d) : outbox[j].target = t => j = i
    BY OneRowPerTarget
  <2>3. PendingOf(t)' = P \ {i}
    <3>1. i \in DOMAIN outbox /\ i \notin DOMAIN outbox' /\ outbox'= [j \in DOMAIN outbox' |-> outbox[j]]
      BY <1>0 DEF RowsLeasedBy, Acknowledge
    <3>2. \A j : (j \in DOMAIN outbox' /\ outbox'[j].target = t)
                   <=> (j \in DOMAIN outbox /\ outbox[j].target = t /\ j # i)
      BY <1>0, <2>2, <3>1
    <3> QED BY <3>2, <1>0 DEF PendingOf
  <2>4. InOrder(outbox', P \ {i}) = InOrder(outbox, P \ {i})
    <3>1. P \ {i} \in SUBSET Nat /\ IsFiniteSet(P \ {i})
      BY <2>1, PendingRows, FS_RemoveElement
    <3>2. \A j \in P \ {i} : outbox'[j].value = outbox[j].value
      BY <1>0, <2>2 DEF PendingOf
    <3> HIDE DEF P
    <3> QED BY <3>1, <3>2, OrderKept
  <2>5. edge[t] = outbox[i].value
    BY <1>0 DEF AppliedInv
  <2> QED BY <2>1, <2>3, <2>4, <2>5 DEF QueueOf
<1>2. \A t \in S : /\ QueueOf(t) # << >> /\ edge[t] = Head(QueueOf(t))
                   /\ QueueOf(t)' = Tail(QueueOf(t))
  BY <1>1
<1>3. ASSUME NEW t \in Targets \ S PROVE QueueOf(t)' = QueueOf(t)
  <2>1. PendingOf(t)' = PendingOf(t)
    BY <1>0 DEF PendingOf, TargetsLeasedBy
  <2>2. \A j \in PendingOf(t) : outbox'[j].value = outbox[j].value
    BY <1>0, <2>1 DEF PendingOf
  <2>3. InOrder(outbox', PendingOf(t)) = InOrder(outbox, PendingOf(t))
    BY <2>2, PendingRows, OrderKept
  <2> QED BY <2>1, <2>3 DEF QueueOf
<1>4. S \subseteq Targets
  BY DEF TargetsLeasedBy, RowsLeasedBy, TypeOK, OutboxRows
<1> HIDE DEF S
<1>5. \A t \in Targets : [u \in Targets |-> QueueOf(u)][t] = QueueOf(t)
  OBVIOUS
<1>6. [t \in Targets |-> QueueOf(t)'] =
        [t \in Targets |-> IF t \in S THEN Tail([u \in Targets |-> QueueOf(u)][t])
                           ELSE [u \in Targets |-> QueueOf(u)][t]]
  BY <1>2, <1>3, <1>5
<1>7. Replication!Confirm(S)
  BY <1>0, <1>2, <1>4, <1>5, <1>6 DEF Replication!Confirm
<1> QED BY <1>7 DEF S

LEMMA EmptyQueue ==
  ASSUME DOMAIN outbox = {}, NEW t \in Targets
  PROVE  QueueOf(t) = << >>
<1>1. PendingOf(t) = {}
  BY DEF PendingOf
<1>2. {} \in SUBSET Nat /\ IsFiniteSet({})
  BY FS_EmptySet
<1>3. InOrder(outbox, {}) = << >>
  BY <1>2, OrderType
<1> QED BY <1>1, <1>3 DEF QueueOf

\* Every step is a step of the replication, or none on that side.
LEMMA ReplicationStep ==
  ASSUME IndInv, [Next]_vars
  PROVE  [Replication!Next]_(Replication!vars)
<1> USE DEF IndInv
<1>1. CASE ContentStep
  <2>1. PICK t \in Targets, v \in Values : WriteContent(t, v)
    BY <1>1, BoundAssumption
    DEF ContentStep, CreateContent, UpdateContent, DeleteContent, Values, NoRow, TypeOK
  <2>2. Replication!Write(t, v)
    BY <2>1, ContentIsWritten
  <2> QED BY <2>2 DEF Replication!Next
<1>2. CASE ActivationStep
  <2>0. UNCHANGED <<content, edge, outbox>> /\ \A u \in Targets : QueueOf(u)' = QueueOf(u)
    BY <1>2 DEF ActivationStep, DisableIntegration, CountPending, CompareTarget,
       EnableIntegration, studioVars, QueueOf, PendingOf
  <2>1. CASE DisableIntegration
    <3>1. Replication!Detach
      BY <2>0, <2>1 DEF DisableIntegration, NoActivation, Replication!Detach
    <3> QED BY <3>1 DEF Replication!Next
  <2>2. CASE EnableIntegration
    <3>1. mode = "disabled" /\ DOMAIN outbox = {}
      BY <2>2 DEF EnableIntegration, ActivationInv
    <3>2. \A t \in Targets : QueueOf(t) = << >>
      BY <3>1, EmptyQueue
    <3>3. Replication!Attach
      BY <2>0, <2>2, <3>1, <3>2 DEF EnableIntegration, NoActivation, Replication!Attach
    <3> QED BY <3>3 DEF Replication!Next
  <2>3. CASE CountPending
    <3>1. Replication!CompareAfresh
      BY <2>0, <2>3 DEF CountPending, NoActivation, studioVars, Replication!CompareAfresh
    <3> QED BY <3>1 DEF Replication!Next
  <2>4. ASSUME NEW t \in Targets, CompareTarget(t)
        PROVE  [Replication!Next]_(Replication!vars)
    <3>1. mode = "disabled" /\ DOMAIN outbox = {} /\ mode' = mode
      BY <2>4 DEF CompareTarget, ActivationInv, studioVars
    <3>2. CASE edge[t] = content[t]
      <4>1. activation'.matched = activation.matched \cup {t}
        BY <2>4, <3>2 DEF CompareTarget, TypeOK, Activations
      <4>2. QueueOf(t) = << >>
        BY <3>1, EmptyQueue
      <4>3. Replication!Compare(t)
        BY <2>0, <3>1, <3>2, <4>1, <4>2 DEF Replication!Compare
      <4> QED BY <4>3 DEF Replication!Next
    <3>3. CASE edge[t] # content[t]
      <4>1. Replication!CompareAfresh
        BY <2>0, <2>4, <3>1, <3>3
        DEF CompareTarget, NoActivation, Replication!CompareAfresh
      <4> QED BY <4>1 DEF Replication!Next
    <3> QED BY <3>2, <3>3
  <2> QED BY <1>2, <2>1, <2>2, <2>3, <2>4 DEF ActivationStep
<1>3. ASSUME NEW d \in Drains, DrainStep(d)
      PROVE  [Replication!Next]_(Replication!vars)
  <2>0. TargetsLeasedBy(d) \in SUBSET Targets
    BY DEF TargetsLeasedBy, RowsLeasedBy, TypeOK, OutboxRows
  <2>1. CASE /\ pc[d] = "claimed" /\ edge' = Replayed(d)
             /\ UNCHANGED <<content, mode, outbox, activation>>
    <3>1. Replication!Replay(TargetsLeasedBy(d))
      BY <2>1, BatchReplays
    <3> QED BY <2>0, <3>1 DEF Replication!Next
  <2>2. CASE Acknowledge(d)
    <3>1. Replication!Confirm(TargetsLeasedBy(d))
      BY <2>2, AcknowledgeConfirms
    <3> QED BY <2>0, <3>1 DEF Replication!Next
  <2>3. CASE UNCHANGED <<content, mode, edge, activation>> /\ DOMAIN outbox' = DOMAIN outbox
    BY <2>3, QueuesKept, Unseen
  <2> QED
    BY <1>3, <2>1, <2>2, <2>3
    DEF DrainStep, BeginDrain, ClaimUpdate, ClaimSelect, ApplyBatch, ApplyFails,
        ReleaseLease, AbandonDrain, WithoutHolder, studioVars, drainVars
<1>4. ASSUME NEW h \in Drains \cup {Abandoned}, LeaseExpires(h)
      PROVE  [Replication!Next]_(Replication!vars)
  <2>1. UNCHANGED <<content, mode, edge, activation>> /\ DOMAIN outbox' = DOMAIN outbox
    BY <1>4 DEF LeaseExpires
  <2> QED BY <2>1, QueuesKept, Unseen
<1>5. CASE UNCHANGED vars
  <2>1. UNCHANGED <<content, mode, edge, activation>> /\ DOMAIN outbox' = DOMAIN outbox
    BY <1>5 DEF vars
  <2> QED BY <2>1, QueuesKept, Unseen
<1> QED BY <1>1, <1>2, <1>3, <1>4, <1>5 DEF Next

\* The projection replays every content write of a target in order and at
\* least once while the integration is enabled, whatever drains fail, overlap
\* or are evicted, and it is enabled once every target was found equal: outbox,
\* leases and drains implement the replication (ImplementsReplication).
THEOREM OutboxImplementsReplication ==
  ASSUME DrainsWithinLease
  PROVE  Spec => ImplementsReplication
<1>1. Init => Replication!Init
  <2> SUFFICES ASSUME Init PROVE Replication!Init
    OBVIOUS
  <2>1. \A t \in Targets : QueueOf(t) = << >>
    BY EmptyQueue DEF Init
  <2> QED BY <2>1 DEF Init, NoActivation, Replication!Init
<1>2. IndInv /\ [Next]_vars => [Replication!Next]_(Replication!vars)
  BY ReplicationStep
<1>3. Spec => []IndInv
  BY InductiveInvariant
<1> QED BY <1>1, <1>2, <1>3, PTL DEF Spec, ImplementsReplication, Replication!Spec

-----------------------------------------------------------------------------
(* The hierarchy of Pages.                                                 *)


PageWrites == {"create", "update", "import"}

\* What a request of a kind names.
RequestInv ==
  \A r \in Requests :
    /\ request[r].kind \in PageWrites => request[r].page \in Pages /\ request[r].status \in Statuses
    /\ request[r].kind = "delete" => request[r].page \in Pages
    /\ request[r].kind = "import" => request[r].status \in Live

TypeInv == TreeTypeOK /\ RequestInv

\* A Page about to be created is not stored, and no other request names it.
FreshInv ==
  \A r \in Requests : request[r].kind = "create" =>
    /\ ~Stored(request[r].page)
    /\ \A s \in Requests \ {r} : request[s].page # request[r].page

\* The foreign key: a parent is a stored Page, outdated import or not.
ParentsAreStored == \A p \in Pages : pages[p].parent # None => Stored(pages[p].parent)

TreeInv == NoCycle /\ ParentsAreLive /\ ParentsAreStored

\* The front page is stored unless the setting itself is outdated, and
\* published unless it is outdated as well.
FrontInv ==
  front.page # None /\ FrontPage \notin outdated =>
    /\ Stored(front.page)
    /\ front.page \notin outdated => Published(front.page)

Inv == TypeInv /\ FreshInv /\ TreeInv /\ FrontInv

-----------------------------------------------------------------------------
(* The requests under way.                                                 *)

\* A request that begins leaves the tree and the front page alone.
Begun(r, k) ==
  /\ request[r] = NoRequest
  /\ request' = [request EXCEPT ![r] = k]
  /\ UNCHANGED <<pages, front, outdated, writes>>

Checked(k) ==
  \/ /\ k.kind = "create" /\ k.page \in FreePages
     /\ k.parent \in Pages \cup {None} /\ k.status \in Statuses
  \/ /\ k.kind = "update" /\ k.page \in Pages /\ Stored(k.page)
     /\ k.parent \in Pages \cup {None} /\ k.status \in Statuses
  \/ k.kind = "delete" /\ k.page \in Pages /\ Stored(k.page) /\ k.parent = None /\ k.status = "none"
  \/ /\ k.kind \in {"routing", "finalize"} /\ k.page \in Pages \cup {None}
     /\ k.parent = None /\ k.status = "none"
     /\ k.page # None => Published(k.page)
  \/ /\ k.kind = "import" /\ k.page \in Pages
     /\ k.page \in FreePages \/ Stored(k.page)
     /\ k.parent \in Pages \cup {None} /\ k.status \in Live /\ LiveParent(k.parent)
     /\ Stored(k.page) =>
          /\ k.parent # None => k.page \notin Ancestors(k.parent)
          /\ Published(k.page) /\ k.status # "published" => ~IsFront(k.page)

Requested == [kind : {"create", "update", "delete", "routing", "import", "finalize"},
              page : Pages \cup {None}, parent : Pages \cup {None},
              status : Statuses \cup {"none"}, revision : Nat]

\* A write by request r that ends it.
WriteBy(r) ==
  WriteCreate(r) \/ WriteUpdate(r) \/ WriteDelete(r) \/ WriteRouting(r) \/ FailWrite(r)
    \/ WriteImport(r) \/ WriteFinalize(r)

\* A step is a write that ends a request, the start of a request that its
\* inspection let pass, or Clear content.
LEMMA Steps ==
  ASSUME TypeInv, TreeNext
  PROVE  \/ ClearContent
         \/ \E r \in Requests : WriteBy(r)
         \/ \E r \in Requests, k \in Requested : Begun(r, k) /\ Checked(k)
<1> USE DEF TypeInv, TreeTypeOK
<1>1. ASSUME NEW r \in Requests, NEW q \in Pages \cup {None}, NEW status \in Statuses,
             InspectCreate(r, q, status)
      PROVE  \E k \in Requested : Begun(r, k) /\ Checked(k)
  <2>1. PICK p \in FreePages : Begin(r, "create", p, q, status, 0)
    BY <1>1 DEF InspectCreate
  <2> DEFINE k == [kind |-> "create", page |-> p, parent |-> q, status |-> status, revision |-> 0]
  <2>2. k \in Requested BY DEF Requested, FreePages
  <2>3. Begun(r, k) BY <2>1 DEF Begin, Begun
  <2>4. Checked(k) BY DEF Checked
  <2> QED BY <2>2, <2>3, <2>4
<1>2. ASSUME NEW r \in Requests, NEW p \in Pages, NEW q \in Pages \cup {None},
             NEW status \in Statuses, InspectUpdate(r, p, q, status)
      PROVE  \E k \in Requested : Begun(r, k) /\ Checked(k)
  <2> DEFINE k == [kind |-> "update", page |-> p, parent |-> q, status |-> status,
                   revision |-> pages[p].revision]
  <2>2. k \in Requested BY DEF Requested
  <2>3. Begun(r, k) BY <1>2 DEF InspectUpdate, Begin, Begun
  <2>4. Checked(k) BY <1>2 DEF InspectUpdate, Checked
  <2> QED BY <2>2, <2>3, <2>4
<1>3. ASSUME NEW r \in Requests, NEW p \in Pages, NEW status \in Statuses,
             InspectBulkItem(r, p, status)
      PROVE  \E k \in Requested : Begun(r, k) /\ Checked(k)
  <2>1. pages[p].parent \in Pages \cup {None} OBVIOUS
  <2>2. InspectUpdate(r, p, pages[p].parent, status) BY <1>3 DEF InspectBulkItem
  <2> QED BY <1>2, <2>1, <2>2
<1>4. ASSUME NEW r \in Requests, NEW p \in Pages, InspectDelete(r, p)
      PROVE  \E k \in Requested : Begun(r, k) /\ Checked(k)
  <2> DEFINE k == [kind |-> "delete", page |-> p, parent |-> None, status |-> "none",
                   revision |-> pages[p].revision]
  <2>2. k \in Requested BY DEF Requested
  <2>3. Begun(r, k) BY <1>4 DEF InspectDelete, Begin, Begun
  <2>4. Checked(k) BY <1>4 DEF InspectDelete, Checked
  <2> QED BY <2>2, <2>3, <2>4
<1>5. ASSUME NEW r \in Requests, NEW p \in Pages \cup {None}, NEW kind \in {"routing", "finalize"},
             p # None => Published(p),
             Begin(r, kind, p, None, "none", front.revision)
      PROVE  \E k \in Requested : Begun(r, k) /\ Checked(k)
  <2> DEFINE k == [kind |-> kind, page |-> p, parent |-> None, status |-> "none",
                   revision |-> front.revision]
  <2>2. k \in Requested BY DEF Requested
  <2>3. Begun(r, k) BY <1>5 DEF Begin, Begun
  <2>4. Checked(k) BY <1>5 DEF Checked
  <2> QED BY <2>2, <2>3, <2>4
<1>6. ASSUME NEW r \in Requests, NEW p \in Pages, NEW q \in Pages \cup {None},
             NEW status \in Live, CheckImport(r, p, q, status)
      PROVE  \E k \in Requested : Begun(r, k) /\ Checked(k)
  <2> DEFINE k == [kind |-> "import", page |-> p, parent |-> q, status |-> status,
                   revision |-> pages[p].revision]
  <2>2. k \in Requested BY DEF Requested, Statuses
  <2>3. Begun(r, k) BY <1>6 DEF CheckImport, Begin, Begun
  <2>4. Checked(k) BY <1>6 DEF CheckImport, ImportAllowed, Checked
  <2> QED BY <2>2, <2>3, <2>4
<1>7. CASE ClearContent BY <1>7
<1>8. ASSUME NEW r \in Requests, Studio(r)
      PROVE  WriteBy(r) \/ \E k \in Requested : Begun(r, k) /\ Checked(k)
  <2>1. ASSUME NEW p \in Pages \cup {None}, InspectRouting(r, p)
        PROVE  \E k \in Requested : Begun(r, k) /\ Checked(k)
    BY <1>5, <2>1 DEF InspectRouting
  <2> QED BY <1>1, <1>2, <1>3, <1>4, <1>8, <2>1 DEF Studio, WriteBy
<1>9. ASSUME NEW r \in Requests, Importer(r)
      PROVE  WriteBy(r) \/ \E k \in Requested : Begun(r, k) /\ Checked(k)
  <2>1. ASSUME NEW p \in Pages \cup {None}, CheckFinalize(r, p)
        PROVE  \E k \in Requested : Begun(r, k) /\ Checked(k)
    BY <1>5, <2>1 DEF CheckFinalize
  <2> QED BY <1>6, <1>9, <2>1 DEF Importer, WriteBy
<1> QED BY <1>7, <1>8, <1>9 DEF TreeNext

-----------------------------------------------------------------------------
(* Types. *)

LEMMA TypeStep ==
  ASSUME TypeInv, [TreeNext]_treeVars
  PROVE  TypeInv'
<1> USE DEF TypeInv, TreeTypeOK, RequestInv
<1>0. Statuses \cap {"none"} = {} BY DEF Statuses, Live
<1>1. CASE ClearContent
  <2>1. pages' = [p \in Pages |-> NoPage] /\ request' = request /\ writes' = writes + 1
       /\ outdated' = {}
    BY <1>1 DEF ClearContent, Wrote
  <2>2. front' \in [page : Pages \cup {None}, revision : Nat]
    BY <1>1 DEF ClearContent
  <2> QED BY <2>1, <2>2 DEF NoPage
<1>2. ASSUME NEW r \in Requests, NEW k \in Requested, Begun(r, k), Checked(k)
      PROVE  TypeInv'
  <2>1. request' = [request EXCEPT ![r] = k] /\ UNCHANGED <<pages, front, outdated, writes>>
    BY <1>2 DEF Begun
  <2>2. /\ k.kind \in PageWrites => k.page \in Pages /\ k.status \in Statuses
        /\ k.kind = "delete" => k.page \in Pages
        /\ k.kind = "import" => k.status \in Live
    BY <1>2 DEF Checked, PageWrites, FreePages, Statuses
  <2>3. request' \in [Requests ->
          [kind : {"none", "create", "update", "delete", "routing", "import", "finalize"},
           page : Pages \cup {None}, parent : Pages \cup {None},
           status : Statuses \cup {"none"}, revision : Nat]]
    BY <2>1 DEF Requested
  <2>4. RequestInv' BY <2>1, <2>2, <2>3
  <2> QED BY <2>1, <2>3, <2>4
<1>3. ASSUME NEW r \in Requests, WriteBy(r)
      PROVE  TypeInv'
  <2> DEFINE k == request[r]
  <2>1. request' = [request EXCEPT ![r] = NoRequest]
    BY <1>3 DEF WriteBy, WriteCreate, WriteUpdate, WriteDelete, WriteRouting, FailWrite,
                WriteImport, WriteFinalize, End
  <2>2. request' \in [Requests ->
          [kind : {"none", "create", "update", "delete", "routing", "import", "finalize"},
           page : Pages \cup {None}, parent : Pages \cup {None},
           status : Statuses \cup {"none"}, revision : Nat]]
    BY <2>1 DEF NoRequest
  <2>3. RequestInv' BY <2>1, <2>2 DEF NoRequest, PageWrites
  <2>4. CASE Refused BY <2>2, <2>3, <2>4 DEF Refused
  <2>5. ASSUME NEW p \in Pages,
               NEW g \in [status : Statuses \cup {"none"}, parent : Pages \cup {None}, revision : Nat],
               g.status = "none" => g = NoPage, StorePage(p, g),
               outdated' \subseteq Pages \cup {FrontPage}
        PROVE  TypeInv'
    BY <2>2, <2>3, <2>5 DEF StorePage, Wrote
  <2>6. ASSUME NEW p \in Pages \cup {None}, StoreFront(p),
               outdated' \subseteq Pages \cup {FrontPage}
        PROVE  TypeInv'
    BY <2>2, <2>3, <2>6 DEF StoreFront, Wrote
  <2>7. CASE WriteCreate(r)
    <3>1. k.page \in Pages /\ k.status \in Statuses BY <2>7 DEF WriteCreate, PageWrites
    <3> QED BY <1>0, <2>4, <2>5, <2>7, <3>1 DEF WriteCreate, WritePage
  <2>8. CASE WriteUpdate(r)
    <3>1. k.page \in Pages /\ k.status \in Statuses BY <2>8 DEF WriteUpdate, PageWrites
    <3> QED BY <1>0, <2>4, <2>5, <2>8, <3>1 DEF WriteUpdate, WritePage
  <2>9. CASE WriteDelete(r)
    <3>1. k.page \in Pages BY <2>9 DEF WriteDelete
    <3> QED BY <2>4, <2>5, <2>9, <3>1 DEF WriteDelete, WritePage, DeletedPage, NoPage
  <2>10. CASE WriteRouting(r) BY <2>4, <2>6, <2>10 DEF WriteRouting, WriteFront
  <2>11. CASE WriteImport(r)
    <3>1. k.page \in Pages /\ k.status \in Statuses BY <2>11 DEF WriteImport, PageWrites
    <3> QED BY <1>0, <2>4, <2>5, <2>11, <3>1 DEF WriteImport
  <2>12. CASE WriteFinalize(r) BY <2>4, <2>6, <2>12 DEF WriteFinalize
  <2>13. CASE FailWrite(r) BY <2>4, <2>13 DEF FailWrite
  <2> QED BY <1>3, <2>7, <2>8, <2>9, <2>10, <2>11, <2>12, <2>13 DEF WriteBy
<1>4. CASE UNCHANGED treeVars BY <1>4 DEF treeVars
<1> QED BY <1>1, <1>2, <1>3, <1>4, Steps

\* The types of the tree, the front page and the requests.
THEOREM TreeTypeCorrect == TreeSpec => []TreeTypeOK
<1>1. TreeInit => TypeInv
  BY DEF TreeInit, TypeInv, TreeTypeOK, RequestInv, NoPage, NoRequest, PageWrites, Statuses, Live
<1>2. TypeInv /\ [TreeNext]_treeVars => TypeInv'
  BY TypeStep
<1>3. TypeInv => TreeTypeOK
  BY DEF TypeInv
<1> QED BY <1>1, <1>2, <1>3, PTL DEF TreeSpec

-----------------------------------------------------------------------------
(* The tree. *)

\* Nothing lies below a Page that is not stored.
LEMMA FreshIsNotAbove ==
  ASSUME TypeInv, TreeInv, NEW p \in Pages, ~Stored(p), NEW q \in Pages, LiveParent(q)
  PROVE  p \notin Ancestors(q)
<1>1. pages[p].status = "none" BY DEF Stored, NoPage
<1>2. q # p BY <1>1, ConstantAssumption DEF LiveParent, Live
<1>3. \A c \in Pages : pages[c].parent # p
  BY ConstantAssumption DEF TreeInv, ParentsAreStored
<1>4. \A c \in Pages \ {p} : pages[c].parent \in (Pages \ {p}) \cup {None}
  BY <1>3 DEF TypeInv, TreeTypeOK
<1> QED BY <1>2, <1>4 DEF Ancestors

\* A Page can be put, or put again, below a live Page it is not above; an
\* outdated one below any stored Page.
LEMMA WriteKeepsTree ==
  ASSUME TypeInv, TreeInv, NEW p \in Pages,
         NEW g \in [status : Statuses, parent : Pages \cup {None}, revision : Nat],
         pages' = [pages EXCEPT ![p] = g],
         outdated \ {p} \subseteq outdated',
         g.parent # None => Stored(g.parent),
         p \notin outdated' /\ g.parent # None
           => LiveParent(g.parent) /\ p \notin Ancestors(g.parent),
         g.status = "trash" => ~HasChildren(p)
  PROVE  TreeInv'
<1> USE DEF TypeInv, TreeTypeOK
<1> DEFINE q == g.parent
<1>1. \A c \in Pages \ {p} : pages'[c] = pages[c]
  OBVIOUS
<1>2. pages'[p] = g
  OBVIOUS
<1>3. NoCycle'
  <2> SUFFICES ASSUME NEW S \in SUBSET (Pages \ outdated'), S # {}
               PROVE  \E x \in S : pages'[x].parent \notin S
    BY DEF NoCycle
  <2>1. CASE p \notin S
    <3>1. S \in SUBSET (Pages \ outdated) BY <2>1
    <3>2. PICK x \in S : pages[x].parent \notin S BY <3>1 DEF TreeInv, NoCycle
    <3> QED BY <1>1, <2>1, <3>2
  <2>2. CASE p \in S /\ q \notin S BY <1>2, <2>2
  <2>3. CASE p \in S /\ q \in S
    <3>1. q \in Pages /\ q # None BY <2>3, ConstantAssumption
    <3>2. PICK U \in SUBSET Pages :
            q \in U /\ (\A c \in U : pages[c].parent \in U \cup {None}) /\ p \notin U
      BY <2>3, <3>1 DEF Ancestors
    <3>3. S \cap U \in SUBSET (Pages \ outdated) /\ S \cap U # {}
      BY <2>3, <3>2
    <3>4. PICK x \in S \cap U : pages[x].parent \notin S \cap U
      BY <3>3 DEF TreeInv, NoCycle
    <3>5. pages[x].parent \notin S BY <3>2, <3>4, ConstantAssumption
    <3> QED BY <1>1, <3>2, <3>4, <3>5
  <2> QED BY <2>1, <2>2, <2>3
<1>4. ParentsAreLive'
  <2> SUFFICES ASSUME NEW c \in Pages \ outdated', pages'[c].parent # None
               PROVE  pages'[pages'[c].parent].status \in Live
    BY DEF ParentsAreLive
  <2>1. CASE c = p
    <3>1. q \in Pages /\ LiveParent(q) /\ p \notin Ancestors(q) BY <1>2, <2>1
    <3>2. q \in Ancestors(q) BY <3>1 DEF Ancestors
    <3>3. q # p BY <3>1, <3>2
    <3>4. pages'[c] = g /\ pages'[q] = pages[q] /\ q # None
      BY <1>1, <1>2, <2>1, <3>1, <3>3, ConstantAssumption
    <3> QED BY <3>1, <3>4 DEF LiveParent
  <2>2. CASE c # p
    <3>1. pages'[c] = pages[c] /\ c \notin outdated BY <1>1, <2>2
    <3>2. pages[c].parent \in Pages /\ pages[pages[c].parent].status \in Live
      BY <3>1 DEF TreeInv, ParentsAreLive
    <3>3. CASE pages[c].parent = p
      <4>1. HasChildren(p) BY <3>3 DEF HasChildren
      <4>2. g.status \in Live BY <4>1 DEF Statuses
      <4> QED BY <1>2, <3>1, <3>3, <4>2
    <3>4. CASE pages[c].parent # p BY <1>1, <3>1, <3>2, <3>4
    <3> QED BY <3>3, <3>4
  <2> QED BY <2>1, <2>2
<1>5. ParentsAreStored'
  <2>1. g # NoPage BY DEF NoPage, Statuses, Live
  <2> SUFFICES ASSUME NEW c \in Pages, pages'[c].parent # None
               PROVE  pages'[pages'[c].parent] # NoPage
    BY DEF ParentsAreStored, Stored
  <2>2. pages'[c].parent \in Pages /\ Stored(pages'[c].parent)
    BY DEF TreeInv, ParentsAreStored
  <2> QED BY <1>1, <1>2, <2>1, <2>2 DEF Stored
<1> QED BY <1>3, <1>4, <1>5 DEF TreeInv

\* A Page without children can be taken out.
LEMMA DeleteKeepsTree ==
  ASSUME TypeInv, TreeInv, NEW p \in Pages, ~HasChildren(p), pages' = [pages EXCEPT ![p] = NoPage],
         outdated' = outdated \ {p}
  PROVE  TreeInv'
<1> USE DEF TypeInv, TreeTypeOK
<1>1. \A c \in Pages \ {p} : pages'[c] = pages[c]
  OBVIOUS
<1>2. pages'[p].parent = None
  BY DEF NoPage
<1>3. NoCycle'
  <2> SUFFICES ASSUME NEW S \in SUBSET (Pages \ outdated'), S # {}
               PROVE  \E x \in S : pages'[x].parent \notin S
    BY DEF NoCycle
  <2>1. CASE p \in S BY <1>2, <2>1, ConstantAssumption
  <2>2. CASE p \notin S
    <3>1. S \in SUBSET (Pages \ outdated) BY <2>2
    <3>2. PICK x \in S : pages[x].parent \notin S BY <3>1 DEF TreeInv, NoCycle
    <3> QED BY <1>1, <2>2, <3>2
  <2> QED BY <2>1, <2>2
<1>4. ASSUME NEW c \in Pages, pages'[c].parent # None
      PROVE  c # p /\ pages'[c] = pages[c] /\ pages[c].parent \in Pages \ {p}
  BY <1>1, <1>2, <1>4 DEF HasChildren
<1>5. ParentsAreLive'
  BY <1>1, <1>4 DEF TreeInv, ParentsAreLive
<1>6. ParentsAreStored'
  BY <1>1, <1>4 DEF TreeInv, ParentsAreStored, Stored
<1> QED BY <1>3, <1>5, <1>6 DEF TreeInv

-----------------------------------------------------------------------------
(* The invariant. *)

\* Request k stores its Page, on checks that hold or on outdated ones.
PageStored(k) ==
  /\ front' = front
  /\ k.page \in Pages
  /\ \E revision \in Nat :
       pages' = [pages EXCEPT ![k.page] =
         [status |-> k.status, parent |-> k.parent, revision |-> revision]]
  /\ k.status \in Statuses
  /\ outdated \ {k.page} \subseteq outdated'
  /\ FrontPage \in outdated' <=> FrontPage \in outdated
  /\ k.parent # None => Stored(k.parent)
  /\ k.status = "trash" => ~HasChildren(k.page)
  /\ k.page \notin outdated' =>
       /\ k.parent # None => LiveParent(k.parent) /\ k.page \notin Ancestors(k.parent)
       /\ IsFront(k.page) /\ FrontPage \notin outdated => k.status = "published"

PageDeleted(k) ==
  /\ front' = front
  /\ k.page \in Pages
  /\ pages' = [pages EXCEPT ![k.page] = NoPage]
  /\ outdated' = outdated \ {k.page}
  /\ ~HasChildren(k.page) /\ ~IsFront(k.page)

FrontStored(k) ==
  /\ pages' = pages
  /\ front'.page = k.page
  /\ outdated \ {FrontPage} \subseteq outdated' /\ outdated' \ {FrontPage} \subseteq outdated
  /\ FrontPage \in outdated' \/ (k.page # None => Published(k.page))

\* A write that nothing refuses stores one Page, deletes one, or stores the
\* front page, and what guarded it holds.
LEMMA Writes ==
  ASSUME Inv, NEW r \in Requests, WriteBy(r)
  PROVE  LET k == request[r] IN
    \/ UNCHANGED <<pages, front, outdated>>
    \/ /\ PageStored(k)
       /\ \A s \in Requests \ {r} : request[s].kind = "create" => request[s].page # k.page
    \/ PageDeleted(k)
    \/ FrontStored(k)
<1> USE DEF Inv, TypeInv, TreeTypeOK, RequestInv, PageWrites
<1> DEFINE k == request[r]
<1>0. FrontPage \notin Pages /\ \A q \in Pages : LiveParent(q) => Stored(q)
  BY ConstantAssumption DEF LiveParent, Stored, NoPage, Live
<1>1. CASE WriteCreate(r)
  <2>1. k.kind = "create" /\ k.page \in Pages /\ ~Stored(k.page) /\ k.status \in Statuses
    BY <1>1 DEF WriteCreate, FreshInv
  <2>3. ~IsFront(k.page) \/ FrontPage \in outdated
    BY <2>1, ConstantAssumption DEF IsFront, FrontInv
  <2>4. ~HasChildren(k.page)
    BY <2>1, ConstantAssumption DEF HasChildren, TreeInv, ParentsAreStored
  <2>5. k.parent # None /\ LiveParent(k.parent) => k.page \notin Ancestors(k.parent)
    BY <2>1, FreshIsNotAbove
  <2>6. \A s \in Requests \ {r} : request[s].page # k.page
    BY <2>1 DEF FreshInv
  <2>7. CASE Refused BY <2>7 DEF Refused
  <2>8. CASE LiveParent(k.parent) /\ WritePage(k.page, [status |-> k.status, parent |-> k.parent, revision |-> 1])
    <3>1. PageStored(k)
      BY <1>0, <2>1, <2>3, <2>4, <2>5, <2>8 DEF WritePage, StorePage, PageStored, LiveParent
    <3> QED BY <2>6, <3>1
  <2> QED BY <1>1, <2>7, <2>8 DEF WriteCreate
<1>2. CASE WriteUpdate(r)
  <2>1. k.page \in Pages /\ k.status \in Statuses /\ k.revision + 1 \in Nat
    BY <1>2 DEF WriteUpdate
  <2>2. CASE Refused BY <2>2 DEF Refused
  <2>3. CASE MayUpdate(k) /\ WritePage(k.page, [status |-> k.status, parent |-> k.parent, revision |-> k.revision + 1])
    <3>1. \A s \in Requests \ {r} : request[s].kind = "create" => request[s].page # k.page
      BY <1>2 DEF FreshInv, WriteUpdate
    <3>2. PageStored(k)
      BY <1>0, <2>1, <2>3 DEF MayUpdate, WritePage, StorePage, PageStored
    <3> QED BY <3>1, <3>2
  <2> QED BY <1>2, <2>2, <2>3 DEF WriteUpdate
<1>3. CASE WriteDelete(r)
  <2>1. k.page \in Pages BY <1>3 DEF WriteDelete
  <2> QED
    BY <1>3, <2>1 DEF WriteDelete, MayDelete, WritePage, StorePage, Refused, DeletedPage, PageDeleted
<1>4. CASE WriteRouting(r)
  BY <1>4 DEF WriteRouting, MayRoute, WriteFront, StoreFront, Refused, FrontStored
<1>5. CASE WriteImport(r)
  <2>1. /\ k.kind = "import" /\ k.page \in Pages /\ k.status \in Statuses /\ k.revision + 1 \in Nat
        /\ k.status \in Live
    BY <1>5 DEF WriteImport
  <2>2. k.status # "trash" BY <2>1 DEF Live
  <2>3. \A s \in Requests \ {r} : request[s].kind = "create" => request[s].page # k.page
    BY <2>1 DEF FreshInv
  <2>4. CASE Refused BY <2>4 DEF Refused
  <2>5. CASE /\ MayImport(k)
             /\ StorePage(k.page, [status |-> k.status, parent |-> k.parent, revision |-> k.revision + 1])
             /\ outdated' = IF ImportAllowed(k.page, k.parent, k.status) THEN outdated
                            ELSE outdated \cup {k.page}
    <3>1. ASSUME k.page \notin outdated', k.parent # None
          PROVE  LiveParent(k.parent) /\ k.page \notin Ancestors(k.parent)
      <4>1. ImportAllowed(k.page, k.parent, k.status) BY <2>5, <3>1
      <4>2. LiveParent(k.parent) /\ k.parent \in Pages BY <3>1, <4>1 DEF ImportAllowed
      <4>3. CASE Stored(k.page) BY <3>1, <4>1, <4>2, <4>3 DEF ImportAllowed
      <4>4. CASE ~Stored(k.page) BY <2>1, <4>2, <4>4, FreshIsNotAbove
      <4> QED BY <4>3, <4>4
    <3>2. ASSUME k.page \notin outdated', IsFront(k.page), FrontPage \notin outdated
          PROVE  k.status = "published"
      <4>1. ImportAllowed(k.page, k.parent, k.status) /\ k.page \notin outdated BY <2>5, <3>2
      <4>2. Stored(k.page) /\ Published(k.page)
        BY <2>1, <3>2, <4>1, ConstantAssumption DEF FrontInv, IsFront
      <4> QED BY <3>2, <4>1, <4>2 DEF ImportAllowed
    <3>3. PageStored(k)
      BY <1>0, <2>1, <2>2, <2>5, <3>1, <3>2 DEF StorePage, PageStored, MayImport
    <3> QED BY <2>3, <3>3
  <2> QED BY <1>5, <2>4, <2>5 DEF WriteImport
<1>6. CASE WriteFinalize(r)
  BY <1>6 DEF WriteFinalize, StoreFront, Refused, FrontStored
<1>7. CASE FailWrite(r) BY <1>7 DEF FailWrite, Refused
<1> QED BY <1>1, <1>2, <1>3, <1>4, <1>5, <1>6, <1>7 DEF WriteBy

LEMMA TreeStep ==
  ASSUME Inv, [TreeNext]_treeVars
  PROVE  TreeInv' /\ FrontInv'
<1>1. CASE UNCHANGED <<pages, front, outdated>>
  BY <1>1 DEF Inv, TreeInv, NoCycle, ParentsAreLive, ParentsAreStored, FrontInv, Published, Stored
<1>2. CASE ClearContent
  <2>1. pages' = [p \in Pages |-> NoPage] /\ front'.page = None
    BY <1>2 DEF ClearContent
  <2>2. \A p \in Pages : pages'[p].parent = None BY <2>1 DEF NoPage
  <2>3. NoCycle' BY <2>2, ConstantAssumption DEF NoCycle
  <2>4. ParentsAreLive' /\ ParentsAreStored' BY <2>2 DEF ParentsAreLive, ParentsAreStored
  <2> QED BY <2>1, <2>3, <2>4 DEF TreeInv, FrontInv
<1>3. ASSUME NEW r \in Requests, WriteBy(r)
      PROVE  TreeInv' /\ FrontInv'
  <2> DEFINE k == request[r]
  <2> USE DEF Inv, TypeInv, TreeTypeOK
  <2>1. CASE PageStored(k)
    <3>1. PICK g \in [status : Statuses, parent : Pages \cup {None}, revision : Nat] :
            pages' = [pages EXCEPT ![k.page] = g] /\ g.status = k.status /\ g.parent = k.parent
      <4>1. PICK revision \in Nat :
              pages' = [pages EXCEPT ![k.page] =
                [status |-> k.status, parent |-> k.parent, revision |-> revision]]
        BY <2>1 DEF PageStored
      <4> DEFINE g == [status |-> k.status, parent |-> k.parent, revision |-> revision]
      <4>2. g \in [status : Statuses, parent : Pages \cup {None}, revision : Nat]
        BY <2>1 DEF PageStored
      <4> QED BY <4>1, <4>2
    <3>2. TreeInv' BY <2>1, <3>1, WriteKeepsTree DEF PageStored
    <3>3. FrontInv'
      <4> SUFFICES ASSUME front.page # None, FrontPage \notin outdated
                   PROVE  /\ pages'[front.page] # NoPage
                          /\ front.page \notin outdated' => pages'[front.page].status = "published"
        BY <2>1 DEF PageStored, FrontInv, Published, Stored
      <4>1. front.page \in Pages OBVIOUS
      <4>2. g # NoPage BY DEF NoPage, Statuses, Live
      <4>3. CASE front.page = k.page
        <5>1. pages'[front.page] = g BY <3>1, <4>1, <4>3
        <5> QED BY <2>1, <3>1, <4>2, <4>3, <5>1 DEF PageStored, IsFront
      <4>4. CASE front.page # k.page
        <5>1. pages'[front.page] = pages[front.page] BY <3>1, <4>1, <4>4
        <5>2. front.page \notin outdated' => front.page \notin outdated
          BY <2>1, <4>4 DEF PageStored
        <5> QED BY <5>1, <5>2 DEF FrontInv, Stored, Published
      <4> QED BY <4>3, <4>4
    <3> QED BY <3>2, <3>3
  <2>2. CASE PageDeleted(k)
    <3>1. TreeInv' BY <2>2, DeleteKeepsTree DEF PageDeleted
    <3>2. FrontInv'
      <4>1. FrontPage \in outdated' <=> FrontPage \in outdated
        BY <2>2, ConstantAssumption DEF PageDeleted
      <4> QED BY <2>2, <4>1 DEF PageDeleted, FrontInv, Published, Stored, IsFront
    <3> QED BY <3>1, <3>2
  <2>3. CASE FrontStored(k)
    <3>1. \A p \in Pages : p \in outdated' <=> p \in outdated
      BY <2>3, ConstantAssumption DEF FrontStored
    <3>2. pages' = pages BY <2>3 DEF FrontStored
    <3>3. Pages \ outdated' = Pages \ outdated BY <3>1
    <3>4. TreeInv'
      BY <3>2, <3>3 DEF TreeInv, NoCycle, ParentsAreLive, ParentsAreStored, Stored
    <3>5. \A p \in Pages : Published(p) => Stored(p) BY DEF Published, Stored, NoPage
    <3>6. FrontInv'
      BY <2>3, <3>2, <3>5 DEF FrontStored, FrontInv, Published, Stored
    <3> QED BY <3>4, <3>6
  <2> QED BY <1>1, <1>3, <2>1, <2>2, <2>3, Writes
<1>4. ASSUME NEW r \in Requests, NEW k \in Requested, Begun(r, k)
      PROVE  TreeInv' /\ FrontInv'
  BY <1>1, <1>4 DEF Begun
<1> QED BY <1>1, <1>2, <1>3, <1>4, Steps DEF Inv, treeVars

LEMMA WriteEndsRequest ==
  ASSUME NEW r \in Requests, WriteBy(r)
  PROVE  request' = [request EXCEPT ![r] = NoRequest]
BY DEF WriteBy, WriteCreate, WriteUpdate, WriteDelete, WriteRouting, FailWrite, WriteImport,
       WriteFinalize, End

LEMMA FreshStep ==
  ASSUME Inv, [TreeNext]_treeVars
  PROVE  FreshInv'
<1> USE DEF Inv, TypeInv, TreeTypeOK
<1>1. CASE UNCHANGED <<pages, request>> BY <1>1 DEF FreshInv, Stored
<1>2. CASE ClearContent
  <2>1. request' = request /\ \A p \in Pages : ~Stored(p)'
    BY <1>2 DEF ClearContent, Stored
  <2> QED BY <2>1 DEF FreshInv, RequestInv, PageWrites
<1>3. ASSUME NEW r \in Requests, WriteBy(r)
      PROVE  FreshInv'
  <2>1. request' = [request EXCEPT ![r] = NoRequest] BY <1>3, WriteEndsRequest
  <2>2. \A s \in Requests : request'[s] = request[s] \/ request'[s] = NoRequest
    BY <2>1
  <2> SUFFICES ASSUME NEW s \in Requests, request'[s].kind = "create"
               PROVE  /\ pages'[request'[s].page] = NoPage
                      /\ \A u \in Requests \ {s} : request'[u].page # request'[s].page
    BY DEF FreshInv, Stored
  <2>3. s # r /\ request'[s] = request[s] BY <2>1 DEF NoRequest
  <2>4. /\ request[s].page \in Pages /\ ~Stored(request[s].page)
        /\ \A u \in Requests \ {s} : request[u].page # request[s].page
    BY <2>3 DEF FreshInv, RequestInv, PageWrites
  <2>5. \A u \in Requests \ {s} : request'[u].page # request'[s].page
    BY <2>2, <2>3, <2>4, ConstantAssumption DEF NoRequest
  <2>6. pages'[request[s].page] = pages[request[s].page]
    BY <1>3, <2>3, <2>4, Writes DEF PageStored, PageDeleted, FrontStored
  <2> QED BY <2>3, <2>4, <2>5, <2>6 DEF Stored
<1>4. ASSUME NEW r \in Requests, NEW k \in Requested, Begun(r, k), Checked(k)
      PROVE  FreshInv'
  <2>1. /\ request' = [request EXCEPT ![r] = k] /\ pages' = pages
    BY <1>4 DEF Begun
  <2>2. k.page \in FreePages \/ k.page = None \/ Stored(k.page)
    <3>1. \A p \in Pages : Published(p) => Stored(p) BY DEF Published, Stored, NoPage
    <3> QED BY <1>4, <3>1 DEF Checked
  <2>3. k.kind = "create" => k.page \in FreePages BY <1>4 DEF Checked
  <2> SUFFICES ASSUME NEW s \in Requests, request'[s].kind = "create"
               PROVE  /\ ~Stored(request'[s].page)
                      /\ \A u \in Requests \ {s} : request'[u].page # request'[s].page
    BY <2>1 DEF FreshInv, Stored
  <2>4. CASE s = r
    BY <2>1, <2>3, <2>4 DEF FreePages
  <2>5. CASE s # r
    <3>1. request'[s] = request[s] BY <2>1, <2>5
    <3>2. /\ request[s].page \in Pages /\ ~Stored(request[s].page)
          /\ \A u \in Requests \ {s} : request[u].page # request[s].page
      BY <3>1 DEF FreshInv, RequestInv, PageWrites
    <3>3. k.page # request[s].page
      BY <2>2, <3>2, ConstantAssumption DEF FreePages
    <3> QED BY <2>1, <3>1, <3>2, <3>3
  <2> QED BY <2>4, <2>5
<1> QED BY <1>1, <1>2, <1>3, <1>4, Steps DEF treeVars

LEMMA InitInv ==
  ASSUME TreeInit
  PROVE  Inv
<1> USE DEF TreeInit
<1>1. \A p \in Pages : pages[p].parent = None BY DEF NoPage
<1>2. TypeInv BY DEF TypeInv, TreeTypeOK, RequestInv, NoPage, NoRequest, PageWrites, Statuses, Live
<1>3. \A r \in Requests : request[r].kind = "none" BY DEF NoRequest
<1>4. FreshInv BY <1>3 DEF FreshInv
<1>5. TreeInv
  BY <1>1, ConstantAssumption DEF TreeInv, NoCycle, ParentsAreLive, ParentsAreStored
<1>6. FrontInv BY DEF FrontInv
<1> QED BY <1>2, <1>4, <1>5, <1>6 DEF Inv

\* The inductive invariant.
LEMMA Invariance == TreeSpec => []Inv
<1>1. Inv /\ [TreeNext]_treeVars => Inv'
  BY TypeStep, FreshStep, TreeStep DEF Inv
<1> QED BY <1>1, InitInv, PTL DEF TreeSpec

\* However moves, imports and deletions interleave, a Page lies below itself
\* only where an import stored a parent on outdated checks (updatePage's
\* guards, and importPage's missing ones).
THEOREM TreesHaveNoCycle == TreeSpec => []NoCycle
<1>1. Inv => NoCycle BY DEF Inv, TreeInv
<1> QED BY <1>1, Invariance, PTL

\* No interleaving of writes leaves a Page below a trashed or deleted one,
\* unless an import stored the Page on outdated checks.
THEOREM ParentsStayLive == TreeSpec => []ParentsAreLive
<1>1. Inv => ParentsAreLive BY DEF Inv, TreeInv
<1> QED BY <1>1, Invariance, PTL

\* The Page that the routing settings name stays published, however Page and
\* settings writes interleave, unless an import stored the Page or the setting
\* on outdated checks.
THEOREM FrontPageStaysPublished == TreeSpec => []FrontPageIsPublished
<1>1. Inv => FrontPageIsPublished BY DEF Inv, FrontInv, FrontPageIsPublished
<1> QED BY <1>1, Invariance, PTL
==============================================================================

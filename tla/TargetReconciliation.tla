------------------------ MODULE TargetReconciliation ------------------------
(***************************************************************************)
(* The reconciliation of Edge comment targets with the Posts and Pages of  *)
(* Studio.  One row of the Studio database holds the operation: its phase  *)
(* and two cursors.  A step request reads the row, does one page of work   *)
(* on both databases and moves the row on with a compare-and-set; requests *)
(* may overlap, be repeated and stop between any two database calls.       *)
(* Pending projections are the queues of TargetReplication, which          *)
(* CommentTargetOutbox implements: the head of a queue is written to the   *)
(* Edge database at least once and then confirmed.                         *)
(***************************************************************************)
EXTENDS Naturals, Sequences, FiniteSets, FiniteSetsExt, Functions

CONSTANTS
  Posts, Pages,   \* public ids, in one numbering
  Values,         \* the (status, allow_comments) pairs a target mirrors
  Comments,       \* comments readers may leave on a target
  Workers,        \* requests of the operation that can run at the same time
  BatchSize,      \* targets per page of work (250 in the code)
  QuietSteps,     \* assumption: no content write while a request runs
  Operations,     \* operation ids
  NoId,           \* no operation
  Tokens,         \* cache revisions of Edge rows (128 random bits each)
  MaxWrites,      \* bound: content writes
  MaxSwitches     \* bound: times the integration is switched on

ASSUME TargetAssumption ==
  /\ Posts \subseteq Nat \ {0}
  /\ Pages \subseteq Nat \ {0}
  /\ Posts \cap Pages = {}
  /\ IsFiniteSet(Posts) /\ IsFiniteSet(Pages)

ASSUME ValueAssumption == Values \subseteq Nat \ {0}

ASSUME OperationAssumption == NoId \notin Operations

ASSUME BoundAssumption ==
  /\ BatchSize \in Nat \ {0}
  /\ MaxWrites \in Nat
  /\ MaxSwitches \in Nat
  /\ QuietSteps \in BOOLEAN

VARIABLES
  content,     \* Studio: what the stored row of a target projects, NoRow if none
  tracked,     \* Studio: is the Edge integration enabled?
  activation,  \* the request that switches the integration on (see NoActivation)
  queue,       \* Studio: the pending projections of a target, oldest first
  replayed,    \* targets whose oldest projection was written to Edge
  state,       \* Studio: the reconciliation row, NoOperation if none
  orphans,     \* Studio: the listed orphans of the operation, by Edge row id
  edge,        \* Edge: the target rows, by row id
  posted,      \* Edge: the comments posted so far
  pc,          \* request: next database call
  view,        \* request: the reconciliation row it read
  after,       \* request: the row it will store instead
  page,        \* request: the rows it works on
  checks,      \* request: the conditions of completion it found to hold
  writes,      \* content writes so far
  switches,    \* times the integration was switched on so far
  disturbed,   \* history: was content written since the operation started?
  overtaken    \* history: the targets written since its drain without a projection
               \* although an older one was pending

studioVars == <<content, tracked, activation, queue, replayed>>
edgeVars == <<edge, posted>>
requestVars == <<pc, view, after, page, checks>>
historyVars == <<disturbed, overtaken>>
countVars == <<writes, switches, historyVars>>
vars == <<studioVars, state, orphans, edgeVars, requestVars, countVars>>

NoRow == 0
Targets == Posts \cup Pages
NoOperation == [op |-> NoId, phase |-> "none", cursor |-> 0, edgeCursor |-> 0]
Empty == [i \in {} |-> NoRow]

\* The request that enables the integration compares the targets one after
\* another: those that matched so far, and (history) those of them that were
\* written after their comparison, without a projection.
NoActivation == [running |-> FALSE, matched |-> {}, missed |-> {}]

Phases == {"drain_outbox", "sync_posts", "sync_pages", "scan_orphans", "orphan_review"}

States ==
  [op : Operations \cup {NoId}, phase : Phases \cup {"none"},
 cursor : Targets \cup {0}, edgeCursor : Nat]

EdgeRows ==
  [target : Targets, value : Values, revision : Tokens, comments : SUBSET Comments]

Steps == {"idle", "lost", "step", "sync", "scanned", "found", "counted", "advance", "finalize",
          "purge", "listed", "absent", "unchanged", "delete", "unlist"}

Conditions == {"orphans", "pending", "posts", "pages"}

TypeOK ==
  /\ content \in [Targets -> Values \cup {NoRow}]
  /\ tracked \in BOOLEAN
  /\ activation \in [running : BOOLEAN, matched : SUBSET Targets, missed : SUBSET Targets]
  /\ queue \in [Targets -> Seq(Values \cup {NoRow})]
  /\ replayed \subseteq Targets
  /\ state \in States
  /\ DOMAIN orphans \subseteq Nat
  /\ orphans \in [DOMAIN orphans -> EdgeRows]
  /\ DOMAIN edge \subseteq Nat
  /\ edge \in [DOMAIN edge -> EdgeRows]
  /\ posted \subseteq Comments
  /\ pc \in [Workers -> Steps]
  /\ view \in [Workers -> States]
  /\ after \in [Workers -> States]
  /\ checks \in [Workers -> SUBSET Conditions]
  /\ writes \in Nat
  /\ switches \in Nat
  /\ disturbed \in BOOLEAN
  /\ overtaken \subseteq Targets

IdsOf(t) == {i \in DOMAIN edge : edge[i].target = t}

\* What the Edge database mirrors of a target.
Mirrored(t) == IF IdsOf(t) = {} THEN NoRow ELSE edge[CHOOSE i \in IdsOf(t) : TRUE].value

CommentsOf(i) == IF i \in DOMAIN edge THEN edge[i].comments ELSE {}

Matches(T) == \A t \in T : Mirrored(t) = content[t]

NothingPending == \A t \in Targets : queue[t] = << >>

\* The first BatchSize members of a set of numbers.
FirstOf(S) == {i \in S : Cardinality({j \in S : j < i}) < BatchSize}

LastEdgeId == Max(DOMAIN edge \cup {0})

\* The rows of an Edge database that mirrors f, with ids in the order of targets.
RowsOf(f) ==
  LET stored == {t \in Targets : f[t] # NoRow}
      rank(t) == Cardinality({u \in stored : u <= t})
      at(i) == CHOOSE t \in stored : rank(t) = i
  IN  [i \in {rank(t) : t \in stored} |->
         [target |-> at(i), value |-> f[at(i)], revision |-> i, comments |-> {}]]

\* The integration runs with both sides equal, or is off with whatever an
\* earlier restore, outage or period without it left on the Edge side.
Init ==
  /\ content \in [Targets -> Values \cup {NoRow}]
  /\ tracked \in BOOLEAN
  /\ activation = NoActivation
  /\ queue = [t \in Targets |-> << >>]
  /\ replayed = {}
  /\ state = NoOperation
  /\ orphans = Empty
  /\ \E f \in [Targets -> Values \cup {NoRow}] :
       /\ tracked => f = content
       /\ edge = RowsOf(f)
  /\ posted = {}
  /\ pc = [w \in Workers |-> "idle"]
  /\ view = [w \in Workers |-> NoOperation]
  /\ after = [w \in Workers |-> NoOperation]
  /\ page = [w \in Workers |-> Empty]
  /\ checks = [w \in Workers |-> {}]
  /\ writes = 0
  /\ switches = 0
  /\ disturbed = FALSE
  /\ overtaken = {}

-----------------------------------------------------------------------------
(* Content writes, the mode of the integration and the projection of writes *)

RequestsIdle == \A w \in Workers : pc[w] \in {"idle", "lost"}

\* Ordinary content requests are refused in maintenance mode, where steps run;
\* the mode is changed between steps.
WriteContent(t, v) ==
  /\ QuietSteps => RequestsIdle
  /\ writes < MaxWrites
  /\ v # content[t]
  /\ content' = [content EXCEPT ![t] = v]
  /\ queue' = IF tracked THEN [queue EXCEPT ![t] = Append(@, v)] ELSE queue
  /\ writes' = writes + 1
  /\ activation' = [activation EXCEPT !.missed =
       IF tracked THEN @ \ {t} ELSE @ \cup ({t} \cap activation.matched)]
  /\ disturbed' = (state # NoOperation)
  /\ overtaken' = IF tracked THEN overtaken \ {t}
                  ELSE IF queue[t] # << >> /\ state.phase \notin {"none", "drain_outbox"}
                       THEN overtaken \cup {t}
                       ELSE overtaken
  /\ UNCHANGED <<tracked, replayed, switches, state, orphans, edgeVars, requestVars>>

\* The settings of the Edge services may be stored whether or not there is an
\* operation, and whatever its requests are doing.
DisableIntegration ==
  /\ tracked
  /\ tracked' = FALSE
  /\ activation' = NoActivation      \* the settings revision moved
  /\ UNCHANGED <<content, queue, replayed, state, orphans, edgeVars, requestVars, countVars>>

\* To enable the integration, a request counts the pending projections, ...
CountPending ==
  /\ switches < MaxSwitches
  /\ ~ tracked
  /\ NothingPending
  /\ activation' = [NoActivation EXCEPT !.running = TRUE]
  /\ UNCHANGED <<content, tracked, queue, replayed, state, orphans, edgeVars, requestVars,
                 countVars>>

\* ... then compares the targets of both databases, Posts before Pages and some
\* rows at a time, until two differ ...
CompareTarget(t) ==
  /\ activation.running
  /\ t \notin activation.matched
  /\ \A u \in Targets \ activation.matched :
       IF t \in Posts THEN u \in Posts => t <= u ELSE u \in Pages /\ t <= u
  /\ activation' = IF Mirrored(t) = content[t]
                   THEN [activation EXCEPT !.matched = @ \cup {t}]
                   ELSE NoActivation
  /\ UNCHANGED <<content, tracked, queue, replayed, state, orphans, edgeVars, requestVars,
                 countVars>>

\* Faulty variant: an empty outbox is taken for parity.
EnableWithoutParity ==
  /\ activation.running
  /\ tracked' = TRUE
  /\ activation' = [NoActivation EXCEPT !.missed = activation.missed]
  /\ switches' = switches + 1
  /\ UNCHANGED <<content, queue, replayed, state, orphans, edgeVars, requestVars, writes,
                 historyVars>>

\* ... and stores the mode in a transaction of its own.
EnableIntegration ==
  /\ activation.running
  /\ activation.matched = Targets
  /\ tracked' = TRUE
  /\ activation' = [NoActivation EXCEPT !.missed = activation.missed]
  /\ switches' = switches + 1
  /\ UNCHANGED <<content, queue, replayed, state, orphans, edgeVars, requestVars, writes,
                 historyVars>>

\* A revision is only ever compared with an earlier one of the same row, and
\* never equals one that is remembered somewhere.
FreshToken ==
  CHOOSE n \in Tokens :
    /\ \A i \in DOMAIN edge : n # edge[i].revision
    /\ \A i \in DOMAIN orphans : n # orphans[i].revision
    /\ \A w \in Workers : pc[w] # "sync" =>
         \A i \in DOMAIN page[w] : n # page[w][i].revision

\* INSERT ... ON CONFLICT (target_type, public_id) DO UPDATE for the targets of
\* f: new rows get the next free ids, in order, and a fresh cache revision.
Upsert(f) ==
  LET new == {t \in DOMAIN f : IdsOf(t) = {}}
      rank(t) == Cardinality({u \in new : u <= t})
      at(i) == CHOOSE t \in new : LastEdgeId + rank(t) = i
      ids == {LastEdgeId + rank(t) : t \in new}
  IN  edge' = [i \in DOMAIN edge \cup ids |->
                 IF i \in ids
                 THEN [target |-> at(i), value |-> f[at(i)],
                       revision |-> FreshToken, comments |-> {}]
                 ELSE IF edge[i].target \in DOMAIN f
                      THEN [edge[i] EXCEPT !.value = f[edge[i].target]]
                      ELSE edge[i]]

\* Comments go with their target.
RemoveRows(ids) == edge' = Restrict(edge, DOMAIN edge \ ids)

\* A drain, of a step request or any other, writes the oldest projection ...
Replay(t) ==
  /\ queue[t] # << >>
  /\ IF Head(queue[t]) = NoRow
     THEN RemoveRows(IdsOf(t))
     ELSE Upsert([u \in {t} |-> Head(queue[t])])
  /\ replayed' = replayed \cup {t}
  /\ UNCHANGED <<content, tracked, activation, queue, state, orphans, posted, requestVars,
                 countVars>>

\* ... and deletes its outbox row.
Confirm(t) ==
  /\ t \in replayed
  /\ queue' = [queue EXCEPT ![t] = Tail(@)]
  /\ replayed' = replayed \ {t}
  /\ UNCHANGED <<content, tracked, activation, state, orphans, edgeVars, requestVars, countVars>>

\* A reader's comment; whether the Edge application then draws a new cache
\* revision depends on the comment's status.
PostComment(i, c) ==
  /\ i \in DOMAIN edge
  /\ c \notin posted
  /\ posted' = posted \cup {c}
  /\ \E fresh \in BOOLEAN :
       edge' = [edge EXCEPT ![i].comments = @ \cup {c},
                            ![i].revision = IF fresh THEN FreshToken ELSE @]
  /\ UNCHANGED <<studioVars, state, orphans, requestVars, countVars>>

\* Comment moderation deletes a comment, between steps as any other write.
DeleteComment(i, c) ==
  /\ QuietSteps => RequestsIdle
  /\ i \in DOMAIN edge
  /\ c \in edge[i].comments
  /\ edge' = [edge EXCEPT ![i].comments = @ \ {c}, ![i].revision = FreshToken]
  /\ UNCHANGED <<studioVars, state, orphans, posted, requestVars, countVars>>

-----------------------------------------------------------------------------
(* The life of an operation *)

\* An operation id is 128 random bits: no request holds it from before.
Start(op) ==
  /\ state = NoOperation
  /\ \A w \in Workers : view[w].op # op
  /\ state' = [NoOperation EXCEPT !.op = op, !.phase = "drain_outbox"]
  /\ UNCHANGED <<studioVars, orphans, edgeVars, requestVars, countVars>>

\* The row goes, and its orphans with it.
RemoveOperation ==
  /\ state' = NoOperation
  /\ orphans' = Empty
  /\ disturbed' = FALSE
  /\ overtaken' = {}

Cancel ==
  /\ state # NoOperation
  /\ RemoveOperation
  /\ UNCHANGED <<studioVars, edgeVars, requestVars, writes, switches>>

GoTo(w, step) == pc' = [pc EXCEPT ![w] = step]

\* The request has no more use for its rows.
Drop(w, step) ==
  /\ pc' = [pc EXCEPT ![w] = step]
  /\ page' = [page EXCEPT ![w] = Empty]

Leave(w, step) ==
  /\ pc' = [pc EXCEPT ![w] = step]
  /\ view' = [view EXCEPT ![w] = NoOperation]
  /\ after' = [after EXCEPT ![w] = NoOperation]
  /\ page' = [page EXCEPT ![w] = Empty]
  /\ checks' = [checks EXCEPT ![w] = {}]

Return(w) == Leave(w, "idle")

\* A database call fails, or the Worker is evicted.
Abandon(w) ==
  /\ pc[w] \notin {"idle", "lost"}
  /\ Leave(w, "lost")
  /\ UNCHANGED <<studioVars, state, orphans, edgeVars, countVars>>

\* The next request can be made.
Recover(w) ==
  /\ pc[w] = "lost"
  /\ Return(w)
  /\ UNCHANGED <<studioVars, state, orphans, edgeVars, countVars>>

\* Every request reads the row first; a purge or a completion needs the review.
ReadState(w, step) ==
  /\ pc[w] = "idle"
  /\ state # NoOperation
  /\ step # "step" => state.phase = "orphan_review"
  /\ step = "step" => state.phase # "orphan_review"
  /\ view' = [view EXCEPT ![w] = state]
  /\ GoTo(w, step)
  /\ UNCHANGED <<studioVars, state, orphans, edgeVars, after, page, checks, countVars>>

-----------------------------------------------------------------------------
(* Steps *)

\* After its drain the step counts what is left in the outbox; the phase stays
\* until that is nothing.
CountRemaining(w) ==
  /\ pc[w] = "step" /\ view[w].phase = "drain_outbox"
  /\ IF NothingPending
     THEN /\ after' = [after EXCEPT ![w] = [view[w] EXCEPT !.phase = "sync_posts"]]
          /\ GoTo(w, "advance")
          /\ UNCHANGED <<view, page, checks>>
     ELSE Return(w)
  /\ UNCHANGED <<studioVars, state, orphans, edgeVars, countVars>>

Synced(phase) == IF phase = "sync_posts" THEN Posts ELSE Pages
PhaseAfter(phase) == IF phase = "sync_posts" THEN "sync_pages" ELSE "scan_orphans"

SourceRows(w) ==
  FirstOf({t \in Synced(view[w].phase) : content[t] # NoRow /\ t > view[w].cursor})

\* Faulty variant: the cursor stays where it is.
ReadPageAgain(w) ==
  /\ pc[w] = "step" /\ view[w].phase \in {"sync_posts", "sync_pages"}
  /\ page' = [page EXCEPT ![w] = [t \in SourceRows(w) |-> content[t]]]
  /\ after' = [after EXCEPT ![w] =
       IF Cardinality(SourceRows(w)) < BatchSize
       THEN [view[w] EXCEPT !.phase = PhaseAfter(@), !.cursor = 0]
       ELSE view[w]]
  /\ GoTo(w, "sync")
  /\ UNCHANGED <<studioVars, state, orphans, edgeVars, view, checks, countVars>>

\* One page of rows behind the cursor; a short page ends the phase.
ReadPage(w) ==
  /\ pc[w] = "step" /\ view[w].phase \in {"sync_posts", "sync_pages"}
  /\ page' = [page EXCEPT ![w] = [t \in SourceRows(w) |-> content[t]]]
  /\ after' = [after EXCEPT ![w] =
       IF Cardinality(SourceRows(w)) < BatchSize
       THEN [view[w] EXCEPT !.phase = PhaseAfter(@), !.cursor = 0]
       ELSE [view[w] EXCEPT !.cursor = Max(SourceRows(w))]]
  /\ GoTo(w, "sync")
  /\ UNCHANGED <<studioVars, state, orphans, edgeVars, view, checks, countVars>>

WritePage(w) ==
  /\ pc[w] = "sync"
  /\ Upsert(page[w])
  /\ Drop(w, "advance")
  /\ UNCHANGED <<studioVars, state, orphans, posted, view, after, checks, countVars>>

\* One page of Edge rows behind the Edge cursor; a short page ends the scan.
ScanPage(w) ==
  /\ pc[w] = "step" /\ view[w].phase = "scan_orphans"
  /\ LET ids == FirstOf({i \in DOMAIN edge : i > view[w].edgeCursor})
     IN  /\ page' = [page EXCEPT ![w] = [i \in ids |-> edge[i]]]
         /\ after' = [after EXCEPT ![w] =
              [view[w] EXCEPT
                 !.phase = IF Cardinality(ids) < BatchSize THEN "orphan_review" ELSE @,
                 !.edgeCursor = IF ids = {} THEN @ ELSE Max(ids)]]
  /\ GoTo(w, "scanned")
  /\ UNCHANGED <<studioVars, state, orphans, edgeVars, view, checks, countVars>>

LookUpContent(w) ==
  /\ pc[w] = "scanned"
  /\ page' = [page EXCEPT ![w] =
       Restrict(page[w], {i \in DOMAIN page[w] : content[page[w][i].target] = NoRow})]
  /\ GoTo(w, "found")
  /\ UNCHANGED <<studioVars, state, orphans, edgeVars, view, after, checks, countVars>>

\* The comments are counted apart from the read of the rows; the model keeps
\* which they were where the code keeps how many.
CountComments(w) ==
  /\ pc[w] = "found"
  /\ page' = [page EXCEPT ![w] = [i \in DOMAIN page[w] |->
       [page[w][i] EXCEPT !.comments = CommentsOf(i)]]]
  /\ GoTo(w, "counted")
  /\ UNCHANGED <<studioVars, state, orphans, edgeVars, view, after, checks, countVars>>

\* The list belongs to the operation (a foreign key) and names a target once.
MayList(w) ==
  /\ state.op = view[w].op
  /\ \A i \in DOMAIN page[w], j \in DOMAIN orphans :
       page[w][i].target = orphans[j].target => i = j

ListOrphans(w) ==
  /\ pc[w] = "counted"
  /\ IF DOMAIN page[w] = {} \/ MayList(w)
     THEN /\ orphans' = [i \in DOMAIN page[w] \cup DOMAIN orphans |->
                          IF i \in DOMAIN page[w] THEN page[w][i] ELSE orphans[i]]
          /\ Drop(w, "advance")
          /\ UNCHANGED <<view, after, checks>>
     ELSE Return(w) /\ UNCHANGED orphans
  /\ UNCHANGED <<studioVars, state, edgeVars, countVars>>

\* Faulty variant: the operation id is not compared.
AdvanceByPhase(w) ==
  /\ pc[w] = "advance"
  /\ state' = IF state = [view[w] EXCEPT !.op = state.op]
              THEN [after[w] EXCEPT !.op = state.op] ELSE state
  /\ Return(w)
  /\ UNCHANGED <<studioVars, orphans, edgeVars, countVars>>

\* The row moves on unless another request moved or removed it.
Advance(w) ==
  /\ pc[w] = "advance"
  /\ state' = IF state = view[w] THEN after[w] ELSE state
  /\ Return(w)
  /\ UNCHANGED <<studioVars, orphans, edgeVars, countVars>>

-----------------------------------------------------------------------------
(* Purging listed orphans.  One request handles several, one after another. *)

Listed(w, i) == state.op = view[w].op /\ i \in DOMAIN orphans

ReadOrphan(w, i) ==
  /\ pc[w] = "purge"
  /\ Listed(w, i)
  /\ page' = [page EXCEPT ![w] = [j \in {i} |-> orphans[i]]]
  /\ GoTo(w, "listed")
  /\ UNCHANGED <<studioVars, state, orphans, edgeVars, view, after, checks, countVars>>

Chosen(w) == CHOOSE i \in DOMAIN page[w] : TRUE
Snapshot(w) == page[w][Chosen(w)]

\* Faulty variant: the target is not looked up in Studio again.
LookUpNothing(w) ==
  /\ pc[w] = "listed"
  /\ GoTo(w, "absent")
  /\ UNCHANGED <<studioVars, state, orphans, edgeVars, view, after, page, checks, countVars>>

LookUpOrphan(w) ==
  /\ pc[w] = "listed"
  /\ GoTo(w, IF content[Snapshot(w).target] = NoRow THEN "absent" ELSE "unlist")
  /\ UNCHANGED <<studioVars, state, orphans, edgeVars, view, after, page, checks, countVars>>

\* Is the row of the Edge database still the one that was listed?
SameRow(w) ==
  LET row == edge[Chosen(w)]
  IN  /\ row.target = Snapshot(w).target
      /\ row.value = Snapshot(w).value
      /\ row.revision = Snapshot(w).revision

SameCount(w) == Cardinality(CommentsOf(Chosen(w))) = Cardinality(Snapshot(w).comments)

\* A row that changed is left alone; the request turns to its next id.
KeepTarget(w) == Drop(w, "purge")

ReadCurrent(w) ==
  /\ pc[w] = "absent"
  /\ IF Chosen(w) \in DOMAIN edge /\ ~ SameRow(w)
     THEN KeepTarget(w)
     ELSE /\ GoTo(w, IF Chosen(w) \in DOMAIN edge THEN "unchanged" ELSE "unlist")
          /\ UNCHANGED page
  /\ UNCHANGED <<studioVars, state, orphans, edgeVars, view, after, checks, countVars>>

RecountComments(w) ==
  /\ pc[w] = "unchanged"
  /\ IF SameCount(w)
     THEN GoTo(w, "delete") /\ UNCHANGED page
     ELSE KeepTarget(w)
  /\ UNCHANGED <<studioVars, state, orphans, edgeVars, view, after, checks, countVars>>

\* Faulty variant: the comments were counted before, so only the row is compared.
DeleteUncounted(w) ==
  /\ pc[w] = "delete"
  /\ IF Chosen(w) \in DOMAIN edge /\ SameRow(w)
     THEN RemoveRows({Chosen(w)}) /\ GoTo(w, "unlist") /\ UNCHANGED page
     ELSE UNCHANGED edge /\ KeepTarget(w)
  /\ UNCHANGED <<studioVars, state, orphans, posted, view, after, checks, countVars>>

\* The deletion repeats every comparison in its own statement.
DeleteTarget(w) ==
  /\ pc[w] = "delete"
  /\ IF Chosen(w) \in DOMAIN edge /\ SameRow(w) /\ SameCount(w)
     THEN RemoveRows({Chosen(w)}) /\ GoTo(w, "unlist") /\ UNCHANGED page
     ELSE UNCHANGED edge /\ KeepTarget(w)
  /\ UNCHANGED <<studioVars, state, orphans, posted, view, after, checks, countVars>>

Unlist(w) ==
  /\ pc[w] = "unlist"
  /\ orphans' = IF Listed(w, Chosen(w))
                THEN Restrict(orphans, DOMAIN orphans \ {Chosen(w)})
                ELSE orphans
  /\ Drop(w, "purge")
  /\ UNCHANGED <<studioVars, state, edgeVars, view, after, checks, countVars>>

FinishPurge(w) ==
  /\ pc[w] = "purge"
  /\ Return(w)
  /\ UNCHANGED <<studioVars, state, orphans, edgeVars, countVars>>

-----------------------------------------------------------------------------
(* Completion *)

Holds(w, c) ==
  CASE c = "orphans" -> ~ (state.op = view[w].op /\ orphans # Empty)
    [] c = "pending" -> NothingPending
    [] c = "posts" -> Matches(Posts)
    [] c = "pages" -> Matches(Pages)

\* The reads run side by side, in any order; parity compares posts, then pages.
\* The request is refused if one of them fails.
CheckCondition(w, c) ==
  /\ pc[w] = "finalize"
  /\ c \notin checks[w]
  /\ c = "pages" => "posts" \in checks[w]
  /\ IF Holds(w, c)
     THEN /\ checks' = [checks EXCEPT ![w] = @ \cup {c}]
          /\ UNCHANGED <<pc, view, after, page>>
     ELSE Return(w)
  /\ UNCHANGED <<studioVars, state, orphans, edgeVars, countVars>>

\* Faulty variant: pending projections are not asked for.
FinalizeWithPending(w) ==
  /\ pc[w] = "finalize"
  /\ Conditions \ {"pending"} \subseteq checks[w]
  /\ IF state.op = view[w].op /\ state.phase = "orphan_review"
     THEN RemoveOperation
     ELSE UNCHANGED <<state, orphans, historyVars>>
  /\ Return(w)
  /\ UNCHANGED <<studioVars, edgeVars, writes, switches>>

\* The row is deleted unless it was cancelled or replaced meanwhile.
Finalize(w) ==
  /\ pc[w] = "finalize"
  /\ checks[w] = Conditions
  /\ IF state.op = view[w].op /\ state.phase = "orphan_review"
     THEN RemoveOperation
     ELSE UNCHANGED <<state, orphans, historyVars>>
  /\ Return(w)
  /\ UNCHANGED <<studioVars, edgeVars, writes, switches>>

-----------------------------------------------------------------------------
SwitchStep ==
  \/ DisableIntegration
  \/ CountPending
  \/ \E t \in Targets : CompareTarget(t)
  \/ EnableIntegration

ContentStep ==
  \/ \E t \in Targets, v \in Values \cup {NoRow} : WriteContent(t, v)
  \/ SwitchStep

ProjectionStep == \E t \in Targets : Replay(t) \/ Confirm(t)

CommentStep ==
  \E i \in DOMAIN edge, c \in Comments : PostComment(i, c) \/ DeleteComment(i, c)

AdvanceStep(w) ==
  \/ CountRemaining(w)
  \/ ReadPage(w) \/ WritePage(w)
  \/ ScanPage(w) \/ LookUpContent(w) \/ CountComments(w) \/ ListOrphans(w)
  \/ Advance(w)

PurgeStep(w) ==
  \/ \E i \in DOMAIN orphans : ReadOrphan(w, i)
  \/ LookUpOrphan(w) \/ ReadCurrent(w) \/ RecountComments(w)
  \/ DeleteTarget(w) \/ Unlist(w)
  \/ FinishPurge(w)

FinalizeStep(w) == (\E c \in Conditions : CheckCondition(w, c)) \/ Finalize(w)

RequestStep(w) ==
  \/ \E step \in {"step", "purge", "finalize"} : ReadState(w, step)
  \/ AdvanceStep(w)
  \/ PurgeStep(w)
  \/ FinalizeStep(w)
  \/ Abandon(w)
  \/ Recover(w)

Next ==
  \/ ContentStep
  \/ ProjectionStep
  \/ CommentStep
  \/ \E op \in Operations : Start(op)
  \/ Cancel
  \/ \E w \in Workers : RequestStep(w)

Spec == Init /\ [][Next]_vars

\* Pending projections are drained, an operator who started an operation keeps
\* asking for its next step, a request that runs comes to its end, and requests
\* are not interrupted for ever.
Fairness ==
  /\ \A t \in Targets : WF_vars(Replay(t)) /\ WF_vars(Confirm(t))
  /\ \A w \in Workers :
       /\ WF_vars(Recover(w))
       /\ WF_vars(ReadState(w, "step"))
       /\ WF_vars(AdvanceStep(w) \/ FinalizeStep(w))
       /\ WF_vars(PurgeStep(w)) /\ SF_vars(FinishPurge(w))
  /\ <>[][\A w \in Workers : ~ Abandon(w)]_vars

FairSpec == Spec /\ Fairness

-----------------------------------------------------------------------------
(* Properties *)

InProgress == state # NoOperation

Reviewing == state.phase = "orphan_review"

\* A completed operation leaves nothing pending and both databases equal,
\* although its conditions are read one by one while other requests run and
\* projections are drained.  The targets it makes no promise about are those
\* that were written with the integration switched off in mid-operation, over a
\* projection that was still pending.
CompletionIsTruthful ==
  [][\A w \in Workers :
       pc[w] = "finalize" /\ InProgress /\ state' = NoOperation /\ pc'[w] = "idle" =>
         /\ NothingPending'
         /\ \A t \in Targets \ overtaken : (Mirrored(t) = content[t])']_vars

\* The Edge rows a step removes without a pending deletion of their target.
Purged ==
  {i \in DOMAIN edge \ DOMAIN edge' :
     LET q == queue[edge[i].target] IN q = << >> \/ Head(q) # NoRow}

\* A purge never removes the target of a Post or Page that exists.
PurgeSparesContent ==
  [][\A i \in Purged : content[edge[i].target] = NoRow]_vars

\* A purge removes no comment that was not there when its target was listed,
\* and no row that took over the id of a listed one.
PurgeSparesUnseen ==
  [][\A i \in Purged :
       \E w \in Workers :
         /\ pc[w] = "delete" /\ i \in DOMAIN page[w]
         /\ edge[i].target = page[w][i].target
         /\ edge[i].comments \subseteq page[w][i].comments]_vars

\* While the integration is enabled, a target that differs from the stored
\* content has a projection on the way, the newest of which carries the
\* content: a reconciliation undoes nothing the outbox has projected, and the
\* integration is not switched on over a difference.  The targets left out are
\* those written between their comparison and the switch, and not since.
TrackedIsCovered ==
  tracked => \A t \in Targets \ activation.missed :
    IF queue[t] = << >> THEN Mirrored(t) = content[t]
    ELSE queue[t][Len(queue[t])] = content[t]

\* The targets a sync has gone past.
Passed ==
  CASE state.phase = "sync_posts" -> {t \in Posts : t <= state.cursor}
    [] state.phase = "sync_pages" -> Posts \cup {t \in Pages : t <= state.cursor}
    [] state.phase \in {"scan_orphans", "orphan_review"} -> Targets
    [] OTHER -> {}

\* Undisturbed by content writes, the cursors leave no gap: whatever requests
\* overlapped, were repeated, cut short or belonged to an operation that was
\* cancelled, every Post or Page that was passed is mirrored, and every Edge
\* row that was passed and has no Post or Page is listed.
CursorsLeaveNoGap ==
  ~ disturbed =>
    /\ \A t \in Passed : content[t] # NoRow => Mirrored(t) = content[t]
    /\ \A i \in DOMAIN edge :
         (Reviewing \/ i <= state.edgeCursor) /\ content[edge[i].target] = NoRow
           => i \in DOMAIN orphans

\* An operation comes to its review unless it is cancelled, even if two
\* requests keep racing for the row and requests keep being interrupted.
ReviewIsReached == InProgress ~> Reviewing \/ ~ InProgress
=============================================================================

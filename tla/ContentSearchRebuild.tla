------------------------ MODULE ContentSearchRebuild ------------------------
(***************************************************************************)
(* The full-text index of Posts and Pages and its checkpointed rebuild.    *)
(* A save stores a row and its index entry in one database batch; a start  *)
(* request empties the index and begins a rebuild; step requests read one  *)
(* page of rows and then, in a batch of their own, move the checkpoint on  *)
(* with a compare-and-set and index the rows that still have the revision  *)
(* that was read.  Editing, imports and further rebuild requests continue  *)
(* between any two database calls of a request.                            *)
(***************************************************************************)
EXTENDS Naturals, FiniteSets

CONSTANTS
  PostIds, PageIds,  \* public ids of Posts and of Pages
  Workers,           \* rebuild requests that can run at the same time
  Searches,          \* searches that can run at the same time
  BatchSize,         \* rows per step (5 in the code)
  MaxWrites,         \* bound: saves and deletions
  MaxStarts,         \* bound: rebuilds started
  MaxResets,         \* bound: restores and Clear content
  MaxEvictions       \* bound: requests that are stopped

ASSUME IdAssumption == PostIds \subseteq Nat \ {0} /\ PageIds \subseteq Nat \ {0}

ASSUME BoundAssumption ==
  /\ BatchSize \in Nat \ {0}
  /\ MaxWrites \in Nat /\ MaxStarts \in Nat /\ MaxResets \in Nat /\ MaxEvictions \in Nat

VARIABLES
  content,   \* the revision of every stored row, NoRow if there is none
  index,     \* the revision of every index entry, NoRow if there is none
  status,    \* the row content_search_index_state
  pc,        \* rebuild request: next database call
  view,      \* rebuild request: the status row it read
  page,      \* rebuild request: the rows it read, by public id
  search,    \* search request: its progress, then its answer, followed until
             \* the index is emptied under it
  writes,    \* saves and deletions so far; numbers the revisions
  starts,    \* rebuilds started so far
  resets,    \* restores and Clear content so far
  evictions  \* requests stopped so far

vars == <<content, index, status, pc, view, page, search, writes, starts, resets, evictions>>
rowVars == <<content, index>>
requestVars == <<pc, view, page>>
countVars == <<writes, starts, resets, evictions>>

NoRow == 0
NoOperation == 0
Types == {"posts", "pages"}
Rows == ({"posts"} \X PostIds) \cup ({"pages"} \X PageIds)
NoRows == [r \in Rows |-> NoRow]
NoPage == [r \in {} |-> NoRow]
AtStart == [t \in Types |-> 0]

\* Operation ids and revisions are 128 random bits: here, the next number.
Statuses ==
  [state : {"ready", "rebuild_required", "in_progress", "recovery_required"},
   phase : {"none", "posts", "pages", "verify"},
   operation : Nat,
   cursor : [Types -> Nat]]

Settled(s, cursor) == [state |-> s, phase |-> "none", operation |-> NoOperation, cursor |-> cursor]

Forgotten == Settled("ready", AtStart)
Stored(rows) == [r \in Rows |-> IF r \in rows THEN 1 ELSE NoRow]

Idle(w) == pc[w] = "idle"
Goto(w, step) == pc' = [pc EXCEPT ![w] = step]

\* The request ends; what it read is gone with it.
Finish(w) ==
  /\ Goto(w, "idle")
  /\ view' = [view EXCEPT ![w] = Forgotten]
  /\ page' = [page EXCEPT ![w] = NoPage]

\* A fresh installation has an empty, ready index; a restored database has
\* rows, no index entries and needs a rebuild.
Init ==
  /\ \E rows \in SUBSET Rows : content = Stored(rows)
  /\ index = NoRows
  /\ status = Settled(IF content = NoRows THEN "ready" ELSE "rebuild_required", AtStart)
  /\ pc = [w \in Workers |-> "idle"]
  /\ view = [w \in Workers |-> Forgotten]
  /\ page = [w \in Workers |-> NoPage]
  /\ search = [s \in Searches |-> "idle"]
  /\ writes = 1
  /\ starts = 0
  /\ resets = 0
  /\ evictions = 0

-----------------------------------------------------------------------------
(* Editing: saves, imports, promotions and deletions.                      *)

\* Faulty variant: the entries are replaced whatever the rows became meanwhile.
ReplacedUnguarded(entries, rows, document) ==
  [r \in Rows |-> IF r \in DOMAIN document THEN document[r] ELSE entries[r]]

\* The delete and the insert of a replaced index entry both apply only while
\* the row has the revision of the document.
Replaced(entries, rows, document) ==
  [r \in Rows |-> IF r \in DOMAIN document /\ rows[r] = document[r] THEN document[r] ELSE entries[r]]

\* Faulty variant: the row is stored and its index entry left to a rebuild.
SaveWithoutIndexing(r) ==
  /\ writes < MaxWrites
  /\ writes' = writes + 1
  /\ content' = [content EXCEPT ![r] = writes + 1]
  /\ UNCHANGED <<index, status, requestVars, search, starts, resets, evictions>>

\* A row is created or updated; its index entry follows in the same batch,
\* whatever the state of the index.
SaveRow(r) ==
  /\ writes < MaxWrites
  /\ writes' = writes + 1
  /\ content' = [content EXCEPT ![r] = writes + 1]
  /\ index' = Replaced(index, content', [x \in {r} |-> writes + 1])
  /\ UNCHANGED <<status, requestVars, search, starts, resets, evictions>>

\* Faulty variant: no trigger removes the entry of a deleted row.
DeleteWithoutTrigger(r) ==
  /\ writes < MaxWrites
  /\ writes' = writes + 1
  /\ content[r] # NoRow
  /\ content' = [content EXCEPT ![r] = NoRow]
  /\ UNCHANGED <<index, status, requestVars, search, starts, resets, evictions>>

\* The delete trigger removes the index entry with the row.
DeleteRow(r) ==
  /\ writes < MaxWrites
  /\ writes' = writes + 1
  /\ content[r] # NoRow
  /\ content' = [content EXCEPT ![r] = NoRow]
  /\ index' = [index EXCEPT ![r] = NoRow]
  /\ UNCHANGED <<status, requestVars, search, starts, resets, evictions>>

\* The index is emptied under the searches that found it ready: they may now
\* miss any row, and are followed no further.
Overtaken == [s \in Searches |-> IF search[s] = "checked" THEN "idle" ELSE search[s]]

\* A restore replaces the rows by those of a backup and leaves the index empty.
RestoreDatabase(rows) ==
  /\ resets < MaxResets
  /\ resets' = resets + 1
  /\ content' = Stored(rows)
  /\ index' = NoRows
  /\ status' = Settled("rebuild_required", AtStart)
  /\ search' = Overtaken
  /\ UNCHANGED <<requestVars, writes, starts, evictions>>

ClearContent ==
  /\ resets < MaxResets
  /\ resets' = resets + 1
  /\ content' = NoRows
  /\ index' = NoRows
  /\ status' = Settled("ready", AtStart)
  /\ UNCHANGED <<requestVars, search, writes, starts, evictions>>

-----------------------------------------------------------------------------
(* Starting a rebuild.                                                     *)

\* The Dashboard starts a rebuild only where one is required, an operator
\* from any state; both go through the compare-and-set of StartRebuild.
ReadForStart(w, states) ==
  /\ Idle(w)
  /\ starts + Cardinality({x \in Workers : pc[x] = "start"}) < MaxStarts
  /\ status.state \in states
  /\ view' = [view EXCEPT ![w] = status]
  /\ Goto(w, "start")
  /\ UNCHANGED <<rowVars, status, page, search, countVars>>

RebuildStates == {"ready", "rebuild_required", "in_progress", "recovery_required"}
DashboardStart(w) == ReadForStart(w, {"rebuild_required"})
OperatorStart(w) == ReadForStart(w, RebuildStates)

SameRebuild(w) == status.state = view[w].state /\ status.operation = view[w].operation

\* One batch: the checkpoint is reset, both index tables are created anew.
StartRebuild(w) ==
  /\ pc[w] = "start"
  /\ SameRebuild(w)
  /\ starts' = starts + 1
  /\ status' = [state |-> "in_progress", phase |-> "posts", operation |-> starts + 1, cursor |-> AtStart]
  /\ index' = NoRows
  /\ search' = Overtaken
  /\ Finish(w)
  /\ UNCHANGED <<content, writes, resets, evictions>>

\* The row changed since it was read: at least its time stamp differs.
RefuseStart(w) ==
  /\ pc[w] = "start"
  /\ status # view[w]
  /\ Finish(w)
  /\ UNCHANGED <<rowVars, status, search, countVars>>

-----------------------------------------------------------------------------
(* One step of a rebuild.                                                  *)

\* A request names the checkpoint it continues and is refused unless that is
\* the stored one.
ReadState(w) ==
  /\ Idle(w)
  /\ status.state = "in_progress"
  /\ view' = [view EXCEPT ![w] = status]
  /\ Goto(w, IF status.phase = "verify" THEN "verify" ELSE "page")
  /\ UNCHANGED <<rowVars, status, page, search, countVars>>

\* rows is what ORDER BY public_id LIMIT BatchSize returns of candidates.
IsPage(rows, candidates) ==
  /\ rows \subseteq candidates
  /\ \A x \in rows, y \in candidates \ rows : x[2] < y[2]
  /\ Cardinality(rows) <= BatchSize
  /\ Cardinality(rows) < BatchSize => rows = candidates

RowsAfter(t, cursor) == {r \in Rows : r[1] = t /\ content[r] # NoRow /\ r[2] > cursor}

ReadPage(w) ==
  LET candidates == RowsAfter(view[w].phase, view[w].cursor[view[w].phase])
  IN  /\ pc[w] = "page"
      /\ \E rows \in SUBSET candidates :
           /\ IsPage(rows, candidates)
           /\ page' = [page EXCEPT ![w] = [r \in rows |-> content[r]]]
      /\ Goto(w, "write")
      /\ UNCHANGED <<rowVars, status, view, search, countVars>>

\* Faulty variant: the cursor stays where it was.
CheckpointsUnmoved(v, rows) ==
  LET t == v.phase
      phase == IF Cardinality(rows) < BatchSize
               THEN IF t = "posts" THEN "pages" ELSE "verify" ELSE t
  IN  {[v EXCEPT !.phase = phase]}

\* The checkpoint after a page: its last row, and the next phase once the
\* page was not full.
Checkpoints(v, rows) ==
  LET t == v.phase
      last == IF rows = {} THEN {v.cursor[t]} ELSE {x[2] : x \in {x \in rows : \A y \in rows : y[2] <= x[2]}}
      phase == IF Cardinality(rows) < BatchSize
               THEN IF t = "posts" THEN "pages" ELSE "verify" ELSE t
  IN  {[v EXCEPT !.phase = phase, !.cursor[t] = id] : id \in last}

\* One batch: the checkpoint moves on, then the entries of the page are
\* replaced; a checkpoint that moved meanwhile rolls all of it back.
WritePage(w) ==
  /\ pc[w] = "write"
  /\ status = view[w]
  /\ status' \in Checkpoints(view[w], DOMAIN page[w])
  /\ index' = Replaced(index, content, page[w])
  /\ Finish(w)
  /\ UNCHANGED <<content, search, countVars>>

RefuseWrite(w) ==
  /\ pc[w] = "write"
  /\ status # view[w]
  /\ Finish(w)
  /\ UNCHANGED <<rowVars, status, search, countVars>>

-----------------------------------------------------------------------------
(* Verification.                                                           *)

\* Every row has an entry of its revision and every entry a row.
Parity == index = content

\* One batch reads both parities and runs the integrity checks.
ReadParity(w) ==
  /\ pc[w] = "verify"
  /\ Goto(w, IF Parity THEN "complete" ELSE "mismatch")
  /\ UNCHANGED <<rowVars, status, view, page, search, countVars>>

\* The batch, the completion or the read of its result fails.
VerifyFails(w) ==
  /\ pc[w] \in {"verify", "complete"}
  /\ Goto(w, "failed")
  /\ UNCHANGED <<rowVars, status, view, page, search, countVars>>

\* Faulty variant: the index becomes ready whatever rebuild is in progress.
CompleteAny(w) ==
  /\ pc[w] = "complete"
  /\ status.state = "in_progress"
  /\ status' = Settled("ready", status.cursor)
  /\ Finish(w)
  /\ UNCHANGED <<rowVars, search, countVars>>

\* The update is committed; the request may still fail before its answer.
Complete(w) ==
  /\ pc[w] = "complete"
  /\ status = view[w]
  /\ status' = Settled("ready", status.cursor)
  /\ Finish(w) \/ (Goto(w, "failed") /\ UNCHANGED <<view, page>>)
  /\ UNCHANGED <<rowVars, search, countVars>>

RefuseComplete(w) ==
  /\ pc[w] = "complete"
  /\ status # view[w]
  /\ Finish(w)
  /\ UNCHANGED <<rowVars, status, search, countVars>>

\* Any failure of the verification becomes an integrity failure of the
\* rebuild it belongs to, and of no other.
MarkIntegrityFailure(w) ==
  /\ pc[w] \in {"mismatch", "failed"}
  /\ status' = IF status.state = "in_progress" /\ status.operation = view[w].operation
               THEN Settled("recovery_required", status.cursor)
               ELSE status
  /\ Finish(w)
  /\ UNCHANGED <<rowVars, search, countVars>>

\* The request is stopped between two database calls, or one of its calls
\* fails without effect.
Evict(w) ==
  /\ ~Idle(w)
  /\ evictions < MaxEvictions
  /\ evictions' = evictions + 1
  /\ Finish(w)
  /\ UNCHANGED <<rowVars, status, search, writes, starts, resets>>

-----------------------------------------------------------------------------
(* Searching.                                                              *)

\* Faulty variant: a search does not ask for the state of the index.
CheckNothing(s) ==
  /\ search[s] = "idle"
  /\ search' = [search EXCEPT ![s] = "checked"]
  /\ UNCHANGED <<rowVars, status, requestVars, countVars>>

CheckIndexReady(s) ==
  /\ search[s] = "idle"
  /\ status.state = "ready"
  /\ search' = [search EXCEPT ![s] = "checked"]
  /\ UNCHANGED <<rowVars, status, requestVars, countVars>>

\* The query joins rows and entries of equal revision: it misses the rows
\* that have none.
Missed(t) == {r \in Rows : r[1] = t /\ content[r] # NoRow /\ index[r] # content[r]}

AnswerSearch(s) ==
  /\ search[s] = "checked"
  /\ \E t \in Types :
       search' = [search EXCEPT ![s] = IF Missed(t) = {} THEN "idle" ELSE "partial"]
  /\ UNCHANGED <<rowVars, status, requestVars, countVars>>

-----------------------------------------------------------------------------
Editing ==
  \/ \E r \in Rows : SaveRow(r) \/ DeleteRow(r)
  \/ \E rows \in SUBSET Rows : RestoreDatabase(rows)
  \/ ClearContent

Continue(w) ==
  \/ StartRebuild(w) \/ RefuseStart(w)
  \/ ReadState(w) \/ ReadPage(w) \/ WritePage(w) \/ RefuseWrite(w)
  \/ ReadParity(w) \/ Complete(w) \/ RefuseComplete(w) \/ MarkIntegrityFailure(w)

Rebuilding(w) ==
  DashboardStart(w) \/ OperatorStart(w) \/ Continue(w) \/ VerifyFails(w) \/ Evict(w)

Next ==
  \/ Editing
  \/ \E w \in Workers : Rebuilding(w)
  \/ \E s \in Searches : CheckIndexReady(s) \/ AnswerSearch(s)

Spec == Init /\ [][Next]_vars

\* The Dashboard keeps stepping while a rebuild is in progress, an
\* administrator continues a rebuild whose request was refused or stopped, and
\* a request that is not stopped runs to its end.
Fairness == \A w \in Workers : WF_vars(Continue(w))

FairSpec == Spec /\ Fairness

-----------------------------------------------------------------------------
(* Properties.                                                             *)

Stages == {"idle", "start", "page", "write", "verify", "complete", "mismatch", "failed"}

\* The types of the tables and requests; a rebuild has an operation and a
\* phase exactly while it is in progress.
TypeOK ==
  /\ content \in [Rows -> 0..writes]
  /\ index \in [Rows -> 0..writes]
  /\ status \in Statuses
  /\ status.state = "in_progress" <=> status.operation # NoOperation
  /\ status.state = "in_progress" <=> status.phase # "none"
  /\ pc \in [Workers -> Stages]
  /\ view \in [Workers -> Statuses]
  /\ search \in [Searches -> {"idle", "checked", "partial"}]
  /\ writes \in Nat \ {0} /\ starts \in Nat /\ resets \in Nat /\ evictions \in Nat

\* An entry never has a revision that its row does not have: no interleaving
\* of saves, deletions, imports and late rebuild batches leaves the text of an
\* older revision or of a deleted row in the index.
EntriesAreCurrent == \A r \in Rows : index[r] \in {NoRow, content[r]}

\* The rows the stored checkpoint has passed.
Passed(r) ==
  \/ r[2] <= status.cursor[r[1]]
  \/ r[1] = "posts" /\ status.phase \in {"pages", "verify"}
  \/ status.phase = "verify"

\* A row behind the checkpoint of the rebuild in progress is indexed at its
\* current revision, although it may have been edited, deleted, recreated or
\* imported behind the cursor while its page was read and written.
PassedRowsAreIndexed ==
  status.state = "in_progress" =>
    \A r \in Rows : Passed(r) => index[r] = content[r]

\* An index that is ready has exactly the rows at their current revisions,
\* also when rows changed between the parity check and the completion.
ReadyIsComplete == status.state = "ready" => index = content

\* A verification that finds a mismatch was overtaken by another rebuild, a
\* restore or Clear content: concurrent edits never make the rebuild in
\* progress fail its verification.
MismatchIsOvertaken ==
  \A w \in Workers :
    pc[w] = "mismatch" => ~(status.state = "in_progress" /\ status.operation = view[w].operation)

\* A search that is answered has seen every row, although the state was
\* checked in an earlier call than the query and content was written, a
\* rebuild was completed or content was cleared in between.  It may miss rows
\* only where the index itself was emptied between the two calls.
SearchIsComplete == \A s \in Searches : search[s] # "partial"

\* A rebuild in progress comes to an end: requests that compete for its
\* checkpoint, repeat a step or are stopped never block it.
RebuildEnds == status.state = "in_progress" ~> status.state # "in_progress"
=============================================================================

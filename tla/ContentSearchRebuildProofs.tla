--------------------- MODULE ContentSearchRebuildProofs ---------------------
(***************************************************************************)
(* Proofs about ContentSearchRebuild for any number of rows, requests and  *)
(* searches, any page size and any number of edits, restarts and resets.   *)
(***************************************************************************)
EXTENDS ContentSearchRebuild, TLAPS

\* What a request can have read of the rows.
Pages == UNION {[S -> Nat \ {0}] : S \in SUBSET Rows}

TypeInv == TypeOK /\ page \in [Workers -> Pages]

\* What a stage of a request says of the status it read.
StageInv ==
  \A w \in Workers :
    /\ view[w].operation <= starts
    /\ pc[w] \in {"page", "write"} => view[w].state = "in_progress" /\ view[w].phase \in Types
    /\ pc[w] \in {"verify", "complete"} => view[w].state = "in_progress" /\ view[w].phase = "verify"

OperationInv == status.operation <= starts

LEMMA RowType ==
  \A r \in Rows : r[1] \in Types /\ r[2] \in Nat \ {0}
BY IdAssumption DEF Rows, Types

LEMMA CheckpointType ==
  ASSUME NEW v \in Statuses, v.phase \in Types, NEW rows \in SUBSET Rows,
         NEW next \in Checkpoints(v, rows)
  PROVE  /\ next \in Statuses
         /\ next.state = v.state
         /\ next.operation = v.operation
         /\ next.phase \in {"posts", "pages", "verify"}
         /\ next.phase # v.phase => Cardinality(rows) < BatchSize
         /\ next.phase = v.phase \/ next.phase = (IF v.phase = "posts" THEN "pages" ELSE "verify")
         /\ \A t \in Types \ {v.phase} : next.cursor[t] = v.cursor[t]
         /\ \/ rows = {} /\ next.cursor[v.phase] = v.cursor[v.phase]
            \/ \E x \in rows : next.cursor[v.phase] = x[2] /\ \A y \in rows : y[2] <= x[2]
<1> DEFINE t == v.phase
           last == IF rows = {} THEN {v.cursor[t]}
                   ELSE {x[2] : x \in {x \in rows : \A y \in rows : y[2] <= x[2]}}
           phase == IF Cardinality(rows) < BatchSize
                    THEN IF t = "posts" THEN "pages" ELSE "verify" ELSE t
<1>1. PICK id \in last : next = [v EXCEPT !.phase = phase, !.cursor[t] = id]
  BY DEF Checkpoints
<1>2. id \in Nat
  BY RowType DEF Statuses, Types
<1>3. phase \in {"posts", "pages", "verify"}
  BY DEF Types
<1>4. next = [state |-> v.state, phase |-> phase, operation |-> v.operation,
              cursor |-> [v.cursor EXCEPT ![t] = id]]
  BY <1>1 DEF Statuses
<1>5. next.cursor = [v.cursor EXCEPT ![t] = id] /\ next.cursor \in [Types -> Nat]
  BY <1>2, <1>4 DEF Statuses
<1>6. next \in Statuses
  BY <1>3, <1>4, <1>5 DEF Statuses
<1>7. next.cursor[t] = id /\ \A u \in Types \ {t} : next.cursor[u] = v.cursor[u]
  BY <1>5 DEF Statuses
<1> QED BY <1>1, <1>3, <1>4, <1>6, <1>7
-----------------------------------------------------------------------------
(* Types. *)

LEMMA ResetTypes ==
  /\ NoRows \in [Rows -> {NoRow}]
  /\ \A rows : Stored(rows) \in [Rows -> {NoRow, 1}]
  /\ \A s \in {"ready", "rebuild_required", "recovery_required"}, c \in [Types -> Nat] :
       Settled(s, c) \in Statuses
  /\ Forgotten \in Statuses
  /\ AtStart \in [Types -> Nat]
  /\ NoPage \in Pages
BY DEF NoRows, NoRow, Stored, Settled, Statuses, NoOperation, Forgotten, AtStart, NoPage, Pages

LEMMA FinishType ==
  ASSUME TypeInv, NEW w \in Workers, Finish(w)
  PROVE  /\ pc' \in [Workers -> Stages]
         /\ view' \in [Workers -> Statuses]
         /\ page' \in [Workers -> Pages]
BY ResetTypes DEF TypeInv, TypeOK, Finish, Goto, Stages

LEMMA TypeStep ==
  ASSUME TypeInv, StageInv, [Next]_vars
  PROVE  TypeInv'
<1> USE DEF TypeInv, TypeOK, NoRow, NoOperation
<1>1. ASSUME NEW r \in Rows, SaveRow(r) PROVE TypeInv'
  <2>1. content' \in [Rows -> 0..writes']
    BY <1>1 DEF SaveRow
  <2>2. index' \in [Rows -> 0..writes']
    BY <1>1 DEF SaveRow, Replaced
  <2>3. writes' \in Nat \ {0} /\ UNCHANGED <<status, pc, view, page, search, starts, resets, evictions>>
    BY <1>1 DEF SaveRow, requestVars
  <2> QED BY <2>1, <2>2, <2>3
<1>2. ASSUME NEW r \in Rows, DeleteRow(r) PROVE TypeInv'
  <2>1. content' \in [Rows -> 0..writes'] /\ index' \in [Rows -> 0..writes']
    BY <1>2 DEF DeleteRow
  <2>2. writes' \in Nat \ {0} /\ UNCHANGED <<status, pc, view, page, search, starts, resets, evictions>>
    BY <1>2 DEF DeleteRow, requestVars
  <2> QED BY <2>1, <2>2
<1>3. ASSUME NEW rows, RestoreDatabase(rows) PROVE TypeInv'
  BY <1>3, ResetTypes DEF RestoreDatabase, requestVars, Settled, Overtaken
<1>4. ASSUME ClearContent PROVE TypeInv'
  BY <1>4, ResetTypes DEF ClearContent, requestVars, Settled
<1>5. ASSUME NEW w \in Workers, NEW states, ReadForStart(w, states) PROVE TypeInv'
  BY <1>5 DEF ReadForStart, Goto, Stages, rowVars, countVars
<1>6. ASSUME NEW w \in Workers, StartRebuild(w) PROVE TypeInv'
  <2>1. status' \in Statuses
    BY <1>6, ResetTypes DEF StartRebuild, Statuses
  <2>2. search' \in [Searches -> {"idle", "checked", "partial"}]
    BY <1>6 DEF StartRebuild, Overtaken
  <2> QED BY <1>6, <2>1, <2>2, ResetTypes, FinishType DEF StartRebuild
<1>7. ASSUME NEW w \in Workers,
             RefuseStart(w) \/ RefuseWrite(w) \/ RefuseComplete(w) \/ Evict(w)
      PROVE  TypeInv'
  BY <1>7, FinishType DEF RefuseStart, RefuseWrite, RefuseComplete, Evict, rowVars, countVars
<1>8. ASSUME NEW w \in Workers, ReadState(w) PROVE TypeInv'
  BY <1>8 DEF ReadState, Goto, Stages, rowVars, countVars
<1>9. ASSUME NEW w \in Workers, ReadPage(w) PROVE TypeInv'
  <2>1. PICK rows \in SUBSET RowsAfter(view[w].phase, view[w].cursor[view[w].phase]) :
          page' = [page EXCEPT ![w] = [r \in rows |-> content[r]]]
    BY <1>9 DEF ReadPage
  <2>2. rows \in SUBSET Rows /\ \A r \in rows : content[r] \in Nat \ {0}
    BY DEF RowsAfter
  <2>3. [r \in rows |-> content[r]] \in Pages
    BY <2>2 DEF Pages
  <2> QED BY <1>9, <2>1, <2>3 DEF ReadPage, Goto, Stages, rowVars, countVars
<1>10. ASSUME NEW w \in Workers, WritePage(w) PROVE TypeInv'
  <2>1. DOMAIN page[w] \in SUBSET Rows
    BY DEF Pages
  <2>2. /\ status' \in Statuses
        /\ status'.state = "in_progress"
        /\ status'.operation = status.operation
        /\ status'.phase \in {"posts", "pages", "verify"}
    BY <1>10, <2>1, CheckpointType DEF WritePage, StageInv
  <2>3. index' \in [Rows -> 0..writes]
    BY <1>10 DEF WritePage, Replaced
  <2> QED BY <1>10, <2>2, <2>3, FinishType DEF WritePage, StageInv, countVars
<1>11. ASSUME NEW w \in Workers, ReadParity(w) \/ VerifyFails(w) PROVE TypeInv'
  BY <1>11 DEF ReadParity, VerifyFails, Goto, Stages, rowVars, countVars
<1>12. ASSUME NEW w \in Workers, Complete(w) PROVE TypeInv'
  <2>1. status.cursor \in [Types -> Nat]
    BY DEF Statuses
  <2>2. status' \in Statuses /\ status'.state = "ready" /\ status'.phase = "none" /\ status'.operation = 0
    BY <1>12, <2>1, ResetTypes DEF Complete, Settled, rowVars, countVars
  <2>3. pc' \in [Workers -> Stages] /\ view' \in [Workers -> Statuses] /\ page' \in [Workers -> Pages]
    BY <1>12, FinishType DEF Complete, Goto, Stages
  <2> QED BY <1>12, <2>2, <2>3 DEF Complete, rowVars, countVars
<1>13. ASSUME NEW w \in Workers, MarkIntegrityFailure(w) PROVE TypeInv'
  <2>1. status.cursor \in [Types -> Nat]
    BY DEF Statuses
  <2>2. CASE status' = status
    BY <1>13, <2>2, FinishType DEF MarkIntegrityFailure, rowVars, countVars
  <2>3. CASE status' = Settled("recovery_required", status.cursor)
    BY <1>13, <2>1, <2>3, ResetTypes, FinishType DEF MarkIntegrityFailure, Settled, rowVars, countVars
  <2> QED BY <1>13, <2>2, <2>3 DEF MarkIntegrityFailure
<1>14. ASSUME NEW s \in Searches, CheckIndexReady(s) \/ AnswerSearch(s) PROVE TypeInv'
  BY <1>14 DEF CheckIndexReady, AnswerSearch, rowVars, requestVars, countVars
<1>15. CASE UNCHANGED vars
  BY <1>15 DEF vars
<1> QED
  BY <1>1, <1>2, <1>3, <1>4, <1>5, <1>6, <1>7, <1>8, <1>9, <1>10, <1>11, <1>12, <1>13, <1>14, <1>15
  DEF Next, Editing, Rebuilding, Continue, DashboardStart, OperatorStart

LEMMA StageStep ==
  ASSUME TypeInv, StageInv, OperationInv, [Next]_vars
  PROVE  StageInv' /\ OperationInv'
<1> USE DEF TypeInv, TypeOK, StageInv, OperationInv, NoOperation
<1>0. Forgotten.operation = 0 /\ \A s, c : Settled(s, c).operation = 0 /\ Settled(s, c).state = s
  BY DEF Forgotten, Settled
<1>1. ASSUME NEW r \in Rows, SaveRow(r) \/ DeleteRow(r) PROVE StageInv' /\ OperationInv'
  BY <1>1 DEF SaveRow, DeleteRow, requestVars, countVars
<1>2. ASSUME NEW rows, RestoreDatabase(rows) \/ ClearContent PROVE StageInv' /\ OperationInv'
  BY <1>0, <1>2 DEF RestoreDatabase, ClearContent, requestVars
<1>3. ASSUME NEW w \in Workers, NEW states, ReadForStart(w, states)
      PROVE  StageInv' /\ OperationInv'
  BY <1>3 DEF ReadForStart, Goto, rowVars, countVars
<1>4. ASSUME NEW w \in Workers, StartRebuild(w) PROVE StageInv' /\ OperationInv'
  <2>1. starts' = starts + 1 /\ status'.operation = starts + 1
    BY <1>4 DEF StartRebuild
  <2>2. StageInv'
    BY <1>0, <1>4, <2>1 DEF StartRebuild, Finish, Goto, Statuses
  <2> QED BY <2>1, <2>2
<1>5. ASSUME NEW w \in Workers,
             RefuseStart(w) \/ RefuseWrite(w) \/ RefuseComplete(w) \/ Evict(w)
      PROVE  StageInv' /\ OperationInv'
  BY <1>0, <1>5 DEF RefuseStart, RefuseWrite, RefuseComplete, Evict, Finish, Goto, countVars
<1>6. ASSUME NEW w \in Workers, ReadState(w) PROVE StageInv' /\ OperationInv'
  BY <1>6 DEF ReadState, Goto, countVars, Statuses, Types
<1>7. ASSUME NEW w \in Workers, ReadPage(w) PROVE StageInv' /\ OperationInv'
  BY <1>7 DEF ReadPage, Goto, countVars
<1>8. ASSUME NEW w \in Workers, WritePage(w) PROVE StageInv' /\ OperationInv'
  <2>1. DOMAIN page[w] \in SUBSET Rows
    BY DEF Pages
  <2>2. status'.operation = status.operation
    BY <1>8, <2>1, CheckpointType DEF WritePage
  <2> QED BY <1>0, <1>8, <2>2 DEF WritePage, Finish, Goto, countVars
<1>9. ASSUME NEW w \in Workers, ReadParity(w) \/ VerifyFails(w)
      PROVE  StageInv' /\ OperationInv'
  BY <1>9 DEF ReadParity, VerifyFails, Goto, countVars
<1>10. ASSUME NEW w \in Workers, Complete(w) PROVE StageInv' /\ OperationInv'
  <2>1. status'.operation = 0
    BY <1>0, <1>10 DEF Complete
  <2> QED BY <1>0, <1>10, <2>1 DEF Complete, Finish, Goto, countVars
<1>11. ASSUME NEW w \in Workers, MarkIntegrityFailure(w) PROVE StageInv' /\ OperationInv'
  <2>1. status'.operation \in {0, status.operation}
    BY <1>0, <1>11 DEF MarkIntegrityFailure
  <2> QED BY <1>0, <1>11, <2>1 DEF MarkIntegrityFailure, Finish, Goto, countVars
<1>12. ASSUME NEW s \in Searches, CheckIndexReady(s) \/ AnswerSearch(s)
       PROVE  StageInv' /\ OperationInv'
  BY <1>12 DEF CheckIndexReady, AnswerSearch, requestVars, countVars
<1>13. CASE UNCHANGED vars
  BY <1>13 DEF vars
<1> QED
  BY <1>1, <1>2, <1>3, <1>4, <1>5, <1>6, <1>7, <1>8, <1>9, <1>10, <1>11, <1>12, <1>13
  DEF Next, Editing, Rebuilding, Continue, DashboardStart, OperatorStart

-----------------------------------------------------------------------------
(* The rows behind the checkpoint. *)

\* The rows the page of a request accounts for.
InRange(w, r) ==
  /\ r[1] = view[w].phase
  /\ r[2] > view[w].cursor[r[1]]
  /\ \/ Cardinality(DOMAIN page[w]) < BatchSize
     \/ \E x \in DOMAIN page[w] : r[2] <= x[2]

SameOperation(w) == status.state = "in_progress" /\ status.operation = view[w].operation

\* While its operation is in progress, a row in the range of a page is
\* indexed already or was read at its current revision.
PageInv ==
  \A w \in Workers, r \in Rows :
    pc[w] = "write" /\ SameOperation(w) /\ InRange(w, r) =>
      \/ index[r] = content[r]
      \/ r \in DOMAIN page[w] /\ page[w][r] = content[r]

\* A verification belongs to a rebuild that has passed every row.
VerifyInv ==
  \A w \in Workers :
    pc[w] \in {"verify", "complete"} /\ SameOperation(w) => status.phase = "verify"

CheckedInv ==
  \A s \in Searches : search[s] = "checked" => index = content

IndexInv ==
  /\ EntriesAreCurrent /\ PassedRowsAreIndexed /\ ReadyIsComplete
  /\ PageInv /\ VerifyInv /\ MismatchIsOvertaken
  /\ CheckedInv

IInv == TypeInv /\ StageInv /\ OperationInv /\ IndexInv

\* An edit changes a row and its entry together.
LEMMA EditStep ==
  ASSUME IInv, NEW r \in Rows, SaveRow(r) \/ DeleteRow(r)
  PROVE  IndexInv'
<1>1. /\ index'[r] = content'[r]
      /\ \A x \in Rows \ {r} : index'[x] = index[x] /\ content'[x] = content[x]
      /\ UNCHANGED <<status, pc, view, page, search>>
      /\ DOMAIN index' = Rows /\ DOMAIN content' = Rows
      /\ index' = [x \in Rows |-> index'[x]] /\ content' = [x \in Rows |-> content'[x]]
  <2>1. CASE SaveRow(r)
    BY <2>1 DEF SaveRow, Replaced, requestVars, IInv, TypeInv, TypeOK
  <2>2. CASE DeleteRow(r)
    BY <2>2 DEF DeleteRow, requestVars, IInv, TypeInv, TypeOK, NoRow
  <2> QED BY <2>1, <2>2
<1>2. index = content => index' = content'
  BY <1>1
<1>3. EntriesAreCurrent' /\ PassedRowsAreIndexed'
  BY <1>1 DEF IInv, IndexInv, EntriesAreCurrent, PassedRowsAreIndexed, Passed
<1>4. PageInv'
  BY <1>1 DEF IInv, IndexInv, PageInv, SameOperation, InRange
<1>5. ReadyIsComplete' /\ CheckedInv' /\ VerifyInv' /\ MismatchIsOvertaken'
  BY <1>1, <1>2 DEF IInv, IndexInv, ReadyIsComplete, CheckedInv, VerifyInv, MismatchIsOvertaken,
     SameOperation
<1> QED BY <1>3, <1>4, <1>5 DEF IndexInv

\* After a restore or Clear content no rebuild is in progress.
LEMMA ResetStep ==
  ASSUME IInv, NEW rows, RestoreDatabase(rows) \/ ClearContent
  PROVE  IndexInv'
<1>1. /\ index' = NoRows
      /\ status'.state # "in_progress"
      /\ status'.state = "ready" => content' = NoRows
      /\ UNCHANGED <<pc, view, page>>
  BY DEF RestoreDatabase, ClearContent, Settled, requestVars
<1>2. EntriesAreCurrent' /\ PassedRowsAreIndexed' /\ ReadyIsComplete'
  BY <1>1 DEF EntriesAreCurrent, PassedRowsAreIndexed, ReadyIsComplete, NoRows
<1>3. PageInv' /\ VerifyInv' /\ MismatchIsOvertaken'
  BY <1>1 DEF PageInv, VerifyInv, MismatchIsOvertaken, SameOperation
<1>4. CheckedInv'
  <2>1. CASE RestoreDatabase(rows)
    BY <2>1 DEF RestoreDatabase, Overtaken, CheckedInv
  <2>2. CASE ClearContent
    BY <2>2 DEF ClearContent, CheckedInv, NoRows
  <2> QED BY <2>1, <2>2
<1> QED BY <1>2, <1>3, <1>4 DEF IndexInv

\* A new operation is in progress: nothing a request has read belongs to it.
LEMMA StartStep ==
  ASSUME IInv, NEW w \in Workers, StartRebuild(w)
  PROVE  IndexInv'
<1>1. /\ index' = NoRows /\ content' = content
      /\ status'.state = "in_progress" /\ status'.phase = "posts"
      /\ status'.operation = starts + 1 /\ status'.cursor = AtStart
      /\ search' = Overtaken
  BY DEF StartRebuild
<1>2. \A x \in Workers : view'[x].operation <= starts /\ view'[x].operation \in Nat
  BY DEF IInv, TypeInv, TypeOK, StageInv, StartRebuild, Finish, Forgotten, Settled, NoOperation, Statuses
<1>3. \A x \in Workers : ~ SameOperation(x)'
  BY <1>1, <1>2 DEF SameOperation, IInv, TypeInv, TypeOK
<1>4. PageInv' /\ VerifyInv' /\ MismatchIsOvertaken'
  BY <1>3 DEF PageInv, VerifyInv, MismatchIsOvertaken, SameOperation
<1>5. EntriesAreCurrent' /\ ReadyIsComplete'
  BY <1>1 DEF EntriesAreCurrent, ReadyIsComplete, NoRows
<1>6. PassedRowsAreIndexed'
  BY <1>1, RowType DEF PassedRowsAreIndexed, Passed, AtStart
<1>7. CheckedInv'
  BY <1>1 DEF Overtaken, CheckedInv
<1> QED BY <1>4, <1>5, <1>6, <1>7 DEF IndexInv

\* Requests that only read, or stop.
LEMMA ReadStep ==
  ASSUME IInv, NEW w \in Workers, UNCHANGED <<content, index, status, search>>,
         \/ \E states : ReadForStart(w, states)
         \/ ReadState(w)
         \/ VerifyFails(w) \/ RefuseStart(w) \/ RefuseWrite(w) \/ RefuseComplete(w) \/ Evict(w)
  PROVE  IndexInv'
<1>1. /\ \A x \in Workers \ {w} : pc'[x] = pc[x] /\ view'[x] = view[x] /\ page'[x] = page[x]
      /\ pc'[w] \notin {"write", "complete", "mismatch"}
      /\ pc'[w] = "verify" => view'[w] = status /\ status.phase = "verify"
  BY DEF IInv, TypeInv, TypeOK, ReadForStart, ReadState, VerifyFails, RefuseStart, RefuseWrite,
     RefuseComplete, Evict, Finish, Goto
<1>2. EntriesAreCurrent' /\ PassedRowsAreIndexed' /\ ReadyIsComplete' /\ CheckedInv'
  BY DEF IInv, IndexInv, EntriesAreCurrent, PassedRowsAreIndexed, Passed, ReadyIsComplete, CheckedInv
<1>3. PageInv' /\ VerifyInv' /\ MismatchIsOvertaken'
  BY <1>1 DEF IInv, IndexInv, PageInv, InRange, VerifyInv, MismatchIsOvertaken, SameOperation
<1> QED BY <1>2, <1>3 DEF IndexInv

\* A row in range that is not indexed has just been read.
LEMMA ReadPageStep ==
  ASSUME IInv, NEW w \in Workers, ReadPage(w)
  PROVE  IndexInv'
<1> DEFINE t == view[w].phase
           candidates == RowsAfter(t, view[w].cursor[t])
<1>1. PICK rows \in SUBSET candidates :
        IsPage(rows, candidates) /\ page' = [page EXCEPT ![w] = [r \in rows |-> content[r]]]
  BY DEF ReadPage
<1>2. /\ UNCHANGED <<content, index, status, search, view>>
      /\ \A x \in Workers \ {w} : pc'[x] = pc[x] /\ page'[x] = page[x]
      /\ pc'[w] = "write" /\ page'[w] = [r \in rows |-> content[r]]
  BY <1>1 DEF ReadPage, Goto, IInv, TypeInv, TypeOK, rowVars
<1>3. ASSUME NEW r \in Rows, InRange(w, r)', index[r] # content[r]
      PROVE  r \in rows
  <2>1. content[r] # NoRow
    BY <1>3 DEF IInv, IndexInv, EntriesAreCurrent
  <2>2. r \in candidates
    BY <1>2, <1>3, <2>1 DEF InRange, RowsAfter
  <2>3. CASE Cardinality(rows) < BatchSize
    BY <1>1, <2>2, <2>3 DEF IsPage
  <2>4. ASSUME NEW x \in rows, r[2] <= x[2], r \notin rows PROVE FALSE
    <3>1. x[2] < r[2]
      BY <1>1, <2>2, <2>4 DEF IsPage
    <3>2. x \in Rows
      BY DEF RowsAfter
    <3> QED BY <2>4, <3>1, <3>2, RowType
  <2> QED BY <1>2, <1>3, <2>3, <2>4 DEF InRange
<1>4. PageInv'
  <2> SUFFICES ASSUME NEW x \in Workers, NEW r \in Rows,
                      pc'[x] = "write", SameOperation(x)', InRange(x, r)', index[r] # content[r]
               PROVE  r \in DOMAIN page'[x] /\ page'[x][r] = content[r]
    BY <1>2 DEF PageInv
  <2>1. CASE x = w
    BY <1>2, <1>3, <2>1
  <2>2. CASE x # w
    BY <1>2, <2>2 DEF IInv, IndexInv, PageInv, SameOperation, InRange
  <2> QED BY <2>1, <2>2
<1>5. EntriesAreCurrent' /\ PassedRowsAreIndexed' /\ ReadyIsComplete' /\ CheckedInv'
  BY <1>2 DEF IInv, IndexInv, EntriesAreCurrent, PassedRowsAreIndexed, Passed, ReadyIsComplete, CheckedInv
<1>6. VerifyInv' /\ MismatchIsOvertaken'
  BY <1>2 DEF IInv, IndexInv, VerifyInv, MismatchIsOvertaken, SameOperation
<1> QED BY <1>4, <1>5, <1>6 DEF IndexInv

\* A row the checkpoint passes now is indexed, or the page has it.
LEMMA WritePageStep ==
  ASSUME IInv, NEW w \in Workers, WritePage(w)
  PROVE  IndexInv'
<1> DEFINE t == view[w].phase
<1>0. DOMAIN page[w] \in SUBSET Rows /\ t \in Types /\ status = view[w] /\ SameOperation(w)
  BY DEF IInv, TypeInv, TypeOK, StageInv, WritePage, Pages, SameOperation
<1>1. /\ status' \in Checkpoints(view[w], DOMAIN page[w])
      /\ pc[w] = "write" /\ pc'[w] = "idle"
      /\ UNCHANGED <<content, search>>
      /\ \A x \in Workers \ {w} : pc'[x] = pc[x] /\ view'[x] = view[x] /\ page'[x] = page[x]
  BY DEF WritePage, Finish, Goto, IInv, TypeInv, TypeOK
<1>2. /\ status'.state = "in_progress"
      /\ status'.operation = status.operation
      /\ status'.phase # t => Cardinality(DOMAIN page[w]) < BatchSize
      /\ status'.phase = t \/ status'.phase = (IF t = "posts" THEN "pages" ELSE "verify")
      /\ \A u \in Types \ {t} : status'.cursor[u] = status.cursor[u]
      /\ \/ status'.cursor[t] = status.cursor[t]
         \/ \E x \in DOMAIN page[w] : status'.cursor[t] = x[2]
  BY <1>0, <1>1, CheckpointType DEF IInv, TypeInv, TypeOK, StageInv
<1>3. \A x \in Workers : SameOperation(x)' /\ x # w => SameOperation(x)
  BY <1>0, <1>1, <1>2 DEF SameOperation
<1>4. /\ index' = [r \in Rows |-> IF r \in DOMAIN page[w] /\ content[r] = page[w][r]
                                 THEN page[w][r] ELSE index[r]]
      /\ \A r \in Rows : index[r] = content[r] => index'[r] = content[r]
      /\ \A r \in Rows : index'[r] \in {index[r], content[r]}
      /\ \A r \in Rows : r \in DOMAIN page[w] /\ page[w][r] = content[r] => index'[r] = content[r]
  BY DEF WritePage, Replaced
<1>5. ASSUME NEW r \in Rows, Passed(r)' PROVE index'[r] = content[r]
  <2>0. r[1] \in Types /\ r[2] \in Nat /\ status.cursor \in [Types -> Nat]
    BY RowType DEF IInv, TypeInv, TypeOK, Statuses
  <2>1. Passed(r) \/ InRange(w, r)
    <3>1. CASE r[1] = t
      BY <1>0, <1>2, <1>5, <2>0, <3>1 DEF Passed, InRange, Types
    <3>2. CASE r[1] # t
      BY <1>0, <1>2, <1>5, <2>0, <3>2 DEF Passed, Types
    <3> QED BY <3>1, <3>2
  <2>2. CASE Passed(r)
    BY <1>0, <1>4, <2>2 DEF IInv, IndexInv, PassedRowsAreIndexed, SameOperation
  <2>3. CASE InRange(w, r)
    BY <1>0, <1>1, <1>4, <2>3 DEF IInv, IndexInv, PageInv
  <2> QED BY <2>1, <2>2, <2>3
<1>6. PassedRowsAreIndexed'
  BY <1>1, <1>5 DEF PassedRowsAreIndexed
<1>7. EntriesAreCurrent'
  BY <1>1, <1>4 DEF IInv, IndexInv, EntriesAreCurrent
<1>8. PageInv'
  BY <1>1, <1>3, <1>4 DEF IInv, IndexInv, PageInv, InRange
<1>9. VerifyInv' /\ MismatchIsOvertaken'
  BY <1>0, <1>1, <1>3 DEF IInv, IndexInv, VerifyInv, MismatchIsOvertaken, SameOperation, Types
<1>10. ReadyIsComplete' /\ CheckedInv'
  <2>1. index = content => index' = content
    BY <1>4 DEF IInv, TypeInv, TypeOK
  <2> QED BY <1>1, <1>2, <2>1 DEF IInv, IndexInv, ReadyIsComplete, CheckedInv
<1> QED BY <1>6, <1>7, <1>8, <1>9, <1>10 DEF IndexInv

\* Once every row is passed, index and rows are the same function.
LEMMA AllPassed ==
  ASSUME IInv, status.state = "in_progress", status.phase = "verify"
  PROVE  index = content
<1>1. \A r \in Rows : index[r] = content[r]
  BY DEF IInv, IndexInv, PassedRowsAreIndexed, Passed
<1> QED BY <1>1 DEF IInv, TypeInv, TypeOK

\* A mismatch is read only after the operation has ended.
LEMMA ParityStep ==
  ASSUME IInv, NEW w \in Workers, ReadParity(w)
  PROVE  IndexInv'
<1>1. /\ UNCHANGED <<content, index, status, view, page, search>>
      /\ \A x \in Workers \ {w} : pc'[x] = pc[x]
      /\ pc[w] = "verify" /\ pc'[w] = (IF index = content THEN "complete" ELSE "mismatch")
  BY DEF ReadParity, Parity, Goto, rowVars, IInv, TypeInv, TypeOK
<1>2. EntriesAreCurrent' /\ PassedRowsAreIndexed' /\ ReadyIsComplete' /\ CheckedInv'
  BY <1>1 DEF IInv, IndexInv, EntriesAreCurrent, PassedRowsAreIndexed, Passed, ReadyIsComplete, CheckedInv
<1>3. PageInv' /\ VerifyInv'
  BY <1>1 DEF IInv, IndexInv, PageInv, InRange, VerifyInv, SameOperation
<1>4. SameOperation(w) => index = content
  BY <1>1, AllPassed DEF IInv, IndexInv, VerifyInv, SameOperation
<1>5. MismatchIsOvertaken'
  BY <1>1, <1>4 DEF IInv, IndexInv, MismatchIsOvertaken, SameOperation
<1> QED BY <1>2, <1>3, <1>5 DEF IndexInv

\* Complete and MarkIntegrityFailure end the operation; only Complete makes
\* the index ready, and the checkpoint it ends has passed every row.
LEMMA EndStep ==
  ASSUME IInv, NEW w \in Workers, Complete(w) \/ MarkIntegrityFailure(w)
  PROVE  IndexInv'
<1>1. /\ UNCHANGED <<content, index, search>>
      /\ pc'[w] \in {"idle", "failed"}
      /\ \A x \in Workers \ {w} : pc'[x] = pc[x] /\ view'[x] = view[x] /\ page'[x] = page[x]
  BY DEF Complete, MarkIntegrityFailure, Finish, Goto, rowVars, IInv, TypeInv, TypeOK
<1>2. \/ status' = status
      \/ status'.state = "recovery_required"
      \/ status'.state = "ready" /\ status.state = "in_progress" /\ status.phase = "verify"
  BY DEF Complete, MarkIntegrityFailure, Settled, IInv, StageInv
<1>3. EntriesAreCurrent' /\ CheckedInv'
  BY <1>1 DEF IInv, IndexInv, EntriesAreCurrent, CheckedInv
<1>4. PassedRowsAreIndexed' /\ ReadyIsComplete'
  BY <1>1, <1>2, AllPassed DEF IInv, IndexInv, PassedRowsAreIndexed, Passed, ReadyIsComplete
<1>5. PageInv' /\ VerifyInv' /\ MismatchIsOvertaken'
  BY <1>1, <1>2 DEF IInv, IndexInv, PageInv, InRange, VerifyInv, MismatchIsOvertaken, SameOperation
<1> QED BY <1>3, <1>4, <1>5 DEF IndexInv

LEMMA SearchStep ==
  ASSUME IInv, NEW s \in Searches, CheckIndexReady(s) \/ AnswerSearch(s)
  PROVE  IndexInv'
<1>1. UNCHANGED <<content, index, status, pc, view, page>>
  BY DEF CheckIndexReady, AnswerSearch, rowVars, requestVars
<1>2. \A x \in Searches : search'[x] = "checked" => search[x] = "checked" \/ status.state = "ready"
  BY DEF CheckIndexReady, AnswerSearch, IInv, TypeInv, TypeOK
<1>3. CheckedInv'
  BY <1>1, <1>2 DEF IInv, IndexInv, CheckedInv, ReadyIsComplete
<1>4. EntriesAreCurrent' /\ PassedRowsAreIndexed' /\ ReadyIsComplete'
  BY <1>1 DEF IInv, IndexInv, EntriesAreCurrent, PassedRowsAreIndexed, Passed, ReadyIsComplete
<1>5. PageInv' /\ VerifyInv' /\ MismatchIsOvertaken'
  BY <1>1 DEF IInv, IndexInv, PageInv, InRange, VerifyInv, MismatchIsOvertaken, SameOperation
<1> QED BY <1>3, <1>4, <1>5 DEF IndexInv

LEMMA InvStep == IInv /\ [Next]_vars => IInv'
<1> SUFFICES ASSUME IInv, [Next]_vars PROVE IInv'
  OBVIOUS
<1>1. TypeInv' /\ StageInv' /\ OperationInv'
  BY TypeStep, StageStep DEF IInv
<1>2. IndexInv'
  <2>1. CASE Editing
    BY <2>1, EditStep, ResetStep DEF Editing
  <2>2. ASSUME NEW w \in Workers, Rebuilding(w) PROVE IndexInv'
    <3>1. CASE DashboardStart(w) \/ OperatorStart(w)
      <4>1. PICK states : ReadForStart(w, states)
        BY <3>1 DEF DashboardStart, OperatorStart
      <4> QED BY <4>1, ReadStep DEF ReadForStart, rowVars
    <3>2. CASE StartRebuild(w)
      BY <3>2, StartStep
    <3>3. CASE ReadState(w) \/ VerifyFails(w) \/ RefuseStart(w) \/ RefuseWrite(w)
               \/ RefuseComplete(w) \/ Evict(w)
      <4>1. UNCHANGED <<content, index, status, search>>
        BY <3>3 DEF ReadState, VerifyFails, RefuseStart, RefuseWrite, RefuseComplete, Evict, rowVars
      <4> QED BY <3>3, <4>1, ReadStep
    <3>4. CASE ReadPage(w)
      BY <3>4, ReadPageStep
    <3>5. CASE WritePage(w)
      BY <3>5, WritePageStep
    <3>6. CASE ReadParity(w)
      BY <3>6, ParityStep
    <3>7. CASE Complete(w) \/ MarkIntegrityFailure(w)
      BY <3>7, EndStep
    <3> QED BY <2>2, <3>1, <3>2, <3>3, <3>4, <3>5, <3>6, <3>7 DEF Rebuilding, Continue
  <2>3. ASSUME NEW s \in Searches, CheckIndexReady(s) \/ AnswerSearch(s) PROVE IndexInv'
    BY <2>3, SearchStep
  <2>4. CASE UNCHANGED vars
    BY <2>4 DEF vars, IInv, IndexInv, EntriesAreCurrent, PassedRowsAreIndexed, Passed, ReadyIsComplete,
       PageInv, InRange, VerifyInv, MismatchIsOvertaken, SameOperation, CheckedInv
  <2> QED BY <2>1, <2>2, <2>3, <2>4 DEF Next
<1> QED BY <1>1, <1>2 DEF IInv

LEMMA InitHolds == Init => IInv
<1> SUFFICES ASSUME Init PROVE IInv
  OBVIOUS
<1>0. PICK rows : content = Stored(rows)
  BY DEF Init
<1>1. TypeInv
  <2>1. content \in [Rows -> 0..writes] /\ index \in [Rows -> 0..writes]
    BY <1>0, ResetTypes DEF Init, NoRow
  <2>2. /\ status \in Statuses
        /\ status.state # "in_progress" /\ status.operation = 0 /\ status.phase = "none"
    BY ResetTypes DEF Init, Settled, NoOperation
  <2> QED BY <2>1, <2>2, ResetTypes DEF Init, TypeInv, TypeOK, Stages, NoOperation
<1>2. StageInv /\ OperationInv
  BY DEF Init, StageInv, OperationInv, Settled, Forgotten, NoOperation
<1>3. IndexInv
  <2>1. status.state = "ready" => content = index
    BY DEF Init, Settled
  <2>2. status.state # "in_progress"
    BY DEF Init, Settled
  <2>3. EntriesAreCurrent
    BY DEF Init, EntriesAreCurrent, NoRows
  <2> QED
    BY <2>1, <2>2, <2>3 DEF Init, IndexInv, PassedRowsAreIndexed, ReadyIsComplete, PageInv, VerifyInv,
       MismatchIsOvertaken, SameOperation, CheckedInv
<1> QED BY <1>1, <1>2, <1>3 DEF IInv

THEOREM Invariance == Spec => []IInv
BY InitHolds, InvStep, PTL DEF Spec

-----------------------------------------------------------------------------
(* The properties. *)

\* Types, and that a rebuild has an operation and a phase exactly while it is
\* in progress.
THEOREM TypeCorrect == Spec => []TypeOK
<1>1. IInv => TypeOK
  BY DEF IInv, TypeInv
<1> QED BY <1>1, Invariance, PTL

\* No interleaving of saves and late rebuild batches leaves an entry of
\* another revision than its row has.
THEOREM EntriesStayCurrent == Spec => []EntriesAreCurrent
<1>1. IInv => EntriesAreCurrent
  BY DEF IInv, IndexInv
<1> QED BY <1>1, Invariance, PTL

\* A checkpoint never passes a row that is not indexed.
THEOREM CheckpointIsSound == Spec => []PassedRowsAreIndexed
<1>1. IInv => PassedRowsAreIndexed
  BY DEF IInv, IndexInv
<1> QED BY <1>1, Invariance, PTL

\* A ready index agrees with the rows.
THEOREM ReadyMeansComplete == Spec => []ReadyIsComplete
<1>1. IInv => ReadyIsComplete
  BY DEF IInv, IndexInv
<1> QED BY <1>1, Invariance, PTL

\* Edits never make the rebuild in progress fail its verification.
THEOREM MismatchMeansOvertaken == Spec => []MismatchIsOvertaken
<1>1. IInv => MismatchIsOvertaken
  BY DEF IInv, IndexInv
<1> QED BY <1>1, Invariance, PTL

\* Every search that is answered has seen every row, unless the index was
\* emptied under it.
THEOREM SearchesAreComplete == Spec => []SearchIsComplete
<1>1. Init => SearchIsComplete
  BY DEF Init, SearchIsComplete
<1>2. IInv /\ SearchIsComplete /\ [Next]_vars => SearchIsComplete'
  <2> SUFFICES ASSUME IInv, SearchIsComplete, [Next]_vars PROVE SearchIsComplete'
    OBVIOUS
  <2>1. ASSUME NEW s \in Searches, AnswerSearch(s) PROVE SearchIsComplete'
    <3>1. \A t \in Types : Missed(t) = {}
      BY <2>1 DEF IInv, IndexInv, CheckedInv, AnswerSearch, Missed
    <3>2. search' = [search EXCEPT ![s] = "idle"]
      BY <2>1, <3>1 DEF AnswerSearch
    <3> QED BY <3>2 DEF SearchIsComplete, IInv, TypeInv, TypeOK
  <2>2. ASSUME NEW s \in Searches, CheckIndexReady(s) PROVE SearchIsComplete'
    BY <2>2 DEF CheckIndexReady, SearchIsComplete, IInv, TypeInv, TypeOK
  <2>3. CASE search' = search
    BY <2>3 DEF SearchIsComplete
  <2>4. CASE search' = Overtaken
    BY <2>4 DEF SearchIsComplete, Overtaken
  <2> QED
    BY <2>1, <2>2, <2>3, <2>4
    DEF Next, vars, Editing, Rebuilding, Continue, SaveRow, DeleteRow, RestoreDatabase, ClearContent,
        DashboardStart, OperatorStart, ReadForStart, StartRebuild, RefuseStart, ReadState, ReadPage,
        WritePage, RefuseWrite, ReadParity, VerifyFails, Complete, RefuseComplete,
        MarkIntegrityFailure, Evict
<1> QED BY <1>1, <1>2, Invariance, PTL DEF Spec
=============================================================================

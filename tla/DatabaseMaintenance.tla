------------------------- MODULE DatabaseMaintenance -------------------------
(***************************************************************************)
(* Upgrading the schema of the Studio database, and replacing the database *)
(* from a reviewed SQL artifact.  Both take many requests: an upgrade      *)
(* applies one step a request under the operation id of its guard table; a *)
(* restore empties the tables, stores the artifact chunk by chunk under    *)
(* the restore id of its journal table, and is finalized.  A request reads *)
(* and checks, and then writes one batch, a transaction that the checks    *)
(* are no part of; it may stop between the two, its batch may fail as a    *)
(* whole, and its answer may be lost.  Administrators send requests from   *)
(* several windows, repeat them, and redeploy with another site mode or    *)
(* another release of the Worker, which requires another schema version.   *)
(*                                                                         *)
(* Abstractions.  An artifact has one row a chunk: the lifecycle row of    *)
(* zeropress_schema_state in its first chunk, a row of content in each of  *)
(* the others.  The lifecycle row is ready exactly while it names no       *)
(* operation.  Ids are random: a new one is none that the journal or a     *)
(* request still holds.                                                    *)
(***************************************************************************)
EXTENDS Naturals, FiniteSets

CONSTANTS
  Artifacts,         \* reviewed backups of ready databases
  Version,           \* schema version of each
  Chunks,            \* number of its chunks
  Newest,            \* the newest schema version
  Releases,          \* STUDIO_SCHEMA_VERSION of the releases that are deployed
  Ids,               \* restore ids and operation ids
  NoId,              \* no id; also: no lifecycle row, no journal table
  Requests           \* bound: requests under way at the same time

Versions == 1 .. Newest
NoTarget == 0

LifecycleRows ==
  [version : Versions, operation : Ids \cup {NoId}, target : Versions \cup {NoTarget}]
Journals == [id : Ids, artifact : Artifacts, next : Nat]

ASSUME VersionAssumption ==
  /\ Newest \in Nat \ {0}
  /\ Releases \subseteq Versions
  /\ Version \in [Artifacts -> Versions]
  /\ Chunks \in [Artifacts -> Nat \ {0, 1}]

ASSUME IdAssumption == NoId \notin Ids \cup LifecycleRows \cup Journals

VARIABLES
  mode,     \* STUDIO_SITE_MODE of the deployment
  target,   \* STUDIO_SCHEMA_VERSION of the deployment
  schema,   \* version of the tables; 0 when they are of no single version
  state,    \* the lifecycle row of zeropress_schema_state
  guard,    \* zeropress_schema_upgrade_guard: its operation id
  journal,  \* zeropress_restore_journal
  rows,     \* the rows of content, by artifact and chunk
  acked,    \* chunks answered as accepted to the restore of the journal
  request,  \* what each request has read and is about to do
  leftover, \* history: is the guard table that of an upgrade which a restore
            \* ended, as one does that does not verify the life cycle?
  unchecked \* history: was the last restore ended by a finalization that had
            \* checked another one?

siteVars == <<mode, target>>
tableVars == <<schema, state, guard, journal, rows>>
historyVars == <<leftover, unchecked>>
vars == <<mode, target, schema, state, guard, journal, rows, acked, request,
          leftover, unchecked>>

Mixed == 0
FirstChunk == 1

Idle == [call |-> "idle"]
Row(v, o, t) == [version |-> v, operation |-> o, target |-> t]
ReadyRow(v) == Row(v, NoId, NoTarget)
RowsOf(a) == {a} \X (2 .. Chunks[a])

ChunkCalls == {"count", "store", "answer"}
RestoreCalls == ChunkCalls \cup {"finalize"}

Calls ==
  {Idle}
    \cup [call : {"upgrade"}, version : Versions, target : Versions]
    \cup [call : {"step"}, operation : Ids, version : Versions, target : Versions]
    \cup [call : {"restore"}, artifact : Artifacts, structure : BOOLEAN,
          schema : Versions \cup {Mixed}, verify : BOOLEAN]
    \cup [call : ChunkCalls, id : Ids, artifact : Artifacts,
          index : Nat \ {0}]
    \cup [call : {"finalize"}, id : Ids, artifact : Artifacts]

TypeOK ==
  /\ mode \in {"maintenance", "recovery"}
  /\ target \in Releases
  /\ schema \in Versions \cup {Mixed}
  /\ state \in LifecycleRows \cup {NoId}
  /\ guard \in Ids \cup {NoId}
  /\ journal \in Journals \cup {NoId}
  /\ journal # NoId => journal.next <= Chunks[journal.artifact]
  /\ rows \subseteq UNION {RowsOf(a) : a \in Artifacts}
  /\ acked \subseteq Nat
  /\ request \in [Requests -> Calls]
  /\ leftover \in BOOLEAN
  /\ unchecked \in BOOLEAN

Init ==
  /\ mode = "maintenance"
  /\ target \in Releases
  /\ guard = NoId
  /\ journal = NoId
  /\ acked = {}
  /\ request = [r \in Requests |-> Idle]
  /\ leftover = FALSE
  /\ unchecked = FALSE
  /\ \E a \in Artifacts :
       /\ schema = Version[a]
       /\ state = ReadyRow(Version[a])
       /\ rows = RowsOf(a)

Restoring == journal # NoId
Ready == state # NoId /\ state.operation = NoId
Upgrading == state # NoId /\ state.operation # NoId

HeldIds ==
  {request[r].operation : r \in {s \in Requests : request[s].call = "step"}}
    \cup {request[r].id : r \in {s \in Requests : request[s].call \in RestoreCalls}}
    \cup (IF Restoring THEN {journal.id} ELSE {})

-----------------------------------------------------------------------------
(* Requests and deployments                                                *)

Begin(r, c) ==
  /\ request[r] = Idle
  /\ request' = [request EXCEPT ![r] = c]
  /\ UNCHANGED <<siteVars, tableVars, acked, historyVars>>

End(r) == request' = [request EXCEPT ![r] = Idle]

\* The request is refused or stops, its batch fails, or its answer is lost.
Abandon(r) ==
  /\ request[r] # Idle
  /\ End(r)
  /\ UNCHANGED <<siteVars, tableVars, acked, historyVars>>

\* Another site mode, another release, or both.  Requests under way keep
\* those they were sent in.
Redeploy ==
  /\ mode' \in {"maintenance", "recovery"}
  /\ target' \in Releases
  /\ <<mode', target'>> # <<mode, target>>
  /\ UNCHANGED <<tableVars, acked, request, historyVars>>

-----------------------------------------------------------------------------
(* Schema upgrade                                                          *)

CheckUpgrade(r) ==
  /\ mode = "maintenance"
  /\ Ready
  /\ state.version < target
  /\ ~Restoring
  /\ Begin(r, [call |-> "upgrade", version |-> state.version, target |-> target])

\* The batch creates the guard table and repeats the checks.
StartUpgrade(r) ==
  /\ request[r].call = "upgrade"
  /\ guard = NoId
  /\ state = ReadyRow(request[r].version)
  /\ ~Restoring
  /\ \E o \in Ids \ HeldIds :
       /\ guard' = o
       /\ state' = Row(request[r].version, o, request[r].target)
  /\ End(r)
  /\ UNCHANGED <<siteVars, schema, journal, rows, acked, historyVars>>

\* Whoever reads the status learns the operation and its next step, and
\* repeats it or takes it over, in a deployment of the release it began with.
CheckStep(r) ==
  /\ mode = "maintenance"
  /\ Upgrading
  /\ guard = state.operation
  /\ state.target = target
  /\ state.version < target
  /\ Begin(r, [call |-> "step", operation |-> state.operation,
               version |-> state.version, target |-> target])

\* Faulty variant: a step runs for whatever operation is guarded.
StepUnverified(c) == guard # NoId

OwnsStep(c) ==
  /\ guard = c.operation
  /\ state = Row(c.version, c.operation, c.target)

NextSchema == IF schema \in 1 .. Newest - 1 THEN schema + 1 ELSE Mixed

\* The version that the step leads to, and the operation unless it is the last.
Advanced(c) ==
  IF c.version + 1 = c.target THEN ReadyRow(c.target)
  ELSE Row(c.version + 1, c.operation, c.target)

\* Faulty variant: the last step leaves the guard table behind.
AdvanceKeepingGuard(c) ==
  /\ schema' = NextSchema
  /\ state' = Advanced(c)
  /\ UNCHANGED guard

\* Faulty variant: the version is not written.
AdvanceTablesOnly(c) ==
  /\ schema' = NextSchema
  /\ UNCHANGED <<state, guard>>

\* The statements of the artifact, the version and the end of the operation.
AdvanceSchema(c) ==
  /\ schema' = NextSchema
  /\ state' = Advanced(c)
  /\ guard' = IF c.version + 1 = c.target THEN NoId ELSE guard

ApplyStep(r) ==
  /\ request[r].call = "step"
  /\ OwnsStep(request[r])
  /\ AdvanceSchema(request[r])
  /\ End(r)
  /\ UNCHANGED <<siteVars, journal, rows, acked, historyVars>>

-----------------------------------------------------------------------------
(* Restore                                                                 *)

\* In maintenance the database must be ready and current, unless it is being
\* restored, which a restart may do without accounts; recovery asks nothing.
CheckRestore(r, a, structure) ==
  /\ mode = "maintenance" /\ ~Restoring => Ready /\ state.version = target
  /\ ~structure => schema = Version[a]
  /\ Begin(r, [call |-> "restore", artifact |-> a, structure |-> structure,
               schema |-> schema,
               verify |-> mode = "maintenance" /\ ~Restoring])

\* The tables that were there at the check are dropped and those of the
\* artifact created, or all rows are deleted.  The guard table stays.
EmptyTables(c) ==
  /\ schema' = IF ~c.structure THEN schema
               ELSE IF schema = c.schema THEN Version[c.artifact] ELSE Mixed
  /\ state' = NoId
  /\ rows' = {}

StartRestore(r) ==
  /\ request[r].call = "restore"
  /\ request[r].verify => Ready /\ guard = NoId
  /\ EmptyTables(request[r])
  /\ \E i \in Ids \ HeldIds :
       journal' = [id |-> i, artifact |-> request[r].artifact, next |-> 0]
  /\ acked' = {}
  /\ leftover' = (guard # NoId)
  /\ unchecked' = FALSE
  /\ End(r)
  /\ UNCHANGED <<siteVars, guard>>

CheckChunk(r) ==
  /\ Restoring
  /\ journal.next < Chunks[journal.artifact]
  /\ Begin(r, [call |-> "count", id |-> journal.id,
               artifact |-> journal.artifact, index |-> journal.next + 1])

\* A chunk that was stored before is answered from the journal.
ReplayChunk ==
  /\ Restoring
  /\ \E k \in 1 .. journal.next : acked' = acked \cup {k}
  /\ UNCHANGED <<siteVars, tableVars, request, historyVars>>

HasRoom(c) ==
  IF c.index = FirstChunk THEN state = NoId
  ELSE Cardinality(rows) + 1 <= Chunks[c.artifact] - 1

CountRows(r) ==
  /\ request[r].call = "count"
  /\ HasRoom(request[r])
  /\ request' = [request EXCEPT ![r].call = "store"]
  /\ UNCHANGED <<siteVars, tableVars, acked, historyVars>>

\* Each row has its primary key.
InsertChunk(c) ==
  IF c.index = FirstChunk
  THEN /\ state = NoId
       /\ state' = ReadyRow(Version[c.artifact])
       /\ UNCHANGED rows
  ELSE /\ <<c.artifact, c.index>> \notin rows
       /\ rows' = rows \cup {<<c.artifact, c.index>>}
       /\ UNCHANGED state

\* The journal of another restore matches no row, and the inserts stay; that
\* of this restore must not have advanced, or a CHECK fails.
AdvanceJournal(c) ==
  /\ Restoring
  /\ IF journal.id = c.id
     THEN journal.next = c.index - 1 /\ journal' = [journal EXCEPT !.next = c.index]
     ELSE UNCHANGED journal

StoreChunk(r) ==
  /\ request[r].call = "store"
  /\ InsertChunk(request[r])
  /\ AdvanceJournal(request[r])
  /\ request' = [request EXCEPT ![r].call = "answer"]
  /\ UNCHANGED <<siteVars, schema, guard, acked, historyVars>>

\* Faulty variant: the journal is not read after the batch.
AnswerUnverified(r) ==
  /\ request[r].call = "answer"
  /\ acked' = acked \cup {request[r].index}
  /\ End(r)
  /\ UNCHANGED <<siteVars, tableVars, historyVars>>

AnswerChunk(r) ==
  /\ request[r].call = "answer"
  /\ Restoring
  /\ journal.id = request[r].id
  /\ journal.next = request[r].index
  /\ acked' = acked \cup {request[r].index}
  /\ End(r)
  /\ UNCHANGED <<siteVars, tableVars, historyVars>>

CheckFinalize(r) ==
  /\ Restoring
  /\ journal.next = Chunks[journal.artifact]
  /\ schema = Version[journal.artifact]
  /\ Begin(r, [call |-> "finalize", id |-> journal.id, artifact |-> journal.artifact])

\* Faulty variant: the rows are not counted.
IsValidSchema(a) == schema = Version[a] /\ state # NoId

\* The batch validates the schema and the number of rows of every table.
IsValid(a) ==
  /\ schema = Version[a]
  /\ state # NoId
  /\ Cardinality(rows) = Chunks[a] - 1

\* It drops whatever journal there is.
Finalize(r) ==
  /\ request[r].call = "finalize"
  /\ Restoring
  /\ IsValid(request[r].artifact)
  /\ journal' = NoId
  /\ acked' = {}
  /\ unchecked' = (journal.id # request[r].id)
  /\ End(r)
  /\ UNCHANGED <<siteVars, schema, state, guard, rows, leftover>>

-----------------------------------------------------------------------------
Step(r) ==
  \/ StartUpgrade(r)
  \/ ApplyStep(r)
  \/ StartRestore(r)
  \/ CountRows(r)
  \/ StoreChunk(r)
  \/ AnswerChunk(r)
  \/ Finalize(r)

Check(r) ==
  \/ CheckUpgrade(r)
  \/ CheckStep(r)
  \/ \E a \in Artifacts, structure \in BOOLEAN : CheckRestore(r, a, structure)
  \/ CheckChunk(r)
  \/ CheckFinalize(r)

Next ==
  \/ Redeploy
  \/ ReplayChunk
  \/ \E r \in Requests : Check(r) \/ Step(r) \/ Abandon(r)

Spec == Init /\ [][Next]_vars

\* A request ends, one way or another; while an upgrade is reported as in
\* progress somebody resumes it, and its steps do not fail for ever.
Fairness ==
  /\ \A r \in Requests : WF_vars(Step(r) \/ Abandon(r))
  /\ SF_vars(\E r \in Requests : CheckStep(r))
  /\ SF_vars(\E r \in Requests : ApplyStep(r))

FairSpec == Spec /\ Fairness

-----------------------------------------------------------------------------
(* Properties                                                              *)

\* inspectStudioSchemaUpgrade: what administrators are told of the database.
Report ==
  IF state = NoId THEN "uninstalled"
  ELSE IF Restoring THEN "recovery_required"
  ELSE IF Ready
       THEN IF state.version = target THEN "up_to_date"
            ELSE IF state.version < target THEN "upgrade_required" ELSE "newer_than_code"
  ELSE IF state.target = target /\ state.version < target /\ guard # NoId
       THEN "in_progress" ELSE "recovery_required"

\* Outside a restore the recorded version is the version of the tables,
\* however often a step was sent, resumed, taken over or interrupted; unless
\* the restore before was ended by a finalization that had checked another.
SchemaMatchesVersion ==
  ~Restoring /\ ~unchecked => state # NoId /\ state.version = schema

\* What is reported is possible.  No guard table is in the way of the upgrade
\* or the restore that a ready database offers, but that of an upgrade which
\* an unverified restore ended.  An upgrade that is said to be in progress is
\* guarded by its own operation.  A database in need of recovery is being
\* restored, or else its upgrade, still guarded by its own operation, only
\* waits for a deployment of the release it began with.
NeverStranded ==
  /\ Report \in {"up_to_date", "upgrade_required"} => guard = NoId \/ leftover
  /\ Report = "in_progress" => guard = state.operation
  /\ Report = "recovery_required" /\ ~Restoring =>
       /\ guard = state.operation
       /\ state.target # target
       /\ state.version < state.target

\* A chunk that was answered as accepted or as replayed is stored, whatever
\* late chunks of an earlier restore do to the tables.
AckedIsStored ==
  Restoring =>
    \A k \in acked :
      IF k = FirstChunk THEN state = ReadyRow(Version[journal.artifact])
      ELSE <<journal.artifact, k>> \in rows

\* The database as DatabaseLifecycle sees it.
Phase ==
  IF Restoring THEN "restoring"
  ELSE IF unchecked THEN "unchecked"
  ELSE IF Upgrading THEN "upgrading" ELSE "ready"
RecordedVersion == IF Phase \in {"ready", "upgrading"} /\ state # NoId THEN state.version ELSE 0
Goal == IF Phase = "upgrading" THEN state.target ELSE 0
Content ==
  IF Restoring THEN journal.artifact
  ELSE IF ~unchecked /\ \E a \in Artifacts : rows = RowsOf(a)
       THEN CHOOSE a \in Artifacts : rows = RowsOf(a)
       ELSE NoId

Lifecycle ==
  INSTANCE DatabaseLifecycle
    WITH phase <- Phase, version <- RecordedVersion, goal <- Goal,
         content <- Content, blocked <- leftover, NoContent <- NoId

\* A database that is not being restored holds one artifact, complete, and
\* was upgraded from its version one step at a time to the version it set out
\* for, or it was finalized unchecked; a restore that ends an upgrade blocks
\* all later ones.
ImplementsLifecycle == Lifecycle!Spec

\* Once the site stays in maintenance, with a release that an upgrade under
\* way began with, an upgrade that was started comes to its end.
UpgradeEnds ==
  <>[](mode = "maintenance" /\ (Upgrading => state.target = target))
    => (Upgrading ~> ~Upgrading)
=============================================================================

--------------------- MODULE DatabaseMaintenanceProofs ---------------------
(***************************************************************************)
(* Proofs about DatabaseMaintenance for any artifacts, any releases and    *)
(* any number of requests.                                                 *)
(***************************************************************************)
EXTENDS DatabaseMaintenance, FiniteSetTheorems, TLAPS

\* A chunk belongs to its artifact, and the id of the current restore to the
\* artifact of the journal.
ChunkInv ==
  \A r \in Requests : request[r].call \in ChunkCalls =>
    /\ request[r].index <= Chunks[request[r].artifact]
    /\ Restoring /\ journal.id = request[r].id => journal.artifact = request[r].artifact

\* What the journal says was stored is stored, and no upgrade disturbs it.
StoredInv ==
  Restoring =>
    /\ ~Upgrading
    /\ journal.next >= 1 => state = ReadyRow(Version[journal.artifact])
    /\ \A k \in 2 .. journal.next : <<journal.artifact, k>> \in rows
    /\ acked \subseteq 1 .. journal.next

\* A request of an upgrade leads to a later version.
ForwardInv ==
  \A r \in Requests :
    request[r].call \in {"upgrade", "step"} => request[r].version < request[r].target

CoreInv == TypeOK /\ ChunkInv /\ StoredInv /\ ForwardInv

\* The guard table is there exactly while its operation is, but for one that a
\* restore left over, which ends all upgrades.
GuardInv ==
  /\ guard # NoId <=> Upgrading \/ leftover
  /\ Upgrading =>
       /\ guard = state.operation
       /\ ~Restoring
       /\ ~leftover
       /\ state.version < state.target

\* The journal of a restore that was checked for its finalization is still
\* complete, and outside a restore the tables are those of one artifact,
\* unless another restore was checked than was finalized.
FinalizeInv ==
  \A r \in Requests :
    request[r].call = "finalize" /\ Restoring /\ journal.id = request[r].id =>
    /\ journal.artifact = request[r].artifact
    /\ journal.next = Chunks[journal.artifact]

CompleteInv ==
  /\ IsFiniteSet(rows)
  /\ FinalizeInv
  /\ Restoring => ~unchecked
  /\ ~Restoring /\ ~unchecked =>
       /\ state # NoId
       /\ state.version = schema
       /\ \E a \in Artifacts : rows = RowsOf(a)

-----------------------------------------------------------------------------
(* The rows of an artifact, and the requests under way.                    *)

\* An artifact has one row for each chunk but the first.
LEMMA RowsCounted ==
  ASSUME NEW a \in Artifacts
  PROVE  IsFiniteSet(RowsOf(a)) /\ Cardinality(RowsOf(a)) = Chunks[a] - 1
<1>1. Chunks[a] \in Nat /\ Chunks[a] >= 2 BY VersionAssumption
<1>2. IsFiniteSet(2 .. Chunks[a]) /\ Cardinality(2 .. Chunks[a]) = Chunks[a] - 1
  BY <1>1, FS_Interval
<1>3. IsFiniteSet({a}) /\ Cardinality({a}) = 1 BY FS_Singleton
<1> QED BY <1>1, <1>2, <1>3, FS_Product DEF RowsOf

\* Artifacts with the same rows are the same.
LEMMA RowsIdentify ==
  ASSUME NEW a \in Artifacts, NEW b \in Artifacts, RowsOf(a) = RowsOf(b)
  PROVE  a = b
<1>1. Chunks[a] \in Nat /\ Chunks[a] >= 2 BY VersionAssumption
<1>2. <<a, 2>> \in RowsOf(a) BY <1>1 DEF RowsOf
<1> QED BY <1>2 DEF RowsOf

\* What a request under way carries.
LEMMA CallTypes ==
  ASSUME TypeOK, NEW r \in Requests
  PROVE  /\ request[r].call \in {"upgrade", "step"} =>
              request[r].version \in Versions /\ request[r].target \in Versions
         /\ request[r].call = "step" => request[r].operation \in Ids
         /\ request[r].call = "restore" => request[r].artifact \in Artifacts
         /\ request[r].call \in ChunkCalls =>
              /\ request[r].id \in Ids
              /\ request[r].artifact \in Artifacts
              /\ request[r].index \in Nat \ {0}
         /\ request[r].call = "finalize" => request[r].id \in Ids /\ request[r].artifact \in Artifacts
<1>1. request[r] \in Calls BY DEF TypeOK
<1> QED BY <1>1 DEF Calls, Idle, ChunkCalls

\* What a request has read when its checks let it pass.
Checked(c) ==
  /\ c \in Calls
  /\ c.call \in ChunkCalls =>
       Restoring /\ c.id = journal.id /\ c.artifact = journal.artifact
         /\ c.index <= Chunks[journal.artifact]
  /\ c.call \in {"upgrade", "step"} => c.version < c.target
  /\ c.call = "finalize" =>
       /\ Restoring
       /\ c.id = journal.id
       /\ c.artifact = journal.artifact
       /\ journal.next = Chunks[journal.artifact]

LEMMA Checks ==
  ASSUME TypeOK, NEW r \in Requests, Check(r)
  PROVE  \E c \in Calls : Begin(r, c) /\ Checked(c)
<1> USE DEF TypeOK, Checked
<1>1. CASE CheckUpgrade(r)
  <2> DEFINE c == [call |-> "upgrade", version |-> state.version, target |-> target]
  <2>1. c \in Calls
    BY <1>1, VersionAssumption DEF CheckUpgrade, Ready, Calls, LifecycleRows
  <2> QED BY <1>1, <2>1 DEF CheckUpgrade, ChunkCalls
<1>2. CASE CheckStep(r)
  <2> DEFINE c == [call |-> "step", operation |-> state.operation,
                   version |-> state.version, target |-> target]
  <2>1. c \in Calls
    BY <1>2, VersionAssumption DEF CheckStep, Upgrading, Calls, LifecycleRows
  <2> QED BY <1>2, <2>1 DEF CheckStep, ChunkCalls
<1>3. ASSUME NEW a \in Artifacts, NEW structure \in BOOLEAN, CheckRestore(r, a, structure)
      PROVE  \E c \in Calls : Begin(r, c) /\ Checked(c)
  <2> DEFINE verify == mode = "maintenance" /\ ~Restoring
             c == [call |-> "restore", artifact |-> a, structure |-> structure,
                   schema |-> schema, verify |-> verify]
  <2>1. verify \in BOOLEAN OBVIOUS
  <2> HIDE DEF verify
  <2>2. c \in Calls BY <2>1 DEF Calls
  <2>3. Begin(r, c) BY <1>3 DEF CheckRestore, verify
  <2> QED BY <2>2, <2>3 DEF ChunkCalls
<1>4. CASE CheckChunk(r)
  <2> DEFINE c == [call |-> "count", id |-> journal.id, artifact |-> journal.artifact,
                   index |-> journal.next + 1]
  <2>1. Restoring /\ journal \in Journals /\ journal.next < Chunks[journal.artifact]
    BY <1>4 DEF CheckChunk, Restoring
  <2>2. c \in Calls BY <2>1 DEF Calls, Journals, ChunkCalls
  <2>3. c.index <= Chunks[journal.artifact]
    BY <2>1, VersionAssumption DEF Journals
  <2> QED BY <1>4, <2>1, <2>2, <2>3 DEF CheckChunk
<1>5. CASE CheckFinalize(r)
  <2> DEFINE c == [call |-> "finalize", id |-> journal.id, artifact |-> journal.artifact]
  <2>1. Restoring /\ journal \in Journals BY <1>5 DEF CheckFinalize, Restoring
  <2>2. c \in Calls BY <2>1 DEF Calls, Journals
  <2> QED BY <1>5, <2>1, <2>2 DEF CheckFinalize, ChunkCalls
<1> QED BY <1>1, <1>2, <1>3, <1>4, <1>5 DEF Check

\* A request that begins or goes on without a write.
Continued(r, c) ==
  /\ request' = [request EXCEPT ![r] = c]
  /\ UNCHANGED <<schema, state, guard, journal, rows, leftover, unchecked>>
  /\ \/ Checked(c)
     \/ c = Idle
     \/ /\ request[r].call = "count"
        /\ c = [request[r] EXCEPT !.call = "store"]

\* Every step, by what it does to the tables.
LEMMA Steps ==
  ASSUME TypeOK, [Next]_vars
  PROVE  \/ UNCHANGED <<schema, state, guard, journal, rows, acked, request, leftover, unchecked>>
         \/ ReplayChunk
         \/ \E r \in Requests :
              \/ \E c \in Calls : Continued(r, c) /\ acked' = acked
              \/ StartUpgrade(r) \/ ApplyStep(r) \/ StartRestore(r)
              \/ StoreChunk(r) \/ AnswerChunk(r) \/ Finalize(r)
<1>1. CASE UNCHANGED vars BY <1>1 DEF vars, tableVars, historyVars
<1>2. CASE Redeploy BY <1>2 DEF Redeploy, tableVars, historyVars
<1>3. ASSUME NEW r \in Requests, Check(r)
      PROVE  \E c \in Calls : Continued(r, c) /\ acked' = acked
  BY <1>3, Checks DEF Begin, Continued, tableVars, historyVars
<1>4. ASSUME NEW r \in Requests, Abandon(r)
      PROVE  \E c \in Calls : Continued(r, c) /\ acked' = acked
  BY <1>4 DEF Abandon, End, Continued, tableVars, historyVars, Calls
<1>5. ASSUME NEW r \in Requests, CountRows(r)
      PROVE  \E c \in Calls : Continued(r, c) /\ acked' = acked
  <2> DEFINE c == [request[r] EXCEPT !.call = "store"]
  <2>1. request[r] \in Calls /\ request[r].call = "count" BY <1>5 DEF CountRows, TypeOK
  <2>2. c \in Calls BY <2>1 DEF Calls, Idle, ChunkCalls
  <2>3. request' = [request EXCEPT ![r] = c] BY <1>5 DEF CountRows
  <2> QED BY <1>5, <2>1, <2>2, <2>3 DEF CountRows, Continued, tableVars, historyVars
<1> QED BY <1>1, <1>2, <1>3, <1>4, <1>5 DEF Next, Step

-----------------------------------------------------------------------------
(* Types, chunks and the journal.                                          *)

\* The types of the variables but those of the deployment and the history,
\* which no step can spoil.
TableTypes ==
  /\ schema \in Versions \cup {Mixed}
  /\ state \in LifecycleRows \cup {NoId}
  /\ guard \in Ids \cup {NoId}
  /\ journal \in Journals \cup {NoId}
  /\ journal # NoId => journal.next <= Chunks[journal.artifact]
  /\ rows \subseteq UNION {RowsOf(a) : a \in Artifacts}
  /\ acked \subseteq Nat

LEMMA SiteStep ==
  ASSUME TypeOK, [Next]_vars
  PROVE  mode' \in {"maintenance", "recovery"} /\ target' \in Releases
BY DEF TypeOK, Next, vars, siteVars, Redeploy, ReplayChunk, Check, Step, Abandon, Begin, CheckUpgrade,
       CheckStep, CheckRestore, CheckChunk, CheckFinalize, StartUpgrade, ApplyStep, StartRestore,
       CountRows, StoreChunk, AnswerChunk, Finalize

LEMMA HistoryStep ==
  ASSUME TypeOK, [Next]_vars
  PROVE  leftover' \in BOOLEAN /\ unchecked' \in BOOLEAN
<1>1. CASE UNCHANGED <<leftover, unchecked>> BY <1>1 DEF TypeOK
<1>2. ASSUME NEW r \in Requests, StartRestore(r)
      PROVE  leftover' \in BOOLEAN /\ unchecked' \in BOOLEAN
  <2>1. leftover' = (guard # NoId) /\ unchecked' = FALSE BY <1>2 DEF StartRestore
  <2> QED BY <2>1, Zenon
<1>3. ASSUME NEW r \in Requests, Finalize(r)
      PROVE  leftover' \in BOOLEAN /\ unchecked' \in BOOLEAN
  <2>1. leftover' = leftover /\ unchecked' = (journal.id # request[r].id) BY <1>3 DEF Finalize
  <2> QED BY <2>1, Zenon DEF TypeOK
<1>4. CASE ReplayChunk BY <1>1, <1>4 DEF ReplayChunk, historyVars
<1>5. ASSUME NEW r \in Requests, NEW c \in Calls, Continued(r, c)
      PROVE  UNCHANGED <<leftover, unchecked>>
  BY <1>5 DEF Continued
<1>6. ASSUME NEW r \in Requests,
             StartUpgrade(r) \/ ApplyStep(r) \/ StoreChunk(r) \/ AnswerChunk(r)
      PROVE  UNCHANGED <<leftover, unchecked>>
  BY <1>6 DEF StartUpgrade, ApplyStep, StoreChunk, AnswerChunk, historyVars
<1> QED BY <1>1, <1>2, <1>3, <1>4, <1>5, <1>6, Steps

\* The step that a request is about to apply leads to a version there is.
LEMMA ForwardTypes ==
  ASSUME TypeOK, ForwardInv, NEW r \in Requests, request[r].call = "step"
  PROVE  /\ request[r].operation \in Ids
         /\ request[r].version \in Versions /\ request[r].target \in Versions
         /\ request[r].version < request[r].target
         /\ request[r].version + 1 \in Versions
BY CallTypes, VersionAssumption DEF ForwardInv, Versions

LEMMA TypeStep ==
  ASSUME CoreInv, [Next]_vars
  PROVE  TypeOK'
<1> USE DEF CoreInv
<1>0. TypeOK /\ TableTypes /\ request \in [Requests -> Calls] BY DEF TypeOK, TableTypes
<1>a. ASSUME TableTypes', request' \in [Requests -> Calls]
      PROVE  TypeOK'
  BY <1>0, <1>a, SiteStep, HistoryStep DEF TypeOK, TableTypes
<1>b. Idle \in Calls BY DEF Calls
<1>c. NextSchema \in Versions \cup {Mixed}
  BY <1>0, VersionAssumption DEF NextSchema, TableTypes, Versions, Mixed
<1>1. CASE UNCHANGED <<schema, state, guard, journal, rows, acked, request, leftover, unchecked>>
  BY <1>0, <1>a, <1>1 DEF TableTypes
<1>2. CASE ReplayChunk
  <2>1. Restoring /\ journal \in Journals BY <1>0, <1>2 DEF ReplayChunk, Restoring, TableTypes
  <2>2. acked' \subseteq Nat BY <1>0, <1>2, <2>1 DEF ReplayChunk, Journals, TableTypes
  <2> QED BY <1>0, <1>a, <1>2, <2>2 DEF ReplayChunk, tableVars, historyVars, TableTypes
<1>3. ASSUME NEW r \in Requests, NEW c \in Calls, Continued(r, c), acked' = acked
      PROVE  TypeOK'
  BY <1>0, <1>a, <1>3 DEF Continued, TableTypes
<1>4. ASSUME NEW r \in Requests, StartUpgrade(r)
      PROVE  TypeOK'
  <2>1. request[r].version \in Versions /\ request[r].target \in Versions
    BY <1>0, <1>4, CallTypes DEF StartUpgrade
  <2>2. state' \in LifecycleRows /\ guard' \in Ids
    BY <1>4, <2>1 DEF StartUpgrade, Row, LifecycleRows
  <2> QED BY <1>0, <1>a, <1>b, <1>4, <2>2 DEF StartUpgrade, End, TableTypes
<1>5. ASSUME NEW r \in Requests, ApplyStep(r)
      PROVE  TypeOK'
  <2>1. request[r].operation \in Ids /\ request[r].target \in Versions
        /\ request[r].version + 1 \in Versions
    BY <1>0, <1>5, ForwardTypes DEF ApplyStep
  <2>2. state' \in LifecycleRows
    BY <1>5, <2>1 DEF ApplyStep, AdvanceSchema, Advanced, Row, ReadyRow, LifecycleRows
  <2>3. guard' \in Ids \cup {NoId} BY <1>0, <1>5 DEF ApplyStep, AdvanceSchema, TableTypes
  <2>4. schema' \in Versions \cup {Mixed} BY <1>5, <1>c DEF ApplyStep, AdvanceSchema
  <2> QED BY <1>0, <1>a, <1>b, <1>5, <2>2, <2>3, <2>4 DEF ApplyStep, End, TableTypes
<1>6. ASSUME NEW r \in Requests, StartRestore(r)
      PROVE  TypeOK'
  <2>1. request[r].artifact \in Artifacts BY <1>0, <1>6, CallTypes DEF StartRestore
  <2>2. PICK i \in Ids : journal' = [id |-> i, artifact |-> request[r].artifact, next |-> 0]
    BY <1>6 DEF StartRestore
  <2>3. journal' \in Journals /\ journal'.next = 0 /\ journal'.artifact \in Artifacts
    BY <2>1, <2>2 DEF Journals
  <2>4. schema' \in Versions \cup {Mixed}
    BY <1>0, <1>6, <2>1, VersionAssumption DEF StartRestore, EmptyTables, TableTypes
  <2>5. journal'.next <= Chunks[journal'.artifact] BY <2>3, VersionAssumption
  <2>6. state' = NoId /\ rows' = {} /\ acked' = {} /\ guard' = guard
    BY <1>6 DEF StartRestore, EmptyTables
  <2> QED BY <1>0, <1>a, <1>b, <1>6, <2>3, <2>4, <2>5, <2>6 DEF StartRestore, End, TableTypes
<1>7. ASSUME NEW r \in Requests, StoreChunk(r)
      PROVE  TypeOK'
  <2> DEFINE c == request[r]
  <2>1. c.call = "store" BY <1>7 DEF StoreChunk
  <2>2. c \in Calls /\ c.artifact \in Artifacts /\ c.index \in Nat \ {0} /\ c.id \in Ids
        /\ c.index <= Chunks[c.artifact]
    BY <1>0, <2>1, CallTypes DEF ChunkInv, ChunkCalls
  <2>3. [c EXCEPT !.call = "answer"] \in Calls BY <2>1, <2>2 DEF Calls, Idle, ChunkCalls
  <2>4. request' \in [Requests -> Calls] BY <1>0, <1>7, <2>3 DEF StoreChunk
  <2>5. Restoring /\ journal \in Journals
    BY <1>0, <1>7 DEF StoreChunk, AdvanceJournal, Restoring, TableTypes
  <2>6. journal' \in Journals /\ journal'.next <= Chunks[journal'.artifact]
    <3>1. CASE journal.id = c.id
      <4>1. journal' = [journal EXCEPT !.next = c.index] BY <1>7, <3>1 DEF StoreChunk, AdvanceJournal
      <4>2. journal.artifact = c.artifact BY <2>1, <2>5, <3>1 DEF ChunkInv, ChunkCalls
      <4> QED BY <2>2, <2>5, <4>1, <4>2 DEF Journals
    <3>2. CASE journal.id # c.id
      BY <1>0, <1>7, <2>5, <3>2 DEF StoreChunk, AdvanceJournal, TableTypes, Restoring
    <3> QED BY <3>1, <3>2
  <2>7. state' \in LifecycleRows \cup {NoId}
    BY <1>0, <1>7, <2>2, VersionAssumption
    DEF StoreChunk, InsertChunk, Row, ReadyRow, LifecycleRows, TableTypes
  <2>8. rows' \subseteq UNION {RowsOf(a) : a \in Artifacts}
    <3>1. CASE c.index = FirstChunk BY <1>0, <1>7, <3>1 DEF StoreChunk, InsertChunk, TableTypes
    <3>2. CASE c.index # FirstChunk
      <4>1. rows' = rows \cup {<<c.artifact, c.index>>} BY <1>7, <3>2 DEF StoreChunk, InsertChunk
      <4>2. c.index \in 2 .. Chunks[c.artifact]
        BY <2>2, <3>2, VersionAssumption DEF FirstChunk
      <4>3. <<c.artifact, c.index>> \in RowsOf(c.artifact) BY <2>2, <4>2 DEF RowsOf
      <4> QED BY <1>0, <2>2, <4>1, <4>3 DEF TableTypes
    <3> QED BY <3>1, <3>2
  <2>9. UNCHANGED <<schema, guard, acked>> BY <1>7 DEF StoreChunk
  <2> QED BY <1>0, <1>a, <2>4, <2>6, <2>7, <2>8, <2>9 DEF TableTypes
<1>8. ASSUME NEW r \in Requests, AnswerChunk(r)
      PROVE  TypeOK'
  <2>1. request[r].index \in Nat BY <1>0, <1>8, CallTypes DEF AnswerChunk, ChunkCalls
  <2> QED BY <1>0, <1>a, <1>b, <1>8, <2>1 DEF AnswerChunk, End, tableVars, historyVars, TableTypes
<1>9. ASSUME NEW r \in Requests, Finalize(r)
      PROVE  TypeOK'
  BY <1>0, <1>a, <1>b, <1>9 DEF Finalize, End, TableTypes
<1> QED BY <1>0, <1>1, <1>2, <1>3, <1>4, <1>5, <1>6, <1>7, <1>8, <1>9, Steps

LEMMA ChunkStep ==
  ASSUME CoreInv, [Next]_vars
  PROVE  ChunkInv'
<1> USE DEF CoreInv
<1>0. TypeOK /\ ChunkInv /\ request \in [Requests -> Calls] /\ journal \in Journals \cup {NoId}
  BY DEF TypeOK
<1>a. ASSUME NEW r \in Requests, NEW c \in Calls, c.call \notin ChunkCalls,
             request' = [request EXCEPT ![r] = c],
             Restoring' => Restoring /\ journal' = journal
      PROVE  ChunkInv'
  BY <1>0, <1>a DEF ChunkInv
<1>b. Idle \in Calls /\ Idle.call \notin ChunkCalls BY DEF Calls, Idle, ChunkCalls
<1>1. CASE UNCHANGED <<schema, state, guard, journal, rows, acked, request, leftover, unchecked>>
  BY <1>0, <1>1 DEF ChunkInv, Restoring
<1>2. CASE ReplayChunk BY <1>0, <1>2 DEF ChunkInv, ReplayChunk, Restoring, tableVars, historyVars
<1>3. ASSUME NEW r \in Requests, NEW c \in Calls, Continued(r, c)
      PROVE  ChunkInv'
  <2>1. c.call \in ChunkCalls =>
          c.index <= Chunks[c.artifact] /\ (Restoring /\ journal.id = c.id => journal.artifact = c.artifact)
    <3>1. CASE Checked(c) BY <3>1 DEF Checked
    <3>2. CASE c = Idle BY <1>b, <3>2
    <3>3. CASE request[r].call = "count" /\ c = [request[r] EXCEPT !.call = "store"]
      <4>1. request[r] \in Calls BY <1>0
      <4>2. c.index = request[r].index /\ c.artifact = request[r].artifact /\ c.id = request[r].id
        BY <3>3, <4>1 DEF Calls, Idle, ChunkCalls
      <4> QED BY <1>0, <3>3, <4>2 DEF ChunkInv, ChunkCalls
    <3> QED BY <1>3, <3>1, <3>2, <3>3 DEF Continued
  <2> QED BY <1>0, <1>3, <2>1 DEF Continued, ChunkInv, Restoring
<1>4. ASSUME NEW r \in Requests, StartUpgrade(r) \/ ApplyStep(r) \/ AnswerChunk(r) \/ Finalize(r)
      PROVE  ChunkInv'
  <2>1. request' = [request EXCEPT ![r] = Idle]
    BY <1>4 DEF StartUpgrade, ApplyStep, AnswerChunk, Finalize, End
  <2>2. Restoring' => Restoring /\ journal' = journal
    BY <1>4 DEF StartUpgrade, ApplyStep, AnswerChunk, Finalize, Restoring, tableVars, historyVars
  <2> QED BY <1>a, <1>b, <2>1, <2>2
<1>5. ASSUME NEW r \in Requests, StartRestore(r)
      PROVE  ChunkInv'
  <2>1. PICK i \in Ids \ HeldIds :
          journal' = [id |-> i, artifact |-> request[r].artifact, next |-> 0]
    BY <1>5 DEF StartRestore
  <2>2. request' = [request EXCEPT ![r] = Idle] BY <1>5 DEF StartRestore, End
  <2>3. \A s \in Requests : request[s].call \in ChunkCalls => request[s].id # i
    BY <2>1 DEF HeldIds, RestoreCalls
  <2> QED BY <1>0, <1>b, <2>1, <2>2, <2>3 DEF ChunkInv
<1>6. ASSUME NEW r \in Requests, StoreChunk(r)
      PROVE  ChunkInv'
  <2> DEFINE c == request[r]
             d == [c EXCEPT !.call = "answer"]
  <2>1. c \in Calls /\ c.call = "store" BY <1>0, <1>6 DEF StoreChunk
  <2>2. d.index = c.index /\ d.artifact = c.artifact /\ d.id = c.id
    BY <2>1 DEF Calls, Idle, ChunkCalls
  <2>3. request' = [request EXCEPT ![r] = d] BY <1>6 DEF StoreChunk
  <2>4. Restoring BY <1>6 DEF StoreChunk, AdvanceJournal
  <2>5. journal'.id = journal.id /\ journal'.artifact = journal.artifact
    BY <1>0, <1>6, <2>4 DEF StoreChunk, AdvanceJournal, Journals, Restoring
  <2> HIDE DEF d
  <2>6. \A s \in Requests \ {r} : request'[s] = request[s] BY <1>0, <2>3
  <2>7. request'[r] = d BY <1>0, <2>3
  <2> QED BY <1>0, <2>1, <2>2, <2>4, <2>5, <2>6, <2>7 DEF ChunkInv, ChunkCalls
<1> QED BY <1>0, <1>1, <1>2, <1>3, <1>4, <1>5, <1>6, Steps

LEMMA ForwardStep ==
  ASSUME CoreInv, [Next]_vars
  PROVE  ForwardInv'
<1> USE DEF CoreInv
<1>0. TypeOK /\ ForwardInv /\ request \in [Requests -> Calls] BY DEF TypeOK
<1>a. ASSUME NEW r \in Requests, NEW c \in Calls, request' = [request EXCEPT ![r] = c],
             c.call \in {"upgrade", "step"} => c.version < c.target
      PROVE  ForwardInv'
  BY <1>0, <1>a DEF ForwardInv
<1>b. Idle \in Calls /\ Idle.call \notin {"upgrade", "step"} BY DEF Calls, Idle
<1>1. CASE UNCHANGED request BY <1>0, <1>1 DEF ForwardInv
<1>2. CASE ReplayChunk BY <1>1, <1>2 DEF ReplayChunk
<1>3. ASSUME NEW r \in Requests, NEW c \in Calls, Continued(r, c)
      PROVE  ForwardInv'
  <2>1. c.call \in {"upgrade", "step"} => c.version < c.target
    <3>1. CASE Checked(c) BY <3>1 DEF Checked
    <3>2. CASE c = Idle BY <1>b, <3>2
    <3>3. CASE request[r].call = "count" /\ c = [request[r] EXCEPT !.call = "store"]
      <4>1. request[r] \in Calls BY <1>0
      <4>2. c.call = "store" BY <3>3, <4>1 DEF Calls, Idle, ChunkCalls
      <4> QED BY <4>2
    <3> QED BY <1>3, <3>1, <3>2, <3>3 DEF Continued
  <2> QED BY <1>3, <1>a, <2>1 DEF Continued
<1>4. ASSUME NEW r \in Requests,
             StartUpgrade(r) \/ ApplyStep(r) \/ StartRestore(r) \/ AnswerChunk(r) \/ Finalize(r)
      PROVE  ForwardInv'
  <2>1. request' = [request EXCEPT ![r] = Idle]
    BY <1>4 DEF StartUpgrade, ApplyStep, StartRestore, AnswerChunk, Finalize, End
  <2> QED BY <1>a, <1>b, <2>1
<1>5. ASSUME NEW r \in Requests, StoreChunk(r)
      PROVE  ForwardInv'
  <2> DEFINE c == [request[r] EXCEPT !.call = "answer"]
  <2>1. request[r] \in Calls /\ request[r].call = "store" BY <1>0, <1>5 DEF StoreChunk
  <2>2. c \in Calls /\ c.call = "answer" BY <2>1 DEF Calls, Idle, ChunkCalls
  <2>3. request' = [request EXCEPT ![r] = c] BY <1>5 DEF StoreChunk
  <2> HIDE DEF c
  <2> QED BY <1>a, <2>2, <2>3
<1> QED BY <1>0, <1>1, <1>2, <1>3, <1>4, <1>5, Steps

LEMMA StoredStep ==
  ASSUME CoreInv, [Next]_vars
  PROVE  StoredInv'
<1> USE DEF CoreInv
<1>0. /\ TypeOK /\ ChunkInv /\ StoredInv /\ NoId \notin Ids
      /\ request \in [Requests -> Calls]
      /\ journal \in Journals \cup {NoId}
  BY IdAssumption DEF TypeOK
<1>1. CASE UNCHANGED <<schema, state, guard, journal, rows, acked, request, leftover, unchecked>>
  BY <1>0, <1>1 DEF StoredInv, Restoring, Upgrading
<1>2. CASE ReplayChunk
  BY <1>0, <1>2 DEF StoredInv, ReplayChunk, Restoring, Upgrading, tableVars, historyVars
<1>3. ASSUME NEW r \in Requests, NEW c \in Calls, Continued(r, c), acked' = acked
      PROVE  StoredInv'
  BY <1>0, <1>3 DEF StoredInv, Continued, Restoring, Upgrading
<1>4. ASSUME NEW r \in Requests, StartUpgrade(r)
      PROVE  StoredInv'
  BY <1>4 DEF StoredInv, StartUpgrade, Restoring
<1>5. ASSUME NEW r \in Requests, ApplyStep(r)
      PROVE  StoredInv'
  <2>1. request[r].operation \in Ids BY <1>0, <1>5, CallTypes DEF ApplyStep
  <2>2. Upgrading
    <3>1. state = Row(request[r].version, request[r].operation, request[r].target)
      BY <1>5 DEF ApplyStep, OwnsStep
    <3>2. request[r].version \in Versions /\ request[r].target \in Versions
      BY <1>0, <1>5, CallTypes DEF ApplyStep
    <3>3. state \in LifecycleRows BY <2>1, <3>1, <3>2 DEF Row, LifecycleRows
    <3> QED BY <2>1, <3>1, <3>3, IdAssumption DEF Row, Upgrading
  <2>3. ~Restoring BY <1>0, <2>2 DEF StoredInv
  <2> QED BY <1>5, <2>3 DEF StoredInv, ApplyStep, Restoring
<1>6. ASSUME NEW r \in Requests, StartRestore(r)
      PROVE  StoredInv'
  BY <1>6 DEF StoredInv, StartRestore, EmptyTables, Upgrading
<1>7. ASSUME NEW r \in Requests, StoreChunk(r)
      PROVE  StoredInv'
  <2> DEFINE c == request[r]
  <2>1. c.call = "store" BY <1>7 DEF StoreChunk
  <2>2. c.artifact \in Artifacts /\ c.index \in Nat \ {0} /\ c.id \in Ids
    BY <1>0, <2>1, CallTypes DEF ChunkCalls
  <2>3. Restoring /\ journal \in Journals
    BY <1>0, <1>7 DEF StoreChunk, AdvanceJournal, Restoring
  <2>4. ~Upgrading' BY <1>0, <1>7, <2>3 DEF StoreChunk, InsertChunk, StoredInv, Upgrading, Row, ReadyRow
  <2>5. rows \subseteq rows' /\ (state # NoId => state' = state)
    BY <1>7 DEF StoreChunk, InsertChunk
  <2>6. journal.next >= 1 => state' = ReadyRow(Version[journal.artifact])
    <3>1. ReadyRow(Version[journal.artifact]) \in LifecycleRows
      BY <2>3, VersionAssumption DEF Row, ReadyRow, LifecycleRows, Journals
    <3> QED BY <1>0, <2>3, <2>5, <3>1, IdAssumption DEF StoredInv
  <2>7. CASE journal.id # c.id
    <3>1. journal' = journal /\ acked' = acked
      BY <1>7, <2>7 DEF StoreChunk, AdvanceJournal
    <3> QED BY <1>0, <2>3, <2>4, <2>5, <2>6, <3>1 DEF StoredInv
  <2>8. CASE journal.id = c.id
    <3>1. journal.next = c.index - 1 /\ journal' = [journal EXCEPT !.next = c.index] /\ acked' = acked
      BY <1>7, <2>8 DEF StoreChunk, AdvanceJournal
    <3>2. journal'.next = c.index /\ journal'.artifact = journal.artifact BY <2>3, <3>1 DEF Journals
    <3>3. journal.artifact = c.artifact BY <1>0, <2>1, <2>3, <2>8 DEF ChunkInv, ChunkCalls
    <3>4. state' = ReadyRow(Version[journal.artifact])
      <4>1. CASE c.index = FirstChunk BY <1>7, <3>3, <4>1 DEF StoreChunk, InsertChunk
      <4>2. CASE c.index # FirstChunk BY <2>2, <2>6, <3>1, <4>2 DEF FirstChunk
      <4> QED BY <4>1, <4>2
    <3>5. \A k \in 2 .. c.index : <<journal.artifact, k>> \in rows'
      <4>1. c.index # FirstChunk => <<c.artifact, c.index>> \in rows'
        BY <1>7 DEF StoreChunk, InsertChunk
      <4>2. \A k \in 2 .. c.index - 1 : <<journal.artifact, k>> \in rows
        BY <1>0, <2>3, <3>1 DEF StoredInv
      <4>3. SUFFICES ASSUME NEW k \in 2 .. c.index PROVE <<journal.artifact, k>> \in rows'
        OBVIOUS
      <4>4. CASE k = c.index BY <2>2, <3>3, <4>1, <4>4 DEF FirstChunk
      <4>5. CASE k # c.index
        <5>1. k \in 2 .. c.index - 1 BY <2>2, <4>5
        <5> QED BY <2>5, <4>2, <5>1
      <4> QED BY <4>4, <4>5
    <3>6. acked' \subseteq 1 .. c.index
      <4>1. acked \subseteq 1 .. c.index - 1 BY <1>0, <2>3, <3>1 DEF StoredInv
      <4>2. 1 .. c.index - 1 \subseteq 1 .. c.index BY <2>2
      <4> QED BY <3>1, <4>1, <4>2
    <3> QED BY <2>4, <3>2, <3>4, <3>5, <3>6 DEF StoredInv
  <2> QED BY <2>7, <2>8
<1>8. ASSUME NEW r \in Requests, AnswerChunk(r)
      PROVE  StoredInv'
  <2>1. request[r].index \in Nat \ {0} BY <1>0, <1>8, CallTypes DEF AnswerChunk, ChunkCalls
  <2> QED BY <1>0, <1>8, <2>1 DEF StoredInv, AnswerChunk, Restoring, Upgrading, tableVars, historyVars
<1>9. ASSUME NEW r \in Requests, Finalize(r)
      PROVE  StoredInv'
  BY <1>9 DEF StoredInv, Finalize, Restoring
<1> QED BY <1>0, <1>1, <1>2, <1>3, <1>4, <1>5, <1>6, <1>7, <1>8, <1>9, Steps

\* A lifecycle row is there whenever its operation or its absence is known.
LEMMA RowIsThere ==
  ASSUME NEW v \in Versions, NEW o \in Ids \cup {NoId}, NEW t \in Versions \cup {NoTarget}
  PROVE  /\ Row(v, o, t) \in LifecycleRows /\ Row(v, o, t) # NoId
         /\ Row(v, o, t).version = v /\ Row(v, o, t).operation = o /\ Row(v, o, t).target = t
BY IdAssumption DEF Row, LifecycleRows

LEMMA ReadyRowIsThere ==
  ASSUME NEW v \in Versions
  PROVE  /\ ReadyRow(v) \in LifecycleRows /\ ReadyRow(v) # NoId
         /\ ReadyRow(v).version = v /\ ReadyRow(v).operation = NoId
BY RowIsThere DEF ReadyRow

LEMMA CoreInit ==
  ASSUME Init
  PROVE  CoreInv /\ ~Restoring /\ guard = NoId /\ ~leftover /\ ~unchecked
         /\ \E a \in Artifacts :
              state = ReadyRow(Version[a]) /\ schema = Version[a] /\ rows = RowsOf(a)
<1> USE DEF Init
<1>1. PICK a \in Artifacts :
        state = ReadyRow(Version[a]) /\ schema = Version[a] /\ rows = RowsOf(a)
  OBVIOUS
<1>2. Version[a] \in Versions BY VersionAssumption
<1>3. \A r \in Requests : request[r] = Idle OBVIOUS
<1>4. TypeOK BY <1>1, <1>2, ReadyRowIsThere DEF TypeOK, Calls
<1>5. ChunkInv /\ ForwardInv BY <1>3 DEF ChunkInv, ForwardInv, Idle, ChunkCalls
<1> QED BY <1>1, <1>4, <1>5 DEF CoreInv, StoredInv, Restoring

LEMMA CoreInvariance == Spec => []CoreInv
<1>1. CoreInv /\ [Next]_vars => CoreInv'
  BY TypeStep, ChunkStep, StoredStep, ForwardStep DEF CoreInv
<1>2. Init => CoreInv BY CoreInit
<1> QED BY <1>1, <1>2, PTL DEF Spec

\* Every reachable database has the types of its tables, and the journal
\* names no chunk that its artifact does not have.
THEOREM TypeCorrect == Spec => []TypeOK
<1>1. CoreInv => TypeOK BY DEF CoreInv
<1> QED BY <1>1, CoreInvariance, PTL

\* A chunk that was answered as accepted is stored, however late chunks,
\* replays and restarts of other windows interleave with it.
THEOREM AcceptedChunksAreStored == Spec => []AckedIsStored
<1>1. ASSUME CoreInv
      PROVE  AckedIsStored
  <2>1. SUFFICES ASSUME Restoring, NEW k \in acked
                 PROVE  IF k = FirstChunk THEN state = ReadyRow(Version[journal.artifact])
                        ELSE <<journal.artifact, k>> \in rows
    BY DEF AckedIsStored
  <2>2. journal.next \in Nat BY <1>1, <2>1 DEF CoreInv, TypeOK, Restoring, Journals
  <2>3. k \in 1 .. journal.next BY <1>1, <2>1 DEF CoreInv, StoredInv
  <2>4. CASE k = FirstChunk
    BY <1>1, <2>1, <2>2, <2>3, <2>4 DEF CoreInv, StoredInv, FirstChunk
  <2>5. CASE k # FirstChunk
    <3>1. k \in 2 .. journal.next BY <2>2, <2>3, <2>5 DEF FirstChunk
    <3> QED BY <1>1, <2>1, <2>5, <3>1 DEF CoreInv, StoredInv
  <2> QED BY <2>4, <2>5
<1> QED BY <1>1, CoreInvariance, PTL

-----------------------------------------------------------------------------
(* The guard of an upgrade.                                                *)

\* A step is applied to the database of its own operation and version.
LEMMA StepOwned ==
  ASSUME TypeOK, ForwardInv, NEW r \in Requests, ApplyStep(r)
  PROVE  /\ Upgrading
         /\ state.version \in Versions /\ state.target \in Versions
         /\ state.version < state.target /\ state.version + 1 \in Versions
         /\ guard = state.operation /\ guard \in Ids
         /\ schema' = NextSchema
         /\ state' = IF state.version + 1 = state.target THEN ReadyRow(state.target)
                     ELSE Row(state.version + 1, guard, state.target)
         /\ guard' = IF state.version + 1 = state.target THEN NoId ELSE guard
<1>1. /\ request[r].operation \in Ids
      /\ request[r].version \in Versions /\ request[r].target \in Versions
      /\ request[r].version < request[r].target /\ request[r].version + 1 \in Versions
  BY ForwardTypes DEF ApplyStep
<1>2. /\ guard = request[r].operation
      /\ state = Row(request[r].version, request[r].operation, request[r].target)
  BY DEF ApplyStep, OwnsStep
<1>3. /\ state # NoId /\ state.version = request[r].version
      /\ state.operation = request[r].operation /\ state.target = request[r].target
  BY <1>1, <1>2, RowIsThere
<1> QED BY <1>1, <1>2, <1>3, IdAssumption DEF ApplyStep, AdvanceSchema, Advanced, Upgrading

\* The row that a step leaves behind.
LEMMA StepLeaves ==
  ASSUME TypeOK, ForwardInv, NEW r \in Requests, ApplyStep(r)
  PROVE  /\ state' # NoId /\ state'.version = state.version + 1
         /\ state.version + 1 = state.target => state'.operation = NoId
         /\ state.version + 1 # state.target =>
              state'.operation = guard /\ state'.target = state.target
BY StepOwned, RowIsThere, ReadyRowIsThere

\* An upgrade starts on a ready database that is behind.
LEMMA UpgradeStarts ==
  ASSUME TypeOK, ForwardInv, NEW r \in Requests, StartUpgrade(r)
  PROVE  /\ Ready /\ ~Restoring /\ ~Restoring'
         /\ guard = NoId /\ state.version \in Versions
         /\ \E o \in Ids, t \in Versions :
              /\ state.version < t
              /\ guard' = o
              /\ state' = Row(state.version, o, t)
              /\ state' # NoId
              /\ state'.version = state.version /\ state'.operation = o /\ state'.target = t
         /\ UNCHANGED <<schema, journal, rows, leftover, unchecked>>
<1>1. /\ request[r].version \in Versions /\ request[r].target \in Versions
      /\ request[r].version < request[r].target
  BY CallTypes DEF StartUpgrade, ForwardInv
<1>2. state = ReadyRow(request[r].version) /\ guard = NoId BY DEF StartUpgrade
<1>3. state # NoId /\ state.version = request[r].version /\ state.operation = NoId
  BY <1>1, <1>2, ReadyRowIsThere
<1>4. PICK o \in Ids : guard' = o /\ state' = Row(request[r].version, o, request[r].target)
  BY DEF StartUpgrade
<1>5. /\ state' # NoId /\ state'.version = state.version
      /\ state'.operation = o /\ state'.target = request[r].target
  BY <1>1, <1>3, <1>4, RowIsThere
<1> QED BY <1>1, <1>2, <1>3, <1>4, <1>5 DEF StartUpgrade, Ready, Restoring, historyVars

LEMMA GuardStep ==
  ASSUME CoreInv, GuardInv, [Next]_vars
  PROVE  GuardInv'
<1> USE DEF CoreInv
<1>0. TypeOK /\ NoId \notin Ids /\ StoredInv /\ ForwardInv BY IdAssumption
<1>1. CASE UNCHANGED <<schema, state, guard, journal, rows, acked, request, leftover, unchecked>>
  BY <1>1 DEF GuardInv, Upgrading, Restoring
<1>2. CASE ReplayChunk BY <1>2 DEF GuardInv, ReplayChunk, Upgrading, Restoring, tableVars, historyVars
<1>3. ASSUME NEW r \in Requests, NEW c \in Calls, Continued(r, c)
      PROVE  GuardInv'
  BY <1>3 DEF GuardInv, Continued, Upgrading, Restoring
<1>4. ASSUME NEW r \in Requests, StartUpgrade(r)
      PROVE  GuardInv'
  <2>1. PICK o \in Ids, t \in Versions :
          /\ state.version < t /\ guard' = o /\ state' # NoId
          /\ state'.version = state.version /\ state'.operation = o /\ state'.target = t
    BY <1>0, <1>4, UpgradeStarts
  <2>2. guard = NoId /\ ~Restoring' /\ leftover' = leftover BY <1>0, <1>4, UpgradeStarts
  <2>3. ~leftover' BY <2>2 DEF GuardInv
  <2>4. guard' # NoId /\ Upgrading' BY <1>0, <2>1 DEF Upgrading
  <2> QED BY <2>1, <2>2, <2>3, <2>4 DEF GuardInv
<1>5. ASSUME NEW r \in Requests, ApplyStep(r)
      PROVE  GuardInv'
  <2>1. /\ Upgrading /\ guard \in Ids
        /\ state.version \in Versions /\ state.target \in Versions
        /\ state.version < state.target
        /\ guard' = IF state.version + 1 = state.target THEN NoId ELSE guard
    BY <1>0, <1>5, StepOwned
  <2>2. /\ state' # NoId /\ state'.version = state.version + 1
        /\ state.version + 1 = state.target => state'.operation = NoId
        /\ state.version + 1 # state.target =>
             state'.operation = guard /\ state'.target = state.target
    BY <1>0, <1>5, StepLeaves
  <2>3. ~Restoring' /\ ~leftover'
    BY <1>5, <2>1 DEF GuardInv, ApplyStep, Restoring, historyVars
  <2>4. CASE state.version + 1 = state.target
    <3>1. guard' = NoId /\ ~Upgrading' BY <2>1, <2>2, <2>4 DEF Upgrading
    <3> QED BY <2>3, <3>1 DEF GuardInv
  <2>5. CASE state.version + 1 # state.target
    <3>1. guard' = guard /\ Upgrading' BY <1>0, <2>1, <2>2, <2>5 DEF Upgrading
    <3>2. state.version + 1 < state.target BY <2>1, <2>5 DEF Versions
    <3>3. guard' # NoId /\ guard' = state'.operation BY <1>0, <2>1, <2>2, <2>5, <3>1
    <3> QED BY <2>2, <2>3, <2>5, <3>1, <3>2, <3>3 DEF GuardInv
  <2> QED BY <2>4, <2>5
<1>6. ASSUME NEW r \in Requests, StartRestore(r)
      PROVE  GuardInv'
  <2>1. guard' = guard /\ leftover' = (guard # NoId) BY <1>6 DEF StartRestore
  <2>2. ~Upgrading' BY <1>6 DEF StartRestore, EmptyTables, Upgrading
  <2>3. guard' # NoId <=> leftover' BY <2>1, Zenon
  <2> QED BY <2>2, <2>3 DEF GuardInv
<1>7. ASSUME NEW r \in Requests, StoreChunk(r)
      PROVE  GuardInv'
  <2>1. Restoring /\ guard' = guard /\ leftover' = leftover
    BY <1>7 DEF StoreChunk, AdvanceJournal, historyVars
  <2>2. ~Upgrading BY <1>0, <2>1 DEF StoredInv
  <2>3. request[r].artifact \in Artifacts BY <1>0, <1>7, CallTypes DEF StoreChunk, ChunkCalls
  <2>4. state' = state \/ state' = ReadyRow(Version[request[r].artifact])
    BY <1>7 DEF StoreChunk, InsertChunk
  <2>5. ~Upgrading'
    <3>1. CASE state' = state BY <2>2, <3>1 DEF Upgrading
    <3>2. CASE state' = ReadyRow(Version[request[r].artifact])
      BY <2>3, <3>2, ReadyRowIsThere, VersionAssumption DEF Upgrading
    <3> QED BY <2>4, <3>1, <3>2
  <2> QED BY <2>1, <2>2, <2>5 DEF GuardInv
<1>8. ASSUME NEW r \in Requests, AnswerChunk(r)
      PROVE  GuardInv'
  BY <1>8 DEF GuardInv, AnswerChunk, Upgrading, Restoring, tableVars, historyVars
<1>9. ASSUME NEW r \in Requests, Finalize(r)
      PROVE  GuardInv'
  <2>1. UNCHANGED <<state, guard, leftover>> /\ Restoring BY <1>9 DEF Finalize
  <2>2. ~Upgrading BY <1>0, <2>1 DEF StoredInv
  <2> QED BY <2>1, <2>2 DEF GuardInv, Upgrading
<1> QED BY <1>0, <1>1, <1>2, <1>3, <1>4, <1>5, <1>6, <1>7, <1>8, <1>9, Steps

LEMMA GuardInvariance == Spec => [](CoreInv /\ GuardInv)
<1>1. Init => CoreInv /\ GuardInv
  <2>1. SUFFICES ASSUME Init PROVE CoreInv /\ GuardInv OBVIOUS
  <2>2. PICK a \in Artifacts : state = ReadyRow(Version[a]) BY <2>1, CoreInit
  <2>3. Version[a] \in Versions BY VersionAssumption
  <2>4. state.operation = NoId BY <2>2, <2>3, ReadyRowIsThere
  <2> QED BY <2>1, <2>4, CoreInit DEF GuardInv, Upgrading
<1>2. CoreInv /\ GuardInv /\ [Next]_vars => (CoreInv /\ GuardInv)'
  BY TypeStep, ChunkStep, StoredStep, ForwardStep, GuardStep DEF CoreInv
<1> QED BY <1>1, <1>2, PTL DEF Spec

\* No ready database has a guard table in the way of its next operation but
\* that of an upgrade which a restore ended; an upgrade in progress is guarded
\* by its own operation; and what is in need of recovery is being restored, or
\* is an upgrade, still guarded, that waits for the release it began with.
THEOREM NothingIsStranded == Spec => []NeverStranded
<1>1. ASSUME CoreInv, GuardInv
      PROVE  NeverStranded
  <2>1. Report \in {"up_to_date", "upgrade_required"} => Ready
    BY DEF Report
  <2>2. Report = "in_progress" => Upgrading BY DEF Report, Ready, Upgrading
  <2>3. Report = "recovery_required" /\ ~Restoring => Upgrading BY DEF Report, Ready, Upgrading
  <2>4. Ready => guard = NoId \/ leftover BY <1>1 DEF Ready, Upgrading, GuardInv
  <2>5. Upgrading => guard = state.operation /\ state.version < state.target
    BY <1>1 DEF GuardInv
  <2>6. Report = "recovery_required" /\ ~Restoring => state.target # target
    <3>1. Upgrading /\ ~Restoring /\ state.target = target => Report = "in_progress"
      BY <1>1 DEF Report, Ready, Upgrading, GuardInv
    <3> QED BY <2>3, <3>1
  <2> QED BY <2>1, <2>2, <2>3, <2>4, <2>5, <2>6 DEF NeverStranded
<1> QED BY <1>1, GuardInvariance, PTL

-----------------------------------------------------------------------------
(* The content of a database that is not being restored.                   *)

\* A finalization that passes finds the artifact of the journal, complete.
LEMMA Finalized ==
  ASSUME CoreInv, IsFiniteSet(rows), FinalizeInv, NEW r \in Requests, Finalize(r),
         journal.id = request[r].id
  PROVE  /\ journal.artifact \in Artifacts
         /\ state = ReadyRow(Version[journal.artifact])
         /\ schema = Version[journal.artifact]
         /\ rows = RowsOf(journal.artifact)
<1> DEFINE a == request[r].artifact
<1>1. /\ Restoring /\ request[r].call = "finalize"
      /\ schema = Version[a] /\ Cardinality(rows) = Chunks[a] - 1
  BY DEF Finalize, IsValid
<1>2. journal.artifact = a /\ journal.next = Chunks[a] BY <1>1 DEF FinalizeInv
<1>3. a \in Artifacts /\ Chunks[a] \in Nat /\ Chunks[a] >= 2
  BY <1>1, CallTypes, VersionAssumption DEF CoreInv
<1>4. state = ReadyRow(Version[a]) BY <1>1, <1>2, <1>3 DEF CoreInv, StoredInv
<1>5. RowsOf(a) \subseteq rows
  <2>1. \A k \in 2 .. Chunks[a] : <<a, k>> \in rows BY <1>1, <1>2 DEF CoreInv, StoredInv
  <2> QED BY <2>1 DEF RowsOf
<1>6. Cardinality(RowsOf(a)) = Cardinality(rows) BY <1>1, <1>3, RowsCounted
<1>7. rows = RowsOf(a) BY <1>5, <1>6, FS_Subset
<1> QED BY <1>1, <1>2, <1>3, <1>4, <1>7

LEMMA FinalizeStep ==
  ASSUME CoreInv, FinalizeInv, [Next]_vars
  PROVE  FinalizeInv'
<1> USE DEF CoreInv
<1>0. TypeOK /\ ChunkInv /\ request \in [Requests -> Calls] BY DEF TypeOK
<1>a. ASSUME NEW r \in Requests, request' = [request EXCEPT ![r] = Idle],
             Restoring' => Restoring /\ journal' = journal
      PROVE  FinalizeInv'
  BY <1>0, <1>a DEF FinalizeInv, Idle
<1>1. CASE UNCHANGED <<schema, state, guard, journal, rows, acked, request, leftover, unchecked>>
  BY <1>1 DEF FinalizeInv, Restoring
<1>2. CASE ReplayChunk BY <1>2 DEF FinalizeInv, ReplayChunk, Restoring, tableVars, historyVars
<1>3. ASSUME NEW r \in Requests, NEW c \in Calls, Continued(r, c)
      PROVE  FinalizeInv'
  <2>1. c.call = "finalize" =>
          c.artifact = journal.artifact /\ journal.next = Chunks[journal.artifact]
    <3>1. CASE Checked(c) BY <3>1 DEF Checked
    <3>2. CASE c = Idle BY <3>2 DEF Idle
    <3>3. CASE request[r].call = "count" /\ c = [request[r] EXCEPT !.call = "store"]
      <4>1. request[r] \in Calls BY <1>0
      <4>2. c.call = "store" BY <3>3, <4>1 DEF Calls, Idle, ChunkCalls
      <4> QED BY <4>2
    <3> QED BY <1>3, <3>1, <3>2, <3>3 DEF Continued
  <2> QED BY <1>0, <1>3, <2>1 DEF Continued, FinalizeInv, Restoring
<1>4. ASSUME NEW r \in Requests, StartUpgrade(r) \/ ApplyStep(r) \/ AnswerChunk(r) \/ Finalize(r)
      PROVE  FinalizeInv'
  <2>1. request' = [request EXCEPT ![r] = Idle]
    BY <1>4 DEF StartUpgrade, ApplyStep, AnswerChunk, Finalize, End
  <2>2. Restoring' => Restoring /\ journal' = journal
    BY <1>4 DEF StartUpgrade, ApplyStep, AnswerChunk, Finalize, Restoring, tableVars, historyVars
  <2> QED BY <1>a, <2>1, <2>2
<1>5. ASSUME NEW r \in Requests, StartRestore(r)
      PROVE  FinalizeInv'
  <2>1. PICK i \in Ids \ HeldIds :
          journal' = [id |-> i, artifact |-> request[r].artifact, next |-> 0]
    BY <1>5 DEF StartRestore
  <2>2. request' = [request EXCEPT ![r] = Idle] BY <1>5 DEF StartRestore, End
  <2>3. \A s \in Requests : request[s].call = "finalize" => request[s].id # i
    BY <2>1 DEF HeldIds, RestoreCalls
  <2>4. \A s \in Requests : request'[s].call = "finalize" => request'[s].id # i
    BY <1>0, <2>2, <2>3 DEF Idle
  <2> QED BY <2>1, <2>4 DEF FinalizeInv
<1>6. ASSUME NEW r \in Requests, StoreChunk(r)
      PROVE  FinalizeInv'
  <2> DEFINE c == request[r]
  <2>1. c.call = "store" /\ Restoring BY <1>6 DEF StoreChunk, AdvanceJournal
  <2>2. c.artifact \in Artifacts /\ c.index \in Nat \ {0} /\ c.index <= Chunks[c.artifact]
        /\ Chunks[c.artifact] \in Nat
    BY <1>0, <2>1, CallTypes, VersionAssumption DEF ChunkInv, ChunkCalls
  <2>3. \A s \in Requests : request'[s].call = "finalize" =>
          request[s].call = "finalize" /\ request'[s] = request[s]
    <3>1. request[r] \in Calls BY <1>0
    <3>2. request'[r].call = "answer" BY <1>0, <1>6, <2>1, <3>1 DEF StoreChunk, Calls, Idle, ChunkCalls
    <3> QED BY <1>0, <1>6, <3>2 DEF StoreChunk
  <2>4. CASE journal.id # c.id
    <3>1. journal' = journal BY <1>6, <2>4 DEF StoreChunk, AdvanceJournal
    <3> QED BY <2>1, <2>3, <3>1 DEF FinalizeInv
  <2>5. CASE journal.id = c.id
    <3>1. journal.artifact = c.artifact BY <1>0, <2>1, <2>5 DEF ChunkInv, ChunkCalls
    <3>2. journal.next = c.index - 1 BY <1>6, <2>5 DEF StoreChunk, AdvanceJournal
    <3>3. journal.next # Chunks[journal.artifact] BY <2>2, <3>1, <3>2
    <3>4. \A s \in Requests : request[s].call = "finalize" => journal.id # request[s].id
      BY <2>1, <3>3 DEF FinalizeInv
    <3>5. journal'.id = journal.id
      BY <1>0, <1>6, <2>1, <2>5 DEF StoreChunk, AdvanceJournal, TypeOK, Restoring, Journals
    <3> QED BY <2>3, <3>4, <3>5 DEF FinalizeInv
  <2> QED BY <2>4, <2>5
<1> QED BY <1>0, <1>1, <1>2, <1>3, <1>4, <1>5, <1>6, Steps

LEMMA CompleteStep ==
  ASSUME CoreInv, CompleteInv, [Next]_vars
  PROVE  CompleteInv'
<1> USE DEF CoreInv
<1>0. TypeOK /\ ForwardInv /\ FinalizeInv /\ FinalizeInv' BY FinalizeStep DEF CompleteInv
<1>a. ASSUME UNCHANGED <<schema, state, journal, rows, unchecked>>
      PROVE  CompleteInv'
  BY <1>0, <1>a DEF CompleteInv, Restoring
<1>1. CASE UNCHANGED <<schema, state, guard, journal, rows, acked, request, leftover, unchecked>> BY <1>1, <1>a
<1>2. CASE ReplayChunk BY <1>2, <1>a DEF ReplayChunk, tableVars, historyVars
<1>3. ASSUME NEW r \in Requests, NEW c \in Calls, Continued(r, c)
      PROVE  CompleteInv'
  BY <1>3, <1>a DEF Continued
<1>4. ASSUME NEW r \in Requests, StartUpgrade(r)
      PROVE  CompleteInv'
  <2>1. /\ ~Restoring /\ state' # NoId /\ state'.version = state.version
        /\ UNCHANGED <<schema, journal, rows, unchecked>>
    BY <1>0, <1>4, UpgradeStarts
  <2>2. ~Restoring' BY <2>1 DEF Restoring
  <2>3. schema' = schema /\ rows' = rows /\ unchecked' = unchecked BY <2>1
  <2> QED BY <1>0, <2>1, <2>2, <2>3 DEF CompleteInv
<1>5. ASSUME NEW r \in Requests, ApplyStep(r)
      PROVE  CompleteInv'
  <2>1. /\ Upgrading /\ schema' = NextSchema
        /\ state.version \in Versions /\ state.version + 1 \in Versions
        /\ state' # NoId /\ state'.version = state.version + 1
    BY <1>0, <1>5, StepOwned, StepLeaves
  <2>2. ~Restoring BY <2>1 DEF StoredInv
  <2>3. UNCHANGED <<journal, rows, unchecked>> /\ ~Restoring'
    BY <1>5, <2>2 DEF ApplyStep, Restoring, historyVars
  <2>4. ~unchecked => schema' = state'.version
    <3>1. SUFFICES ASSUME ~unchecked PROVE schema' = state'.version OBVIOUS
    <3>2. state.version = schema BY <2>2, <3>1 DEF CompleteInv
    <3> QED BY <2>1, <3>2, VersionAssumption DEF NextSchema, Versions
  <2> QED BY <1>0, <2>1, <2>2, <2>3, <2>4 DEF CompleteInv
<1>6. ASSUME NEW r \in Requests, StartRestore(r)
      PROVE  CompleteInv'
  <2>1. PICK i \in Ids : journal' = [id |-> i, artifact |-> request[r].artifact, next |-> 0]
    BY <1>6 DEF StartRestore
  <2>2. request[r].artifact \in Artifacts BY <1>0, <1>6, CallTypes DEF StartRestore
  <2>3. journal' \in Journals BY <2>1, <2>2 DEF Journals
  <2>4. Restoring' BY <2>3, IdAssumption DEF Restoring
  <2>5. rows' = {} /\ ~unchecked' BY <1>6 DEF StartRestore, EmptyTables
  <2> QED BY <1>0, <2>4, <2>5, FS_EmptySet DEF CompleteInv
<1>7. ASSUME NEW r \in Requests, StoreChunk(r)
      PROVE  CompleteInv'
  <2>1. Restoring' /\ Restoring
    <3>1. Restoring BY <1>7 DEF StoreChunk, AdvanceJournal
    <3>2. journal \in Journals BY <3>1 DEF TypeOK, Restoring
    <3>3. request[r].index \in Nat BY <1>0, <1>7, CallTypes DEF StoreChunk, ChunkCalls
    <3>4. journal' \in Journals BY <1>7, <3>2, <3>3 DEF StoreChunk, AdvanceJournal, Journals
    <3> QED BY <3>1, <3>4, IdAssumption DEF Restoring
  <2>2. rows' = rows \/ rows' = rows \cup {<<request[r].artifact, request[r].index>>}
    BY <1>7 DEF StoreChunk, InsertChunk
  <2>3. IsFiniteSet(rows') BY <2>2, FS_AddElement DEF CompleteInv
  <2>4. unchecked' = unchecked BY <1>7 DEF StoreChunk, historyVars
  <2> QED BY <1>0, <2>1, <2>3, <2>4 DEF CompleteInv
<1>8. ASSUME NEW r \in Requests, AnswerChunk(r)
      PROVE  CompleteInv'
  BY <1>8, <1>a DEF AnswerChunk, tableVars, historyVars
<1>9. ASSUME NEW r \in Requests, Finalize(r)
      PROVE  CompleteInv'
  <2>1. UNCHANGED <<schema, state, rows>> /\ ~Restoring' BY <1>9 DEF Finalize, Restoring
  <2>2. CASE journal.id = request[r].id
    <3>1. /\ journal.artifact \in Artifacts
          /\ state = ReadyRow(Version[journal.artifact])
          /\ schema = Version[journal.artifact]
          /\ rows = RowsOf(journal.artifact)
      BY <1>9, <2>2, Finalized DEF CompleteInv
    <3>2. state # NoId /\ state.version = schema
      BY <3>1, ReadyRowIsThere, VersionAssumption
    <3> QED BY <1>0, <2>1, <3>1, <3>2 DEF CompleteInv
  <2>3. CASE journal.id # request[r].id
    <3>1. unchecked' BY <1>9, <2>3 DEF Finalize
    <3> QED BY <1>0, <2>1, <3>1 DEF CompleteInv
  <2> QED BY <2>2, <2>3
<1> QED BY <1>0, <1>1, <1>2, <1>3, <1>4, <1>5, <1>6, <1>7, <1>8, <1>9, Steps

LEMMA CompleteInvariance == Spec => [](CoreInv /\ CompleteInv)
<1>1. Init => CoreInv /\ CompleteInv
  <2>1. SUFFICES ASSUME Init PROVE CoreInv /\ CompleteInv OBVIOUS
  <2>2. PICK a \in Artifacts :
          state = ReadyRow(Version[a]) /\ schema = Version[a] /\ rows = RowsOf(a)
    BY <2>1, CoreInit
  <2>3. state # NoId /\ state.version = schema BY <2>2, ReadyRowIsThere, VersionAssumption
  <2>4. CoreInv /\ ~Restoring BY <2>1, CoreInit
  <2>5. IsFiniteSet(rows) BY <2>2, RowsCounted
  <2> QED BY <2>2, <2>3, <2>4, <2>5 DEF CompleteInv, FinalizeInv
<1>2. CoreInv /\ CompleteInv /\ [Next]_vars => (CoreInv /\ CompleteInv)'
  BY TypeStep, ChunkStep, StoredStep, ForwardStep, CompleteStep DEF CoreInv
<1> QED BY <1>1, <1>2, PTL DEF Spec

\* A database outside a restore records the version that its tables have,
\* however steps of an upgrade are repeated, resumed or taken over, unless the
\* restore before was ended by a finalization that had checked another one.
THEOREM RecordedVersionIsTrue == Spec => []SchemaMatchesVersion
<1>1. CompleteInv => SchemaMatchesVersion BY DEF CompleteInv, SchemaMatchesVersion
<1> QED BY <1>1, CompleteInvariance, PTL

-----------------------------------------------------------------------------
(* The detailed database implements the abstract life cycle.               *)

AllInv == CoreInv /\ GuardInv /\ CompleteInv

\* Outside a restore the content is the artifact whose rows are stored.
LEMMA ContentIs ==
  ASSUME NEW a \in Artifacts, rows = RowsOf(a), ~Restoring, ~unchecked
  PROVE  Content = a
<1>1. \A b \in Artifacts : rows = RowsOf(b) => b = a BY RowsIdentify
<1> QED BY <1>1 DEF Content

LEMMA ContentIsNext ==
  ASSUME NEW a \in Artifacts, rows' = RowsOf(a), ~Restoring', ~unchecked'
  PROVE  Content' = a
<1>1. \A b \in Artifacts : rows' = RowsOf(b) => b = a BY RowsIdentify
<1> QED BY <1>1 DEF Content

\* While a restore goes on, or after one that was not checked, only what it
\* restores and what it blocks is seen.
LEMMA RestoringView ==
  ASSUME Restoring
  PROVE  /\ Phase = "restoring" /\ RecordedVersion = 0 /\ Goal = 0
         /\ Content = journal.artifact
BY DEF Phase, RecordedVersion, Goal, Content

LEMMA UncheckedView ==
  ASSUME ~Restoring, unchecked
  PROVE  Phase = "unchecked" /\ RecordedVersion = 0 /\ Goal = 0 /\ Content = NoId
BY DEF Phase, RecordedVersion, Goal, Content

\* An upgrade is seen by its version and its target, a ready database by its
\* version.
LEMMA UpgradingView ==
  ASSUME ~Restoring, ~unchecked, Upgrading
  PROVE  Phase = "upgrading" /\ RecordedVersion = state.version /\ Goal = state.target
BY DEF Phase, RecordedVersion, Goal, Upgrading

LEMMA ReadyView ==
  ASSUME ~Restoring, ~unchecked, state # NoId, ~Upgrading
  PROVE  Phase = "ready" /\ RecordedVersion = state.version /\ Goal = 0
BY DEF Phase, RecordedVersion, Goal

LEMMA LifecycleInit ==
  ASSUME Init
  PROVE  Lifecycle!Init
<1>1. PICK a \in Artifacts :
        state = ReadyRow(Version[a]) /\ schema = Version[a] /\ rows = RowsOf(a)
  BY CoreInit
<1>2. ~Restoring /\ leftover = FALSE /\ ~unchecked BY CoreInit DEF Init
<1>3. state # NoId /\ state.version = Version[a] /\ ~Upgrading
  BY <1>1, ReadyRowIsThere, VersionAssumption DEF Upgrading
<1>4. Content = a BY <1>1, <1>2, ContentIs
<1> QED BY <1>2, <1>3, <1>4, ReadyView DEF Lifecycle!Init

\* The steps that the life cycle does not see.
LEMMA LifecycleStutters ==
  ASSUME UNCHANGED <<state, journal, rows, leftover, unchecked>>
  PROVE  UNCHANGED Lifecycle!vars
BY DEF Lifecycle!vars, Phase, RecordedVersion, Goal, Content, Restoring, Upgrading

LEMMA LifecycleUpgrade ==
  ASSUME AllInv, NEW r \in Requests, StartUpgrade(r) \/ ApplyStep(r)
  PROVE  [Lifecycle!Next]_Lifecycle!vars
<1> USE DEF AllInv, CoreInv
<1>0. TypeOK /\ StoredInv /\ ForwardInv /\ NoId \notin Ids BY IdAssumption
<1>1. /\ ~Restoring /\ ~Restoring'
      /\ UNCHANGED <<journal, rows, leftover, unchecked>>
  <2>1. CASE StartUpgrade(r) BY <1>0, <2>1, UpgradeStarts
  <2>2. CASE ApplyStep(r)
    BY <1>0, <2>2, StepOwned DEF StoredInv, ApplyStep, Restoring, historyVars
  <2> QED BY <2>1, <2>2
<1>2. CASE unchecked
  <2>1. UNCHANGED <<Phase, RecordedVersion, Goal, Content>>
    <3>1. Phase = "unchecked" /\ RecordedVersion = 0 /\ Goal = 0 /\ Content = NoId
      BY <1>1, <1>2, UncheckedView
    <3>2. Phase' = "unchecked" /\ RecordedVersion' = 0 /\ Goal' = 0 /\ Content' = NoId
      BY <1>1, <1>2 DEF Phase, RecordedVersion, Goal, Content
    <3> QED BY <3>1, <3>2
  <2> QED BY <1>1, <2>1 DEF Lifecycle!vars
<1>3. CASE ~unchecked
  <2>1. Content' = Content BY <1>1 DEF Content
  <2>2. ASSUME StartUpgrade(r)
        PROVE  Lifecycle!StartUpgrade
    <3>1. PICK o \in Ids, t \in Versions :
            /\ state.version < t /\ state' # NoId
            /\ state'.version = state.version /\ state'.operation = o /\ state'.target = t
      BY <1>0, <2>2, UpgradeStarts
    <3>2. Ready /\ guard = NoId /\ state.version \in Versions BY <1>0, <2>2, UpgradeStarts
    <3>3. Phase = "ready" /\ RecordedVersion = state.version
      BY <1>1, <1>3, <3>2, ReadyView DEF Ready, Upgrading
    <3>4. Phase' = "upgrading" /\ RecordedVersion' = state.version /\ Goal' = t
      BY <1>0, <1>1, <1>3, <3>1 DEF Phase, RecordedVersion, Goal, Upgrading
    <3>5. ~leftover BY <3>2 DEF GuardInv
    <3>6. t \in state.version + 1 .. Newest BY <3>1, <3>2, VersionAssumption DEF Versions
    <3> QED BY <1>1, <2>1, <3>3, <3>4, <3>5, <3>6 DEF Lifecycle!StartUpgrade
  <2>3. ASSUME ApplyStep(r)
        PROVE  Lifecycle!Upgrade
    <3>1. /\ Upgrading /\ guard \in Ids /\ state.version \in Versions
          /\ state.target \in Versions /\ state.version < state.target
      BY <1>0, <2>3, StepOwned
    <3>2. /\ state' # NoId /\ state'.version = state.version + 1
          /\ state.version + 1 = state.target => state'.operation = NoId
          /\ state.version + 1 # state.target =>
               state'.operation = guard /\ state'.target = state.target
      BY <1>0, <2>3, StepLeaves
    <3>3. /\ Phase = "upgrading" /\ RecordedVersion = state.version
          /\ Goal = state.target
      BY <1>1, <1>3, <3>1, UpgradingView
    <3>4. CASE state.version + 1 = state.target
      <4>1. Phase' = "ready" /\ RecordedVersion' = state.version + 1 /\ Goal' = 0
        BY <1>1, <1>3, <3>2, <3>4 DEF Phase, RecordedVersion, Goal, Upgrading
      <4> QED BY <1>1, <2>1, <3>3, <3>4, <4>1 DEF Lifecycle!Upgrade
    <3>5. CASE state.version + 1 # state.target
      <4>1. /\ Phase' = "upgrading" /\ RecordedVersion' = state.version + 1
            /\ Goal' = state.target
        BY <1>0, <1>1, <1>3, <3>1, <3>2, <3>5 DEF Phase, RecordedVersion, Goal, Upgrading
      <4>2. state.version + 1 < state.target BY <3>1, <3>5 DEF Versions
      <4> QED BY <1>1, <2>1, <3>3, <4>1, <4>2 DEF Lifecycle!Upgrade
    <3> QED BY <3>4, <3>5
  <2> QED BY <2>2, <2>3 DEF Lifecycle!Next
<1> QED BY <1>2, <1>3

LEMMA LifecycleRestore ==
  ASSUME AllInv, NEW r \in Requests, StartRestore(r)
  PROVE  Lifecycle!StartRestore
<1> USE DEF AllInv, CoreInv
<1>0. TypeOK /\ StoredInv /\ NoId \notin Ids BY IdAssumption
<1>1. PICK i \in Ids : journal' = [id |-> i, artifact |-> request[r].artifact, next |-> 0]
  BY DEF StartRestore
<1>2. request[r].artifact \in Artifacts BY <1>0, CallTypes DEF StartRestore
<1>3. journal' \in Journals /\ journal'.artifact = request[r].artifact
  BY <1>1, <1>2 DEF Journals
<1>4. Restoring' BY <1>3, IdAssumption DEF Restoring
<1>5. /\ Phase' = "restoring" /\ RecordedVersion' = 0 /\ Goal' = 0
      /\ Content' = request[r].artifact
  BY <1>3, <1>4 DEF Phase, RecordedVersion, Goal, Content
<1>6. leftover' = (guard # NoId) BY DEF StartRestore
<1>7. \/ Phase \in {"ready", "restoring"} /\ leftover' = leftover
      \/ Phase = "upgrading" /\ leftover' = TRUE
      \/ Phase = "unchecked" /\ leftover' \in {leftover, TRUE}
  <2>1. ~Upgrading => leftover' = leftover
    <3>1. SUFFICES ASSUME ~Upgrading PROVE leftover' = leftover OBVIOUS
    <3>2. guard # NoId <=> leftover BY <3>1 DEF GuardInv
    <3>3. leftover \in BOOLEAN BY <1>0 DEF TypeOK
    <3> QED BY <1>6, <3>2, <3>3, Zenon
  <2>2. Upgrading => leftover' = TRUE
    <3>1. SUFFICES ASSUME Upgrading PROVE leftover' = TRUE OBVIOUS
    <3>2. guard # NoId BY <3>1 DEF GuardInv
    <3> QED BY <1>6, <3>2, Zenon
  <2>3. Phase = "upgrading" => Upgrading BY DEF Phase
  <2>4. Phase \in {"ready", "restoring"} => ~Upgrading BY DEF Phase, StoredInv
  <2>5. Phase \in {"ready", "restoring", "upgrading", "unchecked"} BY DEF Phase
  <2> QED BY <2>1, <2>2, <2>3, <2>4, <2>5
<1> QED BY <1>2, <1>5, <1>7 DEF Lifecycle!StartRestore

LEMMA LifecycleChunk ==
  ASSUME AllInv, NEW r \in Requests, StoreChunk(r)
  PROVE  UNCHANGED Lifecycle!vars
<1> USE DEF AllInv, CoreInv
<1>1. Restoring BY DEF StoreChunk, AdvanceJournal
<1>2. journal \in Journals BY <1>1 DEF TypeOK, Restoring
<1>3. request[r].index \in Nat BY CallTypes DEF StoreChunk, ChunkCalls
<1>4. journal' \in Journals /\ journal'.artifact = journal.artifact
  BY <1>2, <1>3 DEF StoreChunk, AdvanceJournal, Journals
<1>5. Restoring' BY <1>4, IdAssumption DEF Restoring
<1>6. UNCHANGED <<leftover, unchecked>> BY DEF StoreChunk, historyVars
<1> QED BY <1>1, <1>4, <1>5, <1>6 DEF Lifecycle!vars, Phase, RecordedVersion, Goal, Content

LEMMA LifecycleFinalize ==
  ASSUME AllInv, NEW r \in Requests, Finalize(r)
  PROVE  Lifecycle!FinishRestore \/ Lifecycle!FinishUnchecked
<1> USE DEF AllInv, CoreInv
<1> DEFINE a == journal.artifact
<1>1. Restoring /\ ~Restoring' /\ UNCHANGED <<state, rows, leftover>>
  BY DEF Finalize, Restoring
<1>2. Phase = "restoring" /\ RecordedVersion = 0 /\ Goal = 0 /\ Content = a
  BY <1>1, RestoringView
<1>3. ASSUME journal.id = request[r].id
      PROVE  Lifecycle!FinishRestore
  <2>1. a \in Artifacts /\ state = ReadyRow(Version[a]) /\ rows = RowsOf(a)
    BY <1>3, Finalized DEF CompleteInv
  <2>2. ~unchecked' BY <1>3 DEF Finalize
  <2>3. state # NoId /\ state.version = Version[a] /\ state.operation = NoId
    BY <2>1, ReadyRowIsThere, VersionAssumption
  <2>4. Phase' = "ready" /\ RecordedVersion' = Version[a] /\ Goal' = 0
    BY <1>1, <2>2, <2>3 DEF Phase, RecordedVersion, Goal, Upgrading
  <2>5. Content' = a BY <1>1, <2>1, <2>2, ContentIsNext
  <2> QED BY <1>1, <1>2, <2>4, <2>5 DEF Lifecycle!FinishRestore
<1>4. ASSUME journal.id # request[r].id
      PROVE  Lifecycle!FinishUnchecked
  <2>1. unchecked' BY <1>4 DEF Finalize
  <2>2. Phase' = "unchecked" /\ RecordedVersion' = 0 /\ Goal' = 0 /\ Content' = NoId
    BY <1>1, <2>1 DEF Phase, RecordedVersion, Goal, Content
  <2> QED BY <1>1, <1>2, <2>2 DEF Lifecycle!FinishUnchecked
<1> QED BY <1>3, <1>4

LEMMA LifecycleStep ==
  ASSUME AllInv, [Next]_vars
  PROVE  [Lifecycle!Next]_Lifecycle!vars
<1>0. TypeOK BY DEF AllInv, CoreInv
<1>1. CASE UNCHANGED <<schema, state, guard, journal, rows, acked, request, leftover, unchecked>>
  BY <1>1, LifecycleStutters
<1>2. CASE ReplayChunk BY <1>2, LifecycleStutters DEF ReplayChunk, tableVars, historyVars
<1>3. ASSUME NEW r \in Requests, NEW c \in Calls, Continued(r, c)
      PROVE  UNCHANGED Lifecycle!vars
  BY <1>3, LifecycleStutters DEF Continued
<1>4. ASSUME NEW r \in Requests, AnswerChunk(r)
      PROVE  UNCHANGED Lifecycle!vars
  BY <1>4, LifecycleStutters DEF AnswerChunk, tableVars, historyVars
<1> QED BY <1>0, <1>1, <1>2, <1>3, <1>4, Steps, LifecycleUpgrade, LifecycleRestore,
           LifecycleChunk, LifecycleFinalize DEF Lifecycle!Next

\* The upgrade and the restore implement the life cycle, whatever windows do
\* and whichever releases are deployed between their requests: a database
\* outside a restore holds one artifact, complete, at the version that its
\* upgrade has reached, a restore that ends an upgrade blocks all later ones,
\* and only a finalization that had checked another restore leaves the
\* content unknown.
THEOREM LifecycleImplemented == Spec => ImplementsLifecycle
<1>1. Spec => []AllInv
  BY GuardInvariance, CompleteInvariance, PTL DEF AllInv
<1>2. AllInv /\ [Next]_vars => [Lifecycle!Next]_Lifecycle!vars
  BY LifecycleStep
<1>3. Init => Lifecycle!Init BY LifecycleInit
<1> QED BY <1>1, <1>2, <1>3, PTL DEF Spec, ImplementsLifecycle, Lifecycle!Spec
=============================================================================

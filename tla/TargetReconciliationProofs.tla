---------------------- MODULE TargetReconciliationProofs ----------------------
(***************************************************************************)
(* Proofs about TargetReconciliation, for any number of targets, requests, *)
(* operations, comments and content writes.  Four theorems assume that no  *)
(* content is written while a request runs (QuietSteps), the other two that*)
(* cache revisions do not run out (RevisionsSuffice).                      *)
(***************************************************************************)
EXTENDS TargetReconciliation, FiniteSetTheorems, SequenceTheorems, TLAPS

-----------------------------------------------------------------------------
(* Types, for any revisions and comments *)

IsRow(r) ==
  /\ r = [target |-> r.target, value |-> r.value, revision |-> r.revision, comments |-> r.comments]
  /\ r.target \in Targets
  /\ r.value \in Values

\* Rows by id.
AreRows(f) ==
  /\ DOMAIN f \subseteq Nat \ {0}
  /\ IsFiniteSet(DOMAIN f)
  /\ \A i \in DOMAIN f : IsRow(f[i])

\* The Edge database has at most one row of a target.
EdgeInv ==
  /\ AreRows(edge)
  /\ \A i, j \in DOMAIN edge : edge[i].target = edge[j].target => i = j

Busy(w) == pc[w] \notin {"idle", "lost"}

PurgeSteps == {"listed", "absent", "unchanged", "delete", "unlist"}
ScanSteps == {"scanned", "found", "counted"}

\* What a stored or remembered operation looks like; before its drain has ended
\* the cursors are where they started.
IsOperation(s) ==
  /\ s \in States
  /\ s.op \in Operations
  /\ s.phase \in Phases
  /\ s.phase = "drain_outbox" => s.cursor = 0 /\ s.edgeCursor = 0

\* What a request carries.
CarriesRows(w) ==
  /\ pc[w] = "sync" =>
       /\ DOMAIN page[w] \subseteq Targets
       /\ \A t \in DOMAIN page[w] : page[w][t] \in Values
  /\ pc[w] \in ScanSteps \cup PurgeSteps => AreRows(page[w])
  /\ pc[w] \in PurgeSteps => DOMAIN page[w] # {}
  /\ pc[w] \notin {"sync"} \cup ScanSteps \cup PurgeSteps => page[w] = Empty

\* The phase in which a request does what it does.
IsInPhase(w) ==
  /\ pc[w] = "step" => view[w].phase # "orphan_review"
  /\ pc[w] = "sync" => view[w].phase \in {"sync_posts", "sync_pages"}
  /\ pc[w] \in ScanSteps => view[w].phase = "scan_orphans"
  /\ pc[w] \in PurgeSteps \cup {"purge", "finalize"} => view[w].phase = "orphan_review"

\* The requests that are about to store another row.
Advances(w) == pc[w] \in {"sync", "advance"} \cup ScanSteps

RequestOf(w) ==
  /\ Busy(w) => IsOperation(view[w])
  /\ ~ Busy(w) => view[w] = NoOperation
  /\ Advances(w) => IsOperation(after[w]) /\ after[w].op = view[w].op
  /\ IsInPhase(w)
  /\ CarriesRows(w)

RequestInv == \A w \in Workers : RequestOf(w)

Activations == [running : BOOLEAN, matched : SUBSET Targets, missed : SUBSET Targets]

CoreTypes ==
  /\ content \in [Targets -> Values \cup {NoRow}]
  /\ tracked \in BOOLEAN
  /\ queue \in [Targets -> Seq(Values \cup {NoRow})]
  /\ replayed \subseteq {t \in Targets : queue[t] # << >>}
  /\ state = NoOperation \/ IsOperation(state)
  /\ AreRows(orphans)
  /\ state = NoOperation => orphans = Empty
  /\ posted \subseteq Comments
  /\ pc \in [Workers -> Steps]
  /\ view \in [Workers -> States]
  /\ after \in [Workers -> States]
  /\ DOMAIN page = Workers
  /\ checks \in [Workers -> SUBSET Conditions]
  /\ activation \in Activations
  /\ writes \in Nat
  /\ switches \in Nat
  /\ disturbed \in BOOLEAN
  /\ overtaken \subseteq Targets
  /\ state = NoOperation => ~ disturbed

CoreInv == CoreTypes /\ EdgeInv /\ RequestInv

-----------------------------------------------------------------------------
(* Content, while requests run *)

\* A page of content under way is the content, and a target that was looked up
\* is still missing.
ContentInv ==
  \A w \in Workers :
    /\ pc[w] = "sync" =>
         \A t \in DOMAIN page[w] : content[t] # NoRow /\ page[w][t] = content[t]
    /\ pc[w] \in {"absent", "unchanged", "delete"} => content[Snapshot(w).target] = NoRow

\* Without a pending projection, a target is equal on both sides.
Even(t) == queue[t] = << >> => Mirrored(t) = content[t]

\* The pending projections of a target end with its content, and the last one
\* is in the Edge database once it was replayed.
OnTheWay(t) ==
  /\ queue[t] # << >> => queue[t][Len(queue[t])] = content[t]
  /\ t \in replayed /\ Len(queue[t]) = 1 => Mirrored(t) = queue[t][1]

TrackOf(t) == Even(t) /\ OnTheWay(t)

\* While a request compares the targets to enable the integration, nothing is
\* pending and those that matched go on doing so, but for the missed ones.
TrackInv ==
  /\ tracked => \A t \in Targets \ activation.missed : TrackOf(t)
  /\ activation.running =>
       /\ ~ tracked /\ NothingPending
       /\ \A t \in activation.matched \ activation.missed : Mirrored(t) = content[t]

\* Is request w one of the operation that is stored?
Current(w) == Busy(w) /\ view[w].op = state.op

Drained(s) == s.phase \in Phases \ {"drain_outbox"}

\* Has somebody found the outbox empty for the operation that is stored?
DrainSeen ==
  \/ Drained(state)
  \/ \E w \in Workers :
       Current(w) /\ (Drained(view[w]) \/ (Advances(w) /\ Drained(after[w])))

\* What came to the outbox after its drain was written with its content.
DrainInv ==
  DrainSeen =>
    /\ ~ disturbed => NothingPending
    /\ \A t \in Targets \ overtaken : OnTheWay(t)

\* The targets of T are equal on both sides unless a projection is pending.
Settled(T) == \A t \in T \ overtaken : Even(t)

\* What a completion has found to hold still holds; other requests have found
\* nothing.
FinalizeOf(w) ==
  /\ pc[w] # "finalize" => checks[w] = {}
  /\ pc[w] = "finalize" =>
       /\ "pending" \in checks[w] => NothingPending
       /\ Current(w) =>
            /\ "posts" \in checks[w] => Settled(Posts)
            /\ "pages" \in checks[w] => Settled(Pages)

FinalizeInv == \A w \in Workers : FinalizeOf(w)

-----------------------------------------------------------------------------
(* The cursors *)

PassedBy(s) ==
  CASE s.phase = "sync_posts" -> {t \in Posts : t <= s.cursor}
    [] s.phase = "sync_pages" -> Posts \cup {t \in Pages : t <= s.cursor}
    [] s.phase \in {"scan_orphans", "orphan_review"} -> Targets
    [] OTHER -> {}

\* Every Post or Page that s has gone past is mirrored, but for those of rows.
SyncedTo(s, rows) ==
  \A t \in PassedBy(s) \ rows : content[t] # NoRow => Mirrored(t) = content[t]

IsOrphan(i) == i \in DOMAIN edge /\ content[edge[i].target] = NoRow

ScannedBy(s, i) == s.phase = "orphan_review" \/ i <= s.edgeCursor

\* Every orphan that s has gone past is listed, but for those of rows.
ListedTo(s, rows) ==
  \A i \in DOMAIN edge : ScannedBy(s, i) /\ IsOrphan(i) =>
    i \in DOMAIN orphans \/ (i \in DOMAIN rows /\ rows[i].target = edge[i].target)

Missing(rows) == \A i \in DOMAIN rows : content[rows[i].target] = NoRow

StepKeeps(w) ==
  /\ SyncedTo(view[w], {}) /\ ListedTo(view[w], Empty)
  /\ Advances(w) =>
       /\ SyncedTo(after[w], IF pc[w] = "sync" THEN DOMAIN page[w] ELSE {})
       /\ ListedTo(after[w], IF pc[w] \in ScanSteps THEN page[w] ELSE Empty)
  /\ pc[w] \in {"found", "counted", "listed"} => Missing(page[w])
  /\ pc[w] = "unlist" => ~ IsOrphan(Chosen(w))

CursorInv ==
  ~ disturbed =>
    /\ SyncedTo(state, {}) /\ ListedTo(state, Empty)
    /\ Missing(orphans)
    /\ \A w \in Workers : Current(w) => StepKeeps(w)

-----------------------------------------------------------------------------
(* Remembered rows *)

\* While the row with id i carries the revision of r, the comments of r are there.
Remembers(r, i) ==
  i \in DOMAIN edge /\ edge[i].target = r.target /\ edge[i].revision = r.revision =>
    r.comments \subseteq edge[i].comments

RememberInv ==
  /\ \A i \in DOMAIN orphans : Remembers(orphans[i], i)
  /\ \A w \in Workers : pc[w] # "sync" =>
       \A i \in DOMAIN page[w] : Remembers(page[w][i], i)

-----------------------------------------------------------------------------
(* Pages of numbers *)

Rank(S, s) == Cardinality({t \in S : t <= s})

\* The members of a set of numbers are ranked from 1 on, in their order.
LEMMA RanksInOrder ==
  ASSUME NEW S \in SUBSET Nat, IsFiniteSet(S)
  PROVE  /\ \A s \in S : Rank(S, s) \in 1 .. Cardinality(S)
         /\ \A s, t \in S : s < t <=> Rank(S, s) < Rank(S, t)
         /\ \A k \in 1 .. Cardinality(S) : \E s \in S : Rank(S, s) = k
  <1> DEFINE Upto(s) == {t \in S : t <= s}
  <1>n. Cardinality(S) \in Nat /\ 1 .. Cardinality(S) \subseteq Nat
    BY FS_CardinalityType
  <1>1. \A s \in S : Rank(S, s) \in 1 .. Cardinality(S) /\ IsFiniteSet(Upto(s))
    <2> TAKE s \in S
    <2>1. Upto(s) \in SUBSET S /\ s \in Upto(s)
      OBVIOUS
    <2> HIDE DEF Upto
    <2>2. /\ IsFiniteSet(Upto(s)) /\ Cardinality(Upto(s)) <= Cardinality(S)
          /\ Cardinality(Upto(s)) \in Nat /\ Cardinality(Upto(s)) # 0
      BY <2>1, FS_Subset, FS_CardinalityType, FS_EmptySet
    <2>3. Rank(S, s) = Cardinality(Upto(s))
      BY DEF Rank, Upto
    <2> QED BY <1>n, <2>2, <2>3
  <1>2. ASSUME NEW s \in S, NEW t \in S, s < t PROVE Rank(S, s) < Rank(S, t)
    <2>0. s \in Nat /\ t \in Nat
      OBVIOUS
    <2>1. Upto(s) \in SUBSET Upto(t) /\ t \in Upto(t) /\ t \notin Upto(s)
      <3>1. t <= t /\ ~ (t <= s) /\ \A u \in Nat : u <= s => u <= t
        BY <1>2, <2>0
      <3> QED BY <3>1
    <2>2. Rank(S, s) = Cardinality(Upto(s)) /\ Rank(S, t) = Cardinality(Upto(t))
      BY DEF Rank
    <2> HIDE DEF Upto
    <2>3. /\ Cardinality(Upto(s)) <= Cardinality(Upto(t))
          /\ Cardinality(Upto(s)) # Cardinality(Upto(t))
      BY <1>1, <2>1, FS_Subset
    <2> QED BY <1>1, <1>n, <2>2, <2>3
  <1>3. \A s, t \in S : s < t <=> Rank(S, s) < Rank(S, t)
    <2> TAKE s, t \in S
    <2>1. s \in Nat /\ t \in Nat /\ Rank(S, s) \in Nat /\ Rank(S, t) \in Nat
      <3> HIDE DEF Upto
      <3> QED BY <1>1, <1>n
    <2>2. s < t \/ t < s \/ s = t
      BY <2>1
    <2> QED BY <1>2, <2>1, <2>2
  <1>4. \A k \in 1 .. Cardinality(S) : \E s \in S : Rank(S, s) = k
    <2> DEFINE rank == [s \in S |-> Rank(S, s)]
    <2>1. rank \in [S -> 1 .. Cardinality(S)]
      BY <1>1
    <2>2. ASSUME NEW s \in S, NEW t \in S, rank[s] = rank[t] PROVE s = t
      <3>1. s \in Nat /\ t \in Nat /\ Rank(S, s) \in Nat /\ Rank(S, t) \in Nat
        <4> HIDE DEF Upto
        <4> QED BY <1>1, <1>n
      <3>2. Rank(S, s) = Rank(S, t)
        BY <2>2
      <3> QED BY <1>2, <3>1, <3>2
    <2>3. rank \in Injection(S, 1 .. Cardinality(S))
      BY <2>1, <2>2 DEF Injection, IsInjective
    <2>4. /\ IsFiniteSet(1 .. Cardinality(S))
          /\ Cardinality(1 .. Cardinality(S)) = Cardinality(S)
      BY <1>n, FS_Interval
    <2> HIDE DEF rank
    <2>5. rank \in Surjection(S, 1 .. Cardinality(S))
      BY <2>3, <2>4, FS_Injection
    <2>6. \A k \in 1 .. Cardinality(S) : \E s \in S : rank[s] = k
      BY <2>5 DEF Surjection
    <2> QED BY <2>6 DEF rank
  <1> QED BY <1>1, <1>3, <1>4

\* A set of numbers that is not empty has a least and a greatest member.
LEMMA Extremes ==
  ASSUME NEW S \in SUBSET Nat, IsFiniteSet(S), S # {}
  PROVE  /\ \E s \in S : \A t \in S : s <= t
         /\ Max(S) \in S
         /\ \A t \in S : t <= Max(S)
  <1>n. Cardinality(S) \in Nat /\ Cardinality(S) # 0
    BY FS_CardinalityType, FS_EmptySet
  <1>r. \A t \in S : Rank(S, t) \in 1 .. Cardinality(S)
    BY RanksInOrder
  <1>1. \E s \in S : \A t \in S : s <= t
    <2>1. PICK s \in S : Rank(S, s) = 1
      BY <1>n, RanksInOrder
    <2>2. ASSUME NEW t \in S PROVE ~ (t < s)
      <3>1. t < s => Rank(S, t) < Rank(S, s)
        BY RanksInOrder
      <3> QED BY <1>n, <1>r, <2>1, <3>1
    <2> QED BY <2>2
  <1>2. \E s \in S : \A t \in S : t <= s
    <2>1. PICK s \in S : Rank(S, s) = Cardinality(S)
      BY <1>n, RanksInOrder
    <2>2. ASSUME NEW t \in S PROVE ~ (s < t)
      <3>1. s < t => Rank(S, s) < Rank(S, t)
        BY RanksInOrder
      <3> QED BY <1>n, <1>r, <2>1, <3>1
    <2> QED BY <2>2
  <1>3. \E s \in S : \A t \in S : s >= t
    BY <1>2
  <1>4. Max(S) \in S /\ \A t \in S : Max(S) >= t
    BY <1>3 DEF Max
  <1> QED BY <1>1, <1>4

\* The values of a function on a finite set are finitely many.
LEMMA ImageIsFinite ==
  ASSUME NEW S, IsFiniteSet(S), NEW f
  PROVE  IsFiniteSet({f[x] : x \in S})
  <1> DEFINE g == [x \in S |-> f[x]]
             T == {f[x] : x \in S}
  <1>1. g \in Surjection(S, T)
    <2>1. g \in [S -> T] /\ \A y \in T : \E x \in S : g[x] = y
      OBVIOUS
    <2> QED BY <2>1 DEF Surjection
  <1> HIDE DEF g, T
  <1>2. IsFiniteSet(T)
    BY <1>1, FS_Surjection
  <1> QED BY <1>2 DEF T

\* A page that is not full is the whole set; any page has all members up to
\* its last one.
LEMMA PageOfNumbers ==
  ASSUME NEW S \in SUBSET Nat, IsFiniteSet(S)
  PROVE  /\ FirstOf(S) \in SUBSET S /\ IsFiniteSet(FirstOf(S))
         /\ Cardinality(FirstOf(S)) < BatchSize => FirstOf(S) = S
         /\ ~ (Cardinality(FirstOf(S)) < BatchSize) => FirstOf(S) # {}
         /\ \A s \in S, t \in FirstOf(S) : s <= t => s \in FirstOf(S)
  <1> DEFINE Below(s) == {t \in S : t < s}
  <1>b. BatchSize \in Nat \ {0}
    BY BoundAssumption
  <1>1. FirstOf(S) = {s \in S : Cardinality(Below(s)) < BatchSize}
    BY DEF FirstOf
  <1>2. FirstOf(S) \in SUBSET S /\ IsFiniteSet(FirstOf(S))
    BY <1>1, FS_Subset
  <1>3. ASSUME NEW s PROVE IsFiniteSet(Below(s)) /\ Cardinality(Below(s)) \in Nat
    BY FS_Subset, FS_CardinalityType
  <1>4. ASSUME Cardinality(FirstOf(S)) < BatchSize, FirstOf(S) # S PROVE FALSE
    <2>1. S \ FirstOf(S) \in SUBSET Nat /\ S \ FirstOf(S) # {} /\ IsFiniteSet(S \ FirstOf(S))
      BY <1>2, <1>4, FS_Subset
    <2>2. PICK s \in S \ FirstOf(S) : \A t \in S \ FirstOf(S) : s <= t
      BY <2>1, Extremes
    <2>3. Below(s) \subseteq FirstOf(S)
      <3> SUFFICES ASSUME NEW t \in S, t < s, t \notin FirstOf(S) PROVE FALSE
        OBVIOUS
      <3>1. s <= t /\ s \in Nat /\ t \in Nat
        BY <2>2
      <3> QED BY <3>1
    <2>4. Cardinality(Below(s)) <= Cardinality(FirstOf(S)) /\ Cardinality(FirstOf(S)) \in Nat
      BY <1>2, <2>3, FS_Subset, FS_CardinalityType
    <2>5. Cardinality(Below(s)) < BatchSize
      <3> HIDE DEF Below
      <3> QED BY <1>3, <1>4, <1>b, <2>4
    <2> QED BY <1>1, <2>2, <2>5
  <1>5. ASSUME NEW s \in S, NEW t \in FirstOf(S), s <= t PROVE s \in FirstOf(S)
    <2>1. t \in S /\ Cardinality(Below(t)) < BatchSize
      BY <1>1
    <2>2. Below(s) \subseteq Below(t)
      <3>1. s \in Nat /\ t \in Nat /\ \A u \in Nat : u < s => u < t
        BY <1>5, <2>1
      <3> QED BY <3>1
    <2>3. Cardinality(Below(s)) <= Cardinality(Below(t))
      BY <1>3, <2>2, FS_Subset
    <2>4. Cardinality(Below(s)) < BatchSize
      <3> HIDE DEF Below
      <3> QED BY <1>3, <1>b, <2>1, <2>3
    <2> QED BY <1>1, <2>4
  <1>6. ~ (Cardinality(FirstOf(S)) < BatchSize) => FirstOf(S) # {}
    BY <1>b, FS_EmptySet
  <1> QED BY <1>2, <1>4, <1>5, <1>6

-----------------------------------------------------------------------------
(* What the statements on the Edge rows do *)

RowsAreMirrored ==
  /\ \A i \in DOMAIN edge : Mirrored(edge[i].target) = edge[i].value
  /\ \A t \in Targets : (\A i \in DOMAIN edge : edge[i].target # t) => Mirrored(t) = NoRow

\* What is mirrored of a target is the value of its row.
LEMMA MirroredRow == EdgeInv => RowsAreMirrored
  <1> SUFFICES ASSUME EdgeInv PROVE RowsAreMirrored
    OBVIOUS
  <1>1. ASSUME NEW i \in DOMAIN edge PROVE IdsOf(edge[i].target) = {i}
    BY DEF EdgeInv, IdsOf
  <1> QED BY <1>1 DEF RowsAreMirrored, Mirrored, IdsOf

\* The rows of other targets stay, those of f get its values, and what is new
\* is a row of a target of f.
LEMMA UpsertEffect ==
  ASSUME EdgeInv, NEW f, DOMAIN f \subseteq Targets, \A t \in DOMAIN f : f[t] \in Values,
         Upsert(f)
  PROVE  /\ EdgeInv'
         /\ DOMAIN edge \subseteq DOMAIN edge'
         /\ \A i \in DOMAIN edge :
              /\ edge'[i].target = edge[i].target
              /\ edge'[i].revision = edge[i].revision
              /\ edge'[i].comments = edge[i].comments
         /\ \A i \in DOMAIN edge' \ DOMAIN edge :
              /\ edge'[i].target \in DOMAIN f
              /\ edge'[i].revision = FreshToken
              /\ edge'[i].comments = {}
         /\ \A t \in DOMAIN f : Mirrored(t)' = f[t]
         /\ \A t \in Targets \ DOMAIN f : Mirrored(t)' = Mirrored(t)
         /\ edge' = [i \in DOMAIN edge' |-> edge'[i]]
  <1> DEFINE new == {t \in DOMAIN f : IdsOf(t) = {}}
             rank(t) == Cardinality({u \in new : u <= t})
             at(i) == CHOOSE t \in new : LastEdgeId + rank(t) = i
             ids == {LastEdgeId + rank(t) : t \in new}
  <1>t. Targets \subseteq Nat \ {0} /\ IsFiniteSet(Targets)
    BY TargetAssumption, FS_Union DEF Targets
  <1>e. edge' = [i \in DOMAIN edge \cup ids |->
                 IF i \in ids
                 THEN [target |-> at(i), value |-> f[at(i)],
                       revision |-> FreshToken, comments |-> {}]
                 ELSE IF edge[i].target \in DOMAIN f
                      THEN [edge[i] EXCEPT !.value = f[edge[i].target]]
                      ELSE edge[i]]
    BY DEF Upsert
  <1>n. new \in SUBSET Nat /\ IsFiniteSet(new) /\ new \subseteq DOMAIN f /\ new \subseteq Targets
    BY <1>t, FS_Subset
  <1>m. /\ DOMAIN edge \subseteq Nat \ {0} /\ IsFiniteSet(DOMAIN edge)
        /\ \A i \in DOMAIN edge : IsRow(edge[i])
        /\ \A i, j \in DOMAIN edge : edge[i].target = edge[j].target => i = j
    BY DEF EdgeInv, AreRows
  <1>l. LastEdgeId \in Nat /\ \A i \in DOMAIN edge : i <= LastEdgeId
    <2>1. /\ DOMAIN edge \cup {0} \in SUBSET Nat /\ DOMAIN edge \cup {0} # {}
          /\ IsFiniteSet(DOMAIN edge \cup {0})
      BY <1>m, FS_AddElement
    <2> QED BY <2>1, Extremes DEF LastEdgeId
  <1>r. /\ \A t \in new : rank(t) \in Nat \ {0}
        /\ \A t, u \in new : rank(t) = rank(u) => t = u
    <2>1. \A t : rank(t) = Rank(new, t)
      BY DEF Rank
    <2> HIDE DEF new, rank
    <2>2. \A t \in new : Rank(new, t) \in 1 .. Cardinality(new) /\ Cardinality(new) \in Nat
      BY <1>n, RanksInOrder, FS_CardinalityType
    <2>3. \A t, u \in new : t < u <=> Rank(new, t) < Rank(new, u)
      BY <1>n, RanksInOrder
    <2>4. \A t, u \in new : t < u \/ u < t \/ t = u
      BY <1>n
    <2> QED BY <2>1, <2>2, <2>3, <2>4
  <1> HIDE DEF rank
  <1>a. ASSUME NEW t \in new
        PROVE  at(LastEdgeId + rank(t)) = t /\ LastEdgeId + rank(t) > LastEdgeId
    <2> HIDE DEF new
    <2>1. \A u \in new : LastEdgeId + rank(u) = LastEdgeId + rank(t) => u = t
      BY <1>a, <1>r, <1>l
    <2> QED BY <1>a, <1>r, <1>l, <2>1
  <1>i. ASSUME NEW i \in ids
        PROVE  /\ at(i) \in new /\ LastEdgeId + rank(at(i)) = i
               /\ i \in Nat \ {0} /\ i \notin DOMAIN edge
    <2>1. PICK t \in new : i = LastEdgeId + rank(t)
      BY <1>i
    <2> HIDE DEF new, at
    <2>2. at(i) = t /\ i > LastEdgeId
      BY <1>a, <2>1
    <2>3. i \in Nat \ {0}
      BY <2>1, <1>l, <1>r
    <2> QED BY <1>l, <1>m, <2>1, <2>2, <2>3
  <1>f. IsFiniteSet(ids)
    <2> DEFINE id == [t \in new |-> LastEdgeId + rank(t)]
    <2>1. ids = {id[t] : t \in new}
      OBVIOUS
    <2> HIDE DEF new, ids, id
    <2> QED BY <1>n, <2>1, ImageIsFinite
  <1>d. DOMAIN edge' = DOMAIN edge \cup ids
    BY <1>e
  <1>k. ASSUME NEW i \in DOMAIN edge
        PROVE  /\ IsRow(edge'[i])
               /\ edge'[i].target = edge[i].target
               /\ edge'[i].revision = edge[i].revision
               /\ edge'[i].comments = edge[i].comments
               /\ edge'[i].value = IF edge[i].target \in DOMAIN f THEN f[edge[i].target]
                                   ELSE edge[i].value
    <2>1. edge'[i] = IF edge[i].target \in DOMAIN f
                     THEN [edge[i] EXCEPT !.value = f[edge[i].target]] ELSE edge[i]
      <3> HIDE DEF ids
      <3> QED BY <1>e, <1>i, <1>k
    <2>2. /\ edge[i] = [target |-> edge[i].target, value |-> edge[i].value,
                        revision |-> edge[i].revision, comments |-> edge[i].comments]
          /\ edge[i].target \in Targets /\ edge[i].value \in Values
      BY <1>m DEF IsRow
    <2> QED BY <2>1, <2>2 DEF IsRow
  <1>j. ASSUME NEW i \in ids
        PROVE  /\ IsRow(edge'[i])
               /\ edge'[i].target = at(i) /\ edge'[i].value = f[at(i)]
               /\ edge'[i].revision = FreshToken /\ edge'[i].comments = {}
    <2>1. edge'[i] = [target |-> at(i), value |-> f[at(i)], revision |-> FreshToken, comments |-> {}]
      <3> HIDE DEF ids, at
      <3> QED BY <1>e, <1>j
    <2>2. at(i) \in DOMAIN f /\ at(i) \in Targets /\ f[at(i)] \in Values
      BY <1>i, <1>n
    <2> HIDE DEF at
    <2> QED BY <2>1, <2>2 DEF IsRow
  <1>z. \A t \in new : LastEdgeId + rank(t) \in ids
    OBVIOUS
  <1>y. \A t \in DOMAIN f : t \notin new => \E i \in DOMAIN edge : edge[i].target = t
    BY DEF IdsOf
  <1>x. \A t \in new : \A i \in DOMAIN edge : edge[i].target # t
    BY DEF IdsOf
  <1>h. new \subseteq DOMAIN f
    OBVIOUS
  <1> HIDE DEF ids, new, at
  <1>1. AreRows(edge)'
    <2>1. DOMAIN edge' \subseteq Nat \ {0} /\ \A i \in DOMAIN edge' : IsRow(edge'[i])
      BY <1>d, <1>i, <1>j, <1>k, <1>m
    <2>2. IsFiniteSet(DOMAIN edge')
      <3>1. IsFiniteSet(DOMAIN edge)
        BY <1>m
      <3>2. IsFiniteSet(DOMAIN edge \cup ids)
        BY <1>f, <3>1, FS_Union
      <3> QED BY <1>d, <3>2
    <2>3. \A i \in DOMAIN edge' : IsRow(edge[i])'
      BY <2>1 DEF IsRow
    <2> HIDE DEF IsRow
    <2> QED BY <2>1, <2>2, <2>3 DEF AreRows
  <1>2. ASSUME NEW i \in DOMAIN edge', NEW j \in DOMAIN edge', edge'[i].target = edge'[j].target
        PROVE  i = j
    <2>1. CASE i \in DOMAIN edge /\ j \in DOMAIN edge
      BY <1>2, <1>k, <1>m, <2>1
    <2>2. CASE i \in ids /\ j \in ids
      BY <1>2, <1>j, <1>i, <2>2
    <2>3. CASE i \in ids /\ j \in DOMAIN edge
      BY <1>2, <1>j, <1>k, <1>i, <1>x, <2>3
    <2>4. CASE i \in DOMAIN edge /\ j \in ids
      BY <1>2, <1>j, <1>k, <1>i, <1>x, <2>4
    <2> QED BY <1>d, <2>1, <2>2, <2>3, <2>4
  <1>3. EdgeInv'
    BY <1>1, <1>2 DEF EdgeInv
  <1>p. RowsAreMirrored /\ RowsAreMirrored'
    BY <1>3, MirroredRow, PTL
  <1>4. ASSUME NEW t \in DOMAIN f PROVE Mirrored(t)' = f[t]
    <2>1. PICK i \in DOMAIN edge' : edge'[i].target = t /\ edge'[i].value = f[t]
      <3>1. CASE t \in new
        BY <3>1, <1>z, <1>a, <1>j, <1>d
      <3>2. CASE t \notin new
        BY <3>2, <1>y, <1>k, <1>d
      <3> QED BY <3>1, <3>2
    <2> QED BY <1>p, <2>1 DEF RowsAreMirrored
  <1>5. ASSUME NEW t \in Targets \ DOMAIN f PROVE Mirrored(t)' = Mirrored(t)
    <2>1. CASE \E i \in DOMAIN edge : edge[i].target = t
      <3>1. PICK i \in DOMAIN edge : edge[i].target = t
        BY <2>1
      <3>2. i \in DOMAIN edge' /\ edge'[i].target = t /\ edge'[i].value = edge[i].value
        BY <1>d, <1>k, <3>1
      <3> QED BY <1>p, <3>1, <3>2 DEF RowsAreMirrored
    <2>2. CASE ~ \E i \in DOMAIN edge : edge[i].target = t
      <3>1. \A i \in DOMAIN edge' : edge'[i].target # t
        BY <1>d, <1>h, <1>i, <1>j, <1>k, <2>2
      <3> QED BY <1>p, <2>2, <3>1 DEF RowsAreMirrored
    <2> QED BY <2>1, <2>2
  <1>6. \A i \in DOMAIN edge' \ DOMAIN edge :
          edge'[i].target \in DOMAIN f /\ edge'[i].revision = FreshToken /\ edge'[i].comments = {}
    BY <1>d, <1>h, <1>i, <1>j
  <1>7. edge' = [i \in DOMAIN edge' |-> edge'[i]]
    BY <1>e
  <1> QED BY <1>3, <1>4, <1>5, <1>6, <1>7, <1>d, <1>k

\* Only the rows of ids go.
LEMMA RemoveEffect ==
  ASSUME EdgeInv, NEW ids, RemoveRows(ids)
  PROVE  /\ EdgeInv'
         /\ DOMAIN edge' = DOMAIN edge \ ids
         /\ \A i \in DOMAIN edge' : edge'[i] = edge[i]
         /\ \A t \in Targets :
              Mirrored(t)' = IF \E i \in ids \cap DOMAIN edge : edge[i].target = t
                             THEN NoRow ELSE Mirrored(t)
         /\ edge' = [i \in DOMAIN edge' |-> edge'[i]]
  <1>1. edge' = [i \in DOMAIN edge \ ids |-> edge[i]]
    BY DEF RemoveRows, Restrict
  <1>2. DOMAIN edge' = DOMAIN edge \ ids /\ \A i \in DOMAIN edge' : edge'[i] = edge[i]
    BY <1>1
  <1>3. /\ DOMAIN edge \subseteq Nat \ {0} /\ IsFiniteSet(DOMAIN edge)
        /\ \A i \in DOMAIN edge : IsRow(edge[i])
        /\ \A i, j \in DOMAIN edge : edge[i].target = edge[j].target => i = j
    BY DEF EdgeInv, AreRows
  <1>4. IsFiniteSet(DOMAIN edge')
    BY <1>2, <1>3, FS_Subset
  <1>5. AreRows(edge)'
    BY <1>2, <1>3, <1>4 DEF AreRows, IsRow
  <1>6. EdgeInv'
    BY <1>2, <1>3, <1>5 DEF EdgeInv
  <1>7. RowsAreMirrored /\ RowsAreMirrored'
    BY <1>6, MirroredRow, PTL
  <1>8. ASSUME NEW t \in Targets
        PROVE  Mirrored(t)' = IF \E i \in ids \cap DOMAIN edge : edge[i].target = t
                              THEN NoRow ELSE Mirrored(t)
    <2>1. CASE \E i \in ids \cap DOMAIN edge : edge[i].target = t
      <3>1. \A i \in DOMAIN edge' : edge'[i].target # t
        BY <1>2, <1>3, <2>1
      <3> QED BY <1>7, <2>1, <3>1 DEF RowsAreMirrored
    <2>2. CASE \E i \in DOMAIN edge' : edge[i].target = t
      <3>1. PICK i \in DOMAIN edge' : edge[i].target = t
        BY <2>2
      <3>2. Mirrored(t)' = edge'[i].value /\ Mirrored(t) = edge[i].value
        BY <1>2, <1>7, <3>1 DEF RowsAreMirrored
      <3>3. ~ \E j \in ids \cap DOMAIN edge : edge[j].target = t
        BY <1>2, <1>3, <3>1
      <3> QED BY <1>2, <3>1, <3>2, <3>3
    <2>3. CASE ~ \E i \in DOMAIN edge : edge[i].target = t
      <3>1. Mirrored(t) = NoRow /\ Mirrored(t)' = NoRow
        BY <1>2, <1>7, <2>3 DEF RowsAreMirrored
      <3> QED BY <2>3, <3>1
    <2> QED BY <1>2, <2>1, <2>2, <2>3
  <1> QED BY <1>1, <1>2, <1>6, <1>8

\* Comments and revisions change no target and no value.
LEMMA CommentEffect ==
  ASSUME EdgeInv, NEW i \in DOMAIN edge, NEW c,
         PostComment(i, c) \/ DeleteComment(i, c)
  PROVE  /\ EdgeInv'
         /\ DOMAIN edge' = DOMAIN edge
         /\ \A j \in DOMAIN edge :
              edge'[j].target = edge[j].target /\ edge'[j].value = edge[j].value
         /\ \A t \in Targets : Mirrored(t)' = Mirrored(t)
         /\ \A j \in DOMAIN edge \ {i} : edge'[j] = edge[j]
         /\ edge' = [j \in DOMAIN edge' |-> edge'[j]]
  <1>1. PICK cs, r : edge' = [edge EXCEPT ![i].comments = cs, ![i].revision = r]
    <2>1. CASE PostComment(i, c)
      BY <2>1 DEF PostComment
    <2>2. CASE DeleteComment(i, c)
      BY <2>2 DEF DeleteComment
    <2> QED BY <2>1, <2>2
  <1>2. /\ DOMAIN edge \subseteq Nat \ {0} /\ IsFiniteSet(DOMAIN edge)
        /\ \A j \in DOMAIN edge : IsRow(edge[j])
        /\ \A j, k \in DOMAIN edge : edge[j].target = edge[k].target => j = k
    BY DEF EdgeInv, AreRows
  <1>3. DOMAIN edge' = DOMAIN edge /\ \A j \in DOMAIN edge \ {i} : edge'[j] = edge[j]
    BY <1>1
  <1>4. edge'[i] = [target |-> edge[i].target, value |-> edge[i].value,
                    revision |-> r, comments |-> cs]
    <2>1. edge[i] = [target |-> edge[i].target, value |-> edge[i].value,
                     revision |-> edge[i].revision, comments |-> edge[i].comments]
      BY <1>2 DEF IsRow
    <2>2. edge'[i] = [edge[i] EXCEPT !.comments = cs, !.revision = r]
      BY <1>1
    <2> QED BY <2>1, <2>2
  <1>5. \A j \in DOMAIN edge :
          IsRow(edge'[j]) /\ edge'[j].target = edge[j].target /\ edge'[j].value = edge[j].value
    <2>1. /\ edge'[i].target = edge[i].target /\ edge'[i].value = edge[i].value
          /\ edge'[i].revision = r /\ edge'[i].comments = cs
      BY <1>4
    <2>2. IsRow(edge'[i])
      BY <1>2, <1>4, <2>1 DEF IsRow
    <2> QED BY <1>2, <1>3, <2>1, <2>2
  <1>6. EdgeInv'
    BY <1>2, <1>3, <1>5 DEF EdgeInv, AreRows, IsRow
  <1>7. RowsAreMirrored /\ RowsAreMirrored'
    BY <1>6, MirroredRow, PTL
  <1>8. ASSUME NEW t \in Targets PROVE Mirrored(t)' = Mirrored(t)
    BY <1>3, <1>5, <1>7 DEF RowsAreMirrored
  <1>9. edge' = [j \in DOMAIN edge' |-> edge'[j]]
    BY <1>1
  <1> QED BY <1>3, <1>5, <1>6, <1>8, <1>9

-----------------------------------------------------------------------------
(* Types *)

LEMMA TargetTypes ==
  /\ Targets \subseteq Nat \ {0} /\ Targets \in SUBSET Nat /\ IsFiniteSet(Targets)
  /\ NoRow = 0 /\ NoRow \notin Values
  /\ NoId \notin Operations /\ BatchSize \in Nat \ {0}
  BY TargetAssumption, ValueAssumption, OperationAssumption, BoundAssumption, FS_Union
     DEF Targets, NoRow

\* No rows are rows, and so are some of some rows.
LEMMA NoRows == AreRows(Empty) /\ DOMAIN Empty = {}
  BY FS_EmptySet DEF AreRows, Empty

LEMMA SomeRows ==
  ASSUME NEW f, NEW g, AreRows(f), DOMAIN g \subseteq DOMAIN f, \A i \in DOMAIN g : g[i] = f[i]
  PROVE  AreRows(g)
  <1>1. IsFiniteSet(DOMAIN g)
    BY FS_Subset DEF AreRows
  <1> QED BY <1>1 DEF AreRows

\* What request v has is not touched.
Untouched(v) ==
  /\ pc'[v] = pc[v]
  /\ view'[v] = view[v]
  /\ after'[v] = after[v]
  /\ page'[v] = page[v]
  /\ checks'[v] = checks[v]

\* A step of one request leaves the others alone.
LEMMA OthersKeep ==
  ASSUME CoreTypes, NEW w \in Workers, RequestStep(w), NEW v \in Workers \ {w}
  PROVE  Untouched(v)
  <1>t. /\ DOMAIN pc = Workers /\ DOMAIN view = Workers /\ DOMAIN after = Workers
        /\ DOMAIN page = Workers /\ DOMAIN checks = Workers
    BY DEF CoreTypes
  <1>1. CASE \E step \in {"step", "purge", "finalize"} : ReadState(w, step)
    BY <1>1, <1>t DEF ReadState, GoTo, Untouched
  <1>2. CASE AdvanceStep(w)
    <2>1. CASE CountRemaining(w) \/ ReadPage(w) \/ WritePage(w) \/ ScanPage(w)
      BY <1>t, <2>1
         DEF CountRemaining, ReadPage, WritePage, ScanPage, GoTo, Drop, Return, Leave, Untouched
    <2>2. CASE LookUpContent(w) \/ CountComments(w) \/ ListOrphans(w) \/ Advance(w)
      BY <1>t, <2>2
         DEF LookUpContent, CountComments, ListOrphans, Advance, GoTo, Drop, Return, Leave, Untouched
    <2> QED BY <1>2, <2>1, <2>2 DEF AdvanceStep
  <1>3. CASE PurgeStep(w)
    BY <1>3, <1>t
       DEF PurgeStep, ReadOrphan, LookUpOrphan, ReadCurrent, RecountComments, DeleteTarget,
           Unlist, FinishPurge, KeepTarget, GoTo, Drop, Return, Leave, Untouched
  <1>4. CASE FinalizeStep(w)
    BY <1>4, <1>t DEF FinalizeStep, CheckCondition, Finalize, Return, Leave, Untouched
  <1>5. CASE Abandon(w) \/ Recover(w)
    BY <1>5, <1>t DEF Abandon, Recover, Return, Leave, Untouched
  <1> QED BY <1>1, <1>2, <1>3, <1>4, <1>5 DEF RequestStep

\* The Posts or Pages, and the Edge rows, behind the cursors of a request.
Ahead(w) == {t \in Synced(view[w].phase) : content[t] # NoRow /\ t > view[w].cursor}
EdgeAhead(w) == {i \in DOMAIN edge : i > view[w].edgeCursor}

\* A page of a set of numbers, as the two kinds of pages use it.
IsPageOf(rows, S) ==
  /\ rows \in SUBSET S /\ IsFiniteSet(rows)
  /\ Cardinality(rows) < BatchSize => rows = S
  /\ ~ (Cardinality(rows) < BatchSize) => rows # {}
  /\ rows # {} =>
       /\ Max(rows) \in rows
       /\ \A s \in S : s <= Max(rows) => s \in rows

LEMMA FirstIsPage ==
  ASSUME NEW S \in SUBSET Nat, IsFiniteSet(S)
  PROVE  IsPageOf(FirstOf(S), S)
  <1>1. /\ FirstOf(S) \in SUBSET S /\ IsFiniteSet(FirstOf(S))
        /\ Cardinality(FirstOf(S)) < BatchSize => FirstOf(S) = S
        /\ ~ (Cardinality(FirstOf(S)) < BatchSize) => FirstOf(S) # {}
        /\ \A s \in S, t \in FirstOf(S) : s <= t => s \in FirstOf(S)
    BY PageOfNumbers
  <1> HIDE DEF FirstOf
  <1>2. FirstOf(S) # {} => Max(FirstOf(S)) \in FirstOf(S)
    BY <1>1, Extremes
  <1> QED BY <1>1, <1>2 DEF IsPageOf

LEMMA SourcePage ==
  ASSUME CoreTypes, NEW w \in Workers
  PROVE  Ahead(w) \subseteq Targets /\ IsPageOf(SourceRows(w), Ahead(w))
  <1>1. Ahead(w) \subseteq Targets
    BY DEF Ahead, Synced, Targets
  <1>2. Ahead(w) \in SUBSET Nat /\ IsFiniteSet(Ahead(w))
    BY <1>1, TargetTypes, FS_Subset
  <1>3. SourceRows(w) = FirstOf(Ahead(w))
    BY DEF SourceRows, Ahead
  <1> QED BY <1>1, <1>2, <1>3, FirstIsPage

LEMMA EdgePage ==
  ASSUME EdgeInv, NEW w \in Workers
  PROVE  EdgeAhead(w) \subseteq Nat \ {0} /\ IsPageOf(FirstOf(EdgeAhead(w)), EdgeAhead(w))
  <1>1. EdgeAhead(w) \subseteq DOMAIN edge /\ DOMAIN edge \subseteq Nat \ {0} /\ IsFiniteSet(DOMAIN edge)
    BY DEF EdgeAhead, EdgeInv, AreRows
  <1>2. EdgeAhead(w) \in SUBSET Nat /\ IsFiniteSet(EdgeAhead(w))
    BY <1>1, FS_Subset
  <1> QED BY <1>1, <1>2, FirstIsPage

\* A step of a request leaves it with what its next step needs.
LEMMA RequestKept ==
  ASSUME CoreInv, NEW w \in Workers, RequestStep(w)
  PROVE  RequestOf(w)'
  <1>t. /\ DOMAIN pc = Workers /\ DOMAIN view = Workers /\ DOMAIN after = Workers
        /\ DOMAIN page = Workers /\ DOMAIN checks = Workers
        /\ content \in [Targets -> Values \cup {NoRow}]
        /\ state = NoOperation \/ IsOperation(state)
        /\ AreRows(orphans)
    BY DEF CoreInv, CoreTypes
  <1>w. /\ RequestOf(w)
        /\ CoreTypes /\ EdgeInv
    BY DEF CoreInv, RequestInv
  <1>l. ASSUME NEW step \in {"idle", "lost"}, Leave(w, step) PROVE RequestOf(w)'
    <2>1. pc'[w] = step /\ view'[w] = NoOperation /\ page'[w] = Empty
      BY <1>l, <1>t DEF Leave
    <2> QED BY <2>1
        DEF RequestOf, Busy, Advances, IsInPhase, CarriesRows, ScanSteps, PurgeSteps
  <1>d. ASSUME NEW step \in {"advance", "purge"}, Drop(w, step), Busy(w),
               step = "advance" => Advances(w),
               step = "purge" => pc[w] \in PurgeSteps,
               view'[w] = view[w], after'[w] = after[w]
        PROVE  RequestOf(w)'
    <2>1. pc'[w] = step /\ page'[w] = Empty
      BY <1>d, <1>t DEF Drop
    <2> QED BY <1>d, <1>w, <2>1
        DEF RequestOf, Busy, Advances, IsInPhase, CarriesRows, ScanSteps, PurgeSteps
  <1>1. CASE \E step \in {"step", "purge", "finalize"} : ReadState(w, step)
    <2>1. PICK step \in {"step", "purge", "finalize"} : ReadState(w, step)
      BY <1>1
    <2>2. /\ pc'[w] = step /\ view'[w] = state /\ after'[w] = after[w] /\ page'[w] = page[w]
          /\ pc[w] = "idle" /\ state # NoOperation
          /\ step # "step" => state.phase = "orphan_review"
          /\ step = "step" => state.phase # "orphan_review"
      BY <2>1, <1>t DEF ReadState, GoTo
    <2>3. page[w] = Empty
      BY <1>w, <2>2 DEF RequestOf, CarriesRows, ScanSteps, PurgeSteps
    <2> QED BY <1>t, <2>2, <2>3
        DEF RequestOf, Busy, Advances, IsInPhase, CarriesRows, ScanSteps, PurgeSteps
  <1>2. CASE CountRemaining(w)
    <2>1. /\ pc[w] = "step" /\ view[w].phase = "drain_outbox"
          /\ IsOperation(view[w]) /\ page[w] = Empty
      BY <1>2, <1>w DEF CountRemaining, RequestOf, Busy, CarriesRows, ScanSteps, PurgeSteps
    <2>2. CASE NothingPending
      <3>1. /\ pc'[w] = "advance" /\ view'[w] = view[w] /\ page'[w] = page[w]
            /\ after'[w] = [view[w] EXCEPT !.phase = "sync_posts"]
        BY <1>2, <1>t, <2>2 DEF CountRemaining, GoTo
      <3>2. IsOperation(after'[w]) /\ after'[w].op = view[w].op
        BY <2>1, <3>1 DEF IsOperation, States, Phases
      <3> QED BY <2>1, <3>1, <3>2
          DEF RequestOf, Busy, Advances, IsInPhase, CarriesRows, ScanSteps, PurgeSteps, IsOperation
    <2>3. CASE ~ NothingPending
      BY <1>2, <1>l, <2>3 DEF CountRemaining, Return
    <2> QED BY <2>2, <2>3
  <1>3. CASE ReadPage(w)
    <2>1. /\ pc[w] = "step" /\ view[w].phase \in {"sync_posts", "sync_pages"}
          /\ IsOperation(view[w])
      BY <1>3, <1>w DEF ReadPage, RequestOf, Busy
    <2>2. /\ pc'[w] = "sync" /\ view'[w] = view[w]
          /\ page'[w] = [t \in SourceRows(w) |-> content[t]]
          /\ after'[w] = IF Cardinality(SourceRows(w)) < BatchSize
                         THEN [view[w] EXCEPT !.phase = PhaseAfter(@), !.cursor = 0]
                         ELSE [view[w] EXCEPT !.cursor = Max(SourceRows(w))]
      BY <1>3, <1>t DEF ReadPage, GoTo
    <2>3. /\ Ahead(w) \subseteq Targets
          /\ SourceRows(w) \subseteq Ahead(w)
          /\ Cardinality(SourceRows(w)) < BatchSize \/ Max(SourceRows(w)) \in SourceRows(w)
      BY <1>w, SourcePage DEF IsPageOf
    <2>4. \A t \in SourceRows(w) : t \in Targets /\ content[t] \in Values
      BY <1>t, <2>3 DEF Ahead
    <2>5. IsOperation(after'[w]) /\ after'[w].op = view[w].op
      <3>1. PhaseAfter(view[w].phase) \in {"sync_pages", "scan_orphans"}
        BY DEF PhaseAfter
      <3>2. CASE Cardinality(SourceRows(w)) < BatchSize
        BY <2>1, <2>2, <3>1, <3>2 DEF IsOperation, States, Phases
      <3>3. CASE ~ (Cardinality(SourceRows(w)) < BatchSize)
        <4>1. Max(SourceRows(w)) \in Targets
          BY <2>3, <3>3
        <4>2. after'[w] = [view[w] EXCEPT !.cursor = Max(SourceRows(w))]
          BY <2>2, <3>3
        <4> HIDE DEF Max
        <4> QED BY <2>1, <4>1, <4>2 DEF IsOperation, States, Phases
      <3> QED BY <3>2, <3>3
    <2> HIDE DEF SourceRows
    <2> QED BY <2>1, <2>2, <2>4, <2>5
        DEF RequestOf, Busy, Advances, IsInPhase, CarriesRows, ScanSteps, PurgeSteps
  <1>4. CASE WritePage(w)
    BY <1>4, <1>t, <1>d DEF WritePage, Busy, Advances
  <1>5. CASE ScanPage(w)
    <2> DEFINE ids == FirstOf(EdgeAhead(w))
    <2>1. pc[w] = "step" /\ view[w].phase = "scan_orphans" /\ IsOperation(view[w])
      BY <1>5, <1>w DEF ScanPage, RequestOf, Busy
    <2>2. /\ pc'[w] = "scanned" /\ view'[w] = view[w]
          /\ page'[w] = [i \in ids |-> edge[i]]
          /\ after'[w] = [view[w] EXCEPT
               !.phase = IF Cardinality(ids) < BatchSize THEN "orphan_review" ELSE @,
               !.edgeCursor = IF ids = {} THEN @ ELSE Max(ids)]
      BY <1>5, <1>t DEF ScanPage, GoTo, EdgeAhead
    <2>3. /\ ids \subseteq DOMAIN edge
          /\ ids = {} \/ Max(ids) \in Nat
      <3>1. EdgeAhead(w) \subseteq Nat /\ IsPageOf(ids, EdgeAhead(w)) /\ EdgeAhead(w) \subseteq DOMAIN edge
        BY <1>w, EdgePage DEF EdgeAhead
      <3> HIDE DEF ids
      <3> QED BY <3>1 DEF IsPageOf
    <2> HIDE DEF ids
    <2>4. AreRows(page'[w])
      <3>1. AreRows(edge)
        BY <1>w DEF EdgeInv
      <3> QED BY <2>2, <2>3, <3>1, SomeRows
    <2>5. IsOperation(after'[w]) /\ after'[w].op = view[w].op
      <3> DEFINE new == IF ids = {} THEN view[w].edgeCursor ELSE Max(ids)
                 next == IF Cardinality(ids) < BatchSize THEN "orphan_review" ELSE "scan_orphans"
      <3>1. new \in Nat /\ next \in {"orphan_review", "scan_orphans"}
        BY <2>1, <2>3 DEF IsOperation, States
      <3>2. after'[w] = [view[w] EXCEPT !.phase = next, !.edgeCursor = new]
        BY <2>1, <2>2
      <3> HIDE DEF new, next
      <3> QED BY <2>1, <3>1, <3>2 DEF IsOperation, States, Phases
    <2> QED BY <2>1, <2>2, <2>4, <2>5
        DEF RequestOf, Busy, Advances, IsInPhase, CarriesRows, ScanSteps, PurgeSteps
  <1>6. CASE LookUpContent(w)
    <2>1. /\ pc[w] = "scanned" /\ pc'[w] = "found" /\ view'[w] = view[w] /\ after'[w] = after[w]
          /\ page'[w] = [i \in {i \in DOMAIN page[w] : content[page[w][i].target] = NoRow} |->
                           page[w][i]]
      BY <1>6, <1>t DEF LookUpContent, GoTo, Restrict
    <2>2. AreRows(page[w])
      BY <1>w, <2>1 DEF RequestOf, CarriesRows, ScanSteps
    <2>3. AreRows(page'[w])
      BY <2>1, <2>2, SomeRows
    <2> QED BY <1>w, <2>1, <2>3
        DEF RequestOf, Busy, Advances, IsInPhase, CarriesRows, ScanSteps, PurgeSteps
  <1>7. CASE CountComments(w)
    <2>1. /\ pc[w] = "found" /\ pc'[w] = "counted" /\ view'[w] = view[w] /\ after'[w] = after[w]
          /\ page'[w] = [i \in DOMAIN page[w] |->
                           [page[w][i] EXCEPT !.comments = CommentsOf(i)]]
      BY <1>7, <1>t DEF CountComments, GoTo
    <2>2. AreRows(page[w])
      BY <1>w, <2>1 DEF RequestOf, CarriesRows, ScanSteps
    <2>3. AreRows(page'[w])
      <3>1. ASSUME NEW i \in DOMAIN page[w] PROVE IsRow(page'[w][i])
        <4>1. IsRow(page[w][i])
          BY <2>2 DEF AreRows
        <4>2. page'[w][i] = [page[w][i] EXCEPT !.comments = CommentsOf(i)]
          BY <2>1
        <4> QED BY <4>1, <4>2 DEF IsRow
      <3> QED BY <2>1, <2>2, <3>1 DEF AreRows
    <2> QED BY <1>w, <2>1, <2>3
        DEF RequestOf, Busy, Advances, IsInPhase, CarriesRows, ScanSteps, PurgeSteps
  <1>8. CASE ListOrphans(w)
    <2>1. CASE DOMAIN page[w] = {} \/ MayList(w)
      BY <1>8, <1>t, <1>d, <2>1 DEF ListOrphans, Busy, Advances, ScanSteps
    <2>2. CASE ~ (DOMAIN page[w] = {} \/ MayList(w))
      BY <1>8, <1>l, <2>2 DEF ListOrphans, Return
    <2> QED BY <2>1, <2>2
  <1>9. CASE Advance(w) \/ FinishPurge(w) \/ Finalize(w) \/ Recover(w) \/ Abandon(w)
    BY <1>9, <1>l DEF Advance, FinishPurge, Finalize, Recover, Abandon, Return
  <1>10. CASE \E i \in DOMAIN orphans : ReadOrphan(w, i)
    <2>1. PICK i \in DOMAIN orphans : ReadOrphan(w, i)
      BY <1>10
    <2>2. /\ pc[w] = "purge" /\ pc'[w] = "listed" /\ view'[w] = view[w] /\ after'[w] = after[w]
          /\ page'[w] = [j \in {i} |-> orphans[i]]
      BY <2>1, <1>t DEF ReadOrphan, GoTo
    <2>3. AreRows(page'[w]) /\ DOMAIN page'[w] # {}
      BY <1>t, <2>2, SomeRows
    <2> QED BY <1>w, <2>2, <2>3
        DEF RequestOf, Busy, Advances, IsInPhase, CarriesRows, ScanSteps, PurgeSteps
  <1>11. CASE LookUpOrphan(w)
    <2>1. /\ pc[w] = "listed" /\ pc'[w] \in {"absent", "unlist"}
          /\ view'[w] = view[w] /\ after'[w] = after[w] /\ page'[w] = page[w]
      BY <1>11, <1>t DEF LookUpOrphan, GoTo
    <2> QED BY <1>w, <2>1
        DEF RequestOf, Busy, Advances, IsInPhase, CarriesRows, ScanSteps, PurgeSteps
  <1>12. CASE ReadCurrent(w) \/ RecountComments(w) \/ DeleteTarget(w)
    <2>1. /\ pc[w] \in PurgeSteps /\ Busy(w)
          /\ view'[w] = view[w] /\ after'[w] = after[w]
          /\ \/ Drop(w, "purge")
             \/ page' = page /\ \E step \in {"unchanged", "delete", "unlist"} : GoTo(w, step)
      <3>1. CASE ReadCurrent(w)
        BY <3>1 DEF ReadCurrent, KeepTarget, PurgeSteps, Busy
      <3>2. CASE RecountComments(w)
        BY <3>2 DEF RecountComments, KeepTarget, PurgeSteps, Busy
      <3>3. CASE DeleteTarget(w)
        BY <3>3 DEF DeleteTarget, KeepTarget, PurgeSteps, Busy
      <3> QED BY <1>12, <3>1, <3>2, <3>3
    <2>2. CASE Drop(w, "purge")
      BY <1>d, <2>1, <2>2
    <2>3. CASE page' = page /\ \E step \in {"unchanged", "delete", "unlist"} : GoTo(w, step)
      <3>1. pc'[w] \in {"unchanged", "delete", "unlist"} /\ page'[w] = page[w]
        BY <1>t, <2>3 DEF GoTo
      <3> QED BY <1>w, <2>1, <3>1
          DEF RequestOf, Busy, Advances, IsInPhase, CarriesRows, ScanSteps, PurgeSteps
    <2> QED BY <2>1, <2>2, <2>3
  <1>13. CASE Unlist(w)
    BY <1>13, <1>t, <1>d DEF Unlist, Busy, PurgeSteps
  <1>14. CASE \E c \in Conditions : CheckCondition(w, c)
    <2>1. PICK c \in Conditions : CheckCondition(w, c)
      BY <1>14
    <2>2. CASE Holds(w, c)
      <3>1. pc'[w] = pc[w] /\ view'[w] = view[w] /\ after'[w] = after[w] /\ page'[w] = page[w]
        BY <2>1, <2>2 DEF CheckCondition
      <3> QED BY <1>w, <3>1
          DEF RequestOf, Busy, Advances, IsInPhase, CarriesRows, ScanSteps, PurgeSteps
    <2>3. CASE ~ Holds(w, c)
      BY <1>l, <2>1, <2>3 DEF CheckCondition, Return
    <2> QED BY <2>2, <2>3
  <1> QED BY <1>1, <1>2, <1>3, <1>4, <1>5, <1>6, <1>7, <1>8, <1>9, <1>10, <1>11, <1>12, <1>13, <1>14
      DEF RequestStep, AdvanceStep, PurgeStep, FinalizeStep

\* Nothing but content writes and projections touches the outbox, and the
\* requests of an operation none of it.
LEMMA RequestsKeepStudio ==
  ASSUME NEW w \in Workers, RequestStep(w)
  PROVE  UNCHANGED <<content, tracked, activation, queue, replayed, posted, writes, switches>>
  BY DEF RequestStep, AdvanceStep, PurgeStep, FinalizeStep, ReadState, CountRemaining, ReadPage,
     WritePage, ScanPage, LookUpContent, CountComments, ListOrphans, Advance, ReadOrphan,
     LookUpOrphan, ReadCurrent, RecountComments, DeleteTarget, Unlist, FinishPurge,
     CheckCondition, Finalize, Abandon, Recover, RemoveOperation, studioVars, edgeVars, countVars,
     historyVars

\* Neither do requests that store the mode touch the content or the projections.
LEMMA SwitchKeeps ==
  ASSUME SwitchStep
  PROVE  UNCHANGED <<content, queue, replayed, state, orphans, edgeVars, requestVars, writes,
                     disturbed, overtaken>>
  BY DEF SwitchStep, DisableIntegration, CountPending, CompareTarget, EnableIntegration,
         countVars, historyVars

\* The step of a request on the Edge rows, the list and the stored row.
LEMMA RequestChanges ==
  ASSUME CoreInv, NEW w \in Workers, RequestStep(w)
  PROVE  /\ edge' = edge \/ WritePage(w) \/ DeleteTarget(w)
         /\ orphans' = orphans \/ ListOrphans(w) \/ Unlist(w) \/ (Finalize(w) /\ RemoveOperation)
         /\ state' = state \/ Advance(w) \/ (Finalize(w) /\ RemoveOperation)
         /\ UNCHANGED <<disturbed, overtaken>> \/ (Finalize(w) /\ RemoveOperation)
  BY DEF RequestStep, AdvanceStep, PurgeStep, FinalizeStep, ReadState, CountRemaining, ReadPage,
     WritePage, ScanPage, LookUpContent, CountComments, ListOrphans, Advance, ReadOrphan,
     LookUpOrphan, ReadCurrent, RecountComments, DeleteTarget, Unlist, FinishPurge,
     CheckCondition, Finalize, Abandon, Recover, studioVars, edgeVars, countVars, historyVars

\* A request that stores a row stores the one it prepared for the one it read.
LEMMA AdvanceStores ==
  ASSUME CoreInv, NEW w \in Workers, Advance(w)
  PROVE  state' = state \/ (state # NoOperation /\ state = view[w] /\ IsOperation(state) /\ IsOperation(after[w])
                            /\ after[w].op = state.op /\ state' = after[w])
  <1>1. pc[w] = "advance" /\ RequestOf(w)
    BY DEF CoreInv, RequestInv, Advance
  <1>2. IsOperation(view[w]) /\ IsOperation(after[w]) /\ after[w].op = view[w].op
    BY <1>1 DEF RequestOf, Busy, Advances
  <1>3. view[w] # NoOperation
    BY <1>2, TargetTypes DEF IsOperation, NoOperation
  <1> QED BY <1>2, <1>3 DEF Advance

\* What a request and the review add to and take from the list are rows.
LEMMA ListKept ==
  ASSUME CoreInv, NEW w \in Workers, RequestStep(w)
  PROVE  AreRows(orphans)' /\ (state' = NoOperation => orphans' = Empty)
  <1>t. AreRows(orphans) /\ (state = NoOperation => orphans = Empty) /\ RequestOf(w)
    BY DEF CoreInv, CoreTypes, RequestInv
  <1>1. CASE Finalize(w) /\ RemoveOperation
    BY <1>1, NoRows DEF RemoveOperation
  <1>2. CASE ListOrphans(w)
    <2>1. state' = state
      BY <1>2 DEF ListOrphans
    <2>2. CASE orphans' = orphans
      BY <1>t, <2>1, <2>2
    <2>3. CASE DOMAIN page[w] = {} /\ orphans' # orphans
      <3>1. orphans' = [i \in DOMAIN orphans |-> orphans[i]]
        BY <1>2, <2>3 DEF ListOrphans
      <3>2. AreRows(orphans')
        BY <1>t, <3>1, SomeRows
      <3>3. state = NoOperation => orphans' = Empty
        BY <1>t, <3>1 DEF Empty
      <3> QED BY <2>1, <3>2, <3>3
    <2>4. CASE MayList(w)
      <3>1. pc[w] = "counted" /\ AreRows(page[w]) /\ IsOperation(view[w])
        BY <1>2, <1>t DEF ListOrphans, RequestOf, CarriesRows, ScanSteps, Busy
      <3>2. state # NoOperation
        BY <2>4, <3>1, TargetTypes DEF MayList, IsOperation, NoOperation
      <3>3. orphans' = [i \in DOMAIN page[w] \cup DOMAIN orphans |->
                          IF i \in DOMAIN page[w] THEN page[w][i] ELSE orphans[i]]
        BY <1>2, <2>4 DEF ListOrphans
      <3>4. IsFiniteSet(DOMAIN orphans')
        <4>1. IsFiniteSet(DOMAIN page[w]) /\ IsFiniteSet(DOMAIN orphans)
          BY <1>t, <3>1 DEF AreRows
        <4>2. IsFiniteSet(DOMAIN page[w] \cup DOMAIN orphans)
          BY <4>1, FS_Union
        <4> QED BY <3>3, <4>2
      <3>5. AreRows(orphans')
        BY <1>t, <3>1, <3>3, <3>4 DEF AreRows
      <3> QED BY <2>1, <3>2, <3>5
    <2> QED BY <1>2, <2>2, <2>3, <2>4 DEF ListOrphans
  <1>3. CASE Unlist(w)
    <2>1. state' = state /\ \/ orphans' = orphans
                            \/ orphans' = [i \in DOMAIN orphans \ {Chosen(w)} |-> orphans[i]]
      BY <1>3 DEF Unlist, Restrict
    <2>2. AreRows(orphans')
      BY <1>t, <2>1, SomeRows
    <2>3. orphans = Empty => orphans' = Empty
      BY <2>1 DEF Empty
    <2> QED BY <1>t, <2>1, <2>2, <2>3
  <1>4. CASE orphans' = orphans /\ (state' = state \/ Advance(w))
    <2>1. state' = NoOperation => state = NoOperation
      BY <1>4, AdvanceStores, TargetTypes DEF IsOperation, NoOperation
    <2> QED BY <1>4, <1>t, <2>1
  <1> QED BY <1>1, <1>2, <1>3, <1>4, RequestChanges DEF ListOrphans, Unlist, Finalize

\* What a page of work and a deletion do to the Edge rows.
LEMMA WriteEffect ==
  ASSUME CoreInv, NEW w \in Workers, WritePage(w)
  PROVE  /\ pc[w] = "sync"
         /\ DOMAIN page[w] \subseteq Targets
         /\ EdgeInv'
         /\ DOMAIN edge \subseteq DOMAIN edge'
         /\ \A i \in DOMAIN edge :
              /\ edge'[i].target = edge[i].target
              /\ edge'[i].revision = edge[i].revision
              /\ edge'[i].comments = edge[i].comments
         /\ \A i \in DOMAIN edge' \ DOMAIN edge :
              /\ edge'[i].target \in DOMAIN page[w]
              /\ edge'[i].revision = FreshToken
              /\ edge'[i].comments = {}
         /\ \A t \in DOMAIN page[w] : Mirrored(t)' = page[w][t]
         /\ \A t \in Targets \ DOMAIN page[w] : Mirrored(t)' = Mirrored(t)
         /\ edge' = [i \in DOMAIN edge' |-> edge'[i]]
  <1>1. pc[w] = "sync" /\ Upsert(page[w])
    BY DEF WritePage
  <1>2. DOMAIN page[w] \subseteq Targets /\ \A t \in DOMAIN page[w] : page[w][t] \in Values
    BY <1>1 DEF CoreInv, RequestInv, RequestOf, CarriesRows
  <1>3. EdgeInv
    BY DEF CoreInv
  <1> HIDE DEF WritePage
  <1> QED BY <1>1, <1>2, <1>3, UpsertEffect

LEMMA DeleteEffect ==
  ASSUME CoreInv, NEW w \in Workers, DeleteTarget(w)
  PROVE  /\ pc[w] = "delete"
         /\ EdgeInv'
         /\ \/ edge' = edge
            \/ /\ Chosen(w) \in DOMAIN page[w] \cap DOMAIN edge
               /\ SameRow(w) /\ SameCount(w)
               /\ DOMAIN edge' = DOMAIN edge \ {Chosen(w)}
               /\ \A i \in DOMAIN edge' : edge'[i] = edge[i]
               /\ \A t \in Targets :
                    Mirrored(t)' = IF edge[Chosen(w)].target = t THEN NoRow ELSE Mirrored(t)
               /\ edge' = [i \in DOMAIN edge' |-> edge'[i]]
  <1>1. pc[w] = "delete" /\ EdgeInv
    BY DEF DeleteTarget, CoreInv
  <1>2. DOMAIN page[w] # {}
    BY <1>1 DEF CoreInv, RequestInv, RequestOf, CarriesRows, PurgeSteps
  <1>3. Chosen(w) \in DOMAIN page[w]
    BY <1>2 DEF Chosen
  <1>4. CASE edge' = edge
    BY <1>1, <1>4 DEF EdgeInv, AreRows, IsRow
  <1>5. CASE edge' # edge
    <2>1. Chosen(w) \in DOMAIN edge /\ SameRow(w) /\ SameCount(w) /\ RemoveRows({Chosen(w)})
      BY <1>5 DEF DeleteTarget
    <2> HIDE DEF Chosen, SameRow, SameCount
    <2>2. /\ EdgeInv'
          /\ DOMAIN edge' = DOMAIN edge \ {Chosen(w)}
          /\ \A i \in DOMAIN edge' : edge'[i] = edge[i]
          /\ \A t \in Targets :
               Mirrored(t)' = IF \E i \in {Chosen(w)} \cap DOMAIN edge : edge[i].target = t
                              THEN NoRow ELSE Mirrored(t)
          /\ edge' = [i \in DOMAIN edge' |-> edge'[i]]
      BY <1>1, <2>1, RemoveEffect
    <2> QED BY <1>1, <1>3, <2>1, <2>2
  <1> QED BY <1>4, <1>5

\* A projection that is written: the head of its queue is mirrored.
LEMMA ReplayEffect ==
  ASSUME CoreInv, NEW t \in Targets, Replay(t)
  PROVE  /\ EdgeInv'
         /\ queue[t] # << >>
         /\ Mirrored(t)' = Head(queue[t])
         /\ \A u \in Targets \ {t} : Mirrored(u)' = Mirrored(u)
         /\ \A i \in DOMAIN edge \ DOMAIN edge' : edge[i].target = t /\ Head(queue[t]) = NoRow
         /\ \A i \in DOMAIN edge \cap DOMAIN edge' :
              /\ edge'[i].target = edge[i].target
              /\ edge'[i].revision = edge[i].revision
              /\ edge'[i].comments = edge[i].comments
         /\ \A i \in DOMAIN edge' \ DOMAIN edge :
              /\ edge'[i].target = t
              /\ edge'[i].revision = FreshToken
              /\ edge'[i].comments = {}
         /\ edge' = [i \in DOMAIN edge' |-> edge'[i]]
  <1>1. EdgeInv /\ queue[t] \in Seq(Values \cup {NoRow}) /\ queue[t] # << >>
    BY DEF CoreInv, CoreTypes, Replay
  <1>2. Head(queue[t]) \in Values \cup {NoRow}
    BY <1>1
  <1>3. CASE Head(queue[t]) = NoRow
    <2>1. RemoveRows(IdsOf(t))
      BY <1>3 DEF Replay
    <2>2. /\ EdgeInv'
          /\ DOMAIN edge' = DOMAIN edge \ IdsOf(t)
          /\ \A i \in DOMAIN edge' : edge'[i] = edge[i]
          /\ \A u \in Targets :
               Mirrored(u)' = IF \E i \in IdsOf(t) \cap DOMAIN edge : edge[i].target = u
                              THEN NoRow ELSE Mirrored(u)
          /\ edge' = [i \in DOMAIN edge' |-> edge'[i]]
      BY <1>1, <2>1, RemoveEffect
    <2>3. \A i \in IdsOf(t) : i \in DOMAIN edge /\ edge[i].target = t
      BY DEF IdsOf
    <2>4. Mirrored(t)' = NoRow
      <3>1. CASE IdsOf(t) = {}
        BY <2>2, <3>1 DEF Mirrored
      <3>2. CASE IdsOf(t) # {}
        BY <2>2, <2>3, <3>2
      <3> QED BY <3>1, <3>2
    <2>5. \A u \in Targets \ {t} : Mirrored(u)' = Mirrored(u)
      BY <2>2, <2>3
    <2> QED BY <1>1, <1>3, <2>2, <2>3, <2>4, <2>5
  <1>4. CASE Head(queue[t]) # NoRow
    <2> DEFINE f == [u \in {t} |-> Head(queue[t])]
    <2>1. Upsert(f)
      BY <1>4 DEF Replay
    <2>2. DOMAIN f \subseteq Targets /\ \A u \in DOMAIN f : f[u] \in Values /\ f[u] = Head(queue[t])
      BY <1>2, <1>4
    <2>3. DOMAIN f = {t}
      OBVIOUS
    <2> HIDE DEF f
    <2> QED BY <1>1, <1>4, <2>1, <2>2, <2>3, UpsertEffect
  <1> QED BY <1>3, <1>4

LEMMA EdgeKept ==
  ASSUME CoreInv, [Next]_vars
  PROVE  EdgeInv'
  <1>e. EdgeInv
    BY DEF CoreInv
  <1>s. edge' = edge => EdgeInv'
    BY <1>e DEF EdgeInv, AreRows, IsRow
  <1>1. CASE ContentStep
    BY <1>1, <1>s, SwitchKeeps DEF ContentStep, WriteContent, edgeVars
  <1>2. CASE ProjectionStep
    <2>1. ASSUME NEW t \in Targets, Replay(t) PROVE EdgeInv'
      BY <2>1, ReplayEffect
    <2>2. ASSUME NEW t \in Targets, Confirm(t) PROVE EdgeInv'
      BY <1>s, <2>2 DEF Confirm, edgeVars
    <2> QED BY <1>2, <2>1, <2>2 DEF ProjectionStep
  <1>3. CASE CommentStep
    BY <1>e, <1>3, CommentEffect DEF CommentStep
  <1>4. CASE (\E op \in Operations : Start(op)) \/ Cancel
    BY <1>4, <1>s DEF Start, Cancel, edgeVars
  <1>5. CASE \E w \in Workers : RequestStep(w)
    <2>1. PICK w \in Workers : RequestStep(w)
      BY <1>5
    <2> QED BY <1>s, <2>1, RequestChanges, WriteEffect, DeleteEffect
  <1>6. CASE UNCHANGED vars
    BY <1>6, <1>s DEF vars, edgeVars
  <1> QED BY <1>1, <1>2, <1>3, <1>4, <1>5, <1>6 DEF Next

\* What requests carry is a function of the requests, with the types of TypeOK.
RequestTypes ==
  /\ pc \in [Workers -> Steps]
  /\ view \in [Workers -> States]
  /\ after \in [Workers -> States]
  /\ DOMAIN page = Workers
  /\ checks \in [Workers -> SUBSET Conditions]

StudioTypes ==
  /\ content \in [Targets -> Values \cup {NoRow}]
  /\ tracked \in BOOLEAN
  /\ queue \in [Targets -> Seq(Values \cup {NoRow})]
  /\ replayed \subseteq {t \in Targets : queue[t] # << >>}
  /\ posted \subseteq Comments
  /\ activation \in Activations
  /\ writes \in Nat
  /\ switches \in Nat
  /\ disturbed \in BOOLEAN
  /\ overtaken \subseteq Targets

OperationTypes ==
  /\ state = NoOperation \/ IsOperation(state)
  /\ AreRows(orphans)
  /\ state = NoOperation => orphans = Empty
  /\ state = NoOperation => ~ disturbed

LEMMA CoreTypesSplit == CoreTypes <=> RequestTypes /\ StudioTypes /\ OperationTypes
  BY DEF CoreTypes, RequestTypes, StudioTypes, OperationTypes

LEMMA RequestTypesKept ==
  ASSUME CoreInv, [Next]_vars
  PROVE  RequestTypes'
  <1>t. RequestTypes /\ (state = NoOperation \/ IsOperation(state))
    BY CoreTypesSplit DEF CoreInv, OperationTypes
  <1>n. NoOperation \in States /\ state \in States /\ \A s : IsOperation(s) => s \in States
    BY <1>t DEF NoOperation, States, IsOperation
  <1>1. CASE UNCHANGED requestVars
    BY <1>1, <1>t DEF requestVars, RequestTypes
  <1>2. ASSUME NEW w \in Workers, RequestStep(w) PROVE RequestTypes'
    <2>1. RequestOf(w) /\ RequestOf(w)'
      BY <1>2, RequestKept DEF CoreInv, RequestInv
    <2>2. /\ pc' \in [Workers -> Steps]
          /\ DOMAIN view' = Workers /\ DOMAIN after' = Workers
          /\ view' = [v \in Workers |-> view'[v]]
          /\ after' = [v \in Workers |-> after'[v]]
          /\ DOMAIN page' = Workers
          /\ checks' \in [Workers -> SUBSET Conditions]
          /\ view'[w] \in {view[w], state, NoOperation}
          /\ after'[w] = after[w] \/ after'[w] = NoOperation \/ pc'[w] \in {"sync", "advance", "scanned"}
      <3>1. CASE (\E step \in {"step", "purge", "finalize"} : ReadState(w, step))
                 \/ CountRemaining(w) \/ ReadPage(w) \/ WritePage(w) \/ ScanPage(w)
        <4>1. CASE (\E step \in {"step", "purge", "finalize"} : ReadState(w, step)) \/ CountRemaining(w)
          BY <1>t, <4>1 DEF ReadState, CountRemaining, GoTo, Return, Leave, RequestTypes, Steps
        <4>2. CASE ReadPage(w) \/ WritePage(w) \/ ScanPage(w)
          BY <1>t, <4>2 DEF ReadPage, WritePage, ScanPage, GoTo, Drop, RequestTypes, Steps
        <4> QED BY <3>1, <4>1, <4>2
      <3>2. CASE LookUpContent(w) \/ CountComments(w) \/ ListOrphans(w) \/ Advance(w)
        BY <1>t, <3>2
           DEF LookUpContent, CountComments, ListOrphans, Advance, GoTo, Drop, Return, Leave,
               RequestTypes, Steps
      <3>3. CASE PurgeStep(w)
        BY <1>t, <3>3
           DEF PurgeStep, ReadOrphan, LookUpOrphan, ReadCurrent, RecountComments, DeleteTarget,
               Unlist, FinishPurge, KeepTarget, GoTo, Drop, Return, Leave, RequestTypes, Steps
      <3>4. CASE FinalizeStep(w) \/ Abandon(w) \/ Recover(w)
        BY <1>t, <3>4
           DEF FinalizeStep, CheckCondition, Finalize, Abandon, Recover, Return, Leave,
               RequestTypes, Steps
      <3> QED BY <1>2, <3>1, <3>2, <3>3, <3>4 DEF RequestStep, AdvanceStep
    <2>3. view'[w] \in States
      BY <1>n, <1>t, <2>2 DEF RequestTypes
    <2>4. after'[w] \in States
      BY <1>n, <1>t, <2>1, <2>2 DEF RequestTypes, RequestOf, Advances, ScanSteps
    <2>5. \A v \in Workers \ {w} : view'[v] = view[v] /\ after'[v] = after[v]
      BY <1>2, OthersKeep DEF CoreInv, Untouched
    <2>6. view' \in [Workers -> States] /\ after' \in [Workers -> States]
      BY <1>t, <2>2, <2>3, <2>4, <2>5 DEF RequestTypes
    <2> QED BY <2>2, <2>6 DEF RequestTypes
  <1> QED BY <1>1, <1>2, SwitchKeeps
      DEF Next, ContentStep, WriteContent, ProjectionStep, Replay, Confirm,
          CommentStep, PostComment, DeleteComment, Start, Cancel, vars, requestVars

LEMMA StudioTypesKept ==
  ASSUME CoreInv, [Next]_vars
  PROVE  StudioTypes'
  <1>t. StudioTypes
    BY CoreTypesSplit DEF CoreInv
  <1>1. ASSUME NEW t \in Targets, NEW v \in Values \cup {NoRow}, WriteContent(t, v)
        PROVE  StudioTypes'
    <2>1. /\ content' = [content EXCEPT ![t] = v]
          /\ queue' = (IF tracked THEN [queue EXCEPT ![t] = Append(@, v)] ELSE queue)
          /\ writes' = writes + 1
          /\ disturbed' = (state # NoOperation)
          /\ UNCHANGED <<tracked, replayed, posted, switches>>
      BY <1>1 DEF WriteContent, edgeVars
    <2>2. /\ queue' \in [Targets -> Seq(Values \cup {NoRow})]
          /\ \A u \in Targets : queue[u] # << >> => queue'[u] # << >>
      BY <1>t, <2>1 DEF StudioTypes
    <2>3. disturbed' \in BOOLEAN
      BY <2>1
    <2>4. overtaken' \subseteq Targets /\ activation' \in Activations
      BY <1>1, <1>t DEF WriteContent, StudioTypes, Activations
    <2> QED BY <1>t, <2>1, <2>2, <2>3, <2>4 DEF StudioTypes
  <1>2. CASE SwitchStep
    <2>1. UNCHANGED <<content, queue, replayed, posted, writes, disturbed, overtaken>>
      BY <1>2, SwitchKeeps DEF edgeVars, historyVars
    <2>2. tracked' \in BOOLEAN /\ switches' \in Nat
      <3>1. tracked \in BOOLEAN /\ switches \in Nat
        BY <1>t DEF StudioTypes
      <3>2. /\ tracked' = tracked \/ tracked' = FALSE \/ tracked' = TRUE
            /\ switches' = switches \/ switches' = switches + 1
        BY <1>2
           DEF SwitchStep, DisableIntegration, CountPending, CompareTarget, EnableIntegration,
               countVars
      <3>3. tracked' \in BOOLEAN
        BY <3>1, <3>2, Zenon
      <3>4. switches' \in Nat
        BY <3>1, <3>2
      <3> QED BY <3>3, <3>4
    <2>3. activation' \in Activations
      <3>1. NoActivation \in Activations
        BY DEF NoActivation, Activations
      <3>2. CASE DisableIntegration \/ CountPending
        BY <3>1, <3>2 DEF DisableIntegration, CountPending, NoActivation, Activations
      <3>3. ASSUME NEW t \in Targets, CompareTarget(t) PROVE activation' \in Activations
        BY <1>t, <3>1, <3>3 DEF CompareTarget, Activations, StudioTypes
      <3>4. CASE EnableIntegration
        BY <1>t, <3>4 DEF EnableIntegration, NoActivation, Activations, StudioTypes
      <3> QED BY <1>2, <3>2, <3>3, <3>4 DEF SwitchStep
    <2> QED BY <1>t, <2>1, <2>2, <2>3 DEF StudioTypes
  <1>3. ASSUME NEW t \in Targets, Replay(t) PROVE StudioTypes'
    BY <1>3, <1>t DEF Replay, countVars, historyVars, StudioTypes
  <1>4. ASSUME NEW t \in Targets, Confirm(t) PROVE StudioTypes'
    <2>1. /\ queue[t] \in Seq(Values \cup {NoRow}) /\ queue[t] # << >>
          /\ queue' = [queue EXCEPT ![t] = Tail(@)] /\ replayed' = replayed \ {t}
          /\ UNCHANGED <<content, tracked, activation, posted, writes, switches, disturbed, overtaken>>
      BY <1>4, <1>t DEF Confirm, edgeVars, countVars, historyVars, StudioTypes
    <2>2. /\ queue' \in [Targets -> Seq(Values \cup {NoRow})]
          /\ \A u \in Targets \ {t} : queue'[u] = queue[u]
      BY <1>t, <2>1 DEF StudioTypes
    <2> QED BY <1>t, <2>1, <2>2 DEF StudioTypes
  <1>5. CASE CommentStep
    BY <1>5, <1>t
       DEF CommentStep, PostComment, DeleteComment, studioVars, countVars, historyVars, StudioTypes
  <1>6. CASE (\E op \in Operations : Start(op)) \/ Cancel
    BY <1>6, <1>t
       DEF Start, Cancel, RemoveOperation, studioVars, edgeVars, countVars, historyVars, StudioTypes
  <1>7. ASSUME NEW w \in Workers, RequestStep(w) PROVE StudioTypes'
    BY <1>7, <1>t, RequestsKeepStudio, RequestChanges DEF RemoveOperation, StudioTypes
  <1>8. CASE UNCHANGED vars
    BY <1>8, <1>t DEF vars, studioVars, edgeVars, countVars, historyVars, StudioTypes
  <1> QED BY <1>1, <1>2, <1>3, <1>4, <1>5, <1>6, <1>7, <1>8 DEF Next, ContentStep, ProjectionStep

LEMMA OperationTypesKept ==
  ASSUME CoreInv, [Next]_vars
  PROVE  OperationTypes'
  <1>t. OperationTypes
    BY CoreTypesSplit DEF CoreInv
  <1>1. CASE UNCHANGED <<state, orphans, disturbed>>
    BY <1>1, <1>t DEF OperationTypes
  <1>2. ASSUME NEW t \in Targets, NEW v \in Values \cup {NoRow}, WriteContent(t, v)
        PROVE  OperationTypes'
    BY <1>2, <1>t DEF WriteContent, OperationTypes
  <1>3. ASSUME NEW op \in Operations, Start(op) PROVE OperationTypes'
    <2>1. /\ state = NoOperation /\ orphans' = orphans
          /\ state' = [NoOperation EXCEPT !.op = op, !.phase = "drain_outbox"]
      BY <1>3 DEF Start
    <2>2. state' = [op |-> op, phase |-> "drain_outbox", cursor |-> 0, edgeCursor |-> 0]
      BY <2>1 DEF NoOperation
    <2>3. IsOperation(state') /\ state' # NoOperation
      BY <2>2, OperationAssumption DEF IsOperation, States, Phases, NoOperation
    <2> QED BY <1>t, <2>1, <2>3 DEF OperationTypes
  <1>4. CASE Cancel
    BY <1>4, NoRows DEF Cancel, RemoveOperation, OperationTypes
  <1>5. ASSUME NEW w \in Workers, RequestStep(w) PROVE OperationTypes'
    <2>1. AreRows(orphans') /\ (state' = NoOperation => orphans' = Empty)
      BY <1>5, ListKept DEF AreRows, IsRow
    <2>2. /\ state' = NoOperation \/ IsOperation(state')
          /\ state' = NoOperation => ~ disturbed'
      <3>1. CASE Finalize(w) /\ RemoveOperation
        BY <3>1 DEF RemoveOperation
      <3>2. CASE disturbed' = disturbed /\ (state' = state \/ Advance(w))
        BY <1>t, <3>2, AdvanceStores, TargetTypes DEF OperationTypes, IsOperation, NoOperation
      <3> QED BY <1>5, <3>1, <3>2, RequestChanges
    <2> QED BY <2>1, <2>2 DEF OperationTypes
  <1> QED BY <1>1, <1>2, <1>3, <1>4, <1>5, SwitchKeeps
      DEF Next, ContentStep, ProjectionStep, Replay, Confirm,
          CommentStep, PostComment, DeleteComment, vars, countVars, historyVars

LEMMA CoreKept ==
  ASSUME CoreInv, [Next]_vars
  PROVE  CoreInv'
  <1>1. CoreTypes'
    BY RequestTypesKept, StudioTypesKept, OperationTypesKept, CoreTypesSplit, PTL
  <1>2. ASSUME NEW v \in Workers PROVE RequestOf(v)'
    <2>0. RequestOf(v) /\ CoreTypes
      BY DEF CoreInv, RequestInv
    <2>1. CASE pc'[v] = pc[v] /\ view'[v] = view[v] /\ after'[v] = after[v] /\ page'[v] = page[v]
      BY <2>0, <2>1 DEF RequestOf, Busy, Advances, IsInPhase, CarriesRows
    <2>2. CASE UNCHANGED requestVars
      BY <2>1, <2>2 DEF requestVars
    <2>3. ASSUME NEW w \in Workers, RequestStep(w) PROVE RequestOf(v)'
      <3>1. CASE w = v
        BY <2>3, <3>1, RequestKept
      <3>2. CASE w # v
        BY <2>0, <2>1, <2>3, <3>2, OthersKeep DEF Untouched
      <3> QED BY <3>1, <3>2
    <2> QED BY <2>2, <2>3, SwitchKeeps
        DEF Next, ContentStep, WriteContent, ProjectionStep, Replay, Confirm,
            CommentStep, PostComment, DeleteComment, Start, Cancel, vars, requestVars
  <1> QED BY <1>1, <1>2, EdgeKept DEF CoreInv, RequestInv

\* The rows of an Edge database that mirrors f.
LEMMA RowsOfContent ==
  ASSUME NEW f \in [Targets -> Values \cup {NoRow}], edge = RowsOf(f)
  PROVE  /\ EdgeInv
         /\ \A t \in Targets : Mirrored(t) = f[t]
         /\ edge = [i \in DOMAIN edge |-> edge[i]]
         /\ \A i \in DOMAIN edge : edge[i].revision = i /\ edge[i].comments = {}
  <1> DEFINE stored == {t \in Targets : f[t] # NoRow}
             rank(t) == Cardinality({u \in stored : u <= t})
             at(i) == CHOOSE t \in stored : rank(t) = i
             ids == {rank(t) : t \in stored}
  <1>t. stored \subseteq Targets /\ stored \in SUBSET Nat /\ IsFiniteSet(stored)
        /\ \A t \in stored : f[t] \in Values
    BY TargetTypes, FS_Subset
  <1>e. edge = [i \in ids |-> [target |-> at(i), value |-> f[at(i)], revision |-> i, comments |-> {}]]
    BY DEF RowsOf
  <1>r. /\ \A t \in stored : rank(t) \in Nat \ {0}
        /\ \A t, u \in stored : rank(t) = rank(u) => t = u
    <2>1. \A t : rank(t) = Rank(stored, t)
      BY DEF Rank
    <2> HIDE DEF stored, rank
    <2>2. \A t \in stored : Rank(stored, t) \in 1 .. Cardinality(stored) /\ Cardinality(stored) \in Nat
      BY <1>t, RanksInOrder, FS_CardinalityType
    <2>3. \A t, u \in stored : t < u <=> Rank(stored, t) < Rank(stored, u)
      BY <1>t, RanksInOrder
    <2>4. \A t, u \in stored : t < u \/ u < t \/ t = u
      BY <1>t
    <2> QED BY <2>1, <2>2, <2>3, <2>4
  <1>s. \A t \in Targets : t \notin stored => f[t] = NoRow
    OBVIOUS
  <1> HIDE DEF stored, rank
  <1>a. \A t \in stored : at(rank(t)) = t
    BY <1>r
  <1>f. IsFiniteSet(ids)
    <2> DEFINE id == [t \in stored |-> rank(t)]
    <2>1. ids = {id[t] : t \in stored}
      OBVIOUS
    <2> HIDE DEF ids, id
    <2> QED BY <1>t, <2>1, ImageIsFinite
  <1>i. \A i \in ids : i \in Nat \ {0} /\ at(i) \in stored /\ rank(at(i)) = i
    BY <1>a, <1>r
  <1>j. \A t \in stored : rank(t) \in ids
    OBVIOUS
  <1> HIDE DEF at, ids
  <1>1. DOMAIN edge = ids
    BY <1>e
  <1>2. ASSUME NEW i \in ids
        PROVE  /\ IsRow(edge[i]) /\ edge[i].target = at(i) /\ edge[i].value = f[at(i)]
               /\ edge[i].revision = i /\ edge[i].comments = {}
    <2>1. edge[i] = [target |-> at(i), value |-> f[at(i)], revision |-> i, comments |-> {}]
      BY <1>e
    <2>2. at(i) \in Targets /\ f[at(i)] \in Values
      BY <1>i, <1>t
    <2> QED BY <2>1, <2>2 DEF IsRow
  <1>3. EdgeInv
    BY <1>1, <1>2, <1>f, <1>i DEF EdgeInv, AreRows
  <1>4. RowsAreMirrored
    BY <1>3, MirroredRow
  <1>5. ASSUME NEW t \in Targets PROVE Mirrored(t) = f[t]
    <2>1. CASE t \in stored
      <3>1. rank(t) \in DOMAIN edge /\ edge[rank(t)].target = t /\ edge[rank(t)].value = f[t]
        BY <1>1, <1>2, <1>a, <1>j, <2>1
      <3> QED BY <1>4, <3>1 DEF RowsAreMirrored
    <2>2. CASE t \notin stored
      <3>1. \A i \in DOMAIN edge : edge[i].target # t
        BY <1>1, <1>2, <1>i, <2>2
      <3> QED BY <1>4, <1>s, <2>2, <3>1 DEF RowsAreMirrored
    <2> QED BY <2>1, <2>2
  <1> QED BY <1>1, <1>2, <1>3, <1>5, <1>e

LEMMA CoreInit == Init => CoreInv
  <1> SUFFICES ASSUME Init PROVE CoreInv
    OBVIOUS
  <1>1. EdgeInv
    BY RowsOfContent DEF Init
  <1>2. StudioTypes
    <2>1. << >> \in Seq(Values \cup {NoRow})
      OBVIOUS
    <2>2. queue = [t \in Targets |-> << >>] /\ replayed = {} /\ posted = {}
      BY DEF Init
    <2>3. queue \in [Targets -> Seq(Values \cup {NoRow})]
      BY <2>1, <2>2
    <2>4. /\ content \in [Targets -> Values \cup {NoRow}] /\ tracked \in BOOLEAN
          /\ writes \in Nat /\ switches \in Nat /\ disturbed \in BOOLEAN
          /\ overtaken = {} /\ activation \in Activations
      BY DEF Init, NoActivation, Activations
    <2> QED BY <2>2, <2>3, <2>4 DEF StudioTypes
  <1>3. OperationTypes
    BY NoRows DEF Init, OperationTypes
  <1>4. NoOperation \in States
    BY DEF NoOperation, States
  <1>5. RequestTypes
    BY <1>4 DEF Init, RequestTypes, Steps
  <1>6. RequestInv
    BY DEF Init, RequestInv, RequestOf, Busy, Advances, IsInPhase, CarriesRows, ScanSteps, PurgeSteps
  <1> QED BY <1>1, <1>2, <1>3, <1>5, <1>6, CoreTypesSplit DEF CoreInv

-----------------------------------------------------------------------------
(* Content and projections *)

LEMMA OnlyRequestsStep ==
  ASSUME [Next]_vars
  PROVE  UNCHANGED requestVars \/ \E w \in Workers : RequestStep(w)
  BY SwitchKeeps
     DEF Next, ContentStep, WriteContent, ProjectionStep, Replay, Confirm,
         CommentStep, PostComment, DeleteComment, Start, Cancel, vars, requestVars

\* The page of content that request v carries is the content, and what it
\* looked up is still missing.
ContentOf(v) ==
  /\ pc[v] = "sync" =>
       \A t \in DOMAIN page[v] : content[t] # NoRow /\ page[v][t] = content[t]
  /\ pc[v] \in {"absent", "unchanged", "delete"} => content[Snapshot(v).target] = NoRow

LEMMA ContentOfStep ==
  ASSUME CoreInv, NEW w \in Workers, ContentOf(w), RequestStep(w)
  PROVE  ContentOf(w)'
  <1>t. /\ DOMAIN pc = Workers /\ DOMAIN page = Workers /\ content' = content
        /\ CoreTypes
    BY RequestsKeepStudio DEF CoreInv, CoreTypes
  <1> DEFINE needed == {"sync", "absent", "unchanged", "delete"}
  <1>o. pc'[w] \notin needed => ContentOf(w)'
    BY DEF ContentOf
  <1>1. CASE ReadPage(w)
    <2>1. pc'[w] = "sync" /\ page'[w] = [t \in SourceRows(w) |-> content[t]]
      BY <1>1, <1>t DEF ReadPage, GoTo
    <2>2. \A t \in SourceRows(w) : content[t] # NoRow
      BY <1>t, SourcePage DEF IsPageOf, Ahead
    <2> HIDE DEF SourceRows
    <2> QED BY <1>t, <2>1, <2>2 DEF ContentOf
  <1>2. CASE LookUpOrphan(w)
    <2>1. page' = page /\ pc'[w] = (IF content[Snapshot(w).target] = NoRow THEN "absent" ELSE "unlist")
      BY <1>2, <1>t DEF LookUpOrphan, GoTo
    <2> QED BY <1>t, <2>1 DEF ContentOf, Snapshot, Chosen
  <1>3. CASE ReadCurrent(w) \/ RecountComments(w) \/ DeleteTarget(w)
    <2>1. /\ pc[w] \in {"absent", "unchanged", "delete"}
          /\ page' = page \/ pc'[w] = "purge"
      BY <1>3, <1>t
         DEF ReadCurrent, RecountComments, DeleteTarget, KeepTarget, Drop, GoTo
    <2>2. pc'[w] # "sync"
      BY <1>3, <1>t
         DEF ReadCurrent, RecountComments, DeleteTarget, KeepTarget, Drop, GoTo
    <2> QED BY <1>t, <2>1, <2>2 DEF ContentOf, Snapshot, Chosen
  <1>4. CASE \E c \in Conditions : CheckCondition(w, c)
    <2>1. pc'[w] \notin needed
      BY <1>4, <1>t DEF CheckCondition, Return, Leave
    <2> QED BY <1>o, <2>1
  <1>5. CASE (\E step \in {"step", "purge", "finalize"} : ReadState(w, step))
             \/ CountRemaining(w) \/ WritePage(w) \/ ScanPage(w) \/ LookUpContent(w)
             \/ CountComments(w) \/ ListOrphans(w) \/ Advance(w)
    <2>1. pc'[w] \notin needed
      BY <1>5, <1>t
         DEF ReadState, CountRemaining, WritePage, ScanPage, LookUpContent, CountComments,
             ListOrphans, Advance, GoTo, Drop, Return, Leave
    <2> QED BY <1>o, <2>1
  <1>6. CASE (\E i \in DOMAIN orphans : ReadOrphan(w, i)) \/ Unlist(w) \/ FinishPurge(w)
             \/ Finalize(w) \/ Abandon(w) \/ Recover(w)
    <2>1. pc'[w] \notin needed
      BY <1>6, <1>t
         DEF ReadOrphan, Unlist, FinishPurge, Finalize, Abandon, Recover, GoTo, Drop, Return, Leave
    <2> QED BY <1>o, <2>1
  <1> QED BY <1>1, <1>2, <1>3, <1>4, <1>5, <1>6
      DEF RequestStep, AdvanceStep, PurgeStep, FinalizeStep

LEMMA ContentKept ==
  ASSUME QuietSteps, CoreInv, ContentInv, [Next]_vars
  PROVE  ContentInv'
  <1>c. CoreTypes /\ \A v \in Workers : ContentOf(v)
    BY DEF CoreInv, ContentInv, ContentOf
  <1> SUFFICES ASSUME NEW v \in Workers PROVE ContentOf(v)'
    BY DEF ContentInv, ContentOf
  <1>1. CASE UNCHANGED <<content, pc, page>>
    BY <1>1, <1>c DEF ContentOf, Snapshot, Chosen
  <1>2. CASE ContentStep
    <2>1. ASSUME NEW t \in Targets, NEW x \in Values \cup {NoRow}, WriteContent(t, x)
          PROVE  pc'[v] \in {"idle", "lost"}
      BY <2>1 DEF WriteContent, RequestsIdle, requestVars
    <2>2. CASE SwitchStep
      BY <1>1, <2>2, SwitchKeeps DEF requestVars
    <2> QED BY <1>2, <2>1, <2>2 DEF ContentStep, ContentOf
  <1>3. ASSUME NEW w \in Workers, RequestStep(w) PROVE ContentOf(v)'
    <2>1. CASE w = v
      BY <1>3, <1>c, <2>1, ContentOfStep
    <2>2. CASE w # v
      <3>1. pc'[v] = pc[v] /\ page'[v] = page[v] /\ content' = content
        BY <1>3, <1>c, <2>2, OthersKeep, RequestsKeepStudio DEF Untouched
      <3> QED BY <1>c, <3>1 DEF ContentOf, Snapshot, Chosen
    <2> QED BY <2>1, <2>2
  <1>4. CASE ProjectionStep \/ CommentStep \/ (\E op \in Operations : Start(op)) \/ Cancel
             \/ UNCHANGED vars
    BY <1>1, <1>4
       DEF ProjectionStep, Replay, Confirm, CommentStep, PostComment, DeleteComment, Start,
           Cancel, vars, requestVars, studioVars
  <1> QED BY <1>2, <1>3, <1>4 DEF Next

\* How a step on one side changes what is promised of a target.
LEMMA ProjectionKeepsTrack ==
  ASSUME CoreInv, NEW t \in Targets, OnTheWay(t), ProjectionStep
  PROVE  OnTheWay(t)' /\ (Even(t) => Even(t)')
  <1>t. /\ content \in [Targets -> Values \cup {NoRow}]
        /\ queue \in [Targets -> Seq(Values \cup {NoRow})]
        /\ replayed \subseteq {u \in Targets : queue[u] # << >>}
    BY DEF CoreInv, CoreTypes
  <1>m. edge' = edge => Mirrored(t)' = Mirrored(t)
    BY DEF Mirrored, IdsOf
  <1>3. ASSUME NEW u \in Targets, Replay(u) PROVE OnTheWay(t)' /\ (Even(t) => Even(t)')
    <2>1. /\ Mirrored(u)' = Head(queue[u]) /\ queue[u] # << >>
          /\ u # t => Mirrored(t)' = Mirrored(t)
      BY <1>3, ReplayEffect
    <2>2. UNCHANGED <<content, queue>> /\ replayed' = replayed \cup {u}
      BY <1>3 DEF Replay
    <2>3. CASE u = t
      BY <1>t, <2>1, <2>2, <2>3 DEF Even, OnTheWay
    <2>4. CASE u # t
      BY <2>1, <2>2, <2>4 DEF Even, OnTheWay
    <2> QED BY <2>3, <2>4
  <1>4. ASSUME NEW u \in Targets, Confirm(u) PROVE OnTheWay(t)' /\ (Even(t) => Even(t)')
    <2>1. /\ u \in replayed /\ queue' = [queue EXCEPT ![u] = Tail(@)]
          /\ replayed' = replayed \ {u} /\ content' = content
          /\ Mirrored(t)' = Mirrored(t)
      BY <1>4, <1>m DEF Confirm, edgeVars
    <2>2. CASE u = t
      <3> DEFINE q == queue[t]
      <3>1. q \in Seq(Values \cup {NoRow}) /\ q # << >> /\ queue'[t] = Tail(q) /\ t \notin replayed'
        BY <1>t, <2>1, <2>2
      <3>2. /\ q[Len(q)] = content[t]
            /\ Len(q) = 1 => Mirrored(t) = q[1]
        BY <2>1, <2>2, <3>1 DEF Even, OnTheWay
      <3> HIDE DEF q
      <3>3. CASE Len(q) = 1
        <4>1. Tail(q) = << >> /\ Mirrored(t) = content[t]
          BY <3>1, <3>2, <3>3
        <4> QED BY <2>1, <3>1, <4>1 DEF Even, OnTheWay
      <3>4. CASE Len(q) # 1
        <4>1. Tail(q) # << >> /\ Tail(q)[Len(Tail(q))] = q[Len(q)]
          <5>1. Len(q) \in Nat /\ Len(q) # 0 /\ Len(q) # 1
            BY <3>1, <3>4, EmptySeq
          <5>2. /\ Len(Tail(q)) = Len(q) - 1
                /\ \A n \in 1 .. Len(Tail(q)) : Tail(q)[n] = q[n + 1]
            BY <3>1, HeadTailProperties
          <5>3. Len(Tail(q)) \in 1 .. Len(Tail(q)) /\ Len(Tail(q)) + 1 = Len(q)
            BY <5>1, <5>2
          <5>4. Tail(q)[Len(Tail(q))] = q[Len(q)]
            <6>1. \A n \in 1 .. Len(Tail(q)) : n + 1 = Len(q) => Tail(q)[n] = q[Len(q)]
              BY <5>2
            <6> QED BY <5>3, <6>1
          <5>5. Tail(q) # << >>
            BY <3>1, <5>1, <5>2, HeadTailProperties, EmptySeq
          <5> QED BY <5>4, <5>5
        <4>2. queue'[t] # << >> /\ queue'[t][Len(queue'[t])] = content'[t]
          <5>1. q[Len(q)] = content[t] /\ queue'[t] = Tail(q) /\ content' = content
            BY <2>1, <3>1, <3>2
          <5> QED BY <4>1, <5>1
        <4> QED BY <3>1, <4>2 DEF Even, OnTheWay
      <3> QED BY <3>3, <3>4
    <2>3. CASE u # t
      BY <1>t, <2>1, <2>3 DEF Even, OnTheWay
    <2> QED BY <2>2, <2>3
  <1> QED BY <1>3, <1>4 DEF ProjectionStep

LEMMA WriteKeepsTrack ==
  ASSUME CoreInv, tracked, NEW t \in Targets,
         NEW u \in Targets, NEW v \in Values \cup {NoRow}, WriteContent(u, v),
         u = t \/ TrackOf(t)
  PROVE  TrackOf(t)'
  <1>t. /\ content \in [Targets -> Values \cup {NoRow}]
        /\ queue \in [Targets -> Seq(Values \cup {NoRow})]
        /\ replayed \subseteq {w \in Targets : queue[w] # << >>}
    BY DEF CoreInv, CoreTypes
  <1>m. edge' = edge => Mirrored(t)' = Mirrored(t)
    BY DEF Mirrored, IdsOf
  <1>1. /\ content' = [content EXCEPT ![u] = v]
        /\ queue' = [queue EXCEPT ![u] = Append(@, v)]
        /\ replayed' = replayed /\ Mirrored(t)' = Mirrored(t)
    BY <1>m DEF WriteContent, edgeVars
  <1>2. CASE u = t
    <2>1. /\ content'[t] = v /\ queue'[t] = Append(queue[t], v)
          /\ queue[t] \in Seq(Values \cup {NoRow})
      BY <1>t, <1>1, <1>2
    <2>2. queue'[t] # << >> /\ queue'[t][Len(queue'[t])] = v
      BY <2>1
    <2>3. t \in replayed => Len(queue'[t]) # 1
      BY <1>t, <2>1
    <2> QED BY <1>1, <2>1, <2>2, <2>3 DEF TrackOf, Even, OnTheWay
  <1>3. CASE u # t
    BY <1>t, <1>1, <1>3 DEF TrackOf, Even, OnTheWay
  <1> QED BY <1>2, <1>3

\* Whatever a request writes to a target is what Studio stores of it.
LEMMA RequestsMirrorContent ==
  ASSUME CoreInv, ContentInv, NEW w \in Workers, RequestStep(w), NEW t \in Targets
  PROVE  Mirrored(t)' = Mirrored(t) \/ Mirrored(t)' = content[t]
  <1>1. CASE edge' = edge
    BY <1>1 DEF Mirrored, IdsOf
  <1>2. CASE WritePage(w)
    BY <1>2, WriteEffect DEF ContentInv
  <1>3. CASE DeleteTarget(w) /\ edge' # edge
    <2>1. /\ pc[w] = "delete" /\ SameRow(w)
          /\ Mirrored(t)' = IF edge[Chosen(w)].target = t THEN NoRow ELSE Mirrored(t)
      BY <1>3, DeleteEffect
    <2>2. content[edge[Chosen(w)].target] = NoRow
      BY <2>1 DEF SameRow, ContentInv
    <2> QED BY <2>1, <2>2
  <1> QED BY <1>1, <1>2, <1>3, RequestChanges

\* The other steps leave both sides as they are, or bring them together.
OtherStep ==
  \/ SwitchStep \/ CommentStep \/ (\E op \in Operations : Start(op)) \/ Cancel
  \/ (\E w \in Workers : RequestStep(w)) \/ UNCHANGED vars

LEMMA OthersKeepQueues ==
  ASSUME OtherStep
  PROVE  UNCHANGED <<content, queue, replayed>>
  BY SwitchKeeps, RequestsKeepStudio
     DEF OtherStep, CommentStep, PostComment, DeleteComment, Start, Cancel, vars, studioVars

LEMMA OthersKeepTrack ==
  ASSUME CoreInv, ContentInv, OtherStep, NEW t \in Targets
  PROVE  /\ UNCHANGED <<content, queue, replayed>>
         /\ Mirrored(t)' = Mirrored(t) \/ Mirrored(t)' = content[t]
  <1>m. edge' = edge => Mirrored(t)' = Mirrored(t)
    BY DEF Mirrored, IdsOf
  <1>1. CASE SwitchStep
    BY <1>1, <1>m, SwitchKeeps DEF edgeVars
  <1>2. CASE CommentStep
    <2>1. UNCHANGED <<content, queue, replayed>>
      BY <1>2 DEF CommentStep, PostComment, DeleteComment, studioVars
    <2>2. Mirrored(t)' = Mirrored(t)
      BY <1>2, CommentEffect DEF CommentStep, CoreInv
    <2> QED BY <2>1, <2>2
  <1>3. CASE (\E op \in Operations : Start(op)) \/ Cancel \/ UNCHANGED vars
    BY <1>3, <1>m DEF Start, Cancel, vars, studioVars, edgeVars
  <1>4. ASSUME NEW w \in Workers, RequestStep(w)
        PROVE  /\ UNCHANGED <<content, queue, replayed>>
               /\ Mirrored(t)' = Mirrored(t) \/ Mirrored(t)' = content[t]
    BY <1>4, RequestsKeepStudio, RequestsMirrorContent
  <1> QED BY <1>1, <1>2, <1>3, <1>4 DEF OtherStep

LEMMA TrackKept ==
  ASSUME CoreInv, ContentInv, TrackInv, [Next]_vars
  PROVE  TrackInv'
  <1>t. /\ content \in [Targets -> Values \cup {NoRow}]
        /\ queue \in [Targets -> Seq(Values \cup {NoRow})]
        /\ replayed \subseteq {t \in Targets : queue[t] # << >>}
        /\ activation \in Activations
    BY DEF CoreInv, CoreTypes
  <1>1. ASSUME NEW u \in Targets, NEW v \in Values \cup {NoRow}, WriteContent(u, v)
        PROVE  TrackInv'
    <2>0. /\ tracked' = tracked /\ edge' = edge
          /\ activation' = [activation EXCEPT !.missed =
               IF tracked THEN @ \ {u} ELSE @ \cup ({u} \cap activation.matched)]
          /\ content' = [content EXCEPT ![u] = v]
          /\ ~ tracked => queue' = queue
      BY <1>1 DEF WriteContent, edgeVars
    <2>1. /\ activation'.running = activation.running /\ activation'.matched = activation.matched
          /\ tracked => activation'.missed = activation.missed \ {u}
          /\ ~ tracked => activation'.missed = activation.missed \cup ({u} \cap activation.matched)
      BY <1>t, <2>0 DEF Activations
    <2>2. ASSUME tracked, NEW t \in Targets \ activation'.missed PROVE TrackOf(t)'
      <3>1. u = t \/ TrackOf(t)
        BY <2>1, <2>2 DEF TrackInv
      <3> QED BY <1>1, <2>2, <3>1, WriteKeepsTrack
    <2>3. ASSUME activation.running
          PROVE  /\ ~ tracked /\ NothingPending'
                 /\ \A t \in activation'.matched \ activation'.missed : Mirrored(t)' = content'[t]
      <3>1. ~ tracked /\ NothingPending /\ NothingPending'
        BY <2>0, <2>3 DEF TrackInv, NothingPending
      <3>2. ASSUME NEW t \in activation'.matched \ activation'.missed
            PROVE  Mirrored(t)' = content'[t]
        <4>1. t \in activation.matched \ activation.missed /\ t # u /\ t \in Targets
          BY <1>t, <2>1, <3>1, <3>2 DEF Activations
        <4>2. Mirrored(t) = content[t] /\ Mirrored(t)' = Mirrored(t)
          BY <2>0, <2>3, <4>1 DEF TrackInv, Mirrored, IdsOf
        <4> QED BY <1>t, <2>0, <4>1, <4>2
      <3> QED BY <3>1, <3>2
    <2> QED BY <2>0, <2>1, <2>2, <2>3 DEF TrackInv
  <1>2. CASE ProjectionStep
    <2>1. ~ NothingPending /\ UNCHANGED <<tracked, activation>>
      BY <1>2, <1>t DEF ProjectionStep, Replay, Confirm, NothingPending
    <2>2. ~ activation.running
      BY <2>1 DEF TrackInv
    <2>3. ASSUME tracked, NEW t \in Targets \ activation.missed PROVE TrackOf(t)'
      BY <1>2, <2>3, ProjectionKeepsTrack DEF TrackInv, TrackOf
    <2> QED BY <2>1, <2>2, <2>3 DEF TrackInv
  <1>3. CASE OtherStep
    <2>1. /\ UNCHANGED <<content, queue, replayed>>
          /\ \A t \in Targets : Mirrored(t)' = Mirrored(t) \/ Mirrored(t)' = content[t]
      <3>1. \A t \in Targets :
              /\ UNCHANGED <<content, queue, replayed>>
              /\ Mirrored(t)' = Mirrored(t) \/ Mirrored(t)' = content[t]
        BY <1>3, OthersKeepTrack
      <3> QED BY <1>3, <3>1, OthersKeepQueues
    <2>2. \A t \in Targets : TrackOf(t) => TrackOf(t)'
      BY <1>t, <2>1 DEF TrackOf, Even, OnTheWay
    <2>3. /\ NothingPending => NothingPending'
          /\ \A t \in Targets : Mirrored(t) = content[t] => Mirrored(t)' = content'[t]
      BY <2>1 DEF NothingPending
    <2>4. activation.matched \subseteq Targets /\ activation'.matched \subseteq Targets
      <3>1. activation' \in Activations
        BY CoreKept, <1>3
           DEF CoreInv, CoreTypes, OtherStep, Next, ContentStep
      <3> QED BY <1>t, <3>1 DEF Activations
    <2>5. CASE UNCHANGED <<tracked, activation>>
      BY <2>2, <2>3, <2>4, <2>5 DEF TrackInv
    <2>6. CASE SwitchStep
      <3>1. CASE DisableIntegration
        BY <3>1 DEF DisableIntegration, NoActivation, TrackInv
      <3>2. CASE CountPending
        BY <2>3, <3>2 DEF CountPending, NoActivation, TrackInv
      <3>3. ASSUME NEW u \in Targets, CompareTarget(u) PROVE TrackInv'
        <4>1. /\ activation.running /\ tracked' = tracked
              /\ activation' = IF Mirrored(u) = content[u]
                               THEN [activation EXCEPT !.matched = @ \cup {u}]
                               ELSE NoActivation
          BY <3>3 DEF CompareTarget
        <4>2. CASE Mirrored(u) = content[u]
          <5>1. /\ activation'.running /\ activation'.missed = activation.missed
                /\ activation'.matched = activation.matched \cup {u}
            BY <1>t, <4>1, <4>2 DEF Activations
          <5> QED BY <2>3, <2>4, <4>1, <4>2, <5>1 DEF TrackInv
        <4>3. CASE Mirrored(u) # content[u]
          BY <4>1, <4>3 DEF NoActivation, TrackInv
        <4> QED BY <4>2, <4>3
      <3>4. CASE EnableIntegration
        <4>1. /\ activation.running /\ activation.matched = Targets /\ tracked'
              /\ ~ activation'.running /\ activation'.missed = activation.missed
          BY <3>4 DEF EnableIntegration, NoActivation
        <4>2. ASSUME NEW t \in Targets \ activation.missed PROVE TrackOf(t)
          <5>1. queue[t] = << >> /\ Mirrored(t) = content[t] /\ t \notin replayed
            BY <1>t, <4>1, <4>2 DEF TrackInv, NothingPending
          <5> QED BY <5>1 DEF TrackOf, Even, OnTheWay
        <4> QED BY <2>2, <4>1, <4>2 DEF TrackInv
      <3> QED BY <2>6, <3>1, <3>2, <3>3, <3>4 DEF SwitchStep
    <2> QED BY <1>3, <2>5, <2>6, RequestsKeepStudio
        DEF OtherStep, CommentStep, PostComment, DeleteComment, Start, Cancel, vars, studioVars
  <1> QED BY <1>1, <1>2, <1>3 DEF Next, ContentStep, OtherStep

QuietInv == CoreInv /\ ContentInv

LEMMA ContentInit == Init => ContentInv /\ TrackInv
  <1> SUFFICES ASSUME Init PROVE ContentInv /\ TrackInv
    OBVIOUS
  <1>1. ContentInv
    BY DEF Init, ContentInv
  <1>2. ASSUME tracked, NEW t \in Targets PROVE queue[t] = << >> /\ Mirrored(t) = content[t] /\ t \notin replayed
    BY <1>2, RowsOfContent DEF Init
  <1>3. ~ activation.running
    BY DEF Init, NoActivation
  <1> QED BY <1>1, <1>2, <1>3 DEF TrackInv, TrackOf, Even, OnTheWay

LEMMA QuietlyInvariant ==
  ASSUME QuietSteps
  PROVE  Spec => [](QuietInv /\ TrackInv)
  <1>1. Init => QuietInv /\ TrackInv
    BY CoreInit, ContentInit DEF QuietInv
  <1>2. QuietInv /\ TrackInv /\ [Next]_vars => (QuietInv /\ TrackInv)'
    BY CoreKept, ContentKept, TrackKept DEF QuietInv
  <1> QED BY <1>1, <1>2, PTL DEF Spec

\* TrackedIsCovered: while the integration is enabled, a target that differs
\* from the stored content has a projection on its way, the newest of which
\* carries the content.  Syncs and purges of any number of overlapping,
\* repeated and interrupted requests undo nothing that was projected, and a
\* request that compares the targets one by one before it stores the mode misses
\* no difference but in the targets that are written after their comparison.
THEOREM NothingProjectedIsUndone ==
  ASSUME QuietSteps
  PROVE  Spec => []TrackedIsCovered
  <1>1. TrackInv => TrackedIsCovered
    BY DEF TrackInv, TrackOf, Even, OnTheWay, TrackedIsCovered
  <1> QED BY <1>1, QuietlyInvariant, PTL

\* The Edge rows that a step removes are those of a replayed deletion, or the
\* one that a purge chose.
LEMMA RowsGoBy ==
  ASSUME CoreInv, [Next]_vars, NEW i \in Purged
  PROVE  \E w \in Workers :
           /\ RequestStep(w) /\ DeleteTarget(w) /\ pc[w] = "delete"
           /\ i = Chosen(w) /\ i \in DOMAIN page[w] /\ i \in DOMAIN edge
           /\ SameRow(w) /\ SameCount(w)
  <1>0. /\ i \in DOMAIN edge /\ i \notin DOMAIN edge'
        /\ queue[edge[i].target] = << >> \/ Head(queue[edge[i].target]) # NoRow
    BY DEF Purged
  <1>1. ASSUME NEW t \in Targets, Replay(t) PROVE FALSE
    BY <1>0, <1>1, ReplayEffect
  <1>2. ~ CommentStep
    <2>1. EdgeInv
      BY DEF CoreInv
    <2> QED BY <1>0, <2>1, CommentEffect DEF CommentStep
  <1>3. edge' # edge
    BY <1>0
  <1>4. PICK w \in Workers : RequestStep(w)
    BY <1>1, <1>2, <1>3, SwitchKeeps
       DEF Next, ContentStep, WriteContent, ProjectionStep, Confirm, Start,
           Cancel, vars, edgeVars
  <1>5. DeleteTarget(w)
    BY <1>0, <1>3, <1>4, RequestChanges, WriteEffect
  <1>6. /\ pc[w] = "delete" /\ Chosen(w) \in DOMAIN page[w] \cap DOMAIN edge
        /\ SameRow(w) /\ SameCount(w) /\ DOMAIN edge' = DOMAIN edge \ {Chosen(w)}
    BY <1>3, <1>5, DeleteEffect
  <1>7. i = Chosen(w)
    BY <1>0, <1>6
  <1> HIDE DEF Chosen, SameRow, SameCount, DeleteTarget, RequestStep
  <1> QED BY <1>0, <1>4, <1>5, <1>6, <1>7

\* PurgeSparesContent: between the look-up of a target and the deletion of its
\* Edge row no content is written, so no purge removes the target of a Post or
\* Page that exists.
THEOREM ContentIsSpared ==
  ASSUME QuietSteps
  PROVE  Spec => PurgeSparesContent
  <1>1. ASSUME QuietInv, [Next]_vars, NEW i \in Purged PROVE content[edge[i].target] = NoRow
    <2>1. PICK w \in Workers : pc[w] = "delete" /\ i = Chosen(w) /\ SameRow(w)
      BY <1>1, RowsGoBy DEF QuietInv
    <2> QED BY <1>1, <2>1 DEF QuietInv, ContentInv, SameRow
  <1>2. QuietInv /\ [Next]_vars => [\A i \in Purged : content[edge[i].target] = NoRow]_vars
    BY <1>1
  <1> QED BY <1>2, QuietlyInvariant, PTL DEF Spec, PurgeSparesContent

-----------------------------------------------------------------------------
(* Completion *)

\* Where the rows come from that a request has read and is about to store.
LEMMA WhatRequestsRead ==
  ASSUME CoreInv, NEW w \in Workers, RequestStep(w), Busy(w)'
  PROVE  \/ /\ pc[w] = "idle" /\ ~ Advances(w)' /\ view'[w] = state
            /\ pc'[w] \in {"step", "purge", "finalize"}
            /\ UNCHANGED <<state, orphans, edge, disturbed, checks, page>>
         \/ /\ Busy(w) /\ view'[w] = view[w] /\ ~ Advance(w) /\ ~ Finalize(w)
            /\ Advances(w)' =>
                 \/ Advances(w) /\ after'[w] = after[w]
                 \/ CountRemaining(w) /\ NothingPending
                 \/ ReadPage(w) \/ ScanPage(w)
  <1>t. /\ DOMAIN pc = Workers /\ DOMAIN view = Workers /\ DOMAIN after = Workers
        /\ DOMAIN page = Workers /\ DOMAIN checks = Workers
    BY DEF CoreInv, CoreTypes
  <1>1. CASE \E step \in {"step", "purge", "finalize"} : ReadState(w, step)
    BY <1>1, <1>t DEF ReadState, GoTo, Advances, ScanSteps, edgeVars, countVars, historyVars
  <1>2. CASE CountRemaining(w) \/ ReadPage(w) \/ ScanPage(w)
    BY <1>2, <1>t
       DEF CountRemaining, ReadPage, ScanPage, GoTo, Return, Leave, Advances, ScanSteps, Busy,
           Advance, Finalize
  <1>3. CASE WritePage(w) \/ LookUpContent(w) \/ CountComments(w) \/ ListOrphans(w)
    BY <1>3, <1>t
       DEF WritePage, LookUpContent, CountComments, ListOrphans, GoTo, Drop, Return, Leave,
           Advances, ScanSteps, Busy, Advance, Finalize
  <1>4. CASE Advance(w) \/ FinishPurge(w) \/ Finalize(w) \/ Abandon(w) \/ Recover(w)
    BY <1>4, <1>t DEF Advance, FinishPurge, Finalize, Abandon, Recover, Return, Leave, Busy
  <1>5. CASE (\E i \in DOMAIN orphans : ReadOrphan(w, i)) \/ LookUpOrphan(w) \/ Unlist(w)
    BY <1>5, <1>t
       DEF ReadOrphan, LookUpOrphan, Unlist, GoTo, Drop, Advances, ScanSteps, Busy,
           Advance, Finalize
  <1>6. CASE ReadCurrent(w) \/ RecountComments(w) \/ DeleteTarget(w)
    BY <1>6, <1>t
       DEF ReadCurrent, RecountComments, DeleteTarget, KeepTarget, GoTo, Drop, Advances,
           ScanSteps, Busy, Advance, Finalize
  <1>7. CASE \E c \in Conditions : CheckCondition(w, c)
    BY <1>7, <1>t
       DEF CheckCondition, Return, Leave, Advances, ScanSteps, Busy, Advance, Finalize
  <1> QED BY <1>1, <1>2, <1>3, <1>4, <1>5, <1>6, <1>7
      DEF RequestStep, AdvanceStep, PurgeStep, FinalizeStep

\* Without a stored operation no request is a current one.
NothingStored ==
  /\ \A w \in Workers : ~ Current(w)
  /\ ~ Drained(state) /\ ~ disturbed /\ orphans = Empty

LEMMA NoneIsCurrent == CoreInv /\ state = NoOperation => NothingStored
  <1> SUFFICES ASSUME CoreInv, state = NoOperation PROVE NothingStored
    OBVIOUS
  <1>1. ASSUME NEW w \in Workers PROVE ~ Current(w)
    <2>1. Busy(w) => IsOperation(view[w])
      BY DEF CoreInv, RequestInv, RequestOf
    <2> QED BY <2>1, TargetTypes DEF Current, IsOperation, NoOperation
  <1> QED BY <1>1 DEF NothingStored, Drained, Phases, NoOperation, CoreInv, CoreTypes

\* The outbox was found empty for the stored operation before, or it is now, by
\* a request.
LEMMA DrainSeenFirst ==
  ASSUME CoreInv, [Next]_vars, DrainSeen'
  PROVE  /\ state' # NoOperation
         /\ \/ DrainSeen
            \/ NothingPending /\ \E w \in Workers : RequestStep(w)
  <1>c. CoreInv /\ CoreInv'
    BY CoreKept
  <1>n. state' # NoOperation
    <2>1. CoreInv' /\ (state = NoOperation)' => NothingStored'
      BY NoneIsCurrent, PTL
    <2> QED BY <1>c, <2>1 DEF NothingStored, DrainSeen
  <1>1. CASE UNCHANGED <<requestVars, state>>
    <2>1. UNCHANGED <<pc, view, after, state>>
      BY <1>1 DEF requestVars
    <2> QED BY <1>n, <2>1 DEF DrainSeen, Current, Busy, Advances, Drained
  <1>2. ASSUME NEW op \in Operations, Start(op) PROVE FALSE
    <2>1. /\ UNCHANGED requestVars /\ \A w \in Workers : view[w].op # op
          /\ state' = [NoOperation EXCEPT !.op = op, !.phase = "drain_outbox"]
      BY <1>2 DEF Start
    <2>2. state'.op = op /\ state'.phase = "drain_outbox"
      BY <2>1 DEF NoOperation
    <2> QED BY <2>1, <2>2 DEF DrainSeen, Current, Drained, requestVars
  <1>3. ASSUME NEW w \in Workers, RequestStep(w)
        PROVE  DrainSeen \/ NothingPending
    <2>0. state' = state \/ Advance(w)
      BY <1>3, <1>n, RequestChanges DEF RemoveOperation
    <2>1. state'.op = state.op /\ (Drained(state') => DrainSeen)
      <3>1. CASE state' = state
        BY <3>1 DEF DrainSeen
      <3>2. CASE Advance(w) /\ state' # state
        <4>1. /\ state = view[w] /\ state' = after[w] /\ after[w].op = state.op
              /\ pc[w] = "advance"
          BY <1>c, <3>2, AdvanceStores DEF Advance
        <4>2. Current(w) /\ Advances(w)
          BY <4>1 DEF Current, Busy, Advances
        <4> QED BY <4>1, <4>2 DEF DrainSeen
      <3> QED BY <2>0, <3>1, <3>2
    <2>2. CASE Drained(state)'
      BY <2>1, <2>2 DEF Drained
    <2>3. ASSUME NEW v \in Workers, Current(v)',
                 Drained(view'[v]) \/ (Advances(v)' /\ Drained(after'[v]))
          PROVE  DrainSeen \/ NothingPending
      <3>1. CASE v # w
        <4>1. pc'[v] = pc[v] /\ view'[v] = view[v] /\ after'[v] = after[v]
          BY <1>3, <3>1, OthersKeep DEF Untouched, CoreInv
        <4> QED BY <2>1, <2>3, <4>1 DEF DrainSeen, Current, Busy, Advances
      <3>2. CASE v = w
        <4>1. Busy(w)'
          BY <2>3, <3>2 DEF Current
        <4>2. CASE ~ Advances(w)' /\ view'[w] = state
          BY <2>3, <3>2, <4>2 DEF DrainSeen
        <4>3. CASE Busy(w) /\ view'[w] = view[w]
                   /\ (Advances(w)' =>
                         \/ Advances(w) /\ after'[w] = after[w]
                         \/ CountRemaining(w) /\ NothingPending
                         \/ ReadPage(w) \/ ScanPage(w))
          <5>1. Current(w)
            BY <2>1, <2>3, <3>2, <4>3 DEF Current
          <5>2. ReadPage(w) \/ ScanPage(w) => Drained(view[w])
            BY DEF ReadPage, ScanPage, Drained, Phases
          <5> QED BY <2>3, <3>2, <4>3, <5>1, <5>2 DEF DrainSeen
        <4> QED BY <1>3, <4>1, <4>2, <4>3, WhatRequestsRead
      <3> QED BY <3>1, <3>2
    <2> QED BY <2>2, <2>3 DEF DrainSeen, Drained
  <1> QED BY <1>n, <1>1, <1>2, <1>3, SwitchKeeps
      DEF Next, ContentStep, WriteContent, ProjectionStep, Replay, Confirm, CommentStep,
          PostComment, DeleteComment, Cancel, RemoveOperation, vars, requestVars, studioVars

\* An untracked write over a pending projection is the one step that leaves an
\* older value on its way.
LEMMA OnTheWayKept ==
  ASSUME QuietInv, [Next]_vars, NEW t \in Targets, OnTheWay(t)
  PROVE  \/ OnTheWay(t)'
         \/ /\ ~ tracked /\ queue[t] # << >>
            /\ \E v \in Values \cup {NoRow} : WriteContent(t, v)
  <1>t. /\ content \in [Targets -> Values \cup {NoRow}]
        /\ queue \in [Targets -> Seq(Values \cup {NoRow})]
        /\ replayed \subseteq {u \in Targets : queue[u] # << >>}
        /\ CoreInv /\ ContentInv
    BY DEF QuietInv, CoreInv, CoreTypes
  <1>1. ASSUME NEW u \in Targets, NEW v \in Values \cup {NoRow}, WriteContent(u, v),
               tracked \/ queue[t] = << >> \/ u # t
        PROVE  OnTheWay(t)'
    <2>1. CASE tracked /\ u = t
      BY <1>t, <1>1, <2>1, WriteKeepsTrack DEF TrackOf
    <2>2. CASE ~ tracked /\ u = t
      <3>1. queue'[t] = << >> /\ replayed' = replayed
        BY <1>1, <2>2 DEF WriteContent
      <3>2. t \notin replayed
        BY <1>t, <1>1, <2>2
      <3> QED BY <3>1, <3>2 DEF OnTheWay
    <2>3. CASE u # t
      <3>1. /\ content' = [content EXCEPT ![u] = v] /\ replayed' = replayed /\ edge' = edge
            /\ queue' = IF tracked THEN [queue EXCEPT ![u] = Append(@, v)] ELSE queue
        BY <1>1 DEF WriteContent, edgeVars
      <3>2. content'[t] = content[t] /\ queue'[t] = queue[t] /\ Mirrored(t)' = Mirrored(t)
        BY <1>t, <2>3, <3>1 DEF Mirrored, IdsOf
      <3> QED BY <3>1, <3>2 DEF OnTheWay
    <2> QED BY <2>1, <2>2, <2>3
  <1>2. CASE ProjectionStep
    BY <1>t, <1>2, ProjectionKeepsTrack
  <1>3. CASE OtherStep
    BY <1>t, <1>3, OthersKeepTrack DEF OnTheWay
  <1> QED BY <1>1, <1>2, <1>3 DEF Next, ContentStep, OtherStep

LEMMA DrainKept ==
  ASSUME QuietSteps, QuietInv, DrainInv, [Next]_vars
  PROVE  DrainInv'
  <1>c. CoreInv /\ CoreTypes /\ ContentInv
    BY DEF QuietInv, CoreInv
  <1> SUFFICES ASSUME DrainSeen'
               PROVE  /\ ~ disturbed' => NothingPending'
                      /\ \A t \in Targets \ overtaken' : OnTheWay(t)'
    BY DEF DrainInv
  <1>0. state' # NoOperation
    BY <1>c, DrainSeenFirst
  <1>1. ASSUME NEW u \in Targets, NEW v \in Values \cup {NoRow}, WriteContent(u, v)
        PROVE  /\ ~ disturbed' => NothingPending'
               /\ \A t \in Targets \ overtaken' : OnTheWay(t)'
    <2>1. disturbed' /\ state' = state
      BY <1>0, <1>1 DEF WriteContent
    <2>2. Drained(state) /\ DrainSeen
      <3>1. \A w \in Workers : ~ Busy(w)' 
        BY <1>1 DEF WriteContent, RequestsIdle, Busy, requestVars
      <3>2. Drained(state)'
        BY <3>1 DEF DrainSeen, Current
      <3> QED BY <2>1, <3>2 DEF Drained, DrainSeen
    <2>3. ASSUME NEW t \in Targets \ overtaken' PROVE OnTheWay(t)'
      <3>1. overtaken' = IF tracked THEN overtaken \ {u}
                         ELSE IF queue[u] # << >> /\ state.phase \notin {"none", "drain_outbox"}
                              THEN overtaken \cup {u} ELSE overtaken
        BY <1>1 DEF WriteContent
      <3>2. CASE tracked /\ t = u
        BY <1>c, <1>1, <3>2, WriteKeepsTrack DEF TrackOf
      <3>3. CASE ~ (tracked /\ t = u)
        <4>1. t \notin overtaken /\ (t = u => queue[t] = << >>)
          BY <2>2, <2>3, <3>1, <3>3 DEF Drained, Phases
        <4>2. OnTheWay(t)
          BY <2>2, <4>1 DEF DrainInv
        <4>3. \A x \in Values \cup {NoRow} : WriteContent(t, x) => t = u
          <5>1. ASSUME NEW x \in Values \cup {NoRow}, WriteContent(t, x), t # u PROVE FALSE
            <6>1. /\ content' = [content EXCEPT ![u] = v] /\ v # content[u]
                  /\ content' = [content EXCEPT ![t] = x] /\ x # content[t]
              BY <1>1, <5>1 DEF WriteContent
            <6>2. content'[u] = v /\ content'[u] = content[u]
              BY <1>c, <5>1, <6>1 DEF CoreTypes
            <6> QED BY <6>1, <6>2
          <5> QED BY <5>1
        <4> QED BY <4>1, <4>2, <4>3, OnTheWayKept
      <3> QED BY <3>2, <3>3
    <2> QED BY <2>1, <2>3
  <1>2. CASE ProjectionStep
    <2>1. ~ NothingPending /\ UNCHANGED <<state, requestVars, disturbed, overtaken>>
      BY <1>c, <1>2
         DEF ProjectionStep, Replay, Confirm, NothingPending, CoreTypes, countVars, historyVars
    <2>2. DrainSeen
      BY <1>c, <2>1, DrainSeenFirst
    <2>3. disturbed' /\ \A t \in Targets \ overtaken' : OnTheWay(t)
      BY <2>1, <2>2 DEF DrainInv
    <2>4. \A t \in Targets \ overtaken' : OnTheWay(t)'
      BY <1>c, <1>2, <2>3, ProjectionKeepsTrack
    <2> QED BY <2>3, <2>4
  <1>3. CASE OtherStep
    <2>1. UNCHANGED <<queue, replayed>>
      BY <1>3, SwitchKeeps, RequestsKeepStudio
         DEF OtherStep, CommentStep, PostComment, DeleteComment, Start, Cancel, vars, studioVars
    <2>2. UNCHANGED <<disturbed, overtaken>>
      BY <1>0, <1>3, <1>c, SwitchKeeps, RequestChanges
         DEF OtherStep, CommentStep, PostComment, DeleteComment, Start, Cancel, RemoveOperation,
             vars, countVars, historyVars
    <2>3. NothingPending => NothingPending'
      BY <2>1 DEF NothingPending
    <2>4. CASE DrainSeen
      <3>1. ASSUME NEW t \in Targets \ overtaken' PROVE OnTheWay(t)'
        <4>1. OnTheWay(t)
          BY <2>2, <2>4, <3>1 DEF DrainInv
        <4> QED BY <1>3, <1>c, <3>1, <4>1, OthersKeepTrack DEF OnTheWay
      <3> QED BY <2>2, <2>3, <2>4, <3>1 DEF DrainInv
    <2>5. CASE NothingPending
      <3>1. \A t \in Targets : queue'[t] = << >> /\ t \notin replayed'
        BY <1>c, <2>1, <2>5 DEF NothingPending, CoreTypes
      <3> QED BY <2>3, <2>5, <3>1 DEF OnTheWay
    <2> QED BY <1>c, <2>4, <2>5, DrainSeenFirst
  <1> QED BY <1>1, <1>2, <1>3 DEF Next, ContentStep, OtherStep

LEMMA ChecksOfStep ==
  ASSUME CoreInv, NEW w \in Workers, RequestStep(w)
  PROVE  \/ checks'[w] = {}
         \/ checks'[w] = checks[w] /\ pc[w] # "finalize"
         \/ \E c \in Conditions :
              /\ CheckCondition(w, c) /\ Holds(w, c)
              /\ pc'[w] = "finalize" /\ checks'[w] = checks[w] \cup {c}
              /\ UNCHANGED <<edge, state, view, pc>>
  <1>t. DOMAIN checks = Workers
    BY DEF CoreInv, CoreTypes
  <1>1. CASE \E c \in Conditions : CheckCondition(w, c)
    BY <1>1, <1>t DEF CheckCondition, Return, Leave, edgeVars
  <1>2. CASE (\E step \in {"step", "purge", "finalize"} : ReadState(w, step)) \/ AdvanceStep(w)
    BY <1>2, <1>t
       DEF AdvanceStep, ReadState, CountRemaining, ReadPage, WritePage, ScanPage, LookUpContent,
           CountComments, ListOrphans, Advance, Return, Leave
  <1>3. CASE PurgeStep(w) \/ Finalize(w) \/ Abandon(w) \/ Recover(w)
    BY <1>3, <1>t
       DEF PurgeStep, ReadOrphan, LookUpOrphan, ReadCurrent, RecountComments, DeleteTarget,
           Unlist, FinishPurge, Finalize, Abandon, Recover, Return, Leave
  <1> QED BY <1>1, <1>2, <1>3 DEF RequestStep, FinalizeStep

\* No step of anybody but a writer takes two equal sides apart.
LEMMA SettledKept ==
  ASSUME QuietInv, DrainInv, DrainSeen, ProjectionStep \/ OtherStep, overtaken' = overtaken,
         NEW T \in SUBSET Targets, Settled(T)
  PROVE  Settled(T)'
  <1>c. CoreInv /\ ContentInv
    BY DEF QuietInv
  <1> SUFFICES ASSUME NEW t \in T \ overtaken PROVE Even(t)'
    BY DEF Settled
  <1>1. Even(t) /\ OnTheWay(t)
    BY DEF Settled, DrainInv
  <1>2. CASE ProjectionStep
    BY <1>c, <1>1, <1>2, ProjectionKeepsTrack
  <1>3. CASE OtherStep
    BY <1>c, <1>1, <1>3, OthersKeepTrack DEF Even
  <1> QED BY <1>2, <1>3

LEMMA FinalizeKept ==
  ASSUME QuietSteps, QuietInv, DrainInv, FinalizeInv, [Next]_vars
  PROVE  FinalizeInv'
  <1>c. CoreInv /\ ContentInv /\ CoreInv'
    BY CoreKept DEF QuietInv
  <1> SUFFICES ASSUME NEW v \in Workers PROVE FinalizeOf(v)'
    BY DEF FinalizeInv
  <1>k. FinalizeOf(v)
    BY DEF FinalizeInv
  <1>q. queue' = queue => (NothingPending <=> NothingPending')
    BY DEF NothingPending
  <1>p. Posts \in SUBSET Targets /\ Pages \in SUBSET Targets
    BY DEF Targets
  <1>d. pc[v] = "finalize" /\ Current(v) => DrainSeen
    <2>1. pc[v] = "finalize" => view[v].phase = "orphan_review"
      BY <1>c DEF CoreInv, RequestInv, RequestOf, IsInPhase
    <2> QED BY <2>1 DEF DrainSeen, Drained, Phases
  <1>n. state' = NoOperation => ~ Current(v)'
    <2>1. CoreInv' /\ (state = NoOperation)' => NothingStored'
      BY NoneIsCurrent, PTL
    <2> QED BY <1>c, <2>1 DEF NothingStored
  <1>s. ASSUME pc'[v] = pc[v], checks'[v] = checks[v], view'[v] = view[v],
               ProjectionStep \/ OtherStep,
               NothingPending => NothingPending',
               Current(v)' => Current(v) /\ overtaken' = overtaken
        PROVE  FinalizeOf(v)'
    <2>1. ASSUME pc[v] = "finalize", Current(v)'
          PROVE  (Settled(Posts) => Settled(Posts)') /\ (Settled(Pages) => Settled(Pages)')
      BY <1>d, <1>p, <1>s, <2>1, SettledKept
    <2> HIDE DEF Settled, NothingPending, Current
    <2> QED BY <1>k, <1>s, <2>1 DEF FinalizeOf
  <1>1. ASSUME NEW t \in Targets, NEW x \in Values \cup {NoRow}, WriteContent(t, x)
        PROVE  FinalizeOf(v)'
    BY <1>1, <1>k DEF WriteContent, RequestsIdle, requestVars, FinalizeOf
  <1>2. CASE ProjectionStep \/ SwitchStep \/ CommentStep \/ UNCHANGED vars
    <2>1. UNCHANGED <<requestVars, state, overtaken>>
      BY <1>2, SwitchKeeps
         DEF ProjectionStep, Replay, Confirm, CommentStep, PostComment, DeleteComment, vars,
             countVars, historyVars
    <2>2. NothingPending => NothingPending'
      <3>1. CASE ProjectionStep
        BY <1>c, <3>1
           DEF ProjectionStep, Replay, Confirm, NothingPending, CoreInv, CoreTypes
      <3>2. CASE SwitchStep \/ CommentStep \/ UNCHANGED vars
        BY <1>q, <3>2, SwitchKeeps
           DEF CommentStep, PostComment, DeleteComment, studioVars, vars
      <3> QED BY <1>2, <3>1, <3>2
    <2>3. (Current(v)' <=> Current(v))
      BY <2>1 DEF Current, Busy, requestVars
    <2> HIDE DEF NothingPending, Current
    <2> QED BY <1>2, <1>s, <2>1, <2>2, <2>3 DEF requestVars, OtherStep
  <1>3. CASE (\E op \in Operations : Start(op)) \/ Cancel
    <2>1. UNCHANGED <<requestVars, queue>>
      BY <1>3 DEF Start, Cancel, studioVars
    <2>2. ~ Current(v)'
      <3>1. CASE Cancel
        BY <1>n, <3>1 DEF Cancel, RemoveOperation
      <3>2. ASSUME NEW op \in Operations, Start(op) PROVE view[v].op # op /\ state'.op = op
        BY <3>2 DEF Start, NoOperation
      <3> QED BY <1>3, <2>1, <3>1, <3>2 DEF Current, requestVars
    <2> HIDE DEF NothingPending, Current
    <2> QED BY <1>3, <1>q, <1>s, <2>1, <2>2 DEF requestVars, OtherStep
  <1>4. ASSUME NEW w \in Workers, RequestStep(w) PROVE FinalizeOf(v)'
    <2>1. UNCHANGED <<content, tracked, queue>>
      BY <1>4, RequestsKeepStudio
    <2>2. OtherStep
      BY <1>4 DEF OtherStep
    <2>3. /\ state' = NoOperation \/ state'.op = state.op
          /\ state' = NoOperation \/ overtaken' = overtaken
      BY <1>4, <1>c, RequestChanges, AdvanceStores DEF RemoveOperation
    <2>4. CASE v # w
      <3>1. pc'[v] = pc[v] /\ view'[v] = view[v] /\ checks'[v] = checks[v]
        BY <1>4, <1>c, <2>4, OthersKeep DEF Untouched, CoreInv
      <3>2. Current(v)' => Current(v) /\ overtaken' = overtaken
        BY <1>n, <2>3, <3>1 DEF Current, Busy
      <3> HIDE DEF NothingPending, Current
      <3> QED BY <1>q, <1>s, <2>1, <2>2, <3>1, <3>2
    <2>5. CASE v = w /\ checks'[w] = {}
      BY <2>5 DEF FinalizeOf
    <2>6. CASE v = w /\ checks'[w] = checks[w] /\ pc[w] # "finalize"
      BY <1>k, <2>6 DEF FinalizeOf
    <2>7. CASE v = w /\ \E c \in Conditions :
                 /\ CheckCondition(w, c) /\ Holds(w, c)
                 /\ pc'[w] = "finalize" /\ checks'[w] = checks[w] \cup {c}
                 /\ UNCHANGED <<edge, state, view, pc>>
      <3>1. PICK c \in Conditions :
                 /\ Holds(w, c) /\ pc[w] = "finalize"
                 /\ pc'[w] = "finalize" /\ checks'[w] = checks[w] \cup {c}
                 /\ UNCHANGED <<edge, state, view, pc, overtaken>>
        BY <2>7 DEF CheckCondition, countVars, historyVars
      <3>2. /\ c = "pending" => NothingPending
            /\ c = "posts" => Settled(Posts)
            /\ c = "pages" => Settled(Pages)
        BY <3>1 DEF Holds, Matches, Settled, Even
      <3>3. /\ NothingPending => NothingPending'
            /\ Settled(Posts) => Settled(Posts)'
            /\ Settled(Pages) => Settled(Pages)'
        BY <1>q, <2>1, <3>1 DEF Settled, Even, Mirrored, IdsOf
      <3>4. Current(w)' <=> Current(w)
        BY <3>1 DEF Current, Busy
      <3> HIDE DEF NothingPending, Current, Settled
      <3> QED BY <1>k, <2>1, <2>7, <3>1, <3>2, <3>3, <3>4 DEF FinalizeOf
    <2> QED BY <1>4, <1>c, <2>4, <2>5, <2>6, <2>7, ChecksOfStep
  <1> QED BY <1>1, <1>2, <1>3, <1>4 DEF Next, ContentStep

LEMMA CompletionInit == Init => DrainInv /\ FinalizeInv
  <1> SUFFICES ASSUME Init PROVE DrainInv /\ FinalizeInv
    OBVIOUS
  <1>1. DrainInv
    BY DEF Init, DrainInv, NothingPending, OnTheWay
  <1>2. FinalizeInv
    BY DEF Init, FinalizeInv, FinalizeOf
  <1> QED BY <1>1, <1>2

LEMMA CompletionInvariant ==
  ASSUME QuietSteps
  PROVE  Spec => [](DrainInv /\ FinalizeInv)
  <1>1. Init => DrainInv /\ FinalizeInv
    BY CompletionInit
  <1>2. QuietInv /\ DrainInv /\ FinalizeInv /\ [Next]_vars => (DrainInv /\ FinalizeInv)'
    BY DrainKept, FinalizeKept DEF QuietInv
  <1> QED BY <1>1, <1>2, QuietlyInvariant, PTL DEF Spec

\* CompletionIsTruthful: an operation that is completed leaves nothing pending
\* and both databases equal, although its conditions were read one by one while
\* other requests ran, projections were drained, the integration was switched
\* off and on and comments were posted; but for targets that were written,
\* while it was off, over a pending projection.
THEOREM CompletionHolds ==
  ASSUME QuietSteps
  PROVE  Spec => CompletionIsTruthful
  <1> DEFINE Inv == QuietInv /\ DrainInv /\ FinalizeInv
             Truthful == \A w \in Workers :
               pc[w] = "finalize" /\ InProgress /\ state' = NoOperation /\ pc'[w] = "idle" =>
                 /\ NothingPending'
                 /\ \A t \in Targets \ overtaken : (Mirrored(t) = content[t])'
  <1>1. ASSUME Inv, Next, NEW w \in Workers,
               pc[w] = "finalize", state # NoOperation, state' = NoOperation, pc'[w] = "idle"
        PROVE  NothingPending' /\ \A t \in Targets \ overtaken : (Mirrored(t) = content[t])'
    <2>c. CoreInv
      BY <1>1 DEF QuietInv
    <2>1. PICK v \in Workers : RequestStep(v)
      BY <1>1, OnlyRequestsStep DEF requestVars
    <2>2. v = w
      BY <1>1, <2>1, <2>c, OthersKeep DEF Untouched, CoreInv
    <2>3. Finalize(w) /\ RemoveOperation
      BY <1>1, <2>1, <2>2, <2>c, RequestChanges DEF Advance
    <2>4. /\ checks[w] = Conditions /\ state.op = view[w].op
          /\ UNCHANGED <<content, queue, edge>>
      BY <1>1, <2>3 DEF Finalize, studioVars, edgeVars
    <2>5. Current(w)
      BY <1>1, <2>4 DEF Current, Busy
    <2>6. NothingPending /\ Settled(Posts) /\ Settled(Pages)
      BY <1>1, <2>4, <2>5 DEF FinalizeInv, FinalizeOf, Conditions
    <2>7. ASSUME NEW t \in Targets \ overtaken PROVE (Mirrored(t) = content[t])'
      <3>1. Even(t) /\ queue[t] = << >>
        BY <2>6 DEF Settled, Targets, NothingPending
      <3> QED BY <2>4, <3>1 DEF Even, Mirrored, IdsOf
    <2>8. NothingPending'
      BY <2>4, <2>6 DEF NothingPending
    <2> QED BY <2>7, <2>8
  <1>2. Inv /\ [Next]_vars => [Truthful]_vars
    BY <1>1 DEF InProgress
  <1>3. [][Truthful]_vars => CompletionIsTruthful
    BY DEF CompletionIsTruthful
  <1> HIDE DEF Truthful
  <1> QED BY <1>2, <1>3, QuietlyInvariant, CompletionInvariant, PTL DEF Spec

-----------------------------------------------------------------------------
(* The cursors *)

\* A step without content writes: what mirrors its content goes on doing so, and
\* every Edge row without content was there before, for the same target.
Steady ==
  /\ content' = content
  /\ \A t \in Targets : content[t] # NoRow /\ Mirrored(t) = content[t] => Mirrored(t)' = content[t]
  /\ \A i \in DOMAIN edge' : content[edge'[i].target] = NoRow =>
       i \in DOMAIN edge /\ edge'[i].target = edge[i].target

\* A step that takes no orphan from the list.
ListSteady == \A i \in DOMAIN orphans : IsOrphan(i) => i \in DOMAIN orphans'

LEMMA SteadyKeeps ==
  ASSUME Steady, ListSteady, NEW s, NEW T, NEW rows, PassedBy(s) \subseteq Targets
  PROVE  /\ SyncedTo(s, T) => SyncedTo(s, T)'
         /\ ListedTo(s, rows) => ListedTo(s, rows)'
         /\ \A i : IsOrphan(i)' => IsOrphan(i)
  <1>1. \A i : IsOrphan(i)' => IsOrphan(i) /\ edge'[i].target = edge[i].target
    BY DEF Steady, IsOrphan
  <1>2. SyncedTo(s, T) => SyncedTo(s, T)'
    BY DEF SyncedTo, Steady, PassedBy
  <1>3. ListedTo(s, rows) => ListedTo(s, rows)'
    <2> SUFFICES ASSUME ListedTo(s, rows), NEW i \in DOMAIN edge', ScannedBy(s, i), IsOrphan(i)'
                 PROVE  i \in DOMAIN orphans' \/ (i \in DOMAIN rows /\ rows[i].target = edge'[i].target)
      BY DEF ListedTo, ScannedBy
    <2>1. IsOrphan(i) /\ edge'[i].target = edge[i].target /\ i \in DOMAIN edge
      BY <1>1 DEF IsOrphan
    <2> QED BY <2>1 DEF ListedTo, ListSteady
  <1> QED BY <1>1, <1>2, <1>3

LEMMA PassedAreTargets ==
  ASSUME NEW s
  PROVE  PassedBy(s) \subseteq Targets
  BY DEF PassedBy, Targets

LEMMA RequestsAreSteady ==
  ASSUME QuietInv, NEW w \in Workers, RequestStep(w)
  PROVE  Steady
  <1>c. CoreInv /\ ContentInv
    BY DEF QuietInv
  <1>1. content' = content
    BY RequestsKeepStudio
  <1>2. \A t \in Targets : Mirrored(t)' = Mirrored(t) \/ Mirrored(t)' = content[t]
    BY <1>c, RequestsMirrorContent
  <1>3. ASSUME NEW i \in DOMAIN edge', content[edge'[i].target] = NoRow
        PROVE  i \in DOMAIN edge /\ edge'[i].target = edge[i].target
    <2>1. CASE edge' = edge
      BY <2>1
    <2>2. CASE WritePage(w)
      BY <1>3, <1>c, <2>2, WriteEffect DEF ContentInv
    <2>3. CASE DeleteTarget(w) /\ edge' # edge
      BY <1>c, <2>3, DeleteEffect
    <2> QED BY <1>c, <2>1, <2>2, <2>3, RequestChanges
  <1> QED BY <1>1, <1>2, <1>3 DEF Steady

\* Before the drain has ended, nothing was passed.
LEMMA NothingPassed ==
  ASSUME EdgeInv, NEW s, s = NoOperation \/ IsOperation(s),
         ~ Drained(s) \/ (s.phase = "sync_posts" /\ s.cursor = 0 /\ s.edgeCursor = 0),
         NEW T, NEW rows
  PROVE  SyncedTo(s, T) /\ ListedTo(s, rows)
  <1>1. s.cursor = 0 /\ s.edgeCursor = 0 /\ s.phase \in {"none", "drain_outbox", "sync_posts"}
    BY DEF NoOperation, IsOperation, Drained
  <1>2. PassedBy(s) = {}
    BY <1>1, TargetTypes DEF PassedBy, Targets
  <1>3. \A i \in DOMAIN edge : i \in Nat \ {0} /\ ~ ScannedBy(s, i)
    BY <1>1 DEF EdgeInv, AreRows, ScannedBy
  <1> QED BY <1>2, <1>3 DEF SyncedTo, ListedTo

LEMMA NothingStarted ==
  ASSUME CoreInv, state = NoOperation \/ state.phase = "drain_outbox",
         orphans = Empty, \A w \in Workers : ~ Current(w)
  PROVE  CursorInv
  <1>1. EdgeInv /\ (state = NoOperation \/ IsOperation(state))
    BY DEF CoreInv, CoreTypes
  <1>2. ~ Drained(state)
    BY DEF Drained, NoOperation, Phases
  <1>3. SyncedTo(state, {}) /\ ListedTo(state, Empty)
    BY <1>1, <1>2, NothingPassed
  <1> QED BY <1>3, NoRows DEF CursorInv, Missing

LEMMA ListIsSteady ==
  ASSUME CoreInv, CursorInv, ~ disturbed, NEW w \in Workers, RequestStep(w), state' # NoOperation
  PROVE  ListSteady
  <1>1. CASE orphans' = orphans
    BY <1>1 DEF ListSteady
  <1>2. CASE ListOrphans(w)
    <2>1. orphans' = orphans \/ DOMAIN orphans' = DOMAIN page[w] \cup DOMAIN orphans
      BY <1>2 DEF ListOrphans
    <2> QED BY <2>1 DEF ListSteady
  <1>3. CASE Unlist(w) /\ orphans' # orphans
    <2>1. /\ pc[w] = "unlist" /\ state.op = view[w].op
          /\ DOMAIN orphans' = DOMAIN orphans \ {Chosen(w)}
      BY <1>3 DEF Unlist, Listed, Restrict
    <2>2. ~ IsOrphan(Chosen(w))
      BY <2>1 DEF CursorInv, Current, Busy, StepKeeps
    <2> QED BY <2>1, <2>2 DEF ListSteady
  <1> QED BY <1>1, <1>2, <1>3, RequestChanges DEF RemoveOperation

\* What a request promises about the row it will store.
LEMMA PromiseOfSync ==
  ASSUME CoreInv, NEW w \in Workers, ReadPage(w), SyncedTo(view[w], {}), ListedTo(view[w], Empty)
  PROVE  /\ pc'[w] = "sync" /\ view'[w] = view[w]
         /\ SyncedTo(after'[w], DOMAIN page'[w]) /\ ListedTo(after'[w], Empty)
  <1>t. /\ DOMAIN pc = Workers /\ DOMAIN after = Workers /\ DOMAIN page = Workers
        /\ CoreTypes
    BY DEF CoreInv, CoreTypes
  <1>1. /\ pc[w] = "step" /\ view[w].phase \in {"sync_posts", "sync_pages"}
        /\ pc'[w] = "sync" /\ view' = view
        /\ page'[w] = [t \in SourceRows(w) |-> content[t]]
        /\ after'[w] = IF Cardinality(SourceRows(w)) < BatchSize
                       THEN [view[w] EXCEPT !.phase = PhaseAfter(@), !.cursor = 0]
                       ELSE [view[w] EXCEPT !.cursor = Max(SourceRows(w))]
    BY <1>t DEF ReadPage, GoTo
  <1>v. IsOperation(view[w])
    BY <1>1 DEF CoreInv, RequestInv, RequestOf, Busy
  <1>2. IsPageOf(SourceRows(w), Ahead(w))
    BY <1>t, SourcePage
  <1>d. DOMAIN page'[w] = SourceRows(w)
    BY <1>1
  <1> HIDE DEF SourceRows
  <1>3. ASSUME NEW t \in PassedBy(after'[w]), content[t] # NoRow, t \notin SourceRows(w)
        PROVE  t \in PassedBy(view[w])
    <2>0. t \in Targets /\ t \in Nat \ {0} /\ view[w].cursor \in Nat
      BY <1>v, PassedAreTargets, TargetTypes DEF IsOperation, States
    <2>1. CASE Cardinality(SourceRows(w)) < BatchSize
      <3>1. t \notin Ahead(w)
        BY <1>2, <1>3, <2>1 DEF IsPageOf
      <3>2. view[w] = [op |-> view[w].op, phase |-> view[w].phase, cursor |-> view[w].cursor,
                       edgeCursor |-> view[w].edgeCursor]
        BY <1>v DEF IsOperation, States
      <3>3. /\ after'[w].phase = PhaseAfter(view[w].phase)
            /\ after'[w].cursor = 0
        BY <1>1, <2>1, <3>2
      <3>4. CASE view[w].phase = "sync_posts"
        <4>1. t \in Posts
          BY <1>3, <2>0, <3>3, <3>4 DEF PassedBy, PhaseAfter
        <4> QED BY <1>3, <2>0, <3>1, <3>4, <4>1 DEF PassedBy, Ahead, Synced
      <3>5. CASE view[w].phase = "sync_pages"
        BY <1>3, <2>0, <3>1, <3>5 DEF PassedBy, Ahead, Synced, Targets
      <3> QED BY <1>1, <3>4, <3>5
    <2>2. CASE ~ (Cardinality(SourceRows(w)) < BatchSize)
      <3>1. Max(SourceRows(w)) \in Ahead(w) /\ \A u \in Ahead(w) : u <= Max(SourceRows(w)) => u \in SourceRows(w)
        BY <1>2, <2>2 DEF IsPageOf
      <3> DEFINE last == Max(SourceRows(w))
      <3>2. after'[w] = [view[w] EXCEPT !.cursor = last]
        BY <1>1, <2>2
      <3> HIDE DEF last
      <3>3. view[w] = [op |-> view[w].op, phase |-> view[w].phase, cursor |-> view[w].cursor,
                       edgeCursor |-> view[w].edgeCursor]
        BY <1>v DEF IsOperation, States
      <3>4. after'[w].phase = view[w].phase /\ after'[w].cursor = last
        BY <3>2, <3>3
      <3>5. t \in Ahead(w) => ~ (t <= last)
        BY <1>3, <3>1 DEF last
      <3> QED BY <1>1, <1>3, <2>0, <3>4, <3>5 DEF PassedBy, Ahead, Synced
    <2> QED BY <2>1, <2>2
  <1>4. SyncedTo(after'[w], DOMAIN page'[w])
    BY <1>3, <1>d DEF SyncedTo
  <1>5. after'[w].phase # "orphan_review" /\ after'[w].edgeCursor = view[w].edgeCursor
    <2>1. view[w] = [op |-> view[w].op, phase |-> view[w].phase, cursor |-> view[w].cursor,
                     edgeCursor |-> view[w].edgeCursor]
      BY <1>v DEF IsOperation, States
    <2>2. CASE Cardinality(SourceRows(w)) < BatchSize
      BY <1>1, <2>1, <2>2 DEF PhaseAfter
    <2>3. CASE ~ (Cardinality(SourceRows(w)) < BatchSize)
      BY <1>1, <2>1, <2>3
    <2> QED BY <2>2, <2>3
  <1>6. ListedTo(after'[w], Empty)
    BY <1>5 DEF ListedTo, ScannedBy
  <1> QED BY <1>1, <1>4, <1>6

LEMMA PromiseOfScan ==
  ASSUME CoreInv, NEW w \in Workers, ScanPage(w), SyncedTo(view[w], {}), ListedTo(view[w], Empty)
  PROVE  /\ pc'[w] = "scanned" /\ view'[w] = view[w]
         /\ SyncedTo(after'[w], {}) /\ ListedTo(after'[w], page'[w])
  <1> DEFINE ids == FirstOf(EdgeAhead(w))
  <1>t. /\ DOMAIN pc = Workers /\ DOMAIN after = Workers /\ DOMAIN page = Workers
        /\ CoreTypes /\ EdgeInv
    BY DEF CoreInv, CoreTypes
  <1>1. /\ pc[w] = "step" /\ view[w].phase = "scan_orphans"
        /\ pc'[w] = "scanned" /\ view' = view
        /\ page'[w] = [i \in ids |-> edge[i]]
        /\ after'[w] = [view[w] EXCEPT
             !.phase = IF Cardinality(ids) < BatchSize THEN "orphan_review" ELSE @,
             !.edgeCursor = IF ids = {} THEN @ ELSE Max(ids)]
    BY <1>t DEF ScanPage, GoTo, EdgeAhead
  <1>v. IsOperation(view[w])
    BY <1>1 DEF CoreInv, RequestInv, RequestOf, Busy
  <1>2. EdgeAhead(w) \subseteq Nat \ {0} /\ IsPageOf(ids, EdgeAhead(w))
    BY <1>t, EdgePage
  <1> HIDE DEF ids
  <1>3. view[w] = [op |-> view[w].op, phase |-> view[w].phase, cursor |-> view[w].cursor,
                   edgeCursor |-> view[w].edgeCursor] /\ view[w].edgeCursor \in Nat
    BY <1>v DEF IsOperation, States
  <1>4. /\ after'[w].phase = IF Cardinality(ids) < BatchSize THEN "orphan_review" ELSE "scan_orphans"
        /\ after'[w].edgeCursor = IF ids = {} THEN view[w].edgeCursor ELSE Max(ids)
    BY <1>1, <1>3
  <1>5. SyncedTo(after'[w], {})
    BY <1>1, <1>4 DEF SyncedTo, PassedBy
  <1>6. ASSUME NEW i \in DOMAIN edge, ScannedBy(after'[w], i), ~ ScannedBy(view[w], i)
        PROVE  i \in ids
    <2>1. i \in Nat \ {0} /\ i > view[w].edgeCursor
      <3>1. i \in Nat \ {0} /\ ~ (i <= view[w].edgeCursor)
        BY <1>6, <1>t DEF EdgeInv, AreRows, ScannedBy
      <3> QED BY <1>3, <3>1
    <2>2. i \in EdgeAhead(w)
      BY <2>1 DEF EdgeAhead
    <2>3. CASE Cardinality(ids) < BatchSize
      BY <1>2, <2>2, <2>3 DEF IsPageOf
    <2>4. CASE ~ (Cardinality(ids) < BatchSize)
      <3>1. ids # {} /\ \A j \in EdgeAhead(w) : j <= Max(ids) => j \in ids
        BY <1>2, <2>4 DEF IsPageOf
      <3>2. i <= Max(ids)
        BY <1>4, <1>6, <2>4, <3>1 DEF ScannedBy
      <3> QED BY <2>2, <3>1, <3>2
    <2> QED BY <2>3, <2>4
  <1>7. DOMAIN page'[w] = ids /\ \A i \in ids : page'[w][i] = edge[i]
    BY <1>1
  <1>8. ListedTo(after'[w], page'[w])
    <2> SUFFICES ASSUME NEW i \in DOMAIN edge, ScannedBy(after'[w], i), IsOrphan(i)
                 PROVE  i \in DOMAIN orphans
                        \/ (i \in DOMAIN page'[w] /\ page'[w][i].target = edge[i].target)
      BY DEF ListedTo
    <2>1. CASE ScannedBy(view[w], i)
      BY <2>1, NoRows DEF ListedTo
    <2>2. CASE ~ ScannedBy(view[w], i)
      BY <1>6, <1>7, <2>2
    <2> QED BY <2>1, <2>2
  <1> QED BY <1>1, <1>5, <1>8

\* The promises of a request, one after another.
PromiseOf(w) ==
  Advances(w) =>
    /\ pc[w] = "sync" => SyncedTo(after[w], DOMAIN page[w])
    /\ pc[w] # "sync" => SyncedTo(after[w], {})
    /\ pc[w] \in ScanSteps => ListedTo(after[w], page[w])
    /\ pc[w] \notin ScanSteps => ListedTo(after[w], Empty)

LEMMA KeepsPromise ==
  ASSUME NEW w \in Workers
  PROVE  StepKeeps(w) <=>
           /\ SyncedTo(view[w], {}) /\ ListedTo(view[w], Empty)
           /\ PromiseOf(w)
           /\ pc[w] \in {"found", "counted", "listed"} => Missing(page[w])
           /\ pc[w] = "unlist" => ~ IsOrphan(Chosen(w))
  <1> HIDE DEF SyncedTo, ListedTo
  <1> QED BY DEF StepKeeps, PromiseOf, ScanSteps

LEMMA PromiseKept ==
  ASSUME QuietInv, NEW w \in Workers, RequestStep(w), Steady, ListSteady,
         Busy(w), SyncedTo(view[w], {}), ListedTo(view[w], Empty), PromiseOf(w),
         pc[w] \in {"found", "counted"} => Missing(page[w]),
         Advances(w)'
  PROVE  PromiseOf(w)'
  <1>c. CoreInv /\ ContentInv
    BY DEF QuietInv
  <1>t. /\ DOMAIN pc = Workers /\ DOMAIN view = Workers /\ DOMAIN after = Workers
        /\ DOMAIN page = Workers /\ DOMAIN checks = Workers
        /\ EdgeInv
    BY <1>c DEF CoreInv, CoreTypes
  <1>b. Busy(w)'
    BY DEF Busy, Advances, ScanSteps
  <1>s. ASSUME NEW s, NEW T, NEW rows
        PROVE  /\ SyncedTo(s, T) => SyncedTo(s, T)'
               /\ ListedTo(s, rows) => ListedTo(s, rows)'
    BY SteadyKeeps, PassedAreTargets
  <1>o. ASSUME NEW s, s = after'[w], NEW T, NEW rows,
               SyncedTo(s, T), ListedTo(s, rows),
               pc'[w] = "sync" => T = DOMAIN page'[w], pc'[w] # "sync" => T = {},
               pc'[w] \in ScanSteps => rows = page'[w], pc'[w] \notin ScanSteps => rows = Empty
        PROVE  PromiseOf(w)'
    <2>1. SyncedTo(s, T)' /\ ListedTo(s, rows)'
      BY <1>o, <1>s
    <2>2. pc'[w] = "sync" => SyncedTo(after[w], DOMAIN page[w])'
      BY <1>o, <2>1 DEF SyncedTo
    <2>3. pc'[w] # "sync" => SyncedTo(after[w], {})'
      BY <1>o, <2>1 DEF SyncedTo
    <2>4. pc'[w] \in ScanSteps => ListedTo(after[w], page[w])'
      BY <1>o, <2>1 DEF ListedTo, ScannedBy
    <2>5. pc'[w] \notin ScanSteps => ListedTo(after[w], Empty)'
      BY <1>o, <2>1 DEF ListedTo, ScannedBy
    <2> HIDE DEF SyncedTo, ListedTo
    <2> QED BY <2>2, <2>3, <2>4, <2>5 DEF PromiseOf, ScanSteps
  <1>1. CASE CountRemaining(w) /\ NothingPending
    <2>1. /\ pc[w] = "step" /\ view[w].phase = "drain_outbox" /\ IsOperation(view[w])
          /\ pc'[w] = "advance" /\ after'[w] = [view[w] EXCEPT !.phase = "sync_posts"]
      BY <1>1, <1>c, <1>t DEF CountRemaining, GoTo, CoreInv, RequestInv, RequestOf, Busy
    <2>2. view[w] = [op |-> view[w].op, phase |-> view[w].phase, cursor |-> view[w].cursor,
                     edgeCursor |-> view[w].edgeCursor]
      BY <2>1 DEF IsOperation, States
    <2>3. /\ after'[w].phase = "sync_posts" /\ after'[w].cursor = 0 /\ after'[w].edgeCursor = 0
          /\ IsOperation(after'[w])
      BY <2>1, <2>2 DEF IsOperation, States, Phases
    <2>4. SyncedTo(after'[w], {}) /\ ListedTo(after'[w], Empty)
      BY <1>t, <2>3, NothingPassed
    <2> QED BY <1>o, <2>1, <2>4 DEF ScanSteps
  <1>2. CASE ReadPage(w)
    BY <1>2, <1>c, <1>o, PromiseOfSync DEF ScanSteps
  <1>3. CASE ScanPage(w)
    BY <1>3, <1>c, <1>o, PromiseOfScan DEF ScanSteps
  <1>4. CASE WritePage(w)
    <2>1. pc[w] = "sync" /\ pc'[w] = "advance" /\ after'[w] = after[w]
      BY <1>4, <1>t DEF WritePage, Drop
    <2>2. SyncedTo(after[w], DOMAIN page[w]) /\ ListedTo(after[w], Empty)
      BY <2>1 DEF PromiseOf, Advances, ScanSteps
    <2>3. SyncedTo(after[w], {})'
      <3>1. ASSUME NEW t \in PassedBy(after[w]), content[t] # NoRow PROVE Mirrored(t)' = content[t]
        <4>1. CASE t \in DOMAIN page[w]
          BY <1>4, <1>c, <2>1, <4>1, WriteEffect DEF ContentInv
        <4>2. CASE t \notin DOMAIN page[w]
          BY <2>2, <3>1, <4>2, PassedAreTargets DEF Steady, SyncedTo
        <4> QED BY <4>1, <4>2
      <3> QED BY <2>1, <3>1 DEF SyncedTo, Steady
    <2>4. ListedTo(after[w], Empty)'
      <3>1. ListedTo(after[w], Empty) => \A i \in DOMAIN edge' : ScannedBy(after[w], i) /\ IsOrphan(i)'
              => i \in DOMAIN orphans' \/ (i \in DOMAIN Empty /\ Empty[i].target = edge'[i].target)
        <4>1. \A i : IsOrphan(i)' => IsOrphan(i) /\ edge'[i].target = edge[i].target /\ i \in DOMAIN edge
          BY DEF Steady, IsOrphan
        <4> QED BY <4>1, NoRows DEF ListedTo, ListSteady
      <3> QED BY <2>1, <2>2, <3>1 DEF ListedTo, ScannedBy
    <2> HIDE DEF SyncedTo, ListedTo
    <2> QED BY <2>1, <2>3, <2>4 DEF PromiseOf, ScanSteps
  <1>5. CASE LookUpContent(w)
    <2>1. /\ pc[w] = "scanned" /\ pc'[w] = "found" /\ after'[w] = after[w]
          /\ page'[w] = [i \in {i \in DOMAIN page[w] : content[page[w][i].target] = NoRow} |->
                           page[w][i]]
      BY <1>5, <1>t DEF LookUpContent, GoTo, Restrict
    <2>2. SyncedTo(after[w], {}) /\ ListedTo(after[w], page[w])
      BY <2>1 DEF PromiseOf, Advances, ScanSteps
    <2>3. ListedTo(after[w], page'[w])
      BY <2>1, <2>2 DEF ListedTo, IsOrphan
    <2> QED BY <1>o, <2>1, <2>2, <2>3 DEF ScanSteps
  <1>6. CASE CountComments(w)
    <2>1. /\ pc[w] = "found" /\ pc'[w] = "counted" /\ after'[w] = after[w]
          /\ page'[w] = [i \in DOMAIN page[w] |->
                           [page[w][i] EXCEPT !.comments = CommentsOf(i)]]
      BY <1>6, <1>t DEF CountComments, GoTo
    <2>2. SyncedTo(after[w], {}) /\ ListedTo(after[w], page[w]) /\ AreRows(page[w])
      BY <1>c, <2>1 DEF PromiseOf, Advances, ScanSteps, CoreInv, RequestInv, RequestOf, CarriesRows
    <2>3. DOMAIN page'[w] = DOMAIN page[w] /\ \A i \in DOMAIN page[w] : page'[w][i].target = page[w][i].target
      BY <2>1, <2>2 DEF AreRows, IsRow
    <2>4. ListedTo(after[w], page'[w])
      BY <2>2, <2>3 DEF ListedTo
    <2> QED BY <1>o, <2>1, <2>2, <2>4 DEF ScanSteps
  <1>7. CASE ListOrphans(w)
    <2>1. /\ pc[w] = "counted" /\ pc'[w] = "advance" /\ after'[w] = after[w]
          /\ DOMAIN orphans' = DOMAIN page[w] \cup DOMAIN orphans
      BY <1>7, <1>t, <1>b DEF ListOrphans, Drop, Return, Leave, Busy
    <2>2. SyncedTo(after[w], {}) /\ ListedTo(after[w], page[w])
      BY <2>1 DEF PromiseOf, Advances, ScanSteps
    <2>3. SyncedTo(after[w], {})'
      <3>1. \A t \in PassedBy(after[w]) : content[t] # NoRow => Mirrored(t)' = content[t]
        BY <2>2, PassedAreTargets DEF Steady, SyncedTo
      <3> QED BY <2>1, <3>1 DEF SyncedTo, Steady
    <2>4. ListedTo(after[w], Empty)'
      <3>1. \A i : IsOrphan(i)' => IsOrphan(i) /\ i \in DOMAIN edge
        BY DEF Steady, IsOrphan
      <3>2. \A i : ScannedBy(after[w], i) /\ IsOrphan(i)' => i \in DOMAIN orphans'
        BY <2>1, <2>2, <3>1 DEF ListedTo
      <3> QED BY <2>1, <3>2 DEF ListedTo, ScannedBy
    <2> HIDE DEF SyncedTo, ListedTo
    <2> QED BY <2>1, <2>3, <2>4 DEF PromiseOf, ScanSteps
  <1>8. CASE CountRemaining(w) /\ ~ NothingPending
    BY <1>8, <1>b, <1>t DEF CountRemaining, Return, Leave, Busy
  <1>9. CASE PurgeStep(w) \/ FinalizeStep(w) \/ Abandon(w) \/ Recover(w) \/ Advance(w)
             \/ \E step \in {"step", "purge", "finalize"} : ReadState(w, step)
    <2>1. CASE FinalizeStep(w) \/ Abandon(w) \/ Recover(w) \/ Advance(w)
               \/ \E step \in {"step", "purge", "finalize"} : ReadState(w, step)
      BY <1>b, <1>t, <2>1
         DEF FinalizeStep, CheckCondition, Finalize, Abandon, Recover, Advance, ReadState, Return,
             Leave, GoTo, Busy, Advances, ScanSteps
    <2>2. CASE PurgeStep(w)
      BY <1>b, <1>t, <2>2
         DEF PurgeStep, ReadOrphan, LookUpOrphan, ReadCurrent, RecountComments, DeleteTarget,
             Unlist, FinishPurge, KeepTarget, Return, Leave, GoTo, Drop, Busy, Advances, ScanSteps
    <2> QED BY <1>9, <2>1, <2>2
  <1> QED BY <1>1, <1>2, <1>3, <1>4, <1>5, <1>6, <1>7, <1>8, <1>9 DEF RequestStep, AdvanceStep

\* What a request knows to be missing goes on being missing.
LEMMA MissingKept ==
  ASSUME CoreInv, NEW w \in Workers, RequestStep(w), Missing(orphans),
         pc[w] \in {"found", "counted", "listed"} => Missing(page[w]),
         pc[w] = "unlist" => ~ IsOrphan(Chosen(w))
  PROVE  /\ pc'[w] \in {"found", "counted", "listed"} => Missing(page[w])'
         /\ pc'[w] = "unlist" => ~ IsOrphan(Chosen(w))'
  <1>t. /\ DOMAIN pc = Workers /\ DOMAIN view = Workers /\ DOMAIN after = Workers
        /\ DOMAIN page = Workers /\ DOMAIN checks = Workers
    BY DEF CoreInv, CoreTypes
  <1>r. content' = content
    BY RequestsKeepStudio
  <1>1. CASE (\E step \in {"step", "purge", "finalize"} : ReadState(w, step))
             \/ CountRemaining(w) \/ ReadPage(w) \/ WritePage(w) \/ ScanPage(w)
             \/ ListOrphans(w) \/ Advance(w)
    BY <1>1, <1>t DEF ReadState, CountRemaining, ReadPage, WritePage, ScanPage, ListOrphans,
       Advance, Return, Leave, Drop, GoTo
  <1>2. CASE LookUpContent(w)
    <2>1. /\ pc'[w] = "found"
          /\ page'[w] = [i \in {i \in DOMAIN page[w] : content[page[w][i].target] = NoRow} |->
                           page[w][i]]
      BY <1>2, <1>t DEF LookUpContent, GoTo, Restrict
    <2> QED BY <1>r, <2>1 DEF Missing
  <1>3. CASE CountComments(w)
    <2>1. /\ pc[w] = "found" /\ pc'[w] = "counted" /\ AreRows(page[w])
          /\ page'[w] = [i \in DOMAIN page[w] |->
                           [page[w][i] EXCEPT !.comments = CommentsOf(i)]]
      BY <1>3, <1>t DEF CountComments, GoTo, CoreInv, RequestInv, RequestOf, CarriesRows, ScanSteps
    <2>2. /\ DOMAIN page'[w] = DOMAIN page[w]
          /\ \A i \in DOMAIN page[w] : page'[w][i].target = page[w][i].target
      BY <2>1 DEF AreRows, IsRow
    <2> QED BY <1>r, <2>1, <2>2 DEF Missing
  <1>4. ASSUME NEW i \in DOMAIN orphans, ReadOrphan(w, i)
        PROVE  pc'[w] = "listed" /\ Missing(page[w])'
    <2>1. pc'[w] = "listed" /\ page'[w] = [j \in {i} |-> orphans[i]]
      BY <1>4, <1>t DEF ReadOrphan, GoTo
    <2> QED BY <1>r, <2>1 DEF Missing
  <1>5. CASE LookUpOrphan(w)
    <2>1. pc[w] = "listed" /\ DOMAIN page[w] # {}
      BY <1>5 DEF LookUpOrphan, CoreInv, RequestInv, RequestOf, CarriesRows, PurgeSteps
    <2>2. Chosen(w) \in DOMAIN page[w]
      BY <2>1 DEF Chosen
    <2>3. content[Snapshot(w).target] = NoRow
      BY <2>1, <2>2 DEF Missing, Snapshot
    <2>4. pc'[w] = "absent"
      BY <1>5, <1>t, <2>3 DEF LookUpOrphan, GoTo
    <2> QED BY <2>4
  <1>6. CASE ReadCurrent(w)
    <2>1. edge' = edge /\ (pc'[w] = "unlist" => page' = page /\ Chosen(w) \notin DOMAIN edge)
      BY <1>6, <1>t DEF ReadCurrent, KeepTarget, Drop, GoTo, edgeVars
    <2>2. pc'[w] \in {"purge", "unchanged", "unlist"}
      BY <1>6, <1>t DEF ReadCurrent, KeepTarget, Drop, GoTo
    <2> QED BY <2>1, <2>2 DEF IsOrphan, Chosen
  <1>7. CASE DeleteTarget(w)
    <2>1. pc'[w] = "purge" \/ (pc'[w] = "unlist" /\ page' = page /\ RemoveRows({Chosen(w)}))
      BY <1>7, <1>t DEF DeleteTarget, KeepTarget, Drop, GoTo
    <2>2. RemoveRows({Chosen(w)}) => Chosen(w) \notin DOMAIN edge'
      BY DEF RemoveRows, Restrict
    <2>3. page' = page => Chosen(w)' = Chosen(w)
      BY DEF Chosen
    <2> QED BY <2>1, <2>2, <2>3 DEF IsOrphan
  <1>8. CASE RecountComments(w) \/ Unlist(w) \/ FinishPurge(w) \/ FinalizeStep(w)
             \/ Abandon(w) \/ Recover(w)
    BY <1>8, <1>t DEF RecountComments, Unlist, FinishPurge, FinalizeStep, CheckCondition,
       Finalize, Abandon, Recover, KeepTarget, Return, Leave, Drop, GoTo
  <1> QED BY <1>1, <1>2, <1>3, <1>4, <1>5, <1>6, <1>7, <1>8
      DEF RequestStep, AdvanceStep, PurgeStep

\* A request that is left alone by a steady step keeps what it knows.
LEMMA StepKeepsSteadily ==
  ASSUME Steady, ListSteady, NEW w \in Workers, Untouched(w), StepKeeps(w)
  PROVE  StepKeeps(w)'
  <1>s. ASSUME NEW s, NEW T, NEW rows
        PROVE  /\ SyncedTo(s, T) => SyncedTo(s, T)'
               /\ ListedTo(s, rows) => ListedTo(s, rows)'
               /\ \A i : IsOrphan(i)' => IsOrphan(i)
    BY SteadyKeeps, PassedAreTargets
  <1>u. pc'[w] = pc[w] /\ view'[w] = view[w] /\ after'[w] = after[w] /\ page'[w] = page[w]
    BY DEF Untouched
  <1>1. ASSUME NEW s, NEW T, NEW rows, SyncedTo(s, T), ListedTo(s, rows)
        PROVE  /\ s = view'[w] /\ T = {} => SyncedTo(view[w], {})'
               /\ s = view'[w] /\ rows = Empty => ListedTo(view[w], Empty)'
               /\ s = after'[w] /\ T = DOMAIN page'[w] => SyncedTo(after[w], DOMAIN page[w])'
               /\ s = after'[w] /\ T = {} => SyncedTo(after[w], {})'
               /\ s = after'[w] /\ rows = page'[w] => ListedTo(after[w], page[w])'
               /\ s = after'[w] /\ rows = Empty => ListedTo(after[w], Empty)'
    <2>1. SyncedTo(s, T)' /\ ListedTo(s, rows)'
      BY <1>1, <1>s
    <2>2. /\ s = view'[w] /\ T = {} => SyncedTo(view[w], {})'
          /\ s = after'[w] /\ T = DOMAIN page'[w] => SyncedTo(after[w], DOMAIN page[w])'
          /\ s = after'[w] /\ T = {} => SyncedTo(after[w], {})'
      BY <2>1 DEF SyncedTo
    <2>3. /\ s = view'[w] /\ rows = Empty => ListedTo(view[w], Empty)'
          /\ s = after'[w] /\ rows = page'[w] => ListedTo(after[w], page[w])'
          /\ s = after'[w] /\ rows = Empty => ListedTo(after[w], Empty)'
      BY <2>1 DEF ListedTo, ScannedBy
    <2> QED BY <2>2, <2>3
  <1>2. SyncedTo(view[w], {})' /\ ListedTo(view[w], Empty)'
    <2> HIDE DEF SyncedTo, ListedTo
    <2> QED BY <1>1, <1>u DEF StepKeeps
  <1>3. PromiseOf(w)'
    <2>1. PromiseOf(w)
      BY KeepsPromise
    <2>2. Advances(w)' => Advances(w)
      BY <1>u DEF Advances
    <2> HIDE DEF SyncedTo, ListedTo
    <2> QED BY <1>1, <1>u, <2>1, <2>2 DEF PromiseOf
  <1>4. pc'[w] \in {"found", "counted", "listed"} => Missing(page[w])'
    BY <1>u DEF StepKeeps, Missing, Steady
  <1>5. pc'[w] = "unlist" => ~ IsOrphan(Chosen(w))'
    <2>1. Chosen(w)' = Chosen(w)
      BY <1>u DEF Chosen
    <2>2. IsOrphan(Chosen(w))' => IsOrphan(Chosen(w))
      BY <1>s, <2>1 DEF IsOrphan
    <2> QED BY <1>u, <2>2 DEF StepKeeps
  <1>6. StepKeeps(w)' <=>
           /\ SyncedTo(view[w], {})' /\ ListedTo(view[w], Empty)'
           /\ PromiseOf(w)'
           /\ pc'[w] \in {"found", "counted", "listed"} => Missing(page[w])'
           /\ pc'[w] = "unlist" => ~ IsOrphan(Chosen(w))'
    <2> HIDE DEF SyncedTo, ListedTo, Missing, IsOrphan
    <2> QED BY DEF StepKeeps, PromiseOf, ScanSteps
  <1> QED BY <1>2, <1>3, <1>4, <1>5, <1>6

\* A step of the operation's own requests leaves no gap.
LEMMA RequestLeavesNoGap ==
  ASSUME QuietInv, CursorInv, ~ disturbed, NEW w \in Workers, RequestStep(w),
         state' # NoOperation
  PROVE  CursorInv'
  <1>c. CoreInv /\ ContentInv
    BY DEF QuietInv
  <1>t. /\ DOMAIN pc = Workers /\ DOMAIN view = Workers /\ DOMAIN after = Workers
        /\ DOMAIN page = Workers /\ DOMAIN checks = Workers
    BY <1>c DEF CoreInv, CoreTypes
  <1>r. Steady /\ ListSteady /\ content' = content
    BY <1>c, RequestsAreSteady, ListIsSteady, RequestsKeepStudio
  <1>k. /\ SyncedTo(state, {}) /\ ListedTo(state, Empty)
        /\ Missing(orphans)
        /\ \A v \in Workers : Current(v) => StepKeeps(v)
    BY DEF CursorInv
  <1>s. ASSUME NEW s, NEW T, NEW rows
        PROVE  /\ SyncedTo(s, T) => SyncedTo(s, T)'
               /\ ListedTo(s, rows) => ListedTo(s, rows)'
    BY <1>r, SteadyKeeps, PassedAreTargets
  <1>o. ASSUME NEW s, SyncedTo(s, {}), ListedTo(s, Empty)
        PROVE  /\ s = state' => SyncedTo(state, {})' /\ ListedTo(state, Empty)'
               /\ s = view'[w] => SyncedTo(view[w], {})' /\ ListedTo(view[w], Empty)'
    <2>1. SyncedTo(s, {})' /\ ListedTo(s, Empty)'
      BY <1>o, <1>s
    <2>2. /\ s = state' => SyncedTo(state, {})'
          /\ s = view'[w] => SyncedTo(view[w], {})'
      BY <2>1 DEF SyncedTo
    <2>3. /\ s = state' => ListedTo(state, Empty)'
          /\ s = view'[w] => ListedTo(view[w], Empty)'
      BY <2>1 DEF ListedTo, ScannedBy
    <2> QED BY <2>2, <2>3
  <1>v. state' = state \/ Advance(w)
    BY <1>c, RequestChanges DEF RemoveOperation
  <1>a. Advance(w) /\ state' # state =>
          /\ state = view[w] /\ state' = after[w] /\ after[w].op = state.op
          /\ pc[w] = "advance" /\ Current(w)
    BY <1>c, AdvanceStores DEF Advance, Current, Busy
  <1>p. state'.op = state.op
    BY <1>a, <1>v
  <1>1. SyncedTo(state, {})' /\ ListedTo(state, Empty)'
    <2>1. CASE state' = state
      <3> HIDE DEF SyncedTo, ListedTo
      <3> QED BY <1>k, <1>o, <2>1
    <2>2. CASE Advance(w) /\ state' # state
      <3>1. PromiseOf(w) /\ Advances(w) /\ pc[w] = "advance" /\ state' = after[w]
        BY <1>a, <1>k, <2>2, KeepsPromise DEF Advances
      <3>2. SyncedTo(after[w], {}) /\ ListedTo(after[w], Empty)
        BY <3>1 DEF PromiseOf, ScanSteps
      <3> HIDE DEF SyncedTo, ListedTo
      <3> QED BY <1>o, <3>1, <3>2
    <2> QED BY <1>v, <2>1, <2>2
  <1>2. Missing(orphans)'
    <2>1. CASE orphans' = orphans
      BY <1>k, <1>r, <2>1 DEF Missing
    <2>2. CASE ListOrphans(w) /\ orphans' # orphans
      <3>1. /\ pc[w] = "counted"
            /\ DOMAIN page[w] = {} \/ state.op = view[w].op
            /\ orphans' = [i \in DOMAIN page[w] \cup DOMAIN orphans |->
                             IF i \in DOMAIN page[w] THEN page[w][i] ELSE orphans[i]]
        BY <2>2 DEF ListOrphans, MayList
      <3>2. DOMAIN page[w] = {} \/ Missing(page[w])
        BY <1>k, <3>1 DEF Current, Busy, StepKeeps
      <3> QED BY <1>k, <1>r, <3>1, <3>2 DEF Missing
    <2>3. CASE Unlist(w)
      <3>1. orphans' = orphans \/ orphans' = [i \in DOMAIN orphans \ {Chosen(w)} |-> orphans[i]]
        BY <2>3 DEF Unlist, Restrict
      <3> QED BY <1>k, <1>r, <3>1 DEF Missing
    <2>4. ~ RemoveOperation
      BY DEF RemoveOperation
    <2> QED BY <1>c, <2>1, <2>2, <2>3, <2>4, RequestChanges
  <1>3. ASSUME NEW v \in Workers, v # w, Current(v)' PROVE StepKeeps(v)'
    <2>1. Untouched(v)
      BY <1>3, <1>c, OthersKeep DEF CoreInv
    <2>2. Current(v)
      BY <1>3, <1>p, <2>1 DEF Current, Busy, Untouched
    <2> QED BY <1>k, <1>r, <2>1, <2>2, StepKeepsSteadily
  <1>4. ASSUME Current(w)' PROVE StepKeeps(w)'
    <2>1. Busy(w)'
      BY <1>4 DEF Current
    <2>2. CASE /\ pc[w] = "idle" /\ ~ Advances(w)' /\ view'[w] = state
               /\ pc'[w] \in {"step", "purge", "finalize"}
      <3>1. SyncedTo(view[w], {})' /\ ListedTo(view[w], Empty)'
        <4> HIDE DEF SyncedTo, ListedTo
        <4> QED BY <1>k, <1>o, <2>2
      <3> HIDE DEF SyncedTo, ListedTo, Missing, IsOrphan, Advances
      <3> QED BY <2>2, <3>1 DEF StepKeeps
    <2>3. CASE Busy(w) /\ view'[w] = view[w] /\ ~ Advance(w) /\ ~ Finalize(w)
      <3>1. Current(w)
        BY <1>4, <1>p, <2>3 DEF Current
      <3>2. /\ SyncedTo(view[w], {}) /\ ListedTo(view[w], Empty)
            /\ PromiseOf(w)
            /\ pc[w] \in {"found", "counted", "listed"} => Missing(page[w])
            /\ pc[w] = "unlist" => ~ IsOrphan(Chosen(w))
        BY <1>k, <3>1, KeepsPromise
      <3>3. SyncedTo(view[w], {})' /\ ListedTo(view[w], Empty)'
        <4> HIDE DEF SyncedTo, ListedTo
        <4> QED BY <1>o, <2>3, <3>2
      <3>4. Advances(w)' => PromiseOf(w)'
        BY <1>r, <2>3, <3>2, PromiseKept
      <3>5. ~ Advances(w)' => PromiseOf(w)'
        BY DEF PromiseOf
      <3>6. /\ pc'[w] \in {"found", "counted", "listed"} => Missing(page[w])'
            /\ pc'[w] = "unlist" => ~ IsOrphan(Chosen(w))'
        BY <1>c, <1>k, <3>2, MissingKept
      <3>7. StepKeeps(w)' <=>
               /\ SyncedTo(view[w], {})' /\ ListedTo(view[w], Empty)'
               /\ PromiseOf(w)'
               /\ pc'[w] \in {"found", "counted", "listed"} => Missing(page[w])'
               /\ pc'[w] = "unlist" => ~ IsOrphan(Chosen(w))'
        <4> HIDE DEF SyncedTo, ListedTo, Missing, IsOrphan
        <4> QED BY DEF StepKeeps, PromiseOf, ScanSteps
      <3> HIDE DEF SyncedTo, ListedTo, Missing, IsOrphan, PromiseOf, StepKeeps
      <3> QED BY <3>3, <3>4, <3>5, <3>6, <3>7
    <2> QED BY <1>c, <2>1, <2>2, <2>3, WhatRequestsRead
  <1> QED BY <1>1, <1>2, <1>3, <1>4 DEF CursorInv

\* An operation that is not stored or just begun has passed nothing.
JustBegun ==
  /\ state = NoOperation \/ state.phase = "drain_outbox"
  /\ orphans = Empty
  /\ \A w \in Workers : ~ Current(w)

LEMMA NoGapAtFirst == CoreInv /\ JustBegun => CursorInv
  BY NothingStarted DEF JustBegun

\* Before its drain has ended, no row of an operation has passed anything.
NonePassed ==
  \A s, T, rows :
    (s = NoOperation \/ IsOperation(s)) /\ ~ Drained(s) => SyncedTo(s, T) /\ ListedTo(s, rows)

LEMMA UndrainedPassNothing == EdgeInv => NonePassed
  BY NothingPassed DEF NonePassed

\* The projections of an operation that goes on undisturbed are all written
\* before it passes anything.
LEMMA ReplayLeavesNoGap ==
  ASSUME CoreInv, DrainInv, CursorInv, NEW t \in Targets, Replay(t)
  PROVE  CursorInv'
  <1> SUFFICES ASSUME ~ disturbed PROVE CursorInv'
    BY DEF Replay, countVars, historyVars, CursorInv
  <1>1. /\ UNCHANGED <<content, state, orphans, pc, view, after, page, disturbed>>
        /\ ~ NothingPending
    BY DEF Replay, requestVars, countVars, historyVars, NothingPending
  <1>2. /\ ~ Drained(state)
        /\ \A w \in Workers : Current(w) =>
             ~ Drained(view[w]) /\ (Advances(w) => ~ Drained(after[w]))
    BY <1>1 DEF DrainInv, DrainSeen
  <1>3. NonePassed'
    <2>1. EdgeInv'
      BY ReplayEffect
    <2> QED BY <2>1, UndrainedPassNothing, PTL
  <1>n. ASSUME NEW s, s = NoOperation \/ IsOperation(s), ~ Drained(s)
        PROVE  /\ s = state' => SyncedTo(state, {})' /\ ListedTo(state, Empty)'
               /\ \A w \in Workers :
                    /\ s = view'[w] => SyncedTo(view[w], {})' /\ ListedTo(view[w], Empty)'
                    /\ s = after'[w] => SyncedTo(after[w], {})' /\ ListedTo(after[w], Empty)'
    <2>1. \A u, r : SyncedTo(s, u)' /\ ListedTo(s, r)'
      <3>1. (s = NoOperation \/ IsOperation(s)) /\ ~ Drained(s) => \A u, r : SyncedTo(s, u)' /\ ListedTo(s, r)'
        BY <1>3 DEF NonePassed, IsOperation, Drained, States
      <3> QED BY <1>n, <3>1
    <2>2. SyncedTo(s, {})' /\ ListedTo(s, Empty)'
      BY <2>1
    <2> QED BY <2>2 DEF SyncedTo, ListedTo, ScannedBy
  <1>4. SyncedTo(state, {})' /\ ListedTo(state, Empty)'
    <2>1. state = NoOperation \/ IsOperation(state)
      BY DEF CoreInv, CoreTypes
    <2> HIDE DEF SyncedTo, ListedTo
    <2> QED BY <1>1, <1>2, <1>n, <2>1
  <1>5. Missing(orphans)'
    BY <1>1 DEF CursorInv, Missing
  <1>6. ASSUME NEW w \in Workers, Current(w)' PROVE StepKeeps(w)'
    <2>1. Current(w) /\ Busy(w) /\ RequestOf(w)
      BY <1>1, <1>6 DEF Current, Busy, CoreInv, RequestInv
    <2>2. IsOperation(view[w]) /\ ~ Drained(view[w])
      BY <1>2, <2>1 DEF RequestOf
    <2>3. pc[w] \notin {"sync"} \cup ScanSteps \cup PurgeSteps
      BY <2>1, <2>2 DEF RequestOf, IsInPhase, Drained, Phases
    <2>4. Advances(w) => IsOperation(after[w]) /\ ~ Drained(after[w])
      BY <1>2, <2>1 DEF RequestOf
    <2>5. SyncedTo(view[w], {})' /\ ListedTo(view[w], Empty)'
      <3> HIDE DEF SyncedTo, ListedTo
      <3> QED BY <1>1, <1>n, <2>2
    <2>6. Advances(w) => SyncedTo(after[w], {})' /\ ListedTo(after[w], Empty)'
      <3> HIDE DEF SyncedTo, ListedTo
      <3> QED BY <1>1, <1>n, <2>4
    <2>7. Advances(w)' <=> Advances(w)
      BY <1>1 DEF Advances
    <2>8. pc'[w] \notin {"sync", "found", "counted", "listed", "unlist"} \cup ScanSteps
      BY <1>1, <2>3 DEF ScanSteps, PurgeSteps
    <2> HIDE DEF SyncedTo, ListedTo, Missing, IsOrphan, Advances
    <2> QED BY <2>5, <2>6, <2>7, <2>8 DEF StepKeeps
  <1> QED BY <1>4, <1>5, <1>6 DEF CursorInv

LEMMA CursorKept ==
  ASSUME QuietInv, DrainInv, CursorInv, [Next]_vars
  PROVE  CursorInv'
  <1>c. CoreInv /\ ContentInv /\ EdgeInv
    BY DEF QuietInv, CoreInv
  <1>b. JustBegun' => CursorInv'
    <2>1. CoreInv'
      BY <1>c, CoreKept
    <2> QED BY <2>1, NoGapAtFirst, PTL
  <1>n. state' = NoOperation => CursorInv'
    <2>1. CoreInv'
      BY <1>c, CoreKept
    <2>2. CoreInv' /\ (state = NoOperation)' => NothingStored'
      BY NoneIsCurrent, PTL
    <2> QED BY <1>b, <2>1, <2>2 DEF NothingStored, JustBegun
  <1>s. ASSUME UNCHANGED <<content, state, orphans, requestVars, disturbed>>, Steady
        PROVE  CursorInv'
    <2> SUFFICES ASSUME ~ disturbed PROVE CursorInv'
      BY <1>s DEF CursorInv
    <2>1. ListSteady /\ UNCHANGED <<pc, view, after, page, checks>>
      BY <1>s DEF ListSteady, requestVars
    <2>k. /\ SyncedTo(state, {}) /\ ListedTo(state, Empty)
          /\ Missing(orphans)
          /\ \A v \in Workers : Current(v) => StepKeeps(v)
      BY DEF CursorInv
    <2>2. ASSUME NEW s, s = state, SyncedTo(s, {}), ListedTo(s, Empty)
          PROVE  SyncedTo(state, {})' /\ ListedTo(state, Empty)'
      <3>1. SyncedTo(s, {})' /\ ListedTo(s, Empty)'
        BY <1>s, <2>1, <2>2, SteadyKeeps, PassedAreTargets
      <3> QED BY <1>s, <2>2, <3>1 DEF SyncedTo, ListedTo, ScannedBy
    <2>3. SyncedTo(state, {})' /\ ListedTo(state, Empty)'
      <3> HIDE DEF SyncedTo, ListedTo
      <3> QED BY <2>2, <2>k
    <2>4. Missing(orphans)'
      BY <1>s, <2>k DEF Missing
    <2>5. ASSUME NEW w \in Workers, Current(w)' PROVE StepKeeps(w)'
      <3>1. Untouched(w) /\ Current(w)
        BY <1>s, <2>1, <2>5 DEF Untouched, Current, Busy
      <3> QED BY <1>s, <2>1, <2>k, <3>1, StepKeepsSteadily
    <2> QED BY <2>3, <2>4, <2>5 DEF CursorInv
  <1>1. ASSUME NEW t \in Targets, NEW x \in Values \cup {NoRow}, WriteContent(t, x)
        PROVE  CursorInv'
    <2>1. state' = state /\ (state # NoOperation => disturbed')
      BY <1>1 DEF WriteContent
    <2> QED BY <1>n, <2>1 DEF CursorInv
  <1>2. CASE SwitchStep
    <2>1. UNCHANGED <<content, state, orphans, requestVars, disturbed, edge>>
      BY <1>2, SwitchKeeps DEF edgeVars
    <2>2. Steady
      BY <2>1 DEF Steady, Mirrored, IdsOf
    <2> QED BY <1>s, <2>1, <2>2
  <1>3. ASSUME NEW t \in Targets, Replay(t) PROVE CursorInv'
    BY <1>3, <1>c, ReplayLeavesNoGap
  <1>4. CASE (\E t \in Targets : Confirm(t)) \/ UNCHANGED vars
    <2>1. UNCHANGED <<content, state, orphans, requestVars, disturbed, edge>>
      BY <1>4 DEF Confirm, studioVars, edgeVars, countVars, historyVars, vars, requestVars
    <2>2. Steady
      BY <2>1 DEF Steady, Mirrored, IdsOf
    <2> QED BY <1>s, <2>1, <2>2
  <1>5. CASE CommentStep
    <2>1. UNCHANGED <<content, state, orphans, requestVars, disturbed>>
      BY <1>5 DEF CommentStep, PostComment, DeleteComment, studioVars, countVars, historyVars
    <2>2. Steady
      <3>1. PICK i \in DOMAIN edge, c \in Comments : PostComment(i, c) \/ DeleteComment(i, c)
        BY <1>5 DEF CommentStep
      <3>2. /\ DOMAIN edge' = DOMAIN edge
            /\ \A j \in DOMAIN edge : edge'[j].target = edge[j].target
            /\ \A t \in Targets : Mirrored(t)' = Mirrored(t)
        BY <1>c, <3>1, CommentEffect
      <3> QED BY <2>1, <3>2 DEF Steady
    <2> QED BY <1>s, <2>1, <2>2
  <1>6. ASSUME NEW op \in Operations, Start(op) PROVE CursorInv'
    <2>1. /\ state = NoOperation /\ orphans' = orphans /\ state'.op = op
          /\ state'.phase = "drain_outbox" /\ UNCHANGED <<pc, view>>
          /\ \A w \in Workers : view[w].op # op
      BY <1>6 DEF Start, NoOperation, requestVars
    <2>2. orphans' = Empty
      BY <1>c, <2>1 DEF CoreInv, CoreTypes
    <2> QED BY <1>b, <2>1, <2>2 DEF JustBegun, Current
  <1>7. CASE Cancel
    BY <1>7, <1>n DEF Cancel, RemoveOperation
  <1>8. ASSUME NEW w \in Workers, RequestStep(w) PROVE CursorInv'
    <2>1. CASE state' = NoOperation
      BY <1>n, <2>1
    <2>2. CASE state' # NoOperation
      <3>1. disturbed' = disturbed
        BY <1>8, <1>c, <2>2, RequestChanges DEF RemoveOperation
      <3>2. CASE disturbed
        BY <3>1, <3>2 DEF CursorInv
      <3>3. CASE ~ disturbed
        BY <1>8, <2>2, <3>3, RequestLeavesNoGap
      <3> QED BY <3>2, <3>3
    <2> QED BY <2>1, <2>2
  <1> QED BY <1>1, <1>2, <1>3, <1>4, <1>5, <1>6, <1>7, <1>8 DEF Next, ContentStep, ProjectionStep

\* CursorsLeaveNoGap: whatever requests overlapped, were repeated, cut short or
\* belonged to an operation that was cancelled, as long as no content is
\* written since the operation was started, every Post or Page that was passed
\* is mirrored, and every Edge row that was passed and has no Post or Page is
\* listed.
THEOREM CursorsAreHonest ==
  ASSUME QuietSteps
  PROVE  Spec => []CursorsLeaveNoGap
  <1>1. Init => CursorInv
    <2> SUFFICES ASSUME Init PROVE CursorInv
      OBVIOUS
    <2>1. CoreInv
      BY CoreInit
    <2>2. JustBegun
      BY DEF Init, JustBegun, Current, Busy
    <2> QED BY <2>1, <2>2, NoGapAtFirst
  <1>2. QuietInv /\ DrainInv /\ CursorInv /\ [Next]_vars => CursorInv'
    BY CursorKept
  <1>3. CursorInv => CursorsLeaveNoGap
    <2> SUFFICES ASSUME CursorInv, ~ disturbed
                 PROVE  /\ \A t \in Passed : content[t] # NoRow => Mirrored(t) = content[t]
                        /\ \A i \in DOMAIN edge :
                             (Reviewing \/ i <= state.edgeCursor) /\ content[edge[i].target] = NoRow
                               => i \in DOMAIN orphans
      BY DEF CursorsLeaveNoGap
    <2>1. SyncedTo(state, {}) /\ ListedTo(state, Empty)
      BY DEF CursorInv
    <2>2. Passed = PassedBy(state)
      BY DEF Passed, PassedBy
    <2>3. \A t \in Passed : content[t] # NoRow => Mirrored(t) = content[t]
      BY <2>1, <2>2 DEF SyncedTo
    <2>4. \A i \in DOMAIN edge :
            (Reviewing \/ i <= state.edgeCursor) /\ content[edge[i].target] = NoRow
              => i \in DOMAIN orphans
      BY <2>1, NoRows DEF ListedTo, ScannedBy, IsOrphan, Reviewing
    <2> QED BY <2>3, <2>4
  <1> QED BY <1>1, <1>2, <1>3, QuietlyInvariant, CompletionInvariant, PTL DEF Spec

-----------------------------------------------------------------------------
(* Remembered rows and cache revisions *)

\* Revisions never run out (the code draws 128 random bits each).
RevisionsSuffice == IsFiniteSet(Workers) /\ Nat \subseteq Tokens

\* The rows that are remembered, or may be from this step on.
Known(i, r) ==
  \/ i \in DOMAIN edge /\ r = edge[i]
  \/ i \in DOMAIN orphans /\ r = orphans[i]
  \/ \E w \in Workers : /\ pc[w] # "sync" /\ i \in DOMAIN page[w]
                        /\ \/ r = page[w][i]
                           \/ pc[w] = "found" /\ r = [page[w][i] EXCEPT !.comments = CommentsOf(i)]

\* What a row of the model carries.
Stamped(r) == r.revision \in Tokens /\ r.comments \subseteq Comments

StampInv ==
  /\ edge = [i \in DOMAIN edge |-> edge[i]]
  /\ orphans = [i \in DOMAIN orphans |-> orphans[i]]
  /\ \A i \in DOMAIN edge : Stamped(edge[i]) /\ IsFiniteSet(edge[i].comments)
  /\ \A i \in DOMAIN orphans : Stamped(orphans[i])
  /\ \A w \in Workers : pc[w] # "sync" => \A i \in DOMAIN page[w] : Stamped(page[w][i])

\* There is always a fresh revision, and no row has it.
LEMMA FreshIsNew ==
  ASSUME CoreInv, RevisionsSuffice
  PROVE  /\ FreshToken \in Tokens
         /\ \A i, r : Known(i, r) => r.revision # FreshToken
  <1> DEFINE OfEdge == {edge[i].revision : i \in DOMAIN edge}
             OfList == {orphans[i].revision : i \in DOMAIN orphans}
             OfPage(w) == {page[w][i].revision : i \in DOMAIN page[w]}
             Readers == {w \in Workers : pc[w] # "sync"}
             Used == OfEdge \cup OfList \cup UNION {OfPage(w) : w \in Readers}
  <1>0. \A w \in Readers : AreRows(page[w])
    BY NoRows DEF CoreInv, RequestInv, RequestOf, CarriesRows
  <1>r. ASSUME NEW rows, AreRows(rows) PROVE IsFiniteSet({rows[i].revision : i \in DOMAIN rows})
    <2> DEFINE f == [i \in DOMAIN rows |-> rows[i].revision]
    <2>1. IsFiniteSet({f[i] : i \in DOMAIN rows})
      <3> HIDE DEF f
      <3> QED BY <1>r, ImageIsFinite DEF AreRows
    <2> QED BY <2>1
  <1>1. IsFiniteSet(OfEdge) /\ IsFiniteSet(OfList)
    BY <1>r DEF CoreInv, CoreTypes, EdgeInv
  <1>2. IsFiniteSet(UNION {OfPage(w) : w \in Readers})
    <2> DEFINE g == [w \in Readers |-> OfPage(w)]
    <2>1. \A w \in Readers : IsFiniteSet(OfPage(w))
      BY <1>0, <1>r
    <2>2. IsFiniteSet(Readers)
      BY FS_Subset DEF RevisionsSuffice
    <2>3. {OfPage(w) : w \in Readers} = {g[w] : w \in Readers}
      OBVIOUS
    <2>4. IsFiniteSet({OfPage(w) : w \in Readers})
      <3> HIDE DEF g, OfPage, Readers
      <3> QED BY <2>2, <2>3, ImageIsFinite
    <2>5. \A S \in {OfPage(w) : w \in Readers} : IsFiniteSet(S)
      <3> HIDE DEF OfPage, Readers
      <3> QED BY <2>1
    <2> HIDE DEF OfPage, Readers
    <2> QED BY <2>4, <2>5, FS_UNION
  <1>3. IsFiniteSet(Used)
    <2> HIDE DEF OfEdge, OfList, OfPage, Readers
    <2> QED BY <1>1, <1>2, FS_Union
  <1>4. PICK n \in Nat : n \notin Used
    <2> DEFINE S == (Used \cap Nat) \cup {0}
    <2> HIDE DEF Used
    <2>1. S \in SUBSET Nat /\ S # {} /\ IsFiniteSet(S)
      <3>1. Used \cap Nat \in SUBSET Used
        OBVIOUS
      <3>2. IsFiniteSet(Used \cap Nat)
        BY <1>3, <3>1, FS_Subset
      <3>3. IsFiniteSet((Used \cap Nat) \cup {0})
        BY <3>2, FS_AddElement
      <3> QED BY <3>3
    <2>2. Max(S) \in S /\ \A t \in S : t <= Max(S)
      <3> HIDE DEF S
      <3> QED BY <2>1, Extremes
    <2>3. Max(S) \in Nat
      BY <2>1, <2>2
    <2>4. Max(S) + 1 \in Nat /\ Max(S) + 1 \notin S
      <3> HIDE DEF S
      <3> QED BY <2>2, <2>3
    <2> QED BY <2>4
  <1>5. /\ n \in Tokens
        /\ \A i \in DOMAIN edge : n # edge[i].revision
        /\ \A i \in DOMAIN orphans : n # orphans[i].revision
        /\ \A w \in Workers : pc[w] # "sync" =>
             \A i \in DOMAIN page[w] : n # page[w][i].revision
    BY <1>4 DEF RevisionsSuffice
  <1>6. /\ FreshToken \in Tokens
        /\ \A i \in DOMAIN edge : FreshToken # edge[i].revision
        /\ \A i \in DOMAIN orphans : FreshToken # orphans[i].revision
        /\ \A w \in Workers : pc[w] # "sync" =>
             \A i \in DOMAIN page[w] : FreshToken # page[w][i].revision
    BY <1>5 DEF FreshToken
  <1>7. ASSUME NEW i, NEW r, Known(i, r) PROVE r.revision # FreshToken
    <2>1. CASE (i \in DOMAIN edge /\ r = edge[i]) \/ (i \in DOMAIN orphans /\ r = orphans[i])
      BY <1>6, <2>1
    <2>2. ASSUME NEW w \in Workers, pc[w] # "sync", i \in DOMAIN page[w],
                 r = page[w][i] \/ r = [page[w][i] EXCEPT !.comments = CommentsOf(i)]
          PROVE  r.revision = page[w][i].revision
      <3>1. IsRow(page[w][i])
        BY <1>0, <2>2 DEF AreRows
      <3>2. page[w][i] = [target |-> page[w][i].target, value |-> page[w][i].value,
                          revision |-> page[w][i].revision, comments |-> page[w][i].comments]
        BY <3>1 DEF IsRow
      <3> QED BY <2>2, <3>2
    <2> QED BY <1>6, <1>7, <2>1, <2>2 DEF Known
  <1> QED BY <1>6, <1>7

\* A row of the Edge database keeps its target, its revision and its comments,
\* or it has a fresh revision; it gains at most one comment.
RowGoesOn(i) ==
  /\ \/ /\ i \in DOMAIN edge
        /\ edge'[i].target = edge[i].target
        /\ edge'[i].revision = edge[i].revision
        /\ edge[i].comments \subseteq edge'[i].comments
     \/ edge'[i].revision = FreshToken
  /\ \/ edge'[i].comments \subseteq CommentsOf(i)
     \/ \E c \in Comments : edge'[i].comments \subseteq CommentsOf(i) \cup {c}
  /\ i \in DOMAIN edge => edge'[i].revision \in {edge[i].revision, FreshToken}

LEMMA RowsGoOn ==
  ASSUME CoreInv, edge = [i \in DOMAIN edge |-> edge[i]], [Next]_vars
  PROVE  /\ edge' = [i \in DOMAIN edge' |-> edge'[i]]
         /\ \A i \in DOMAIN edge' : RowGoesOn(i)
  <1>1. CASE edge' = edge
    BY <1>1 DEF RowGoesOn, CommentsOf
  <1>2. ASSUME NEW t \in Targets, Replay(t)
        PROVE  /\ edge' = [i \in DOMAIN edge' |-> edge'[i]]
               /\ \A i \in DOMAIN edge' : RowGoesOn(i)
    BY <1>2, ReplayEffect DEF RowGoesOn, CommentsOf
  <1>3. ASSUME NEW j \in DOMAIN edge, NEW c \in Comments, PostComment(j, c) \/ DeleteComment(j, c)
        PROVE  /\ edge' = [i \in DOMAIN edge' |-> edge'[i]]
               /\ \A i \in DOMAIN edge' : RowGoesOn(i)
    <2>c. EdgeInv
      BY DEF CoreInv
    <2>1. /\ DOMAIN edge' = DOMAIN edge
          /\ \A i \in DOMAIN edge : edge'[i].target = edge[i].target
          /\ \A i \in DOMAIN edge \ {j} : edge'[i] = edge[i]
          /\ edge' = [i \in DOMAIN edge' |-> edge'[i]]
      BY <1>3, <2>c, CommentEffect
    <2>2. edge[j] = [target |-> edge[j].target, value |-> edge[j].value,
                     revision |-> edge[j].revision, comments |-> edge[j].comments]
      BY <2>c DEF EdgeInv, AreRows, IsRow
    <2>3. RowGoesOn(j)
      <3>1. CASE PostComment(j, c)
        <4>1. PICK fresh \in BOOLEAN :
                edge' = [edge EXCEPT ![j].comments = @ \cup {c},
                                     ![j].revision = IF fresh THEN FreshToken ELSE @]
          BY <3>1 DEF PostComment
        <4>2. edge'[j] = [edge[j] EXCEPT !.comments = edge[j].comments \cup {c},
                                         !.revision = IF fresh THEN FreshToken ELSE edge[j].revision]
          BY <4>1
        <4>3. /\ edge'[j].comments = edge[j].comments \cup {c}
              /\ edge'[j].revision = IF fresh THEN FreshToken ELSE edge[j].revision
          BY <2>2, <4>2
        <4> QED BY <2>1, <4>3 DEF RowGoesOn, CommentsOf
      <3>2. CASE DeleteComment(j, c)
        <4>1. edge' = [edge EXCEPT ![j].comments = @ \ {c}, ![j].revision = FreshToken]
          BY <3>2 DEF DeleteComment
        <4>2. edge'[j] = [edge[j] EXCEPT !.comments = edge[j].comments \ {c}, !.revision = FreshToken]
          BY <4>1
        <4>3. edge'[j].comments = edge[j].comments \ {c} /\ edge'[j].revision = FreshToken
          BY <2>2, <4>2
        <4> QED BY <2>1, <4>3 DEF RowGoesOn, CommentsOf
      <3> QED BY <1>3, <3>1, <3>2
    <2>4. \A i \in DOMAIN edge \ {j} : RowGoesOn(i)
      BY <2>1 DEF RowGoesOn, CommentsOf
    <2> QED BY <2>1, <2>3, <2>4
  <1>4. ASSUME NEW w \in Workers, WritePage(w)
        PROVE  /\ edge' = [i \in DOMAIN edge' |-> edge'[i]]
               /\ \A i \in DOMAIN edge' : RowGoesOn(i)
    BY <1>4, WriteEffect DEF RowGoesOn, CommentsOf
  <1>5. ASSUME NEW w \in Workers, DeleteTarget(w), edge' # edge
        PROVE  /\ edge' = [i \in DOMAIN edge' |-> edge'[i]]
               /\ \A i \in DOMAIN edge' : RowGoesOn(i)
    BY <1>5, DeleteEffect DEF RowGoesOn, CommentsOf
  <1>6. \/ edge' = edge
        \/ \E t \in Targets : Replay(t)
        \/ \E j \in DOMAIN edge, c \in Comments : PostComment(j, c) \/ DeleteComment(j, c)
        \/ \E w \in Workers : RequestStep(w)
    BY SwitchKeeps DEF Next, ContentStep, WriteContent, ProjectionStep, Confirm,
           CommentStep, Start, Cancel, vars, edgeVars
  <1> QED BY <1>1, <1>2, <1>3, <1>4, <1>5, <1>6, RequestChanges

\* What is remembered after a step was known before it.
LEMMA RowsAreKnown ==
  ASSUME CoreInv, [Next]_vars
  PROVE  /\ \A i \in DOMAIN orphans' : Known(i, orphans'[i])
         /\ \A w \in Workers : pc'[w] # "sync" => \A i \in DOMAIN page'[w] : Known(i, page'[w][i])
  <1>t. /\ DOMAIN pc = Workers /\ DOMAIN view = Workers /\ DOMAIN after = Workers
        /\ DOMAIN page = Workers /\ DOMAIN checks = Workers
    BY DEF CoreInv, CoreTypes
  <1>1. \A i \in DOMAIN orphans' : Known(i, orphans'[i])
    <2>1. CASE orphans' = orphans
      BY <2>1 DEF Known
    <2>2. CASE orphans' = Empty
      BY <2>2, NoRows
    <2>3. ASSUME NEW w \in Workers, ListOrphans(w), orphans' # orphans
          PROVE  \A i \in DOMAIN orphans' : Known(i, orphans'[i])
      <3>1. pc[w] = "counted"
            /\ orphans' = [i \in DOMAIN page[w] \cup DOMAIN orphans |->
                             IF i \in DOMAIN page[w] THEN page[w][i] ELSE orphans[i]]
        BY <2>3 DEF ListOrphans
      <3> QED BY <3>1 DEF Known
    <2>4. ASSUME NEW w \in Workers, Unlist(w)
          PROVE  \A i \in DOMAIN orphans' : Known(i, orphans'[i])
      <3>1. orphans' = orphans \/ orphans' = [i \in DOMAIN orphans \ {Chosen(w)} |-> orphans[i]]
        BY <2>4 DEF Unlist, Restrict
      <3> QED BY <3>1 DEF Known
    <2>5. \/ orphans' = orphans \/ orphans' = Empty
          \/ \E w \in Workers : RequestStep(w)
      BY SwitchKeeps DEF Next, ContentStep, WriteContent, ProjectionStep, Replay, Confirm,
             CommentStep, PostComment, DeleteComment, Start, Cancel, RemoveOperation, vars
    <2> QED BY <2>1, <2>2, <2>3, <2>4, <2>5, RequestChanges DEF RemoveOperation
  <1>2. ASSUME NEW v \in Workers, pc'[v] = pc[v], page'[v] = page[v], pc'[v] # "sync",
               NEW i \in DOMAIN page'[v]
        PROVE  Known(i, page'[v][i])
    BY <1>2 DEF Known
  <1>3. ASSUME NEW w \in Workers, RequestStep(w), pc'[w] # "sync", NEW i \in DOMAIN page'[w]
        PROVE  Known(i, page'[w][i])
    <2>e. CASE page'[w] = Empty
      BY <1>3, <2>e, NoRows
    <2>s. CASE page'[w] = page[w] /\ pc[w] # "sync"
      BY <1>3, <2>s DEF Known
    <2>1. CASE ScanPage(w)
      <3>1. PICK ids : ids \subseteq DOMAIN edge /\ page'[w] = [j \in ids |-> edge[j]]
        BY <1>t, <2>1 DEF ScanPage, FirstOf
      <3> QED BY <1>3, <3>1 DEF Known
    <2>2. CASE LookUpContent(w)
      <3>1. /\ pc[w] = "scanned"
            /\ page'[w] = [j \in {j \in DOMAIN page[w] : content[page[w][j].target] = NoRow} |->
                             page[w][j]]
        BY <1>t, <2>2 DEF LookUpContent, Restrict
      <3> QED BY <1>3, <3>1 DEF Known
    <2>3. CASE CountComments(w)
      <3>1. /\ pc[w] = "found"
            /\ page'[w] = [j \in DOMAIN page[w] |-> [page[w][j] EXCEPT !.comments = CommentsOf(j)]]
        BY <1>t, <2>3 DEF CountComments
      <3> QED BY <1>3, <3>1 DEF Known
    <2>4. ASSUME NEW j \in DOMAIN orphans, ReadOrphan(w, j) PROVE Known(i, page'[w][i])
      <3>1. page'[w] = [k \in {j} |-> orphans[j]]
        BY <1>t, <2>4 DEF ReadOrphan
      <3> QED BY <1>3, <3>1 DEF Known
    <2>5. CASE (\E step \in {"step", "purge", "finalize"} : ReadState(w, step)) \/ CountRemaining(w)
               \/ ReadPage(w) \/ WritePage(w) \/ ListOrphans(w) \/ Advance(w)
      BY <1>3, <1>t, <2>5, <2>e, <2>s
         DEF ReadState, CountRemaining, ReadPage, WritePage, ListOrphans, Advance, Return, Leave,
             Drop, GoTo
    <2>6. CASE LookUpOrphan(w) \/ ReadCurrent(w) \/ RecountComments(w) \/ DeleteTarget(w)
               \/ Unlist(w) \/ FinishPurge(w)
      BY <1>t, <2>6, <2>e, <2>s
         DEF LookUpOrphan, ReadCurrent, RecountComments, DeleteTarget, Unlist, FinishPurge,
             KeepTarget, Return, Leave, Drop, GoTo
    <2>7. CASE FinalizeStep(w) \/ Abandon(w) \/ Recover(w)
      BY <1>t, <2>7, <2>e, <2>s
         DEF FinalizeStep, CheckCondition, Finalize, Abandon, Recover, Return, Leave
    <2> QED BY <1>3, <2>1, <2>2, <2>3, <2>4, <2>5, <2>6, <2>7
        DEF RequestStep, AdvanceStep, PurgeStep
  <1>4. ASSUME NEW v \in Workers, pc'[v] # "sync", NEW i \in DOMAIN page'[v]
        PROVE  Known(i, page'[v][i])
    <2>1. CASE UNCHANGED requestVars
      BY <1>2, <1>4, <2>1 DEF requestVars
    <2>2. ASSUME NEW w \in Workers, RequestStep(w) PROVE Known(i, page'[v][i])
      <3>1. CASE v = w
        BY <1>3, <1>4, <2>2, <3>1
      <3>2. CASE v # w
        <4>1. Untouched(v)
          BY <2>2, <3>2, OthersKeep DEF CoreInv
        <4> QED BY <1>2, <1>4, <4>1 DEF Untouched
      <3> QED BY <3>1, <3>2
    <2> QED BY <2>1, <2>2, OnlyRequestsStep
  <1> QED BY <1>1, <1>4

\* Everything known is stamped, and known rows remember their comments.
LEMMA KnownRows ==
  ASSUME CoreInv, StampInv, RememberInv, NEW i, NEW r, Known(i, r)
  PROVE  Stamped(r) /\ Remembers(r, i)
  <1>1. CASE i \in DOMAIN edge /\ r = edge[i]
    BY <1>1 DEF StampInv, Remembers
  <1>2. CASE i \in DOMAIN orphans /\ r = orphans[i]
    BY <1>2 DEF StampInv, RememberInv
  <1>3. ASSUME NEW w \in Workers, pc[w] # "sync", i \in DOMAIN page[w], r = page[w][i]
        PROVE  Stamped(r) /\ Remembers(r, i)
    BY <1>3 DEF StampInv, RememberInv
  <1>4. ASSUME NEW w \in Workers, pc[w] = "found", i \in DOMAIN page[w],
               r = [page[w][i] EXCEPT !.comments = CommentsOf(i)]
        PROVE  Stamped(r) /\ Remembers(r, i)
    <2>1. IsRow(page[w][i])
      BY <1>4 DEF CoreInv, RequestInv, RequestOf, CarriesRows, ScanSteps, AreRows
    <2>2. page[w][i] = [target |-> page[w][i].target, value |-> page[w][i].value,
                        revision |-> page[w][i].revision, comments |-> page[w][i].comments]
      BY <2>1 DEF IsRow
    <2>3. r.comments = CommentsOf(i) /\ r.revision = page[w][i].revision
      BY <1>4, <2>2
    <2>4. CommentsOf(i) \subseteq Comments
      BY DEF CommentsOf, StampInv, Stamped
    <2>5. Stamped(page[w][i])
      BY <1>4 DEF StampInv
    <2> QED BY <2>3, <2>4, <2>5 DEF Stamped, Remembers, CommentsOf
  <1> QED BY <1>1, <1>2, <1>3, <1>4 DEF Known

LEMMA RememberKept ==
  ASSUME CoreInv, StampInv, RememberInv, RevisionsSuffice, [Next]_vars
  PROVE  StampInv' /\ RememberInv'
  <1>e. /\ edge' = [i \in DOMAIN edge' |-> edge'[i]]
        /\ \A i \in DOMAIN edge' : RowGoesOn(i)
    BY RowsGoOn DEF StampInv
  <1>f. FreshToken \in Tokens
    BY FreshIsNew
  <1>1. ASSUME NEW i, NEW r, Known(i, r) PROVE Stamped(r) /\ Remembers(r, i)'
    <2>1. Stamped(r) /\ Remembers(r, i) /\ r.revision # FreshToken
      BY <1>1, KnownRows, FreshIsNew
    <2>2. i \in DOMAIN edge' => RowGoesOn(i)
      BY <1>e
    <2> HIDE DEF FreshToken
    <2> QED BY <2>1, <2>2 DEF Remembers, RowGoesOn
  <1>2. ASSUME NEW i \in DOMAIN edge' PROVE Stamped(edge'[i]) /\ IsFiniteSet(edge'[i].comments)
    <2>1. CommentsOf(i) \subseteq Comments /\ IsFiniteSet(CommentsOf(i))
      BY FS_EmptySet DEF CommentsOf, StampInv, Stamped
    <2>2. RowGoesOn(i)
      BY <1>e
    <2>3. \E S : S \subseteq Comments /\ IsFiniteSet(S) /\ edge'[i].comments \subseteq S
      <3>1. CASE edge'[i].comments \subseteq CommentsOf(i)
        BY <2>1, <3>1
      <3>2. ASSUME NEW c \in Comments, edge'[i].comments \subseteq CommentsOf(i) \cup {c}
            PROVE  \E S : S \subseteq Comments /\ IsFiniteSet(S) /\ edge'[i].comments \subseteq S
        <4>1. IsFiniteSet(CommentsOf(i) \cup {c}) /\ CommentsOf(i) \cup {c} \subseteq Comments
          BY <2>1, FS_AddElement
        <4> QED BY <3>2, <4>1
      <3> QED BY <2>2, <3>1, <3>2 DEF RowGoesOn
    <2>4. edge'[i].comments \subseteq Comments /\ IsFiniteSet(edge'[i].comments)
      BY <2>3, FS_Subset
    <2>5. edge'[i].revision \in Tokens
      BY <1>f, <2>2 DEF RowGoesOn, StampInv, Stamped
    <2> QED BY <2>4, <2>5 DEF Stamped
  <1>3. /\ \A i \in DOMAIN orphans' : Known(i, orphans'[i])
        /\ \A w \in Workers : pc'[w] # "sync" => \A i \in DOMAIN page'[w] : Known(i, page'[w][i])
    BY RowsAreKnown
  <1>4. orphans' = [i \in DOMAIN orphans' |-> orphans'[i]]
    <2>1. CASE orphans' = orphans
      BY <2>1 DEF StampInv
    <2>2. CASE orphans' = Empty
      BY <2>2 DEF Empty
    <2>3. ASSUME NEW w \in Workers, ListOrphans(w) \/ Unlist(w), orphans' # orphans
          PROVE  orphans' = [i \in DOMAIN orphans' |-> orphans'[i]]
      BY <2>3 DEF ListOrphans, Unlist, Restrict
    <2>4. \/ orphans' = orphans \/ orphans' = Empty
          \/ \E w \in Workers : RequestStep(w)
      BY SwitchKeeps DEF Next, ContentStep, WriteContent, ProjectionStep, Replay, Confirm,
             CommentStep, PostComment, DeleteComment, Start, Cancel, RemoveOperation, vars
    <2> QED BY <2>1, <2>2, <2>3, <2>4, RequestChanges DEF RemoveOperation
  <1>5. StampInv'
    <2> HIDE DEF Known, FreshToken
    <2>1. \A i \in DOMAIN orphans' : Stamped(orphans'[i])
      BY <1>1, <1>3
    <2>2. \A w \in Workers : pc'[w] # "sync" => \A i \in DOMAIN page'[w] : Stamped(page'[w][i])
      BY <1>1, <1>3
    <2> QED BY <1>2, <1>4, <1>e, <2>1, <2>2 DEF StampInv, Stamped
  <1>6. RememberInv'
    <2> HIDE DEF Known, FreshToken
    <2>1. \A i \in DOMAIN orphans' : Remembers(orphans[i], i)'
      BY <1>1, <1>3 DEF Remembers
    <2>2. \A w \in Workers : pc'[w] # "sync" => \A i \in DOMAIN page'[w] : Remembers(page[w][i], i)'
      BY <1>1, <1>3 DEF Remembers
    <2> QED BY <2>1, <2>2 DEF RememberInv
  <1> QED BY <1>5, <1>6

LEMMA RememberInvariant ==
  ASSUME RevisionsSuffice
  PROVE  Spec => [](CoreInv /\ StampInv /\ RememberInv)
  <1>1. ASSUME Init PROVE StampInv /\ RememberInv
    <2>1. PICK f \in [Targets -> Values \cup {NoRow}] : edge = RowsOf(f)
      BY <1>1 DEF Init
    <2>2. /\ EdgeInv
          /\ edge = [i \in DOMAIN edge |-> edge[i]]
          /\ \A i \in DOMAIN edge : edge[i].revision = i /\ edge[i].comments = {}
      BY <2>1, RowsOfContent
    <2>3. \A i \in DOMAIN edge : Stamped(edge[i]) /\ IsFiniteSet(edge[i].comments)
      <3> SUFFICES ASSUME NEW i \in DOMAIN edge PROVE Stamped(edge[i]) /\ IsFiniteSet(edge[i].comments)
        OBVIOUS
      <3>1. edge[i].revision = i /\ edge[i].comments = {} /\ i \in Nat
        BY <2>2 DEF EdgeInv, AreRows
      <3>2. i \in Tokens /\ IsFiniteSet({})
        BY <3>1, FS_EmptySet DEF RevisionsSuffice
      <3> QED BY <3>1, <3>2 DEF Stamped
    <2>4. orphans = Empty /\ \A w \in Workers : page[w] = Empty
      BY <1>1 DEF Init
    <2> QED BY <2>2, <2>3, <2>4 DEF StampInv, RememberInv, Empty
  <1>2. CoreInv /\ StampInv /\ RememberInv /\ [Next]_vars => (CoreInv /\ StampInv /\ RememberInv)'
    BY CoreKept, RememberKept
  <1> QED BY <1>1, <1>2, CoreInit, PTL DEF Spec

\* TypeOK: all variables have the values they are declared with, and every
\* request runs one of its steps.
THEOREM TypeCorrect ==
  ASSUME RevisionsSuffice
  PROVE  Spec => []TypeOK
  <1>1. ASSUME CoreInv, StampInv, RememberInv PROVE TypeOK
    <2>1. ASSUME NEW rows, AreRows(rows), \A i \in DOMAIN rows : Stamped(rows[i]),
                 rows = [i \in DOMAIN rows |-> rows[i]]
          PROVE  DOMAIN rows \subseteq Nat /\ rows \in [DOMAIN rows -> EdgeRows]
      <3>1. ASSUME NEW i \in DOMAIN rows PROVE rows[i] \in EdgeRows
        <4>1. IsRow(rows[i]) /\ Stamped(rows[i])
          BY <2>1 DEF AreRows
        <4> QED BY <4>1 DEF IsRow, Stamped, EdgeRows
      <3> QED BY <2>1, <3>1 DEF AreRows
    <2>2. DOMAIN edge \subseteq Nat /\ edge \in [DOMAIN edge -> EdgeRows]
      BY <1>1, <2>1 DEF CoreInv, EdgeInv, StampInv
    <2>3. DOMAIN orphans \subseteq Nat /\ orphans \in [DOMAIN orphans -> EdgeRows]
      BY <1>1, <2>1 DEF CoreInv, CoreTypes, StampInv
    <2>4. state \in States
      BY <1>1 DEF CoreInv, CoreTypes, IsOperation, NoOperation, States
    <2>5. replayed \subseteq Targets
      BY <1>1 DEF CoreInv, CoreTypes
    <2>6. activation \in [running : BOOLEAN, matched : SUBSET Targets, missed : SUBSET Targets]
      BY <1>1 DEF CoreInv, CoreTypes, Activations
    <2> QED BY <1>1, <2>2, <2>3, <2>4, <2>5, <2>6 DEF TypeOK, CoreInv, CoreTypes
  <1> QED BY <1>1, RememberInvariant, PTL

\* PurgeSparesUnseen: a purge removes no comment that was not there when its
\* target was listed, and no row that took over the id of a listed one.  The
\* deletion compares how many comments there are; they are the same comments
\* because a row that lost one has another revision.
THEOREM UnseenIsSpared ==
  ASSUME RevisionsSuffice
  PROVE  Spec => PurgeSparesUnseen
  <1> DEFINE Seen == \A i \in Purged :
               \E w \in Workers :
                 /\ pc[w] = "delete" /\ i \in DOMAIN page[w]
                 /\ edge[i].target = page[w][i].target
                 /\ edge[i].comments \subseteq page[w][i].comments
  <1>1. ASSUME CoreInv, StampInv, RememberInv, [Next]_vars, NEW i \in Purged
        PROVE  \E w \in Workers :
                 /\ pc[w] = "delete" /\ i \in DOMAIN page[w]
                 /\ edge[i].target = page[w][i].target
                 /\ edge[i].comments \subseteq page[w][i].comments
    <2>1. PICK w \in Workers :
            /\ pc[w] = "delete" /\ i = Chosen(w) /\ i \in DOMAIN page[w] /\ i \in DOMAIN edge
            /\ SameRow(w) /\ SameCount(w)
      BY <1>1, RowsGoBy
    <2>2. /\ edge[i].target = page[w][i].target /\ edge[i].revision = page[w][i].revision
          /\ Cardinality(edge[i].comments) = Cardinality(page[w][i].comments)
      <3>1. Snapshot(w) = page[w][i]
        BY <2>1 DEF Snapshot
      <3>2. CommentsOf(Chosen(w)) = edge[i].comments
        BY <2>1 DEF CommentsOf
      <3> HIDE DEF Chosen, Snapshot
      <3> QED BY <2>1, <3>1, <3>2 DEF SameRow, SameCount
    <2>3. page[w][i].comments \subseteq edge[i].comments
      BY <1>1, <2>1, <2>2 DEF RememberInv, Remembers
    <2>4. IsFiniteSet(edge[i].comments)
      BY <1>1, <2>1 DEF StampInv
    <2>5. page[w][i].comments = edge[i].comments
      BY <2>2, <2>3, <2>4, FS_Subset
    <2> QED BY <2>1, <2>2, <2>5
  <1>2. CoreInv /\ StampInv /\ RememberInv /\ [Next]_vars => [Seen]_vars
    BY <1>1
  <1>3. [][Seen]_vars => PurgeSparesUnseen
    BY DEF PurgeSparesUnseen
  <1> HIDE DEF Seen
  <1> QED BY <1>2, <1>3, RememberInvariant, PTL DEF Spec

=============================================================================

------------------------- MODULE TargetReplication -------------------------
(***************************************************************************)
(* What the projection of comment targets promises, free of outbox, leases *)
(* and drains: the replica of each target replays every write of the       *)
(* source in order and at least once, and tracking only starts once every  *)
(* target was found equal on both sides.  The targets are compared one     *)
(* after another and a write may follow its comparison: such a write is    *)
(* not replayed, and nothing later is compared with it.                    *)
(***************************************************************************)
EXTENDS Naturals, Sequences

CONSTANTS Targets, Values, Absent

VARIABLES
  source, queue, replica, tracked,
  compared  \* targets found equal since tracking stopped or a target differed

vars == <<source, queue, replica, tracked, compared>>

Init ==
  /\ source = [t \in Targets |-> Absent]
  /\ queue = [t \in Targets |-> << >>]
  /\ replica = [t \in Targets |-> Absent]
  /\ tracked = TRUE
  /\ compared = {}

Write(t, v) ==
  /\ source' = [source EXCEPT ![t] = v]
  /\ queue' = IF tracked THEN [queue EXCEPT ![t] = Append(@, v)] ELSE queue
  /\ UNCHANGED <<replica, tracked, compared>>

Replay(S) ==
  /\ \A t \in S : queue[t] # << >>
  /\ replica' = [t \in Targets |-> IF t \in S THEN Head(queue[t]) ELSE replica[t]]
  /\ UNCHANGED <<source, queue, tracked, compared>>

Confirm(S) ==
  /\ \A t \in S : queue[t] # << >> /\ replica[t] = Head(queue[t])
  /\ queue' = [t \in Targets |-> IF t \in S THEN Tail(queue[t]) ELSE queue[t]]
  /\ UNCHANGED <<source, replica, tracked, compared>>

Detach ==
  /\ tracked /\ tracked' = FALSE
  /\ compared' = {}
  /\ UNCHANGED <<source, queue, replica>>

Compare(t) ==
  /\ ~ tracked
  /\ queue[t] = << >>
  /\ replica[t] = source[t]
  /\ compared' = compared \cup {t}
  /\ UNCHANGED <<source, queue, replica, tracked>>

CompareAfresh ==
  /\ ~ tracked
  /\ compared' = {}
  /\ UNCHANGED <<source, queue, replica, tracked>>

Attach ==
  /\ ~ tracked /\ tracked' = TRUE
  /\ \A t \in Targets : queue[t] = << >>
  /\ compared = Targets
  /\ compared' = {}
  /\ UNCHANGED <<source, queue, replica>>

Next ==
  \/ \E t \in Targets, v \in Values : Write(t, v)
  \/ \E S \in SUBSET Targets : Replay(S) \/ Confirm(S)
  \/ \E t \in Targets : Compare(t)
  \/ CompareAfresh
  \/ Detach
  \/ Attach

Spec == Init /\ [][Next]_vars
=============================================================================

--------------------------- MODULE MediaLifecycle ---------------------------
(***************************************************************************)
(* What managed uploads promise, free of requests, batches and cleanup     *)
(* queues: an upload is reserved once, is published at most once and only  *)
(* with its file in place, keeps that file as long as it is published, and *)
(* is never published again once it was retired.  Whoever stores an upload *)
(* may come to doubt that it was or will be published; only then may the   *)
(* file of a published upload be discarded.                                *)
(***************************************************************************)
CONSTANT Uploads

VARIABLES status, files, doubted

vars == <<status, files, doubted>>

Statuses == {"unused", "reserved", "published", "retired"}

Init ==
  /\ status = [u \in Uploads |-> "unused"]
  /\ files = {}
  /\ doubted = {}

Reserve(u) ==
  /\ status[u] = "unused"
  /\ status' = [status EXCEPT ![u] = "reserved"]
  /\ UNCHANGED <<files, doubted>>

Store(u) ==
  /\ status[u] # "unused"
  /\ files' = files \cup {u}
  /\ UNCHANGED <<status, doubted>>

Publish(u) ==
  /\ status[u] = "reserved"
  /\ u \in files \cup doubted
  /\ status' = [status EXCEPT ![u] = "published"]
  /\ UNCHANGED files
  /\ doubted' \in {doubted, doubted \cup {u}}

Doubt(u) ==
  /\ status[u] \in {"reserved", "published"}
  /\ doubted' = doubted \cup {u}
  /\ UNCHANGED <<status, files>>

Retire(S) ==
  /\ \A u \in S : status[u] \in {"reserved", "published"}
  /\ status' = [u \in Uploads |-> IF u \in S THEN "retired" ELSE status[u]]
  /\ UNCHANGED <<files, doubted>>

Discard(S) ==
  /\ \A u \in S : status[u] \in {"reserved", "retired"} \/ u \in doubted
  /\ files' = files \ S
  /\ UNCHANGED <<status, doubted>>

Next ==
  \/ \E u \in Uploads : Reserve(u) \/ Store(u) \/ Publish(u) \/ Doubt(u)
  \/ \E S \in SUBSET Uploads : Retire(S) \/ Discard(S)

Spec == Init /\ [][Next]_vars
=============================================================================

-------------------------- MODULE DatabaseLifecycle --------------------------
(***************************************************************************)
(* What maintenance promises of the Studio database: its content is always *)
(* that of one artifact, complete, or a restore is known to be under way;  *)
(* upgrades advance one version at a time from the version of the content  *)
(* to the one they set out for; and a restore and an upgrade never run     *)
(* together.  Two things are given up: a restore may end an upgrade, after *)
(* which there is no upgrade any more; and a restore may be ended without  *)
(* a check, after which nothing is promised until the next.                *)
(***************************************************************************)
EXTENDS Naturals

CONSTANTS
  Artifacts,  \* reviewed backups that may be restored
  Version,    \* the schema version of each
  Newest,     \* the newest schema version
  NoContent   \* what is known of the content after an unchecked restore

VARIABLES
  phase,    \* "ready", "upgrading", "restoring" or "unchecked"
  version,  \* schema version; 0 during and after an unchecked restore
  goal,     \* the version an upgrade set out for, else 0
  content,  \* the artifact that the tables hold, or are to hold
  blocked   \* did a restore end an upgrade?

vars == <<phase, version, goal, content, blocked>>

Init ==
  /\ phase = "ready"
  /\ content \in Artifacts
  /\ version = Version[content]
  /\ goal = 0
  /\ blocked = FALSE

StartUpgrade ==
  /\ phase = "ready"
  /\ ~blocked
  /\ phase' = "upgrading"
  /\ goal' \in version + 1 .. Newest
  /\ UNCHANGED <<version, content, blocked>>

Upgrade ==
  /\ phase = "upgrading"
  /\ version' = version + 1
  /\ \/ version' = goal /\ phase' = "ready" /\ goal' = 0
     \/ version' < goal /\ UNCHANGED <<phase, goal>>
  /\ UNCHANGED <<content, blocked>>

StartRestore ==
  /\ \/ phase \in {"ready", "restoring"} /\ UNCHANGED blocked
     \/ phase = "upgrading" /\ blocked' = TRUE
     \/ phase = "unchecked" /\ blocked' \in {blocked, TRUE}
  /\ phase' = "restoring"
  /\ version' = 0
  /\ goal' = 0
  /\ content' \in Artifacts

FinishRestore ==
  /\ phase = "restoring"
  /\ phase' = "ready"
  /\ version' = Version[content]
  /\ UNCHANGED <<goal, content, blocked>>

FinishUnchecked ==
  /\ phase = "restoring"
  /\ phase' = "unchecked"
  /\ content' = NoContent
  /\ UNCHANGED <<version, goal, blocked>>

Next == StartUpgrade \/ Upgrade \/ StartRestore \/ FinishRestore \/ FinishUnchecked

Spec == Init /\ [][Next]_vars
=============================================================================

------------------------------- MODULE RunLife -------------------------------
(***************************************************************************)
(* What a benchmark run promises the host it runs on: it takes Docker      *)
(* resources only while it is being set up, gives them back only in its    *)
(* clean-up, containers before the network and the volume they use, and is *)
(* over when it has none left.  It is excused if Docker refuses to remove  *)
(* something, or does not say what it has created.                         *)
(***************************************************************************)
CONSTANTS Containers, Others   \* the resources of a run

VARIABLES
  phase,     \* setup, cleanup or over
  held,      \* the resources the run has in Docker
  excused    \* Docker failed the run

lifeVars == <<phase, held, excused>>

LifeInit == phase = "setup" /\ held = {} /\ excused = FALSE

(* Docker may carry out a request and not say so. *)
Acquire(x) ==
  /\ phase = "setup" /\ held' = held \cup {x}
  /\ excused' \in {excused, TRUE} /\ UNCHANGED phase

StartCleanup == phase = "setup" /\ phase' = "cleanup" /\ UNCHANGED <<held, excused>>

(* The last resource is given back as the run ends. *)
Release(x) ==
  /\ phase = "cleanup"
  /\ x \in Others => excused \/ held \cap Containers = {}
  /\ held' = held \ {x} /\ UNCHANGED excused
  /\ phase' \in {"cleanup", "over"}
  /\ phase' = "over" => excused \/ held' = {}

Refused ==
  /\ phase = "cleanup" /\ excused' = TRUE /\ phase' \in {"cleanup", "over"}
  /\ UNCHANGED held

(* A request the run refuses has taken nothing. *)
Decline == phase = "setup" /\ held = {} /\ phase' = "over" /\ UNCHANGED <<held, excused>>

LifeNext ==
  \/ \E x \in Containers \cup Others : Acquire(x) \/ Release(x)
  \/ StartCleanup \/ Refused \/ Decline

LifeSpec == LifeInit /\ [][LifeNext]_lifeVars
=============================================================================

---------------------------- MODULE StatusLattice ----------------------------
(***************************************************************************)
(* What the status column of one release_runs row promises every reader    *)
(* (dashboard, API, worker): it starts at created and only ever takes a    *)
(* legal hop of the lattice, so a terminal status is final, and            *)
(* completed_at is stamped once, by the hop that makes the run terminal.   *)
(***************************************************************************)
EXTENDS RunStatus

VARIABLES status, completedAt

Init == status = "created" /\ completedAt = FALSE

Hop == /\ status' \in Successors(status)
       /\ completedAt' = (status' \in Terminal)

Spec == Init /\ [][Hop]_<<status, completedAt>>
=============================================================================

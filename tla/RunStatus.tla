------------------------------ MODULE RunStatus ------------------------------
(***************************************************************************)
(* The release-run status lattice: worker/src/release_worker/status.py and *)
(* its TypeScript mirror app/lib/runStatus.ts.                             *)
(***************************************************************************)
EXTENDS Naturals

\* failed and cancelled are off-path terminals, not points of the lifecycle.
OffRamp == {"failed", "cancelled"}

OnPath == {"created", "collecting_evidence", "evidence_ready",
           "features_pending_review", "features_approved",
           "generating_artifacts", "artifacts_pending_review",
           "artifacts_approved", "generating_media", "completed"}

Status == OnPath \cup OffRamp

Terminal == {"completed"} \cup OffRamp

\* Position on the happy path; the off-path terminals have none.
ProgressIndex(s) ==
    CASE s = "created"                  -> 0
      [] s = "collecting_evidence"      -> 1
      [] s = "evidence_ready"           -> 2
      [] s = "features_pending_review"  -> 3
      [] s = "features_approved"        -> 4
      [] s = "generating_artifacts"     -> 5
      [] s = "artifacts_pending_review" -> 6
      [] s = "artifacts_approved"       -> 7
      [] s = "generating_media"         -> 8
      [] s = "completed"                -> 9

\* Happy-path successors.  artifacts_approved may skip straight to completed:
\* a run may render no media.
Forward(s) ==
    IF s = "artifacts_approved"
    THEN {"generating_media", "completed"}
    ELSE {t \in OnPath : s \in OnPath /\ ProgressIndex(t) = ProgressIndex(s) + 1}

Successors(s) == IF s \in Terminal THEN {} ELSE Forward(s) \cup OffRamp

CanTransition(s, t) == t \in Successors(s)

\* Advancing to a state the run is at, or has already passed, is a no-op.
IsRedundantAdvance(s, t) ==
    \/ s = t
    \/ /\ s \in OnPath
       /\ t \in OnPath
       /\ ProgressIndex(s) > ProgressIndex(t)
=============================================================================

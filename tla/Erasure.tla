-------------------------------- MODULE Erasure --------------------------------
(***************************************************************************)
(* The removal of a run's data, while its media jobs may be running: the     *)
(* erasure an operator starts deletes the objects under both prefixes, then  *)
(* the rows, looks again, and leaves an audit row; the retention sweep       *)
(* deletes expired evidence.  Neither waits for a job.                       *)
(***************************************************************************)
EXTENDS MediaGeneration

CONSTANTS
    Evidence,    \* evidence items of the run
    MaxErasures  \* bound

\* Every store puts a run's objects under one of the run's prefixes.
ASSUME ErasureAssumption ==
    /\ MaxErasures \in Nat
    /\ \A k \in DOMAIN InitialObjects : k[1] \in {"evidence", "media"}

VARIABLES
    evidence,  \* evidence_items
    erasure,   \* the process of privacy erase, or None
    sweep,     \* the process of privacy retention-sweep, or None
    audited,   \* whether erasure_audit has a row for the run
    late,      \* history: what was written too late for the audited erasure
    erasures

erasureVars == << evidence, erasure, sweep, audited, late, erasures >>
vars == << mediaVars, erasureVars >>

BlobKey(e) == << "evidence", e, "excerpt" >>
TriggerKey(f) == << "approval", f, "media_trigger" >>

\* Bug: only the evidence is swept.
EvidencePrefix == << "evidence" >>

\* _run_prefixes.
RunPrefixes == << "evidence", "media" >>

KeysUnder(prefix) == {k \in DOMAIN objects : k[1] = prefix}
Without(keys) == [k \in DOMAIN objects \ keys |-> objects[k]]

ErasureInit ==
    /\ Init
    /\ evidence = Evidence
    /\ erasure = None /\ sweep = None /\ audited = FALSE /\ late = {} /\ erasures = 0

-----------------------------------------------------------------------------
(* erase_release_run *)

Erasing(step) == erasure # None /\ erasure.at = step

\* Another erasure of the same run finds nothing and is audited again.
StartErasure ==
    /\ erasure = None /\ erasures < MaxErasures
    /\ erasures' = erasures + 1
    /\ erasure' = [at |-> "list", n |-> 1, keys |-> {}, found |-> {}, since |-> {}]
    /\ UNCHANGED << mediaVars, evidence, sweep, audited, late >>

\* On to the next prefix, or to the rows, once all keys are deleted.
Deleting(keys) ==
    IF keys # {} THEN [erasure EXCEPT !.at = "delete", !.keys = keys]
    ELSE IF erasure.n < Len(RunPrefixes) THEN [erasure EXCEPT !.at = "list", !.keys = {}, !.n = @ + 1]
    ELSE [erasure EXCEPT !.at = "rows", !.keys = {}]

ListObjects ==
    /\ Erasing("list")
    /\ erasure' = Deleting(KeysUnder(RunPrefixes[erasure.n]))
    /\ UNCHANGED << mediaVars, evidence, sweep, audited, late, erasures >>

DeleteObject(key) ==
    /\ Erasing("delete") /\ key \in erasure.keys
    /\ objects' = Without({key})
    /\ erasure' = Deleting(erasure.keys \ {key})
    /\ UNCHANGED << stores, requests, job, thread, approved, minted, reviews, faults >>
    /\ UNCHANGED << evidence, sweep, audited, late, erasures >>

\* One transaction.  The approvals of a feature are found through its row, so
\* they are not when the run was erased before.
ApprovalsLeft(rows) == IF run THEN {} ELSE rows

DeleteRunRows ==
    /\ Erasing("rows")
    /\ triggers' = ApprovalsLeft(triggers)
    /\ run' = FALSE /\ scripts' = << >> /\ cache' = << >> /\ assets' = {} /\ evidence' = {}
    /\ erasure' = [erasure EXCEPT !.at = "count", !.since = IF run THEN {} ELSE {TriggerKey(f) : f \in triggers}]
    /\ UNCHANGED << request, queue, job, thread, objects, approved, minted, reviews, faults >>
    /\ UNCHANGED << sweep, audited, late, erasures >>

\* Of the approvals only those of the run itself are counted.
CountRunRows ==
    /\ Erasing("count")
    /\ erasure' = IF run \/ assets # {} \/ evidence # {} \/ DOMAIN scripts # {} THEN None
                  ELSE [erasure EXCEPT !.at = "verify", !.n = 1]
    /\ UNCHANGED << mediaVars, evidence, sweep, audited, late, erasures >>

VerifyPrefix ==
    /\ Erasing("verify")
    /\ LET prefix == RunPrefixes[erasure.n]
       IN  erasure' = [erasure EXCEPT !.found = @ \cup KeysUnder(prefix),
                                      !.since = {k \in @ : k[1] # prefix},
                                      !.at = IF erasure.n < Len(RunPrefixes) THEN @ ELSE "audit",
                                      !.n = IF erasure.n < Len(RunPrefixes) THEN @ + 1 ELSE @]
    /\ UNCHANGED << mediaVars, evidence, sweep, audited, late, erasures >>

\* OrphanedObjectsError, or the audit row.
RecordAudit ==
    /\ Erasing("audit")
    /\ erasure' = None
    /\ IF erasure.found # {} THEN UNCHANGED << audited, late >>
       ELSE audited' = TRUE /\ late' = erasure.since
    /\ UNCHANGED << mediaVars, evidence, sweep, erasures >>

\* The operator's process dies between any two of its steps.
KillErasure ==
    /\ erasure # None /\ Fault
    /\ erasure' = None
    /\ UNCHANGED << stores, requests, job, thread, objects, approved, minted, reviews >>
    /\ UNCHANGED << evidence, sweep, audited, late, erasures >>

-----------------------------------------------------------------------------
(* sweep_expired_evidence *)

StartSweep(expired) ==
    /\ sweep = None
    /\ sweep' = [items |-> expired, gone |-> None]
    /\ UNCHANGED << mediaVars, evidence, erasure, audited, late, erasures >>

SweepBlob(e) ==
    /\ sweep # None /\ sweep.gone = None /\ e \in sweep.items
    /\ objects' = Without({BlobKey(e)})
    /\ sweep' = [items |-> sweep.items \ {e}, gone |-> e]
    /\ UNCHANGED << stores, requests, job, thread, approved, minted, reviews, faults >>
    /\ UNCHANGED << evidence, erasure, audited, late, erasures >>

SweepRow ==
    /\ sweep # None /\ sweep.gone # None
    /\ evidence' = evidence \ {sweep.gone}
    /\ sweep' = IF sweep.items = {} THEN None ELSE [sweep EXCEPT !.gone = None]
    /\ UNCHANGED << mediaVars, erasure, audited, late, erasures >>

KillSweep ==
    /\ sweep # None /\ Fault
    /\ sweep' = None
    /\ UNCHANGED << stores, requests, job, thread, objects, approved, minted, reviews >>
    /\ UNCHANGED << evidence, erasure, audited, late, erasures >>

-----------------------------------------------------------------------------
(* A step of the media jobs, and what it wrote *)

Written ==
    {k \in DOMAIN objects' : k \notin DOMAIN objects \/ objects'[k] # objects[k]}
    \cup {TriggerKey(f) : f \in triggers' \ triggers}

MediaStep ==
    /\ MediaNext
    /\ erasure' = IF erasure # None /\ erasure.at \in {"count", "verify", "audit"}
                  THEN [erasure EXCEPT !.since = @ \cup Written] ELSE erasure
    /\ late' = IF audited THEN late \cup Written ELSE late
    /\ UNCHANGED << evidence, sweep, audited, erasures >>

Next ==
    \/ MediaStep
    \/ StartErasure \/ ListObjects \/ DeleteRunRows \/ CountRunRows
    \/ VerifyPrefix \/ RecordAudit \/ KillErasure
    \/ Erasing("delete") /\ \E k \in erasure.keys : DeleteObject(k)
    \/ \E expired \in SUBSET evidence \ {{}} : StartSweep(expired)
    \/ sweep # None /\ \E e \in sweep.items : SweepBlob(e)
    \/ SweepRow \/ KillSweep

Spec == ErasureInit /\ [][Next]_vars

-----------------------------------------------------------------------------
(* Properties *)

\* Each job leaves at most one row, a video always has its object's key, and
\* what refers to the run is gone with it (0007, 0013 and the CASCADE of the
\* foreign keys).
TypeOK ==
    /\ \A a, b \in assets : a.media = b.media => a = b
    /\ \A a \in assets : a.uri = None => a.status = "broken"
    /\ ~run => assets = {} /\ evidence = {} /\ DOMAIN scripts = {} /\ DOMAIN cache = {}

\* Once an erasure is audited, no row of the run is left, a marker that is left
\* was written after the rows were deleted, and an object that is left after the
\* second listing of its prefix by the erasure last audited
\* (erasure.erase_release_run, with jobs, retries and crashes beside it).
AuditedIsErased ==
    audited => /\ ~run /\ assets = {} /\ evidence = {}
               /\ DOMAIN objects \cup {TriggerKey(f) : f \in triggers} \subseteq late
=============================================================================

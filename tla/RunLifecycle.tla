---------------------------- MODULE RunLifecycle -----------------------------
(***************************************************************************)
(* The status of one release run, advanced by worker invocations.          *)
(*                                                                         *)
(* Each phase of the loop, and each resume of a halted phase, is a job of  *)
(* its own: a short-lived process that walks its hops through              *)
(* AuroraReleaseRunRepository.advance, a read followed by a                *)
(* compare-and-set, while other invocations do the same.  An exception     *)
(* that escapes a job ends in mark_failed; a killed process ends nowhere.  *)
(* The phases' own work is abstracted to its outcome: it succeeds, hits a  *)
(* transient error that re-enters the graph, or raises.                    *)
(***************************************************************************)
EXTENDS RunStatus, Sequences

CONSTANTS
    Workers,      \* worker invocations, all for the same run
    MaxAttempts   \* with_retries' bound on invocations of one graph

ASSUME MaxAttemptsAssumption == MaxAttempts \in Nat \ {0}

Jobs == {"collect", "gate1_approved", "gate1_rejected", "gate1_edited",
         "content", "gate2_approved", "gate2_rejected", "media", "no_hops"}

\* The content and the media invocations: the hops around their graphs.
ContentHops == << "generating_artifacts", "artifacts_pending_review" >>
MediaHops   == << "generating_media", "completed" >>

\* Bug: finalize_gate1 with the three-way choice collapsed to rejected or not.
ProgramEditApproves(job) ==
    CASE job = "collect" -> << "collecting_evidence", "evidence_ready",
                               "features_pending_review" >>
      [] job \in {"gate1_approved", "gate1_edited"} -> << "features_approved" >>
      [] job = "content" -> ContentHops
      [] job = "gate2_approved" -> << "artifacts_approved" >>
      [] job \in {"gate1_rejected", "gate2_rejected"} -> << "cancelled" >>
      [] job = "media" -> MediaHops
      [] OTHER -> << >>

\* The hops of a job, in order.  An edited gate stays where it is for
\* re-review.  no_hops stands for the jobs that never advance the run and can
\* only fail it: an edited Gate #2, skill_learning and its resume, eval.
Program(job) ==
    CASE job = "collect" -> << "collecting_evidence", "evidence_ready",
                               "features_pending_review" >>
      [] job = "gate1_approved" -> << "features_approved" >>
      [] job = "gate1_rejected" -> << "cancelled" >>
      [] job = "gate1_edited"   -> << "features_pending_review" >>
      [] job = "content"        -> ContentHops
      [] job = "gate2_approved" -> << "artifacts_approved" >>
      [] job = "gate2_rejected" -> << "cancelled" >>
      [] job = "media"          -> MediaHops
      [] OTHER                  -> << >>

\* Jobs whose hops are graph nodes, so that a retried invoke may repeat them;
\* the other jobs advance outside graph.invoke.
HopsInsideGraph == {"collect", "gate1_approved", "gate1_rejected", "gate1_edited"}

VARIABLES
    status,       \* release_runs.status
    completedAt,  \* release_runs.completed_at IS NOT NULL
    job,          \* the job each invocation runs
    pc,           \* where it is
    step,         \* the hop of its program it is at
    seen,         \* the status it read
    attempt,      \* with_retries' attempt, from 1
    \* history
    decided       \* the gate decisions a resume was ever started with

row  == << status, completedAt >>
vars == << row, job, pc, step, seen, attempt, decided >>

Free   == "free"
Unread == "unread"

PCs == {Free, "running", "cas", "rereading", "recas", "raised"}

Verdicts == {"gate1_approved", "gate2_approved", "rejected"}

\* What a job's start adds to the recorded decisions.
Verdict(j) == CASE j \in {"gate1_approved", "gate2_approved"} -> {j}
                [] j \in {"gate1_rejected", "gate2_rejected"} -> {"rejected"}
                [] OTHER -> {}

TypeOK ==
    /\ status \in Status
    /\ completedAt \in BOOLEAN
    /\ job \in [Workers -> Jobs \cup {Free}]
    /\ pc \in [Workers -> PCs]
    /\ step \in [Workers -> 1..4]
    /\ seen \in [Workers -> Status \cup {Unread}]
    /\ attempt \in [Workers -> 1..MaxAttempts]
    /\ decided \subseteq Verdicts

Init ==
    /\ status = "created"
    /\ completedAt = FALSE
    /\ job = [w \in Workers |-> Free]
    /\ pc = [w \in Workers |-> Free]
    /\ step = [w \in Workers |-> 1]
    /\ seen = [w \in Workers |-> Unread]
    /\ attempt = [w \in Workers |-> 1]
    /\ decided = {}

-----------------------------------------------------------------------------

Target(w) == Program(job[w])[step[w]]

Goto(w, label) == pc' = [pc EXCEPT ![w] = label]

\* The operator, a gate route or a redelivered dispatch starts a job.
Dispatch(w, j) ==
    /\ pc[w] = Free
    /\ job' = [job EXCEPT ![w] = j]
    /\ Goto(w, "running")
    /\ decided' = decided \cup Verdict(j)
    /\ UNCHANGED << row, step, seen, attempt >>

\* The process exits; the next dispatch is a fresh process.
End(w) ==
    /\ job' = [job EXCEPT ![w] = Free]
    /\ Goto(w, Free)
    /\ step' = [step EXCEPT ![w] = 1]
    /\ seen' = [seen EXCEPT ![w] = Unread]
    /\ attempt' = [attempt EXCEPT ![w] = 1]
    /\ UNCHANGED decided

\* advance() returns: the local it read into is gone.
Return(w) ==
    /\ step' = [step EXCEPT ![w] = @ + 1]
    /\ seen' = [seen EXCEPT ![w] = Unread]
    /\ Goto(w, "running")

\* get_status, then the redundancy and legality checks on what was read; the
\* same lines run a second time after a lost race.
Check(w, from, to) ==
    /\ pc[w] = from
    /\ step[w] <= Len(Program(job[w]))
    /\ \/ IsRedundantAdvance(status, Target(w)) /\ Return(w)
       \/ /\ ~ IsRedundantAdvance(status, Target(w))
          /\ CanTransition(status, Target(w))
          /\ seen' = [seen EXCEPT ![w] = status]
          /\ Goto(w, to)
          /\ UNCHANGED step
       \/ /\ ~ IsRedundantAdvance(status, Target(w))
          /\ ~ CanTransition(status, Target(w))
          /\ Goto(w, "raised")
          /\ UNCHANGED << step, seen >>
    /\ UNCHANGED << row, job, attempt, decided >>

\* The work before the next hop is done and advance() is called.
ReadStatus(w)   == Check(w, "running", "cas")
RereadStatus(w) == Check(w, "rereading", "recas")

\* Bug: the write is keyed by id alone; AND status = expected is lost.
CompareAndSetBlind(w) ==
    /\ status' = Target(w)
    /\ completedAt' = (completedAt \/ Target(w) \in Terminal)

\* UPDATE ... SET status = target WHERE status = expected: TRUE iff a row changed.
CompareAndSet(w) ==
    /\ status = seen[w]
    /\ status' = Target(w)
    /\ completedAt' = (completedAt \/ Target(w) \in Terminal)

LoseRace(w, to) ==
    /\ status # seen[w]
    /\ seen' = [seen EXCEPT ![w] = Unread]
    /\ Goto(w, to)
    /\ UNCHANGED << row, step >>

\* Bug: the row count of the first write is not looked at.
FirstCASUnchecked(w) ==
    /\ pc[w] = "cas"
    /\ IF status = seen[w] THEN CompareAndSet(w) ELSE UNCHANGED row
    /\ Return(w)
    /\ UNCHANGED << job, attempt, decided >>

FirstCAS(w) ==
    /\ pc[w] = "cas"
    /\ \/ CompareAndSet(w) /\ Return(w)
       \/ LoseRace(w, "rereading")
    /\ UNCHANGED << job, attempt, decided >>

\* A second lost race is a RuntimeError, never a third try.
SecondCAS(w) ==
    /\ pc[w] = "recas"
    /\ \/ CompareAndSet(w) /\ Return(w)
       \/ LoseRace(w, "raised")
    /\ UNCHANGED << job, attempt, decided >>

\* Bug: a retry that does not use up an attempt.
RetryUncounted(w) ==
    /\ pc[w] = "running"
    /\ job[w] \in HopsInsideGraph
    /\ \E k \in 1..step[w] : step' = [step EXCEPT ![w] = k]
    /\ UNCHANGED << row, job, pc, seen, attempt, decided >>

\* Bug: the bound is tested with <= instead of <.
RetryOnceMore(w) ==
    /\ pc[w] = "running"
    /\ job[w] \in HopsInsideGraph
    /\ attempt[w] <= MaxAttempts
    /\ attempt' = [attempt EXCEPT ![w] = @ + 1]
    /\ \E k \in 1..step[w] : step' = [step EXCEPT ![w] = k]
    /\ UNCHANGED << row, job, pc, seen, decided >>

\* A transient error: the graph is invoked again on the same thread and goes
\* on from its start or from a later checkpoint, so hops may be repeated.
Retry(w) ==
    /\ pc[w] = "running"
    /\ job[w] \in HopsInsideGraph
    /\ attempt[w] < MaxAttempts
    /\ attempt' = [attempt EXCEPT ![w] = @ + 1]
    /\ \E k \in 1..step[w] : step' = [step EXCEPT ![w] = k]
    /\ UNCHANGED << row, job, pc, seen, decided >>

\* A permanent error, or no attempts left: in the phase's own work, or in a
\* statement of advance (one that took effect has moved the invocation on).
Raise(w) ==
    /\ pc[w] \notin {Free, "raised"}
    /\ Goto(w, "raised")
    /\ seen' = [seen EXCEPT ![w] = Unread]
    /\ UNCHANGED << row, job, step, attempt, decided >>

\* Exit code 0.
Finish(w) ==
    /\ pc[w] = "running"
    /\ step[w] > Len(Program(job[w]))
    /\ End(w)
    /\ UNCHANGED row

\* The entry point's error path, exit code 1: WHERE status NOT IN (the
\* terminals).
MarkFailed(w) ==
    /\ pc[w] = "raised"
    /\ IF status \in Terminal
       THEN UNCHANGED row
       ELSE status' = "failed" /\ completedAt' = TRUE
    /\ End(w)

\* The runner is cancelled or lost: no handler runs.
Kill(w) ==
    /\ pc[w] # Free
    /\ End(w)
    /\ UNCHANGED row

Work(w) ==
    \/ ReadStatus(w)
    \/ FirstCAS(w)
    \/ RereadStatus(w)
    \/ SecondCAS(w)
    \/ Finish(w)
    \/ MarkFailed(w)

Next == \E w \in Workers :
    \/ \E j \in Jobs : Dispatch(w, j)
    \/ Work(w)
    \/ Retry(w)
    \/ Raise(w)
    \/ Kill(w)

Spec == Init /\ [][Next]_vars

\* A started process keeps executing unless it is killed; nothing obliges an
\* operator to start one, nor a transient error to strike.
FairSpec == Spec /\ \A w \in Workers : WF_vars(Work(w))

-----------------------------------------------------------------------------
(* Safety *)

\* completed_at is set exactly while the run is in a terminal status: the two
\* columns are written by the same statement (advance, mark_failed), and no
\* later error relabels or re-opens a run that ended.
CompletedAtIffTerminal == completedAt <=> status \in Terminal

\* Could the row have satisfied a completed advance to t and reached s since?
AtOrPast(s, t) ==
    IF t \in OffRamp THEN s = t ELSE s \in OffRamp \/ IsRedundantAdvance(s, t)

\* A hop that advance() returned from has landed and stays landed while the job
\* goes on, whatever it raced with: a lost compare-and-set is never reported as
\* success, and no other invocation moves the run back behind it.
HopsLand ==
    \A w \in Workers : \A i \in 1..(step[w] - 1) :
        AtOrPast(status, Program(job[w])[i])

\* Only a human rejection cancels a run; errors fail it.
OnlyRejectionCancels == status = "cancelled" => "rejected" \in decided

\* No run leaves a human gate unless a resume carrying that gate's decision was
\* run: content needs Gate #1's approval, completion Gate #2's, and a cancelled
\* run a rejection; a worker error or a stray retry decides nothing.
GatesRespected ==
    /\ status \in OnPath /\ ProgressIndex(status) >= 4 => "gate1_approved" \in decided
    /\ status \in OnPath /\ ProgressIndex(status) >= 7 => "gate2_approved" \in decided
    /\ OnlyRejectionCancels

\* Whatever the interleaving of compare-and-sets, the row makes only legal hops
\* of the lattice, and terminal statuses are final.
Lattice == INSTANCE StatusLattice WITH status <- status, completedAt <- completedAt
LatticeSpec == Lattice!Spec

-----------------------------------------------------------------------------
(* Liveness *)

\* Every invocation that is started ends: the two-try compare-and-set cannot
\* livelock against other invocations, and every raise reaches the error path.
JobsSettle ==
    \A w \in Workers : (pc[w] # Free) ~> (pc[w] = Free)
=============================================================================

------------------------ MODULE RunLifecycle_proofs -------------------------
(***************************************************************************)
(* Proofs about RunLifecycle, for any set of invocations and any retry     *)
(* bound.                                                                  *)
(*                                                                         *)
(* The row is only ever written by a compare-and-set whose expected value  *)
(* passed assert_transition, or by the guarded mark_failed.  IInv says     *)
(* what an invocation between its read and its write remembers of the      *)
(* check (CheckedHop); everything else follows from the lattice.           *)
(***************************************************************************)
EXTENDS RunLifecycle, TLAPS

-----------------------------------------------------------------------------
(* The lattice *)

\* The values of the index, so that no later proof opens the CASE.
LEMMA IndexValues ==
    /\ ProgressIndex("created") = 0
    /\ ProgressIndex("collecting_evidence") = 1
    /\ ProgressIndex("evidence_ready") = 2
    /\ ProgressIndex("features_pending_review") = 3
    /\ ProgressIndex("features_approved") = 4
    /\ ProgressIndex("generating_artifacts") = 5
    /\ ProgressIndex("artifacts_pending_review") = 6
    /\ ProgressIndex("artifacts_approved") = 7
    /\ ProgressIndex("generating_media") = 8
    /\ ProgressIndex("completed") = 9
BY DEF ProgressIndex

\* A hop goes to a status, never leaves a terminal one, and on the path it
\* advances the index.
LEMMA HopForward ==
    ASSUME NEW s \in Status, NEW t, CanTransition(s, t)
    PROVE  /\ t \in Status
           /\ s \in OnPath /\ s # "completed"
           /\ t \in OnPath => ProgressIndex(t) > ProgressIndex(s)
<1>1. s \notin Terminal /\ t \in Forward(s) \cup OffRamp
  BY DEF CanTransition, Successors
<1>2. s \in OnPath /\ s # "completed"
  BY <1>1 DEF Status, Terminal
<1>3. t \in Status
  BY <1>1 DEF Forward, Status, OnPath
<1>4. t \in OnPath => ProgressIndex(t) > ProgressIndex(s)
  BY <1>1, <1>2, IndexValues DEF Forward, OnPath, OffRamp
<1> QED BY <1>2, <1>3, <1>4

\* What a completed advance established survives every later hop.
LEMMA HopKeepsPast ==
    ASSUME NEW s \in Status, NEW u, NEW t \in Status,
           CanTransition(s, u), AtOrPast(s, t)
    PROVE  AtOrPast(u, t)
<1>1. /\ u \in Status /\ s \in OnPath
      /\ u \in OnPath => ProgressIndex(u) > ProgressIndex(s)
  BY HopForward
<1>2. s \notin OffRamp
  BY <1>1 DEF OnPath, OffRamp
<1>3. t \in OnPath
  BY <1>2 DEF AtOrPast, Status
<1>4. CASE u \in OffRamp
  BY <1>3, <1>4 DEF AtOrPast, OnPath, OffRamp
<1>5. CASE u \in OnPath
  BY <1>1, <1>2, <1>3, <1>5, IndexValues
     DEF AtOrPast, IsRedundantAdvance, OnPath, OffRamp
<1> QED BY <1>1, <1>4, <1>5 DEF Status

\* Advancing to where a hop just went, or finding the advance redundant,
\* establishes it.
LEMMA LandedIsPast ==
    /\ \A t \in Status : AtOrPast(t, t)
    /\ \A s, t \in Status : IsRedundantAdvance(s, t) => AtOrPast(s, t)
BY DEF AtOrPast, IsRedundantAdvance, Status, OnPath, OffRamp

\* The two gates are the only ways into the parts of the path behind them.
LEMMA GateHops ==
    ASSUME NEW s \in Status, NEW t \in OnPath, CanTransition(s, t)
    PROVE  /\ ProgressIndex(t) >= 4 => ProgressIndex(s) >= 4 \/ t = "features_approved"
           /\ ProgressIndex(t) >= 7 => ProgressIndex(s) >= 7 \/ t = "artifacts_approved"
<1>1. s \in OnPath /\ s # "completed" /\ t \in Forward(s)
  BY HopForward DEF CanTransition, Successors, OnPath, OffRamp
<1> QED BY <1>1, IndexValues DEF Forward, OnPath

-----------------------------------------------------------------------------
(* The jobs *)

JobOrFree == Jobs \cup {Free}

\* Every hop of a program is a status, never failed; an approval hop belongs to
\* its gate's approved resume, and cancelled to a rejected one.
LEMMA ProgramHops ==
    ASSUME NEW j \in JobOrFree
    PROVE  /\ Program(j) \in Seq(Status)
           /\ Len(Program(j)) \in 0..3
           /\ j = Free => Len(Program(j)) = 0
           /\ \A i \in 1..Len(Program(j)) :
                /\ Program(j)[i] \in Status
                /\ Program(j)[i] = "features_approved" => Verdict(j) = {"gate1_approved"}
                /\ Program(j)[i] = "artifacts_approved" => Verdict(j) = {"gate2_approved"}
                /\ Program(j)[i] = "cancelled" => Verdict(j) = {"rejected"}
                /\ Program(j)[i] # "failed"
<1>1. CASE j = "collect"
  BY <1>1 DEF Program, Verdict, Status, OnPath, OffRamp, Free
<1>2. CASE j = "content"
  BY <1>2 DEF Program, ContentHops, Verdict, Status, OnPath, OffRamp, Free
<1>3. CASE j = "media"
  BY <1>3 DEF Program, MediaHops, Verdict, Status, OnPath, OffRamp, Free
<1>4. CASE j = "gate1_approved"
  BY <1>4 DEF Program, Verdict, Status, OnPath, OffRamp, Free
<1>5. CASE j = "gate2_approved"
  BY <1>5 DEF Program, Verdict, Status, OnPath, OffRamp, Free
<1>6. CASE j = "gate1_rejected"
  BY <1>6 DEF Program, Verdict, Status, OnPath, OffRamp, Free
<1>7. CASE j = "gate2_rejected"
  BY <1>7 DEF Program, Verdict, Status, OnPath, OffRamp, Free
<1>8. CASE j = "gate1_edited"
  BY <1>8 DEF Program, Verdict, Status, OnPath, OffRamp, Free
<1>9. CASE j \in {"no_hops", Free}
  <2>1. Program(j) = << >>
    BY <1>9 DEF Program, Free
  <2> QED BY <2>1
<1> QED
  BY <1>1, <1>2, <1>3, <1>4, <1>5, <1>6, <1>7, <1>8, <1>9 DEF JobOrFree, Jobs

-----------------------------------------------------------------------------
(* The inductive invariant *)

InAdvance == {"cas", "rereading", "recas"}

\* An idle slot has no job; a step counter never runs further than one past the
\* last hop, and inside advance() it is at a hop of the program.
StepBound(w) ==
    /\ pc[w] = Free => job[w] = Free
    /\ step[w] \in 1..(Len(Program(job[w])) + 1)
    /\ pc[w] \in InAdvance => step[w] <= Len(Program(job[w]))

\* Between its check and its write an invocation holds a status for which
\* assert_transition accepted the hop.
CheckedHop(w) ==
    pc[w] \in {"cas", "recas"} =>
        seen[w] \in Status /\ CanTransition(seen[w], Target(w))

\* A live invocation's verdict is on record.
VerdictRecorded(w) == Verdict(job[w]) \subseteq decided

InvocationInv ==
    \A w \in Workers : StepBound(w) /\ CheckedHop(w) /\ VerdictRecorded(w)

IInv ==
    /\ TypeOK
    /\ InvocationInv
    /\ CompletedAtIffTerminal
    /\ HopsLand
    /\ GatesRespected
    /\ OnlyRejectionCancels

LEMMA FirstAttempt == 1 \in 1..MaxAttempts
BY MaxAttemptsAssumption

LEMMA InitIInv == Init => IInv
<1> SUFFICES ASSUME Init PROVE IInv
  OBVIOUS
<1> USE DEF Init
<1>1. Program(Free) = << >> /\ Verdict(Free) = {}
  BY DEF Program, Verdict, Free
<1>2. TypeOK
  <2>1. status \in Status /\ completedAt \in BOOLEAN
    BY DEF Status, OnPath
  <2>2. job \in [Workers -> Jobs \cup {Free}] /\ pc \in [Workers -> PCs]
    BY DEF PCs
  <2>3. step \in [Workers -> 1..4] /\ seen \in [Workers -> Status \cup {Unread}]
    OBVIOUS
  <2>4. attempt \in [Workers -> 1..MaxAttempts] /\ decided \subseteq Verdicts
    BY FirstAttempt
  <2> QED BY <2>1, <2>2, <2>3, <2>4 DEF TypeOK
<1>3. ASSUME NEW w \in Workers PROVE StepBound(w)
  BY <1>1 DEF StepBound, InAdvance, Free
<1>4. ASSUME NEW w \in Workers PROVE CheckedHop(w)
  BY DEF CheckedHop, Free
<1>5. ASSUME NEW w \in Workers PROVE VerdictRecorded(w)
  BY <1>1 DEF VerdictRecorded
<1>6. CompletedAtIffTerminal
  BY DEF CompletedAtIffTerminal, Terminal, OffRamp
<1>7. HopsLand
  BY DEF HopsLand
<1>8. GatesRespected /\ OnlyRejectionCancels
  BY IndexValues DEF GatesRespected, OnlyRejectionCancels
<1> QED BY <1>2, <1>3, <1>4, <1>5, <1>6, <1>7, <1>8 DEF IInv, InvocationInv

-----------------------------------------------------------------------------
(* What the row can do *)

\* The two ways the row changes, as the invariants about it see them.
RowHop ==
    /\ CanTransition(status, status')
    /\ completedAt' = (status' \in Terminal)
    /\ \/ \E w \in Workers : status' = Target(w) /\ step[w] \in 1..Len(Program(job[w]))
       \/ status' = "failed"

\* A checked compare-and-set that finds the status it expects is a legal hop.
LEMMA CasHop ==
    ASSUME IInv, NEW w \in Workers, pc[w] \in {"cas", "recas"}, CompareAndSet(w)
    PROVE  RowHop
<1>1. CanTransition(status, status') /\ status \in Status
  BY DEF IInv, InvocationInv, CheckedHop, CompareAndSet
<1>2. status \notin Terminal
  BY <1>1, HopForward DEF Terminal, OnPath, OffRamp
<1>3. completedAt' = (status' \in Terminal)
  BY <1>2 DEF IInv, CompletedAtIffTerminal, CompareAndSet, TypeOK
<1>4. step[w] \in 1..Len(Program(job[w]))
  BY DEF IInv, InvocationInv, StepBound, InAdvance
<1> QED BY <1>1, <1>3, <1>4 DEF RowHop, CompareAndSet

\* mark_failed's guard is exactly what makes failed a legal hop.
LEMMA FailHop ==
    ASSUME IInv, NEW w \in Workers, MarkFailed(w)
    PROVE  RowHop \/ UNCHANGED row
<1>1. CASE status \in Terminal
  BY <1>1 DEF MarkFailed
<1>2. CASE status \notin Terminal
  <2>1. status' = "failed" /\ completedAt' = TRUE
    BY <1>2 DEF MarkFailed
  <2> QED BY <1>2, <2>1 DEF RowHop, CanTransition, Successors, OffRamp, Terminal
<1> QED BY <1>1, <1>2

\* Every step leaves the row alone or takes one legal hop of the lattice.
LEMMA StepRow ==
    ASSUME IInv, [Next]_vars
    PROVE  RowHop \/ UNCHANGED row
<1>1. CASE UNCHANGED vars
  BY <1>1 DEF vars
<1>2. ASSUME NEW w \in Workers, FirstCAS(w) \/ SecondCAS(w)
      PROVE  RowHop \/ UNCHANGED row
  BY <1>2, CasHop DEF FirstCAS, SecondCAS, LoseRace
<1>3. ASSUME NEW w \in Workers, MarkFailed(w)
      PROVE  RowHop \/ UNCHANGED row
  BY <1>3, FailHop
<1>4. ASSUME NEW w \in Workers,
             \/ \E j \in Jobs : Dispatch(w, j)
             \/ ReadStatus(w) \/ RereadStatus(w) \/ Finish(w)
             \/ Retry(w) \/ Raise(w) \/ Kill(w)
      PROVE  UNCHANGED row
  BY <1>4 DEF Dispatch, ReadStatus, RereadStatus, Check, Finish, Retry, Raise, Kill
<1> QED BY <1>1, <1>2, <1>3, <1>4 DEF Next, Work

-----------------------------------------------------------------------------
(* What an invocation can do *)

\* The invocation half of a step: one conjunct set per way it moves.
LEMMA StepTypeOK ==
    ASSUME IInv, [Next]_vars
    PROVE  TypeOK'
<1> USE DEF IInv, TypeOK
<1>1. status' \in Status /\ completedAt' \in BOOLEAN
  <2>1. CASE RowHop
    BY <2>1, HopForward DEF RowHop
  <2>2. CASE UNCHANGED row
    BY <2>2 DEF row
  <2> QED BY <2>1, <2>2, StepRow
<1>2. CASE UNCHANGED vars
  BY <1>2, <1>1 DEF vars
<1>3. ASSUME NEW w \in Workers, NEW j \in Jobs, Dispatch(w, j)
      PROVE  TypeOK'
  BY <1>1, <1>3 DEF Dispatch, Goto, PCs, Verdict, Verdicts
<1>4. ASSUME NEW w \in Workers, Return(w), step[w] <= Len(Program(job[w])),
             UNCHANGED << job, attempt, decided >>
      PROVE  TypeOK'
  <2>1. Len(Program(job[w])) \in 0..3
    BY ProgramHops DEF JobOrFree
  <2>2. \A a \in 1..4, n \in 0..3 : a <= n => a + 1 \in 1..4
    OBVIOUS
  <2>3. step[w] + 1 \in 1..4
    BY <1>4, <2>1, <2>2
  <2> QED BY <1>1, <1>4, <2>3 DEF Return, Goto, PCs
<1>5. ASSUME NEW w \in Workers, ReadStatus(w) \/ RereadStatus(w)
      PROVE  TypeOK'
  BY <1>1, <1>4, <1>5 DEF ReadStatus, RereadStatus, Check, Goto, PCs
<1>6. ASSUME NEW w \in Workers, FirstCAS(w) \/ SecondCAS(w)
      PROVE  TypeOK'
  <2>1. step[w] <= Len(Program(job[w]))
    BY <1>6 DEF FirstCAS, SecondCAS, InvocationInv, StepBound, InAdvance
  <2> QED BY <1>1, <1>4, <1>6, <2>1 DEF FirstCAS, SecondCAS, LoseRace, Goto, PCs
<1>7. ASSUME NEW w \in Workers, Finish(w) \/ MarkFailed(w) \/ Kill(w)
      PROVE  TypeOK'
  <2>1. End(w)
    BY <1>7 DEF Finish, MarkFailed, Kill
  <2>2. step' \in [Workers -> 1..4] /\ attempt' \in [Workers -> 1..MaxAttempts]
    BY <2>1, FirstAttempt DEF End
  <2> QED BY <1>1, <2>1, <2>2 DEF End, Goto, PCs
<1>8. ASSUME NEW w \in Workers, Retry(w) \/ Raise(w)
      PROVE  TypeOK'
  BY <1>1, <1>8, MaxAttemptsAssumption DEF Retry, Raise, Goto, PCs
<1> QED BY <1>2, <1>3, <1>5, <1>6, <1>7, <1>8 DEF Next, Work

-----------------------------------------------------------------------------
(* The other parts of the invariant *)

\* One invocation moves; the others and their part of the invariant do not.
Moves(w) ==
    /\ job' = [job EXCEPT ![w] = job'[w]]
    /\ pc' = [pc EXCEPT ![w] = pc'[w]]
    /\ step' = [step EXCEPT ![w] = step'[w]]
    /\ seen' = [seen EXCEPT ![w] = seen'[w]]
    /\ decided \subseteq decided'

LEMMA OthersKeep ==
    ASSUME IInv, NEW w \in Workers, Moves(w),
           StepBound(w)', CheckedHop(w)', VerdictRecorded(w)'
    PROVE  InvocationInv'
<1> SUFFICES ASSUME NEW v \in Workers
             PROVE  (StepBound(v) /\ CheckedHop(v) /\ VerdictRecorded(v))'
  BY DEF InvocationInv
<1>1. CASE v = w
  BY <1>1
<1>2. CASE v # w
  <2>1. /\ job'[v] = job[v] /\ pc'[v] = pc[v]
        /\ step'[v] = step[v] /\ seen'[v] = seen[v]
    BY <1>2 DEF Moves, IInv, TypeOK
  <2>2. StepBound(v) /\ CheckedHop(v) /\ VerdictRecorded(v)
    BY DEF IInv, InvocationInv
  <2>3. StepBound(v)'
    BY <2>1, <2>2 DEF StepBound
  <2>4. CheckedHop(v)'
    BY <2>1, <2>2 DEF CheckedHop, Target
  <2>5. VerdictRecorded(v)'
    BY <2>1, <2>2 DEF VerdictRecorded, Moves
  <2> QED BY <2>3, <2>4, <2>5
<1> QED BY <1>1, <1>2

LEMMA StepInvocationInv ==
    ASSUME IInv, [Next]_vars
    PROVE  InvocationInv'
<1>1. CASE UNCHANGED vars
  BY <1>1 DEF vars, IInv, InvocationInv, StepBound, CheckedHop, VerdictRecorded, Target
<1>2. ASSUME NEW w \in Workers, NEW j \in Jobs, Dispatch(w, j)
      PROVE  InvocationInv'
  <2>1. job[w] = Free /\ step[w] = 1
    <3>1. Len(Program(Free)) = 0
      BY ProgramHops DEF JobOrFree
    <3>2. job[w] = Free /\ step[w] \in 1..(Len(Program(job[w])) + 1)
      BY <1>2 DEF IInv, InvocationInv, StepBound, Dispatch
    <3> QED BY <3>1, <3>2
  <2>2. /\ job'[w] = j /\ pc'[w] = "running" /\ step'[w] = 1
        /\ Verdict(j) \subseteq decided' /\ Moves(w)
    BY <1>2, <2>1 DEF Dispatch, Goto, Moves, IInv, TypeOK
  <2>3. Len(Program(j)) \in Nat
    BY ProgramHops DEF JobOrFree
  <2>4. StepBound(w)'
    BY <2>2, <2>3 DEF StepBound, InAdvance, Free
  <2>5. CheckedHop(w)' /\ VerdictRecorded(w)'
    BY <2>2 DEF CheckedHop, VerdictRecorded
  <2> QED BY <2>2, <2>4, <2>5, OthersKeep
<1>3. ASSUME NEW w \in Workers, Return(w), pc[w] # Free,
             step[w] <= Len(Program(job[w])), UNCHANGED << job, decided >>
      PROVE  InvocationInv'
  <2>1. /\ job'[w] = job[w] /\ pc'[w] = "running" /\ step'[w] = step[w] + 1
        /\ Moves(w)
    BY <1>3 DEF Return, Goto, Moves, IInv, TypeOK
  <2>2. Len(Program(job[w])) \in Nat /\ step[w] \in 1..Len(Program(job[w]))
    BY <1>3, ProgramHops DEF JobOrFree, IInv, TypeOK
  <2>3. StepBound(w)'
    BY <2>1, <2>2 DEF StepBound, InAdvance, Free
  <2>4. CheckedHop(w)' /\ VerdictRecorded(w)'
    BY <1>3, <2>1 DEF CheckedHop, VerdictRecorded, IInv, InvocationInv
  <2> QED BY <2>1, <2>3, <2>4, OthersKeep
<1>4. ASSUME NEW w \in Workers, Free # pc'[w], pc[w] # Free,
             UNCHANGED << job, step, decided >>,
             pc' = [pc EXCEPT ![w] = pc'[w]], seen' = [seen EXCEPT ![w] = seen'[w]],
             pc'[w] \in InAdvance => step[w] <= Len(Program(job[w])),
             CheckedHop(w)'
      PROVE  InvocationInv'
  <2>1. Moves(w)
    BY <1>4 DEF Moves, IInv, TypeOK
  <2>2. StepBound(w)' /\ VerdictRecorded(w)'
    BY <1>4 DEF StepBound, VerdictRecorded, IInv, InvocationInv
  <2> QED BY <1>4, <2>1, <2>2, OthersKeep
<1>5. ASSUME NEW w \in Workers, NEW from, NEW to \in InAdvance,
             Check(w, from, to), from \in InAdvance \cup {"running"}
      PROVE  InvocationInv'
  <2>1. pc[w] # Free /\ step[w] <= Len(Program(job[w])) /\ UNCHANGED << job, decided >>
    BY <1>5 DEF Check, InAdvance, Free
  <2>2. CASE Return(w)
    BY <1>3, <2>1, <2>2
  <2>3. CASE /\ CanTransition(status, Target(w))
             /\ seen' = [seen EXCEPT ![w] = status]
             /\ Goto(w, to)
             /\ UNCHANGED step
    <3>1. pc'[w] = to /\ seen'[w] = status /\ Target(w)' = Target(w)
      BY <2>1, <2>3 DEF Goto, Target, IInv, TypeOK
    <3>2. CheckedHop(w)'
      BY <2>3, <3>1 DEF CheckedHop, IInv, TypeOK
    <3> QED BY <1>4, <2>1, <2>3, <3>1, <3>2 DEF Goto, InAdvance, Free
  <2>4. CASE Goto(w, "raised") /\ UNCHANGED << step, seen >>
    <3>1. pc'[w] = "raised" /\ seen' = [seen EXCEPT ![w] = seen'[w]]
      BY <2>4 DEF Goto, IInv, TypeOK
    <3> QED BY <1>4, <2>1, <2>4, <3>1 DEF Goto, CheckedHop, InAdvance, Free
  <2> QED BY <1>5, <2>2, <2>3, <2>4 DEF Check
<1>6. ASSUME NEW w \in Workers, ReadStatus(w) \/ RereadStatus(w)
      PROVE  InvocationInv'
  BY <1>5, <1>6 DEF ReadStatus, RereadStatus, InAdvance
<1>7. ASSUME NEW w \in Workers, FirstCAS(w) \/ SecondCAS(w)
      PROVE  InvocationInv'
  <2>1. /\ pc[w] # Free /\ step[w] <= Len(Program(job[w]))
        /\ UNCHANGED << job, decided >>
    BY <1>7 DEF FirstCAS, SecondCAS, InAdvance, Free, IInv, InvocationInv, StepBound
  <2>2. CASE Return(w)
    BY <1>3, <2>1, <2>2
  <2>3. ASSUME NEW to \in {"rereading", "raised"}, LoseRace(w, to)
        PROVE  InvocationInv'
    <3>1. pc'[w] = to /\ seen' = [seen EXCEPT ![w] = seen'[w]]
      BY <2>3 DEF LoseRace, Goto, IInv, TypeOK
    <3> QED BY <1>4, <2>1, <2>3, <3>1 DEF LoseRace, Goto, CheckedHop, InAdvance, Free
  <2> QED BY <1>7, <2>2, <2>3 DEF FirstCAS, SecondCAS
<1>8. ASSUME NEW w \in Workers, Finish(w) \/ MarkFailed(w) \/ Kill(w)
      PROVE  InvocationInv'
  <2>1. End(w)
    BY <1>8 DEF Finish, MarkFailed, Kill
  <2>2. /\ job'[w] = Free /\ pc'[w] = Free /\ step'[w] = 1
        /\ Moves(w)
    BY <2>1 DEF End, Goto, Moves, IInv, TypeOK
  <2>3. Len(Program(Free)) = 0 /\ Verdict(Free) = {}
    BY ProgramHops DEF JobOrFree, Verdict, Free
  <2>4. StepBound(w)'
    BY <2>2, <2>3 DEF StepBound, InAdvance, Free
  <2>5. CheckedHop(w)' /\ VerdictRecorded(w)'
    BY <2>2, <2>3 DEF CheckedHop, VerdictRecorded, Free
  <2> QED BY <2>2, <2>4, <2>5, OthersKeep
<1>9. ASSUME NEW w \in Workers, Retry(w)
      PROVE  InvocationInv'
  <2>1. /\ job'[w] = job[w] /\ pc'[w] = "running" /\ step'[w] \in 1..step[w]
        /\ Moves(w) /\ decided' = decided
    BY <1>9 DEF Retry, Moves, IInv, TypeOK
  <2>2. Len(Program(job[w])) \in Nat
    BY ProgramHops DEF JobOrFree, IInv, TypeOK
  <2>3. StepBound(w)'
    BY <2>1, <2>2 DEF StepBound, InAdvance, Free, IInv, InvocationInv
  <2>4. CheckedHop(w)' /\ VerdictRecorded(w)'
    BY <2>1 DEF CheckedHop, VerdictRecorded, IInv, InvocationInv
  <2> QED BY <2>1, <2>3, <2>4, OthersKeep
<1>10. ASSUME NEW w \in Workers, Raise(w)
       PROVE  InvocationInv'
  <2>1. /\ pc[w] # Free /\ pc'[w] = "raised"
        /\ seen' = [seen EXCEPT ![w] = seen'[w]]
    BY <1>10 DEF Raise, Goto, IInv, TypeOK
  <2> QED BY <1>4, <1>10, <2>1 DEF Raise, Goto, CheckedHop, InAdvance, Free
<1> QED BY <1>1, <1>2, <1>6, <1>7, <1>8, <1>9, <1>10 DEF Next, Work

LEMMA StepHopsLand ==
    ASSUME IInv, [Next]_vars
    PROVE  HopsLand'
<1>1. ASSUME NEW t \in Status, AtOrPast(status, t)
      PROVE  AtOrPast(status', t)
  BY <1>1, StepRow, HopKeepsPast DEF RowHop, row, IInv, TypeOK
<1>2. \A v \in Workers : \A i \in 1..Len(Program(job[v])) : Program(job[v])[i] \in Status
  BY ProgramHops DEF JobOrFree, IInv, TypeOK
<1>3. ASSUME NEW v \in Workers, NEW i \in 1..(step[v] - 1)
      PROVE  AtOrPast(status', Program(job[v])[i])
  <2>1. i \in 1..Len(Program(job[v]))
    <3>1. Len(Program(job[v])) \in Nat /\ step[v] \in 1..(Len(Program(job[v])) + 1)
      BY ProgramHops DEF JobOrFree, IInv, TypeOK, InvocationInv, StepBound
    <3> QED BY <3>1
  <2> QED BY <1>1, <1>2, <2>1 DEF IInv, HopsLand
<1> SUFFICES ASSUME NEW v \in Workers, NEW i \in 1..(step'[v] - 1)
             PROVE  AtOrPast(status', Program(job'[v])[i])
  BY DEF HopsLand
<1>4. CASE job'[v] = job[v] /\ step'[v] = step[v]
  BY <1>3, <1>4
<1>5. ASSUME Return(v), UNCHANGED job,
             step[v] <= Len(Program(job[v])),
             AtOrPast(status', Target(v))
      PROVE  AtOrPast(status', Program(job'[v])[i])
  <2>1. step'[v] = step[v] + 1 /\ step[v] \in Nat /\ i \in 1..step[v]
    BY <1>5 DEF Return, IInv, TypeOK
  <2>2. CASE i = step[v]
    BY <1>5, <2>2 DEF Target
  <2>3. CASE i # step[v]
    <3>1. i \in 1..(step[v] - 1)
      BY <2>1, <2>3
    <3> QED BY <1>3, <1>5, <3>1
  <2> QED BY <2>2, <2>3
<1>6. Target(v) \in Status \/ ~(step[v] <= Len(Program(job[v])))
  BY <1>2, ProgramHops DEF Target, IInv, InvocationInv, StepBound, TypeOK, JobOrFree
<1>7. CASE ReadStatus(v) \/ RereadStatus(v)
  <2>1. UNCHANGED << row, job >> /\ step[v] <= Len(Program(job[v]))
    BY <1>7 DEF ReadStatus, RereadStatus, Check
  <2>2. CASE IsRedundantAdvance(status, Target(v)) /\ Return(v)
    BY <1>5, <1>6, <2>1, <2>2, LandedIsPast DEF row, IInv, TypeOK
  <2>3. CASE UNCHANGED step
    BY <1>4, <2>1, <2>3
  <2> QED BY <1>7, <2>2, <2>3 DEF ReadStatus, RereadStatus, Check
<1>8. CASE FirstCAS(v) \/ SecondCAS(v)
  <2>1. UNCHANGED job /\ step[v] <= Len(Program(job[v]))
    BY <1>8 DEF FirstCAS, SecondCAS, IInv, InvocationInv, StepBound, InAdvance
  <2>2. CASE CompareAndSet(v) /\ Return(v)
    BY <1>5, <1>6, <2>1, <2>2, LandedIsPast DEF CompareAndSet
  <2>3. CASE UNCHANGED step
    BY <1>4, <2>1, <2>3
  <2> QED BY <1>8, <2>2, <2>3 DEF FirstCAS, SecondCAS, LoseRace
<1>9. CASE Finish(v) \/ MarkFailed(v) \/ Kill(v)
  <2>1. step'[v] = 1
    BY <1>9 DEF Finish, MarkFailed, Kill, End, IInv, TypeOK
  <2> QED BY <2>1
<1>10. CASE \E j \in Jobs : Dispatch(v, j)
  <2>1. step'[v] = step[v] /\ job[v] = Free /\ step[v] = 1
    <3>1. Len(Program(Free)) = 0
      BY ProgramHops DEF JobOrFree
    <3>2. job[v] = Free /\ step[v] \in 1..(Len(Program(job[v])) + 1)
      BY <1>10 DEF IInv, InvocationInv, StepBound, Dispatch
    <3> QED BY <1>10, <3>1, <3>2 DEF Dispatch
  <2> QED BY <2>1
<1>11. CASE Retry(v)
  <2>1. job' = job /\ step'[v] \in 1..step[v] /\ step[v] \in Nat
    BY <1>11 DEF Retry, IInv, TypeOK
  <2>2. i \in 1..(step[v] - 1)
    BY <2>1
  <2> QED BY <1>3, <2>1, <2>2
<1>12. CASE Raise(v)
  BY <1>4, <1>12 DEF Raise
<1>13. ASSUME NEW w \in Workers, w # v,
              Work(w) \/ Retry(w) \/ Raise(w) \/ Kill(w) \/ \E j \in Jobs : Dispatch(w, j)
       PROVE  job'[v] = job[v] /\ step'[v] = step[v]
  <2>1. /\ job' = [job EXCEPT ![w] = job'[w]]
        /\ step' = [step EXCEPT ![w] = step'[w]]
    BY <1>13 DEF Work, ReadStatus, RereadStatus, Check, FirstCAS, SecondCAS, LoseRace,
                 Return, Finish, MarkFailed, Kill, End, Retry, Raise, Dispatch,
                 IInv, TypeOK
  <2> QED BY <1>13, <2>1 DEF IInv, TypeOK
<1>14. CASE UNCHANGED vars
  BY <1>4, <1>14 DEF vars
<1> QED
  BY <1>4, <1>7, <1>8, <1>9, <1>10, <1>11, <1>12, <1>13, <1>14 DEF Next, Work

\* Verdicts are only ever added.
LEMMA StepDecided ==
    ASSUME IInv, [Next]_vars
    PROVE  decided \subseteq decided'
BY DEF Next, vars, Dispatch, Work, ReadStatus, RereadStatus, Check, FirstCAS,
       SecondCAS, Finish, MarkFailed, Kill, End, Retry, Raise

LEMMA StepRowInv ==
    ASSUME IInv, [Next]_vars
    PROVE  (CompletedAtIffTerminal /\ GatesRespected /\ OnlyRejectionCancels)'
<1>1. CompletedAtIffTerminal /\ GatesRespected /\ OnlyRejectionCancels /\ status \in Status
  BY DEF IInv, TypeOK
<1>2. CASE UNCHANGED row
  BY <1>1, <1>2, StepDecided
     DEF row, CompletedAtIffTerminal, GatesRespected, OnlyRejectionCancels
<1>3. CASE RowHop
  <2>1. CompletedAtIffTerminal'
    BY <1>3 DEF RowHop, CompletedAtIffTerminal
  <2>2. CASE status' = "failed"
    BY <2>1, <2>2 DEF GatesRespected, OnlyRejectionCancels, OnPath
  <2>3. ASSUME NEW w \in Workers, status' = Target(w),
               step[w] \in 1..Len(Program(job[w]))
        PROVE  (GatesRespected /\ OnlyRejectionCancels)'
    <3>1. /\ status' = "features_approved" => "gate1_approved" \in decided
          /\ status' = "artifacts_approved" => "gate2_approved" \in decided
          /\ status' = "cancelled" => "rejected" \in decided
      BY <2>3, ProgramHops
         DEF Target, IInv, TypeOK, JobOrFree, InvocationInv, VerdictRecorded
    <3>2. OnlyRejectionCancels'
      BY <3>1, StepDecided DEF OnlyRejectionCancels
    <3>3. status' \in OnPath =>
            /\ status \in OnPath
            /\ ProgressIndex(status') >= 4 =>
                   ProgressIndex(status) >= 4 \/ status' = "features_approved"
            /\ ProgressIndex(status') >= 7 =>
                   ProgressIndex(status) >= 7 \/ status' = "artifacts_approved"
      BY <1>1, <1>3, HopForward, GateHops DEF RowHop
    <3>4. GatesRespected'
      BY <1>1, <3>1, <3>2, <3>3, StepDecided DEF GatesRespected
    <3> QED BY <3>2, <3>4
  <2> QED BY <1>3, <2>1, <2>2, <2>3 DEF RowHop
<1> QED BY <1>2, <1>3, StepRow

LEMMA Inductive == IInv /\ [Next]_vars => IInv'
BY StepTypeOK, StepInvocationInv, StepHopsLand, StepRowInv DEF IInv

-----------------------------------------------------------------------------
(* Theorems *)

\* IInv holds throughout every behaviour of the code's status handling.
THEOREM Invariance == Spec => []IInv
BY InitIInv, Inductive, PTL DEF Spec

\* Every variable keeps its type.
THEOREM TypeCorrect == Spec => []TypeOK
BY Invariance, PTL DEF IInv

\* advance and mark_failed stamp completed_at with, and only with, a terminal status.
THEOREM CompletionStamped == Spec => []CompletedAtIffTerminal
BY Invariance, PTL DEF IInv

\* A hop advance() reported done is never lost to another invocation.
THEOREM AdvanceSticks == Spec => []HopsLand
BY Invariance, PTL DEF IInv

\* However many invocations run, in whatever order, none gets a run past a gate
\* that no approved resume has opened.
THEOREM GatesHold == Spec => []GatesRespected
BY Invariance, PTL DEF IInv

\* No error path cancels a run.
THEOREM CancelledByRejection == Spec => []OnlyRejectionCancels
BY Invariance, PTL DEF IInv

\* The concurrent compare-and-set protocol implements the lattice: the row starts
\* at created and takes only legal hops, none of them out of a terminal status.
THEOREM ImplementsLattice == Spec => LatticeSpec
<1>1. Init => Lattice!Init
  BY DEF Init, Lattice!Init
<1>2. IInv /\ [Next]_vars => [Lattice!Hop]_<<status, completedAt>>
  <2> SUFFICES ASSUME IInv, [Next]_vars, RowHop
               PROVE  Lattice!Hop
    BY StepRow DEF row
  <2>1. status' \in Successors(status) /\ completedAt' = (status' \in Terminal)
    BY DEF RowHop, CanTransition
  <2> QED
    BY <2>1 DEF Lattice!Hop, Lattice!Successors, Lattice!Forward, Lattice!Terminal,
                Lattice!OffRamp, Lattice!OnPath, Lattice!ProgressIndex,
                Successors, Forward, Terminal, OffRamp, OnPath, ProgressIndex
<1> QED BY <1>1, <1>2, Invariance, PTL DEF Spec, LatticeSpec, Lattice!Spec
=============================================================================

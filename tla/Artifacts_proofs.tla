---------------------------- MODULE Artifacts_proofs ----------------------------
(***************************************************************************)
(* Proofs about what becomes of an artifact: ArtifactGate, for any          *)
(* artifacts, requests and number of decisions, and Evaluation, for any     *)
(* tables, jobs, reports, bodies and judge, and any number of writes.       *)
(*                                                                          *)
(* The safety of the gate is in one conditional UPDATE: a request may have  *)
(* read anything before it.  IInv says that the status is approved exactly  *)
(* while the log ends with an approval (LogTells), that only a rejection    *)
(* takes an artifact out of blocked or edited (HoldsTold), that a text of a *)
(* later version was edited (EditsTold), and that no copy of an artifact,   *)
(* in a request or in a snapshot, is newer than the artifact (CopiesAreOld, *)
(* ReadingIsOld).                                                           *)
(*                                                                          *)
(* Evaluations meet in the cache.  EvaluationIInv says what an evaluation   *)
(* has recorded by each of its steps (RecordsOnce, AsksAboutTodo), and that *)
(* the answer it holds, and every score it has filed, is the one kept for   *)
(* the body (AnswerIsKept, RowInv); and that the metrics it records, if no  *)
(* write overlapped its statements, are of one state (ReadsOneState), in    *)
(* which the tables are proper: that no two reports of an artifact tie is   *)
(* because time passes between writes (ReportsAreOld).                      *)
(*                                                                          *)
(* What a metric computes and what it means are compared for all data.      *)
(* The induction this takes, along the texts of an edit or the reports of an *)
(* artifact, is on a least counterexample (LeastNatural), since the rules    *)
(* of induction take operators.                                             *)
(***************************************************************************)
EXTENDS ArtifactGate, Evaluation, FiniteSetTheorems, SequenceTheorems, TLAPS

-----------------------------------------------------------------------------
(* ArtifactGate: the inductive invariant *)

\* The log ends with an approval exactly while the artifact is approved, and
\* nothing is logged about an artifact that is not there yet.
LogTells(a) ==
    /\ status[a] = "approved" <=> log[a] # << >> /\ LastEntry(a) = "approved"
    /\ status[a] = "absent" => log[a] = << >>

\* An artifact that nothing holds has answered whatever held it.
HoldsTold(a) == status[a] \notin Holds => HoldsAnswered(a)

\* A text that is not the first version was edited.
EditsTold(a) == content[a] = 1 \/ "edited" \in Range(log[a])

\* Versions are counted from 1, a snapshot is an old one, and an approved
\* artifact has one.
CopiesAreOld(a) ==
    /\ content[a] >= 1
    /\ snapshot[a] <= content[a]
    /\ status[a] = "approved" => snapshot[a] # 0

\* What a request read is a version of the artifact.
ReadingIsOld(r) ==
    request[r] # None =>
        /\ request[r].content >= 1
        /\ request[r].content <= content[request[r].artifact]

\* A review that writes has a verdict, and the artifacts are there.
ReviewHasVerdict ==
    review # {} => /\ verdict \in {"rejected", "edited"}
                   /\ \A a \in Artifacts : status[a] # "absent"

IInv ==
    /\ TypeOK
    /\ NoDoubleApproval
    /\ ReviewHasVerdict
    /\ \A a \in Artifacts : LogTells(a) /\ CopiesAreOld(a) /\ HoldsTold(a) /\ EditsTold(a)
    /\ \A r \in Requests : ReadingIsOld(r)

LEMMA InvApprovalsOnRecord == IInv => ApprovalsOnRecord
BY DEF IInv, LogTells, CopiesAreOld, ApprovalsOnRecord, ApprovedHasRecord

\* Where nothing was rejected nothing was edited, so that the copy is the text.
LEMMA InvHoldsAreAnswered == IInv => HoldsAreAnswered
<1> SUFFICES ASSUME IInv, NEW a \in Artifacts, status[a] = "approved"
             PROVE  /\ HoldsAnswered(a)
                    /\ "rejected" \notin Range(log[a]) => snapshot[a] = content[a]
  BY DEF HoldsAreAnswered
<1>1. /\ log[a] \in Seq(Entries) /\ content[a] \in Nat /\ snapshot[a] \in Nat
      /\ HoldsTold(a) /\ EditsTold(a) /\ CopiesAreOld(a)
  BY DEF IInv, TypeOK
<1>2. HoldsAnswered(a)
  BY <1>1 DEF HoldsTold, Holds
<1>3. ASSUME "rejected" \notin Range(log[a]) PROVE "edited" \notin Range(log[a])
  <2>1. Range(log[a]) = {log[a][i] : i \in 1..Len(log[a])} /\ Len(log[a]) \in Nat
    BY <1>1 DEF Range
  <2>2. ASSUME NEW i \in 1..Len(log[a]), log[a][i] = "edited" PROVE FALSE
    BY <1>2, <1>3, <2>1, <2>2 DEF HoldsAnswered, Holds
  <2> QED BY <2>1, <2>2
<1>4. ASSUME "rejected" \notin Range(log[a]) PROVE snapshot[a] = content[a]
  BY <1>1, <1>3, <1>4 DEF EditsTold, CopiesAreOld
<1> QED BY <1>2, <1>4

-----------------------------------------------------------------------------
(* ArtifactGate: it is inductive *)

\* What appending an entry does to a log.
LEMMA Appended ==
    ASSUME NEW s \in Seq(Entries), NEW e \in Entries
    PROVE  /\ Append(s, e) \in Seq(Entries)
           /\ Append(s, e) # << >>
           /\ Len(Append(s, e)) = Len(s) + 1
           /\ Append(s, e)[Len(s) + 1] = e
           /\ \A i \in 1..Len(s) : Append(s, e)[i] = s[i]
OBVIOUS

\* What a log looks like after an entry was recorded: two approvals in a row only
\* where the new one follows one.
LEMMA Recorded ==
    ASSUME TypeOK, NoDoubleApproval, NEW a \in Artifacts, NEW e \in Entries, Record(a, e),
           e = "approved" => ~ (log[a] # << >> /\ LastEntry(a) = "approved")
    PROVE  /\ log' \in [Artifacts -> Seq(Entries)]
           /\ NoDoubleApproval'
           /\ log'[a] # << >> /\ LastEntry(a)' = e
           /\ \A b \in Artifacts \ {a} : log'[b] = log[b]
<1>1. /\ log \in [Artifacts -> Seq(Entries)]
      /\ log' = [log EXCEPT ![a] = Append(@, e)]
  BY DEF TypeOK, Record
<1>2. /\ log' \in [Artifacts -> Seq(Entries)]
      /\ log'[a] = Append(log[a], e)
      /\ \A b \in Artifacts \ {a} : log'[b] = log[b]
  BY <1>1, Appended
<1>3. log[a] \in Seq(Entries) /\ Len(log[a]) \in Nat
  BY <1>1
<1>4. log'[a] # << >> /\ LastEntry(a)' = e
  BY <1>2, <1>3, Appended DEF LastEntry
<1>5. ASSUME NEW b \in Artifacts, NEW i \in 1..(Len(log'[b]) - 1)
      PROVE  ~ (log'[b][i] = "approved" /\ log'[b][i + 1] = "approved")
  <2>1. CASE b # a
    BY <1>2, <1>5, <2>1 DEF NoDoubleApproval
  <2>2. CASE b = a /\ i < Len(log[a])
    <3>1. /\ i \in 1..(Len(log[a]) - 1) /\ i \in 1..Len(log[a]) /\ i + 1 \in 1..Len(log[a])
          /\ Len(log'[b]) = Len(log[a]) + 1
      BY <1>2, <1>3, <1>5, <2>2, Appended
    <3>2. \A j \in 1..Len(log[a]) : Append(log[a], e)[j] = log[a][j]
      BY <1>3, Appended
    <3>3. log'[b][i] = log[a][i] /\ log'[b][i + 1] = log[a][i + 1]
      BY <1>2, <2>2, <3>1, <3>2
    <3> QED BY <2>2, <3>1, <3>3 DEF NoDoubleApproval
  <2>3. CASE b = a /\ i >= Len(log[a])
    <3>1. i = Len(log[a]) /\ i \in 1..Len(log[a])
      BY <1>2, <1>3, <1>5, <2>3, Appended
    <3>2. log'[b][i] = LastEntry(a) /\ log'[b][i + 1] = e /\ log[a] # << >>
      BY <1>2, <1>3, <2>3, <3>1, Appended DEF LastEntry
    <3> QED BY <3>2
  <2> QED BY <1>3, <1>5, <2>1, <2>2, <2>3
<1> QED BY <1>2, <1>4, <1>5 DEF NoDoubleApproval

\* A rejection answers every hold, an approval adds none.
LEMMA RecordedHolds ==
    ASSUME TypeOK, NEW a \in Artifacts, NEW e \in Entries, Record(a, e)
    PROVE  /\ e = "rejected" => HoldsAnswered(a)'
           /\ e = "approved" /\ HoldsAnswered(a) => HoldsAnswered(a)'
           /\ \A b \in Artifacts \ {a} : HoldsAnswered(b) => HoldsAnswered(b)'
<1>1. /\ log[a] \in Seq(Entries) /\ Len(log[a]) \in Nat
      /\ log'[a] = Append(log[a], e)
      /\ \A b \in Artifacts \ {a} : log'[b] = log[b]
  BY DEF TypeOK, Record
<1>2. /\ Len(log'[a]) = Len(log[a]) + 1
      /\ log'[a][Len(log[a]) + 1] = e
      /\ \A i \in 1..Len(log[a]) : log'[a][i] = log[a][i]
  BY <1>1, Appended
<1>3. ASSUME e = "rejected" PROVE HoldsAnswered(a)'
  <2>1. \A i \in 1..Len(log'[a]) : log'[a][i] \in Holds => i < Len(log'[a])
    BY <1>1, <1>2, <1>3 DEF Holds
  <2> QED BY <1>1, <1>2, <1>3, <2>1 DEF HoldsAnswered
<1>4. ASSUME e = "approved", HoldsAnswered(a) PROVE HoldsAnswered(a)'
  <2> SUFFICES ASSUME NEW i \in 1..Len(log'[a]), log'[a][i] \in Holds
               PROVE  \E j \in (i + 1)..Len(log'[a]) : log'[a][j] = "rejected"
    BY DEF HoldsAnswered, Holds
  <2>1. i \in 1..Len(log[a]) /\ log[a][i] \in Holds
    BY <1>1, <1>2, <1>4 DEF Holds
  <2>2. PICK j \in (i + 1)..Len(log[a]) : log[a][j] = "rejected"
    BY <1>4, <2>1 DEF HoldsAnswered
  <2>3. j \in (i + 1)..Len(log'[a]) /\ log'[a][j] = "rejected"
    BY <1>1, <1>2, <2>1, <2>2
  <2> QED BY <2>3
<1>5. \A b \in Artifacts \ {a} : HoldsAnswered(b) => HoldsAnswered(b)'
  BY <1>1 DEF HoldsAnswered, Holds
<1> QED BY <1>3, <1>4, <1>5

\* No entry is ever lost.
LEMMA RecordedEdits ==
    ASSUME TypeOK, NEW a \in Artifacts, NEW e \in Entries, Record(a, e), NEW b \in Artifacts
    PROVE  /\ "edited" \in Range(log[b]) => "edited" \in Range(log'[b])
           /\ b = a /\ e = "edited" => "edited" \in Range(log'[b])
<1>1. /\ log[b] \in Seq(Entries) /\ Len(log[b]) \in Nat
      /\ b = a => log'[b] = Append(log[b], e)
      /\ b # a => log'[b] = log[b]
  BY DEF TypeOK, Record
<1>2. CASE b = a
  <2>1. /\ log'[b] \in Seq(Entries)
        /\ Len(log'[b]) = Len(log[b]) + 1
        /\ log'[b][Len(log[b]) + 1] = e
        /\ \A i \in 1..Len(log[b]) : log'[b][i] = log[b][i]
    <3>1. log'[b] = Append(log[b], e) /\ log[b] \in Seq(Entries)
      BY <1>1, <1>2
    <3> QED BY <3>1, Appended
  <2>2. /\ DOMAIN log[b] = 1..Len(log[b])
        /\ DOMAIN log'[b] = 1..Len(log'[b])
    BY <1>1, <2>1
  <2>3. \A i \in DOMAIN log[b] : i \in DOMAIN log'[b] /\ log'[b][i] = log[b][i]
    BY <1>1, <2>1, <2>2
  <2>4. Len(log[b]) + 1 \in DOMAIN log'[b]
    BY <1>1, <2>1, <2>2
  <2> QED BY <2>1, <2>3, <2>4 DEF Range
<1>3. CASE b # a
  BY <1>1, <1>3
<1> QED BY <1>2, <1>3

LEMMA InitIInv == Init => IInv
<1> SUFFICES ASSUME Init PROVE IInv
  OBVIOUS
<1>1. TypeOK
  BY DEF Init, TypeOK, Statuses, ClaimKinds
<1>2. NoDoubleApproval
  BY DEF Init, NoDoubleApproval
<1>3. \A a \in Artifacts : LogTells(a) /\ CopiesAreOld(a)
  BY DEF Init, LogTells, CopiesAreOld, LastEntry
<1>4. \A a \in Artifacts : HoldsTold(a) /\ EditsTold(a)
  BY DEF Init, HoldsTold, HoldsAnswered, EditsTold
<1> QED BY <1>1, <1>2, <1>3, <1>4 DEF Init, IInv, ReviewHasVerdict, ReadingIsOld

LEMMA StepTypeOK == IInv /\ [Next]_vars => TypeOK'
<1> SUFFICES ASSUME TypeOK, NoDoubleApproval, ReviewHasVerdict,
                    \A a \in Artifacts : LogTells(a), [Next]_vars
             PROVE  TypeOK'
  BY DEF IInv
<1> USE DEF TypeOK, Statuses
<1>1. CASE PersistReviewable
  <2>1. "blocked" \in Entries
    BY DEF Entries
  <2>2. << "blocked" >> \in Seq(Entries) /\ << >> \in Seq(Entries)
    BY <2>1
  <2>3. log' \in [Artifacts -> Seq(Entries)]
    BY <1>1, <2>2 DEF PersistReviewable
  <2> QED BY <1>1, <2>3 DEF PersistReviewable
<1>2. ASSUME NEW a \in Artifacts, NEW r \in Requests, ReadForApproval(r, a) PROVE TypeOK'
  BY <1>2 DEF ReadForApproval, Reading, rows
<1>3. ASSUME NEW r \in Requests, CommitApproval(r) PROVE TypeOK'
  <2>1. request' \in [Requests -> Reading \cup {None}] /\ request[r] \in Reading
    BY <1>3 DEF CommitApproval
  <2>2. CASE Flippable(request[r].artifact)
    <3>1. Record(request[r].artifact, "approved") /\ request[r].artifact \in Artifacts
          /\ request[r].content \in Nat
      BY <1>3, <2>1, <2>2 DEF CommitApproval, Reading
    <3>2. log' \in [Artifacts -> Seq(Entries)]
      BY <3>1, Recorded, <2>2 DEF Flippable, LogTells, Entries
    <3>3. /\ status' \in [Artifacts -> Statuses]
          /\ snapshot' \in [Artifacts -> Nat]
          /\ UNCHANGED << content, claims, review, verdict >>
      BY <1>3, <2>2, <3>1 DEF CommitApproval
    <3> QED BY <2>1, <3>2, <3>3
  <2> QED BY <1>3, <2>1, <2>2 DEF CommitApproval, rows
<1>4. ASSUME NEW r \in Requests, DropRequest(r) PROVE TypeOK'
  BY <1>4 DEF DropRequest, rows
<1>5. ASSUME NEW a \in Artifacts, Reject(a) PROVE TypeOK'
  <2>1. log' \in [Artifacts -> Seq(Entries)]
    BY <1>5, Recorded DEF Reject, Entries
  <2> QED BY <1>5, <2>1 DEF Reject
<1>6. ASSUME NEW a \in Artifacts, Edit(a) PROVE TypeOK'
  <2>1. log' \in [Artifacts -> Seq(Entries)]
    BY <1>6, Recorded DEF Edit, Entries
  <2>2. content' \in [Artifacts -> Nat] /\ status' \in [Artifacts -> Statuses]
    BY <1>6 DEF Edit
  <2> QED BY <1>6, <2>1, <2>2 DEF Edit
<1>7. ASSUME NEW v \in {"rejected", "edited"}, ResumeReview(v) PROVE TypeOK'
  BY <1>7 DEF ResumeReview, rows
<1>8. ASSUME NEW a \in Artifacts, WriteReview(a) PROVE TypeOK'
  <2>1. verdict \in Entries \ {"approved"} /\ Record(a, verdict)
    BY <1>8 DEF WriteReview, ReviewHasVerdict, Entries
  <2>2. log' \in [Artifacts -> Seq(Entries)]
    BY <2>1, Recorded
  <2> QED BY <1>8, <2>2 DEF WriteReview, ReviewHasVerdict
<1>9. CASE RetryReview
  BY <1>9 DEF RetryReview, rows
<1>10. CASE KillReview
  BY <1>10 DEF KillReview, rows
<1>11. CASE UNCHANGED vars
  BY <1>11 DEF vars, rows
<1> QED BY <1>1, <1>2, <1>3, <1>4, <1>5, <1>6, <1>7, <1>8, <1>9, <1>10, <1>11 DEF Next

\* The parts of IInv about the rows, after a step that records an entry.
RowsInv ==
    /\ NoDoubleApproval
    /\ \A a \in Artifacts : LogTells(a) /\ CopiesAreOld(a) /\ HoldsTold(a) /\ EditsTold(a)

LEMMA StepRows == IInv /\ [Next]_vars => RowsInv'
<1> SUFFICES ASSUME IInv, [Next]_vars PROVE RowsInv'
  OBVIOUS
<1>1. TypeOK /\ RowsInv /\ ReviewHasVerdict /\ \A r \in Requests : ReadingIsOld(r)
  BY DEF IInv, RowsInv
<1>2. CASE UNCHANGED rows
  BY <1>1, <1>2 DEF rows, RowsInv, NoDoubleApproval, LogTells, LastEntry, CopiesAreOld,
                    HoldsTold, HoldsAnswered, Holds, EditsTold
<1>3. CASE PersistReviewable
  <2>1. ASSUME NEW a \in Artifacts
        PROVE  /\ log[a] = << >> /\ content'[a] = 1 /\ snapshot'[a] = snapshot[a]
               /\ \/ status'[a] = "draft" /\ log'[a] = << >>
                  \/ status'[a] = "blocked" /\ log'[a] = << "blocked" >>
    BY <1>1, <1>3 DEF PersistReviewable, RowsInv, LogTells, EditsTold, Range
  <2>2. NoDoubleApproval'
    BY <2>1 DEF NoDoubleApproval
  <2>3. ASSUME NEW a \in Artifacts
        PROVE  LogTells(a)' /\ CopiesAreOld(a)' /\ HoldsTold(a)' /\ EditsTold(a)'
    <3>1. LogTells(a)'
      BY <2>1 DEF LogTells, LastEntry
    <3>2. CopiesAreOld(a)'
      BY <1>1, <1>3, <2>1 DEF PersistReviewable, RowsInv, CopiesAreOld
    <3>3. HoldsTold(a)'
      BY <2>1 DEF HoldsTold, HoldsAnswered, Holds
    <3>4. EditsTold(a)'
      BY <2>1 DEF EditsTold
    <3> QED BY <3>1, <3>2, <3>3, <3>4
  <2> QED BY <2>2, <2>3 DEF RowsInv
<1>4. ASSUME NEW a \in Artifacts, NEW e \in {"rejected", "edited"}, Record(a, e),
             status' = [status EXCEPT ![a] = e],
             UNCHANGED << claims, snapshot >>,
             content' = content \/ (e = "edited" /\ content' = [content EXCEPT ![a] = @ + 1])
      PROVE  RowsInv'
  <2>0. e \in Entries /\ e # "approved" /\ status'[a] = e
    BY <1>1, <1>4 DEF Entries, TypeOK
  <2>1. /\ NoDoubleApproval'
        /\ log'[a] # << >> /\ LastEntry(a)' = e
        /\ \A b \in Artifacts \ {a} : log'[b] = log[b] /\ LastEntry(b)' = LastEntry(b)
    <3>1. /\ NoDoubleApproval'
          /\ log'[a] # << >> /\ LastEntry(a)' = e
          /\ \A b \in Artifacts \ {a} : log'[b] = log[b]
      BY <1>1, <1>4, <2>0, Recorded DEF RowsInv
    <3> QED BY <3>1 DEF LastEntry
  <2>2. \A b \in Artifacts : content'[b] >= content[b] /\ content[b] \in Nat /\ content'[b] \in Nat
    <3>1. content \in [Artifacts -> Nat]
      BY <1>1 DEF TypeOK
    <3>2. CASE content' = content
      BY <3>1, <3>2
    <3>3. CASE content' = [content EXCEPT ![a] = @ + 1]
      BY <3>1, <3>3
    <3> QED BY <1>4, <3>2, <3>3
  <2>4. \A b \in Artifacts : LogTells(b)'
    BY <1>1, <1>4, <2>0, <2>1 DEF RowsInv, LogTells, TypeOK
  <2>5. \A b \in Artifacts : CopiesAreOld(b)'
    BY <1>1, <1>4, <2>0, <2>2 DEF RowsInv, CopiesAreOld, TypeOK
  <2>6. ASSUME NEW b \in Artifacts PROVE HoldsTold(b)'
    <3>1. CASE b = a
      BY <1>1, <1>4, <2>0, <3>1, RecordedHolds DEF HoldsTold, Holds
    <3>2. CASE b # a
      <4>1. status'[b] = status[b] /\ HoldsTold(b)
        BY <1>1, <1>4, <3>2 DEF RowsInv, TypeOK
      <4>2. HoldsAnswered(b) => HoldsAnswered(b)'
        BY <1>1, <1>4, <2>0, <3>2, RecordedHolds
      <4> QED BY <4>1, <4>2 DEF HoldsTold, Holds
    <3> QED BY <3>1, <3>2
  <2>7. ASSUME NEW b \in Artifacts PROVE EditsTold(b)'
    <3>1. /\ "edited" \in Range(log[b]) => "edited" \in Range(log'[b])
          /\ b = a /\ e = "edited" => "edited" \in Range(log'[b])
      BY <1>1, <1>4, <2>0, RecordedEdits
    <3>2. EditsTold(b)
      BY <1>1 DEF RowsInv
    <3>3. content'[b] = content[b] \/ (b = a /\ e = "edited")
      BY <1>1, <1>4 DEF TypeOK
    <3> QED BY <3>1, <3>2, <3>3 DEF EditsTold
  <2> QED BY <2>1, <2>4, <2>5, <2>6, <2>7 DEF RowsInv
<1>5. ASSUME NEW r \in Requests, CommitApproval(r), Flippable(request[r].artifact)
      PROVE  RowsInv'
  <2>. PICK a \in Artifacts : a = request[r].artifact
    BY <1>1, <1>5 DEF CommitApproval, TypeOK, Reading
  <2>1. /\ request[r].content \in Nat
        /\ request[r].content >= 1 /\ request[r].content <= content[a]
    BY <1>1, <1>5 DEF CommitApproval, TypeOK, Reading, ReadingIsOld
  <2>2. /\ Record(a, "approved")
        /\ snapshot' = [snapshot EXCEPT ![a] = IF @ = 0 THEN request[r].content ELSE @]
        /\ status' = [status EXCEPT ![a] = "approved"]
        /\ UNCHANGED << content, claims >>
    BY <1>5 DEF CommitApproval
  <2>3. status[a] \notin {"approved", "blocked", "edited"}
    BY <1>5 DEF Flippable
  <2>4. ~ (log[a] # << >> /\ LastEntry(a) = "approved")
    BY <1>1, <2>1, <2>3 DEF RowsInv, LogTells
  <2>5. /\ NoDoubleApproval'
        /\ log'[a] # << >> /\ LastEntry(a)' = "approved"
        /\ \A b \in Artifacts \ {a} : log'[b] = log[b] /\ LastEntry(b)' = LastEntry(b)
    <3>1. "approved" \in Entries /\ TypeOK /\ NoDoubleApproval
      BY <1>1 DEF RowsInv, Entries
    <3>2. /\ NoDoubleApproval'
          /\ log'[a] # << >> /\ LastEntry(a)' = "approved"
          /\ \A b \in Artifacts \ {a} : log'[b] = log[b]
      BY <2>1, <2>2, <2>4, <3>1, Recorded
    <3> QED BY <3>2 DEF LastEntry
  <2>6. ASSUME NEW b \in Artifacts PROVE HoldsTold(b)' /\ EditsTold(b)'
    <3>1. "approved" \in Entries
      BY DEF Entries
    <3>2. HoldsAnswered(b) => HoldsAnswered(b)'
      BY <1>1, <2>2, <3>1, RecordedHolds
    <3>3. status'[b] \in Holds => status'[b] = status[b]
      BY <1>1, <2>2 DEF TypeOK, Holds
    <3>4. HoldsTold(b) /\ EditsTold(b) /\ (b = a => status[b] \notin Holds)
      BY <1>1, <2>3 DEF RowsInv, Holds
    <3>5. b # a => status'[b] = status[b]
      BY <1>1, <2>2 DEF TypeOK
    <3>6. HoldsTold(b)'
      BY <3>2, <3>3, <3>4, <3>5 DEF HoldsTold, Holds
    <3>7. "edited" \in Range(log[b]) => "edited" \in Range(log'[b])
      BY <1>1, <2>2, <3>1, RecordedEdits
    <3>8. EditsTold(b)'
      BY <2>2, <3>4, <3>7 DEF EditsTold
    <3> QED BY <3>6, <3>8
  <2>7. \A b \in Artifacts : LogTells(b)'
    BY <1>1, <2>1, <2>2, <2>5 DEF RowsInv, LogTells, TypeOK
  <2>8. \A b \in Artifacts : CopiesAreOld(b)'
    BY <1>1, <2>1, <2>2 DEF RowsInv, CopiesAreOld, TypeOK
  <2> QED BY <2>5, <2>6, <2>7, <2>8 DEF RowsInv
<1>6. ASSUME NEW r \in Requests, CommitApproval(r) PROVE RowsInv'
  BY <1>2, <1>5, <1>6 DEF CommitApproval
<1>7. ASSUME NEW a \in Artifacts, Reject(a) PROVE RowsInv'
  BY <1>4, <1>7 DEF Reject
<1>8. ASSUME NEW a \in Artifacts, Edit(a) PROVE RowsInv'
  BY <1>4, <1>8 DEF Edit
<1>9. ASSUME NEW a \in Artifacts, WriteReview(a) PROVE RowsInv'
  <2>1. verdict \in {"rejected", "edited"}
    BY <1>1, <1>9 DEF WriteReview, ReviewHasVerdict
  <2> QED BY <1>4, <1>9, <2>1 DEF WriteReview
<1>10. ASSUME NEW a \in Artifacts, NEW r \in Requests, ReadForApproval(r, a) PROVE RowsInv'
  BY <1>2, <1>10 DEF ReadForApproval
<1> QED BY <1>2, <1>3, <1>6, <1>7, <1>8, <1>9, <1>10
    DEF Next, DropRequest, ResumeReview, RetryReview, KillReview, vars

\* An edit is the only step that touches a content, and it makes a newer one.
LEMMA ContentGrows ==
    ASSUME TypeOK, [Next]_vars, NEW a \in Artifacts
    PROVE  content[a] \in Nat /\ content'[a] \in Nat /\ content'[a] >= content[a]
<1>1. content[a] \in Nat
  BY DEF TypeOK
<1>2. ASSUME NEW b \in Artifacts, Edit(b) PROVE content'[a] \in {content[a], content[a] + 1}
  BY <1>2 DEF Edit, TypeOK
<1>3. CASE \E b \in Artifacts : Edit(b)
  BY <1>1, <1>2, <1>3
<1>4. ASSUME ~ \E b \in Artifacts : Edit(b) PROVE UNCHANGED content
  BY <1>4 DEF Next, PersistReviewable, ReadForApproval, CommitApproval, DropRequest, Reject,
              ResumeReview, WriteReview, RetryReview, KillReview, vars, rows
<1> QED BY <1>1, <1>3, <1>4

LEMMA StepReadings == IInv /\ [Next]_vars => \A r \in Requests : ReadingIsOld(r)'
<1> SUFFICES ASSUME TypeOK, [Next]_vars, NEW q \in Requests, ReadingIsOld(q),
                    \A a \in Artifacts : CopiesAreOld(a)
             PROVE  ReadingIsOld(q)'
  BY DEF IInv
<1>1. CASE request'[q] = request[q]
  <2>1. request[q] # None => request[q].artifact \in Artifacts /\ request[q].content \in Nat
    BY DEF TypeOK, Reading
  <2> QED BY <1>1, <2>1, ContentGrows DEF ReadingIsOld
<1>2. CASE request'[q] = None
  BY <1>2 DEF ReadingIsOld
<1>3. ASSUME NEW a \in Artifacts, ReadForApproval(q, a) PROVE ReadingIsOld(q)'
  <2>1. request'[q] = [artifact |-> a, content |-> content[a]] /\ UNCHANGED content
    BY <1>3 DEF ReadForApproval, rows, TypeOK
  <2> QED BY <2>1 DEF ReadingIsOld, CopiesAreOld, TypeOK
<1>4. \/ request'[q] = request[q]
      \/ request'[q] = None
      \/ \E a \in Artifacts : ReadForApproval(q, a)
  BY DEF Next, PersistReviewable, ReadForApproval, CommitApproval, DropRequest, Reject, Edit,
         ResumeReview, WriteReview, RetryReview, KillReview, vars, TypeOK
<1> QED BY <1>1, <1>2, <1>3, <1>4

LEMMA StepReview == IInv /\ [Next]_vars => ReviewHasVerdict'
<1> SUFFICES ASSUME TypeOK, ReviewHasVerdict, [Next]_vars PROVE ReviewHasVerdict'
  BY DEF IInv
<1>1. ASSUME NEW v \in {"rejected", "edited"}, ResumeReview(v) PROVE ReviewHasVerdict'
  BY <1>1 DEF ResumeReview, rows, ReviewHasVerdict
<1>2. ASSUME UNCHANGED verdict, review' # {} => review # {},
             \A a \in Artifacts : status'[a] = status[a] \/ status'[a] # "absent"
      PROVE  ReviewHasVerdict'
  BY <1>2 DEF ReviewHasVerdict
<1>3. ASSUME NEW a \in Artifacts, WriteReview(a) PROVE ReviewHasVerdict'
  BY <1>2, <1>3 DEF WriteReview, ReviewHasVerdict, TypeOK
<1>4. CASE PersistReviewable
  BY <1>2, <1>4 DEF PersistReviewable
<1>5. ASSUME NEW r \in Requests, CommitApproval(r) PROVE ReviewHasVerdict'
  BY <1>2, <1>5 DEF CommitApproval, rows, TypeOK
<1>6. ASSUME NEW a \in Artifacts, Reject(a) \/ Edit(a) PROVE ReviewHasVerdict'
  BY <1>2, <1>6 DEF Reject, Edit, TypeOK
<1>7. CASE RetryReview \/ KillReview
  BY <1>2, <1>7 DEF RetryReview, KillReview, rows
<1>8. CASE UNCHANGED << rows, review, verdict >>
  BY <1>2, <1>8 DEF rows
<1> QED BY <1>1, <1>3, <1>4, <1>5, <1>6, <1>7, <1>8
    DEF Next, ReadForApproval, DropRequest, vars

LEMMA Inductive == IInv /\ [Next]_vars => IInv'
BY StepTypeOK, StepRows, StepReadings, StepReview DEF IInv, RowsInv

-----------------------------------------------------------------------------
(* ArtifactGate: the theorems *)

\* IInv holds throughout every review of a run's artifacts.
THEOREM Invariance == Spec => []IInv
BY InitIInv, Inductive, PTL DEF Spec

\* The rows, the log and the requests under way keep their types.
THEOREM TypeCorrect == Spec => []TypeOK
BY Invariance, PTL DEF IInv

\* However many reviewers decide and edit while approvals are under way, none is
\* approved past a block or an edit that was not rejected first, and what was never
\* rejected is published as it stands.
THEOREM HoldsBarApproval == Spec => []HoldsAreAnswered
BY Invariance, InvHoldsAreAnswered, PTL

\* The status and the audit log never disagree about an approval, and no approval
\* is recorded twice.
THEOREM LogTellsTruth == Spec => []ApprovalsOnRecord
BY Invariance, InvApprovalsOnRecord, PTL

\* Once a human approved a text, the copy that is published is that text.
THEOREM PublishedCopyIsFrozen == Spec => SnapshotFrozen
<1>1. ASSUME IInv, IInv', [Next]_vars, NEW a \in Artifacts
      PROVE  /\ snapshot[a] # 0 => snapshot'[a] = snapshot[a]
             /\ snapshot'[a] <= content'[a]
  <2>1. snapshot'[a] <= content'[a]
    BY <1>1 DEF IInv, CopiesAreOld
  <2>2. ASSUME NEW r \in Requests, CommitApproval(r), snapshot[a] # 0
        PROVE  snapshot'[a] = snapshot[a]
    BY <1>1, <2>2 DEF CommitApproval, IInv, TypeOK, rows
  <2>3. (\E r \in Requests : CommitApproval(r)) \/ UNCHANGED snapshot
    BY <1>1 DEF Next, PersistReviewable, ReadForApproval, DropRequest, Reject, Edit,
                ResumeReview, WriteReview, RetryReview, KillReview, vars, rows
  <2> QED BY <2>1, <2>2, <2>3
<1>2. IInv /\ IInv' /\ [Next]_vars =>
        [ \A a \in Artifacts :
            /\ snapshot[a] # 0 => snapshot'[a] = snapshot[a]
            /\ snapshot'[a] <= content'[a] ]_vars
  BY <1>1
<1> QED BY <1>2, Invariance, PTL DEF Spec, SnapshotFrozen

-----------------------------------------------------------------------------
(* EvalMetrics: sets of naturals, and what is defined by recursion.  Nothing is  *)
(* proved by an induction rule here: a set of counterexamples would have a least. *)

\* A set of naturals has a least element.
LEMMA LeastNatural ==
    ASSUME NEW T, T \subseteq Nat, T # {}
    PROVE  \E n \in T : \A m \in T : n <= m
<1> DEFINE R == OpToRel(<, Nat)
<1>1. IsWellFoundedOn(R, Nat)
  BY NatLessThanWellFounded
<1>2. \A m, n \in Nat : m < n => << m, n >> \in R
  <2> SUFFICES ASSUME NEW m \in Nat, NEW n \in Nat, m < n PROVE << m, n >> \in R
    OBVIOUS
  <2>1. << m, n >> \in Nat \X Nat /\ << m, n >>[1] = m /\ << m, n >>[2] = n
    OBVIOUS
  <2> QED
    BY <2>1 DEF OpToRel
<1> HIDE DEF R
<1>3. PICK n \in T : \A m \in T : ~(<< m, n >> \in R)
  BY ONLY <1>1, T \subseteq Nat, T # {}, WFMin, Zenon
<1>4. ASSUME NEW m \in T PROVE n <= m
  <2>1. m \in Nat /\ n \in Nat
    OBVIOUS
  <2>2. ~(m < n)
    BY <1>2, <1>3, <2>1
  <2> QED
    BY <2>1, <2>2
<1> QED
  BY <1>4

\* What is defined by recursion up to N exists.
Recurs(g, k, c, F) == g[0] = c /\ \A i \in 1..k : g[i] = F[<< g[i - 1], i >>]

LEMMA Recursion ==
    ASSUME NEW N \in Nat, NEW S, NEW c \in S, NEW F \in [S \X (1..N) -> S]
    PROVE  \E g \in [0..N -> S] : Recurs(g, N, c, F)
<1> DEFINE T == {k \in 0..N : ~ \E g \in [0..k -> S] : Recurs(g, k, c, F)}
<1>1. SUFFICES ASSUME T # {} PROVE FALSE
  <2>1. N \in 0..N /\ N \notin T
    BY <1>1
  <2>2. \E g \in [0..N -> S] : Recurs(g, N, c, F)
    BY <2>1
  <2> QED
    BY <2>2 DEF Recurs
<1>2. PICK n \in T : \A m \in T : n <= m
  <2>1. T \subseteq Nat
    OBVIOUS
  <2> HIDE DEF T
  <2> QED
    BY ONLY <2>1, <1>1, LeastNatural
<1>3. n # 0
  <2> DEFINE g == [j \in 0..0 |-> c]
  <2>1. g \in [0..0 -> S] /\ Recurs(g, 0, c, F)
    BY DEF Recurs
  <2> QED
    BY <1>2, <2>1
<1>4. n - 1 \in 0..N /\ n - 1 \notin T
  BY <1>2, <1>3
<1>5. PICK g \in [0..(n - 1) -> S] : Recurs(g, n - 1, c, F)
  BY <1>4
<1> DEFINE h == [j \in 0..n |-> IF j = n THEN F[<< g[n - 1], n >>] ELSE g[j]]
<1>6. h \in [0..n -> S]
  <2>1. << g[n - 1], n >> \in S \X (1..N)
    BY <1>2, <1>3
  <2>2. F[<< g[n - 1], n >>] \in S
    BY <2>1
  <2> QED
    BY <2>2, <1>3
<1>7. Recurs(h, n, c, F)
  <2>0. n \in Nat
    OBVIOUS
  <2>1. h[0] = c
    BY <1>3, <1>5 DEF Recurs
  <2>2. ASSUME NEW i \in 1..n PROVE h[i] = F[<< h[i - 1], i >>]
    <3>1. h[i - 1] = g[i - 1]
      BY <2>0
    <3>2. CASE i = n
      <4>1. n \in 0..n /\ h[n] = F[<< g[n - 1], n >>]
        BY <2>0
      <4>2. g[n - 1] = h[n - 1]
        BY <3>1, <3>2
      <4> QED
        BY ONLY <3>2, <4>1, <4>2, Zenon
    <3>3. CASE i # n
      <4>1. i \in 1..(n - 1) /\ h[i] = g[i]
        BY <3>3, <2>0
      <4>2. g[i] = F[<< g[i - 1], i >>]
        BY <4>1, <1>5 DEF Recurs
      <4> QED
        BY <4>1, <4>2, <3>1
    <3> QED
      BY <3>2, <3>3
  <2> QED
    BY <2>1, <2>2 DEF Recurs
<1> QED
  BY <1>2, <1>6, <1>7

LEMMA MinIs ==
    ASSUME NEW S, S \subseteq Int, NEW x \in S, \A y \in S : x <= y
    PROVE  Min(S) = x
<1>1. Min(S) \in S /\ \A y \in S : Min(S) <= y
  BY DEF Min
<1>2. Min(S) <= x /\ x <= Min(S) /\ x \in Int /\ Min(S) \in Int
  BY <1>1
<1> QED
  BY <1>2

LEMMA MinOfThree ==
    ASSUME NEW a \in Nat, NEW b \in Nat, NEW c \in Nat
    PROVE  /\ Min({a, b, c}) \in {a, b, c}
           /\ Min({a, b, c}) <= a /\ Min({a, b, c}) <= b /\ Min({a, b, c}) <= c
<1>1. \E x \in {a, b, c} : \A y \in {a, b, c} : x <= y
  OBVIOUS
<1> QED
  BY <1>1 DEF Min

-----------------------------------------------------------------------------
(* EvalMetrics: the table of edit_distance holds the least numbers of edits *)

\* What is kept of the first i characters against the first j, and what is
\* edited then; d is the least number of edits of the two prefixes.
Ordered(p, q) == p # q => (p[1] < q[1] /\ p[2] < q[2]) \/ (p[1] > q[1] /\ p[2] > q[2])

Kept(i, j) == {m \in SUBSET ((1..i) \X (1..j)) : \A p, q \in m : Ordered(p, q)}

Changed(s, t, m) == {p \in m : s[p[1]] # t[p[2]]}

Swap(s, t, i, j) == IF s[i] = t[j] THEN 0 ELSE 1

EditsOf(s, t, m, i, j) == i + j - 2 * Cardinality(m) + Cardinality(Changed(s, t, m))

IsLeast(s, t, d, i, j) ==
    /\ \E m \in Kept(i, j) : d = EditsOf(s, t, m, i, j)
    /\ \A m \in Kept(i, j) : d <= EditsOf(s, t, m, i, j)

LEMMA KeptIsFinite ==
    ASSUME NEW s, NEW t, NEW i \in Nat, NEW j \in Nat, NEW m \in Kept(i, j)
    PROVE  /\ IsFiniteSet(m) /\ Cardinality(m) \in Nat
           /\ IsFiniteSet(Changed(s, t, m)) /\ Cardinality(Changed(s, t, m)) \in Nat
           /\ EditsOf(s, t, m, i, j) \in Int
<1>1. IsFiniteSet(1..i) /\ IsFiniteSet(1..j)
  BY FS_Interval
<1>2. IsFiniteSet((1..i) \X (1..j))
  BY <1>1, FS_Product
<1>3. m \in SUBSET ((1..i) \X (1..j))
  BY DEF Kept
<1>4. IsFiniteSet(m)
  BY ONLY <1>2, <1>3, FS_Subset
<1>5. Changed(s, t, m) \in SUBSET m
  BY DEF Changed
<1>6. IsFiniteSet(Changed(s, t, m))
  BY ONLY <1>4, <1>5, FS_Subset
<1>7. Cardinality(m) \in Nat /\ Cardinality(Changed(s, t, m)) \in Nat
  BY <1>4, <1>6, FS_CardinalityType
<1> QED
  BY <1>4, <1>6, <1>7 DEF EditsOf

LEMMA KeptOfNone ==
    ASSUME NEW s, NEW t, NEW i \in Nat, NEW j \in Nat, i = 0 \/ j = 0
    PROVE  IsLeast(s, t, i + j, i, j)
<1>1. (1..i) \X (1..j) = {}
  OBVIOUS
<1>2. Kept(i, j) = {{}}
  BY <1>1 DEF Kept
<1>3. Changed(s, t, {}) = {}
  BY DEF Changed
<1>4. EditsOf(s, t, {}, i, j) = i + j
  BY <1>3, FS_EmptySet DEF EditsOf
<1> QED
  BY <1>2, <1>4 DEF IsLeast

\* A character more is deleted, or inserted.
LEMMA OneMore ==
    ASSUME NEW s, NEW t, NEW i \in Nat, NEW j \in Nat, NEW m \in Kept(i, j)
    PROVE  /\ m \in Kept(i + 1, j) /\ EditsOf(s, t, m, i + 1, j) = EditsOf(s, t, m, i, j) + 1
           /\ m \in Kept(i, j + 1) /\ EditsOf(s, t, m, i, j + 1) = EditsOf(s, t, m, i, j) + 1
<1>1. m \in Kept(i + 1, j) /\ m \in Kept(i, j + 1)
  BY DEF Kept
<1> QED
  BY <1>1, KeptIsFinite DEF EditsOf

\* Or the last two are kept against each other.
LEMMA LastKept ==
    ASSUME NEW s, NEW t, NEW i \in Nat, NEW j \in Nat, NEW m \in Kept(i, j)
    PROVE  /\ m \cup {<< i + 1, j + 1 >>} \in Kept(i + 1, j + 1)
           /\ EditsOf(s, t, m \cup {<< i + 1, j + 1 >>}, i + 1, j + 1)
                = EditsOf(s, t, m, i, j) + Swap(s, t, i + 1, j + 1)
<1> DEFINE last == << i + 1, j + 1 >>
           more == m \cup {last}
           cost == Swap(s, t, i + 1, j + 1)
<1>1. \A p \in m : p[1] \in 1..i /\ p[2] \in 1..j /\ p # last
  BY DEF Kept
<1>2. more \in Kept(i + 1, j + 1)
  <2>1. more \in SUBSET ((1..(i + 1)) \X (1..(j + 1)))
    BY DEF Kept
  <2>2. \A p, q \in more : Ordered(p, q)
    BY <1>1 DEF Kept, Ordered
  <2> QED
    BY <2>1, <2>2 DEF Kept
<1>3. last \notin m
  BY <1>1
<1>4. Cardinality(more) = Cardinality(m) + 1
  BY <1>3, KeptIsFinite, FS_AddElement
<1>5. Cardinality(Changed(s, t, more)) = Cardinality(Changed(s, t, m)) + cost
  <2>1. CASE s[i + 1] = t[j + 1]
    <3>1. Changed(s, t, more) = Changed(s, t, m)
      BY <2>1 DEF Changed
    <3>2. Cardinality(Changed(s, t, m)) \in Nat /\ cost = 0
      BY <2>1, KeptIsFinite DEF Swap
    <3> QED
      BY <3>1, <3>2
  <2>2. CASE s[i + 1] # t[j + 1]
    <3>1. Changed(s, t, more) = Changed(s, t, m) \cup {last}
      BY <2>2 DEF Changed
    <3>2. last \notin Changed(s, t, m)
      BY <1>3 DEF Changed
    <3>3. IsFiniteSet(Changed(s, t, m)) /\ cost = 1
      BY <2>2, KeptIsFinite DEF Swap
    <3> QED
      BY <3>1, <3>2, <3>3, FS_AddElement
  <2> QED
    BY <2>1, <2>2
<1>6. Cardinality(m) \in Nat /\ Cardinality(Changed(s, t, m)) \in Nat /\ cost \in Nat
  BY KeptIsFinite DEF Swap
<1> HIDE DEF cost, more
<1>7. EditsOf(s, t, more, i + 1, j + 1) = EditsOf(s, t, m, i, j) + cost
  BY <1>4, <1>5, <1>6 DEF EditsOf
<1> QED
  BY <1>2, <1>7 DEF cost, more

\* There is no other way to go on.
LEMMA LastOrNot ==
    ASSUME NEW i \in Nat, NEW j \in Nat, NEW m \in Kept(i + 1, j + 1)
    PROVE  \/ m \in Kept(i, j + 1)
           \/ m \in Kept(i + 1, j)
           \/ \E x \in Kept(i, j) : m = x \cup {<< i + 1, j + 1 >>}
<1> DEFINE last == << i + 1, j + 1 >>
<1>1. \A p \in m : p[1] \in 1..(i + 1) /\ p[2] \in 1..(j + 1) /\ p = << p[1], p[2] >>
  BY DEF Kept
<1>2. CASE last \in m
  <2> DEFINE x == m \ {last}
  <2>1. \A p \in x : p[1] \in 1..i /\ p[2] \in 1..j
    BY <1>1, <1>2 DEF Kept, Ordered
  <2>2. x \in Kept(i, j)
    <3>1. x \in SUBSET ((1..i) \X (1..j))
      BY <1>1, <2>1
    <3> QED
      BY <3>1 DEF Kept
  <2>3. m = x \cup {last}
    BY <1>2
  <2> QED
    BY <2>2, <2>3
<1>3. CASE last \notin m /\ \A p \in m : p[1] # i + 1
  <2>1. m \in SUBSET ((1..i) \X (1..(j + 1)))
    BY <1>1, <1>3
  <2> QED
    BY <2>1 DEF Kept
<1>4. CASE last \notin m /\ \E p \in m : p[1] = i + 1
  <2>1. PICK p \in m : p[1] = i + 1
    BY <1>4
  <2>2. \A q \in m : q[2] # j + 1
    BY <1>1, <1>4, <2>1 DEF Kept, Ordered
  <2>3. m \in SUBSET ((1..(i + 1)) \X (1..j))
    BY <1>1, <2>2
  <2> QED
    BY <2>3 DEF Kept
<1> QED
  BY <1>2, <1>3, <1>4

LEMMA NextIsLeast ==
    ASSUME NEW s, NEW t, NEW i \in Nat, NEW j \in Nat,
           NEW up \in Nat, NEW left \in Nat, NEW corner \in Nat,
           IsLeast(s, t, up, i, j + 1), IsLeast(s, t, left, i + 1, j), IsLeast(s, t, corner, i, j)
    PROVE  IsLeast(s, t, Min({up + 1, left + 1, corner + Swap(s, t, i + 1, j + 1)}), i + 1, j + 1)
<1> DEFINE cost == Swap(s, t, i + 1, j + 1)
           last == << i + 1, j + 1 >>
<1>0. cost \in Nat
  BY DEF Swap
<1> HIDE DEF cost
<1>1. PICK d : d = Min({up + 1, left + 1, corner + cost})
  OBVIOUS
<1>2. /\ d \in Nat /\ d <= up + 1 /\ d <= left + 1 /\ d <= corner + cost
      /\ d = up + 1 \/ d = left + 1 \/ d = corner + cost
  BY <1>0, <1>1, MinOfThree
<1>3. \A m \in Kept(i, j + 1) : m \in Kept(i + 1, j + 1) /\ EditsOf(s, t, m, i + 1, j + 1) = EditsOf(s, t, m, i, j + 1) + 1
  BY OneMore
<1>4. \A m \in Kept(i + 1, j) : m \in Kept(i + 1, j + 1) /\ EditsOf(s, t, m, i + 1, j + 1) = EditsOf(s, t, m, i + 1, j) + 1
  BY OneMore
<1>5. \A m \in Kept(i, j) : /\ m \cup {last} \in Kept(i + 1, j + 1)
                           /\ EditsOf(s, t, m \cup {last}, i + 1, j + 1) = EditsOf(s, t, m, i, j) + cost
  BY LastKept DEF cost
<1>6. ASSUME NEW m \in Kept(i + 1, j + 1) PROVE d <= EditsOf(s, t, m, i + 1, j + 1)
  <2>1. CASE m \in Kept(i, j + 1)
    BY <1>0, <1>2, <1>3, <2>1, KeptIsFinite DEF IsLeast
  <2>2. CASE m \in Kept(i + 1, j)
    BY <1>0, <1>2, <1>4, <2>2, KeptIsFinite DEF IsLeast
  <2>3. ASSUME NEW x \in Kept(i, j), m = x \cup {last}
        PROVE  d <= EditsOf(s, t, m, i + 1, j + 1)
    BY <1>0, <1>2, <1>5, <2>3, KeptIsFinite DEF IsLeast
  <2> QED
    BY <2>1, <2>2, <2>3, LastOrNot
<1>7. \E m \in Kept(i + 1, j + 1) : d = EditsOf(s, t, m, i + 1, j + 1)
  <2>1. CASE d = up + 1
    BY <2>1, <1>3 DEF IsLeast
  <2>2. CASE d = left + 1
    BY <2>2, <1>4 DEF IsLeast
  <2>3. CASE d = corner + cost
    BY <2>3, <1>5 DEF IsLeast
  <2> QED
    BY <1>2, <2>1, <2>2, <2>3
<1> QED
  BY <1>1, <1>6, <1>7 DEF IsLeast, cost

\* The rows of the table of t are functions to naturals.
Rows(t) == [0..Len(t) -> Nat]

IsTheNextRow(row, previous, ch, i, t) ==
    /\ row[0] = i
    /\ \A j \in 1..Len(t) :
          row[j] = Min({previous[j] + 1, row[j - 1] + 1, previous[j - 1] + (IF ch = t[j] THEN 0 ELSE 1)})

LEMMA NextRowIs ==
    ASSUME NEW t, Len(t) \in Nat, NEW previous \in Rows(t), NEW ch, NEW i \in Nat
    PROVE  /\ NextRow(previous, ch, i, t) \in Rows(t)
           /\ IsTheNextRow(NextRow(previous, ch, i, t), previous, ch, i, t)
<1> DEFINE N == Len(t)
           Cell(v, j) == Min({previous[j] + 1, v + 1, previous[j - 1] + (IF ch = t[j] THEN 0 ELSE 1)})
           F == [p \in Nat \X (1..N) |-> Cell(p[1], p[2])]
           RowOf(g) == [j \in 0..N |-> IF j = 0 THEN i ELSE Cell(g[j - 1], j)]
<1>1. ASSUME NEW v \in Nat, NEW j \in 1..N PROVE Cell(v, j) \in Nat
  <2>1. previous[j] \in Nat /\ previous[j - 1] \in Nat
    BY DEF Rows
  <2>2. /\ previous[j] + 1 \in Nat /\ v + 1 \in Nat
        /\ previous[j - 1] + (IF ch = t[j] THEN 0 ELSE 1) \in Nat
    BY <2>1
  <2>3. Cell(v, j) \in {previous[j] + 1, v + 1, previous[j - 1] + (IF ch = t[j] THEN 0 ELSE 1)}
    BY ONLY <2>2, MinOfThree, Zenon
  <2> QED
    BY ONLY <2>2, <2>3
<1> HIDE DEF Cell
<1>2. F \in [Nat \X (1..N) -> Nat]
  BY <1>1
<1>3. \A v \in Nat, j \in 1..N : F[<< v, j >>] = Cell(v, j)
  OBVIOUS
<1> HIDE DEF F
<1>4. PICK g \in [0..N -> Nat] : Recurs(g, N, i, F)
  <2>1. N \in Nat
    OBVIOUS
  <2> HIDE DEF N
  <2> QED
    BY ONLY <1>2, <2>1, i \in Nat, Recursion, Zenon
<1>5. g = RowOf(g)
  <2>1. ASSUME NEW j \in 0..N PROVE g[j] = RowOf(g)[j]
    <3>1. CASE j = 0
      BY <1>4, <3>1 DEF Recurs
    <3>2. CASE j # 0
      <4>1. j \in 1..N /\ g[j - 1] \in Nat
        BY <3>2
      <4>2. g[j] = Cell(g[j - 1], j)
        BY <1>3, <1>4, <4>1 DEF Recurs
      <4> QED
        BY <3>2, <4>2
    <3> QED
      BY <3>1, <3>2
  <2> QED
    BY <2>1
<1>6. PICK row : row = NextRow(previous, ch, i, t)
  OBVIOUS
<1>7. row = RowOf(row)
  <2>1. row = CHOOSE f : f = RowOf(f)
    BY <1>6 DEF NextRow, Cell
  <2> HIDE DEF RowOf
  <2> QED
    BY ONLY <1>5, <2>1, Zenon
<1>8. row[0] = i /\ \A j \in 1..N : row[j] = Cell(row[j - 1], j)
  <2>1. \A j \in 0..N : RowOf(row)[j] = IF j = 0 THEN i ELSE Cell(row[j - 1], j)
    OBVIOUS
  <2> HIDE DEF RowOf
  <2>2. \A j \in 0..N : row[j] = IF j = 0 THEN i ELSE Cell(row[j - 1], j)
    BY ONLY <1>7, <2>1, Zenon
  <2> QED
    BY <2>2
<1>9. \A j \in 0..N : row[j] \in Nat
  <2> DEFINE T == {j \in 0..N : row[j] \notin Nat}
  <2>1. SUFFICES ASSUME T # {} PROVE FALSE
    OBVIOUS
  <2>2. T \subseteq Nat
    OBVIOUS
  <2>3. PICK j \in T : \A k \in T : j <= k
    <3> HIDE DEF T
    <3> QED
      BY ONLY <2>1, <2>2, LeastNatural
  <2>4. j \in 1..N /\ j - 1 \in 0..N /\ j - 1 \notin T
    BY <1>8, <2>3
  <2>5. row[j - 1] \in Nat
    BY <2>4
  <2> QED
    BY <1>1, <1>8, <2>4, <2>5
<1>10. row \in [0..N -> Nat]
  <2>1. row = [j \in 0..N |-> row[j]]
    <3>1. RowOf(row) = [j \in 0..N |-> RowOf(row)[j]]
      OBVIOUS
    <3> HIDE DEF RowOf
    <3> QED
      BY ONLY <1>7, <3>1, Zenon
  <2> QED
    BY <1>9, <2>1
<1> QED
  BY <1>6, <1>8, <1>10 DEF IsTheNextRow, Rows, Cell

\* The table of s against t, row by row.
IsTable(table, s, t) ==
    /\ table[0] = [j \in 0..Len(t) |-> j]
    /\ \A i \in 1..Len(s) : table[i] = NextRow(table[i - 1], s[i], i, t)

LEMMA EditDistanceIsInTable ==
    ASSUME NEW s, NEW t, Len(s) \in Nat, Len(t) \in Nat
    PROVE  \E table \in [0..Len(s) -> Rows(t)] :
              IsTable(table, s, t) /\ EditDistance(s, t) = table[Len(s)][Len(t)]
<1> DEFINE N == Len(s)
           top == [j \in 0..Len(t) |-> j]
           F == [p \in Rows(t) \X (1..N) |-> NextRow(p[1], s[p[2]], p[2], t)]
           TableOf(g) == [i \in 0..N |-> IF i = 0 THEN top ELSE NextRow(g[i - 1], s[i], i, t)]
<1>1. top \in Rows(t)
  BY DEF Rows
<1> HIDE DEF top
<1>2. ASSUME NEW v \in Rows(t), NEW i \in 1..N PROVE NextRow(v, s[i], i, t) \in Rows(t)
  BY NextRowIs
<1>3. F \in [Rows(t) \X (1..N) -> Rows(t)]
  <2> SUFFICES ASSUME NEW p \in Rows(t) \X (1..N) PROVE NextRow(p[1], s[p[2]], p[2], t) \in Rows(t)
    OBVIOUS
  <2> QED
    BY <1>2
<1>4. \A v \in Rows(t), i \in 1..N : F[<< v, i >>] = NextRow(v, s[i], i, t)
  OBVIOUS
<1> HIDE DEF F
<1>5. PICK g \in [0..N -> Rows(t)] : Recurs(g, N, top, F)
  <2>1. N \in Nat
    OBVIOUS
  <2> HIDE DEF N
  <2> QED
    BY ONLY <1>1, <1>3, <2>1, Recursion, Zenon
<1>6. g = TableOf(g)
  <2>1. ASSUME NEW i \in 0..N PROVE g[i] = TableOf(g)[i]
    <3>1. CASE i = 0
      BY <1>5, <3>1 DEF Recurs
    <3>2. CASE i # 0
      <4>1. i \in 1..N /\ g[i - 1] \in Rows(t)
        BY <3>2
      <4>2. g[i] = NextRow(g[i - 1], s[i], i, t)
        BY <1>4, <1>5, <4>1 DEF Recurs
      <4> QED
        BY <3>2, <4>2
    <3> QED
      BY <3>1, <3>2
  <2> QED
    BY <2>1
<1>7. PICK table : table = CHOOSE f : f = TableOf(f)
  OBVIOUS
<1>8. EditDistance(s, t) = table[Len(s)][Len(t)]
  BY <1>7 DEF EditDistance, top
<1>9. table = TableOf(table)
  <2> HIDE DEF TableOf
  <2> QED
    BY ONLY <1>6, <1>7, Zenon
<1>10. \A i \in 0..N : table[i] = IF i = 0 THEN top ELSE NextRow(table[i - 1], s[i], i, t)
  <2>1. \A i \in 0..N : TableOf(table)[i] = IF i = 0 THEN top ELSE NextRow(table[i - 1], s[i], i, t)
    OBVIOUS
  <2> HIDE DEF TableOf
  <2> QED
    BY ONLY <1>9, <2>1, Zenon
<1>11. IsTable(table, s, t)
  <2>1. table[0] = top
    BY <1>10
  <2>2. ASSUME NEW i \in 1..N PROVE table[i] = NextRow(table[i - 1], s[i], i, t)
    <3>1. i \in 0..N /\ i # 0
      OBVIOUS
    <3> QED
      BY ONLY <1>10, <3>1, Zenon
  <2> QED
    BY <2>1, <2>2 DEF IsTable, top
<1>12. \A i \in 0..N : table[i] \in Rows(t)
  <2> DEFINE T == {i \in 0..N : table[i] \notin Rows(t)}
  <2>1. SUFFICES ASSUME T # {} PROVE FALSE
    OBVIOUS
  <2>2. T \subseteq Nat
    OBVIOUS
  <2>3. PICK i \in T : \A k \in T : i <= k
    <3> HIDE DEF T
    <3> QED
      BY ONLY <2>1, <2>2, LeastNatural
  <2>4. i \in 1..N /\ i - 1 \in 0..N /\ i - 1 \notin T
    BY <1>1, <1>10, <2>3
  <2>5. table[i - 1] \in Rows(t)
    BY <2>4
  <2>6. table[i] = NextRow(table[i - 1], s[i], i, t)
    BY <1>11, <2>4 DEF IsTable
  <2> QED
    BY <1>2, <2>4, <2>5, <2>6
<1>13. table \in [0..N -> Rows(t)]
  <2>1. table = [i \in 0..N |-> table[i]]
    <3>1. TableOf(table) = [i \in 0..N |-> TableOf(table)[i]]
      OBVIOUS
    <3> HIDE DEF TableOf
    <3> QED
      BY ONLY <1>9, <3>1, Zenon
  <2> QED
    BY <1>12, <2>1
<1> QED
  BY <1>8, <1>11, <1>13

\* Each cell of the table is the least number of edits of the prefixes.
LEMMA TableIsLeast ==
    ASSUME NEW s, NEW t, Len(s) \in Nat, Len(t) \in Nat,
           NEW table \in [0..Len(s) -> Rows(t)], IsTable(table, s, t)
    PROVE  \A i \in 0..Len(s), j \in 0..Len(t) : IsLeast(s, t, table[i][j], i, j)
<1> DEFINE N == Len(s)
           M == Len(t)
           Bad(i, j) == ~ IsLeast(s, t, table[i][j], i, j)
           T == {k \in Nat : \E i \in 0..N, j \in 0..M : k = i + j /\ Bad(i, j)}
<1>1. SUFFICES ASSUME T # {} PROVE FALSE
  <2>1. \A i \in 0..N, j \in 0..M : i + j \in Nat
    OBVIOUS
  <2>2. \A i \in 0..N, j \in 0..M : ~Bad(i, j)
    BY <1>1, <2>1
  <2> QED
    BY <2>2
<1>2. PICK k \in T : \A l \in T : k <= l
  <2>1. T \subseteq Nat
    OBVIOUS
  <2> HIDE DEF T
  <2> QED
    BY ONLY <1>1, <2>1, LeastNatural
<1>3. PICK i \in 0..N, j \in 0..M : k = i + j /\ Bad(i, j)
  BY <1>2
<1>4. ASSUME NEW x \in 0..N, NEW y \in 0..M, x + y < i + j
      PROVE  IsLeast(s, t, table[x][y], x, y)
  <2>1. x + y \in Nat /\ ~(k <= x + y)
    BY <1>3, <1>4
  <2>2. x + y \notin T
    BY <1>2, <2>1
  <2> QED
    BY <2>1, <2>2
<1> HIDE DEF T
<1>5. \A x \in 0..N, y \in 0..M : table[x][y] \in Nat
  BY DEF Rows
<1>6. \A x \in 1..N : IsTheNextRow(table[x], table[x - 1], s[x], x, t)
  <2> SUFFICES ASSUME NEW x \in 1..N PROVE IsTheNextRow(table[x], table[x - 1], s[x], x, t)
    OBVIOUS
  <2>1. table[x] = NextRow(table[x - 1], s[x], x, t)
    BY DEF IsTable
  <2>2. table[x - 1] \in Rows(t) /\ x \in Nat
    OBVIOUS
  <2> QED
    BY <2>1, <2>2, NextRowIs
<1>7. CASE i = 0
  <2>1. table[i][j] = j /\ i + j = j
    BY <1>7 DEF IsTable
  <2>2. IsLeast(s, t, i + j, i, j)
    BY <1>7, KeptOfNone
  <2> QED
    BY <1>3, <2>1, <2>2
<1>8. CASE i # 0 /\ j = 0
  <2>1. i \in 1..N
    BY <1>8
  <2>2. table[i][j] = i /\ i + j = i
    BY <1>6, <1>8, <2>1 DEF IsTheNextRow
  <2>3. IsLeast(s, t, i + j, i, j)
    <3>1. i \in Nat /\ j \in Nat /\ (i = 0 \/ j = 0)
      BY <1>8
    <3> QED
      BY ONLY <3>1, KeptOfNone
  <2> QED
    BY <1>3, <2>2, <2>3
<1>9. CASE i # 0 /\ j # 0
  <2>1. PICK x \in Nat, y \in Nat : x = i - 1 /\ y = j - 1
    BY <1>9
  <2>2. /\ i = x + 1 /\ j = y + 1 /\ i \in 1..N /\ j \in 1..M
        /\ x \in 0..N /\ y \in 0..M
    BY <1>9, <2>1
  <2>3. /\ IsLeast(s, t, table[x][y + 1], x, y + 1) /\ IsLeast(s, t, table[x + 1][y], x + 1, y)
        /\ IsLeast(s, t, table[x][y], x, y)
    BY <1>4, <2>2
  <2>4. table[x][y + 1] \in Nat /\ table[x + 1][y] \in Nat /\ table[x][y] \in Nat
    BY <1>5, <2>2
  <2>5. table[i][j] = Min({table[x][y + 1] + 1, table[x + 1][y] + 1, table[x][y] + Swap(s, t, x + 1, y + 1)})
    <3>1. table[i][j] = Min({table[i - 1][j] + 1, table[i][j - 1] + 1,
                             table[i - 1][j - 1] + (IF s[i] = t[j] THEN 0 ELSE 1)})
      BY <1>6, <2>2 DEF IsTheNextRow
    <3>2. i - 1 = x /\ j - 1 = y
      BY <2>1
    <3> QED
      BY ONLY <2>2, <3>1, <3>2, Zenon DEF Swap
  <2>6. PICK up \in Nat, left \in Nat, corner \in Nat :
           up = table[x][y + 1] /\ left = table[x + 1][y] /\ corner = table[x][y]
    BY <2>4
  <2>7. IsLeast(s, t, Min({up + 1, left + 1, corner + Swap(s, t, x + 1, y + 1)}), x + 1, y + 1)
    BY <2>3, <2>6, NextIsLeast
  <2>8. IsLeast(s, t, table[i][j], i, j)
    BY ONLY <2>2, <2>5, <2>6, <2>7, Zenon
  <2> QED
    BY <1>3, <2>8
<1> QED
  BY <1>7, <1>8, <1>9

\* edit_distance: for any two texts, its table of two rows ends with the least
\* number of insertions, deletions and replacements between them.
THEOREM EditDistanceIsLeast ==
    ASSUME NEW s, NEW t, Len(s) \in Nat, Len(t) \in Nat, DOMAIN s = 1..Len(s), DOMAIN t = 1..Len(t)
    PROVE  EditDistance(s, t) = LeastEdits(s, t)
<1> DEFINE i == Len(s)
           j == Len(t)
           Cost(m) == Len(s) + Len(t) - 2 * Cardinality(m) + Cardinality({p \in m : s[p[1]] # t[p[2]]})
           costs == {Cost(m) : m \in Alignments(s, t)}
<1>1. IsLeast(s, t, EditDistance(s, t), i, j)
  <2>1. PICK table \in [0..i -> Rows(t)] : IsTable(table, s, t) /\ EditDistance(s, t) = table[i][j]
    BY EditDistanceIsInTable
  <2>2. i \in 0..i /\ j \in 0..j
    OBVIOUS
  <2> QED
    BY <2>1, <2>2, TableIsLeast
<1>2. Alignments(s, t) = Kept(i, j)
  BY DEF Alignments, Kept, Ordered
<1>3. \A m : Cost(m) = EditsOf(s, t, m, i, j)
  BY DEF EditsOf, Changed
<1>4. costs \subseteq Int
  <2>1. ASSUME NEW m \in Alignments(s, t) PROVE Cost(m) \in Int
    <3>1. m \in Kept(i, j)
      BY <1>2
    <3> HIDE DEF Cost
    <3> QED
      BY <1>3, <3>1, KeptIsFinite
  <2> HIDE DEF Cost
  <2> QED
    BY <2>1
<1>5. EditDistance(s, t) \in costs /\ \A c \in costs : EditDistance(s, t) <= c
  <2> HIDE DEF Cost
  <2> QED
    BY <1>1, <1>2, <1>3 DEF IsLeast
<1>6. LeastEdits(s, t) = Min(costs)
  BY DEF LeastEdits
<1> HIDE DEF costs
<1> QED
  BY <1>4, <1>5, <1>6, MinIs

\* Texts are capped to texts.
LEMMA CappedIsText ==
    ASSUME NEW a, IsText(a)
    PROVE  /\ Len(Capped(a)) \in Nat /\ DOMAIN Capped(a) = 1..Len(Capped(a))
           /\ Capped(a) = << >> <=> Len(Capped(a)) = 0
<1>1. a \in Seq(Range(a)) /\ Len(a) \in Nat
  BY DEF IsText
<1>2. PICK k : k = Min({Cap, Len(a)})
  OBVIOUS
<1>3. k \in Nat /\ k <= Len(a)
  <2>1. \E x \in {Cap, Len(a)} : \A y \in {Cap, Len(a)} : x <= y
    BY <1>1, EvalMetricsAssumption
  <2>2. k \in {Cap, Len(a)} /\ \A y \in {Cap, Len(a)} : k <= y
    BY <1>2, <2>1 DEF Min
  <2> QED
    BY <1>1, <2>2, EvalMetricsAssumption
<1>4. Capped(a) = SubSeq(a, 1, k)
  BY <1>2 DEF Capped
<1>5. Capped(a) \in Seq(Range(a))
  BY <1>1, <1>3, <1>4
<1> QED
  BY <1>5, EmptySeq

LEMMA MaxIs ==
    ASSUME NEW S, S \subseteq Int, NEW x \in S, \A y \in S : x >= y
    PROVE  Max(S) = x
<1>1. Max(S) \in S /\ \A y \in S : Max(S) >= y
  BY DEF Max
<1>2. Max(S) <= x /\ x <= Max(S) /\ x \in Int /\ Max(S) \in Int
  BY <1>1
<1> QED
  BY <1>2

LEMMA MaxOfTwo ==
    ASSUME NEW i \in Nat, NEW j \in Nat, ~(i = 0 /\ j = 0)
    PROVE  Max({i, j}) = Max({1, i, j})
<1>1. PICK x \in {i, j} : i <= x /\ j <= x /\ 1 <= x
  <2>1. CASE i <= j
    BY <2>1
  <2>2. CASE j <= i
    BY <2>2
  <2> QED
    BY <2>1, <2>2
<1>2. Max({i, j}) = x
  BY <1>1, MaxIs
<1>3. Max({1, i, j}) = x
  BY <1>1, MaxIs
<1> QED
  BY <1>2, <1>3

LEMMA NormalizedIsLeast ==
    ASSUME NEW a, NEW b, IsText(a), IsText(b)
    PROVE  NormalizedEditDistance(a, b)
             = << LeastEdits(Capped(a), Capped(b)), Max({1, Len(Capped(a)), Len(Capped(b))}) >>
<1>1. PICK s, t : s = Capped(a) /\ t = Capped(b)
  OBVIOUS
<1>2. /\ Len(s) \in Nat /\ DOMAIN s = 1..Len(s) /\ Len(t) \in Nat /\ DOMAIN t = 1..Len(t)
      /\ s = << >> <=> Len(s) = 0
      /\ t = << >> <=> Len(t) = 0
  BY <1>1, CappedIsText
<1>3. EditDistance(s, t) = LeastEdits(s, t)
  BY <1>2, EditDistanceIsLeast
<1>4. NormalizedEditDistance(a, b)
        = IF s = << >> /\ t = << >> THEN << 0, 1 >> ELSE << EditDistance(s, t), Max({Len(s), Len(t)}) >>
  BY <1>1 DEF NormalizedEditDistance
<1>5. CASE Len(s) = 0 /\ Len(t) = 0
  <2>1. EditDistance(s, t) = 0
    <3>1. PICK table \in [0..Len(s) -> Rows(t)] : IsTable(table, s, t) /\ EditDistance(s, t) = table[Len(s)][Len(t)]
      BY <1>2, EditDistanceIsInTable
    <3> QED
      BY <1>5, <3>1 DEF IsTable
  <2>2. Max({1, Len(s), Len(t)}) = 1
    BY <1>5, MaxIs
  <2> QED
    BY <1>1, <1>2, <1>3, <1>4, <1>5, <2>1, <2>2
<1>6. CASE ~(Len(s) = 0 /\ Len(t) = 0)
  <2>1. Max({Len(s), Len(t)}) = Max({1, Len(s), Len(t)})
    BY ONLY <1>2, <1>6, MaxOfTwo, Zenon
  <2> QED
    BY <1>1, <1>2, <1>3, <1>4, <1>6, <2>1
<1> QED
  BY <1>5, <1>6

\* Where the signals are one rewriting for each artifact, the samples of the
\* edits are those of the least numbers of edits.
LEMMA EditsSayWhatTheyMean ==
    ASSUME NEW t, ProperSignals(t.signals), OneRewriteEach(t)
    PROVE  Mean(EditDistances(t)) = Meaning(t).edit_distance
<1> DEFINE least == [i \in Rewrites(t) |->
                LET s == Capped(t.signals[i].source) r == Capped(t.signals[i].revised)
                IN  << LeastEdits(s, r), Max({1, Len(s), Len(r)}) >>]
<1>1. Rewrites(t) = DOMAIN t.signals
  BY DEF OneRewriteEach
<1>2. ASSUME NEW i \in DOMAIN t.signals
      PROVE  NormalizedEditDistance(t.signals[i].source, t.signals[i].revised) = least[i]
  <2>1. NormalizedEditDistance(t.signals[i].source, t.signals[i].revised)
          = << LeastEdits(Capped(t.signals[i].source), Capped(t.signals[i].revised)),
               Max({1, Len(Capped(t.signals[i].source)), Len(Capped(t.signals[i].revised))}) >>
    BY NormalizedIsLeast DEF ProperSignals
  <2> QED
    BY <1>1, <2>1
<1>3. EditDistances(t) = least
  <2> HIDE DEF least
  <2>1. least = [i \in Rewrites(t) |-> least[i]]
    BY DEF least
  <2> QED
    BY <1>1, <1>2, <2>1 DEF EditDistances
<1>4. Meaning(t).edit_distance = Mean(least)
  BY DEF Meaning
<1> QED
  BY <1>3, <1>4

-----------------------------------------------------------------------------
(* EvalMetrics: a latency is how long nothing had been decided *)

\* A finite set has finitely many images.
LEMMA ImageIsFinite ==
    ASSUME NEW f, IsFiniteSet(DOMAIN f), f = [x \in DOMAIN f |-> f[x]]
    PROVE  IsFiniteSet({f[x] : x \in DOMAIN f})
<1> DEFINE T == {f[x] : x \in DOMAIN f}
<1>1. f \in Surjection(DOMAIN f, T)
  <2>1. f \in [DOMAIN f -> T]
    BY Zenon
  <2> QED
    BY <2>1 DEF Surjection
<1> QED
  BY ONLY <1>1, IsFiniteSet(DOMAIN f), FS_Surjection

LEMMA GreatestNatural ==
    ASSUME NEW M, M \subseteq Nat, IsFiniteSet(M), M # {}
    PROVE  \E x \in M : \A y \in M : x >= y
<1> DEFINE Without(U) == ~ \E x \in U : \A y \in U : x >= y
           T == {k \in Nat : \E U \in SUBSET M : U # {} /\ Cardinality(U) = k /\ Without(U)}
<1>1. \A U \in SUBSET M : IsFiniteSet(U) /\ Cardinality(U) \in Nat
  BY FS_Subset, FS_CardinalityType
<1>2. SUFFICES ASSUME T # {} PROVE FALSE
  BY <1>1, <1>2
<1>3. PICK k \in T : \A l \in T : k <= l
  <2>1. T \subseteq Nat
    OBVIOUS
  <2> HIDE DEF T
  <2> QED
    BY ONLY <1>2, <2>1, LeastNatural
<1>4. PICK U \in SUBSET M : U # {} /\ Cardinality(U) = k /\ Without(U)
  BY <1>3
<1>5. PICK u : u \in U
  BY <1>4
<1>6. PICK V : V = U \ {u}
  OBVIOUS
<1>7. IsFiniteSet(V) /\ Cardinality(V) = k - 1 /\ k \in Nat
  BY <1>1, <1>4, <1>5, <1>6, FS_RemoveElement
<1>8. V # {}
  <2> SUFFICES ASSUME V = {} PROVE FALSE
    OBVIOUS
  <2>1. \A y \in U : u >= y
    BY <1>5, <1>6
  <2> QED
    BY <1>4, <1>5, <2>1
<1>9. PICK v \in V : \A y \in V : v >= y
  <2>1. V \in SUBSET M /\ Cardinality(V) \in Nat /\ ~(k <= Cardinality(V))
    <3>1. V \in SUBSET M
      BY <1>6
    <3>2. Cardinality(V) \in Nat
      BY ONLY <1>1, <3>1
    <3> QED
      BY ONLY <1>7, <3>1, <3>2
  <2>2. Cardinality(V) \notin T
    BY <1>3, <2>1
  <2> QED
    BY <1>8, <2>1, <2>2
<1> HIDE DEF T
<1>10. u \in Nat /\ v \in Nat /\ \A y \in U : y \in Nat
  BY <1>5, <1>6
<1>11. CASE v >= u
  <2>1. v \in U /\ \A y \in U : v >= y
    BY <1>6, <1>9, <1>11
  <2> QED
    BY <1>4, <2>1
<1>12. CASE u >= v
  <2>1. u \in U /\ \A y \in U : u >= y
    BY <1>5, <1>6, <1>9, <1>10, <1>12
  <2> QED
    BY <1>4, <2>1
<1> QED
  BY <1>10, <1>11, <1>12

LEMMA WaitedIs ==
    ASSUME NEW since \in Nat, NEW M, M \subseteq Nat, IsFiniteSet(M), M # {}, \A m \in M : since <= m
    PROVE  Waited(since, M) = << Min(M) - since, 1 >>
<1>1. PICK x \in M : \A y \in M : x <= y
  BY LeastNatural
<1>2. PICK z \in M : \A y \in M : z >= y
  BY GreatestNatural
<1>3. Min(M) = x /\ Max(M) = z
  <2>1. M \subseteq Int
    OBVIOUS
  <2>2. Min(M) = x
    BY ONLY <1>1, <2>1, MinIs
  <2>3. Max(M) = z
    BY ONLY <1>2, <2>1, MaxIs
  <2> QED
    BY <2>2, <2>3
<1>4. PICK W : W = {m \in since..Max(M) : \A n \in M : m < n}
  OBVIOUS
<1>5. x \in Nat /\ z \in Nat /\ x <= z /\ since <= x
  BY <1>1, <1>2
<1>6. W = since..(x - 1)
  <2>1. ASSUME NEW m \in since..(x - 1) PROVE m \in W
    <3>1. m \in since..z /\ \A n \in M : m < n
      BY <1>1, <1>5
    <3> QED
      BY <1>3, <1>4, <3>1
  <2>2. ASSUME NEW m \in W PROVE m \in since..(x - 1)
    BY <1>1, <1>3, <1>4, <1>5
  <2> QED
    BY <2>1, <2>2
<1>7. Cardinality(W) = x - since
  <2>1. since \in Int /\ x - 1 \in Int
    BY <1>5
  <2>2. Cardinality(since..(x - 1)) = IF since > x - 1 THEN 0 ELSE x - 1 - since + 1
    BY ONLY <2>1, FS_Interval, Zenon
  <2> QED
    BY <1>5, <1>6, <2>2
<1> QED
  BY <1>3, <1>4, <1>7 DEF Waited

\* The moments of some decisions.
LEMMA MomentsAre ==
    ASSUME NEW found, IsFiniteSet(found), \A r \in found : r.at \in Nat
    PROVE  /\ {r.at : r \in found} \subseteq Nat /\ IsFiniteSet({r.at : r \in found})
           /\ {r.at : r \in found} # {} <=> found # {}
<1> DEFINE f == [r \in found |-> r.at]
<1>1. {r.at : r \in found} = {f[r] : r \in found}
  OBVIOUS
<1>2. f = [r \in DOMAIN f |-> f[r]] /\ DOMAIN f = found
  OBVIOUS
<1>3. {f[r] : r \in DOMAIN f} = {r.at : r \in found}
  BY <1>1, <1>2
<1> HIDE DEF f
<1>4. IsFiniteSet({f[r] : r \in DOMAIN f})
  BY ONLY <1>2, IsFiniteSet(found), ImageIsFinite
<1>5. {r.at : r \in found} \subseteq Nat /\ ({r.at : r \in found} # {} <=> found # {})
  OBVIOUS
<1> QED
  BY <1>3, <1>4, <1>5

LEMMA ApprovalsSayWhatTheyMean ==
    ASSUME NEW t, ProperReviews(t.artifacts, t.approvals)
    PROVE  Mean(ApprovalLatencies(t)) = Meaning(t).approval_latency_seconds
<1> DEFINE Approving(a) == {r \in t.approvals : r.type = "artifact" /\ r.target = a /\ r.decision = "approved"}
           waits == [a \in {b \in DOMAIN t.artifacts : Approvals(t, b) # {}} |->
                       Waited(t.artifacts[a].created, Approvals(t, a))]
<1>1. ASSUME NEW a \in DOMAIN t.artifacts
      PROVE  /\ Approvals(t, a) # {} <=> Approving(a) # {}
             /\ Approving(a) # {} => Waited(t.artifacts[a].created, Approvals(t, a))
                                  = << Min({r.at : r \in Approving(a)}) - t.artifacts[a].created, 1 >>
  <2>1. PICK found : found = Approving(a)
    OBVIOUS
  <2>2. IsFiniteSet(found) /\ \A r \in found : r.at \in Nat
    BY <2>1, FS_Subset DEF ProperReviews
  <2>3. PICK moments : moments = {r.at : r \in found}
    OBVIOUS
  <2>4. moments \subseteq Nat /\ IsFiniteSet(moments) /\ (moments # {} <=> found # {})
    BY <2>2, <2>3, MomentsAre
  <2>5. Approvals(t, a) = moments
    BY <2>1, <2>3 DEF Approvals
  <2>6. t.artifacts[a].created = 0
    BY DEF ProperReviews
  <2>7. ASSUME moments # {} PROVE Waited(0, moments) = << Min(moments) - 0, 1 >>
    <3>1. 0 \in Nat /\ \A m \in moments : 0 <= m
      BY ONLY <2>4
    <3> QED BY ONLY <2>4, <2>7, <3>1, WaitedIs
  <2> QED
    BY <2>1, <2>3, <2>4, <2>5, <2>6, <2>7
<1>2. ApprovalLatencies(t) = waits
  BY <1>1 DEF ApprovalLatencies
<1>3. Meaning(t).approval_latency_seconds = Mean(waits)
  BY DEF Meaning
<1> QED
  BY <1>2, <1>3

LEMMA NoticesSayWhatTheyMean ==
    ASSUME NEW t, ProperReviews(t.artifacts, t.approvals), \A g \in DOMAIN t.notified : t.notified[g] \in Nat
    PROVE  Mean(NotifyLatencies(t)) = Meaning(t).notify_to_decision_latency_seconds
<1> DEFINE Deciding(g) == {r \in t.approvals : r.type = Decides(g) /\ r.at >= t.notified[g]}
           waits == [g \in {h \in DOMAIN t.notified : DecisionsSince(t, h) # {}} |->
                       Waited(t.notified[g], DecisionsSince(t, g))]
<1>1. ASSUME NEW g \in DOMAIN t.notified
      PROVE  /\ DecisionsSince(t, g) # {} <=> Deciding(g) # {}
             /\ Deciding(g) # {} => Waited(t.notified[g], DecisionsSince(t, g))
                                  = << Min({r.at : r \in Deciding(g)}) - t.notified[g], 1 >>
  <2>1. PICK found : found = Deciding(g)
    OBVIOUS
  <2>2. IsFiniteSet(found) /\ \A r \in found : r.at \in Nat /\ r.at >= t.notified[g]
    BY <2>1, FS_Subset DEF ProperReviews
  <2>3. PICK moments : moments = {r.at : r \in found}
    OBVIOUS
  <2>4. moments \subseteq Nat /\ IsFiniteSet(moments) /\ (moments # {} <=> found # {})
    BY <2>2, <2>3, MomentsAre
  <2>5. DecisionsSince(t, g) = moments
    BY <2>1, <2>3 DEF DecisionsSince
  <2>6. t.notified[g] \in Nat /\ \A m \in moments : t.notified[g] <= m
    BY <2>2, <2>3
  <2>7. ASSUME moments # {} PROVE Waited(t.notified[g], moments) = << Min(moments) - t.notified[g], 1 >>
    BY ONLY <2>4, <2>6, <2>7, WaitedIs
  <2> QED
    BY <2>1, <2>3, <2>4, <2>5, <2>7
<1>2. NotifyLatencies(t) = waits
  BY <1>1 DEF NotifyLatencies
<1>3. Meaning(t).notify_to_decision_latency_seconds = Mean(waits)
  BY DEF Meaning
<1> QED
  BY <1>2, <1>3

-----------------------------------------------------------------------------
(* EvalMetrics: the rows that are added up are the standing reports *)

\* Among reports of one artifact there is one fresher than any other.
IsFreshest(r, reports) == r \in reports /\ \A s \in reports : s # r => Fresher(r, s)

LEMMA FreshestExists ==
    ASSUME NEW reports, ProperReports(reports), NEW group, group \subseteq reports, group # {},
           \A r, s \in group : r.artifact = s.artifact
    PROVE  \E r \in group : IsFreshest(r, group)
<1> DEFINE Without(U) == ~ \E r \in U : IsFreshest(r, U)
           T == {k \in Nat : \E U \in SUBSET group : U # {} /\ Cardinality(U) = k /\ Without(U)}
<1>1. \A U \in SUBSET group : IsFiniteSet(U) /\ Cardinality(U) \in Nat
  <2>1. IsFiniteSet(group)
    BY FS_Subset DEF ProperReports
  <2> QED
    BY <2>1, FS_Subset, FS_CardinalityType
<1>2. SUFFICES ASSUME T # {} PROVE FALSE
  BY <1>1, <1>2
<1>3. PICK k \in T : \A l \in T : k <= l
  <2>1. T \subseteq Nat
    OBVIOUS
  <2> HIDE DEF T
  <2> QED
    BY ONLY <1>2, <2>1, LeastNatural
<1>4. PICK U \in SUBSET group : U # {} /\ Cardinality(U) = k /\ Without(U)
  BY <1>3
<1>5. PICK u : u \in U
  BY <1>4
<1>6. PICK V : V = U \ {u}
  OBVIOUS
<1>7. IsFiniteSet(V) /\ Cardinality(V) = k - 1 /\ k \in Nat
  BY <1>1, <1>4, <1>5, <1>6, FS_RemoveElement
<1>8. V # {}
  <2> SUFFICES ASSUME V = {} PROVE FALSE
    OBVIOUS
  <2>1. IsFreshest(u, U)
    BY <1>5, <1>6 DEF IsFreshest
  <2> QED
    BY <1>4, <1>5, <2>1
<1>9. PICK v \in V : IsFreshest(v, V)
  <2>1. V \in SUBSET group /\ Cardinality(V) \in Nat /\ ~(k <= Cardinality(V))
    BY <1>1, <1>4, <1>6, <1>7
  <2>2. Cardinality(V) \notin T
    BY <1>3, <2>1
  <2> QED
    BY <1>8, <2>1, <2>2
<1> HIDE DEF T
<1>10. \A r \in U : r.as_of \in Nat /\ r.created \in Nat
  BY DEF ProperReports
<1>11. Fresher(u, v) \/ Fresher(v, u)
  <2>1. u # v /\ u \in U /\ v \in U /\ u.artifact = v.artifact
    BY <1>5, <1>6
  <2>2. u.as_of # v.as_of \/ u.created # v.created
    BY <2>1 DEF ProperReports
  <2> QED
    BY <1>10, <2>1, <2>2 DEF Fresher
<1>12. CASE Fresher(v, u)
  <2>1. IsFreshest(v, U)
    BY <1>5, <1>6, <1>9, <1>12 DEF IsFreshest
  <2> QED
    BY <1>4, <1>6, <2>1
<1>13. CASE Fresher(u, v)
  <2>1. ASSUME NEW s \in U, s # u PROVE Fresher(u, s)
    <3>1. CASE s = v
      BY <1>13, <3>1
    <3>2. CASE s # v
      <4>1. Fresher(v, s)
        BY <1>6, <1>9, <2>1, <3>2 DEF IsFreshest
      <4> QED
        BY <1>5, <1>6, <1>10, <1>13, <4>1 DEF Fresher
    <3> QED
      BY <3>1, <3>2
  <2>2. IsFreshest(u, U)
    BY <1>5, <2>1 DEF IsFreshest
  <2> QED
    BY <1>4, <1>5, <2>2
<1> QED
  BY <1>11, <1>12, <1>13

\* It is the standing one.
LEMMA StandingIs ==
    ASSUME NEW t, ProperReports(t.engagement), NEW group, NEW r \in group,
           group = {s \in t.engagement : s.artifact = r.artifact}, IsFreshest(r, group)
    PROVE  Standing(t, r.artifact) = r
<1> DEFINE Stands(x) == x.artifact = r.artifact /\ \A s \in t.engagement : s.artifact = r.artifact => ~Fresher(s, x)
<1>1. \A s \in t.engagement : s.as_of \in Nat /\ s.created \in Nat
  BY DEF ProperReports
<1>2. r \in t.engagement /\ Stands(r)
  BY <1>1 DEF IsFreshest, Fresher
<1>3. \A x \in t.engagement : Stands(x) => x = r
  BY DEF IsFreshest
<1>4. Standing(t, r.artifact) = CHOOSE x \in t.engagement : Stands(x)
  BY DEF Standing
<1> HIDE DEF Stands
<1> QED
  BY <1>2, <1>3, <1>4

\* AuroraEngagementReader.totals: however often reports were corrected, the rows it
\* adds up are the standing report of each artifact that has any, once.
THEOREM EngagementSaysWhatItMeans ==
    ASSUME NEW t, ProperReports(t.engagement)
    PROVE  Engagement(t) = Meaning(t).engagement_total
<1> DEFINE latest == {r \in t.engagement : \A s \in t.engagement : s.artifact = r.artifact /\ s # r => Fresher(r, s)}
           standing == {Standing(t, a) : a \in Reported(t)}
           Of(a) == {s \in t.engagement : s.artifact = a}
<1>1. ASSUME NEW r \in latest PROVE r \in standing
  <2>1. IsFreshest(r, Of(r.artifact))
    BY DEF IsFreshest
  <2>2. r \in Of(r.artifact) /\ r.artifact \in Reported(t)
    BY DEF Reported
  <2>3. Standing(t, r.artifact) = r
    BY <2>1, <2>2, StandingIs
  <2> QED
    BY <2>2, <2>3
<1>2. ASSUME NEW a \in Reported(t) PROVE Standing(t, a) \in latest
  <2>1. PICK group : group = Of(a)
    OBVIOUS
  <2>2. group \subseteq t.engagement /\ group # {} /\ \A r, s \in group : r.artifact = s.artifact
    BY <2>1 DEF Reported
  <2>3. PICK r \in group : IsFreshest(r, group)
    BY <2>2, FreshestExists
  <2>4. r.artifact = a
    BY <2>1
  <2>5. Standing(t, a) = r
    BY <2>1, <2>3, <2>4, StandingIs
  <2> QED
    BY <2>1, <2>3, <2>4, <2>5 DEF IsFreshest
<1>3. latest = standing
  BY <1>1, <1>2
<1>4. latest = {} <=> t.engagement = {}
  <2>1. ASSUME NEW r \in t.engagement PROVE latest # {}
    <3>1. r.artifact \in Reported(t)
      BY DEF Reported
    <3> QED
      BY <1>2, <3>1
  <2> QED
    BY <2>1
<1>5. Engagement(t) = IF latest = {} THEN Nothing ELSE Total(latest)
  BY DEF Engagement
<1>6. Meaning(t).engagement_total = IF t.engagement = {} THEN Nothing ELSE Total(standing)
  BY DEF Meaning
<1> HIDE DEF latest, standing
<1> QED
  BY <1>3, <1>4, <1>5, <1>6

\* A finite set can be put in a sequence.
LEMMA SetToSeqIs ==
    ASSUME NEW S, IsFiniteSet(S)
    PROVE  SetToSeq(S) \in Seq(S)
<1>1. Cardinality(S) \in Nat /\ ExistsBijection(1..Cardinality(S), S)
  BY FS_CardinalityType
<1>2. PICK f : f \in Bijection(1..Cardinality(S), S)
  BY <1>1 DEF ExistsBijection
<1>3. f \in [1..Cardinality(S) -> S] /\ IsInjective(f)
  BY <1>2 DEF Bijection, Injection, IsInjective
<1>4. SetToSeq(S) \in [1..Cardinality(S) -> S]
  BY <1>3 DEF SetToSeq
<1> QED
  BY <1>1, <1>4

-----------------------------------------------------------------------------
(* Evaluation: the inductive invariant *)

JobFields == {"at", "inputs", "seen", "metrics", "meant", "todo", "text", "answer"}
Judging == {"call", "put", "score"}
Places == {"idle", "read", "record", "list", "ask", "done", "failed"} \cup Judging

\* The scores of texts, among the rows of an evaluation.
Rubric(r) == r.type = "rubric"

\* The first n statements.
Asked(n) == {Statements[i] : i \in 1..n}

\* What the statements answer for tables.
Answers(t) == [name \in ToSet(Statements) |-> Select(t, name)]

\* An evaluation has recorded nothing before its metrics, no score before it
\* lists the texts, and none of a text it still has to ask about.
RecordsOnce(e) ==
    /\ job[e].at \in {"idle", "read", "record"} => \A r \in evals : r.by # e
    /\ job[e].at = "list" => \A r \in evals : r.by = e => ~Rubric(r)
    /\ \A r \in evals : \A u \in job[e].todo : r.by = e /\ Rubric(r) => r.text.artifact # u.artifact

\* The texts it has to ask about are of different artifacts of the run; the one
\* it asks about is the first of them.
AsksAboutTodo(e) ==
    /\ \A u \in job[e].todo : u.artifact \in DOMAIN tables.artifacts
    /\ \A u, v \in job[e].todo : u.artifact = v.artifact => u = v
    /\ job[e].at \in Judging => job[e].text \in job[e].todo

\* The answer it holds is of the text it asks about, and the one that is kept.
AnswerIsKept(e) ==
    /\ job[e].at = "put" => IdempotencyKey(job[e].answer.of) = IdempotencyKey(job[e].text)
    /\ job[e].at = "score" =>
          /\ IdempotencyKey(job[e].text) \in DOMAIN cache
          /\ job[e].answer = cache[IdempotencyKey(job[e].text)]

\* While it reads and no write comes, its statements answer for the tables as
\* they are; what it takes for the meaning of its metrics is of some tables
\* its statements all answered for.
ReadsOneState(e) ==
    /\ job[e].at = "read" =>
          /\ job[e].seen \in Nat /\ job[e].seen <= writes
          /\ \E n \in 0..13 : DOMAIN job[e].inputs = Asked(n)
          /\ job[e].seen = writes =>
                \A name \in DOMAIN job[e].inputs : job[e].inputs[name] = Select(tables, name)
    /\ job[e].at = "record" =>
          \/ job[e].meant = << >>
          \/ \E t : ProperTables(t) /\ job[e].meant = Meant(t) /\ job[e].metrics = ProductMetrics(Answers(t))

JobInv(e) ==
    /\ DOMAIN job[e] = JobFields
    /\ job[e].at \in Places
    /\ RecordsOnce(e)
    /\ AsksAboutTodo(e)
    /\ AnswerIsKept(e)
    /\ ReadsOneState(e)

CacheTells == \A key \in DOMAIN cache : IdempotencyKey(cache[key].of) = key

\* A metric and its meaning are of the same tables.
OfOneState(r) ==
    \A m \in r.meant : \E t :
        /\ ProperTables(t) /\ r.type \in DOMAIN Meant(t)
        /\ m = Meant(t)[r.type] /\ r.score = ProductMetrics(Answers(t))[r.type]

\* A row of a score says what the kept answer for its text says.
RowInv(r) ==
    /\ r.by \in Jobs
    /\ ~Rubric(r) => r.type \in ToSet(MetricNames) /\ OfOneState(r)
    /\ Rubric(r) =>
          /\ r.score \in Scores
          /\ r.text.artifact \in DOMAIN tables.artifacts
          /\ IdempotencyKey(r.text) \in DOMAIN cache
          /\ r.score = cache[IdempotencyKey(r.text)].verdict
          /\ IdempotencyKey(r.of) = IdempotencyKey(r.text)

NothingTwice ==
    \A r, s \in evals : r.by = s.by /\ r.type = s.type /\ r # s =>
        Rubric(r) /\ r.text.artifact # s.text.artifact

\* No report was made later than now.
ReportsAreOld(reports, now) == \A r \in reports : r.created <= now

EvaluationIInv ==
    /\ ProperTables(tables) /\ writes \in Nat
    /\ ReportsAreOld(tables.engagement, writes)
    /\ job = [e \in Jobs |-> job[e]]
    /\ \A e \in Jobs : JobInv(e)
    /\ CacheTells
    /\ \A r \in evals : RowInv(r)
    /\ NothingTwice

-----------------------------------------------------------------------------
(* Evaluation: it is inductive *)

LEMMA MetricNamesAre ==
    /\ DOMAIN MetricNames = 1..9 /\ Len(MetricNames) = 9
    /\ \A i \in 1..9 : MetricNames[i] # "rubric"
    /\ "rubric" \notin ToSet(MetricNames)
    /\ \A i \in 1..9 : MetricNames[i] \in ToSet(MetricNames)
<1>1. DOMAIN MetricNames = 1..9 /\ Len(MetricNames) = 9 /\ \A i \in 1..9 : MetricNames[i] # "rubric"
  BY DEF MetricNames
<1>2. ToSet(MetricNames) = {MetricNames[i] : i \in 1..9}
  BY <1>1 DEF ToSet
<1> QED
  BY <1>1, <1>2

\* An evaluation that has nothing in hand.
LEMMA IdleIs ==
    /\ DOMAIN Idle = JobFields
    /\ Idle.at = "idle" /\ Idle.todo = {} /\ Idle.inputs = << >>
BY DEF Idle, JobFields

LEMMA StatementsAre ==
    /\ DOMAIN Statements = 1..14 /\ Len(Statements) = 14
    /\ \A i, j \in 1..14 : Statements[i] = Statements[j] => i = j
BY DEF Statements

LEMMA UpTo ==
    ASSUME NEW n \in Nat
    PROVE  IsFiniteSet(1..n) /\ Cardinality(1..n) = n
<1>1. 1 \in Int /\ n \in Int
  OBVIOUS
<1>2. IsFiniteSet(1..n) /\ Cardinality(1..n) = IF 1 > n THEN 0 ELSE n - 1 + 1
  BY ONLY <1>1, FS_Interval, Zenon
<1> QED
  BY <1>2

\* What has been read after n statements.
LEMMA StatementsCount ==
    ASSUME NEW n \in 0..14
    PROVE  Cardinality(Asked(n)) = n
<1> DEFINE f == [i \in 1..n |-> Statements[i]]
<1>1. f \in Bijection(1..n, Asked(n))
  <2>1. f \in [1..n -> Asked(n)]
    BY DEF Asked
  <2>2. \A i, j \in 1..n : f[i] = f[j] => i = j
    BY StatementsAre
  <2>3. \A s \in Asked(n) : \E i \in 1..n : f[i] = s
    BY DEF Asked
  <2> QED
    BY <2>1, <2>2, <2>3 DEF Bijection, Injection, Surjection, IsInjective
<1>2. IsFiniteSet(1..n) /\ Cardinality(1..n) = n
  BY UpTo
<1>3. ExistsBijection(1..n, Asked(n))
  BY <1>1 DEF ExistsBijection
<1> QED
  BY <1>2, <1>3, FS_Bijection

\* A claim is counted once, however many links it has.
LEMMA EvidenceIsCountedOnce ==
    ASSUME NEW t, ProperTables(t)
    PROVE  WithEvidence(t) = Cardinality({c \in t.claims : c.links # {}})
<1> DEFINE joined == {p \in t.claims \X UNION {c.links : c \in t.claims} : p[2] \in p[1].links}
           ids == {p[1].id : p \in joined}
           linked == {c \in t.claims : c.links # {}}
           id == [c \in linked |-> c.id]
<1>1. \A p \in joined : p[1] \in linked
  OBVIOUS
<1>2. \A c \in linked : \E p \in joined : p[1] = c
  <2> SUFFICES ASSUME NEW c \in linked PROVE \E p \in joined : p[1] = c
    OBVIOUS
  <2>1. PICK l : l \in c.links
    OBVIOUS
  <2>2. << c, l >> \in joined
    BY <2>1
  <2> QED
    BY <2>2
<1> HIDE DEF joined
<1>3. id \in Bijection(linked, ids)
  <2>1. id \in [linked -> ids]
    BY <1>2
  <2>2. \A c, d \in linked : id[c] = id[d] => c = d
    BY DEF ProperTables, ProperClaims
  <2>3. \A i \in ids : \E c \in linked : id[c] = i
    BY <1>1
  <2> QED
    BY <2>1, <2>2, <2>3 DEF Bijection, Injection, Surjection, IsInjective
<1>4. IsFiniteSet(linked)
  BY FS_Subset DEF ProperTables, ProperClaims
<1>5. ExistsBijection(linked, ids)
  BY <1>3 DEF ExistsBijection
<1>6. WithEvidence(t) = Cardinality(ids)
  BY DEF WithEvidence, joined
<1> HIDE DEF linked, ids
<1>7. Cardinality(ids) = Cardinality(linked)
  BY <1>4, <1>5, FS_Bijection
<1> QED
  BY <1>6, <1>7 DEF linked

LEMMA RateIsShare ==
    ASSUME NEW part, NEW whole, IsFiniteSet(whole)
    PROVE  Rate(Cardinality(part), Cardinality(whole)) = Share(part, whole)
BY FS_EmptySet DEF Rate, Share

LEMMA AnswersAre ==
    ASSUME NEW t
    PROVE  /\ Answers(t).total_claims = Cardinality(t.claims)
           /\ Answers(t).claims_with_evidence = WithEvidence(t)
           /\ Answers(t).unsupported_claims =
                 Cardinality({c \in t.claims : c.support = "unsupported" \/ c.risk = "high"})
           /\ Answers(t).total_features = Cardinality(DOMAIN t.features)
           /\ Answers(t).rejected_features = Count(t.features, {"rejected"})
           /\ Answers(t).total_skill_candidates = Cardinality(DOMAIN t.candidates)
           /\ Answers(t).accepted_skill_candidates = Count(t.candidates, {"approved", "promoted"})
           /\ Answers(t).total_media = Cardinality(DOMAIN t.media)
           /\ Answers(t).ready_media = Count(t.media, {"ready"})
           /\ Answers(t).edit_distances = EditDistances(t)
           /\ Answers(t).approval_latencies = ApprovalLatencies(t)
           /\ Answers(t).notify_latencies = NotifyLatencies(t)
           /\ Answers(t).demo_script_selected = t.selected
           /\ Answers(t).engagement = Engagement(t)
<1>1. ToSet(Statements) = Asked(14)
  BY StatementsAre DEF ToSet, Asked
<1>2. /\ Statements[1] = "total_claims" /\ Statements[2] = "claims_with_evidence"
      /\ Statements[3] = "unsupported_claims" /\ Statements[4] = "total_features"
      /\ Statements[5] = "rejected_features" /\ Statements[6] = "total_skill_candidates"
      /\ Statements[7] = "accepted_skill_candidates" /\ Statements[8] = "total_media"
      /\ Statements[9] = "ready_media" /\ Statements[10] = "edit_distances"
      /\ Statements[11] = "approval_latencies" /\ Statements[12] = "notify_latencies"
      /\ Statements[13] = "demo_script_selected" /\ Statements[14] = "engagement"
  BY DEF Statements
<1>3. {"total_claims", "claims_with_evidence", "unsupported_claims", "total_features",
       "rejected_features", "total_skill_candidates", "accepted_skill_candidates", "total_media",
       "ready_media", "edit_distances", "approval_latencies", "notify_latencies",
       "demo_script_selected", "engagement"} \subseteq ToSet(Statements)
  <2>1. \A i \in 1..14 : Statements[i] \in ToSet(Statements)
    BY <1>1 DEF Asked
  <2> QED
    BY <1>2, <2>1
<1>4. \A name \in ToSet(Statements) : Answers(t)[name] = Select(t, name)
  BY DEF Answers
<1> QED
  BY <1>3, <1>4 DEF Select

\* compute_product_metrics, given what its statements answer in one state of the
\* tables, whatever is in them: each metric is what it stands for.
THEOREM MetricsSayWhatTheyMean ==
    ASSUME NEW t, ProperTables(t), NEW type \in DOMAIN Meant(t)
    PROVE  ProductMetrics(Answers(t))[type] = Meant(t)[type]
<1>1. IsFiniteSet(t.claims) /\ IsFiniteSet(DOMAIN t.features) /\ IsFiniteSet(DOMAIN t.candidates)
      /\ IsFiniteSet(DOMAIN t.media)
  <2>1. DOMAIN t.media = 1..Len(t.media) /\ Len(t.media) \in Nat
    BY DEF ProperTables
  <2> QED
    BY <2>1, UpTo DEF ProperTables, ProperClaims
<1>2. Rate(WithEvidence(t), Cardinality(t.claims)) = Share({c \in t.claims : c.links # {}}, t.claims)
  BY <1>1, EvidenceIsCountedOnce, RateIsShare
<1>3. Rate(Cardinality({c \in t.claims : c.support = "unsupported" \/ c.risk = "high"}), Cardinality(t.claims))
        = Share({c \in t.claims : ~(c.support = "supported" /\ c.risk # "high")}, t.claims)
  <2>1. {c \in t.claims : c.support = "unsupported" \/ c.risk = "high"}
          = {c \in t.claims : ~(c.support = "supported" /\ c.risk # "high")}
    BY DEF ProperTables, ProperClaims
  <2> QED
    BY <1>1, <2>1, RateIsShare
<1>4. Rate(Count(t.features, {"rejected"}), Cardinality(DOMAIN t.features))
        = Share({f \in DOMAIN t.features : t.features[f] = "rejected"}, DOMAIN t.features)
  <2>1. Count(t.features, {"rejected"}) = Cardinality({f \in DOMAIN t.features : t.features[f] = "rejected"})
    BY DEF Count
  <2> QED
    BY <1>1, <2>1, RateIsShare
<1>5. Rate(Count(t.media, {"ready"}), Cardinality(DOMAIN t.media))
        = Share({m \in DOMAIN t.media : t.media[m] = "ready"}, DOMAIN t.media)
  <2>1. Count(t.media, {"ready"}) = Cardinality({m \in DOMAIN t.media : t.media[m] = "ready"})
    BY DEF Count
  <2> QED
    BY <1>1, <2>1, RateIsShare
<1>6. Rate(Count(t.candidates, {"approved", "promoted"}), Cardinality(DOMAIN t.candidates))
        = Share({c \in DOMAIN t.candidates : t.candidates[c] = "approved" \/ t.candidates[c] = "promoted"},
                DOMAIN t.candidates)
  <2>1. Count(t.candidates, {"approved", "promoted"})
          = Cardinality({c \in DOMAIN t.candidates : t.candidates[c] = "approved" \/ t.candidates[c] = "promoted"})
    BY DEF Count
  <2> QED
    BY <1>1, <2>1, RateIsShare
<1>7. /\ Mean(ApprovalLatencies(t)) = Meaning(t).approval_latency_seconds
      /\ Mean(NotifyLatencies(t)) = Meaning(t).notify_to_decision_latency_seconds
      /\ Engagement(t) = Meaning(t).engagement_total
  BY ApprovalsSayWhatTheyMean, NoticesSayWhatTheyMean, EngagementSaysWhatItMeans DEF ProperTables
<1>8. type \in DOMAIN Meaning(t) /\ Meant(t)[type] = Meaning(t)[type]
      /\ (type = "edit_distance" => OneRewriteEach(t))
  BY DEF Meant
<1>9. ProductMetrics(Answers(t))[type] = Meaning(t)[type]
  <2>1. CASE type = "evidence_coverage"
    BY <2>1, <1>2, AnswersAre DEF ProductMetrics, Meaning
  <2>2. CASE type = "unsupported_claim_rate"
    BY <2>2, <1>3, AnswersAre DEF ProductMetrics, Meaning
  <2>3. CASE type = "feature_rejection_rate"
    BY <2>3, <1>4, AnswersAre DEF ProductMetrics, Meaning
  <2>4. CASE type = "media_success_rate"
    BY <2>4, <1>5, AnswersAre DEF ProductMetrics, Meaning
  <2>5. CASE type = "edit_distance"
    <3>1. Mean(EditDistances(t)) = Meaning(t).edit_distance
      BY <2>5, <1>8, EditsSayWhatTheyMean DEF ProperTables
    <3> QED
      BY <2>5, <3>1, AnswersAre DEF ProductMetrics
  <2>6. CASE type = "engagement_total"
    BY <2>6, <1>7, AnswersAre DEF ProductMetrics
  <2>7. CASE type = "approval_latency_seconds"
    BY <2>7, <1>7, AnswersAre DEF ProductMetrics
  <2>8. CASE type = "notify_to_decision_latency_seconds"
    BY <2>8, <1>7, AnswersAre DEF ProductMetrics
  <2>9. CASE type = "skill_candidate_acceptance_rate"
    BY <2>9, <1>6, AnswersAre DEF ProductMetrics, Meaning
  <2> QED
    BY <2>1, <2>2, <2>3, <2>4, <2>5, <2>6, <2>7, <2>8, <2>9, <1>8 DEF Meaning
<1> QED
  BY <1>8, <1>9

\* What is kept stays kept, by the first key it was kept under.
CacheGrows == \A key \in DOMAIN cache : key \in DOMAIN cache' /\ cache'[key] = cache[key]

\* Every write to the tables counts.
WritesCount == UNCHANGED << tables, writes >> \/ writes' = writes + 1

\* An evaluation is as it was, whatever the others record and keep, and whatever
\* is written to the tables.
LEMMA OthersStay ==
    ASSUME NEW f \in Jobs, JobInv(f), job'[f] = job[f], CacheGrows, writes \in Nat, WritesCount,
           \A r \in evals' : r \in evals \/ r.by # f,
           DOMAIN tables'.artifacts = DOMAIN tables.artifacts
    PROVE  JobInv(f)'
<1>1. RecordsOnce(f)'
  BY DEF JobInv, RecordsOnce, Rubric
<1>2. AsksAboutTodo(f)'
  BY DEF JobInv, AsksAboutTodo
<1>3. AnswerIsKept(f)'
  BY DEF JobInv, AnswerIsKept, CacheGrows, IdempotencyKey
<1>4. ReadsOneState(f)'
  <2>1. CASE UNCHANGED << tables, writes >>
    BY <2>1 DEF JobInv, ReadsOneState
  <2>2. CASE writes' = writes + 1
    BY <2>2 DEF JobInv, ReadsOneState
  <2> QED
    BY <2>1, <2>2 DEF WritesCount
<1> QED
  BY <1>1, <1>2, <1>3, <1>4 DEF JobInv

LEMMA RowStays ==
    ASSUME NEW r, RowInv(r), CacheGrows, DOMAIN tables'.artifacts = DOMAIN tables.artifacts
    PROVE  RowInv(r)'
BY DEF RowInv, CacheGrows, IdempotencyKey, Rubric

\* A step of one evaluation has to leave that one, and the rows it adds, right.
LEMMA OneMoves ==
    ASSUME EvaluationIInv, NEW e \in Jobs, UNCHANGED << tables, writes >>,
           job' = [job EXCEPT ![e] = job'[e]], JobInv(e)',
           CacheGrows, CacheTells', evals \subseteq evals',
           \A r \in evals' \ evals : r.by = e /\ RowInv(r)',
           \A r \in evals' \ evals : \A s \in evals' :
              s.by = e /\ r.type = s.type /\ r # s => Rubric(r) /\ r.text.artifact # s.text.artifact
    PROVE  EvaluationIInv'
<1>1. /\ job' = [f \in Jobs |-> job'[f]]
      /\ \A f \in Jobs \ {e} : job'[f] = job[f]
  BY DEF EvaluationIInv
<1>2. \A f \in Jobs : JobInv(f)'
  <2> SUFFICES ASSUME NEW f \in Jobs, f # e
               PROVE  JobInv(f)'
    OBVIOUS
  <2>1. JobInv(f) /\ job'[f] = job[f]
    BY <1>1 DEF EvaluationIInv
  <2> QED
    BY <2>1, OthersStay DEF EvaluationIInv, WritesCount
<1>3. \A r \in evals' : RowInv(r)'
  <2> SUFFICES ASSUME NEW r \in evals
               PROVE  RowInv(r)'
    OBVIOUS
  <2>1. RowInv(r)
    BY DEF EvaluationIInv
  <2> QED
    BY <2>1, RowStays
<1>4. NothingTwice'
  <2> SUFFICES ASSUME NEW r \in evals', NEW s \in evals', r.by = s.by, r.type = s.type, r # s
               PROVE  Rubric(r) /\ r.text.artifact # s.text.artifact
    BY DEF NothingTwice, Rubric
  <2>1. CASE r \in evals' \ evals
    BY <2>1
  <2>2. CASE s \in evals' \ evals
    BY <2>2 DEF Rubric
  <2>3. CASE r \in evals /\ s \in evals
    BY <2>3 DEF EvaluationIInv, NothingTwice
  <2> QED
    BY <2>1, <2>2, <2>3
<1>5. ProperTables(tables)' /\ ReportsAreOld(tables.engagement, writes)' /\ writes' \in Nat
  BY DEF EvaluationIInv
<1> QED
  BY <1>1, <1>2, <1>3, <1>4, <1>5 DEF EvaluationIInv

\* In particular one that neither records nor keeps anything.
LEMMA MovesAlone ==
    ASSUME EvaluationIInv, NEW e \in Jobs, UNCHANGED << tables, cache, evals, writes >>,
           job' = [job EXCEPT ![e] = job'[e]], JobInv(e)'
    PROVE  EvaluationIInv'
<1>1. CacheGrows /\ CacheTells'
  BY DEF EvaluationIInv, CacheGrows, CacheTells
<1> QED
  BY <1>1, OneMoves

\* An evaluation without texts to ask about is right if it has not recorded
\* what it is about to record.
LEMMA NothingInHand ==
    ASSUME NEW e \in Jobs, DOMAIN job'[e] = JobFields, job'[e].todo = {},
           job'[e].at \in Places \ Judging,
           job'[e].at \in {"idle", "read", "record"} => \A r \in evals' : r.by # e,
           job'[e].at = "list" => \A r \in evals' : r.by = e => ~Rubric(r),
           job'[e].at \in {"read", "record"} => ReadsOneState(e)'
    PROVE  JobInv(e)'
BY DEF JobInv, RecordsOnce, AsksAboutTodo, AnswerIsKept, ReadsOneState, Rubric, Judging

\* What a step writes to the evaluation's own record.
LEMMA Moved ==
    ASSUME EvaluationIInv, NEW e \in Jobs, NEW j, job' = [job EXCEPT ![e] = j]
    PROVE  job' = [job EXCEPT ![e] = job'[e]] /\ job'[e] = j
BY DEF EvaluationIInv

LEMMA StartStep ==
    ASSUME EvaluationIInv, NEW e \in Jobs, Start(e)
    PROVE  EvaluationIInv'
<1> DEFINE j == [Idle EXCEPT !.at = "read", !.seen = writes]
<1>1. job' = [job EXCEPT ![e] = job'[e]] /\ job'[e] = j
  BY Moved DEF Start
<1>2. DOMAIN j = JobFields /\ j.at = "read" /\ j.todo = {} /\ j.inputs = << >> /\ j.seen = writes
  BY IdleIs DEF JobFields
<1>3. UNCHANGED << tables, cache, evals, writes >> /\ writes \in Nat /\ \A r \in evals : r.by # e
  BY DEF Start, At, EvaluationIInv, JobInv, RecordsOnce
<1>4. ReadsOneState(e)'
  <2>1. Asked(0) = {} /\ 0 \in 0..13
    BY DEF Asked
  <2>2. /\ job'[e].at = "read" /\ job'[e].seen = writes' /\ writes' \in Nat
        /\ DOMAIN job'[e].inputs = Asked(0)
    <3> HIDE DEF j
    <3> QED
      BY <1>1, <1>2, <1>3, <2>1
  <2> QED
    BY <2>1, <2>2 DEF ReadsOneState
<1>5. JobInv(e)'
  BY <1>1, <1>2, <1>3, <1>4, NothingInHand DEF Places, Judging
<1> QED
  BY <1>1, <1>3, <1>5, MovesAlone

\* What has been read with the next statement, and with the last.
LEMMA NextStatement ==
    ASSUME NEW inputs, NEW n \in 0..13, DOMAIN inputs = Asked(n), NEW value
    PROVE  /\ Cardinality(DOMAIN inputs) = n
           /\ DOMAIN With(inputs, Statements[n + 1], value) = Asked(n + 1)
           /\ With(inputs, Statements[n + 1], value)[Statements[n + 1]] = value
           /\ \A name \in DOMAIN inputs : With(inputs, Statements[n + 1], value)[name] = inputs[name]
<1>1. Cardinality(DOMAIN inputs) = n
  BY StatementsCount
<1>2. DOMAIN With(inputs, Statements[n + 1], value) = DOMAIN inputs \cup {Statements[n + 1]}
  BY DEF With
<1>3. Asked(n + 1) = Asked(n) \cup {Statements[n + 1]}
  <2>1. 1..(n + 1) = (1..n) \cup {n + 1}
    OBVIOUS
  <2> QED
    BY <2>1 DEF Asked
<1>4. Statements[n + 1] \notin DOMAIN inputs
  BY StatementsAre DEF Asked
<1> QED
  BY <1>1, <1>2, <1>3, <1>4 DEF With

LEMMA LastStatement ==
    ASSUME NEW inputs, NEW t, NEW name, NEW value, DOMAIN With(inputs, name, value) = Asked(14),
           \A k \in DOMAIN With(inputs, name, value) : With(inputs, name, value)[k] = Select(t, k)
    PROVE  With(inputs, name, value) = Answers(t)
<1>1. ToSet(Statements) = Asked(14)
  BY StatementsAre DEF ToSet, Asked
<1>2. With(inputs, name, value) =
        [k \in DOMAIN With(inputs, name, value) |-> With(inputs, name, value)[k]]
  BY DEF With
<1> QED
  BY <1>1, <1>2 DEF Answers

LEMMA ReadStep ==
    ASSUME EvaluationIInv, NEW e \in Jobs, Read(e)
    PROVE  EvaluationIInv'
<1>1. /\ UNCHANGED << tables, cache, evals, writes >> /\ At(e, "read") /\ \A r \in evals : r.by # e
      /\ DOMAIN job[e] = JobFields /\ AsksAboutTodo(e) /\ RecordsOnce(e) /\ ReadsOneState(e)
      /\ ProperTables(tables)
  BY DEF Read, At, EvaluationIInv, JobInv, RecordsOnce
<1>2. /\ job[e].seen \in Nat /\ job[e].seen <= writes
      /\ job[e].seen = writes =>
            \A name \in DOMAIN job[e].inputs : job[e].inputs[name] = Select(tables, name)
  BY <1>1 DEF At, ReadsOneState
<1>3. PICK n \in 0..13 : DOMAIN job[e].inputs = Asked(n)
  BY <1>1 DEF At, ReadsOneState
<1>4. PICK before, answer, inputs :
        /\ before = job[e].inputs /\ answer = Select(tables, Statements[n + 1])
        /\ inputs = With(before, Statements[n + 1], answer)
  OBVIOUS
<1>5. PICK meant : meant = IF writes = job[e].seen THEN Meant(tables) ELSE << >>
  OBVIOUS
<1>6. /\ Cardinality(DOMAIN before) = n
      /\ DOMAIN inputs = Asked(n + 1)
      /\ inputs[Statements[n + 1]] = answer
      /\ \A name \in DOMAIN before : inputs[name] = before[name]
  <2>1. DOMAIN before = Asked(n)
    BY <1>3, <1>4
  <2>2. /\ Cardinality(DOMAIN before) = n
        /\ DOMAIN With(before, Statements[n + 1], answer) = Asked(n + 1)
        /\ With(before, Statements[n + 1], answer)[Statements[n + 1]] = answer
        /\ \A name \in DOMAIN before : With(before, Statements[n + 1], answer)[name] = before[name]
    BY <2>1, NextStatement
  <2>3. inputs = With(before, Statements[n + 1], answer)
    BY <1>4
  <2> QED
    BY ONLY <2>2, <2>3, Zenon
<1>7. job[e].seen = writes => \A name \in DOMAIN inputs : inputs[name] = Select(tables, name)
  <2>1. DOMAIN inputs = DOMAIN before \cup {Statements[n + 1]}
    BY <1>4 DEF With
  <2> QED
    BY <1>2, <1>4, <1>6, <2>1
<1>8. job' = [job EXCEPT ![e] =
        IF n + 1 < Len(Statements) THEN [@ EXCEPT !.inputs = inputs]
        ELSE [Idle EXCEPT !.at = "record", !.metrics = ProductMetrics(inputs), !.meant = meant]]
  BY <1>4, <1>5, <1>6 DEF Read
<1>9. CASE n + 1 < Len(Statements)
  <2> DEFINE j == [job[e] EXCEPT !.inputs = inputs]
  <2>1. job' = [job EXCEPT ![e] = job'[e]] /\ job'[e] = j
    BY <1>8, <1>9, Moved
  <2>2. DOMAIN j = JobFields /\ j.at = "read" /\ j.todo = job[e].todo /\ j.inputs = inputs /\ j.seen = job[e].seen
    BY <1>1 DEF JobFields, At
  <2> HIDE DEF j
  <2>3. RecordsOnce(e)'
    BY <2>1, <2>2, <1>1 DEF RecordsOnce, Rubric
  <2>4. AsksAboutTodo(e)' /\ AnswerIsKept(e)'
    BY <2>1, <2>2, <1>1 DEF AsksAboutTodo, AnswerIsKept, Judging
  <2>5. ReadsOneState(e)'
    <3>1. n + 1 \in 0..13
      BY <1>9, StatementsAre
    <3> QED
      BY <2>1, <2>2, <3>1, <1>1, <1>2, <1>6, <1>7 DEF ReadsOneState
  <2>6. JobInv(e)'
    BY <2>1, <2>2, <2>3, <2>4, <2>5 DEF JobInv, Places
  <2> QED
    BY <2>1, <1>1, <2>6, MovesAlone
<1>10. CASE ~ (n + 1 < Len(Statements))
  <2> DEFINE j == [Idle EXCEPT !.at = "record", !.metrics = ProductMetrics(inputs), !.meant = meant]
  <2>1. job' = [job EXCEPT ![e] = job'[e]] /\ job'[e] = j
    BY <1>8, <1>10, Moved
  <2>2. DOMAIN j = JobFields /\ j.at = "record" /\ j.todo = {} /\ j.meant = meant /\ j.metrics = ProductMetrics(inputs)
    BY IdleIs DEF JobFields
  <2> HIDE DEF j
  <2>3. writes = job[e].seen => inputs = Answers(tables)
    <3>1. n + 1 = 14
      BY <1>10, StatementsAre
    <3> QED
      BY <3>1, <1>4, <1>6, <1>7, LastStatement
  <2>4. meant = << >> \/ \E t : ProperTables(t) /\ meant = Meant(t) /\ ProductMetrics(inputs) = ProductMetrics(Answers(t))
    BY <1>1, <1>5, <2>3
  <2>5. ReadsOneState(e)'
    BY <2>1, <2>2, <2>4 DEF ReadsOneState
  <2>6. JobInv(e)'
    BY <1>1, <2>1, <2>2, <2>5, NothingInHand DEF Places, Judging
  <2> QED
    BY <2>1, <1>1, <2>6, MovesAlone
<1> QED
  BY <1>9, <1>10

\* The rows a first part of the metrics makes.
LEMMA MetricRowsAre ==
    ASSUME NEW e \in Jobs, NEW n \in 0..Len(MetricNames)
    PROVE  /\ \A r \in MetricRows(e, n) :
                 /\ r.by = e /\ r.type \in ToSet(MetricNames) /\ ~Rubric(r)
                 /\ r.score = job[e].metrics[r.type]
                 /\ r.meant = {job[e].meant[name] : name \in (DOMAIN job[e].meant) \cap {r.type}}
           /\ \A r, s \in MetricRows(e, n) : r.type = s.type => r = s
<1> DEFINE row(name) == [by |-> e, type |-> name, score |-> job[e].metrics[name],
              meant |-> {job[e].meant[m] : m \in (DOMAIN job[e].meant) \cap {name}}]
<1>1. MetricRows(e, n) = {row(MetricNames[i]) : i \in 1..n}
  BY DEF MetricRows
<1>2. \A name : /\ row(name).by = e /\ row(name).type = name
                /\ row(name).score = job[e].metrics[name]
                /\ row(name).meant = {job[e].meant[m] : m \in (DOMAIN job[e].meant) \cap {name}}
  OBVIOUS
<1> HIDE DEF row
<1>3. \A r \in MetricRows(e, n) : \E i \in 1..9 : r = row(MetricNames[i])
  BY <1>1, MetricNamesAre
<1>4. \A r \in MetricRows(e, n) : r = row(r.type) /\ r.type \in ToSet(MetricNames) /\ ~Rubric(r)
  BY <1>2, <1>3, MetricNamesAre DEF Rubric
<1>5. ASSUME NEW r \in MetricRows(e, n)
      PROVE  /\ r.by = e /\ r.score = job[e].metrics[r.type]
             /\ r.meant = {job[e].meant[name] : name \in (DOMAIN job[e].meant) \cap {r.type}}
  BY <1>2, <1>4
<1> QED
  BY <1>4, <1>5

\* They are of the tables the evaluation has read.
LEMMA MetricRowsOfOneState ==
    ASSUME NEW e \in Jobs, At(e, "record"), ReadsOneState(e), NEW n \in 0..Len(MetricNames),
           NEW r \in MetricRows(e, n)
    PROVE  OfOneState(r)
<1>1. /\ r.score = job[e].metrics[r.type]
      /\ r.meant = {job[e].meant[name] : name \in (DOMAIN job[e].meant) \cap {r.type}}
  BY MetricRowsAre
<1>2. CASE job[e].meant = << >>
  BY <1>1, <1>2 DEF OfOneState
<1>3. CASE \E t : ProperTables(t) /\ job[e].meant = Meant(t) /\ job[e].metrics = ProductMetrics(Answers(t))
  <2>1. PICK t : ProperTables(t) /\ job[e].meant = Meant(t) /\ job[e].metrics = ProductMetrics(Answers(t))
    BY <1>3
  <2>2. \A m \in r.meant : m = Meant(t)[r.type] /\ r.type \in DOMAIN Meant(t)
    BY <1>1, <2>1
  <2> QED
    BY <1>1, <2>1, <2>2 DEF OfOneState
<1> QED
  BY <1>2, <1>3 DEF At, ReadsOneState

LEMMA RecordSome ==
    ASSUME EvaluationIInv, NEW e \in Jobs, NEW n \in 0..Len(MetricNames), NEW at \in {"list", "failed"},
           At(e, "record"), evals' = evals \cup MetricRows(e, n),
           job' = [job EXCEPT ![e] = [Idle EXCEPT !.at = at]], UNCHANGED << tables, cache, writes >>
    PROVE  EvaluationIInv'
<1> DEFINE j == [Idle EXCEPT !.at = at]
<1>1. job' = [job EXCEPT ![e] = job'[e]] /\ job'[e] = j
  BY Moved
<1>2. DOMAIN j = JobFields /\ j.at = at /\ j.todo = {}
  BY IdleIs DEF JobFields
<1>3. ReadsOneState(e) /\ \A r \in evals : r.by # e
  BY DEF At, EvaluationIInv, JobInv, RecordsOnce
<1>4. \A r \in evals' : r.by = e => r \in MetricRows(e, n)
  BY <1>3
<1>5. JobInv(e)'
  BY <1>1, <1>2, <1>4, MetricRowsAre, NothingInHand DEF Places, Judging
<1>6. \A r \in evals' \ evals : r.by = e /\ RowInv(r)'
  BY <1>3, MetricRowsAre, MetricRowsOfOneState DEF RowInv, Rubric
<1>7. \A r \in evals' \ evals : \A s \in evals' :
        s.by = e /\ r.type = s.type /\ r # s => Rubric(r) /\ r.text.artifact # s.text.artifact
  BY <1>4, MetricRowsAre
<1>8. CacheGrows /\ CacheTells' /\ evals \subseteq evals'
  BY DEF EvaluationIInv, CacheGrows, CacheTells
<1> QED
  BY <1>1, <1>5, <1>6, <1>7, <1>8, OneMoves

LEMMA RecordMetricsStep ==
    ASSUME EvaluationIInv, NEW e \in Jobs, RecordMetrics(e)
    PROVE  EvaluationIInv'
<1>1. Len(MetricNames) \in 0..Len(MetricNames)
  BY MetricNamesAre
<1> QED
  BY <1>1, RecordSome DEF RecordMetrics

LEMMA ListApprovedStep ==
    ASSUME EvaluationIInv, NEW e \in Jobs, ListApproved(e)
    PROVE  EvaluationIInv'
<1> DEFINE approved == {a \in DOMAIN tables.artifacts : tables.artifacts[a].status = "approved"}
           todo == {[artifact |-> a, title |-> tables.artifacts[a].title,
                     body |-> tables.artifacts[a].body] : a \in approved}
           j == [Idle EXCEPT !.at = "ask", !.todo = todo]
<1>1. job' = [job EXCEPT ![e] = job'[e]] /\ job'[e] = j
  BY Moved DEF ListApproved
<1>2. UNCHANGED << tables, cache, evals, writes >> /\ \A r \in evals : r.by = e => ~Rubric(r)
  BY DEF ListApproved, At, EvaluationIInv, JobInv, RecordsOnce
<1>3. /\ \A u \in todo : u.artifact \in DOMAIN tables.artifacts
      /\ \A u, v \in todo : u.artifact = v.artifact => u = v
  OBVIOUS
<1> HIDE DEF todo
<1>4. DOMAIN j = JobFields /\ j.at = "ask" /\ j.todo = todo
  BY IdleIs DEF JobFields
<1> HIDE DEF j
<1>5. RecordsOnce(e)'
  BY <1>1, <1>2, <1>4 DEF RecordsOnce, Rubric
<1>6. AsksAboutTodo(e)' /\ AnswerIsKept(e)'
  BY <1>1, <1>2, <1>3, <1>4 DEF AsksAboutTodo, AnswerIsKept, Judging
<1>7. JobInv(e)'
  BY <1>1, <1>4, <1>5, <1>6 DEF JobInv, ReadsOneState, Places
<1> QED
  BY <1>1, <1>2, <1>7, MovesAlone

LEMMA AskStep ==
    ASSUME EvaluationIInv, NEW e \in Jobs, Ask(e)
    PROVE  EvaluationIInv'
<1>1. UNCHANGED << tables, cache, evals, writes >> /\ At(e, "ask") /\ JobInv(e) /\ DOMAIN job[e] = JobFields
  BY DEF Ask, EvaluationIInv, JobInv
<1>2. CASE job' = [job EXCEPT ![e] = [Idle EXCEPT !.at = "done"]]
  <2> DEFINE j == [Idle EXCEPT !.at = "done"]
  <2>1. job' = [job EXCEPT ![e] = job'[e]] /\ job'[e] = j
    BY <1>2, Moved
  <2>2. DOMAIN j = JobFields /\ j.at = "done" /\ j.todo = {}
    BY IdleIs DEF JobFields
  <2>3. JobInv(e)'
    BY <2>1, <2>2, NothingInHand DEF Places, Judging
  <2> QED
    BY <2>1, <1>1, <2>3, MovesAlone
<1>3. CASE \E text \in job[e].todo :
              LET key == IdempotencyKey(text)
              IN  job' = [job EXCEPT ![e] =
                       IF key \in DOMAIN cache
                       THEN [@ EXCEPT !.at = "score", !.text = text, !.answer = cache[key]]
                       ELSE [@ EXCEPT !.at = "call", !.text = text]]
  <2>1. PICK text \in job[e].todo :
              job' = [job EXCEPT ![e] =
                       IF IdempotencyKey(text) \in DOMAIN cache
                       THEN [@ EXCEPT !.at = "score", !.text = text, !.answer = cache[IdempotencyKey(text)]]
                       ELSE [@ EXCEPT !.at = "call", !.text = text]]
    BY <1>3
  <2> DEFINE j == IF IdempotencyKey(text) \in DOMAIN cache
                  THEN [job[e] EXCEPT !.at = "score", !.text = text, !.answer = cache[IdempotencyKey(text)]]
                  ELSE [job[e] EXCEPT !.at = "call", !.text = text]
  <2>2. job' = [job EXCEPT ![e] = job'[e]] /\ job'[e] = j
    <3>1. job' = [job EXCEPT ![e] = j]
      BY <2>1
    <3> QED
      BY <3>1, Moved
  <2>3. /\ DOMAIN j = JobFields /\ j.todo = job[e].todo /\ j.text = text
        /\ \/ j.at = "call"
           \/ /\ j.at = "score" /\ IdempotencyKey(text) \in DOMAIN cache
              /\ j.answer = cache[IdempotencyKey(text)]
    BY <1>1 DEF JobFields
  <2> HIDE DEF j
  <2>4. RecordsOnce(e)'
    BY <1>1, <2>2, <2>3 DEF JobInv, RecordsOnce, Rubric
  <2>5. AsksAboutTodo(e)'
    BY <1>1, <2>2, <2>3 DEF JobInv, AsksAboutTodo
  <2>6. AnswerIsKept(e)'
    BY <1>1, <2>2, <2>3 DEF AnswerIsKept, IdempotencyKey
  <2>7. JobInv(e)'
    BY <2>2, <2>3, <2>4, <2>5, <2>6 DEF JobInv, ReadsOneState, Places, Judging
  <2> QED
    BY <2>2, <1>1, <2>7, MovesAlone
<1> QED
  BY <1>2, <1>3 DEF Ask

LEMMA ConverseStep ==
    ASSUME EvaluationIInv, NEW e \in Jobs, NEW v, Converse(e, v)
    PROVE  EvaluationIInv'
<1> DEFINE answer == [verdict |-> v, of |-> job[e].text]
           j == [job[e] EXCEPT !.at = "put", !.answer = answer]
<1>1. UNCHANGED << tables, cache, evals, writes >> /\ At(e, "call") /\ JobInv(e) /\ DOMAIN job[e] = JobFields
  BY DEF Converse, EvaluationIInv, JobInv
<1>2. job' = [job EXCEPT ![e] = job'[e]] /\ job'[e] = j
  <2>1. job' = [job EXCEPT ![e] = j]
    BY <1>1 DEF Converse, EvaluationIInv
  <2> QED
    BY <2>1, Moved
<1>3. DOMAIN j = JobFields /\ j.at = "put" /\ j.todo = job[e].todo /\ j.text = job[e].text
      /\ j.answer.of = job[e].text
  BY <1>1 DEF JobFields
<1> HIDE DEF j
<1>4. RecordsOnce(e)'
  BY <1>1, <1>2, <1>3 DEF JobInv, RecordsOnce, Rubric
<1>5. AsksAboutTodo(e)'
  BY <1>1, <1>2, <1>3 DEF JobInv, AsksAboutTodo, At, Judging
<1>6. AnswerIsKept(e)'
  BY <1>1, <1>2, <1>3 DEF AnswerIsKept
<1>7. JobInv(e)'
  BY <1>2, <1>3, <1>4, <1>5, <1>6 DEF JobInv, ReadsOneState, Places, Judging
<1> QED
  BY <1>2, <1>1, <1>7, MovesAlone

\* The first writer's answer is the one that is kept, and every writer's.
LEMMA PutStep ==
    ASSUME EvaluationIInv, NEW e \in Jobs, Put(e)
    PROVE  EvaluationIInv'
<1> DEFINE key == IdempotencyKey(job[e].text)
           answer == FirstWins(key, job[e].answer)
           j == [job[e] EXCEPT !.at = "score", !.answer = answer]
<1>1. UNCHANGED << tables, evals, writes >> /\ At(e, "put") /\ JobInv(e) /\ DOMAIN job[e] = JobFields
  BY DEF Put, EvaluationIInv, JobInv
<1>2. job' = [job EXCEPT ![e] = job'[e]] /\ job'[e] = j
  <2>1. job' = [job EXCEPT ![e] = j]
    BY <1>1 DEF Put, EvaluationIInv
  <2> QED
    BY <2>1, Moved
<1>3. /\ DOMAIN cache' = DOMAIN cache \cup {key} /\ cache'[key] = answer
      /\ \A k \in DOMAIN cache \ {key} : cache'[k] = cache[k]
  BY DEF Put, With
<1>4. answer = IF key \in DOMAIN cache THEN cache[key] ELSE job[e].answer
  BY DEF FirstWins
<1>5. IdempotencyKey(job[e].answer.of) = key
  BY <1>1 DEF JobInv, AnswerIsKept, At
<1>6. DOMAIN j = JobFields /\ j.at = "score" /\ j.todo = job[e].todo /\ j.text = job[e].text
      /\ j.answer = answer
  BY <1>1 DEF JobFields
<1>7. IdempotencyKey(job[e].text) = key
  OBVIOUS
<1> HIDE DEF j, answer, key
<1>8. CacheGrows
  BY <1>3, <1>4 DEF CacheGrows
<1>9. CacheTells'
  BY <1>3, <1>4, <1>5 DEF EvaluationIInv, CacheTells
<1>10. RecordsOnce(e)'
  BY <1>1, <1>2, <1>6 DEF JobInv, RecordsOnce, Rubric
<1>11. AsksAboutTodo(e)'
  BY <1>1, <1>2, <1>6 DEF JobInv, AsksAboutTodo, At, Judging
<1>12. AnswerIsKept(e)'
  <2>1. IdempotencyKey(job'[e].text) = key
    BY <1>2, <1>6, <1>7
  <2> QED
    BY <2>1, <1>2, <1>3, <1>6 DEF AnswerIsKept, IdempotencyKey
<1>13. JobInv(e)'
  BY <1>2, <1>6, <1>10, <1>11, <1>12 DEF JobInv, ReadsOneState, Places, Judging
<1> QED
  BY <1>1, <1>2, <1>8, <1>9, <1>13, OneMoves

LEMMA ScoreStep ==
    ASSUME EvaluationIInv, NEW e \in Jobs, Score(e)
    PROVE  EvaluationIInv'
<1> DEFINE text == job[e].text
           answer == job[e].answer
           done == [Idle EXCEPT !.at = "ask", !.todo = job[e].todo \ {text}]
           failed == [Idle EXCEPT !.at = "failed"]
<1>1. UNCHANGED << tables, cache, writes >> /\ At(e, "score") /\ JobInv(e) /\ CacheGrows /\ CacheTells'
  BY DEF Score, EvaluationIInv, CacheGrows, CacheTells
<1>2. CASE answer.verdict \in Scores
  <2>0. PICK row : row = [by |-> e, type |-> "rubric", score |-> answer.verdict,
                          text |-> text, of |-> answer.of]
    OBVIOUS
  <2>1. evals' = evals \cup {row} /\ job' = [job EXCEPT ![e] = done]
    BY <1>2, <2>0 DEF Score
  <2>2. job' = [job EXCEPT ![e] = job'[e]] /\ job'[e] = done
    BY <2>1, Moved
  <2>3. DOMAIN done = JobFields /\ done.at = "ask" /\ done.todo = job[e].todo \ {text}
    BY IdleIs DEF JobFields
  <2>4. /\ row.by = e /\ row.type = "rubric" /\ row.score = answer.verdict
        /\ row.text = text /\ row.of = answer.of
    BY <2>0
  <2>5. /\ text \in job[e].todo /\ text.artifact \in DOMAIN tables.artifacts
        /\ \A u \in job[e].todo : u.artifact = text.artifact => u = text
    BY <1>1 DEF JobInv, AsksAboutTodo, At, Judging
  <2>6. IdempotencyKey(text) \in DOMAIN cache /\ answer = cache[IdempotencyKey(text)]
    BY <1>1 DEF JobInv, AnswerIsKept, At, IdempotencyKey
  <2>7. IdempotencyKey(answer.of) = IdempotencyKey(text)
    BY <2>6 DEF EvaluationIInv, CacheTells
  <2> HIDE DEF done, text, answer
  <2>8. RowInv(row)'
    BY <1>1, <1>2, <2>4, <2>5, <2>6, <2>7 DEF RowInv, Rubric, IdempotencyKey
  <2>9. RecordsOnce(e)'
    BY <1>1, <2>1, <2>2, <2>3, <2>4, <2>5 DEF JobInv, RecordsOnce, Rubric
  <2>10. AsksAboutTodo(e)' /\ AnswerIsKept(e)'
    BY <1>1, <2>2, <2>3 DEF JobInv, AsksAboutTodo, AnswerIsKept, Judging
  <2>11. JobInv(e)'
    BY <2>2, <2>3, <2>9, <2>10 DEF JobInv, ReadsOneState, Places
  <2>12. \A s \in evals' : s.by = e /\ s.type = "rubric" /\ s # row => s.text.artifact # text.artifact
    BY <1>1, <2>1, <2>5 DEF JobInv, RecordsOnce, Rubric
  <2>13. \A r \in evals' \ evals : \A s \in evals' :
           s.by = e /\ r.type = s.type /\ r # s => Rubric(r) /\ r.text.artifact # s.text.artifact
    BY <2>1, <2>4, <2>12 DEF Rubric
  <2>14. \A r \in evals' \ evals : r.by = e /\ RowInv(r)'
    BY <2>1, <2>4, <2>8
  <2> QED
    BY <1>1, <2>1, <2>2, <2>11, <2>13, <2>14, OneMoves
<1>3. CASE answer.verdict \notin Scores
  <2>1. evals' = evals /\ job' = [job EXCEPT ![e] = failed]
    BY <1>3 DEF Score
  <2>2. job' = [job EXCEPT ![e] = job'[e]] /\ job'[e] = failed
    BY <2>1, Moved
  <2>3. DOMAIN failed = JobFields /\ failed.at = "failed" /\ failed.todo = {}
    BY IdleIs DEF JobFields
  <2>4. JobInv(e)'
    BY <2>2, <2>3, NothingInHand DEF Places, Judging
  <2> QED
    BY <1>1, <2>1, <2>2, <2>4, MovesAlone
<1> QED
  BY <1>2, <1>3

LEMMA FailStep ==
    ASSUME EvaluationIInv, NEW e \in Jobs, Fail(e)
    PROVE  EvaluationIInv'
<1>1. CASE At(e, "record")
  <2>1. PICK n \in PartialCounts : evals' = evals \cup MetricRows(e, n)
    BY <1>1 DEF Fail
  <2>2. n \in 0..Len(MetricNames)
    BY EvaluationAssumption
  <2> QED
    BY <1>1, <2>1, <2>2, RecordSome DEF Fail
<1>2. CASE ~At(e, "record")
  <2> DEFINE j == [Idle EXCEPT !.at = "failed"]
  <2>1. UNCHANGED << tables, cache, evals, writes >> /\ job' = [job EXCEPT ![e] = j]
    BY <1>2 DEF Fail
  <2>2. job' = [job EXCEPT ![e] = job'[e]] /\ job'[e] = j
    BY <2>1, Moved
  <2>3. DOMAIN j = JobFields /\ j.at = "failed" /\ j.todo = {}
    BY IdleIs DEF JobFields
  <2>4. JobInv(e)'
    BY <2>2, <2>3, NothingInHand DEF Places, Judging
  <2> QED
    BY <2>1, <2>2, <2>4, MovesAlone
<1> QED
  BY <1>1, <1>2

\* A write to the tables keeps which artifacts there are, and leaves the tables
\* proper; nothing else here depends on what it writes.
LEMMA Rewritten ==
    ASSUME EvaluationIInv, UNCHANGED << cache, evals, job >>, WritesCount,
           ProperTables(tables)', ReportsAreOld(tables.engagement, writes)',
           DOMAIN tables'.artifacts = DOMAIN tables.artifacts
    PROVE  EvaluationIInv'
<1>1. CacheGrows
  BY DEF CacheGrows
<1>2. \A e \in Jobs : JobInv(e)'
  BY <1>1, OthersStay DEF EvaluationIInv
<1>3. \A r \in evals' : RowInv(r)'
  BY <1>1, RowStays DEF EvaluationIInv
<1>4. CacheTells' /\ NothingTwice' /\ writes' \in Nat
  BY DEF EvaluationIInv, CacheTells, NothingTwice, WritesCount
<1> QED
  BY <1>2, <1>3, <1>4 DEF EvaluationIInv

\* A write makes proper tables of the tables, of the same artifacts.
LEMMA WriteStep ==
    ASSUME EvaluationIInv, NEW t, Write(t), ProperTables(t), ReportsAreOld(t.engagement, writes + 1),
           DOMAIN t.artifacts = DOMAIN tables.artifacts
    PROVE  EvaluationIInv'
<1>1. tables' = t /\ writes' = writes + 1 /\ WritesCount /\ UNCHANGED << cache, evals, job >>
  BY DEF Write, WritesCount
<1>2. ProperTables(tables)' /\ ReportsAreOld(tables.engagement, writes)'
  BY <1>1
<1> QED
  BY <1>1, <1>2, Rewritten

\* What has been reported, when a write leaves it alone.
LEMMA ReportsStay ==
    ASSUME EvaluationIInv
    PROVE  ReportsAreOld(tables.engagement, writes + 1)
<1>1. \A r \in tables.engagement : r.created \in Nat
  BY DEF EvaluationIInv, ProperTables, ProperReports
<1> QED
  BY <1>1 DEF EvaluationIInv, ReportsAreOld

\* A claim gets an id of its own.
LEMMA PersistClaimStep ==
    ASSUME EvaluationIInv, NEW row \in ClaimRows, PersistClaim(row)
    PROVE  EvaluationIInv'
<1>1. ProperTables(tables) /\ ProperClaims(tables.claims)
  BY DEF EvaluationIInv, ProperTables
<1>2. PICK claim : claim = With(row, "id", Cardinality(tables.claims) + 1)
  OBVIOUS
<1>3. /\ claim.id = Cardinality(tables.claims) + 1 /\ claim.support \in {"supported", "unsupported"}
      /\ IsText(claim.text)
  <2>1. /\ DOMAIN row = {"links", "support", "risk", "text"}
        /\ row.support \in {"supported", "unsupported"} /\ IsText(row.text)
    BY EvaluationAssumption
  <2>2. claim.support = row.support /\ claim.text = row.text
    BY <1>2, <2>1 DEF With
  <2> QED
    BY <1>2, <2>1, <2>2 DEF With
<1>4. PICK t : t = [tables EXCEPT !.claims = @ \cup {claim}]
  OBVIOUS
<1>5. /\ DOMAIN t = TableNames /\ t.artifacts = tables.artifacts /\ t.approvals = tables.approvals
      /\ t.signals = tables.signals /\ t.engagement = tables.engagement
      /\ t.claims = tables.claims \cup {claim} /\ t.features = tables.features /\ t.media = tables.media
      /\ t.candidates = tables.candidates /\ t.notified = tables.notified
  BY <1>1, <1>4 DEF ProperTables, TableNames
<1>6. Cardinality(tables.claims) \in Nat
  BY <1>1, FS_CardinalityType DEF ProperClaims
<1>7. claim \notin tables.claims
  BY <1>1, <1>3, <1>6 DEF ProperClaims
<1>8. IsFiniteSet(t.claims) /\ Cardinality(t.claims) = Cardinality(tables.claims) + 1
  <2>1. IsFiniteSet(tables.claims)
    BY <1>1 DEF ProperClaims
  <2>2. /\ IsFiniteSet(tables.claims \cup {claim})
        /\ Cardinality(tables.claims \cup {claim}) =
              IF claim \in tables.claims THEN Cardinality(tables.claims) ELSE Cardinality(tables.claims) + 1
    BY ONLY <2>1, FS_AddElement, Zenon
  <2>3. t.claims = tables.claims \cup {claim}
    BY <1>5
  <2> QED
    BY ONLY <2>2, <2>3, <1>7
<1>9. ProperClaims(t.claims)
  <2>1. \A c \in tables.claims :
           c.id \in 1..Cardinality(tables.claims) /\ c.support \in {"supported", "unsupported"} /\ IsText(c.text)
    BY <1>1 DEF ProperClaims
  <2>2. \A c \in t.claims :
           c.id \in 1..Cardinality(t.claims) /\ c.support \in {"supported", "unsupported"} /\ IsText(c.text)
    BY <1>3, <1>5, <1>6, <1>8, <2>1
  <2>3. \A c, d \in t.claims : c.id = d.id => c = d
    BY <1>1, <1>3, <1>5, <1>6, <2>1 DEF ProperClaims
  <2> QED
    BY <1>8, <2>2, <2>3 DEF ProperClaims
<1>10. ProperTables(t)
  BY <1>1, <1>5, <1>9 DEF ProperTables
<1>11. Write(t)
  BY <1>2, <1>4 DEF PersistClaim
<1> QED
  BY <1>5, <1>10, <1>11, ReportsStay, WriteStep

LEMMA ReviewFeatureStep ==
    ASSUME EvaluationIInv, NEW f, ReviewFeature(f)
    PROVE  EvaluationIInv'
<1>1. ProperTables(tables)
  BY DEF EvaluationIInv
<1>2. PICK t : t = [tables EXCEPT !.features = [@ EXCEPT ![f] = "rejected"]]
  OBVIOUS
<1>3. /\ DOMAIN t = TableNames /\ t.artifacts = tables.artifacts /\ t.approvals = tables.approvals
      /\ t.signals = tables.signals /\ t.engagement = tables.engagement
      /\ t.claims = tables.claims /\ DOMAIN t.features = DOMAIN tables.features /\ t.media = tables.media
      /\ t.candidates = tables.candidates /\ t.notified = tables.notified
  BY <1>1, <1>2 DEF ProperTables, TableNames
<1>4. ProperTables(t)
  BY <1>1, <1>3 DEF ProperTables
<1> QED
  BY <1>2, <1>3, <1>4, ReportsStay, WriteStep DEF ReviewFeature

LEMMA InsertMediaStep ==
    ASSUME EvaluationIInv, NEW s \in {"ready", "broken"}, InsertMedia(s)
    PROVE  EvaluationIInv'
<1>1. ProperTables(tables)
  BY DEF EvaluationIInv
<1>2. PICK t : t = [tables EXCEPT !.media = Append(@, s)]
  OBVIOUS
<1>3. /\ DOMAIN t = TableNames /\ t.artifacts = tables.artifacts /\ t.approvals = tables.approvals
      /\ t.signals = tables.signals /\ t.engagement = tables.engagement
      /\ t.claims = tables.claims /\ t.features = tables.features /\ t.media = Append(tables.media, s)
      /\ t.candidates = tables.candidates /\ t.notified = tables.notified
  BY <1>1, <1>2 DEF ProperTables, TableNames
<1>4. t.media \in Seq({"ready", "broken"})
  BY <1>1, <1>3 DEF ProperTables
<1>5. ProperTables(t)
  BY <1>1, <1>3, <1>4 DEF ProperTables
<1> QED
  BY <1>2, <1>3, <1>5, ReportsStay, WriteStep DEF InsertMedia

LEMMA NotifyStep ==
    ASSUME EvaluationIInv, NEW gate, Notify(gate)
    PROVE  EvaluationIInv'
<1>1. ProperTables(tables)
  BY DEF EvaluationIInv
<1>2. PICK notified : notified = With(tables.notified, gate, Now)
  OBVIOUS
<1>3. PICK t : t = [tables EXCEPT !.notified = notified]
  OBVIOUS
<1>4. /\ DOMAIN t = TableNames /\ t.artifacts = tables.artifacts /\ t.approvals = tables.approvals
      /\ t.signals = tables.signals /\ t.engagement = tables.engagement
      /\ t.claims = tables.claims /\ t.features = tables.features /\ t.media = tables.media
      /\ t.candidates = tables.candidates /\ t.notified = notified
  BY <1>1, <1>3 DEF ProperTables, TableNames
<1>5. ProperTables(t)
  <2>1. \A g \in DOMAIN notified : notified[g] \in Nat
    BY <1>1, <1>2 DEF With, Now, EvaluationIInv, ProperTables
  <2> QED
    BY <1>1, <1>4, <2>1 DEF ProperTables
<1>6. Write(t)
  BY <1>2, <1>3 DEF Notify
<1> QED
  BY <1>4, <1>5, <1>6, ReportsStay, WriteStep

\* A decision is one more.
LEMMA DecisionIsProper ==
    ASSUME NEW artifacts, NEW approvals, ProperReviews(artifacts, approvals), NEW d,
           d.type = "artifact" => d.target \in DOMAIN artifacts,
           d.at \in Nat, IsTextOrNothing(d.payload), IsTextOrNothing(d.notes)
    PROVE  ProperReviews(artifacts, approvals \cup {d})
<1>1. IsFiniteSet(approvals)
  BY DEF ProperReviews
<1>2. IsFiniteSet(approvals \cup {d})
  BY ONLY <1>1, FS_AddElement
<1> QED
  BY <1>2 DEF ProperReviews

\* A write of a decision, and of what it says of an artifact.
LEMMA ReviewStep ==
    ASSUME EvaluationIInv, NEW artifacts, DOMAIN artifacts = DOMAIN tables.artifacts,
           \A a \in DOMAIN artifacts : IsText(artifacts[a].body) /\ artifacts[a].created = 0,
           NEW d, d.type = "artifact" => d.target \in DOMAIN artifacts,
           d.at \in Nat, IsTextOrNothing(d.payload), IsTextOrNothing(d.notes),
           NEW t, t = [tables EXCEPT !.artifacts = artifacts, !.approvals = @ \cup {d}], Write(t)
    PROVE  EvaluationIInv'
<1>1. ProperTables(tables)
  BY DEF EvaluationIInv
<1>2. /\ DOMAIN t = TableNames /\ t.artifacts = artifacts /\ t.approvals = tables.approvals \cup {d}
      /\ t.signals = tables.signals /\ t.engagement = tables.engagement
      /\ t.claims = tables.claims /\ t.features = tables.features /\ t.media = tables.media
      /\ t.candidates = tables.candidates /\ t.notified = tables.notified
  BY <1>1 DEF ProperTables, TableNames
<1>3. ProperReviews(artifacts, tables.approvals)
  BY <1>1 DEF ProperTables, ProperReviews
<1>4. ProperReviews(t.artifacts, t.approvals)
  BY <1>2, <1>3, DecisionIsProper
<1>5. ProperTables(t)
  BY <1>1, <1>2, <1>4 DEF ProperTables
<1> QED
  BY <1>2, <1>5, ReportsStay, WriteStep

\* The decision about the artifact a, whose text is a text still.
LEMMA DecideArtifactStep ==
    ASSUME EvaluationIInv, NEW a \in DOMAIN tables.artifacts, NEW artifact,
           IsText(artifact.body), artifact.created = 0,
           NEW decision, NEW payload, IsTextOrNothing(payload), NEW notes, IsTextOrNothing(notes),
           Write([tables EXCEPT !.artifacts = [@ EXCEPT ![a] = artifact],
                                !.approvals = @ \cup {Decision("artifact", a, decision, payload, notes)}])
    PROVE  EvaluationIInv'
<1>1. PICK d : d = Decision("artifact", a, decision, payload, notes)
  OBVIOUS
<1>2. d.target = a /\ d.payload = payload /\ d.notes = notes /\ d.at \in Nat
  BY <1>1 DEF Decision, Now, EvaluationIInv
<1>3. PICK artifacts : artifacts = [tables.artifacts EXCEPT ![a] = artifact]
  OBVIOUS
<1>4. /\ DOMAIN artifacts = DOMAIN tables.artifacts
      /\ \A b \in DOMAIN artifacts : IsText(artifacts[b].body) /\ artifacts[b].created = 0
  BY <1>3 DEF EvaluationIInv, ProperTables, ProperReviews
<1>5. PICK t : t = [tables EXCEPT !.artifacts = artifacts, !.approvals = @ \cup {d}]
  OBVIOUS
<1>6. Write(t)
  BY <1>1, <1>3, <1>5
<1> QED
  BY <1>2, <1>4, <1>5, <1>6, ReviewStep

LEMMA ApproveArtifactStep ==
    ASSUME EvaluationIInv, NEW a \in DOMAIN tables.artifacts, ApproveArtifact(a)
    PROVE  EvaluationIInv'
<1>1. PICK artifact : artifact = [tables.artifacts[a] EXCEPT !.status = "approved"]
  OBVIOUS
<1>2. IsText(artifact.body) /\ artifact.created = 0
  BY <1>1 DEF EvaluationIInv, ProperTables, ProperReviews
<1>3. Write([tables EXCEPT !.artifacts = [@ EXCEPT ![a] = artifact],
                           !.approvals = @ \cup {Decision("artifact", a, "approved", Nothing, Nothing)}])
  BY <1>1 DEF ApproveArtifact
<1>4. IsTextOrNothing(Nothing)
  BY DEF IsTextOrNothing
<1> QED
  BY <1>2, <1>3, <1>4, DecideArtifactStep

LEMMA RejectArtifactStep ==
    ASSUME EvaluationIInv, NEW a \in DOMAIN tables.artifacts, NEW notes \in Notes, RejectArtifact(a, notes)
    PROVE  EvaluationIInv'
<1>1. PICK artifact : artifact = [tables.artifacts[a] EXCEPT !.status = "rejected"]
  OBVIOUS
<1>2. IsText(artifact.body) /\ artifact.created = 0
  BY <1>1 DEF EvaluationIInv, ProperTables, ProperReviews
<1>3. Write([tables EXCEPT !.artifacts = [@ EXCEPT ![a] = artifact],
                           !.approvals = @ \cup {Decision("artifact", a, "rejected", Nothing, notes)}])
  BY <1>1 DEF RejectArtifact
<1>4. IsTextOrNothing(Nothing) /\ IsTextOrNothing(notes)
  BY EvaluationAssumption DEF IsTextOrNothing
<1> QED
  BY <1>2, <1>3, <1>4, DecideArtifactStep

LEMMA EditArtifactStep ==
    ASSUME EvaluationIInv, NEW a \in DOMAIN tables.artifacts, NEW edit \in Edits, EditArtifact(a, edit)
    PROVE  EvaluationIInv'
<1>1. PICK artifact : artifact = [tables.artifacts[a] EXCEPT !.status = "edited",
                       !.title = OrKept(edit.title, tables.artifacts[a].title),
                       !.body = OrKept(edit.body, tables.artifacts[a].body)]
  OBVIOUS
<1>2. IsTextOrNothing(Nothing) /\ IsTextOrNothing(edit.body)
  BY EvaluationAssumption DEF IsTextOrNothing
<1>3. IsText(artifact.body) /\ artifact.created = 0
  <2>1. IsText(tables.artifacts[a].body) /\ tables.artifacts[a].created = 0
    BY DEF EvaluationIInv, ProperTables, ProperReviews
  <2>2. \/ artifact.body = tables.artifacts[a].body
        \/ edit.body # Nothing /\ artifact.body = edit.body
    BY <1>1 DEF OrKept
  <2>3. artifact.created = tables.artifacts[a].created
    BY <1>1
  <2> QED
    BY <1>2, <2>1, <2>2, <2>3 DEF IsTextOrNothing
<1>4. Write([tables EXCEPT !.artifacts = [@ EXCEPT ![a] = artifact],
                           !.approvals = @ \cup {Decision("artifact", a, "edited", edit.body, Nothing)}])
  BY <1>1 DEF EditArtifact
<1> QED
  BY <1>2, <1>3, <1>4, DecideArtifactStep

LEMMA DecideGateStep ==
    ASSUME EvaluationIInv, NEW gate \in Gates, DecideGate(gate)
    PROVE  EvaluationIInv'
<1>1. PICK d : d = Decision(Decides(gate), Nothing, "approved", Nothing, Nothing)
  OBVIOUS
<1>2. d.type = Decides(gate) /\ d.payload = Nothing /\ d.notes = Nothing /\ d.at \in Nat
  BY <1>1 DEF Decision, Now, EvaluationIInv
<1>3. Decides(gate) # Nothing => Decides(gate) # "artifact"
  <2>1. gate \in GateNames
    BY EvaluationAssumption
  <2> QED
    BY <2>1 DEF Decides, GateNames
<1>4. Decides(gate) # Nothing
  BY DEF DecideGate
<1>5. PICK t : t = [tables EXCEPT !.artifacts = tables.artifacts, !.approvals = @ \cup {d}]
  OBVIOUS
<1>6. ProperTables(tables)
  BY DEF EvaluationIInv
<1>7. t = [tables EXCEPT !.approvals = @ \cup {d}]
  BY <1>5, <1>6 DEF ProperTables, TableNames
<1>8. Write(t)
  BY <1>1, <1>7 DEF DecideGate
<1>9. \A a \in DOMAIN tables.artifacts : IsText(tables.artifacts[a].body) /\ tables.artifacts[a].created = 0
  BY <1>6 DEF ProperTables, ProperReviews
<1> QED
  BY <1>2, <1>3, <1>4, <1>5, <1>8, <1>9, ReviewStep DEF IsTextOrNothing

\* What is mined is a finite set of pairs of texts.
IsSignal(s) == IsText(s.source) /\ IsText(s.revised)

LEMMA OrEmptyIsText ==
    ASSUME NEW x, IsTextOrNothing(x)
    PROVE  IsText(OrEmpty(x))
<1>1. IsText(<< >>)
  BY EmptySeq DEF IsText
<1> QED
  BY <1>1 DEF IsTextOrNothing, OrEmpty

LEMMA EditSignalsAre ==
    ASSUME ProperReviews(tables.artifacts, tables.approvals)
    PROVE  IsFiniteSet(EditSignals) /\ \A s \in EditSignals : IsSignal(s)
<1> DEFINE S == {r \in tables.approvals : r.type = "artifact" /\ r.decision = "edited"}
           f == [r \in S |-> Signal("reviewer_edit", r.target, tables.artifacts[r.target].body, r.payload)]
<1>1. IsFiniteSet(S)
  BY FS_Subset DEF ProperReviews
<1>2. \A r \in S : f[r].source = tables.artifacts[r.target].body /\ f[r].revised = OrEmpty(r.payload)
  BY DEF Signal
<1>3. \A r \in S : IsSignal(f[r])
  <2> SUFFICES ASSUME NEW r \in S PROVE IsSignal(f[r])
    OBVIOUS
  <2>1. IsText(tables.artifacts[r.target].body) /\ IsTextOrNothing(r.payload)
    BY DEF ProperReviews
  <2> QED
    BY <1>2, <2>1, OrEmptyIsText DEF IsSignal
<1>4. EditSignals = {f[r] : r \in S}
  BY DEF EditSignals
<1>5. f = [r \in DOMAIN f |-> f[r]] /\ DOMAIN f = S
  OBVIOUS
<1> HIDE DEF f, S
<1> QED
  BY <1>1, <1>3, <1>4, <1>5, ImageIsFinite

LEMMA ClaimSignalsAre ==
    ASSUME ProperClaims(tables.claims)
    PROVE  IsFiniteSet(ClaimSignals) /\ \A s \in ClaimSignals : IsSignal(s)
<1> DEFINE S == {c \in tables.claims : c.support = "unsupported"}
           f == [c \in S |-> Signal("rejected_claim", c.id, c.text, Nothing)]
<1>1. IsFiniteSet(S)
  BY FS_Subset DEF ProperClaims
<1>2. \A c \in S : f[c].source = c.text /\ f[c].revised = OrEmpty(Nothing)
  BY DEF Signal
<1>3. \A c \in S : IsSignal(f[c])
  BY <1>2, OrEmptyIsText DEF IsSignal, IsTextOrNothing, ProperClaims
<1>4. ClaimSignals = {f[c] : c \in S}
  BY DEF ClaimSignals
<1>5. f = [c \in DOMAIN f |-> f[c]] /\ DOMAIN f = S
  OBVIOUS
<1> HIDE DEF f, S
<1> QED
  BY <1>1, <1>3, <1>4, <1>5, ImageIsFinite

LEMMA NoteSignalsAre ==
    ASSUME ProperReviews(tables.artifacts, tables.approvals)
    PROVE  IsFiniteSet(NoteSignals) /\ \A s \in NoteSignals : IsSignal(s)
<1> DEFINE S == {r \in tables.approvals : r.type = "artifact" /\ r.notes # Nothing}
           f == [r \in S |-> Signal("review_note", r.target, r.notes, Nothing)]
<1>1. IsFiniteSet(S)
  BY FS_Subset DEF ProperReviews
<1>2. \A r \in S : f[r].source = r.notes /\ f[r].revised = OrEmpty(Nothing)
  BY DEF Signal
<1>3. \A r \in S : IsSignal(f[r])
  BY <1>2, OrEmptyIsText DEF IsSignal, IsTextOrNothing, ProperReviews
<1>4. NoteSignals = {f[r] : r \in S}
  BY DEF NoteSignals
<1>5. f = [r \in DOMAIN f |-> f[r]] /\ DOMAIN f = S
  OBVIOUS
<1> HIDE DEF f, S
<1> QED
  BY <1>1, <1>3, <1>4, <1>5, ImageIsFinite

LEMMA CollectSignalsStep ==
    ASSUME EvaluationIInv, CollectLearningSignals
    PROVE  EvaluationIInv'
<1>1. ProperTables(tables)
  BY DEF EvaluationIInv
<1>2. PICK mined : mined = EditSignals \cup ClaimSignals \cup NoteSignals
  OBVIOUS
<1>3. IsFiniteSet(mined) /\ \A s \in mined : IsSignal(s)
  <2>1. /\ IsFiniteSet(EditSignals) /\ \A s \in EditSignals : IsSignal(s)
        /\ IsFiniteSet(ClaimSignals) /\ \A s \in ClaimSignals : IsSignal(s)
        /\ IsFiniteSet(NoteSignals) /\ \A s \in NoteSignals : IsSignal(s)
    BY <1>1, EditSignalsAre, ClaimSignalsAre, NoteSignalsAre DEF ProperTables
  <2>2. IsFiniteSet(EditSignals \cup ClaimSignals)
    BY ONLY <2>1, FS_Union
  <2>3. IsFiniteSet(EditSignals \cup ClaimSignals \cup NoteSignals)
    BY ONLY <2>1, <2>2, FS_Union
  <2> QED
    BY <1>2, <2>1, <2>3
<1>4. PICK signals : signals = SetToSeq(mined)
  OBVIOUS
<1>5. signals \in Seq(mined)
  BY <1>3, <1>4, SetToSeqIs
<1>6. ProperSignals(signals)
  <2>1. signals \in Seq(Range(signals))
    BY <1>5, SeqDef DEF Range
  <2>2. \A i \in DOMAIN signals : signals[i] \in mined
    BY <1>5
  <2> QED
    BY <1>3, <2>1, <2>2 DEF ProperSignals, IsText, IsSignal
<1>7. PICK t : t = [tables EXCEPT !.signals = signals]
  OBVIOUS
<1>8. /\ DOMAIN t = TableNames /\ t.artifacts = tables.artifacts /\ t.approvals = tables.approvals
      /\ t.signals = signals /\ t.engagement = tables.engagement
      /\ t.claims = tables.claims /\ t.features = tables.features /\ t.media = tables.media
      /\ t.candidates = tables.candidates /\ t.notified = tables.notified
  BY <1>1, <1>7 DEF ProperTables, TableNames
<1>9. ProperTables(t)
  BY <1>1, <1>6, <1>8 DEF ProperTables
<1>10. Write(t)
  BY <1>2, <1>4, <1>7 DEF CollectLearningSignals
<1> QED
  BY <1>8, <1>9, <1>10, ReportsStay, WriteStep

\* A report takes the place, and the time, of the one under its key; a report
\* under a new key is the first of its time.
LEMMA IngestStep ==
    ASSUME EvaluationIInv, NEW report \in Reports, Ingest(report)
    PROVE  EvaluationIInv'
<1>1. ProperTables(tables) /\ ProperReports(tables.engagement) /\ writes \in Nat
      /\ ReportsAreOld(tables.engagement, writes)
  BY DEF EvaluationIInv, ProperTables
<1>2. PICK old : old = InPlace(report)
  OBVIOUS
<1>3. PICK created : created = IF old = {} THEN Now ELSE (CHOOSE r \in old : TRUE).created
  OBVIOUS
<1>4. PICK row : row = With(report, "created", created)
  OBVIOUS
<1>5. SameReport(row, report) /\ row.created = created /\ row.as_of \in Nat
  <2>1. DOMAIN report = {"artifact", "value", "as_of", "source"} /\ report.as_of \in Nat
    BY EvaluationAssumption
  <2>2. row.artifact = report.artifact /\ row.as_of = report.as_of /\ row.source = report.source
    BY <1>4, <2>1 DEF With
  <2> QED
    BY <1>4, <2>1, <2>2 DEF With, SameReport
<1>6. PICK others : others = tables.engagement \ old
  OBVIOUS
<1>7. \A r \in others : r \in tables.engagement /\ ~SameReport(r, report)
  BY <1>2, <1>6 DEF InPlace
<1>8. /\ created \in Nat /\ created <= writes + 1
      /\ \A r \in others : ~(r.artifact = row.artifact /\ r.as_of = row.as_of /\ r.created = created)
  <2>1. CASE old = {}
    <3>1. created = writes + 1
      BY <1>3, <2>1 DEF Now
    <3>2. \A r \in others : r.created \in Nat /\ r.created <= writes
      BY <1>1, <1>7 DEF ProperReports, ReportsAreOld
    <3> QED
      BY <1>1, <3>1, <3>2
  <2>2. CASE old # {}
    <3>1. PICK r \in old : created = r.created
      BY <1>3, <2>2
    <3>2. r \in tables.engagement /\ SameReport(r, report)
      BY <1>2 DEF InPlace
    <3>3. r.created \in Nat /\ r.created <= writes
      BY <1>1, <3>2 DEF ProperReports, ReportsAreOld
    <3>4. r.artifact = row.artifact /\ r.as_of = row.as_of
      BY <1>5, <3>2 DEF SameReport
    <3>5. ASSUME NEW s \in others, s.artifact = row.artifact, s.as_of = row.as_of, s.created = created
          PROVE  FALSE
      <4>1. s = r
        BY <1>1, <1>7, <3>1, <3>2, <3>4, <3>5 DEF ProperReports
      <4> QED
        BY <1>7, <3>2, <4>1
    <3> QED
      BY <1>1, <3>1, <3>3, <3>5
  <2> QED
    BY <2>1, <2>2
<1>9. ProperReports(others \cup {row})
  <2>1. IsFiniteSet(others \cup {row})
    <3>1. IsFiniteSet(tables.engagement) /\ others \in SUBSET tables.engagement
      BY <1>1, <1>6 DEF ProperReports
    <3>2. IsFiniteSet(others)
      BY ONLY <3>1, FS_Subset
    <3> QED
      BY ONLY <3>2, FS_AddElement
  <2>2. \A r \in others \cup {row} : r.as_of \in Nat /\ r.created \in Nat
    BY <1>1, <1>5, <1>7, <1>8 DEF ProperReports
  <2>3. \A r \in others : ~SameReport(r, row) /\ ~SameReport(row, r)
    BY <1>5, <1>7 DEF SameReport
  <2>4. \A r, s \in others :
           SameReport(r, s) \/ (r.artifact = s.artifact /\ r.as_of = s.as_of /\ r.created = s.created) => r = s
    BY <1>1, <1>7 DEF ProperReports
  <2>5. \A r, s \in others \cup {row} :
           SameReport(r, s) \/ (r.artifact = s.artifact /\ r.as_of = s.as_of /\ r.created = s.created) => r = s
    BY <1>5, <1>8, <2>3, <2>4
  <2> QED
    BY <2>1, <2>2, <2>5 DEF ProperReports
<1>10. ReportsAreOld(others \cup {row}, writes + 1)
  <2>1. \A r \in others : r.created \in Nat /\ r.created <= writes
    BY <1>1, <1>7 DEF ProperReports, ReportsAreOld
  <2> QED
    BY <1>1, <1>5, <1>8, <2>1 DEF ReportsAreOld
<1>11. PICK t : t = [tables EXCEPT !.engagement = others \cup {row}]
  OBVIOUS
<1>12. /\ DOMAIN t = TableNames /\ t.artifacts = tables.artifacts /\ t.approvals = tables.approvals
       /\ t.signals = tables.signals /\ t.engagement = others \cup {row}
       /\ t.claims = tables.claims /\ t.features = tables.features /\ t.media = tables.media
      /\ t.candidates = tables.candidates /\ t.notified = tables.notified
  BY <1>1, <1>11 DEF ProperTables, TableNames
<1>13. ProperTables(t)
  BY <1>1, <1>9, <1>12 DEF ProperTables
<1>14. Write(t)
  BY <1>2, <1>3, <1>4, <1>6, <1>11 DEF Ingest
<1> QED
  BY <1>10, <1>12, <1>13, <1>14, WriteStep

LEMMA TablesStep ==
    ASSUME EvaluationIInv,
           \/ \E row \in ClaimRows : PersistClaim(row)
           \/ \E f \in DOMAIN tables.features : ReviewFeature(f)
           \/ \E s \in {"ready", "broken"} : InsertMedia(s)
           \/ \E a \in DOMAIN tables.artifacts :
                 ApproveArtifact(a) \/ (\E notes \in Notes : RejectArtifact(a, notes)) \/ \E edit \in Edits : EditArtifact(a, edit)
           \/ \E gate \in Gates : DecideGate(gate) \/ Notify(gate)
           \/ CollectLearningSignals
           \/ \E report \in Reports : Ingest(report)
    PROVE  EvaluationIInv'
BY PersistClaimStep, ReviewFeatureStep, InsertMediaStep, ApproveArtifactStep, RejectArtifactStep,
   EditArtifactStep, DecideGateStep, NotifyStep, CollectSignalsStep, IngestStep

LEMMA EvaluationInitIInv == EvaluationInit => EvaluationIInv
<1> SUFFICES ASSUME EvaluationInit PROVE EvaluationIInv
  OBVIOUS
<1>1. ProperTables(tables) /\ ReportsAreOld(tables.engagement, writes) /\ writes \in Nat
  BY EvaluationAssumption DEF EvaluationInit, ReportsAreOld
<1>2. cache \in InitialCaches /\ evals = {} /\ job = [e \in Jobs |-> Idle]
  BY DEF EvaluationInit
<1>3. \A e \in Jobs : JobInv(e)
  BY <1>2, IdleIs DEF JobInv, RecordsOnce, AsksAboutTodo, AnswerIsKept, ReadsOneState, Places, Judging
<1>4. CacheTells /\ NothingTwice
  BY <1>2, EvaluationAssumption DEF CacheTells, NothingTwice
<1> QED
  BY <1>1, <1>2, <1>3, <1>4 DEF EvaluationIInv

LEMMA EvaluationInductive == EvaluationIInv /\ [EvaluationNext]_evaluationVars => EvaluationIInv'
<1> SUFFICES ASSUME EvaluationIInv, [EvaluationNext]_evaluationVars PROVE EvaluationIInv'
  OBVIOUS
<1>1. CASE \E e \in Jobs :
             \/ Start(e) \/ Read(e) \/ RecordMetrics(e) \/ ListApproved(e)
             \/ Ask(e) \/ Put(e) \/ Score(e) \/ Fail(e)
             \/ \E v \in Verdicts : Converse(e, v)
  BY <1>1, StartStep, ReadStep, RecordMetricsStep, ListApprovedStep, AskStep, ConverseStep, PutStep,
     ScoreStep, FailStep
<1>2. CASE UNCHANGED evaluationVars
  <2>1. UNCHANGED << tables, cache, evals, job, writes >>
    BY <1>2 DEF evaluationVars
  <2>2. ProperTables(tables)' /\ ReportsAreOld(tables.engagement, writes)' /\ WritesCount
    BY <2>1 DEF EvaluationIInv, WritesCount
  <2> QED
    BY <2>1, <2>2, Rewritten
<1> QED
  BY <1>1, <1>2, TablesStep DEF EvaluationNext

THEOREM EvaluationInvariance == EvaluationSpec => []EvaluationIInv
BY EvaluationInitIInv, EvaluationInductive, PTL DEF EvaluationSpec

-----------------------------------------------------------------------------
(* Evaluation: the theorems *)

\* A row of eval_runs is of an evaluation, its type decides its columns, no
\* evaluation records one metric, or one artifact, twice, and an engagement
\* report is kept once under its key, whatever is written meanwhile.
THEOREM EvaluationTypeCorrect == EvaluationSpec => []EvaluationTypeOK
<1>1. EvaluationIInv => EvaluationTypeOK
  BY DEF EvaluationIInv, EvaluationTypeOK, ProperTables, ProperReports, RowInv, NothingTwice, Rubric
<1> QED
  BY <1>1, EvaluationInvariance, PTL

\* A score is of the body it is filed under, and no body of an artifact has two
\* scores, although evaluations meet in the cache, the judge answers each call
\* anew, and earlier evaluations left answers about bodies since rewritten.
THEOREM OneBodyOneScore == EvaluationSpec => []ScoresAreOfTheBody
<1>1. EvaluationIInv => ScoresAreOfTheBody
  <2> SUFFICES ASSUME EvaluationIInv, NEW r \in evals, NEW s \in evals, Rubric(r), Rubric(s)
               PROVE  /\ r.of.artifact = r.text.artifact /\ r.of.body = r.text.body
                      /\ r.text.artifact = s.text.artifact /\ r.text.body = s.text.body => r.score = s.score
    BY DEF ScoresAreOfTheBody, Rubric
  <2>1. IdempotencyKey(r.of) = IdempotencyKey(r.text)
    BY DEF EvaluationIInv, RowInv
  <2>2. r.of.artifact = r.text.artifact /\ r.of.body = r.text.body
    BY <2>1 DEF IdempotencyKey
  <2>3. r.score = cache[IdempotencyKey(r.text)].verdict /\ s.score = cache[IdempotencyKey(s.text)].verdict
    BY DEF EvaluationIInv, RowInv
  <2> QED
    BY <2>2, <2>3 DEF IdempotencyKey
<1> QED
  BY <1>1, EvaluationInvariance, PTL

\* A metric an evaluation records, when no write overlapped its fourteen
\* statements, is what it stands for in one state of the tables: the share of
\* the claims, features, candidates or media, the mean of the times that nothing
\* had been decided, the total of the reports that stand, and, where the signals
\* are one rewriting for each artifact, the mean of the least numbers of edits;
\* and of nothing there is no rate.
THEOREM MetricsMeanWhatTheySay == EvaluationSpec => []MetricsAreTrue
<1>1. EvaluationIInv => MetricsAreTrue
  <2> SUFFICES ASSUME EvaluationIInv, NEW r \in evals, r.type # "rubric", NEW m \in r.meant
               PROVE  SameScore(r.score, m)
    BY DEF MetricsAreTrue
  <2>1. PICK t : /\ ProperTables(t) /\ r.type \in DOMAIN Meant(t)
                 /\ m = Meant(t)[r.type] /\ r.score = ProductMetrics(Answers(t))[r.type]
    BY DEF EvaluationIInv, RowInv, OfOneState, Rubric
  <2>2. r.score = m
    BY <2>1, MetricsSayWhatTheyMean
  <2> QED
    BY <2>2 DEF SameScore
<1> QED
  BY <1>1, EvaluationInvariance, PTL
=============================================================================

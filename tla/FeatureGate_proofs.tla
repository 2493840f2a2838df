------------------------- MODULE FeatureGate_proofs -------------------------
(***************************************************************************)
(* Proofs about FeatureGate, for any ranges, any answers of the model and   *)
(* any number of jobs, reviews and faults.                                  *)
(*                                                                          *)
(* What a job carries between two nodes is where its properties are kept:   *)
(* IInv says what the job, the checkpoint and the stores have to do with    *)
(* each other (WhereInv, ManifestInv), that whatever is in any of them is   *)
(* redacted (CleanInv), and that a post without its mark was paid (ToldInv).*)
(***************************************************************************)
EXTENDS FeatureGate, TLAPS

-----------------------------------------------------------------------------
(* The inductive invariant *)

Ids(items) == {EvidenceId(e) : e \in items}

Shape ==
    /\ DOMAIN job = {"at", "value", "todo", "half"}
    /\ DOMAIN thread = {"next", "evidence", "scored", "features", "decision"}
    /\ DOMAIN ledger = {"attempts", "told"} /\ ledger.told \in BOOLEAN
    /\ DOMAIN features \subseteq Numbers
    /\ \A n \in DOMAIN features : DOMAIN features[n] = {"ids", "links", "status"}
    /\ job.value \in Decisions \cup {None} /\ queued \in Decisions \cup {None}
    /\ marker \in Decisions \cup {None}
    /\ posts \in Nat
    /\ initials \in 0..MaxInitial /\ reviews \in 0..MaxReviews /\ faults \in 0..MaxFaults

\* A job is in the node the checkpoint names; telling the reviewers comes after
\* the halt at the gate.
WhereInv ==
    /\ thread.next \notin {"notify", "mark"}
    /\ ~In("idle") => thread.next = IF job.at \in {"notify", "mark"} THEN "gate" ELSE job.at
    /\ In("decide") \/ thread.next = "decide" => thread.decision \in Decisions
    /\ In("decide") => job.todo \subseteq thread.features

\* A text, and an item, without a personal token.
Clean(text) == ToSet(text) \cap Personal = {}
CleanItem(e) == Clean(e.excerpt) /\ Clean(e.meta)

CleanInv ==
    /\ \A id \in blobs : Clean(id[5])
    /\ \A e \in rows \cup thread.evidence \cup UNION DOMAIN answers : CleanItem(e)
    /\ In("collect") => \A e \in job.todo : CleanItem(e)

\* Rows stand for stored blobs, one for an id.
RowsInv ==
    /\ Ids(rows) \subseteq blobs
    /\ \A e, d \in rows : EvidenceId(e) = EvidenceId(d) => e = d
    /\ thread.evidence \subseteq rows

\* Ids of stored evidence that was in one prompt, whose answer is kept.
Grounded(ids) ==
    ids # {} /\ \E shown \in DOMAIN answers : ids \subseteq Ids(rows \cap shown)

\* A feature still to be inserted, and one of the manifest, is grounded; only the
\* one that was begun lacks links.
Linked(n) ==
    /\ Grounded(features[n].ids)
    /\ features[n].links = features[n].ids \/ (In("persist") /\ job.half = n)

ManifestInv ==
    /\ \A sf \in thread.scored : Grounded(sf.ids)
    /\ In("persist") => job.todo \subseteq thread.scored
    /\ In("persist") /\ job.half # None => job.half \in thread.features
    /\ thread.features \subseteq DOMAIN features
    /\ \A n \in thread.features : Linked(n)
    /\ \A n \in DOMAIN features :
          /\ features[n].links \subseteq features[n].ids
          /\ features[n].status \in Decisions \cup {"pending_review"}

\* What was posted is on the ledger, about to be put there, or was paid for.
Booked == ledger.told \/ In("mark")
ToldInv ==
    /\ In("notify") \/ In("mark") => ~ledger.told
    /\ posts <= faults + (IF Booked THEN 1 ELSE 0)

IInv == Shape /\ WhereInv /\ CleanInv /\ RowsInv /\ ManifestInv /\ ToldInv

-----------------------------------------------------------------------------
(* What redaction and the selection return *)

LEMMA RedactCleans == ASSUME NEW t PROVE Clean(Redact(t).text)
<1>1. "redacted" \notin Personal
  BY DEF Personal, RiskFlag
<1>2. ASSUME NEW x \in ToSet(Redact(t).text) PROVE x \notin Personal
  <2>1. PICK i \in DOMAIN t : x = IF t[i] \in Personal THEN "redacted" ELSE t[i]
    BY <1>2 DEF ToSet, Redact
  <2> QED BY <2>1, <1>1
<1> QED BY <1>2 DEF Clean

LEMMA RedactedIsClean == ASSUME NEW i PROVE CleanItem(RedactEvidence(i))
<1>1. Clean(Redact(i.text).text) /\ Clean(Redact(i.meta).text)
  BY RedactCleans
<1> QED BY <1>1 DEF CleanItem, RedactEvidence, RedactedEvidence

\* An item's id has its excerpt.
LEMMA IdHasExcerpt == ASSUME NEW e PROVE EvidenceId(e)[5] = e.excerpt
BY DEF EvidenceId

LEMMA SelectionIsStored == ASSUME NEW s \in Selections(rows) PROVE s \subseteq rows
BY DEF Selections

\* What ON CONFLICT DO NOTHING leaves: the old rows, and one for each new id.
LEMMA InsertedRows ==
    ASSUME NEW items,
           \A e, d \in rows : EvidenceId(e) = EvidenceId(d) => e = d
    PROVE  /\ rows \subseteq Inserted(items)
           /\ Inserted(items) \subseteq rows \cup items
           /\ \A e, d \in Inserted(items) : EvidenceId(e) = EvidenceId(d) => e = d
<1> DEFINE fresh == Ids(items) \ Ids(rows)
           new(id) == CHOOSE e \in items : EvidenceId(e) = id
<1>1. \A id \in fresh : new(id) \in items /\ EvidenceId(new(id)) = id
  BY DEF Ids
<1>2. Inserted(items) = rows \cup {new(id) : id \in fresh}
  BY DEF Inserted, Ids
<1>3. ASSUME NEW e \in Inserted(items), NEW d \in Inserted(items), EvidenceId(e) = EvidenceId(d)
      PROVE  e = d
  <2>1. CASE e \in rows /\ d \in rows
    BY <2>1, <1>3
  <2>2. CASE e \notin rows /\ d \notin rows
    <3>1. PICK id1 \in fresh : e = new(id1)
      BY <2>2, <1>2
    <3>2. PICK id2 \in fresh : d = new(id2)
      BY <2>2, <1>2
    <3> HIDE DEF new, fresh
    <3> QED BY <3>1, <3>2, <1>1, <1>3
  <2>3. CASE (e \in rows) # (d \in rows)
    <3> HIDE DEF new
    <3> QED BY <2>3, <1>1, <1>2, <1>3 DEF Ids
  <2> QED BY <2>1, <2>2, <2>3
<1> HIDE DEF new
<1> QED BY <1>1, <1>2, <1>3

LEMMA KnownIdsAreShown ==
    ASSUME NEW answer, NEW s, NEW ids \in KnownIds(answer, s)
    PROVE  ids # {} /\ ids \subseteq Ids(s)
BY DEF KnownIds, Ids

-----------------------------------------------------------------------------
(* It is inductive *)

LEMMA InitIInv == Init => IInv
<1> SUFFICES ASSUME Init PROVE IInv
  OBVIOUS
<1> USE FeatureGateAssumption DEF Init, Idle, Job, FreshState
<1>1. Shape
  BY DEF Shape
<1>2. WhereInv /\ CleanInv /\ RowsInv /\ ManifestInv /\ ToldInv
  BY DEF WhereInv, CleanInv, RowsInv, ManifestInv, ToldInv, Booked, In, Ids
<1> QED BY <1>1, <1>2 DEF IInv

LEMMA StepShape == Shape /\ WhereInv /\ [Next]_vars => Shape'
<1> SUFFICES ASSUME Shape, WhereInv, [Next]_vars PROVE Shape'
  OBVIOUS
<1> USE FeatureGateAssumption
<1>1. ASSUME NEW diff, StartInitial(diff) \/ StartResumeCollecting(diff) PROVE Shape'
  BY <1>1 DEF Shape, StartInitial, StartResumeCollecting, FreshState, Job, stores, gate, counts
<1>2. ASSUME NEW item, StoreBlob(item) PROVE Shape'
  BY <1>2 DEF Shape, StoreBlob, gate, counts
<1>3. ASSUME NEW item, InsertFeature(item) PROVE Shape'
  <2> DEFINE n == CHOOSE n \in Numbers : n \notin DOMAIN features
  <2>1. n \in Numbers
    BY <1>3 DEF InsertFeature
  <2>2. features' = With(features, n, Feature(item.ids))
    BY <1>3 DEF InsertFeature
  <2> HIDE DEF n
  <2>3. DOMAIN features' = DOMAIN features \cup {n}
    BY <2>2 DEF With
  <2>4. \A m \in DOMAIN features' : DOMAIN features'[m] = {"ids", "links", "status"}
    BY <2>2, <2>3 DEF With, Feature, Shape
  <2> QED BY <1>3, <2>1, <2>3, <2>4 DEF InsertFeature, Shape, gate, counts
<1>4. CASE RecordMany
  BY <1>4 DEF RecordMany, Checkpoint, Job, Idle, Shape, gate, counts
<1>5. ASSUME NEW s, NEW answer, ClusterFeatures(s, answer) PROVE Shape'
  <2>1. CASE answer = Malformed
    BY <1>5, <2>1 DEF ClusterFeatures, Job, Idle, Shape, gate, counts
  <2>2. CASE answer # Malformed
    BY <1>5, <2>2 DEF ClusterFeatures, Checkpoint, Job, Idle, Shape, gate, counts
  <2> QED BY <2>1, <2>2
<1>6. CASE LinkEvidence
  BY <1>6 DEF LinkEvidence, Shape, gate, counts
<1>7. CASE ManifestPersisted \/ Complete
  BY <1>7 DEF ManifestPersisted, Complete, Checkpoint, Job, Idle, Shape, stores, gate, counts
<1>8. CASE Halt \/ PostAccepted
  BY <1>8 DEF Halt, PostAccepted, Job, Idle, Shape, stores, gate, counts
<1>9. CASE PostFails \/ MarkNotified
  <2>1. DOMAIN ledger' = {"attempts", "told"} /\ ledger'.told \in BOOLEAN
    <3>1. CASE PostFails
      BY <3>1 DEF PostFails, Shape
    <3>2. CASE MarkNotified
      <4>1. ledger' = [attempts |-> ledger.attempts + 1, told |-> TRUE]
        BY <3>2 DEF MarkNotified
      <4> QED BY <4>1
    <3> QED BY <1>9, <3>1, <3>2
  <2>2. posts' \in Nat /\ faults' \in 0..MaxFaults
    BY <1>9 DEF PostFails, MarkNotified, Fault, Shape, counts
  <2>3. DOMAIN job' = {"at", "value", "todo", "half"} /\ job'.value \in Decisions \cup {None}
    BY <1>9 DEF PostFails, MarkNotified, Job, Idle, Shape
  <2> QED BY <1>9, <2>1, <2>2, <2>3 DEF PostFails, MarkNotified, Shape, gate, counts
<1>10. ASSUME NEW n, NEW d \in Decisions, ReviewFeature(n, d) PROVE Shape'
  BY <1>10 DEF ReviewFeature, Shape, gate, counts
<1>11. ASSUME NEW d \in Decisions, Resume(d) \/ ResumeFails(d) PROVE Shape'
  BY <1>11 DEF Resume, ResumeFails, Fault, Shape, stores, counts
<1>12. CASE StartResume
  BY <1>12 DEF StartResume, Job, Idle, Shape, stores, counts
<1>13. CASE ResolveGate
  <2>1. PICK node \in {"complete", "decide"}, todo \in {{}, thread.features} :
           Checkpoint([thread EXCEPT !.decision = job.value], node, todo)
    BY <1>13 DEF ResolveGate
  <2> QED BY <1>13, <2>1 DEF ResolveGate, Checkpoint, Job, Shape, stores, gate, counts
<1>14. CASE PersistReviewDecision
  BY <1>14 DEF PersistReviewDecision, Checkpoint, Job, Idle, Shape, gate, counts
<1>15. CASE Kill
  BY <1>15 DEF Kill, Fault, Job, Idle, Shape, stores, gate
<1>16. CASE UNCHANGED vars
  BY <1>16 DEF Shape, vars, stores, gate, counts
<1> QED BY <1>1, <1>2, <1>3, <1>4, <1>5, <1>6, <1>7, <1>8, <1>9, <1>10, <1>11, <1>12,
            <1>13, <1>14, <1>15, <1>16 DEF Next

\* The thirteen actions after clustering, which touch no evidence.
Later ==
    \/ \E item : InsertFeature(item)
    \/ LinkEvidence \/ ManifestPersisted
    \/ Halt \/ PostAccepted \/ PostFails \/ MarkNotified
    \/ \E n, d : ReviewFeature(n, d)
    \/ \E d \in Decisions : Resume(d) \/ ResumeFails(d)
    \/ StartResume \/ ResolveGate \/ PersistReviewDecision \/ Complete
    \/ Kill

LEMMA NextCases ==
    Next => \/ \E diff : StartInitial(diff) \/ StartResumeCollecting(diff)
            \/ \E item : StoreBlob(item)
            \/ RecordMany
            \/ \E s \in Selections(rows) : \E answer : ClusterFeatures(s, answer)
            \/ Later
BY DEF Next, Later

\* They leave the evidence alone, and a job that then collects did so before.
LEMMA LaterKeepsEvidence ==
    Shape /\ Later => /\ UNCHANGED << blobs, rows, answers >>
                      /\ thread'.evidence = thread.evidence
                      /\ In("collect")' => In("collect") /\ job'.todo = job.todo
<1> SUFFICES ASSUME Shape, Later
             PROVE  /\ UNCHANGED << blobs, rows, answers >>
                    /\ thread'.evidence = thread.evidence
                    /\ In("collect")' => In("collect") /\ job'.todo = job.todo
  OBVIOUS
<1> USE DEF Shape, In, stores
<1>1. ASSUME NEW item, InsertFeature(item) PROVE thread'.evidence = thread.evidence
  BY <1>1 DEF InsertFeature
<1>2. CASE \E item : InsertFeature(item)
  BY <1>1, <1>2 DEF InsertFeature
<1>3. CASE LinkEvidence
  BY <1>3 DEF LinkEvidence
<1>4. CASE ManifestPersisted \/ Complete
  BY <1>4 DEF ManifestPersisted, Complete, Checkpoint, Job, Idle
<1>5. CASE Halt \/ PostAccepted \/ PostFails \/ MarkNotified
  <2>1. UNCHANGED << blobs, rows, answers, thread >>
    BY <1>5 DEF Halt, PostAccepted, PostFails, MarkNotified
  <2>2. job' = job \/ job'.at \in {"idle", "notify", "mark"}
    BY <1>5 DEF Halt, PostAccepted, PostFails, MarkNotified, Job, Idle
  <2> QED BY <2>1, <2>2
<1>6. CASE \E n, d : ReviewFeature(n, d)
  BY <1>6 DEF ReviewFeature
<1>7. CASE \E d \in Decisions : Resume(d) \/ ResumeFails(d)
  BY <1>7 DEF Resume, ResumeFails
<1>8. CASE StartResume
  BY <1>8 DEF StartResume, Job, Idle
<1>9. CASE ResolveGate
  <2>1. PICK node \in {"complete", "decide"}, todo \in {{}, thread.features} :
           Checkpoint([thread EXCEPT !.decision = job.value], node, todo)
    BY <1>9 DEF ResolveGate
  <2> QED BY <1>9, <2>1 DEF ResolveGate, Checkpoint, Job
<1>10. CASE PersistReviewDecision
  BY <1>10 DEF PersistReviewDecision, Checkpoint, Job
<1>11. CASE Kill
  BY <1>11 DEF Kill, Job, Idle
<1> QED BY <1>2, <1>3, <1>4, <1>5, <1>6, <1>7, <1>8, <1>9, <1>10, <1>11 DEF Later

\* Clustering fails the job, or leaves the features it scored and the evidence.
Scored(answer, s) == {Score(ids, rows) : ids \in KnownIds(answer, s)}

Failed == job' = Idle /\ UNCHANGED thread
Done(scored) ==
    /\ job' = Job("persist", job.value, scored)
    /\ thread'.next = "persist" /\ thread'.evidence = rows /\ thread'.scored = scored
    /\ thread'.features = thread.features /\ thread'.decision = thread.decision

LEMMA Clustered ==
    ASSUME Shape, NEW s, NEW answer, ClusterFeatures(s, answer)
    PROVE  Failed \/ Done(Scored(answer, s))
<1> DEFINE scored == Scored(answer, s)
           left   == [thread EXCEPT !.evidence = rows, !.scored = scored]
<1>1. CASE answer = Malformed
  BY <1>1 DEF ClusterFeatures, Failed
<1>2. CASE answer # Malformed
  <2>1. Checkpoint(left, "persist", scored)
    BY <1>2 DEF ClusterFeatures, Scored
  <2>2. DOMAIN left = DOMAIN thread /\ left.evidence = rows /\ left.scored = scored
        /\ left.features = thread.features /\ left.decision = thread.decision
    <3> HIDE DEF scored
    <3> QED BY DEF Shape
  <2> HIDE DEF left, scored
  <2>3. job' = Job("persist", job.value, scored) /\ thread' = [left EXCEPT !.next = "persist"]
    BY <2>1 DEF Checkpoint
  <2>4. /\ thread'.next = "persist" /\ thread'.evidence = rows /\ thread'.scored = scored
        /\ thread'.features = thread.features /\ thread'.decision = thread.decision
    BY <2>2, <2>3 DEF Shape
  <2>5. Done(scored)
    BY <2>3, <2>4 DEF Done
  <2> QED BY <2>5 DEF scored
<1> QED BY <1>1, <1>2

LEMMA StepClean == IInv /\ [Next]_vars => CleanInv'
<1> SUFFICES ASSUME Shape, CleanInv, RowsInv, [Next]_vars PROVE CleanInv'
  BY DEF IInv
<1> USE DEF Shape, In
<1>1. ASSUME NEW diff, StartInitial(diff) \/ StartResumeCollecting(diff) PROVE CleanInv'
  <2>1. job'.todo = {RedactEvidence(i) : i \in Collected(diff)}
    BY <1>1 DEF StartInitial, StartResumeCollecting, Job
  <2>2. thread'.evidence \subseteq thread.evidence /\ UNCHANGED << blobs, rows, answers >>
    BY <1>1 DEF StartInitial, StartResumeCollecting, FreshState, stores
  <2> QED BY <2>1, <2>2, RedactedIsClean DEF CleanInv
<1>2. ASSUME NEW item, StoreBlob(item) PROVE CleanInv'
  BY <1>2, IdHasExcerpt DEF StoreBlob, CleanInv, CleanItem
<1>3. CASE RecordMany
  <2>1. rows' \subseteq rows \cup job.todo /\ job.at = "collect"
    BY <1>3, InsertedRows DEF RecordMany, RowsInv
  <2>2. thread'.evidence = thread.evidence /\ job'.at = "cluster" /\ UNCHANGED << blobs, answers >>
    BY <1>3 DEF RecordMany, Checkpoint, Job
  <2> QED BY <2>1, <2>2 DEF CleanInv
<1>4. ASSUME NEW s \in Selections(rows), NEW answer, ClusterFeatures(s, answer) PROVE CleanInv'
  <2>1. DOMAIN answers' \subseteq DOMAIN answers \cup {s}
    BY <1>4 DEF ClusterFeatures, Answer, With
  <2>2. /\ thread'.evidence \in {rows, thread.evidence} /\ job'.at \in {"persist", "idle"}
        /\ UNCHANGED << blobs, rows >>
    <3>1. Failed \/ Done(Scored(answer, s))
      BY <1>4, Clustered
    <3>2. job'.at \in {"persist", "idle"} /\ thread'.evidence \in {rows, thread.evidence}
      BY <3>1 DEF Failed, Done, Job, Idle
    <3> QED BY <1>4, <3>2 DEF ClusterFeatures
  <2> QED BY <2>1, <2>2, SelectionIsStored DEF CleanInv
<1>5. CASE Later
  BY <1>5, LaterKeepsEvidence DEF CleanInv
<1>6. CASE UNCHANGED vars
  BY <1>6 DEF CleanInv, vars, stores
<1> QED BY <1>1, <1>2, <1>3, <1>4, <1>5, <1>6, NextCases

LEMMA StepRows == IInv /\ [Next]_vars => RowsInv'
<1> SUFFICES ASSUME Shape, RowsInv, [Next]_vars PROVE RowsInv'
  BY DEF IInv
<1> USE DEF Shape, In
<1>1. ASSUME NEW diff, StartInitial(diff) \/ StartResumeCollecting(diff) PROVE RowsInv'
  BY <1>1 DEF StartInitial, StartResumeCollecting, FreshState, stores, RowsInv, Ids
<1>2. ASSUME NEW item, StoreBlob(item) PROVE RowsInv'
  BY <1>2 DEF StoreBlob, RowsInv, Ids
<1>3. CASE RecordMany
  <2>1. /\ rows \subseteq rows' /\ rows' \subseteq rows \cup job.todo
        /\ \A e, d \in rows' : EvidenceId(e) = EvidenceId(d) => e = d
    BY <1>3, InsertedRows DEF RecordMany, RowsInv
  <2>2. Ids(job.todo) \subseteq blobs /\ blobs' = blobs /\ thread'.evidence = thread.evidence
    BY <1>3 DEF RecordMany, Checkpoint, Ids
  <2> QED BY <2>1, <2>2 DEF RowsInv, Ids
<1>4. ASSUME NEW s, NEW answer, ClusterFeatures(s, answer) PROVE RowsInv'
  BY <1>4 DEF ClusterFeatures, Checkpoint, RowsInv, Ids
<1>5. CASE Later
  BY <1>5, LaterKeepsEvidence DEF RowsInv, Ids
<1>6. CASE UNCHANGED vars
  BY <1>6 DEF RowsInv, Ids, vars, stores
<1> QED BY <1>1, <1>2, <1>3, <1>4, <1>5, <1>6, NextCases

LEMMA StepTold == IInv /\ [Next]_vars => ToldInv'
<1> SUFFICES ASSUME Shape, WhereInv, ToldInv, [Next]_vars PROVE ToldInv'
  BY DEF IInv
<1> USE FeatureGateAssumption DEF Shape, In
<1> DEFINE Telling == {"notify", "mark"}
<1>1. ASSUME UNCHANGED << ledger, posts, faults >>, job.at # "mark",
             job'.at \notin Telling \/ job'.at = job.at
      PROVE  ToldInv'
  BY <1>1 DEF ToldInv, Booked
<1>2. ASSUME NEW diff, StartInitial(diff) \/ StartResumeCollecting(diff) PROVE ToldInv'
  BY <1>1, <1>2 DEF StartInitial, StartResumeCollecting, Job, stores, counts
<1>3. ASSUME NEW item, StoreBlob(item) PROVE ToldInv'
  BY <1>1, <1>3 DEF StoreBlob, counts
<1>4. ASSUME NEW item, InsertFeature(item) PROVE ToldInv'
  BY <1>1, <1>4 DEF InsertFeature, counts
<1>5. CASE RecordMany
  BY <1>1, <1>5 DEF RecordMany, Checkpoint, Job, counts
<1>6. ASSUME NEW s, NEW answer, ClusterFeatures(s, answer) PROVE ToldInv'
  BY <1>1, <1>6 DEF ClusterFeatures, Checkpoint, Idle, Job, counts
<1>7. CASE LinkEvidence
  BY <1>1, <1>7 DEF LinkEvidence, counts
<1>8. CASE ManifestPersisted \/ Complete
  BY <1>1, <1>8 DEF ManifestPersisted, Complete, Checkpoint, Job, Idle, stores, counts
<1>9. CASE Halt
  <2>1. UNCHANGED << ledger, posts, faults >> /\ job.at = "gate"
    BY <1>9 DEF Halt, stores, counts
  <2>2. job'.at = IF ledger.told THEN "idle" ELSE "notify"
    BY <1>9 DEF Halt, AlreadyNotified, Idle, Job
  <2> QED BY <2>1, <2>2 DEF ToldInv, Booked
<1>10. CASE PostAccepted
  <2>1. job.at = "notify" /\ job'.at = "mark" /\ posts' = posts + 1 /\ UNCHANGED << ledger, faults >>
    BY <1>10 DEF PostAccepted, Job, stores, counts
  <2> QED BY <2>1 DEF ToldInv, Booked
<1>11. CASE PostFails
  <2>1. /\ job.at = "notify" /\ job'.at \in {"notify", "idle"} /\ posts' \in {posts, posts + 1}
        /\ faults' = faults + 1
    BY <1>11 DEF PostFails, Fault, Idle, Job
  <2>2. ledger'.told = ledger.told
    BY <1>11 DEF PostFails
  <2> QED BY <2>1, <2>2 DEF ToldInv, Booked
<1>12. CASE MarkNotified
  <2>1. ledger' = [attempts |-> ledger.attempts + 1, told |-> TRUE]
    BY <1>12 DEF MarkNotified
  <2>2. job.at = "mark" /\ job'.at = "idle" /\ UNCHANGED << posts, faults >>
    BY <1>12 DEF MarkNotified, Idle, Job, counts
  <2> QED BY <2>1, <2>2 DEF ToldInv, Booked
<1>13. ASSUME NEW n, NEW d, ReviewFeature(n, d) PROVE ToldInv'
  BY <1>13 DEF ReviewFeature, ToldInv, Booked
<1>14. ASSUME NEW d, Resume(d) PROVE ToldInv'
  BY <1>14 DEF Resume, ToldInv, Booked, stores, counts
<1>15. ASSUME NEW d, ResumeFails(d) PROVE ToldInv'
  BY <1>15 DEF ResumeFails, Fault, ToldInv, Booked, stores
<1>16. CASE StartResume
  <2>1. job'.at = "idle" \/ job'.at = thread.next
    BY <1>16 DEF StartResume, Job, Idle
  <2>2. thread.next \notin Telling
    BY DEF WhereInv
  <2> QED BY <1>1, <1>16, <2>1, <2>2 DEF StartResume, stores, counts
<1>17. CASE ResolveGate
  <2>1. job'.at \in {"complete", "decide"} /\ job.at = "gate"
    BY <1>17 DEF ResolveGate, Checkpoint, Job
  <2> QED BY <1>1, <1>17, <2>1 DEF ResolveGate, stores, counts
<1>18. CASE PersistReviewDecision
  BY <1>1, <1>18 DEF PersistReviewDecision, Checkpoint, Job, counts
<1>19. CASE Kill
  BY <1>19 DEF Kill, Fault, Idle, Job, ToldInv, Booked, stores
<1>20. CASE UNCHANGED vars
  BY <1>20 DEF ToldInv, Booked, vars, stores, counts
<1> QED BY <1>2, <1>3, <1>4, <1>5, <1>6, <1>7, <1>8, <1>9, <1>10, <1>11, <1>12, <1>13, <1>14,
            <1>15, <1>16, <1>17, <1>18, <1>19, <1>20 DEF Next

LEMMA StepWhere == Shape /\ WhereInv /\ [Next]_vars => WhereInv'
<1> SUFFICES ASSUME Shape, WhereInv, [Next]_vars PROVE WhereInv'
  OBVIOUS
<1> USE FeatureGateAssumption DEF Shape, In, WhereInv
<1>1. ASSUME UNCHANGED thread, UNCHANGED job PROVE WhereInv'
  BY <1>1
<1>2. ASSUME NEW diff, StartInitial(diff) \/ StartResumeCollecting(diff) PROVE WhereInv'
  BY <1>2 DEF StartInitial, StartResumeCollecting, FreshState, Job
<1>3. ASSUME NEW item, StoreBlob(item) PROVE WhereInv'
  BY <1>1, <1>3 DEF StoreBlob
<1>4. ASSUME NEW item, InsertFeature(item) PROVE WhereInv'
  <2>1. /\ job'.at = "persist" /\ job.at = "persist"
        /\ thread'.next = thread.next /\ thread'.decision = thread.decision
    BY <1>4 DEF InsertFeature
  <2> QED BY <2>1
<1>5. CASE RecordMany
  BY <1>5 DEF RecordMany, Checkpoint, Job
<1>6. ASSUME NEW s, NEW answer, ClusterFeatures(s, answer) PROVE WhereInv'
  <2>1. Failed \/ Done(Scored(answer, s))
    BY <1>6, Clustered
  <2>2. CASE Failed
    BY <1>6, <2>2 DEF Failed, ClusterFeatures, Idle, Job
  <2>3. CASE Done(Scored(answer, s))
    BY <2>3 DEF Done, Job
  <2> QED BY <2>1, <2>2, <2>3
<1>7. CASE LinkEvidence
  <2>1. job'.at = job.at /\ job'.todo = job.todo /\ UNCHANGED thread
    BY <1>7 DEF LinkEvidence
  <2> QED BY <2>1
<1>8. CASE ManifestPersisted \/ Complete
  BY <1>8 DEF ManifestPersisted, Complete, Checkpoint, Job, Idle
<1>9. CASE Halt \/ PostAccepted \/ PostFails \/ MarkNotified
  <2>1. UNCHANGED thread /\ job.at \in {"gate", "notify", "mark"}
    BY <1>9 DEF Halt, PostAccepted, PostFails, MarkNotified
  <2>2. job' = job \/ job'.at \in {"idle", "notify", "mark"}
    BY <1>9 DEF Halt, PostAccepted, PostFails, MarkNotified, Job, Idle
  <2> QED BY <2>1, <2>2
<1>10. ASSUME NEW n, NEW d, ReviewFeature(n, d) PROVE WhereInv'
  BY <1>1, <1>10 DEF ReviewFeature
<1>11. ASSUME NEW d, Resume(d) \/ ResumeFails(d) PROVE WhereInv'
  BY <1>1, <1>11 DEF Resume, ResumeFails
<1>12. CASE StartResume
  BY <1>12 DEF StartResume, Job, Idle
<1>13. CASE ResolveGate
  <2> DEFINE resolved == [thread EXCEPT !.decision = job.value]
  <2>1. resolved.decision \in Decisions /\ resolved.features = thread.features
    BY <1>13 DEF ResolveGate
  <2>2. \/ Checkpoint(resolved, "complete", {})
        \/ Checkpoint(resolved, "decide", thread.features)
    BY <1>13 DEF ResolveGate
  <2>3. DOMAIN resolved = DOMAIN thread
    OBVIOUS
  <2> HIDE DEF resolved
  <2> QED BY <2>1, <2>2, <2>3 DEF Checkpoint, Job
<1>14. CASE PersistReviewDecision
  <2>1. CASE job.todo = {}
    BY <1>14, <2>1 DEF PersistReviewDecision, Checkpoint, Job
  <2>2. CASE job.todo # {}
    BY <1>14, <2>2 DEF PersistReviewDecision
  <2> QED BY <2>1, <2>2
<1>15. CASE Kill
  BY <1>15 DEF Kill, Idle, Job
<1>16. CASE UNCHANGED vars
  BY <1>1, <1>16 DEF vars
<1> QED BY <1>2, <1>3, <1>4, <1>5, <1>6, <1>7, <1>8, <1>9, <1>10, <1>11, <1>12,
            <1>13, <1>14, <1>15, <1>16 DEF Next

\* Rows stay, and what was asked stays asked: the grounded stays grounded.
LEMMA GroundedStays ==
    ASSUME RowsInv, [Next]_vars, NEW ids, Grounded(ids) PROVE Grounded(ids)'
<1>1. rows \subseteq rows'
  <2>1. CASE RecordMany
    BY <2>1, InsertedRows DEF RecordMany, RowsInv
  <2>2. CASE ~RecordMany
    <3>1. CASE \E diff : StartInitial(diff) \/ StartResumeCollecting(diff)
      BY <3>1 DEF StartInitial, StartResumeCollecting, stores
    <3>2. CASE \E item : StoreBlob(item) \/ InsertFeature(item)
      BY <3>2 DEF StoreBlob, InsertFeature
    <3>3. CASE \E s, answer : ClusterFeatures(s, answer)
      BY <3>3 DEF ClusterFeatures
    <3>4. CASE LinkEvidence \/ ManifestPersisted \/ Halt \/ PostAccepted \/ PostFails \/ MarkNotified
      BY <3>4 DEF LinkEvidence, ManifestPersisted, Halt, PostAccepted, PostFails, MarkNotified, stores
    <3>5. CASE \/ \E n, d : ReviewFeature(n, d)
               \/ \E d : Resume(d) \/ ResumeFails(d)
      BY <3>5 DEF ReviewFeature, Resume, ResumeFails, stores
    <3>6. CASE StartResume \/ ResolveGate \/ PersistReviewDecision \/ Complete \/ Kill
      BY <3>6 DEF StartResume, ResolveGate, PersistReviewDecision, Complete, Kill, stores
    <3>7. CASE UNCHANGED vars
      BY <3>7 DEF vars, stores
    <3> QED BY <2>2, <3>1, <3>2, <3>3, <3>4, <3>5, <3>6, <3>7 DEF Next
  <2> QED BY <2>1, <2>2
<1>2. DOMAIN answers \subseteq DOMAIN answers'
  <2>1. ASSUME NEW s, NEW answer, ClusterFeatures(s, answer)
        PROVE  DOMAIN answers \subseteq DOMAIN answers'
    BY <2>1 DEF ClusterFeatures, Answer, With
  <2>2. CASE ~\E s, answer : ClusterFeatures(s, answer)
    <3>1. CASE \E diff : StartInitial(diff) \/ StartResumeCollecting(diff)
      BY <3>1 DEF StartInitial, StartResumeCollecting, stores
    <3>2. CASE RecordMany \/ \E item : StoreBlob(item) \/ InsertFeature(item)
      BY <3>2 DEF RecordMany, StoreBlob, InsertFeature
    <3>3. CASE LinkEvidence \/ ManifestPersisted \/ Halt \/ PostAccepted \/ PostFails \/ MarkNotified
      BY <3>3 DEF LinkEvidence, ManifestPersisted, Halt, PostAccepted, PostFails, MarkNotified, stores
    <3>4. CASE \/ \E n, d : ReviewFeature(n, d)
               \/ \E d : Resume(d) \/ ResumeFails(d)
      BY <3>4 DEF ReviewFeature, Resume, ResumeFails, stores
    <3>5. CASE StartResume \/ ResolveGate \/ PersistReviewDecision \/ Complete \/ Kill
      BY <3>5 DEF StartResume, ResolveGate, PersistReviewDecision, Complete, Kill, stores
    <3>6. CASE UNCHANGED vars
      BY <3>6 DEF vars, stores
    <3> QED BY <2>2, <3>1, <3>2, <3>3, <3>4, <3>5, <3>6 DEF Next
  <2> QED BY <2>1, <2>2
<1> QED BY <1>1, <1>2 DEF Grounded, Ids

LEMMA StepManifest == IInv /\ [Next]_vars => ManifestInv'
<1> SUFFICES ASSUME Shape, WhereInv, RowsInv, ManifestInv, [Next]_vars PROVE ManifestInv'
  BY DEF IInv
<1> USE FeatureGateAssumption DEF Shape, In
<1>0. \A ids : Grounded(ids) => Grounded(ids)'
  BY GroundedStays
\* The manifest and the job are left alone, or the job is elsewhere before and
\* after; reviews change only the status of a feature.
<1>1. ASSUME thread'.scored = thread.scored, thread'.features = thread.features,
             DOMAIN features' = DOMAIN features,
             \A n \in DOMAIN features : /\ features'[n].ids = features[n].ids
                                        /\ features'[n].links = features[n].links
                                        /\ features'[n].status \in Decisions \cup {"pending_review"},
             \/ UNCHANGED job
             \/ job.at # "persist" /\ job'.at # "persist"
      PROVE  ManifestInv'
  <2>2. \A n \in thread'.features : n \in DOMAIN features' /\ Linked(n)'
    BY <1>0, <1>1 DEF ManifestInv, Linked
  <2>3. \A sf \in thread'.scored : Grounded(sf.ids)'
    BY <1>0, <1>1 DEF ManifestInv
  <2>4. /\ In("persist")' => job'.todo \subseteq thread'.scored
        /\ In("persist")' /\ job'.half # None => job'.half \in thread'.features
    BY <1>1 DEF ManifestInv
  <2> QED BY <1>1, <2>2, <2>3, <2>4 DEF ManifestInv
<1>2. ASSUME UNCHANGED features PROVE
             /\ DOMAIN features' = DOMAIN features
             /\ \A n \in DOMAIN features : /\ features'[n].ids = features[n].ids
                                           /\ features'[n].links = features[n].links
                                           /\ features'[n].status \in Decisions \cup {"pending_review"}
  BY <1>2 DEF ManifestInv
<1>3. ASSUME NEW diff, StartInitial(diff) PROVE ManifestInv'
  BY <1>3 DEF StartInitial, FreshState, Job, ManifestInv, Linked, stores
<1>4. ASSUME NEW diff, StartResumeCollecting(diff) PROVE ManifestInv'
  BY <1>1, <1>2, <1>4 DEF StartResumeCollecting, Job, stores
<1>5. ASSUME NEW item, StoreBlob(item) PROVE ManifestInv'
  BY <1>1, <1>2, <1>5 DEF StoreBlob
<1>6. ASSUME NEW sf, InsertFeature(sf) PROVE ManifestInv'
  <2> DEFINE n == CHOOSE n \in Numbers : n \notin DOMAIN features
  <2>1. n \in Numbers /\ n \notin DOMAIN features
    BY <1>6 DEF InsertFeature
  <2>2. /\ job.at = "persist" /\ job.half = None /\ sf \in job.todo
        /\ features' = With(features, n, Feature(sf.ids))
        /\ job' = [job EXCEPT !.todo = @ \ {sf}, !.half = n]
        /\ thread' = [thread EXCEPT !.features = @ \cup {n}]
    BY <1>6 DEF InsertFeature
  <2> HIDE DEF n
  <2>3. PICK k : k = n
    OBVIOUS
  <2>4. /\ job'.at = "persist" /\ job'.half = k /\ job'.todo \subseteq job.todo
        /\ thread'.features = thread.features \cup {k} /\ thread'.scored = thread.scored
    BY <2>2, <2>3
  <2>5. /\ DOMAIN features' = DOMAIN features \cup {k}
        /\ features'[k] = [ids |-> sf.ids, links |-> {}, status |-> "pending_review"]
        /\ \A m \in DOMAIN features : features'[m] = features[m]
    BY <2>1, <2>2, <2>3 DEF With, Feature
  <2>6. \A m \in thread.features : features[m].links = features[m].ids
    BY <2>2 DEF ManifestInv, Linked
  <2>7. Grounded(sf.ids)
    BY <2>2 DEF ManifestInv
  <2>8. \A m \in thread'.features : Linked(m)'
    BY <1>0, <2>4, <2>5, <2>6, <2>7 DEF ManifestInv, Linked
  <2> QED BY <1>0, <2>2, <2>4, <2>5, <2>8 DEF ManifestInv
<1>7. CASE RecordMany
  BY <1>1, <1>2, <1>7 DEF RecordMany, Checkpoint, Job
<1>8. ASSUME NEW s \in Selections(rows), NEW answer, ClusterFeatures(s, answer) PROVE ManifestInv'
  <2> DEFINE scored == Scored(answer, s)
  <2>1. CASE Failed
    BY <1>1, <1>2, <1>8, <2>1 DEF Failed, ClusterFeatures, Idle, Job
  <2>2. CASE Done(scored)
    <3>1. /\ job'.at = "persist" /\ job'.todo = scored /\ job'.half = None
          /\ thread'.scored = scored /\ thread'.features = thread.features
          /\ UNCHANGED << features, rows >> /\ job.at = "cluster"
      BY <1>8, <2>2 DEF Done, ClusterFeatures, Job
    <3>2. ASSUME NEW sf \in scored PROVE Grounded(sf.ids)'
      <4>1. PICK ids \in KnownIds(answer, s) : sf = Score(ids, rows)
        BY DEF Scored
      <4>2. ids # {} /\ ids \subseteq Ids(s)
        BY KnownIdsAreShown
      <4>3. sf.ids = ids
        BY <4>1 DEF Score
      <4>4. s # {}
        BY <4>2 DEF Ids
      <4>5. s \in DOMAIN answers'
        BY <1>8, <4>4 DEF ClusterFeatures, Answer, With
      <4>6. rows' \cap s = s
        BY <3>1, SelectionIsStored
      <4> QED BY <4>2, <4>3, <4>5, <4>6 DEF Grounded, Ids
    <3> HIDE DEF scored
    <3> QED BY <1>0, <3>1, <3>2 DEF ManifestInv, Linked
  <2> QED BY <1>8, <2>1, <2>2, Clustered
<1>9. CASE LinkEvidence
  <2>1. job.at = "persist" /\ job.half # None /\ UNCHANGED thread
    BY <1>9 DEF LinkEvidence
  <2>2. PICK id \in features[job.half].ids \ features[job.half].links :
           /\ features' = [features EXCEPT ![job.half].links = @ \cup {id}]
           /\ job' = IF features[job.half].links \cup {id} = features[job.half].ids
                     THEN [job EXCEPT !.half = None] ELSE job
    BY <1>9 DEF LinkEvidence
  <2>3. PICK k : k = job.half
    OBVIOUS
  <2>4. k \in thread.features /\ k \in DOMAIN features
    BY <2>1, <2>3 DEF ManifestInv
  <2>5. /\ DOMAIN features' = DOMAIN features
        /\ features'[k].links = features[k].links \cup {id}
        /\ \A m \in DOMAIN features : /\ features'[m].ids = features[m].ids
                                      /\ features'[m].status = features[m].status
                                      /\ (m # k) => (features'[m].links = features[m].links)
    BY <2>2, <2>3, <2>4
  <2>6. /\ job'.at = "persist" /\ job'.todo = job.todo /\ job'.half \in {k, None}
        /\ job'.half = k \/ features'[k].links = features[k].ids
    BY <2>1, <2>2, <2>3, <2>4, <2>5
  <2>8. ASSUME NEW m \in thread.features PROVE Linked(m)'
    <3>1. m \in DOMAIN features /\ Linked(m)
      BY DEF ManifestInv
    <3>2. features'[m].ids = features[m].ids
      BY <2>5, <3>1
    <3>3. CASE m = k
      <4>1. features'[m].links = features'[m].ids \/ (In("persist")' /\ job'.half = m)
        BY <2>5, <2>6, <3>2, <3>3
      <4> QED BY <1>0, <3>1, <3>2, <4>1 DEF Linked
    <3>4. CASE m # k
      <4>1. features[m].links = features[m].ids
        BY <2>3, <3>1, <3>4 DEF Linked
      <4>2. features'[m].links = features[m].links
        BY <2>5, <3>1, <3>4
      <4> QED BY <1>0, <3>1, <3>2, <4>1, <4>2 DEF Linked
    <3> QED BY <3>3, <3>4
  <2>9. ASSUME NEW m \in DOMAIN features PROVE features'[m].links \subseteq features'[m].ids
    <3>1. features[m].links \subseteq features[m].ids
      BY DEF ManifestInv
    <3>2. features'[m].ids = features[m].ids
      BY <2>5
    <3>3. CASE m = k
      BY <2>2, <2>3, <2>5, <3>1, <3>2, <3>3
    <3>4. CASE m # k
      <4>1. features'[m].links = features[m].links
        BY <2>5, <3>4
      <4> QED BY <3>1, <3>2, <4>1
    <3> QED BY <3>3, <3>4
  <2> QED BY <1>0, <2>1, <2>4, <2>5, <2>6, <2>8, <2>9 DEF ManifestInv
<1>10. CASE ManifestPersisted
  <2>1. /\ job.at = "persist" /\ job.half = None /\ job'.at = "gate" /\ UNCHANGED features
        /\ thread'.scored = thread.scored /\ thread'.features = thread.features
    BY <1>10 DEF ManifestPersisted, Checkpoint, Job, stores
  <2> QED BY <1>0, <2>1 DEF ManifestInv, Linked
<1>11. CASE Complete
  BY <1>1, <1>2, <1>11 DEF Complete, Checkpoint, Idle, Job, stores
<1>12. CASE Halt \/ PostAccepted \/ PostFails \/ MarkNotified
  <2>1. UNCHANGED << thread, features >> /\ job.at # "persist"
    BY <1>12 DEF Halt, PostAccepted, PostFails, MarkNotified, stores
  <2>2. UNCHANGED job \/ job'.at # "persist"
    BY <1>12 DEF Halt, PostAccepted, PostFails, MarkNotified, Job, Idle
  <2> QED BY <1>1, <1>2, <2>1, <2>2
<1>13. ASSUME NEW n \in DOMAIN features, NEW d \in Decisions, ReviewFeature(n, d) PROVE ManifestInv'
  <2>1. features' = [features EXCEPT ![n].status = d] /\ UNCHANGED << job, thread >>
    BY <1>13 DEF ReviewFeature
  <2> QED BY <1>1, <2>1 DEF ManifestInv
<1>14. ASSUME NEW d, Resume(d) \/ ResumeFails(d) PROVE ManifestInv'
  BY <1>1, <1>2, <1>14 DEF Resume, ResumeFails, stores
<1>15. CASE StartResume
  <2>1. job.at = "idle" /\ UNCHANGED << thread, features >>
    BY <1>15 DEF StartResume, stores
  <2>2. CASE thread.next = "persist"
    <3>1. job'.at = "persist" /\ job'.todo = thread.scored /\ job'.half = None
      BY <1>15, <2>2 DEF StartResume, Job
    <3> QED BY <1>0, <2>1, <3>1 DEF ManifestInv, Linked
  <2>3. CASE thread.next # "persist"
    <3>1. job'.at # "persist"
      BY <1>15, <2>3 DEF StartResume, Job, Idle
    <3> QED BY <1>1, <1>2, <2>1, <3>1
  <2> QED BY <2>2, <2>3
<1>16. CASE ResolveGate
  <2>1. PICK node \in {"complete", "decide"}, todo \in {{}, thread.features} :
           Checkpoint([thread EXCEPT !.decision = job.value], node, todo)
    BY <1>16 DEF ResolveGate
  <2>2. /\ job.at # "persist" /\ job'.at # "persist" /\ UNCHANGED features
        /\ thread'.scored = thread.scored /\ thread'.features = thread.features
    BY <1>16, <2>1 DEF ResolveGate, Checkpoint, Job, stores
  <2> QED BY <1>1, <1>2, <2>2
<1>17. CASE PersistReviewDecision
  <2>1. CASE job.todo = {}
    BY <1>1, <1>2, <1>17, <2>1 DEF PersistReviewDecision, Checkpoint, Job
  <2>2. CASE job.todo # {}
    <3>1. PICK n : features' = [features EXCEPT ![n].status = thread.decision]
      BY <1>17, <2>2 DEF PersistReviewDecision
    <3>2. job.at = "decide" /\ job'.at = "decide" /\ UNCHANGED thread
      BY <1>17, <2>2 DEF PersistReviewDecision
    <3> QED BY <1>1, <3>1, <3>2 DEF ManifestInv, WhereInv
  <2> QED BY <2>1, <2>2
<1>18. CASE Kill
  <2>1. job'.at = "idle" /\ UNCHANGED features
    BY <1>18 DEF Kill, Idle, Job, stores
  <2>2. CASE job.at = "persist"
    <3>1. thread'.features = {} /\ thread'.scored = thread.scored
      BY <1>18, <2>2 DEF Kill
    <3> QED BY <1>0, <2>1, <3>1 DEF ManifestInv
  <2>3. CASE job.at # "persist"
    BY <1>1, <1>2, <1>18, <2>1, <2>3 DEF Kill
  <2> QED BY <2>2, <2>3
<1>19. CASE UNCHANGED vars
  BY <1>1, <1>2, <1>19 DEF vars, stores
<1> QED BY <1>3, <1>4, <1>5, <1>6, <1>7, <1>8, <1>9, <1>10, <1>11, <1>12, <1>13, <1>14, <1>15,
            <1>16, <1>17, <1>18, <1>19 DEF Next

LEMMA Inductive == IInv /\ [Next]_vars => IInv'
BY StepShape, StepWhere, StepClean, StepRows, StepManifest, StepTold DEF IInv

-----------------------------------------------------------------------------
(* The theorems *)

\* The invariant of the release-intelligence graph, its job and its stores.
THEOREM Invariance == Spec => []IInv
BY InitIInv, Inductive, PTL DEF Spec

\* Rows stand for blobs, an id has one row, a feature links what it names.
THEOREM TypeCorrect == Spec => []TypeOK
<1>1. IInv => TypeOK
  BY DEF IInv, Shape, RowsInv, ManifestInv, TypeOK, Ids
<1> QED BY <1>1, Invariance, PTL

\* Whatever a range holds and whichever job dies where, no rule of the redaction
\* has anything left to take in an excerpt or a value of the metadata: not in a
\* blob, a row, a checkpoint or a prompt.  Of the paths and names of symbols in
\* rows and prompts it says nothing.
THEOREM ExcerptsAreClean == Spec => []ExcerptsAreRedacted
<1>1. IInv => ExcerptsAreRedacted
  <2> SUFFICES ASSUME CleanInv, NEW t \in Texts PROVE Clean(t)
    BY DEF IInv, ExcerptsAreRedacted, Clean
  <2> QED BY DEF CleanInv, CleanItem, Texts
<1> QED BY <1>1, Invariance, PTL

\* Any answer of any model leaves a manifest at the gate that is grounded in
\* stored evidence of one prompt that was put before the model.
THEOREM ManifestIsGrounded == Spec => []GatedFeaturesAreGrounded
<1>1. IInv => GatedFeaturesAreGrounded
  <2> SUFFICES ASSUME IInv, thread.next \in {"gate", "decide", "complete"}, NEW n \in thread.features
               PROVE  /\ features[n].links # {}
                      /\ \E shown \in DOMAIN answers : features[n].links \subseteq Ids(rows \cap shown)
    BY DEF GatedFeaturesAreGrounded, Ids
  <2>1. ~In("persist")
    BY DEF IInv, WhereInv, In
  <2>2. features[n].links = features[n].ids
    BY <2>1 DEF IInv, ManifestInv, Linked
  <2> QED BY <2>2 DEF IInv, ManifestInv, Linked, Grounded
<1> QED BY <1>1, Invariance, PTL

\* However many jobs come to the gate, a repeated notice was paid by a fault.
THEOREM NoticesArePaid == Spec => []ToldOnce
<1>1. IInv => ToldOnce
  BY FeatureGateAssumption DEF IInv, Shape, ToldInv, ToldOnce
<1> QED BY <1>1, Invariance, PTL

=============================================================================

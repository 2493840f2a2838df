----------------------------- MODULE MCEvaluation -----------------------------
(* Two artifacts, one of them approved before; at the start the run has just    *)
(* passed Gate #2, has an edit that is still to be mined, or has been through   *)
(* all of it once.  An earlier evaluation has judged the first artifact under   *)
(* the title it had then and a body that in the last case is no more its own.   *)
EXTENDS Evaluation, TLC

Artifact(status, body) == [status |-> status, title |-> "title", body |-> body, created |-> 0]
Claim(id, links, support, risk) ==
    [id |-> id, links |-> links, support |-> support, risk |-> risk, text |-> << "b" >>]
Rewritten(artifact, source, revised) ==
    [kind |-> "reviewer_edit", from |-> artifact, source |-> source, revised |-> revised]
Report(artifact, value, as_of, source) ==
    [artifact |-> artifact, value |-> value, as_of |-> as_of, source |-> source]

MCEarly ==
    [artifacts |-> << Artifact("approved", << "a", "b" >>), Artifact("rejected", << "b" >>) >>,
     claims |-> {}, features |-> [f \in {"f1"} |-> "approved"],
     candidates |-> << >>, media |-> << >>, signals |-> << >>,
     approvals |-> {[type |-> "artifact", target |-> 2, decision |-> "approved", payload |-> Nothing, notes |-> Nothing, at |-> 0]},
     notified |-> << >>, engagement |-> {}, selected |-> FALSE]

MCEdited ==
    [MCEarly EXCEPT
        !.artifacts[2] = Artifact("edited", << "b", "b" >>),
        !.approvals = @ \cup {[type |-> "artifact", target |-> 2, decision |-> "edited",
                               payload |-> << "b", "b" >>, notes |-> << "a" >>, at |-> 0]},
        !.notified = [g \in {"artifact_review"} |-> 0]]

MCLate ==
    [MCEarly EXCEPT
        !.artifacts[1].body = << "a", "b", "a" >>,
        !.claims = {Claim(1, {"e1", "e2"}, "supported", "low"), Claim(2, {}, "unsupported", "low")},
        !.candidates = << "promoted", "draft" >>, !.media = << "ready" >>,
        !.signals = << Rewritten(1, << "a", "b", "a" >>, << "b", "a", "b", "b" >>),
                       Rewritten(2, << "a", "b", "a" >>, << "a", "b", "a" >>) >>,
        !.engagement = {Report(1, 3, 2, "api") @@ [created |-> 0],
                        Report(2, 1, 1, "api") @@ [created |-> 0]},
        !.notified = [g \in {"feature_manifest_approval", "run_failed"} |-> 0],
        !.selected = TRUE]

MCTables == {MCEarly, MCEdited, MCLate}
MCReviewed == {MCEarly}
MCJudged == [artifact |-> 1, title |-> "old title", body |-> << "a", "b" >>]
MCCaches == {[key \in {IdempotencyKey(MCJudged)} |-> [verdict |-> v, of |-> MCJudged]] : v \in Scores}
MCNoCaches == {<< >>}
MCClaimRows == {[links |-> l, support |-> "supported", risk |-> r, text |-> << "a" >>] :
                   << l, r >> \in {<< {"e1"}, "high" >>, << {"e1", "e2"}, "low" >>}}
               \cup {[links |-> {}, support |-> "unsupported", risk |-> "low", text |-> << "b" >>]}
MCReports == {Report(1, 5, 1, "api"), Report(1, 4, 2, "manual_csv"), Report(1, 6, 2, "api"),
              Report(2, 0, 2, "api")}
MCEdits == {[title |-> Nothing, body |-> << "b", "b" >>], [title |-> "new", body |-> Nothing]}
MCNotes == {Nothing, << "a" >>}
MCBodyEdits == {[title |-> Nothing, body |-> << "b", "b" >>]}
MCSymmetry == Permutations(Jobs) \cup Permutations(Scores)
=============================================================================

------------------------- MODULE MCContentGeneration -------------------------
(* Two types whose skills differ, one feature, a figure one of two items of *)
(* evidence has.                                                             *)
EXTENDS ContentGeneration

MCSelected == {"release_blog", "changelog_entry"}
MCAgents == [agent \in {"content-generation"} |-> {"release_blog", "changelog_entry", "x_post"}]
MCCapabilities == [type \in {"changelog_entry"} |-> {"changelog-format"}]
MCFeatures == [f \in {"f1"} |-> [title |-> 1, summary |-> 1, status |-> "approved"]]
MCSkills == {[name |-> n, hash |-> << n, 1 >>] : n \in {"blog-format"}}
MCEdits(row) == {[row EXCEPT !.title = 2], [row EXCEPT !.summary = 2], [row EXCEPT !.status = "edited"]}
MCEvidence == {[id |-> "e1", words |-> {"fast"}, figures |-> {"10x"}, embedded |-> TRUE],
               [id |-> "e2", words |-> {"fast"}, figures |-> {"20ms"}, embedded |-> TRUE]}
MCBodies == {[traits |-> {}], [traits |-> {"codename"}]}
MCClaimSets == {{[words |-> {"fast"}, figures |-> {"10x"}, risk |-> "low", traits |-> {}]}}
=============================================================================

---------------------------- MODULE MCFeatureGate ----------------------------
(***************************************************************************)
(* A range of one docs file and one pull request.  The path, a flag's name, *)
(* the request's author and the texts hold personal data, and one line is   *)
(* longer than an excerpt.  The same range after the pull request's labels  *)
(* were changed.  The pull request, which has no text, is not shown to the  *)
(* model, nor, with one docs item to a prompt, the shorter line.            *)
(***************************************************************************)
EXTENDS FeatureGate

Added(text, hits) == [op |-> "+", at |-> None, hits |-> hits, text |-> text]
Hit(by, captured) == [by |-> by, captured |-> captured]

Hunk  == [op |-> "@", at |-> 1, hits |-> {}, text |-> << >>]
Prose == Added(<< "write", "email", "phone" >>, {Hit("prose", << >>)})
Flag  == Added(<< "use", "aws" >>, {Hit("prose", << >>), Hit("flag", << "aws" >>)})
File  == [path |-> << "docs", "email" >>, traits |-> {"not_ui", "docs"}, status |-> "modified",
          patch |-> << Hunk, Prose, Flag >>]

PullRequest(labels) ==
    [url |-> "pull", text |-> << >>, meta |-> << "email" >> \o labels, issues |-> {}]

MCDiffs == {[repo |-> "repo", files |-> {File}, pulls |-> {PullRequest(labels)}] :
               labels \in {<< >>, << "bug" >>}}
=============================================================================

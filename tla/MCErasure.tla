------------------------------- MODULE MCErasure -------------------------------
(* An approved script of a feature, and one of the whole run that is still to *)
(* be approved; the model may answer a good path, one with an action that is   *)
(* not allowed, or no path.                                                   *)
EXTENDS Erasure

MCScripts ==
    [s \in {"s1", "s2"} |->
        IF s = "s1" THEN [feature |-> "f1", body |-> "old", status |-> "approved", updated |-> 1]
        ELSE [feature |-> None, body |-> "new", status |-> "draft", updated |-> 0]]
MCObjects == [k \in {BlobKey(e) : e \in Evidence} |-> None]
MCPaths(body) ==
    {None} \cup {<< [action |-> a, selector |-> "safe", target |-> None, of |-> body] >> :
                    a \in {"click", "evaluate"}}
=============================================================================

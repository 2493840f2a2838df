----------------------------- MODULE MCSkillGate -----------------------------
(* Small instances of SkillGate: what the reviews hold. *)
EXTENDS SkillGate

CONSTANTS k1, k2, x, y, hype, figure, plain, offBrand, OffBrand, r1, r2

MCFigures == [l \in {hype, figure, plain} |-> IF l = figure THEN {7} ELSE {}]
MCCanon   == [c \in {offBrand, OffBrand} |-> "off_brand"]
MCVersion == [k \in {k1, k2} |-> IF k = k1 THEN << 1, 3, 0 >> ELSE None]

EditOf(source, revised, snapshots) ==
    [kind |-> "reviewer_edit", source |-> source, revised |-> revised,
     category |-> None, snapshots |-> snapshots]
Rejection(category, snapshots) ==
    [kind |-> "rejected_claim", source |-> << plain >>, revised |-> << >>,
     category |-> category, snapshots |-> snapshots]
Note == [kind |-> "review_note", source |-> << plain >>, revised |-> << >>,
         category |-> None, snapshots |-> {}]

\* r1 reviewed work of both skills, r2 of k1 only.
MCReviews ==
    r1 :> {EditOf(<< hype, plain >>, << plain >>, {<< k1, x >>}),
           EditOf(<< figure >>, << plain >>, {<< k1, x >>, << k2, x >>}), Note}
    @@ r2 :> {Rejection(OffBrand, {<< k1, x >>}), Rejection(offBrand, {<< k1, x >>})}

MCMode == r1 :> "direct" @@ r2 :> "pr"
=============================================================================

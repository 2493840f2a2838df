----------------------------- MODULE ExclusiveSend -----------------------------
(***************************************************************************)
(* What the three claims behind which something leaves the system promise:  *)
(* the two-phase marker of a publish, the row of the publishing queue and   *)
(* the row of the delivery ledger.                                         *)
(*                                                                          *)
(* A thing has one sender at a time.  The books call it sent only when a    *)
(* sender leaves it that saw it accepted, and from then on nobody sends it. *)
(* A sender may leave without a word; then the next one may send it again.  *)
(***************************************************************************)
EXTENDS Naturals

CONSTANTS Things, Senders

VARIABLES
    sending,    \* who is sending a thing
    accepted,   \* times it was accepted
    sent        \* what the books call sent

Init ==
    /\ sending = [t \in Things |-> {}]
    /\ accepted = [t \in Things |-> 0]
    /\ sent = {}

\* A sender starts with things that nobody is sending and that are not sent.
Start(s, batch) ==
    /\ \A t \in batch : sending[t] = {} /\ t \notin sent
    /\ sending' = [t \in Things |-> IF t \in batch THEN {s} ELSE sending[t]]
    /\ UNCHANGED << accepted, sent >>

\* One of its things is accepted, perhaps without an answer.
Accept(s, t) ==
    /\ sending[t] = {s}
    /\ accepted' = [accepted EXCEPT ![t] = @ + 1]
    /\ UNCHANGED << sending, sent >>

\* It leaves things, of which some go into the books.
Stop(s, batch, booked) ==
    /\ \A t \in batch : sending[t] = {s}
    /\ \A t \in booked : accepted[t] > 0
    /\ sending' = [t \in Things |-> IF t \in batch THEN {} ELSE sending[t]]
    /\ sent' = sent \cup booked
    /\ UNCHANGED accepted

Next ==
    \E s \in Senders :
        \/ \E t \in Things : Accept(s, t)
        \/ \E batch \in SUBSET Things :
              Start(s, batch) \/ \E booked \in SUBSET batch : Stop(s, batch, booked)

Spec == Init /\ [][Next]_<< sending, accepted, sent >>
=============================================================================

------------------------- MODULE MCFinancingRelease -------------------------
(***************************************************************************)
(* An instance of FinancingRelease for TLC, from two starts: an owner who  *)
(* has nothing yet and whom no visitor meets, and visitors of a release    *)
(* that is approved, with two commands of its owner.                       *)
(***************************************************************************)
EXTENDS FinancingRelease, TLC

CONSTANTS x1, q1, q2, c1, c2, f1, f2, f3, v1, v2

VARIABLE start \* where this behaviour began

OneTarget == [q \in Requests |-> x1]

OwnerStart == start = "owner" /\ Init

\* A release is approved, on evidence that is still in force.
VisitorStart ==
    LET source == [r \in Records |-> v1] IN
    /\ start = "visitors"
    /\ standing = TRUE
    /\ evidence = [r \in Records |-> [v \in Revisions |-> IF v = v1 THEN "live" ELSE "absent"]]
    /\ sources = {source}
    /\ releases = [x \in Releases |->
                     [state |-> "approved", revision |-> 2, source |-> source, approved |-> TRUE]]
    /\ operations = [f \in Forms |-> Unset]
    /\ forms = [f \in Forms |-> NoForm]
    /\ effects = [f \in Forms |-> 0]
    /\ admitted = [q \in Requests |-> NoAdmission]
    /\ inquiries = [q \in Requests |-> NoInquiry]
    /\ delivery = [q \in Requests |-> "none"]
    /\ visits = [q \in Requests |-> NoVisit]

Tries == visits'[q1].try + visits'[q2].try

\* The owner alone fills in every form and admits every revision; beside visitors it is one form
\* less and the revision that is there, and of two visitors one tries again.
Bounds ==
    IF start = "owner" THEN visits' = visits
    ELSE /\ \E f \in Forms : forms'[f].command = "none"
         /\ \A r \in Records : evidence'[r][v2] = "absent"
         /\ Tries <= 3

EitherSpec == (OwnerStart \/ VisitorStart) /\ [][Next /\ Bounds /\ start' = start]_<<vars, start>>

Alike == Permutations(Forms) \cup Permutations(Requests) \cup Permutations(Contents)
=============================================================================

--------------------------- MODULE MCHomeReports ---------------------------
(***************************************************************************)
(* An instance of HomeReports for TLC, in three parts: one home with its   *)
(* schedule and its deliveries, two reports of one home, and two homes of  *)
(* a workspace that share a valuation and the budget.                      *)
(***************************************************************************)
EXTENDS HomeReports, TLC

CONSTANTS h1, h2, r1, r2, r3, c1, c2

VARIABLE start \* the part that this behaviour belongs to

OneWorkspace == [h \in Homes |-> "workspace"]
Asked == [r \in Requests |-> IF r = r2 THEN h2 ELSE h1]
Kinds == [r \in Requests |-> IF r = r3 THEN "revise" ELSE "create"]

EitherInit == Init /\ start \in {"schedule", "reports", "homes"}

\* Who takes part, and in what.
Asks(c, r) == call'[c].id = r
Delivers(c) == call'[c].pc = "handoff"
Unscheduled == month' = month /\ \A h \in Homes :
    ~homes'[h].monthly /\ ~homes'[h].paused /\ ~homes'[h].updates

\* One home is asked for, scheduled and delivered; two reports of one home are delivered; two homes
\* share valuations and the budget, which the operator rolls over when it is used up.  A request is
\* served at most twice, the second time after the removal of its home.
Bounds ==
    /\ \A i \in Ids : history'.lives[i] <= 2
    /\ budget' < budget => budget = ProviderLimit
    /\ \A h \in Homes : homes'[h].paused \/ homes'[h].updates => homes'[h].monthly
    /\ CASE start = "schedule" -> \A c \in Calls : ~Asks(c, r2) /\ ~Asks(c, r3)
         [] start = "reports" -> Unscheduled /\ \A c \in Calls : ~Asks(c, r2)
         [] OTHER -> Unscheduled /\ \A c \in Calls : ~Delivers(c)

EitherSpec == EitherInit /\ [][Next /\ Bounds /\ start' = start]_<<vars, start>>

Alike == Permutations(Calls)
=============================================================================

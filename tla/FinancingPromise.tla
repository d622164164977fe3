-------------------------- MODULE FinancingPromise --------------------------
(***************************************************************************)
(* What a financing release promises to its visitors, however it is        *)
(* prepared, approved, published, withdrawn or retried: an offer is made   *)
(* once and never comes back; an inquiry is accepted only while its offer  *)
(* is public, once, and never comes back after it was removed; nothing is  *)
(* to be delivered of an inquiry that is gone or whose release was ended.  *)
(***************************************************************************)
CONSTANTS Releases, Requests, Target

VARIABLES offer, inquiry

promise == <<offer, inquiry>>

Offers == {"private", "public", "closed"}

\* "due" is an inquiry that is kept and is to be delivered, "held" one that is only kept.
Inquiries == {"none", "due", "held", "gone"}

Promised ==
    /\ offer = [x \in Releases |-> "private"]
    /\ inquiry = [q \in Requests |-> "none"]

Offer(x) ==
    /\ offer[x] = "private"
    /\ offer' = [offer EXCEPT ![x] = "public"]
    /\ UNCHANGED inquiry

\* Several offers close at once when they rest on the same evidence.
Lapse(X) ==
    /\ offer' = [x \in Releases |-> IF x \in X THEN "closed" ELSE offer[x]]
    /\ UNCHANGED inquiry

\* Ending a release stops what is still to be delivered of it.
End(x) ==
    /\ offer' = [offer EXCEPT ![x] = "closed"]
    /\ inquiry' = [q \in Requests |->
                     IF Target[q] = x /\ inquiry[q] = "due" THEN "held" ELSE inquiry[q]]

Accept(q) ==
    /\ inquiry[q] = "none"
    /\ offer[Target[q]] = "public"
    /\ inquiry' = [inquiry EXCEPT ![q] = "due"]
    /\ UNCHANGED offer

Remove(Q) ==
    /\ \A q \in Q : inquiry[q] \in {"due", "held"}
    /\ inquiry' = [q \in Requests |-> IF q \in Q THEN "gone" ELSE inquiry[q]]
    /\ UNCHANGED offer

PromiseNext ==
    \/ \E x \in Releases : Offer(x) \/ End(x)
    \/ \E X \in SUBSET Releases : Lapse(X)
    \/ \E q \in Requests : Accept(q)
    \/ \E Q \in SUBSET Requests : Remove(Q)

PromiseSpec == Promised /\ [][PromiseNext]_promise
=============================================================================

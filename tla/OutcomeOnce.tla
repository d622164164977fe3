---------------------------- MODULE OutcomeOnce ----------------------------
(***************************************************************************)
(* What the delivery guard promises: of all deliveries that share their    *)
(* reference or their business outcome, one succeeds, once.                *)
(***************************************************************************)
EXTENDS Naturals

CONSTANTS Deliveries, Refs, Keys

ASSUME DeliveryAssumption == Deliveries \subseteq [ref : Refs, key : Keys]

VARIABLE made  \* how often the handler of a delivery has succeeded

\* Deliveries that the two unique constraints of the table keep apart.
Conflicts(d) == {e \in Deliveries : e.ref = d.ref \/ e.key = d.key}

Pristine == made = [d \in Deliveries |-> 0]

Make(d) ==
    /\ \A e \in Conflicts(d) : made[e] = 0
    /\ made' = [made EXCEPT ![d] = 1]

OnceSpec == Pristine /\ [][\E d \in Deliveries : Make(d)]_made
=============================================================================

--------------------------- MODULE DeliveryGuard ---------------------------
(***************************************************************************)
(* Durable deliveries: task runs that wrap their handler in                *)
(* processDelivery and share the table integration.delivery_claims.        *)
(*                                                                         *)
(* The model is of one location and one delivery kind, which partition     *)
(* the table.  A run is one task in the queue: it is attempted again after *)
(* an error or a crash, up to MaxTries times, and several runs may carry   *)
(* the same delivery, or deliveries that share only one of the two keys.   *)
(***************************************************************************)
EXTENDS OutcomeOnce, FiniteSets

CONSTANTS Runs, MaxTries

ASSUME TriesAssumption == MaxTries \in Nat \ {0}

VARIABLES
    claims,  \* the status of the row of a delivery, "none" without a row
    runs     \* where the task runs are

vars == <<claims, runs, made>>

Statuses == {"none", "claimed", "completed", "released", "completion_uncertain"}

\* Between the claim and the call that gives it up.
Holding == {"handling", "completing", "doubting", "releasing"}
Busy == {"claiming"} \cup Holding
Ended == {"processed", "duplicate", "failed"}

Run == [delivery : Deliveries, pc : {"queued"} \cup Busy \cup Ended,
        tries : 0..MaxTries, seen : SUBSET Deliveries]

Of(r) == runs[r].delivery
At(r, pc) == runs[r].pc = pc
Goes(r, pc) == runs' = [runs EXCEPT ![r].pc = pc]
Marks(d, status) == claims' = [claims EXCEPT ![d] = status]

Rows(d) == {e \in Conflicts(d) : claims[e] # "none"}

Init ==
    /\ claims = [d \in Deliveries |-> "none"]
    /\ runs \in [Runs -> [delivery : Deliveries, pc : {"queued"}, tries : {0}, seen : {{}}]]
    /\ Pristine

-----------------------------------------------------------------------------

\* The attempt throws: the queue tries the run again or gives it up.
Throws(r) == Goes(r, IF runs[r].tries < MaxTries THEN "queued" ELSE "failed")

\* The claim statement takes its snapshot.  Rows it sees it locks, so that their status is
\* the current one when it goes on; rows inserted later only show as a conflict.
Look(r) ==
    /\ At(r, "queued")
    /\ runs' = [runs EXCEPT ![r].pc = "claiming", ![r].seen = Rows(Of(r)),
                            ![r].tries = runs[r].tries + 1]
    /\ UNCHANGED <<claims, made>>

\* The signed authority of the task has expired: the attempt ends before any claim, for good.
Refused(r) ==
    /\ At(r, "queued")
    /\ Goes(r, "failed")
    /\ UNCHANGED <<claims, made>>

Reclaimed(r) == runs[r].seen = {Of(r)} /\ claims[Of(r)] = "released"

\* Mutant: only the reference keeps a delivery from being inserted.
InsertedByRef(r) == runs[r].seen = {} /\ {e \in Rows(Of(r)) : e.ref = Of(r).ref} = {}
Inserted(r) == runs[r].seen = {} /\ Rows(Of(r)) = {}

\* Mutant: a row that is still claimed is claimed again.
AcquiredAgain(r) ==
    \/ Inserted(r)
    \/ runs[r].seen = {Of(r)} /\ claims[Of(r)] \in {"released", "claimed"}
Acquired(r) == Reclaimed(r) \/ Inserted(r)

\* The commit of a claim may be known to the database only.
Claim(r) ==
    /\ At(r, "claiming")
    /\ Acquired(r)
    /\ Marks(Of(r), "claimed")
    /\ Goes(r, "handling") \/ Throws(r)
    /\ UNCHANGED made

Duplicate(r) ==
    /\ At(r, "claiming")
    /\ ~Acquired(r)
    /\ Goes(r, "duplicate")
    /\ UNCHANGED <<claims, made>>

HandlerSucceeds(r) ==
    /\ At(r, "handling")
    /\ made' = [made EXCEPT ![Of(r)] = @ + 1]
    /\ Goes(r, "completing")
    /\ UNCHANGED claims

HandlerThrows(r) ==
    /\ At(r, "handling")
    /\ Goes(r, "releasing")
    /\ UNCHANGED <<claims, made>>

\* The mutations name both keys and require a row that is claimed.
Held(r) == claims[Of(r)] = "claimed"

\* Mutant: success is reported whatever became of the completion.
CompleteUnchecked(r) ==
    /\ At(r, "completing")
    /\ (Held(r) /\ Marks(Of(r), "completed")) \/ UNCHANGED claims
    /\ Goes(r, "processed")
    /\ UNCHANGED made

\* The caller learns whether one row was affected, unless the answer is lost.
Complete(r) ==
    /\ At(r, "completing")
    /\ \/ Held(r) /\ Marks(Of(r), "completed") /\ (Goes(r, "processed") \/ Goes(r, "doubting"))
       \/ Goes(r, "doubting") /\ UNCHANGED claims
    /\ UNCHANGED made

\* Mutant: a completion in doubt is offered again.
MarkReleased(r) ==
    /\ At(r, "doubting")
    /\ (Held(r) /\ Marks(Of(r), "released")) \/ UNCHANGED claims
    /\ Throws(r)
    /\ UNCHANGED made

\* processDelivery throws whatever becomes of the mark.
MarkUncertain(r) ==
    /\ At(r, "doubting")
    /\ \/ Held(r) /\ Marks(Of(r), "completion_uncertain")
       \/ UNCHANGED claims
    /\ Throws(r)
    /\ UNCHANGED made

\* The error of the handler is rethrown and may be one that is never retried; an error of
\* the release itself always is.
Release(r) ==
    /\ At(r, "releasing")
    /\ \/ Held(r) /\ Marks(Of(r), "released") /\ (Throws(r) \/ Goes(r, "failed"))
       \/ Throws(r) /\ UNCHANGED claims
    /\ UNCHANGED made

\* The process dies, is killed at its maximal duration, or cannot reach the database.
Crash(r) ==
    /\ runs[r].pc \in Busy
    /\ Throws(r)
    /\ UNCHANGED <<claims, made>>

Step(r) ==
    \/ Look(r) \/ Refused(r) \/ Claim(r) \/ Duplicate(r)
    \/ HandlerSucceeds(r) \/ HandlerThrows(r)
    \/ Complete(r) \/ MarkUncertain(r) \/ Release(r)
    \/ Crash(r)

Next == \E r \in Runs : Step(r)

Spec == Init /\ [][Next]_vars

-----------------------------------------------------------------------------
TypeOK ==
    /\ claims \in [Deliveries -> Statuses]
    /\ runs \in [Runs -> Run]
    /\ made \in [Deliveries -> Nat]

\* While a run is between its claim and the end of it, no other run works for the same
\* reference or the same outcome, although claims carry no owner.
SoleHolder ==
    \A r, q \in Runs :
        runs[r].pc \in Holding /\ runs[q].pc \in Holding /\ Of(q) \in Conflicts(Of(r)) => r = q

\* What a row says of its delivery is so: a completed or doubtful one succeeded, and one
\* that is offered again did not.
RowsAreTrue ==
    \A d \in Deliveries :
        /\ claims[d] \in {"completed", "completion_uncertain"} => made[d] = 1
        /\ claims[d] \in {"none", "released"} => made[d] = 0

\* A run that reports success has its completion on record.
ProcessedIsRecorded == \A r \in Runs : At(r, "processed") => claims[Of(r)] = "completed"

\* A completed row is never reopened, doubted or released, and a doubtful one stays for
\* reconciliation.
SettledStays ==
    [][\A d \in Deliveries :
        claims[d] \in {"completed", "completion_uncertain"} => claims'[d] = claims[d]]_vars

\* The runs of one delivery that all ended well have had their outcome: a run survives
\* crashes, lost answers and failed calls.
SurvivesCrashes ==
    \A d \in Deliveries :
        LET carriers == {r \in Runs : Of(r) = d}
        IN carriers # {} /\ (\A r \in carriers : runs[r].pc \in {"processed", "duplicate"})
            => made[d] = 1
=============================================================================

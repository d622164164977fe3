------------------------- MODULE PublicationCleanup -------------------------
(***************************************************************************)
(* Publication of the artifacts of one campaign version into the public    *)
(* bucket, the withdrawal of a partial publication, and the durable        *)
(* intents by which scheduled sweeps finish a withdrawal that failed.      *)
(*                                                                         *)
(* Artifacts are copied in the order of their keys, so the keys that a     *)
(* publication attempted are 1..n for some n; an intent is identified by   *)
(* the keys and is named by n here.                                        *)
(*                                                                         *)
(* No action reads "copied" or "after" but to write them: they are the     *)
(* history that the properties speak of.                                   *)
(***************************************************************************)
EXTENDS Naturals

CONSTANTS Artifacts, MaxAttempts, Sweeps, Nobody, MaxPublications

ASSUME CleanupAssumption ==
    /\ Artifacts \in Nat \ {0}
    /\ MaxAttempts \in Nat \ {0}
    /\ MaxPublications \in Nat
    /\ Nobody \notin Sweeps

VARIABLES
    public,  \* the keys that are in the public bucket
    late,    \* copies their caller has given up and the store may still apply
    rows,    \* integration.publication_cleanup_intents
    sweeps,  \* the runs of the scheduled task
    pub,     \* the caller of publishProjectionWithObjectStore
    copied,  \* the keys that are there because the present publication copied them
    after    \* the keys that appeared after an intent was stored

vars == <<public, late, rows, sweeps, pub, copied, after>>
store == <<public, late, copied, after>>

Keys == 1..Artifacts
Intents == Keys

Statuses == {"none", "pending", "reconciling", "completed", "dead_lettered"}
Open == {"pending", "reconciling"}

\* "due" says that available_at or lease_expires_at has passed.
Row == [status : Statuses, attempts : 0..MaxAttempts, owner : Sweeps \cup {Nobody}, due : BOOLEAN]
NoRow == [status |-> "none", attempts |-> 0, owner |-> Nobody, due |-> FALSE]
NewRow == [status |-> "pending", attempts |-> 0, owner |-> Nobody, due |-> TRUE]

Working == {"copying", "withdrawing", "enqueuing"}
Told == {"published", "withdrawn", "reconciliation_required", "unrecorded", "crashed"}
Answers == {"none", "enqueued", "already_pending", "already_completed", "already_dead_lettered"}

\* "upto" is the last key that was attempted, "key" the one in hand.
Publication == [pc : {"idle"} \cup Working \cup Told, key : Keys, upto : Keys,
                answer : Answers, runs : 0..MaxPublications]

\* "batch" holds the leases that are still to be handled.
Sweep == [pc : {"idle", "choosing", "deleting", "completing", "releasing"},
          batch : SUBSET Intents, intent : Intents, key : Keys]

\* A sweep with no intent in hand.
Sweeping(pc, batch) == [pc |-> pc, batch |-> batch, intent |-> 1, key |-> 1]

Init ==
    /\ public = {} /\ late = {}
    /\ rows = [i \in Intents |-> NoRow]
    /\ sweeps = [s \in Sweeps |-> Sweeping("idle", {})]
    /\ pub = [pc |-> "idle", key |-> 1, upto |-> 1, answer |-> "none", runs |-> 0]
    /\ copied = {} /\ after = [i \in Intents |-> {}]

-----------------------------------------------------------------------------
(* The public bucket *)

\* An object that is there is not copied again.
Appears(k) ==
    /\ public' = public \cup {k}
    /\ after' = [i \in Intents |-> IF k \notin public /\ rows[i].status # "none"
                                  THEN after[i] \cup {k} ELSE after[i]]

Copies(k) == Appears(k) /\ copied' = IF k \in public THEN copied ELSE copied \cup {k}

Deletes(k) == public' = public \ {k} /\ copied' = copied \ {k} /\ UNCHANGED <<late, after>>

Arrive(k) ==
    /\ k \in late
    /\ Appears(k)
    /\ late' = late \ {k}
    /\ UNCHANGED <<rows, sweeps, pub, copied>>

-----------------------------------------------------------------------------
(* Publishing *)

\* A version may be published again, whatever became of it before.
Publish ==
    /\ pub.pc \notin Working
    /\ pub.runs < MaxPublications
    /\ pub' = [pc |-> "copying", key |-> 1, upto |-> 1, answer |-> "none", runs |-> pub.runs + 1]
    /\ copied' = {}
    /\ UNCHANGED <<public, late, rows, sweeps, after>>

\* The object is copied, or was there, and its metadata are verified.
Copy ==
    /\ pub.pc = "copying"
    /\ Copies(pub.key)
    /\ pub' = IF pub.key = Artifacts THEN [pub EXCEPT !.pc = "published", !.key = 1]
                                     ELSE [pub EXCEPT !.key = @ + 1]
    /\ UNCHANGED <<late, rows, sweeps>>

\* A copy that is not confirmed was applied, was not, or may be later.
CopyInDoubt ==
    \/ Copies(pub.key) /\ UNCHANGED late
    \/ late' \in {late, late \cup {pub.key}} /\ UNCHANGED <<public, copied, after>>

\* Mutant: a key is noted as attempted only when its copy is confirmed.
CopyFailsBehind ==
    /\ pub.pc = "copying"
    /\ CopyInDoubt
    /\ pub' = [pub EXCEPT !.pc = "withdrawing", !.key = 1,
                          !.upto = IF pub.key = 1 THEN 1 ELSE pub.key - 1]
    /\ UNCHANGED <<rows, sweeps>>

\* Every key that was attempted is to be withdrawn.
CopyFails ==
    /\ pub.pc = "copying"
    /\ CopyInDoubt
    /\ pub' = [pub EXCEPT !.pc = "withdrawing", !.upto = pub.key, !.key = 1]
    /\ UNCHANGED <<rows, sweeps>>

Withdraw ==
    /\ pub.pc = "withdrawing"
    /\ Deletes(pub.key)
    /\ pub' = IF pub.key = pub.upto THEN [pub EXCEPT !.pc = "withdrawn", !.key = 1]
                                    ELSE [pub EXCEPT !.key = @ + 1]
    /\ UNCHANGED <<rows, sweeps>>

WithdrawFails ==
    /\ pub.pc = "withdrawing"
    /\ Deletes(pub.key) \/ UNCHANGED store
    /\ pub' = [pub EXCEPT !.pc = "enqueuing", !.key = 1]
    /\ UNCHANGED <<rows, sweeps>>

\* The intent is stored unless there is one of the same keys.
Stored(i) ==
    IF rows[i].status = "none"
    THEN /\ rows' = [rows EXCEPT ![i] = NewRow]
         /\ after' = [after EXCEPT ![i] = {}]
    ELSE UNCHANGED <<rows, after>>

Answer(i) ==
    CASE rows[i].status = "none" -> "enqueued"
      [] rows[i].status \in Open -> "already_pending"
      [] rows[i].status = "completed" -> "already_completed"
      [] rows[i].status = "dead_lettered" -> "already_dead_lettered"

\* The caller is told that reconciliation is pending, whatever the answer was.
Enqueue ==
    /\ pub.pc = "enqueuing"
    /\ Stored(pub.upto)
    /\ pub' = [pub EXCEPT !.pc = "reconciliation_required", !.upto = 1, !.answer = Answer(pub.upto)]
    /\ UNCHANGED <<public, late, sweeps, copied>>

EnqueueFails ==
    /\ pub.pc = "enqueuing"
    /\ Stored(pub.upto) \/ UNCHANGED <<rows, after>>
    /\ pub' = [pub EXCEPT !.pc = "unrecorded", !.upto = 1]
    /\ UNCHANGED <<public, late, sweeps, copied>>

PublisherCrash ==
    /\ pub.pc \in Working
    /\ IF pub.pc = "copying" THEN CopyInDoubt ELSE UNCHANGED store
    /\ pub' = [pub EXCEPT !.pc = "crashed", !.key = 1, !.upto = 1]
    /\ UNCHANGED <<rows, sweeps>>

Publisher ==
    \/ Publish \/ Copy \/ CopyFails \/ Withdraw \/ WithdrawFails
    \/ Enqueue \/ EnqueueFails \/ PublisherCrash

-----------------------------------------------------------------------------
(* Sweeping *)

Exhausted(i) == rows[i].status \in Open /\ rows[i].due /\ rows[i].attempts >= MaxAttempts

\* Mutant: a row is leased while another lease runs.
ClaimableAnytime(i) == rows[i].status \in Open /\ rows[i].attempts < MaxAttempts

\* Mutant: a lease that expired is not taken over.
ClaimablePending(i) == rows[i].status = "pending" /\ rows[i].due /\ rows[i].attempts < MaxAttempts

Claimable(i) == rows[i].status \in Open /\ rows[i].due /\ rows[i].attempts < MaxAttempts

\* Rows that have had their attempts are given up, and all others that are due are leased.
Claim(s) ==
    /\ sweeps[s].pc = "idle"
    /\ \E i \in Intents : Exhausted(i) \/ Claimable(i)
    /\ rows' = [i \in Intents |->
         IF Exhausted(i)
         THEN [rows[i] EXCEPT !.status = "dead_lettered", !.owner = Nobody, !.due = FALSE]
         ELSE IF Claimable(i)
         THEN [status |-> "reconciling", attempts |-> rows[i].attempts + 1, owner |-> s, due |-> FALSE]
         ELSE rows[i]]
    /\ sweeps' = [sweeps EXCEPT ![s] = Sweeping("choosing", {i \in Intents : Claimable(i)})]
    /\ UNCHANGED <<store, pub>>

Choose(s, i) ==
    /\ sweeps[s].pc = "choosing"
    /\ i \in sweeps[s].batch
    /\ sweeps' = [sweeps EXCEPT ![s] = [pc |-> "deleting", batch |-> sweeps[s].batch \ {i},
                                        intent |-> i, key |-> 1]]
    /\ UNCHANGED <<store, rows, pub>>

\* Mutant: the last key is left out.
DeleteFewer(s) ==
    /\ sweeps[s].pc = "deleting"
    /\ Deletes(sweeps[s].key)
    /\ sweeps' = IF sweeps[s].key + 1 >= sweeps[s].intent
                 THEN [sweeps EXCEPT ![s].pc = "completing", ![s].key = 1]
                 ELSE [sweeps EXCEPT ![s].key = @ + 1]
    /\ UNCHANGED <<rows, pub>>

Delete(s) ==
    /\ sweeps[s].pc = "deleting"
    /\ Deletes(sweeps[s].key)
    /\ sweeps' = IF sweeps[s].key = sweeps[s].intent
                 THEN [sweeps EXCEPT ![s].pc = "completing", ![s].key = 1]
                 ELSE [sweeps EXCEPT ![s].key = @ + 1]
    /\ UNCHANGED <<rows, pub>>

DeleteFails(s) ==
    /\ sweeps[s].pc = "deleting"
    /\ Deletes(sweeps[s].key) \/ UNCHANGED store
    /\ sweeps' = [sweeps EXCEPT ![s].pc = "releasing", ![s].key = 1]
    /\ UNCHANGED <<rows, pub>>

\* The intent in hand is done with.
GoesOn(s) == sweeps' = [sweeps EXCEPT ![s] = Sweeping("choosing", sweeps[s].batch)]

\* Completion and release find their row by the intent and the owner of the lease.
Holds(s) == LET row == rows[sweeps[s].intent] IN row.status = "reconciling" /\ row.owner = s

Completed(s) ==
    /\ Holds(s)
    /\ rows' = [rows EXCEPT ![sweeps[s].intent].status = "completed",
                            ![sweeps[s].intent].owner = Nobody, ![sweeps[s].intent].due = FALSE]

\* A refused or unanswered completion is a failure like any other.
Complete(s) ==
    /\ sweeps[s].pc = "completing"
    /\ \/ Completed(s) /\ GoesOn(s)
       \/ (Completed(s) \/ UNCHANGED rows) /\ sweeps' = [sweeps EXCEPT ![s].pc = "releasing"]
    /\ UNCHANGED <<store, pub>>

Released(s) ==
    LET i == sweeps[s].intent
        spent == rows[i].attempts >= MaxAttempts
    IN  /\ Holds(s)
        /\ rows' = [rows EXCEPT ![i].status = IF spent THEN "dead_lettered" ELSE "pending",
                                ![i].owner = Nobody, ![i].due = FALSE]

Ends(s) == sweeps' = [sweeps EXCEPT ![s] = Sweeping("idle", {})]

\* A release that fails ends the attempt of the task, with the rest of its batch leased.
Release(s) ==
    /\ sweeps[s].pc = "releasing"
    /\ \/ Released(s) /\ GoesOn(s)
       \/ (Released(s) \/ UNCHANGED rows) /\ Ends(s)
    /\ UNCHANGED <<store, pub>>

Finish(s) ==
    /\ sweeps[s].pc = "choosing"
    /\ sweeps[s].batch = {}
    /\ Ends(s)
    /\ UNCHANGED <<store, rows, pub>>

SweepCrash(s) ==
    /\ sweeps[s].pc # "idle"
    /\ Ends(s)
    /\ UNCHANGED <<store, rows, pub>>

SweepStep(s) ==
    \/ Claim(s) \/ \E i \in Intents : Choose(s, i)
    \/ Delete(s) \/ DeleteFails(s) \/ Complete(s) \/ Release(s) \/ Finish(s) \/ SweepCrash(s)

\* The backoff of a pending row passes, or the lease of one that is being reconciled.
FallsDue(i) ==
    /\ rows[i].status \in Open
    /\ ~rows[i].due
    /\ rows' = [rows EXCEPT ![i].due = TRUE]
    /\ UNCHANGED <<store, sweeps, pub>>

Next ==
    \/ Publisher
    \/ \E s \in Sweeps : SweepStep(s)
    \/ \E i \in Intents : FallsDue(i)
    \/ \E k \in Keys : Arrive(k)

Spec == Init /\ [][Next]_vars

\* The schedule fires again and again, a run that was started goes on or dies, time passes.
Fairness ==
    /\ \A s \in Sweeps : WF_vars(SweepStep(s))
    /\ \A i \in Intents : WF_vars(FallsDue(i))

FairSpec == Spec /\ Fairness

-----------------------------------------------------------------------------
TypeOK ==
    /\ public \subseteq Keys
    /\ late \subseteq Keys
    /\ rows \in [Intents -> Row]
    /\ \A i \in Intents : (rows[i].owner = Nobody) = (rows[i].status # "reconciling")
    /\ sweeps \in [Sweeps -> Sweep]
    /\ pub \in Publication
    /\ copied \subseteq Keys
    /\ after \in [Intents -> SUBSET Keys]

\* Of the keys of a completed intent only those are public that appeared after it was stored.
CompletedWasCleared ==
    \A i \in Intents : rows[i].status = "completed" => public \cap 1..i \subseteq after[i]

\* A publication that failed and was withdrawn at once leaves nothing of what it copied.
WithdrawnIsClean == pub.pc = "withdrawn" => copied = {}

\* An intent is given up only after its last attempt and waits for one only before it.
TriesAreUsed ==
    \A i \in Intents :
        /\ rows[i].status = "dead_lettered" => rows[i].attempts = MaxAttempts
        /\ rows[i].status = "pending" => rows[i].attempts < MaxAttempts
        /\ rows[i].status = "reconciling" => rows[i].attempts > 0

\* As long as a lease runs, only its owner changes the row.
LeaseIsFence ==
    [][\A i \in Intents :
        rows[i].status = "reconciling" /\ ~rows[i].due
            => \/ rows'[i] \in {rows[i], [rows[i] EXCEPT !.due = TRUE]}
               \/ \E s \in Sweeps : rows[i].owner = s /\ sweeps'[s] # sweeps[s]]_vars

\* No late call reopens an intent that is completed or given up.
ClosedStays ==
    [][\A i \in Intents :
        rows[i].status \in {"completed", "dead_lettered"} => rows'[i] = rows[i]]_vars

\* Every intent is completed or given up in the end.
IntentsClose ==
    \A i \in Intents : rows[i].status = "pending" ~> rows[i].status \in {"completed", "dead_lettered"}

\* When the caller of a failed publication is told that its reconciliation is pending, an
\* intent of these keys is open.
PendingWhenSaid ==
    pub.pc = "reconciliation_required" => pub.answer \in {"enqueued", "already_pending"}
=============================================================================

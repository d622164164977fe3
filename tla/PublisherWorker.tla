--------------------------- MODULE PublisherWorker ---------------------------
(***************************************************************************)
(* The workers of apps/tasks/src/core/webinar-publisher-worker.ts on top   *)
(* of the publisher lineage, and the advertising provider they write to.   *)
(*                                                                         *)
(* A delivery reads and claims the operation, then walks its stages.  Each *)
(* stage is several awaits long: what a worker holds between two of them   *)
(* (the record it was given, what it read from the provider, the write it  *)
(* has in flight) is kept in work[w], and anybody may act in between.  An  *)
(* exception, an abort, a spent budget or a crash ends a delivery anywhere *)
(* and leaves only the tables behind.                                      *)
(*                                                                         *)
(* The provider is external: it applies a request at any later time or     *)
(* never, whether or not its sender still waits, and moves a published     *)
(* campaign through review by itself.  Budgets, hashes, media and proofs   *)
(* are abstracted to whether the check on them passes.                     *)
(***************************************************************************)
EXTENDS PublisherLineage, FiniteSets

VARIABLES
    work,      \* work[w]: the delivery worker w is running
    observed,  \* the latest observation admitted since the active operation was reserved
    wire,      \* requests on their way to the provider
    sent,      \* sent[o][s]: how often the write of stage s was sent for operation o
    remote     \* the provider: made[k], the objects of kind k; status of the campaign

outside == <<work, observed, wire, sent, remote>>
vars == <<launch, page, ops, attempts, processed, work, observed, wire, sent, remote>>

Idle == [pc |-> "idle"]

Delivery(o, generation, stage) ==
    [pc |-> "loop", op |-> o, gen |-> generation, stage |-> stage, saw |-> "none", reply |-> "none"]

At(w, pc) == work[w].pc = pc
Goto(w, pc) == work' = [work EXCEPT ![w] = [@ EXCEPT !.pc = pc]]
End(w) == work' = [work EXCEPT ![w] = Idle]

\* What the procedures find in the admission tables; calls with less standing are refused.
Evidenced == [standing |-> TRUE, observed |-> observed]

NothingMade == [made |-> [k \in Creations |-> {}], status |-> "NONE"]

\* Nobody has worked on this launch yet, or nobody still does.
Quiet ==
    /\ work = [w \in Workers |-> Idle]
    /\ observed = "none"
    /\ wire = {}

NothingSent == [o \in Ops |-> [s \in EffectStages |-> 0]]

WorkerInit == Init /\ Quiet /\ sent = NothingSent /\ remote = NothingMade

-----------------------------------------------------------------------------
Browse == Load /\ UNCHANGED outside

\* Observations admitted before an operation was created do not count for it.
Command(o, act) ==
    /\ Reserve(o, act, Evidenced)
    /\ observed' = "none"
    /\ UNCHANGED <<work, wire, sent, remote>>

\* A delivery of the task of operation o: to any worker, any number of times.
Deliver(w, o) ==
    /\ At(w, "idle")
    /\ Claim(o, w)
    /\ work' = [work EXCEPT ![w] = IF ops'[o].active
            THEN Delivery(o, ops'[o].gen, ops'[o].stage) ELSE Idle]
    /\ UNCHANGED <<observed, wire, sent, remote>>

\* A delivery that finds the work budget of the operation spent.
DeliverLate(w, o) ==
    /\ At(w, "idle")
    /\ DeadlineClose(o)
    /\ UNCHANGED outside

-----------------------------------------------------------------------------
(***************************************************************************)
(* Observing stages and spending stages first read the linked campaign.    *)
(***************************************************************************)
Observing == {"parity", "progress", "reconcile"}
Spending == {"publish", "resume"}

\* The objects linked under the campaign are exactly those the launch knows.
Linked == \A k \in Creations :
    remote.made[k] = (IF launch.ids[k] = NoId THEN {} ELSE {launch.ids[k]})

\* Mutant: a campaign in no state the poll knows is taken to be still in review.
VerdictAssumed(o, complete) ==
    IF remote.status = "PAUSED" THEN "paused"
    ELSE IF remote.status = "FAILED" THEN "failed"
    ELSE IF remote.status = "PUBLISHED" /\ ops[o].action \notin Stops THEN "live"
    ELSE "in_review"

\* A publication only counts as live once its progress and every object under it say so.
Verdict(o, complete) ==
    IF remote.status = "PAUSED" THEN "paused"
    ELSE IF remote.status = "FAILED" THEN "failed"
    ELSE IF remote.status = "IN_REVIEW" THEN "in_review"
    ELSE IF /\ remote.status = "PUBLISHED"
            /\ ops[o].action \notin Stops
            /\ complete THEN "live"
    ELSE "uncertain"

\* What a readback that matches the approved draft is reported as.
Matching(o, s, complete) ==
    IF s \in {"parity", "publish"} THEN "draft_ready"
    ELSE IF s = "resume" THEN "paused"
    ELSE Verdict(o, complete)

\* A readback that differs is reported only where it may end the operation; elsewhere it is an
\* error, and so is every readback of a draft in doubt, which no checkpoint would accept.
Read(w) ==
    LET o == work[w].op
        s == work[w].stage
    IN /\ At(w, "loop")
       /\ s \in Observing \cup Spending
       /\ launch.ids.campaign # NoId
       /\ s \in {"progress", "reconcile"} => ops[o].action # "draft"
       /\ \E complete, matches \in BOOLEAN :
             /\ matches => Linked
             /\ matches /\ s = "publish" => remote.status = "DRAFT"
             /\ matches /\ s = "resume" => remote.status = "PAUSED"
             /\ ~matches => s \in {"parity"} \cup Spending
             /\ work' = [work EXCEPT ![w] = [@ EXCEPT !.pc = "read",
                    !.saw = IF matches THEN Matching(o, s, complete) ELSE "mismatch"]]
       /\ UNCHANGED <<store, observed, wire, sent, remote>>

\* The observation is admitted before the checkpoint or dispatch that relies on it.
Admit(w) ==
    /\ At(w, "read")
    /\ observed' = (IF work[w].saw = "mismatch" THEN "failed"
                    ELSE IF work[w].saw \in Observable THEN work[w].saw
                    ELSE "other")
    /\ Goto(w, "admitted")
    /\ UNCHANGED <<store, wire, sent, remote>>

\* One observation ends the delivery.
Conclude(w) ==
    LET o == work[w].op
        g == work[w].gen
        s == work[w].stage
    IN /\ At(w, "admitted")
       /\ \/ s = "parity" /\ work[w].saw # "mismatch" /\ DraftReady(o, w, g, s, launch.ids)
          \/ s = "parity" /\ work[w].saw = "mismatch" /\ ParityRefusal(o, w, g, s, Evidenced)
          \/ s \in Spending /\ work[w].saw = "mismatch" /\ PreflightRefusal(o, w, g, s, Evidenced)
          \/ s \in {"progress", "reconcile"} /\
                Report(o, w, g, s,
                    IF work[w].saw \in {"paused", "failed", "live"} THEN "complete" ELSE "progress",
                    work[w].saw, launch.ids)
       /\ End(w)
       /\ UNCHANGED <<observed, wire, sent, remote>>

-----------------------------------------------------------------------------
(***************************************************************************)
(* Every external write is recorded before it is sent.                     *)
(***************************************************************************)
\* A creation is only tried under known parents and never over a known identity; everything else
\* names the campaign, and what spends names the whole draft.
BodyComplete(s) ==
    /\ s \in Creations => launch.ids[s] = NoId
    /\ s # "campaign" => launch.ids.campaign # NoId
    /\ s \in {"ad"} \cup Spending => launch.ids.adset # NoId
    /\ s \in Spending => launch.ids.ad # NoId

Record(w) ==
    LET o == work[w].op
        s == work[w].stage
    IN /\ \/ At(w, "loop") /\ s \in Creations \cup {"pause"}
          \/ At(w, "admitted") /\ s \in Spending /\ work[w].saw # "mismatch"
       /\ BodyComplete(s)
       /\ Dispatch(o, w, work[w].gen, s, Evidenced)
       /\ Goto(w, "recorded")
       /\ UNCHANGED <<observed, wire, sent, remote>>

\* The row a worker reads back: the stored copy, not the columns the procedures fence on.
StillMine(w) ==
    LET o == work[w].op
    IN /\ ops[o].worker = w
       /\ ops[o].view.stage = work[w].stage
       /\ ops[o].view.gen = work[w].gen
       /\ ops[o].leased

\* Only spending is checked once more between the record and the request.  The same check before
\* the record refuses nothing that the fence of the dispatch does not refuse as well.
Recheck(w) ==
    /\ At(w, "recorded")
    /\ work[w].stage \in Spending
    /\ StillMine(w)
    /\ Goto(w, "cleared")
    /\ UNCHANGED <<store, observed, wire, sent, remote>>

Waiting(w) ==
    /\ wire' = wire \cup {[op |-> work[w].op, stage |-> work[w].stage, from |-> w]}
    /\ sent' = [sent EXCEPT ![work[w].op][work[w].stage] = @ + 1]
    /\ Goto(w, "waiting")
    /\ UNCHANGED <<store, observed, remote>>

\* Mutant: a request that is not answered yet is sent again.
SendAgain(w) ==
    /\ \/ At(w, "cleared") \/ At(w, "waiting")
       \/ At(w, "recorded") /\ work[w].stage \notin Spending
    /\ Waiting(w)

\* Mutant: a write is sent before its dispatch is recorded.
SendFirst(w) ==
    /\ \/ At(w, "loop") /\ work[w].stage \in Creations
       \/ At(w, "admitted") /\ work[w].stage \in Spending /\ work[w].saw # "mismatch"
    /\ Waiting(w)

Send(w) ==
    /\ \/ At(w, "cleared")
       \/ At(w, "recorded") /\ work[w].stage \notin Spending
    /\ Waiting(w)

\* The checkpoint after a write; the next stage belongs to the same lease.
Confirm(w) ==
    LET o == work[w].op
        g == work[w].gen
        s == work[w].stage
        ids == IF s \in Creations THEN [launch.ids EXCEPT ![s] = work[w].reply] ELSE launch.ids
        state == IF s \in Creations THEN "drafting"
                 ELSE IF s = "publish" THEN "publish_queued"
                 ELSE IF s = "pause" THEN "pause_pending" ELSE "resume_pending"
    IN /\ ConfirmEffect(o, w, g, s, state, ids)
       /\ work' = [work EXCEPT ![w] = Delivery(o, g, AfterEffect(s))]
       /\ UNCHANGED <<observed, wire, sent, remote>>

\* The answer is verified, admitted and checkpointed.
Receive(w) ==
    /\ At(w, "waiting")
    /\ work[w].reply # "none"
    /\ Confirm(w)

\* Mutant: a failure of the readings before a write also puts it in doubt.
DoubtAnything(w) ==
    /\ ~At(w, "idle")
    /\ MarkUncertain(work[w].op, w, work[w].gen, work[w].stage)
    /\ End(w)
    /\ UNCHANGED <<observed, wire, sent, remote>>

\* A timeout, a malformed answer, a failed check: the write may have been accepted.
Doubt(w) ==
    /\ \E pc \in {"recorded", "cleared", "waiting"} : At(w, pc)
    /\ MarkUncertain(work[w].op, w, work[w].gen, work[w].stage)
    /\ End(w)
    /\ UNCHANGED <<observed, wire, sent, remote>>

\* A checkpoint or doubt that finds the work budget spent.  A dispatch that does is refused by
\* its caller, which rolls the closing back.
FinishLate(w) ==
    /\ \/ \E pc \in {"recorded", "cleared", "waiting"} : At(w, pc)
       \/ At(w, "admitted") /\ (work[w].stage \in Observing \/ work[w].saw = "mismatch")
    /\ DeadlineClose(work[w].op)
    /\ End(w)
    /\ UNCHANGED <<observed, wire, sent, remote>>

\* A refused call, an exception, an abort, the bound on steps and time, a crash.
GiveUp(w) ==
    /\ ~At(w, "idle")
    /\ End(w)
    /\ UNCHANGED <<store, observed, wire, sent, remote>>

-----------------------------------------------------------------------------
(***************************************************************************)
(* The provider and the clock.                                             *)
(***************************************************************************)
After(m) ==
    IF m.stage = "pause" THEN {"PAUSED"} ELSE {"IN_REVIEW", "PUBLISHED"}

Applicable(m) ==
    \/ m.stage \in Creations
    \/ m.stage = "publish" /\ remote.status = "DRAFT"
    \/ m.stage = "pause" /\ remote.status \in {"IN_REVIEW", "PUBLISHED"}
    \/ m.stage = "resume" /\ remote.status = "PAUSED"

\* The answer reaches its sender only while that waits for it.
Answer(m, reply) ==
    work' = [work EXCEPT ![m.from] =
        IF @.pc = "waiting" /\ @.op = m.op /\ @.stage = m.stage
        THEN [@ EXCEPT !.reply = reply] ELSE @]

Apply(m) ==
    /\ Applicable(m)
    /\ wire' = wire \ {m}
    /\ \/ /\ m.stage \in Creations
          /\ \E id \in Ids \ remote.made[m.stage] :
                /\ remote' = [made |-> [remote.made EXCEPT ![m.stage] = @ \cup {id}],
                              status |-> IF m.stage = "campaign" THEN "DRAFT" ELSE remote.status]
                /\ Answer(m, id)
       \/ /\ m.stage \notin Creations
          /\ \E status \in After(m) : remote' = [remote EXCEPT !.status = status]
          /\ Answer(m, "ok")
    /\ UNCHANGED <<store, observed, sent>>

Lose(m) ==
    /\ wire' = wire \ {m}
    /\ UNCHANGED <<store, work, observed, sent, remote>>

Review ==
    /\ remote.status \in {"IN_REVIEW", "PUBLISHED"}
    /\ \E status \in {"PUBLISHED", "FAILED"} \ {remote.status} :
          remote' = [remote EXCEPT !.status = status]
    /\ UNCHANGED <<store, work, observed, wire, sent>>

\* An admitted observation counts for sixty seconds at most.
Lapse ==
    /\ observed # "none"
    /\ observed' = "none"
    /\ UNCHANGED <<store, work, wire, sent, remote>>

Tick == Environment /\ UNCHANGED outside

WorkerStep(w) ==
    \/ \E o \in Ops : Deliver(w, o) \/ DeliverLate(w, o)
    \/ Read(w) \/ Admit(w) \/ Conclude(w)
    \/ Record(w) \/ Recheck(w) \/ Send(w) \/ Receive(w)
    \/ Doubt(w) \/ FinishLate(w) \/ GiveUp(w)

WorkerNext ==
    \/ Browse
    \/ \E o \in Ops, act \in Actions : Command(o, act)
    \/ \E w \in Workers : WorkerStep(w)
    \/ \E m \in wire : Apply(m) \/ Lose(m)
    \/ Review
    \/ Lapse
    \/ Tick

WorkerSpec == WorkerInit /\ [][WorkerNext]_vars

-----------------------------------------------------------------------------
\* Whatever is retried, redelivered or superseded, the provider is asked at most once to
\* create each object and at most once to publish.
SentOnce ==
    \A s \in Creations \cup {"publish"} :
        \A o, p \in Ops : sent[o][s] <= 1 /\ (sent[o][s] > 0 /\ sent[p][s] > 0 => o = p)

\* So it never holds a second object of a kind.
NoDuplicates == \A k \in Creations : Cardinality(remote.made[k]) <= 1

\* A launch shown as cancelled has reached nobody, and no request still may.
CancelledReachedNobody ==
    launch.state = "cancelled" => wire = {} /\ remote = NothingMade

\* A superseded operation is shown as cancelled only if its worker, wherever it was, never sent.
CancelledNeverSends ==
    \A o \in Ops : ops[o].view.state = "cancelled" => \A s \in EffectStages : sent[o][s] = 0

\* A draft is shown ready only when it is whole and no creation can still arrive.
DraftReadyIsWhole ==
    launch.state = "draft_ready" =>
        /\ \A k \in Creations : remote.made[k] = {launch.ids[k]}
        /\ \A m \in wire : m.stage \notin Creations

\* A launch is only reported live after the publication it was asked for left for the provider.
LiveWasPublished ==
    launch.state \in {"in_review", "live"} => \E o \in Ops : sent[o]["publish"] > 0

\* The procedure's recovery of a draft is never available to a worker: the attempt in doubt is
\* always the one whose identity was lost.
DraftRecoveryIsDead ==
    \A o \in Active :
        ops[o].action = "draft" /\ ops[o].stage = "reconcile" /\ launch.ids.campaign # NoId =>
            ~LatestCreation(o, LastCreation(launch.ids))

\* What is promised to the owner, in terms of what left for the provider, what arrived there
\* and what the launch row shows.
Asked == {r \in Creations \cup {"publish"} : \E o \in Ops : sent[o][r] > 0}

Shown ==
    IF launch.state \in {"in_review", "live"} THEN "live"
    ELSE IF launch.state = "draft_ready" THEN "ready"
    ELSE IF launch.state = "cancelled" THEN "cancelled"
    ELSE "open"

Promise == INSTANCE LaunchPromise WITH
    Identities <- Ids, asked <- Asked, account <- remote.made, shown <- Shown

\* The provider's account grows parent first and one object of a kind, is asked to spend once and
\* for a whole draft, and not while the owner is shown a launch that rests.
PromiseKept == Promise!PromiseSpec

\* The same of every step, from a draft that is complete.
PromiseStays == [][Promise!PromiseNext]_(Promise!promise)

\* Whatever workers, provider and clock do, the tables start and move as the procedures move
\* them: the workers and the provider implement the lineage.
LineageSpec == Spec
=============================================================================

-------------------------- MODULE PublisherLineage --------------------------
(***************************************************************************)
(* The lineage of one webinar publisher launch, as the stored procedures   *)
(* of supabase/migrations/20261014050000_webinar_publisher.sql keep it:    *)
(* one launch row, the operations reserved on it, the attempts recorded    *)
(* before an external write, and the outbox row of every operation.        *)
(*                                                                         *)
(* Each procedure call locks the launch row first (FOR UPDATE), so one     *)
(* call is one action.  A refused call raises and rolls back: it is a      *)
(* stuttering step and has no action of its own.  Callers are unreliable:  *)
(* any worker may present any generation and any stage.                    *)
(*                                                                         *)
(* Time appears only through the comparisons the code makes: a lease is    *)
(* live or not (leased), an operation's fifteen minutes are over or not    *)
(* (due), the latest linked observation is still fresh or there is none.   *)
(* Hashes, receipts and evidence are abstracted to whether they match, and *)
(* a row version to whether the page the owner confirms from carries it.   *)
(***************************************************************************)
EXTENDS Naturals

CONSTANTS
    Ops,        \* operation references, each reserved at most once
    Workers,    \* worker references
    Ids,        \* native identities the provider may hand out
    NoId,       \* a native identity that is not known
    NoWorker,   \* worker_ref of an operation nobody has claimed
    Stale,      \* a page whose row version is no longer the launch's
    MaxGen      \* bound: claims of one operation

ASSUME IdAssumption == NoId \notin Ids
ASSUME WorkerAssumption == NoWorker \notin Workers
ASSUME BoundAssumption == MaxGen \in Nat

VARIABLES
    launch,    \* the launch row: state, ids, cancelGen
    page,      \* what the owner last loaded, Stale once the row version moved on
    ops,       \* the operation rows
    attempts,  \* attempts[o][s]: the attempt row of operation o at stage s
    processed  \* operations whose outbox row has processed_at

store == <<launch, page, ops, attempts, processed>>

-----------------------------------------------------------------------------
LaunchStates == {"reserved", "drafting", "draft_ready", "publish_queued",
    "publishing", "in_review", "live", "pause_pending", "paused",
    "resume_pending", "cancelled", "blocked", "failed", "uncertain"}

Actions == {"draft", "publish", "pause", "resume", "cancel"}
Stops == {"pause", "cancel"}

\* Stages at which one external write is made.
Creations == {"campaign", "adset", "ad"}
EffectStages == Creations \cup {"publish", "pause", "resume"}
Stages == EffectStages \cup {"queued", "parity", "progress", "reconcile", "complete"}

\* What a progress or reconcile readback may report.
Reports == {"in_review", "live", "paused", "failed", "uncertain"}

(***************************************************************************)
(* What the authority, evidence and admission tables hold when a call      *)
(* runs.  standing: everything the action calls for is current, which is   *)
(* spend authority, campaign evidence and the qualification proof, for a   *)
(* pause its own proof only, for a cancellation nothing.  observed: the    *)
(* state of the latest linked observation, "none" unless it is fresh,      *)
(* unrevoked and newer than the operation.                                 *)
(***************************************************************************)
Observable == {"none", "draft_ready", "paused", "failed", "other"}
Evidence == [standing : BOOLEAN, observed : Observable]

NativeIds == [campaign : Ids \cup {NoId}, adset : Ids \cup {NoId}, ad : Ids \cup {NoId}]
NoIds == [k \in Creations |-> NoId]

NoAttempt == [status |-> "none", gen |-> 0]
NoOp == [action |-> "none", stage |-> "queued", active |-> FALSE, worker |-> NoWorker,
         gen |-> 0, leased |-> FALSE, due |-> FALSE, cancelGen |-> 0,
         view |-> [stage |-> "queued", state |-> "reserved", gen |-> 0]]

-----------------------------------------------------------------------------
Reserved(o) == ops[o].action # "none"
Active == {o \in Ops : ops[o].active}

HasAttempt(o) == \E s \in EffectStages : attempts[o][s].status # "none"

\* Mutant: a dispatch nobody answered does not count as an effect.
OnlyDoubted(o) == \E s \in EffectStages : attempts[o][s].status = "uncertain"

\* has_effect of an ordinary call: some attempt is not confirmed.
HasUnconfirmed(o) ==
    \E s \in EffectStages : attempts[o][s].status \in {"dispatching", "uncertain"}

AllIds(ids) == \A k \in Creations : ids[k] # NoId

\* Mutant: a draft in doubt may be started over, and a paused launch published again.
ReadyAgain(act) ==
    \/ act = "draft" /\ launch.state \in {"reserved", "uncertain"} /\ launch.ids.campaign = NoId
    \/ act = "publish" /\ launch.state \in {"draft_ready", "paused"} /\ launch.ids.ad # NoId
    \/ act \in Stops /\ launch.ids.campaign # NoId

\* Which actions the launch row is ready for.
Ready(act) ==
    \/ act = "draft" /\ launch.state = "reserved" /\ launch.ids.campaign = NoId
    \/ act = "publish" /\ launch.state = "draft_ready" /\ launch.ids.ad # NoId
    \/ act = "resume" /\ launch.state = "paused" /\ launch.ids.ad # NoId
    \/ act = "pause" /\ launch.state # "cancelled" /\ launch.ids.campaign # NoId
    \/ act = "cancel" /\ launch.state \in {"reserved", "drafting", "publish_queued",
           "publishing", "pause_pending", "resume_pending", "uncertain"}

\* Mutant: the row inserted from the launch as it was read before the increment.
NewOpOfOldRow(act, generation) ==
    [NoOp EXCEPT !.action = act, !.active = TRUE, !.cancelGen = launch.cancelGen]

NewOp(act, generation) ==
    [NoOp EXCEPT !.action = act, !.active = TRUE, !.cancelGen = generation]

\* A superseded operation keeps its stage column; only its stored copy moves.
Superseded(o) ==
    [ops[o] EXCEPT !.active = FALSE, !.gen = @ + 1, !.leased = FALSE,
        !.view = [stage |-> IF HasAttempt(o) THEN "reconcile" ELSE "complete",
                  state |-> IF HasAttempt(o) THEN "uncertain" ELSE "cancelled",
                  gen |-> ops[o].gen + 1]]

\* The stage column and the stored copy move together.
Moved(o, stage, state) ==
    [ops[o] EXCEPT !.stage = stage, !.view = [@ EXCEPT !.stage = stage, !.state = state]]

\* What a page shows of the launch row, under one row version.
Picture == [state |-> launch.state, ids |-> launch.ids]

\* Every update of the launch row takes the next row version.
Touch(row) == launch' = row /\ page' = Stale

-----------------------------------------------------------------------------
Init ==
    /\ launch = [state |-> "reserved", ids |-> NoIds, cancelGen |-> 0]
    /\ page = Stale
    /\ ops = [o \in Ops |-> NoOp]
    /\ attempts = [o \in Ops |-> [s \in EffectStages |-> NoAttempt]]
    /\ processed = {}

\* 'load': the owner looks at the launch.
Load ==
    /\ page' = Picture
    /\ UNCHANGED <<launch, ops, attempts, processed>>

(***************************************************************************)
(* webinar_publisher_command 'reserve'.  A stop supersedes the operation   *)
(* in progress; anything else waits for it.  An observation admitted       *)
(* before the operation was created does not count for it.                 *)
(***************************************************************************)
Reserve(o, act, ev) ==
    /\ ~Reserved(o)
    /\ page = Picture
    /\ Ready(act)
    /\ act # "cancel" => ev.standing
    /\ Active # {} => act \in Stops
    /\ LET generation == launch.cancelGen + (IF Active = {} THEN 0 ELSE 1)
       IN /\ Touch([launch EXCEPT !.cancelGen = generation])
          /\ ops' = [x \in Ops |->
                IF x = o THEN NewOp(act, generation)
                ELSE IF ops[x].active THEN Superseded(x)
                ELSE ops[x]]
    /\ UNCHANGED <<attempts, processed>>

\* Mutant: only the cancellation generation is compared.
SameGeneration(o) == Reserved(o) /\ ops[o].cancelGen = launch.cancelGen

\* No procedure accepts an operation that was superseded or has ended.
Current(o) == ops[o].active /\ ops[o].cancelGen = launch.cancelGen

(***************************************************************************)
(* Any worker call on an operation whose work budget is exhausted ends it. *)
(***************************************************************************)
DeadlineClose(o) ==
    /\ Current(o)
    /\ ops[o].due
    /\ LET effect == HasAttempt(o) \/ launch.ids.campaign # NoId
           stage == IF effect THEN "reconcile" ELSE "complete"
           state == IF effect THEN "uncertain" ELSE "blocked"
       IN /\ ops' = [ops EXCEPT ![o] =
                [Moved(o, stage, state) EXCEPT !.active = FALSE, !.leased = FALSE]]
          /\ Touch([launch EXCEPT !.state = state])
    /\ UNCHANGED <<attempts, processed>>

\* Mutant: only a known campaign counts as something sent.
NoKnownCampaign == launch.ids.campaign = NoId

\* Nothing was ever sent for this launch, so cancelling it leaves nothing behind.
Untouched == launch.ids.campaign = NoId /\ \A o \in Ops : ~HasAttempt(o)

ClaimState(o) ==
    IF HasUnconfirmed(o) THEN "uncertain"
    ELSE IF ops[o].action = "cancel" THEN (IF Untouched THEN "cancelled" ELSE "uncertain")
    ELSE IF ops[o].action = "draft" THEN "drafting"
    ELSE IF ops[o].action = "pause" THEN "pause_pending"
    ELSE IF ops[o].action = "resume" THEN "resume_pending"
    ELSE "publishing"

\* An abandoned dispatched stage is reconciled, never sent again.
ClaimStage(o) ==
    IF ClaimState(o) = "uncertain" THEN "reconcile"
    ELSE IF ops[o].stage # "queued" THEN ops[o].stage
    ELSE IF ops[o].action = "draft" THEN "campaign"
    ELSE IF ops[o].action = "cancel" THEN "complete"
    ELSE ops[o].action

Claimed(o, w, stage, state) ==
    [ops[o] EXCEPT !.worker = w, !.gen = @ + 1, !.leased = TRUE, !.stage = stage,
        !.active = stage # "complete",
        !.view = [stage |-> stage, state |-> state, gen |-> ops[o].gen + 1]]

Claim(o, w) ==
    /\ Current(o)
    /\ ~ops[o].due
    /\ ~ops[o].leased
    /\ ops[o].gen < MaxGen
    /\ LET stage == ClaimStage(o)
           state == ClaimState(o)
       IN /\ ops' = [ops EXCEPT ![o] = Claimed(o, w, stage, state)]
          /\ Touch([launch EXCEPT !.state = state])
          /\ processed' = IF stage = "complete" THEN processed \cup {o} ELSE processed
    /\ UNCHANGED <<attempts>>

\* The token a worker presents: its reference, its generation, the stage it expects.
Fence(o, w, g, s) ==
    /\ Current(o)
    /\ ~ops[o].due
    /\ ops[o].worker = w
    /\ ops[o].gen = g
    /\ ops[o].leased
    /\ ops[o].stage = s

\* Spending needs all identities and the latest linked observation of the resting state.
MaySpend(o, s, ev) ==
    /\ s = ops[o].action
    /\ AllIds(launch.ids)
    /\ ev.observed = (IF s = "publish" THEN "draft_ready" ELSE "paused")

Dispatch(o, w, g, s, ev) ==
    /\ Fence(o, w, g, s)
    /\ s \in EffectStages
    /\ ev.standing
    /\ s \in {"publish", "resume"} \/ ops[o].action \in {"publish", "resume"} => MaySpend(o, s, ev)
    /\ attempts[o][s].status = "none"
    /\ attempts' = [attempts EXCEPT ![o][s] = [status |-> "dispatching", gen |-> g]]
    /\ UNCHANGED <<launch, page, ops, processed>>

MarkUncertain(o, w, g, s) ==
    /\ Fence(o, w, g, s)
    /\ attempts' = [attempts EXCEPT ![o] = [x \in EffectStages |->
            IF x = s /\ @[x] = [status |-> "dispatching", gen |-> g]
            THEN [@[x] EXCEPT !.status = "uncertain"] ELSE @[x]]]
    /\ ops' = [ops EXCEPT ![o] = Moved(o, "reconcile", "uncertain")]
    /\ Touch([launch EXCEPT !.state = "uncertain"])
    /\ UNCHANGED processed

-----------------------------------------------------------------------------
(***************************************************************************)
(* 'checkpoint': the one way a stage is left with a provider readback.     *)
(* Its accepted forms are actions of their own; each of them advances the  *)
(* operation and the launch together.  The receipt a checkpoint cites is   *)
(* admitted by its caller, so which one it is stays open here.             *)
(***************************************************************************)
Advance(o, next, state, ids) ==
    /\ ops' = [ops EXCEPT ![o] = [Moved(o, next, state) EXCEPT
            !.active = next # "complete", !.leased = next # "complete"]]
    /\ Touch([launch EXCEPT !.state = state, !.ids = ids])
    /\ processed' = IF next = "complete" THEN processed \cup {o} ELSE processed

\* Known identities never change, and a child is never known before its parent.
IdsAccepted(ids) ==
    /\ \A k \in Creations : launch.ids[k] # NoId => ids[k] = launch.ids[k]
    /\ ids.adset # NoId => ids.campaign # NoId
    /\ ids.ad # NoId => ids.adset # NoId

\* What must be known when a stage is left.
Required(s) ==
    IF s \in {"campaign", "adset"} THEN {s}
    ELSE IF s \in {"ad", "parity", "publish", "resume"} THEN {"ad"}
    ELSE {}

AfterCreation == [campaign |-> "adset", adset |-> "ad", ad |-> "parity"]

AfterEffect(s) == IF s \in Creations THEN AfterCreation[s] ELSE "progress"

Acknowledgements == {"drafting", "publish_queued", "pause_pending", "resume_pending"}

Acknowledged(s) ==
    IF s \in Creations THEN {"drafting"}
    ELSE IF s = "publish" THEN {"publish_queued"}
    ELSE {"pause_pending", "resume_pending"}

Settle(o, s) == attempts' = [attempts EXCEPT ![o][s].status = "confirmed"]

\* The provider answered the one write of this stage.
ConfirmEffect(o, w, g, s, state, ids) ==
    /\ s \in EffectStages
    /\ Fence(o, w, g, s)
    /\ state \in Acknowledged(s)
    /\ IdsAccepted(ids) /\ \A k \in Required(s) : ids[k] # NoId
    /\ attempts[o][s] = [status |-> "dispatching", gen |-> g]
    /\ Settle(o, s)
    /\ Advance(o, AfterEffect(s), state, ids)

\* The read-back draft equals the approved one.
DraftReady(o, w, g, s, ids) ==
    /\ s = "parity"
    /\ Fence(o, w, g, s)
    /\ IdsAccepted(ids) /\ ids.ad # NoId
    /\ Advance(o, "complete", "draft_ready", ids)
    /\ UNCHANGED attempts

\* What the provider was seen doing after a write, or instead of an answer.
Report(o, w, g, s, next, state, ids) ==
    /\ s \in {"progress", "reconcile"}
    /\ Fence(o, w, g, s)
    /\ state \in Reports
    /\ IdsAccepted(ids)
    /\ Advance(o, next, state, ids)
    /\ UNCHANGED attempts

\* A verified mismatch before spending ends a publish or resume that sent nothing.
PreflightRefusal(o, w, g, s, ev) ==
    /\ s \in {"publish", "resume"} /\ ops[o].action = s
    /\ Fence(o, w, g, s)
    /\ AllIds(launch.ids)
    /\ ~HasAttempt(o)
    /\ ev.observed = "failed" /\ ev.standing
    /\ Advance(o, "complete", "failed", launch.ids)
    /\ UNCHANGED attempts

\* The attempt a draft started last: creations are attempted parent first.
LatestCreation(o, s) ==
    /\ attempts[o][s].status # "none"
    /\ s = "campaign" => attempts[o]["adset"].status = "none"
    /\ s \in {"campaign", "adset"} => attempts[o]["ad"].status = "none"

\* A verified mismatch after the last creation ends the draft and keeps its identities.
ParityRefusal(o, w, g, s, ev) ==
    /\ s = "parity"
    /\ Fence(o, w, g, s)
    /\ ops[o].action = "draft"
    /\ AllIds(launch.ids)
    /\ LatestCreation(o, "ad")
    /\ ~HasUnconfirmed(o)
    /\ ev.standing
    /\ Advance(o, "complete", "failed", launch.ids)
    /\ UNCHANGED attempts

\* The creation stage whose identity is the deepest known.
LastCreation(ids) ==
    IF ids.adset = NoId THEN "campaign" ELSE IF ids.ad = NoId THEN "adset" ELSE "ad"

\* A draft resumes after its deepest known creation, if nothing was attempted beyond it.
DraftReconcile(o, w, g, s, ev) ==
    LET last == LastCreation(launch.ids)
    IN /\ s = "reconcile"
       /\ Fence(o, w, g, s)
       /\ ops[o].action = "draft"
       /\ launch.ids.campaign # NoId
       /\ LatestCreation(o, last)
       /\ \A x \in EffectStages \ {last} : attempts[o][x].status \in {"none", "confirmed"}
       /\ ev.standing
       /\ Settle(o, last)
       /\ Advance(o, AfterCreation[last], "drafting", launch.ids)

-----------------------------------------------------------------------------
\* The clock.
LeaseExpires(o) ==
    /\ ops[o].active /\ ops[o].leased
    /\ ops' = [ops EXCEPT ![o] = [@ EXCEPT !.leased = FALSE]]
    /\ UNCHANGED <<launch, page, attempts, processed>>

\* A lease never outlives the deadline of its operation.
DeadlinePasses(o) ==
    /\ ops[o].active /\ ~ops[o].due
    /\ ops' = [ops EXCEPT ![o] = [@ EXCEPT !.due = TRUE, !.leased = FALSE]]
    /\ UNCHANGED <<launch, page, attempts, processed>>

Environment == \E o \in Ops : LeaseExpires(o) \/ DeadlinePasses(o)

\* A call by worker w that presents generation g and stage s, whatever it was told before.
WorkerCall(o, w, g, s) ==
    /\ Fence(o, w, g, s)
    /\ \/ MarkUncertain(o, w, g, s)
       \/ \E ev \in Evidence : \/ Dispatch(o, w, g, s, ev)
                               \/ PreflightRefusal(o, w, g, s, ev)
                               \/ ParityRefusal(o, w, g, s, ev)
                               \/ DraftReconcile(o, w, g, s, ev)
       \/ \E ids \in NativeIds :
             \/ \E state \in Acknowledgements : ConfirmEffect(o, w, g, s, state, ids)
             \/ DraftReady(o, w, g, s, ids)
             \/ \E next \in {"progress", "complete"}, state \in Reports :
                    Report(o, w, g, s, next, state, ids)

Next ==
    \/ Load
    \/ \E o \in Ops, act \in Actions, ev \in Evidence : Reserve(o, act, ev)
    \/ \E o \in Ops : DeadlineClose(o)
    \/ \E o \in Ops, w \in Workers : Claim(o, w)
    \/ \E o \in Ops, w \in Workers, g \in 1 .. MaxGen, s \in Stages : WorkerCall(o, w, g, s)
    \/ Environment

Spec == Init /\ [][Next]_store

-----------------------------------------------------------------------------
View == [stage : Stages, state : LaunchStates, gen : Nat]
OpRow == [action : Actions \cup {"none"}, stage : Stages, active : BOOLEAN,
          worker : Workers \cup {NoWorker}, gen : Nat, leased : BOOLEAN, due : BOOLEAN,
          cancelGen : Nat, view : View]
LaunchRow == [state : LaunchStates, ids : NativeIds, cancelGen : Nat]
AttemptTable == [Ops -> [EffectStages ->
    [status : {"none", "dispatching", "confirmed", "uncertain"}, gen : Nat]]]

\* The tables hold rows of their declared types and checks.
TypeOK ==
    /\ launch \in LaunchRow
    /\ page \in {Stale} \cup [state : LaunchStates, ids : NativeIds]
    /\ ops \in [Ops -> OpRow]
    /\ attempts \in AttemptTable
    /\ processed \subseteq Ops

\* At most one operation of a launch is active, whatever was reserved over what.
SingleActive == \A o, p \in Active : o = p

\* An active operation can always be picked up again: the cancellation generation does not
\* fence it, its outbox row is pending, and the stage and generation a worker reads from the
\* stored copy are those of the columns the fence compares.
ActiveDeliverable ==
    \A o \in Active :
        /\ Current(o)
        /\ o \notin processed
        /\ ops[o].view.stage = ops[o].stage
        /\ ops[o].view.gen = ops[o].gen

\* A launch is reported cancelled only if no write for it was ever recorded, and then it is
\* over: no operation is left that could still send one.
CancelledIsClean ==
    launch.state = "cancelled" =>
        launch.ids.campaign = NoId /\ Active = {} /\ \A o \in Ops : ~HasAttempt(o)

\* The operation a user sees as cancelled never sent anything.
CancelledSentNothing == \A o \in Ops : ops[o].view.state = "cancelled" => ~HasAttempt(o)

\* Over all operations ever reserved, each creation and the publication are dispatched at
\* most once: nothing that may have created a remote object is repeated by a later command.
DispatchedOnce ==
    \A s \in Creations \cup {"publish"}, o, p \in Ops :
        attempts[o][s].status # "none" /\ attempts[p][s].status # "none" => o = p

\* An unconfirmed write holds its operation: only the claim that recorded it may still settle
\* it where it was sent; everyone later finds the operation at a stage that observes.
UnconfirmedHolds ==
    \A o \in Active, s \in EffectStages :
        attempts[o][s].status \in {"dispatching", "uncertain"} =>
            \/ ops[o].stage \in {"reconcile", "progress"}
            \/ ops[o].stage = s /\ attempts[o][s] = [status |-> "dispatching", gen |-> ops[o].gen]

\* Superseded, completed and expired operations are history: no late worker changes them.
ClosedIsFinal ==
    [][\A o \in Ops : Reserved(o) /\ ~ops[o].active =>
            ops'[o] = ops[o] /\ attempts'[o] = attempts[o]]_store

\* A recorded attempt is never withdrawn and a confirmed one never becomes doubtful.
AttemptsOnlySettle ==
    [][\A o \in Ops, s \in EffectStages :
        /\ attempts[o][s].status # "none" => attempts'[o][s].status # "none"
        /\ attempts[o][s].status = "confirmed" => attempts'[o][s] = attempts[o][s]
        /\ attempts[o][s].status = "uncertain" => attempts'[o][s].status # "dispatching"]_store
=============================================================================

------------------------- MODULE PublisherRefinement -------------------------
(***************************************************************************)
(* Theorems about the workers, the wire and the provider, for any number   *)
(* of operations, workers, identities and claims:                          *)
(*   - they implement the lineage (WorkersImplement);                      *)
(*   - what the tables say is true of the provider: the safety properties  *)
(*     of PublisherWorker, from the inductive invariant ReachInv;          *)
(*   - they keep the promise made to the owner (WorkersKeepPromise).       *)
(*                                                                         *)
(* A worker calls the procedures with what it holds.  That a call is one   *)
(* the lineage allows needs two things about what a worker can hold: the   *)
(* generation of a live lease is one a claim may give, and an answer to a  *)
(* creation is an identity.                                                *)
(***************************************************************************)
EXTENDS PublisherWorker, PublisherSafety, FiniteSetTheorems

\* An active operation was claimed at most MaxGen times, and a lease comes from a claim.
GenBound ==
    \A o \in Ops : ops[o].active => ops[o].gen <= MaxGen /\ (ops[o].leased => 1 <= ops[o].gen)

Replies(s) == {"none"} \cup (IF s \in Creations THEN Ids ELSE {"ok"})

\* What a delivery holds between two awaits.
Points == {"loop", "read", "admitted", "recorded", "cleared", "waiting"}
Sights == Reports \cup {"none", "mismatch", "draft_ready"}

DeliveryRow ==
    [pc : Points, op : Ops, gen : Nat, stage : Stages, saw : Sights,
     reply : Ids \cup {"none", "ok"}]

Held(d) == d = Idle \/ (d \in DeliveryRow /\ d.reply \in Replies(d.stage))

WorkInv ==
    /\ work = [w \in Workers |-> work[w]]
    /\ \A w \in Workers : Held(work[w])
    /\ observed \in Observable

\* What the steps of the implementation rely on.
ImplInv == TypeInv /\ GenBound /\ WorkInv

-----------------------------------------------------------------------------
LEMMA GenStep ==
    ASSUME TypeInv, GenBound, Kinds
    PROVE  GenBound'
<1>0. \A x \in Ops : ops[x].gen \in Nat
    BY DEF TypeInv, TypeOK, OpRow
<1>1. CASE Rests
    BY <1>1 DEF Rests, GenBound
<1>2. ASSUME NEW o \in Ops, NEW act \in Actions, Reserves(o, act)
      PROVE  GenBound'
    BY <1>2, BoundAssumption DEF Reserves, GenBound
<1>3. ASSUME NEW o \in Ops, NEW s \in EffectStages, Dispatches(o, s)
      PROVE  GenBound'
    BY <1>3 DEF Dispatches, GenBound
<1>4. ASSUME NEW o \in Ops, NEW stage \in Stages, NEW state \in LaunchStates,
             NEW active \in BOOLEAN, Moves(o, stage, state, active)
      PROVE  GenBound'
    <2>1. /\ ops[o].active /\ \A x \in Ops \ {o} : ops'[x] = ops[x]
          /\ \/ ops'[o].gen = ops[o].gen /\ (ops'[o].leased => ops[o].leased)
             \/ ops[o].gen < MaxGen /\ ops'[o].gen = ops[o].gen + 1
        BY <1>4 DEF Moves
    <2>2. ops[o].gen <= MaxGen /\ (ops[o].leased => 1 <= ops[o].gen)
        BY <2>1 DEF GenBound
    <2>3. ops'[o].gen <= MaxGen /\ (ops'[o].leased => 1 <= ops'[o].gen)
        BY <1>0, <2>1, <2>2, BoundAssumption
    <2>4. QED
        BY <2>1, <2>3 DEF GenBound
<1>5. QED
    BY <1>1, <1>2, <1>3, <1>4 DEF Kinds, MoveKind

\* A call whose fence holds presents a generation the lineage enumerates.
LEMMA FencedGeneration ==
    ASSUME TypeInv, GenBound, NEW o \in Ops, NEW w, NEW g, NEW s, Fence(o, w, g, s)
    PROVE  g \in 1 .. MaxGen /\ s \in Stages
    BY BoundAssumption DEF Fence, Current, GenBound, TypeInv, TypeOK, OpRow

\* Every accepted call of a worker is a step of the lineage.
LEMMA FencedCall ==
    ASSUME ImplInv, NEW w \in Workers, NEW o \in Ops, NEW g, NEW s,
           \/ MarkUncertain(o, w, g, s)
           \/ \E ev \in Evidence : \/ Dispatch(o, w, g, s, ev)
                                   \/ PreflightRefusal(o, w, g, s, ev)
                                   \/ ParityRefusal(o, w, g, s, ev)
           \/ \E ids \in NativeIds :
                 \/ \E state \in Acknowledgements : ConfirmEffect(o, w, g, s, state, ids)
                 \/ DraftReady(o, w, g, s, ids)
                 \/ \E next \in {"progress", "complete"}, state \in Reports :
                        Report(o, w, g, s, next, state, ids)
    PROVE  Next
<1>1. Fence(o, w, g, s)
    BY DEF MarkUncertain, Dispatch, PreflightRefusal, ParityRefusal, ConfirmEffect, DraftReady,
        Report
<1>2. g \in 1 .. MaxGen /\ s \in Stages
    BY <1>1, FencedGeneration DEF ImplInv
<1>3. WorkerCall(o, w, g, s)
    BY <1>1 DEF WorkerCall
<1>4. QED
    BY <1>2, <1>3 DEF Next

LEMMA InitImplements == WorkerInit => Init /\ ImplInv
<1> SUFFICES ASSUME WorkerInit PROVE Init /\ ImplInv
    OBVIOUS
<1>1. Init /\ TypeInv
    BY TypeInit DEF WorkerInit
<1>2. GenBound
    BY <1>1, BoundAssumption DEF Init, NoOp, GenBound
<1>3. WorkInv
    BY DEF WorkerInit, Quiet, Idle, WorkInv, Held, Observable
<1>4. QED
    BY <1>1, <1>2, <1>3 DEF ImplInv

-----------------------------------------------------------------------------
\* The steps that call a procedure.
LEMMA CallImplements ==
    ASSUME ImplInv, NEW w \in Workers, WorkerStep(w)
    PROVE  Next \/ UNCHANGED store
<1> DEFINE o == work[w].op
           g == work[w].gen
           s == work[w].stage
<1>0. /\ launch.ids \in NativeIds /\ Evidenced \in Evidence
      /\ ~At(w, "idle") => o \in Ops /\ work[w].reply \in Replies(s)
    BY DEF ImplInv, TypeInv, TypeOK, LaunchRow, WorkInv, Held, DeliveryRow, Idle, At, Evidenced,
        Evidence
<1>1. CASE \E x \in Ops : Deliver(w, x) \/ DeliverLate(w, x)
    BY <1>1, SMTT(30) DEF Deliver, DeliverLate, Next
<1>2. CASE Read(w) \/ Admit(w) \/ Recheck(w) \/ Send(w) \/ GiveUp(w)
    BY <1>2 DEF Read, Admit, Recheck, Send, Waiting, GiveUp, store
<1>3. CASE Conclude(w)
    <2>1. ~At(w, "idle")
        BY <1>3 DEF Conclude, At
    <2>2. \/ DraftReady(o, w, g, s, launch.ids)
          \/ ParityRefusal(o, w, g, s, Evidenced)
          \/ PreflightRefusal(o, w, g, s, Evidenced)
          \/ \E next \in {"progress", "complete"} :
                 Report(o, w, g, s, next, work[w].saw, launch.ids)
        BY <1>3 DEF Conclude
    <2>3. \A next : Report(o, w, g, s, next, work[w].saw, launch.ids) => work[w].saw \in Reports
        BY DEF Report
    <2>4. QED
        BY <1>0, <2>1, <2>2, <2>3, FencedCall
<1>4. CASE Record(w)
    <2>1. ~At(w, "idle") /\ Dispatch(o, w, g, s, Evidenced)
        BY <1>4 DEF Record, At
    <2>2. QED
        BY <1>0, <2>1, FencedCall
<1>5. CASE Receive(w)
    <2>1. ~At(w, "idle") /\ work[w].reply # "none" /\ Confirm(w)
        BY <1>5 DEF Receive, At
    <2>2. s \in Creations => work[w].reply \in Ids
        BY <1>0, <2>1 DEF Replies
    <2>3. [launch.ids EXCEPT ![s] = work[w].reply] \in NativeIds \/ s \notin Creations
        BY <1>0, <2>2 DEF NativeIds, Creations
    <2>4. PICK ids \in NativeIds, state \in Acknowledgements : ConfirmEffect(o, w, g, s, state, ids)
        BY <1>0, <2>1, <2>3 DEF Confirm, Acknowledgements
    <2>5. QED
        BY <1>0, <2>1, <2>4, FencedCall
<1>6. CASE Doubt(w)
    <2>1. ~At(w, "idle") /\ MarkUncertain(o, w, g, s)
        BY <1>6 DEF Doubt, At
    <2>2. QED
        BY <1>0, <2>1, FencedCall
<1>7. CASE FinishLate(w)
    <2>1. ~At(w, "idle") /\ DeadlineClose(o)
        BY <1>7 DEF FinishLate, At
    <2>2. QED
        BY <1>0, <2>1 DEF Next
<1>8. QED
    BY <1>1, <1>2, <1>3, <1>4, <1>5, <1>6, <1>7 DEF WorkerStep

LEMMA StepImplements ==
    ASSUME ImplInv, [WorkerNext]_vars
    PROVE  [Next]_store
<1>1. CASE \E w \in Workers : WorkerStep(w)
    BY <1>1, CallImplements
<1>2. CASE Browse
    BY <1>2 DEF Browse, Next
<1>3. CASE \E o \in Ops, act \in Actions : Command(o, act)
    <2>1. Evidenced \in Evidence
        BY DEF ImplInv, WorkInv, Evidenced, Evidence
    <2>2. QED
        BY <1>3, <2>1 DEF Command, Next
<1>4. CASE (\E m \in wire : Apply(m) \/ Lose(m)) \/ Review \/ Lapse
    BY <1>4 DEF Apply, Lose, Review, Lapse, store
<1>5. CASE Tick
    BY <1>5 DEF Tick, Next
<1>6. CASE UNCHANGED vars
    BY <1>6 DEF vars, store
<1>7. QED
    BY <1>1, <1>2, <1>3, <1>4, <1>5, <1>6 DEF WorkerNext

-----------------------------------------------------------------------------
\* One delivery goes on and keeps its operation, stage and answer.
LEMMA GoesOn ==
    ASSUME WorkInv, NEW w \in Workers, ~At(w, "idle"), NEW pc \in Points
    PROVE  /\ Held([work[w] EXCEPT !.pc = pc])
           /\ \A saw \in Sights : Held([work[w] EXCEPT !.pc = pc, !.saw = saw])
<1>1. work[w] \in DeliveryRow /\ work[w].reply \in Replies(work[w].stage)
    BY DEF WorkInv, Held, Idle, At
<1>2. ASSUME NEW saw \in Sights
      PROVE  Held([work[w] EXCEPT !.pc = pc, !.saw = saw])
    <2> DEFINE d == [work[w] EXCEPT !.pc = pc, !.saw = saw]
    <2>1. d \in DeliveryRow /\ d.reply = work[w].reply /\ d.stage = work[w].stage
        BY <1>1 DEF DeliveryRow
    <2> HIDE DEF d
    <2>2. QED
        BY <1>1, <2>1 DEF Held, d
<1> DEFINE e == [work[w] EXCEPT !.pc = pc]
<1>3. e \in DeliveryRow /\ e.reply = work[w].reply /\ e.stage = work[w].stage
    BY <1>1 DEF DeliveryRow
<1> HIDE DEF e
<1>4. QED
    BY <1>1, <1>2, <1>3 DEF Held, e

\* Only one worker's delivery changes.
LEMMA OneWorker ==
    ASSUME WorkInv, NEW w, NEW d, work' = [work EXCEPT ![w] = d],
           w \in Workers => Held(d), observed' \in Observable
    PROVE  WorkInv'
<1>1. work' = [x \in Workers |-> work'[x]]
    BY DEF WorkInv
<1>2. \A x \in Workers : Held(work'[x])
    BY DEF WorkInv
<1>3. QED
    BY <1>1, <1>2 DEF WorkInv

LEMMA DeliveryHeld ==
    ASSUME NEW o \in Ops, NEW g \in Nat, NEW s \in Stages
    PROVE  Held(Delivery(o, g, s))
    BY DEF Held, Delivery, DeliveryRow, Points, Sights, Replies

LEMMA WorkerKeeps ==
    ASSUME ImplInv, TypeInv', NEW w \in Workers, WorkerStep(w)
    PROVE  WorkInv'
<1>0. WorkInv /\ observed \in Observable /\ Held(Idle)
    BY DEF ImplInv, WorkInv, Held
<1>1. CASE End(w) /\ observed' = observed
    BY <1>0, <1>1, OneWorker DEF End
<1>2. ASSUME NEW pc \in Points, Goto(w, pc), ~At(w, "idle"), observed' \in Observable
      PROVE  WorkInv'
    <2>1. Held([work[w] EXCEPT !.pc = pc])
        BY <1>0, <1>2, GoesOn
    <2>2. QED
        BY <1>0, <1>2, <2>1, OneWorker DEF Goto
<1>3. ASSUME NEW o \in Ops, Deliver(w, o) \/ DeliverLate(w, o)
      PROVE  WorkInv'
    <2>1. CASE DeliverLate(w, o)
        BY <1>0, <2>1 DEF DeliverLate, outside, WorkInv
    <2>2. CASE Deliver(w, o)
        <3>1. ops'[o].gen \in Nat /\ ops'[o].stage \in Stages
            BY DEF TypeInv, TypeOK, OpRow
        <3>2. Held(Delivery(o, ops'[o].gen, ops'[o].stage))
            BY <3>1, DeliveryHeld
        <3>3. QED
            BY <1>0, <2>2, <3>2, OneWorker DEF Deliver
    <2>3. QED
        BY <1>3, <2>1, <2>2
<1>4. CASE Read(w)
    <2>1. \A o, s, complete : Matching(o, s, complete) \in Sights
        BY DEF Matching, Verdict, Reports, Sights
    <2>2. PICK matches \in BOOLEAN, complete \in BOOLEAN :
              work' = [work EXCEPT ![w] = [work[w] EXCEPT !.pc = "read",
                  !.saw = IF matches THEN Matching(work[w].op, work[w].stage, complete)
                          ELSE "mismatch"]]
        BY <1>4 DEF Read
    <2>3. PICK saw \in Sights :
              work' = [work EXCEPT ![w] = [work[w] EXCEPT !.pc = "read", !.saw = saw]]
        BY <2>1, <2>2 DEF Sights
    <2>4. ~At(w, "idle") /\ observed' = observed /\ "read" \in Points
        BY <1>4 DEF Read, At, Points
    <2>5. Held([work[w] EXCEPT !.pc = "read", !.saw = saw])
        BY <1>0, <2>4, GoesOn
    <2>6. QED
        BY <1>0, <2>3, <2>4, <2>5, OneWorker
<1>5. CASE Admit(w)
    <2>1. observed' \in Observable
        BY <1>5 DEF Admit, Observable
    <2>2. QED
        BY <1>2, <1>5, <2>1 DEF Admit, At, Points
<1>6. CASE Record(w) \/ Recheck(w) \/ Send(w)
    BY <1>0, <1>2, <1>6 DEF Record, Recheck, Send, Waiting, At, Points
<1>7. CASE Conclude(w) \/ Doubt(w) \/ FinishLate(w) \/ GiveUp(w)
    BY <1>1, <1>7 DEF Conclude, Doubt, FinishLate, GiveUp
<1>8. CASE Receive(w)
    <2>1. /\ ~At(w, "idle") /\ observed' = observed
          /\ work' = [work EXCEPT ![w] =
                 Delivery(work[w].op, work[w].gen, AfterEffect(work[w].stage))]
        BY <1>8 DEF Receive, Confirm, At
    <2>2. work[w].op \in Ops /\ work[w].gen \in Nat
        BY <1>0, <2>1 DEF WorkInv, Held, DeliveryRow, Idle, At
    <2>3. AfterEffect(work[w].stage) \in Stages
        BY EndsKnown DEF AfterEffect
    <2>4. QED
        BY <1>0, <2>1, <2>2, <2>3, DeliveryHeld, OneWorker
<1>9. QED
    BY <1>3, <1>4, <1>5, <1>6, <1>7, <1>8 DEF WorkerStep

LEMMA AnswerKeeps ==
    ASSUME WorkInv, observed' \in Observable, NEW m, NEW reply, reply \in Replies(m.stage),
           Answer(m, reply)
    PROVE  WorkInv'
<1> DEFINE w == m.from
           d == IF work[w].pc = "waiting" /\ work[w].op = m.op /\ work[w].stage = m.stage
                THEN [work[w] EXCEPT !.reply = reply] ELSE work[w]
<1>1. work' = [work EXCEPT ![w] = d]
    BY DEF Answer
<1>2. ASSUME w \in Workers
      PROVE  Held(d)
    <2>1. CASE work[w].pc = "waiting" /\ work[w].op = m.op /\ work[w].stage = m.stage
        <3>1. work[w] \in DeliveryRow
            BY <1>2, <2>1 DEF WorkInv, Held, Idle
        <3>2. reply \in Ids \cup {"none", "ok"}
            BY DEF Replies
        <3>3. d = [work[w] EXCEPT !.reply = reply]
            BY <2>1
        <3> HIDE DEF d
        <3>4. d \in DeliveryRow /\ d.reply = reply /\ d.stage = m.stage
            BY <2>1, <3>1, <3>2, <3>3 DEF DeliveryRow
        <3>5. QED
            BY <3>4 DEF Held
    <2>2. QED
        BY <1>2, <2>1 DEF WorkInv
<1> HIDE DEF d, w
<1>3. QED
    BY <1>1, <1>2, OneWorker

LEMMA WorkKeeps ==
    ASSUME ImplInv, TypeInv', [WorkerNext]_vars
    PROVE  WorkInv'
<1>0. WorkInv /\ observed \in Observable
    BY DEF ImplInv, WorkInv
<1>1. CASE \E w \in Workers : WorkerStep(w)
    BY <1>1, WorkerKeeps
<1>2. CASE Browse \/ Tick \/ UNCHANGED vars
    BY <1>0, <1>2 DEF Browse, Tick, outside, vars, WorkInv
<1>3. CASE Review \/ Lapse \/ \E o \in Ops, act \in Actions : Command(o, act)
    BY <1>0, <1>3 DEF Review, Lapse, Command, WorkInv, Observable
<1>4. ASSUME NEW m \in wire, Apply(m) \/ Lose(m)
      PROVE  WorkInv'
    <2>1. CASE Lose(m)
        BY <1>0, <2>1 DEF Lose, WorkInv
    <2>2. CASE Apply(m)
        <3>1. PICK reply \in Replies(m.stage) : Answer(m, reply)
            BY <2>2 DEF Apply, Replies
        <3>2. observed' = observed
            BY <2>2 DEF Apply
        <3>3. QED
            BY <1>0, <3>1, <3>2, AnswerKeeps
    <2>3. QED
        BY <1>4, <2>1, <2>2
<1>5. QED
    BY <1>1, <1>2, <1>3, <1>4 DEF WorkerNext

LEMMA ImplStep == ImplInv /\ [WorkerNext]_vars => ImplInv' /\ [Next]_store
<1> SUFFICES ASSUME ImplInv, [WorkerNext]_vars PROVE ImplInv' /\ [Next]_store
    OBVIOUS
<1>1. [Next]_store
    BY StepImplements
<1>2. TypeInv'
    BY <1>1, TypeStep DEF ImplInv
<1>3. GenBound'
    BY <1>1, StepKinds, GenStep DEF ImplInv
<1>4. QED
    BY <1>1, <1>2, <1>3, WorkKeeps DEF ImplInv

\* Wherever deliveries overlap, answers are late and workers die, what the workers do to the
\* tables is something the procedures allow.
THEOREM WorkersImplement == WorkerSpec => LineageSpec
    BY InitImplements, ImplStep, PTL DEF WorkerSpec, LineageSpec, Spec
-----------------------------------------------------------------------------
(***************************************************************************)
(* What the workers and the provider can never do.                         *)
(***************************************************************************)
\* A delivery between the record of a write and its answer.
Engaged(w) == work[w].pc \in {"recorded", "cleared", "waiting"}
Has(w, o, s) == Engaged(w) /\ work[w].op = o /\ work[w].stage = s

Requests == [op : Ops, stage : EffectStages, from : Workers]

\* A write is recorded before it is sent, by one delivery, and sent by that delivery once: at
\* any time one delivery at most stands behind a record, and one request behind a sending.
RequestInv ==
    /\ sent \in [Ops -> [EffectStages -> {0, 1}]]
    /\ wire \subseteq Requests
    /\ \A w \in Workers : Engaged(w) =>
          /\ work[w].stage \in EffectStages
          /\ attempts[work[w].op][work[w].stage].status # "none"
          /\ sent[work[w].op][work[w].stage] = (IF At(w, "waiting") THEN 1 ELSE 0)
    /\ \A v, w \in Workers, o \in Ops, s \in EffectStages :
          Has(v, o, s) /\ Has(w, o, s) => v = w
    /\ \A o \in Ops, s \in EffectStages : sent[o][s] = 1 => attempts[o][s].status # "none"
    /\ \A m \in wire : sent[m.op][m.stage] = 1
    /\ \A m, n \in wire : m.op = n.op /\ m.stage = n.stage => m = n

RemoteStatus == {"NONE", "DRAFT", "IN_REVIEW", "PUBLISHED", "PAUSED", "FAILED"}

PublishSent == \E o \in Ops : sent[o]["publish"] = 1

\* The provider has what was sent to it: an object of a kind only where no request for one is
\* still under way, and a campaign past its draft only where a publication was sent.
ProviderInv ==
    /\ remote \in [made : [Creations -> SUBSET Ids], status : RemoteStatus]
    /\ \A k \in Creations : \A x, y \in remote.made[k] : x = y
    /\ \A k \in Creations : remote.made[k] # {} => \E o \in Ops : sent[o][k] = 1
    /\ \A m \in wire : m.stage \in Creations => remote.made[m.stage] = {}
    /\ remote.status # "NONE" => remote.made["campaign"] # {}
    /\ remote.status \notin {"NONE", "DRAFT"} => PublishSent

\* Nothing is reported of a publication but what was once read of one.
SightInv ==
    /\ \A w \in Workers : ~At(w, "idle") /\ work[w].saw \in {"in_review", "live"} => PublishSent
    /\ launch.state \in {"in_review", "live"} => PublishSent

\* Identities are those of objects the provider made.
IdentityInv ==
    /\ \A w \in Workers : ~At(w, "idle") /\ work[w].stage \in Creations /\ work[w].reply # "none"
          => work[w].reply \in remote.made[work[w].stage]
    /\ \A k \in Creations : launch.ids[k] # NoId => launch.ids[k] \in remote.made[k]

Beyond(s) == CASE s = "campaign" -> {"adset", "ad"} [] s = "adset" -> {"ad"} [] OTHER -> {}

DraftAt(o) ==
    /\ ops[o].stage \in Creations \cup {"queued", "parity", "reconcile"}
    /\ ops[o].stage = "queued" => \A k \in Creations :
          launch.ids[k] = NoId /\ attempts[o][k].status = "none"
    /\ ops[o].stage \in Creations =>
          /\ launch.ids[ops[o].stage] = NoId
          /\ attempts[o][ops[o].stage].status # "confirmed"
          /\ \A k \in Beyond(ops[o].stage) : attempts[o][k].status = "none"
    /\ ops[o].stage = "adset" => launch.ids.campaign # NoId
    /\ ops[o].stage = "ad" => launch.ids.adset # NoId
    /\ ops[o].stage = "reconcile" =>
          \E k \in Creations : launch.ids[k] = NoId /\ attempts[o][k].status # "none"

\* A draft creates parent first and stops at the creation whose identity it lost.
DraftInv ==
    /\ \A o \in Active : ops[o].action = "draft" => DraftAt(o)
    /\ \A w \in Workers : (At(w, "read") \/ At(w, "admitted"))
          /\ work[w].stage \in {"progress", "reconcile"} => ops[work[w].op].action # "draft"
    /\ \A w \in Workers : ~At(w, "idle") => Reserved(work[w].op)

\* A child is only recorded under a known parent, and a publication under a known draft.
FoundInv ==
    /\ \A o \in Ops :
          /\ attempts[o]["adset"].status # "none" => launch.ids.campaign # NoId
          /\ attempts[o]["ad"].status # "none" => launch.ids.adset # NoId
    /\ \A o \in Ops : ops[o].action = "publish" => launch.ids.ad # NoId

ReachInv ==
    /\ ImplInv /\ SafeInv
    /\ RequestInv /\ ProviderInv /\ SightInv /\ IdentityInv /\ DraftInv /\ FoundInv

\* The record of a write stays.
LEMMA RecordsStay ==
    ASSUME TypeInv, SingleActive, Kinds
    PROVE  \A o \in Ops, s \in EffectStages :
               attempts[o][s].status # "none" => attempts'[o][s].status # "none"
<1> DEFINE Kept == \A o \in Ops, s \in EffectStages :
               attempts[o][s].status # "none" => attempts'[o][s].status # "none"
<1>1. ASSUME attempts' = attempts PROVE Kept
    BY <1>1
<1>2. ASSUME NEW o \in Ops, NEW s \in EffectStages, Dispatches(o, s)
      PROVE  Kept
    <2>1. /\ \A x \in Ops \ {o} : attempts'[x] = attempts[x]
          /\ \A x \in EffectStages \ {s} : attempts'[o][x] = attempts[o][x]
          /\ attempts'[o][s] = [status |-> "dispatching", gen |-> ops[o].gen]
        BY <1>2, DispatchesActive
    <2>2. \A x \in EffectStages : attempts[o][x].status # "none" => attempts'[o][x].status # "none"
        <3> TAKE x \in EffectStages
        <3>1. CASE x = s
            BY <2>1, <3>1
        <3>2. CASE x # s
            BY <2>1, <3>2
        <3>3. QED
            BY <3>1, <3>2
    <2>3. QED
        BY <2>1, <2>2
<1>3. ASSUME NEW o \in Ops, NEW stage \in Stages, NEW state \in LaunchStates,
             NEW active \in BOOLEAN, Moves(o, stage, state, active), Means(o, stage, state, active)
      PROVE  Kept
    BY <1>3, MovesActive
<1>4. QED
    BY <1>1, <1>2, <1>3 DEF Kinds, MoveKind, Rests, Reserves

\* A step of the workers is a step of the lineage, of one of its kinds.
LEMMA StepFacts ==
    ASSUME ReachInv, [WorkerNext]_vars
    PROVE  /\ ImplInv' /\ SafeInv' /\ Kinds
           /\ \A o \in Ops, s \in EffectStages :
                 attempts[o][s].status # "none" => attempts'[o][s].status # "none"
<1>1. ImplInv' /\ [Next]_store
    BY ImplStep DEF ReachInv
<1>2. SafeInv'
    BY <1>1, SafeStep DEF ReachInv
<1>3. Kinds /\ TypeInv /\ SingleActive
    BY <1>1, StepKinds DEF ReachInv, SafeInv
<1>4. QED
    BY <1>1, <1>2, <1>3, RecordsStay

\* How one delivery changes.
LEMMA GoesTo ==
    ASSUME WorkInv, NEW w \in Workers, ~At(w, "idle"), NEW pc, Goto(w, pc)
    PROVE  /\ \A v \in Workers \ {w} : work'[v] = work[v]
           /\ work'[w].pc = pc
           /\ work'[w].op = work[w].op /\ work'[w].gen = work[w].gen
           /\ work'[w].stage = work[w].stage
           /\ work'[w].saw = work[w].saw /\ work'[w].reply = work[w].reply
<1>1. work[w] \in DeliveryRow
    BY DEF WorkInv, Held, Idle, At
<1>2. work' = [work EXCEPT ![w] = [work[w] EXCEPT !.pc = pc]]
    BY DEF Goto
<1>3. work'[w] = [work[w] EXCEPT !.pc = pc] /\ \A v \in Workers \ {w} : work'[v] = work[v]
    BY <1>2 DEF WorkInv
<1>4. QED
    BY <1>1, <1>3 DEF DeliveryRow

LEMMA BecomesThat ==
    ASSUME WorkInv, NEW w \in Workers, NEW d, work' = [work EXCEPT ![w] = d]
    PROVE  work'[w] = d /\ \A v \in Workers \ {w} : work'[v] = work[v]
    BY DEF WorkInv

-----------------------------------------------------------------------------
\* Steps that neither record nor send: requests may get lost, deliveries may end.
Calm ==
    /\ sent' = sent /\ wire' \subseteq wire
    /\ \A w \in Workers : Engaged(w)' =>
          /\ Engaged(w) /\ work'[w].op = work[w].op /\ work'[w].stage = work[w].stage
          /\ At(w, "waiting")' = At(w, "waiting")

LEMMA CalmOne ==
    ASSUME WorkInv, NEW w \in Workers, NEW d, work' = [work EXCEPT ![w] = d],
           sent' = sent, wire' \subseteq wire,
           d.pc \in {"recorded", "cleared", "waiting"} =>
               /\ Engaged(w) /\ d.op = work[w].op /\ d.stage = work[w].stage
               /\ (d.pc = "waiting") = At(w, "waiting")
    PROVE  Calm
<1>1. work'[w] = d /\ \A v \in Workers \ {w} : work'[v] = work[v]
    BY BecomesThat
<1>2. QED
    BY <1>1 DEF Calm, Engaged, At

LEMMA CalmSteps ==
    ASSUME ReachInv, [WorkerNext]_vars
    PROVE  Calm \/ \E w \in Workers : Record(w) \/ Send(w)
<1>0. WorkInv /\ wire \subseteq Requests
    BY DEF ReachInv, ImplInv, RequestInv
<1>1. ASSUME UNCHANGED <<work, sent>>, wire' \subseteq wire
      PROVE  Calm
    BY <1>1 DEF Calm, Engaged, At
<1>2. ASSUME NEW w \in Workers, End(w), UNCHANGED <<sent, wire>>
      PROVE  Calm
    BY <1>0, <1>2, CalmOne DEF End, Idle
<1>3. ASSUME NEW w \in Workers, NEW o, NEW g, NEW s, UNCHANGED <<sent, wire>>,
             work' = [work EXCEPT ![w] = Delivery(o, g, s)]
      PROVE  Calm
    BY <1>0, <1>3, CalmOne DEF Delivery
<1>4. ASSUME NEW w \in Workers, NEW pc, ~At(w, "idle"), Goto(w, pc), UNCHANGED <<sent, wire>>,
             pc \in {"recorded", "cleared", "waiting"} =>
                 Engaged(w) /\ (pc = "waiting") = At(w, "waiting")
      PROVE  Calm
    BY <1>0, <1>4, GoesTo DEF Calm, Engaged, At
<1>5. ASSUME NEW w \in Workers, WorkerStep(w), ~Record(w), ~Send(w)
      PROVE  Calm
    <2>1. CASE \E o \in Ops : Deliver(w, o) \/ DeliverLate(w, o)
        <3>1. PICK o \in Ops : Deliver(w, o) \/ DeliverLate(w, o)
            BY <2>1
        <3>2. CASE DeliverLate(w, o)
            BY <1>1, <3>2 DEF DeliverLate, outside
        <3>3. CASE Deliver(w, o)
            <4>1. UNCHANGED <<sent, wire>> /\ At(w, "idle")
                BY <3>3 DEF Deliver
            <4>2. \/ End(w)
                  \/ work' = [work EXCEPT ![w] = Delivery(o, ops'[o].gen, ops'[o].stage)]
                BY <3>3 DEF Deliver, End
            <4>3. QED
                BY <1>2, <1>3, <4>1, <4>2
        <3>4. QED
            BY <3>1, <3>2, <3>3
    <2>2. CASE Read(w)
        <3>1. PICK saw : work' = [work EXCEPT ![w] = [work[w] EXCEPT !.pc = "read", !.saw = saw]]
            BY <2>2 DEF Read
        <3>2. UNCHANGED <<sent, wire>> /\ work[w] \in DeliveryRow
            BY <1>0, <2>2 DEF Read, WorkInv, Held, Idle, At
        <3>3. [work[w] EXCEPT !.pc = "read", !.saw = saw].pc = "read"
            BY <3>2 DEF DeliveryRow
        <3>4. QED
            BY <1>0, <3>1, <3>2, <3>3, CalmOne
    <2>3. CASE Admit(w)
        BY <1>4, <2>3 DEF Admit, At
    <2>4. CASE Recheck(w)
        BY <1>4, <2>4 DEF Recheck, At, Engaged
    <2>5. CASE Receive(w)
        BY <1>3, <2>5 DEF Receive, Confirm
    <2>6. CASE Conclude(w) \/ Doubt(w) \/ FinishLate(w) \/ GiveUp(w)
        BY <1>2, <2>6 DEF Conclude, Doubt, FinishLate, GiveUp
    <2>7. QED
        BY <1>5, <2>1, <2>2, <2>3, <2>4, <2>5, <2>6 DEF WorkerStep
<1>6. ASSUME NEW m \in wire, Apply(m)
      PROVE  Calm
    <2>1. PICK reply : Answer(m, reply)
        BY <1>6 DEF Apply
    <2>2. sent' = sent /\ wire' = wire \ {m} /\ m.from \in Workers
        BY <1>0, <1>6 DEF Apply, Requests
    <2> DEFINE d == IF work[m.from].pc = "waiting" /\ work[m.from].op = m.op
                       /\ work[m.from].stage = m.stage
                    THEN [work[m.from] EXCEPT !.reply = reply] ELSE work[m.from]
    <2>3. work' = [work EXCEPT ![m.from] = d]
        BY <2>1 DEF Answer
    <2>4. work[m.from].pc = "waiting" => work[m.from] \in DeliveryRow
        BY <1>0, <2>2 DEF WorkInv, Held, Idle
    <2>5. d.pc = work[m.from].pc /\ (Engaged(m.from) =>
              d.op = work[m.from].op /\ d.stage = work[m.from].stage)
        BY <2>4 DEF DeliveryRow
    <2> HIDE DEF d
    <2>6. QED
        BY <1>0, <2>2, <2>3, <2>5, CalmOne DEF Engaged, At
<1>7. CASE Browse \/ Tick \/ UNCHANGED vars
    BY <1>1, <1>7 DEF Browse, Tick, outside, vars
<1>8. CASE Review \/ Lapse \/ (\E m \in wire : Lose(m)) \/ \E o \in Ops, act \in Actions : Command(o, act)
    BY <1>1, <1>8 DEF Review, Lapse, Lose, Command
<1>9. QED
    BY <1>5, <1>6, <1>7, <1>8 DEF WorkerNext

LEMMA CalmKeeps ==
    ASSUME RequestInv, Calm,
           \A o \in Ops, s \in EffectStages :
               attempts[o][s].status # "none" => attempts'[o][s].status # "none",
           \A w \in Workers : Engaged(w) => work[w].op \in Ops
    PROVE  RequestInv'
<1>1. /\ sent' \in [Ops -> [EffectStages -> {0, 1}]] /\ wire' \subseteq Requests
      /\ \A m \in wire' : sent'[m.op][m.stage] = 1
      /\ \A m, n \in wire' : m.op = n.op /\ m.stage = n.stage => m = n
    BY DEF RequestInv, Calm
<1>2. \A o \in Ops, s \in EffectStages : sent'[o][s] = 1 => attempts'[o][s].status # "none"
    BY DEF RequestInv, Calm
<1>3. ASSUME NEW w \in Workers, Engaged(w)'
      PROVE  /\ work'[w].stage \in EffectStages
             /\ attempts'[work'[w].op][work'[w].stage].status # "none"
             /\ sent'[work'[w].op][work'[w].stage] = (IF At(w, "waiting")' THEN 1 ELSE 0)
    <2>1. /\ Engaged(w) /\ work'[w].op = work[w].op /\ work'[w].stage = work[w].stage
          /\ At(w, "waiting")' = At(w, "waiting") /\ sent' = sent
        BY <1>3 DEF Calm
    <2>2. /\ work[w].op \in Ops /\ work[w].stage \in EffectStages
          /\ attempts[work[w].op][work[w].stage].status # "none"
          /\ sent[work[w].op][work[w].stage] = (IF At(w, "waiting") THEN 1 ELSE 0)
        BY <2>1 DEF RequestInv
    <2>3. QED
        BY <2>1, <2>2
<1>4. \A w \in Workers, o \in Ops, s \in EffectStages : Has(w, o, s)' => Has(w, o, s)
    BY DEF Calm, Has
<1>5. QED
    BY <1>1, <1>2, <1>3, <1>4 DEF RequestInv

\* The dispatch of a write is accepted where none was recorded, so nobody stands behind one.
LEMMA RecordKeeps ==
    ASSUME ReachInv, NEW w \in Workers, Record(w)
    PROVE  RequestInv'
<1> DEFINE o == work[w].op
           s == work[w].stage
<1>1. ~At(w, "idle") /\ Goto(w, "recorded") /\ sent' = sent /\ wire' = wire
    BY DEF Record, At
<1>2. WorkInv /\ RequestInv /\ TypeInv
    BY DEF ReachInv, ImplInv
<1>3. Dispatch(o, w, work[w].gen, s, Evidenced)
    BY DEF Record
<1>4. o \in Ops /\ s \in EffectStages /\ attempts[o][s].status = "none"
    BY <1>1, <1>2, <1>3 DEF Dispatch, WorkInv, Held, DeliveryRow, Idle, At
<1>5. /\ \A x \in Ops \ {o} : attempts'[x] = attempts[x]
      /\ \A x \in EffectStages \ {s} : attempts'[o][x] = attempts[o][x]
      /\ attempts'[o][s] = [status |-> "dispatching", gen |-> ops[o].gen]
    BY <1>2, <1>3, <1>4, DispatchKind, DispatchesActive
<1>6. attempts'[o][s].status # "none"
    BY <1>5
<1>7. /\ \A v \in Workers \ {w} : work'[v] = work[v]
      /\ work'[w].pc = "recorded" /\ work'[w].op = o /\ work'[w].stage = s
    BY <1>1, <1>2, GoesTo
<1>8. \A x \in Ops, z \in EffectStages :
          attempts[x][z].status # "none" => attempts'[x][z].status # "none"
    BY <1>4, <1>5, <1>6
<1>9. sent[o][s] = 0
    BY <1>2, <1>4 DEF RequestInv
<1>10. \A v \in Workers : ~Has(v, o, s)
    BY <1>2, <1>4 DEF RequestInv, Has
<1> HIDE DEF o, s
<1>11. \A v \in Workers \ {w}, x \in Ops, z \in EffectStages : Has(v, x, z)' = Has(v, x, z)
    BY <1>7 DEF Has, Engaged
<1>12. \A x \in Ops, z \in EffectStages : Has(w, x, z)' => x = o /\ z = s
    BY <1>7 DEF Has
<1>13. \A u, v \in Workers, x \in Ops, z \in EffectStages : Has(u, x, z)' /\ Has(v, x, z)' => u = v
    BY <1>2, <1>10, <1>11, <1>12 DEF RequestInv
<1>14. ASSUME NEW v \in Workers, Engaged(v)'
       PROVE  /\ work'[v].stage \in EffectStages
              /\ attempts'[work'[v].op][work'[v].stage].status # "none"
              /\ sent'[work'[v].op][work'[v].stage] = (IF At(v, "waiting")' THEN 1 ELSE 0)
    <2>1. CASE v = w
        BY <1>1, <1>4, <1>6, <1>7, <1>9, <2>1 DEF At
    <2>2. CASE v # w
        <3>1. Engaged(v) /\ work'[v] = work[v] /\ work[v].op \in Ops
            BY <1>2, <1>7, <1>14, <2>2 DEF Engaged, WorkInv, Held, Idle, DeliveryRow
        <3>2. QED
            BY <1>1, <1>2, <1>8, <3>1 DEF RequestInv, At
    <2>3. QED
        BY <2>1, <2>2
<1>15. QED
    BY <1>1, <1>2, <1>8, <1>13, <1>14 DEF RequestInv

\* A sending leaves the state behind the record: it was not sent before and is not again.
LEMMA SendFacts ==
    ASSUME ReachInv, NEW w \in Workers, Send(w)
    PROVE  LET m == [op |-> work[w].op, stage |-> work[w].stage, from |-> w]
           IN /\ m \in Requests /\ wire' = wire \cup {m} /\ sent[m.op][m.stage] = 0
              /\ sent' \in [Ops -> [EffectStages -> {0, 1}]] /\ sent'[m.op][m.stage] = 1
              /\ \A o \in Ops, s \in EffectStages :
                    <<o, s>> # <<m.op, m.stage>> => sent'[o][s] = sent[o][s]
              /\ attempts[m.op][m.stage].status # "none" /\ attempts' = attempts
              /\ Engaged(w) /\ Goto(w, "waiting")
<1> DEFINE o == work[w].op
           s == work[w].stage
           row == [sent[o] EXCEPT ![s] = @ + 1]
<1>1. WorkInv /\ RequestInv
    BY DEF ReachInv, ImplInv
<1>2. /\ wire' = wire \cup {[op |-> o, stage |-> s, from |-> w]}
      /\ Goto(w, "waiting") /\ attempts' = attempts /\ Engaged(w) /\ ~At(w, "waiting")
      /\ sent' = [sent EXCEPT ![o] = row]
    BY DEF Send, Waiting, store, Engaged, At
<1>3. /\ o \in Ops /\ s \in EffectStages /\ sent[o][s] = 0
      /\ attempts[o][s].status # "none"
    BY <1>1, <1>2 DEF RequestInv, WorkInv, Held, DeliveryRow, Idle, Engaged
<1> HIDE DEF o, s
<1>4. sent \in [Ops -> [EffectStages -> {0, 1}]]
    BY <1>1 DEF RequestInv
<1>5. /\ row \in [EffectStages -> {0, 1}] /\ row[s] = 1
      /\ \A z \in EffectStages \ {s} : row[z] = sent[o][z]
    BY <1>3, <1>4
<1> HIDE DEF row
<1>6. /\ sent' \in [Ops -> [EffectStages -> {0, 1}]]
      /\ sent'[o] = row /\ \A x \in Ops \ {o} : sent'[x] = sent[x]
    BY <1>2, <1>3, <1>4, <1>5
<1>7. [op |-> o, stage |-> s, from |-> w] \in Requests
    BY <1>3 DEF Requests
<1>8. \A x \in Ops, z \in EffectStages : <<x, z>> # <<o, s>> => sent'[x][z] = sent[x][z]
    BY <1>5, <1>6
<1>9. QED
    BY <1>2, <1>3, <1>5, <1>6, <1>7, <1>8 DEF o, s

LEMMA SendKeeps ==
    ASSUME ReachInv, NEW w \in Workers, Send(w)
    PROVE  RequestInv'
<1> DEFINE m == [op |-> work[w].op, stage |-> work[w].stage, from |-> w]
<1>1. /\ m \in Requests /\ wire' = wire \cup {m} /\ sent[m.op][m.stage] = 0
      /\ sent' \in [Ops -> [EffectStages -> {0, 1}]] /\ sent'[m.op][m.stage] = 1
      /\ \A o \in Ops, s \in EffectStages :
            <<o, s>> # <<m.op, m.stage>> => sent'[o][s] = sent[o][s]
      /\ attempts[m.op][m.stage].status # "none" /\ attempts' = attempts
      /\ Engaged(w) /\ Goto(w, "waiting")
    BY SendFacts
<1>2. m.op = work[w].op /\ m.stage = work[w].stage /\ m.op \in Ops /\ m.stage \in EffectStages
    BY <1>1 DEF Requests
<1> HIDE DEF m
<1>3. WorkInv /\ RequestInv /\ ~At(w, "idle")
    BY <1>1 DEF ReachInv, ImplInv, Engaged, At
<1>4. /\ \A v \in Workers \ {w} : work'[v] = work[v]
      /\ work'[w].pc = "waiting" /\ work'[w].op = m.op /\ work'[w].stage = m.stage
    BY <1>1, <1>2, <1>3, GoesTo
<1>5. \A v \in Workers, x \in Ops, z \in EffectStages : Has(v, x, z)' => Has(v, x, z)
    BY <1>1, <1>2, <1>4 DEF Has, Engaged
<1>6. ASSUME NEW n \in wire
      PROVE  n.op # m.op \/ n.stage # m.stage
    BY <1>1, <1>3 DEF RequestInv
<1>7. \A n \in wire : sent'[n.op][n.stage] = 1
    BY <1>1, <1>3, <1>6 DEF RequestInv, Requests
<1>8. ASSUME NEW v \in Workers, Engaged(v)'
      PROVE  /\ work'[v].stage \in EffectStages
             /\ attempts'[work'[v].op][work'[v].stage].status # "none"
             /\ sent'[work'[v].op][work'[v].stage] = (IF At(v, "waiting")' THEN 1 ELSE 0)
    <2>1. CASE v = w
        BY <1>1, <1>2, <1>4, <2>1 DEF At
    <2>2. CASE v # w
        <3>1. Engaged(v) /\ work'[v] = work[v] /\ work[v].op \in Ops /\ work[v].stage \in EffectStages
            BY <1>3, <1>4, <1>8, <2>2 DEF Engaged, WorkInv, Held, Idle, DeliveryRow, RequestInv
        <3>2. <<work[v].op, work[v].stage>> # <<m.op, m.stage>>
            BY <1>1, <1>2, <1>3, <2>2, <3>1 DEF RequestInv, Has
        <3>3. QED
            BY <1>1, <1>3, <3>1, <3>2 DEF RequestInv, At
    <2>3. QED
        BY <2>1, <2>2
<1>9. \A o \in Ops, s \in EffectStages : sent'[o][s] = 1 => attempts'[o][s].status # "none"
    BY <1>1, <1>3 DEF RequestInv
<1>10. \A u, v \in Workers, x \in Ops, z \in EffectStages : Has(u, x, z)' /\ Has(v, x, z)' => u = v
    BY <1>3, <1>5 DEF RequestInv
<1>11. wire' \subseteq Requests /\ \A n \in wire' : sent'[n.op][n.stage] = 1
    BY <1>1, <1>3, <1>7 DEF RequestInv
<1>12. \A n, k \in wire' : n.op = k.op /\ n.stage = k.stage => n = k
    BY <1>1, <1>3, <1>6 DEF RequestInv
<1>13. QED
    BY <1>1, <1>8, <1>9, <1>10, <1>11, <1>12 DEF RequestInv

LEMMA RequestStep ==
    ASSUME ReachInv, [WorkerNext]_vars
    PROVE  RequestInv'
<1>1. \A w \in Workers : Engaged(w) => work[w].op \in Ops
    BY DEF ReachInv, ImplInv, WorkInv, Held, DeliveryRow, Idle, Engaged
<1>2. CASE Calm
    BY <1>1, <1>2, StepFacts, CalmKeeps DEF ReachInv
<1>3. QED
    BY <1>2, CalmSteps, RecordKeeps, SendKeeps

-----------------------------------------------------------------------------
LEMMA SentStays ==
    ASSUME ReachInv, [WorkerNext]_vars
    PROVE  /\ \A o \in Ops, s \in EffectStages : sent[o][s] = 1 => sent'[o][s] = 1
           /\ PublishSent => PublishSent'
<1>1. \A o \in Ops, s \in EffectStages : sent[o][s] = 1 => sent'[o][s] = 1
    <2>1. CASE sent' = sent
        BY <2>1
    <2>2. ASSUME NEW w \in Workers, Send(w)
          PROVE  \A o \in Ops, s \in EffectStages : sent[o][s] = 1 => sent'[o][s] = 1
        BY <2>2, SendFacts
    <2>3. QED
        BY <2>1, <2>2, CalmSteps DEF Calm, Record
<1>2. "publish" \in EffectStages
    BY DEF EffectStages
<1>3. QED
    BY <1>1, <1>2 DEF PublishSent

LEMMA RemoteSteps ==
    ASSUME ReachInv, [WorkerNext]_vars
    PROVE  \/ remote' = remote /\ wire' \subseteq wire
           \/ remote' = remote /\ \E w \in Workers : Send(w)
           \/ Review \/ \E m \in wire : Apply(m)
<1>1. CASE \E w \in Workers : WorkerStep(w)
    <2>1. PICK w \in Workers : WorkerStep(w)
        BY <1>1
    <2>2. remote' = remote /\ (wire' = wire \/ Send(w))
        BY <2>1 DEF WorkerStep, Deliver, DeliverLate, outside, Read, Admit, Conclude, Record,
            Recheck, Send, Waiting, Receive, Confirm, Doubt, FinishLate, GiveUp
    <2>3. QED
        BY <2>2
<1>2. CASE ~\E w \in Workers : WorkerStep(w)
    BY <1>2 DEF WorkerNext, Browse, Command, Lose, Lapse, Tick, outside, vars
<1>3. QED
    BY <1>1, <1>2

\* No request for a kind of object leaves while another one did already.
LEMMA SendsFirst ==
    ASSUME ReachInv, NEW w \in Workers, Send(w), work[w].stage \in Creations
    PROVE  remote.made[work[w].stage] = {}
<1> DEFINE o == work[w].op
           k == work[w].stage
<1>1. /\ o \in Ops /\ sent[o][k] = 0 /\ attempts[o][k].status # "none"
    BY SendFacts DEF Requests
<1>2. ASSUME NEW p \in Ops, sent[p][k] = 1
      PROVE  FALSE
    <2>1. attempts[p][k].status # "none"
        BY <1>2 DEF ReachInv, RequestInv, EffectStages
    <2>2. p = o
        BY <1>1, <2>1, SafeDispatchesOnce DEF ReachInv, DispatchedOnce
    <2>3. QED
        BY <1>1, <1>2, <2>2
<1>3. QED
    BY <1>2 DEF ReachInv, ProviderInv

LEMMA ApplyKeeps ==
    ASSUME ReachInv, NEW m \in wire, Apply(m)
    PROVE  ProviderInv'
<1>1. ProviderInv /\ RequestInv /\ m \in Requests
    BY DEF ReachInv, RequestInv
<1>2. sent' = sent /\ wire' = wire \ {m} /\ Applicable(m) /\ sent[m.op][m.stage] = 1 /\ m.op \in Ops
    BY <1>1 DEF Apply, RequestInv, Requests
<1>3. CASE m.stage \in Creations
    <2> DEFINE k == m.stage
    <2>1. PICK id \in Ids \ remote.made[k] :
              remote' = [made |-> [remote.made EXCEPT ![k] = @ \cup {id}],
                         status |-> IF k = "campaign" THEN "DRAFT" ELSE remote.status]
        BY <1>3 DEF Apply
    <2>2. remote.made[k] = {} /\ remote.made \in [Creations -> SUBSET Ids] /\ k \in Creations
        BY <1>1, <1>3 DEF ProviderInv
    <2>3. remote'.made[k] = {id} /\ \A x \in Creations \ {k} : remote'.made[x] = remote.made[x]
        BY <2>1, <2>2
    <2>4. /\ remote'.made \in [Creations -> SUBSET Ids]
          /\ remote' = [made |-> remote'.made, status |-> remote'.status]
        BY <2>1, <2>2
    <2>5. remote'.status = (IF k = "campaign" THEN "DRAFT" ELSE remote.status)
        BY <2>1
    <2>6. remote'.status \in RemoteStatus
        BY <1>1, <2>5 DEF ProviderInv, RemoteStatus
    <2>7. remote' \in [made : [Creations -> SUBSET Ids], status : RemoteStatus]
        BY <2>4, <2>6
    <2>8. \A x \in wire' : x.stage \in Creations => remote'.made[x.stage] = {}
        <3> TAKE x \in wire'
        <3> HAVE x.stage \in Creations
        <3>1. x \in wire /\ x # m
            BY <1>2
        <3>2. x.stage # k
            <4>1. ASSUME x.stage = k PROVE x.op = m.op
                <5>1. /\ x.op \in Ops /\ sent[x.op][k] = 1 /\ k \in EffectStages
                    BY <1>1, <3>1, <4>1 DEF RequestInv, Requests
                <5>2. attempts[x.op][k].status # "none" /\ attempts[m.op][k].status # "none"
                    BY <1>1, <1>2, <5>1 DEF RequestInv
                <5>3. QED
                    BY <1>2, <2>2, <5>1, <5>2, SafeDispatchesOnce DEF ReachInv, DispatchedOnce
            <4>2. QED
                BY <1>1, <3>1, <4>1 DEF RequestInv
        <3>3. QED
            BY <1>1, <2>3, <3>1, <3>2 DEF ProviderInv
    <2>9. \A x \in Creations : remote'.made[x] # {} => \E o \in Ops : sent'[o][x] = 1
        BY <1>1, <1>2, <2>3 DEF ProviderInv
    <2>10. \A x \in Creations : \A i, j \in remote'.made[x] : i = j
        BY <1>1, <2>3 DEF ProviderInv
    <2>11. "campaign" \in Creations
        BY DEF Creations
    <2>12. remote'.status # "NONE" => remote'.made["campaign"] # {}
        BY <1>1, <2>3, <2>5, <2>11 DEF ProviderInv
    <2>13. remote'.status \notin {"NONE", "DRAFT"} => PublishSent'
        BY <1>1, <1>2, <2>5 DEF ProviderInv, PublishSent
    <2>14. QED
        BY <2>7, <2>8, <2>9, <2>10, <2>12, <2>13 DEF ProviderInv
<1>4. CASE m.stage \notin Creations
    <2>1. PICK status \in After(m) : remote' = [remote EXCEPT !.status = status]
        BY <1>4 DEF Apply
    <2>2. remote \in [made : [Creations -> SUBSET Ids], status : RemoteStatus]
        BY <1>1 DEF ProviderInv
    <2>3. status \in {"PAUSED", "IN_REVIEW", "PUBLISHED"}
        BY DEF After
    <2>4. /\ remote' \in [made : [Creations -> SUBSET Ids], status : RemoteStatus]
          /\ remote'.made = remote.made
        BY <2>1, <2>2, <2>3 DEF RemoteStatus
    <2>5. remote.status # "NONE"
        BY <1>2, <1>4 DEF Applicable
    <2>6. PublishSent
        BY <1>1, <1>2, <1>4 DEF Applicable, ProviderInv, PublishSent
    <2>7. PublishSent'
        BY <1>2, <2>6 DEF PublishSent
    <2>8. QED
        BY <1>1, <1>2, <2>4, <2>5, <2>7 DEF ProviderInv
<1>5. QED
    BY <1>3, <1>4

LEMMA ProviderStep ==
    ASSUME ReachInv, [WorkerNext]_vars
    PROVE  ProviderInv'
<1>1. ProviderInv
    BY DEF ReachInv
<1>2. /\ \A o \in Ops, s \in EffectStages : sent[o][s] = 1 => sent'[o][s] = 1
      /\ PublishSent => PublishSent'
    BY SentStays
<1>3. Creations \subseteq EffectStages
    BY DEF EffectStages
<1>4. CASE remote' = remote /\ wire' \subseteq wire
    BY <1>1, <1>2, <1>3, <1>4 DEF ProviderInv
<1>5. ASSUME NEW w \in Workers, remote' = remote, Send(w)
      PROVE  ProviderInv'
    <2> DEFINE m == [op |-> work[w].op, stage |-> work[w].stage, from |-> w]
    <2>1. wire' = wire \cup {m} /\ (m.stage \in Creations => remote.made[m.stage] = {})
        BY <1>5, SendFacts, SendsFirst
    <2>2. \A x \in wire' : x.stage \in Creations => remote'.made[x.stage] = {}
        BY <1>1, <1>5, <2>1 DEF ProviderInv
    <2>3. QED
        BY <1>1, <1>2, <1>3, <1>5, <2>2 DEF ProviderInv
<1>6. CASE Review
    <2>1. PICK status \in {"PUBLISHED", "FAILED"} : remote' = [remote EXCEPT !.status = status]
        BY <1>6 DEF Review
    <2>2. remote.status \in {"IN_REVIEW", "PUBLISHED"} /\ wire' = wire
        BY <1>6 DEF Review
    <2>3. remote \in [made : [Creations -> SUBSET Ids], status : RemoteStatus]
        BY <1>1 DEF ProviderInv
    <2>4. /\ remote' \in [made : [Creations -> SUBSET Ids], status : RemoteStatus]
          /\ remote'.made = remote.made
        BY <2>1, <2>3 DEF RemoteStatus
    <2>5. PublishSent' /\ remote.made["campaign"] # {}
        BY <1>1, <1>2, <2>2 DEF ProviderInv
    <2>6. QED
        BY <1>1, <1>2, <1>3, <2>2, <2>4, <2>5 DEF ProviderInv
<1>7. QED
    BY <1>4, <1>5, <1>6, RemoteSteps, ApplyKeeps

-----------------------------------------------------------------------------
\* How a delivery changes in any step: it ends, starts a stage, or goes on with its stage.
Fresh(w) ==
    /\ work'[w].pc = "loop" /\ work'[w].saw = "none" /\ work'[w].reply = "none"
    /\ \/ ops'[work'[w].op].active
       \/ ~At(w, "idle") /\ work'[w].op = work[w].op

Carries(w) ==
    /\ ~At(w, "idle") /\ work'[w].op = work[w].op /\ work'[w].stage = work[w].stage
    /\ work'[w].saw = work[w].saw \/ Read(w)
    /\ work'[w].pc \in {"read", "admitted"} => work[w].pc \in {"read", "admitted"} \/ Read(w)
    /\ \/ work'[w].reply = work[w].reply
       \/ work[w].stage \in Creations => work'[w].reply \in remote'.made[work[w].stage]

Goes(w) == At(w, "idle")' \/ Fresh(w) \/ Carries(w)

LEMMA StepGoes ==
    ASSUME ReachInv, NEW w \in Workers, WorkerStep(w)
    PROVE  Goes(w) /\ \A v \in Workers \ {w} : work'[v] = work[v]
<1>0. WorkInv
    BY DEF ReachInv, ImplInv
<1> DEFINE Done == Goes(w) /\ \A v \in Workers \ {w} : work'[v] = work[v]
<1>1. ASSUME End(w) PROVE Done
    <2>1. work'[w] = Idle /\ \A v \in Workers \ {w} : work'[v] = work[v]
        BY <1>0, <1>1, BecomesThat DEF End
    <2>2. QED
        BY <2>1 DEF Idle, Goes, At
<1>2. ASSUME NEW o, NEW g, NEW s, work' = [work EXCEPT ![w] = Delivery(o, g, s)],
             ops'[o].active \/ (~At(w, "idle") /\ work[w].op = o)
      PROVE  Done
    <2>1. work'[w] = Delivery(o, g, s) /\ \A v \in Workers \ {w} : work'[v] = work[v]
        BY <1>0, <1>2, BecomesThat
    <2>2. /\ Delivery(o, g, s).pc = "loop" /\ Delivery(o, g, s).saw = "none"
          /\ Delivery(o, g, s).reply = "none" /\ Delivery(o, g, s).op = o
        BY DEF Delivery
    <2>3. QED
        BY <1>2, <2>1, <2>2 DEF Goes, Fresh
<1>3. ASSUME NEW pc, ~At(w, "idle"), Goto(w, pc), pc \notin {"read", "admitted"} \/ At(w, "read")
      PROVE  Done
    BY <1>0, <1>3, GoesTo DEF Goes, Carries, At
<1>4. CASE \E o \in Ops : Deliver(w, o) \/ DeliverLate(w, o)
    <2>1. PICK o \in Ops : Deliver(w, o) \/ DeliverLate(w, o)
        BY <1>4
    <2>2. CASE DeliverLate(w, o)
        BY <2>2 DEF DeliverLate, outside, Goes, At
    <2>3. CASE Deliver(w, o)
        <3>1. \/ End(w)
              \/ /\ work' = [work EXCEPT ![w] = Delivery(o, ops'[o].gen, ops'[o].stage)]
                 /\ ops'[o].active
            BY <2>3 DEF Deliver, End
        <3>2. QED
            BY <1>1, <1>2, <3>1
    <2>4. QED
        BY <2>1, <2>2, <2>3
<1>5. CASE Read(w)
    <2>1. PICK saw : work' = [work EXCEPT ![w] = [work[w] EXCEPT !.pc = "read", !.saw = saw]]
        BY <1>5 DEF Read
    <2>2. ~At(w, "idle") /\ work[w] \in DeliveryRow
        BY <1>0, <1>5 DEF Read, WorkInv, Held, Idle, At
    <2> DEFINE d == [work[w] EXCEPT !.pc = "read", !.saw = saw]
    <2>3. d.op = work[w].op /\ d.stage = work[w].stage /\ d.reply = work[w].reply
        BY <2>2 DEF DeliveryRow
    <2> HIDE DEF d
    <2>4. work'[w] = d /\ \A v \in Workers \ {w} : work'[v] = work[v]
        BY <1>0, <2>1, BecomesThat DEF d
    <2>5. QED
        BY <1>5, <2>2, <2>3, <2>4 DEF Goes, Carries
<1>6. CASE Admit(w) \/ Record(w) \/ Recheck(w) \/ Send(w)
    BY <1>3, <1>6 DEF Admit, Record, Recheck, Send, Waiting, At
<1>7. CASE Receive(w)
    BY <1>2, <1>7 DEF Receive, Confirm, At
<1>8. CASE Conclude(w) \/ Doubt(w) \/ FinishLate(w) \/ GiveUp(w)
    BY <1>1, <1>8 DEF Conclude, Doubt, FinishLate, GiveUp
<1>9. QED
    BY <1>4, <1>5, <1>6, <1>7, <1>8 DEF WorkerStep

LEMMA AnswerGoes ==
    ASSUME ReachInv, NEW m \in wire, Apply(m), NEW w \in Workers
    PROVE  Goes(w)
<1>0. WorkInv /\ ProviderInv /\ m.from \in Workers
    BY DEF ReachInv, ImplInv, RequestInv, Requests
<1>1. PICK reply :
          Answer(m, reply) /\ (m.stage \in Creations => reply \in remote'.made[m.stage])
    <2>1. CASE m.stage \in Creations
        <3>1. PICK id : Answer(m, id) /\ remote' = [
                  made |-> [remote.made EXCEPT ![m.stage] = @ \cup {id}],
                  status |-> IF m.stage = "campaign" THEN "DRAFT" ELSE remote.status]
            BY <2>1 DEF Apply
        <3>2. id \in remote'.made[m.stage]
            BY <1>0, <2>1, <3>1 DEF ProviderInv
        <3>3. QED
            BY <3>1, <3>2
    <2>2. CASE m.stage \notin Creations
        BY <2>2 DEF Apply
    <2>3. QED
        BY <2>1, <2>2
<1>2. CASE w = m.from /\ At(w, "waiting") /\ work[w].op = m.op /\ work[w].stage = m.stage
    <2>1. work' = [work EXCEPT ![w] = [work[w] EXCEPT !.reply = reply]]
        BY <1>1, <1>2 DEF Answer, At
    <2>2. work'[w] = [work[w] EXCEPT !.reply = reply]
        BY <1>0, <2>1, BecomesThat
    <2>3. work[w] \in DeliveryRow
        BY <1>0, <1>2 DEF WorkInv, Held, Idle, At
    <2>4. /\ work'[w].op = work[w].op /\ work'[w].stage = work[w].stage
          /\ work'[w].saw = work[w].saw /\ work'[w].pc = work[w].pc /\ work'[w].reply = reply
        BY <2>2, <2>3 DEF DeliveryRow
    <2>5. QED
        BY <1>1, <1>2, <2>4 DEF Goes, Carries, At
<1>3. CASE ~(w = m.from /\ At(w, "waiting") /\ work[w].op = m.op /\ work[w].stage = m.stage)
    <2>1. work'[w] = work[w]
        BY <1>0, <1>1, <1>3 DEF Answer, At, WorkInv
    <2>2. QED
        BY <2>1 DEF Goes, Carries, At
<1>4. QED
    BY <1>2, <1>3

LEMMA AllGo ==
    ASSUME ReachInv, [WorkerNext]_vars
    PROVE  \A w \in Workers : Goes(w)
<1>1. ASSUME work' = work
      PROVE  \A w \in Workers : Goes(w)
    BY <1>1 DEF Goes, Carries, At
<1>2. ASSUME NEW v \in Workers, WorkerStep(v)
      PROVE  \A w \in Workers : Goes(w)
    BY <1>2, StepGoes DEF Goes, Carries, At
<1>3. ASSUME NEW m \in wire, Apply(m)
      PROVE  \A w \in Workers : Goes(w)
    BY <1>3, AnswerGoes
<1>4. QED
    BY <1>1, <1>2, <1>3 DEF WorkerNext, Browse, Command, Lose, Review, Lapse, Tick, outside, vars

\* What a readback reports of a publication, the provider shows.
LEMMA ReadSees ==
    ASSUME ReachInv, NEW w \in Workers, Read(w)
    PROVE  /\ work'[w].saw \in {"in_review", "live"} => PublishSent
           /\ work[w].stage \in {"progress", "reconcile"} => ops[work[w].op].action # "draft"
<1>1. WorkInv /\ ProviderInv /\ ~At(w, "idle")
    BY DEF ReachInv, ImplInv, Read, At
<1>2. PICK complete \in BOOLEAN, matches \in BOOLEAN :
          work' = [work EXCEPT ![w] = [work[w] EXCEPT !.pc = "read",
              !.saw = IF matches THEN Matching(work[w].op, work[w].stage, complete)
                      ELSE "mismatch"]]
    BY DEF Read
<1>3. \A o, s : Matching(o, s, complete) \in {"in_review", "live"} =>
          remote.status \in {"IN_REVIEW", "PUBLISHED"}
    BY DEF Matching, Verdict
<1> DEFINE saw == IF matches THEN Matching(work[w].op, work[w].stage, complete) ELSE "mismatch"
<1>4. /\ work' = [work EXCEPT ![w] = [work[w] EXCEPT !.pc = "read", !.saw = saw]]
      /\ saw \in {"in_review", "live"} => remote.status \in {"IN_REVIEW", "PUBLISHED"}
    BY <1>2, <1>3
<1> HIDE DEF saw
<1>5. work'[w] = [work[w] EXCEPT !.pc = "read", !.saw = saw] /\ work[w] \in DeliveryRow
    BY <1>1, <1>4, BecomesThat DEF WorkInv, Held, Idle, At
<1>6. work'[w].saw = saw
    BY <1>5 DEF DeliveryRow
<1>7. remote.status \in {"IN_REVIEW", "PUBLISHED"} => PublishSent
    BY <1>1 DEF ProviderInv
<1>8. work[w].stage \in {"progress", "reconcile"} => ops[work[w].op].action # "draft"
    BY DEF Read
<1>9. QED
    BY <1>4, <1>6, <1>7, <1>8

-----------------------------------------------------------------------------
\* What the row of the launch takes from a step.
Learns(w) ==
    /\ Receive(w) /\ work[w].stage \in Creations
    /\ launch'.ids = [launch.ids EXCEPT ![work[w].stage] = work[w].reply]

LaunchKeeps ==
    /\ launch'.state \in {"in_review", "live"} => launch'.state = launch.state \/ PublishSent
    /\ launch'.ids = launch.ids \/ \E w \in Workers : Learns(w)

LEMMA TouchSets ==
    ASSUME TypeInv, NEW state \in LaunchStates
    PROVE  /\ Touch([launch EXCEPT !.state = state]) =>
                  launch'.state = state /\ launch'.ids = launch.ids
           /\ \A ids : Touch([launch EXCEPT !.state = state, !.ids = ids]) =>
                  launch'.state = state /\ launch'.ids = ids
    BY DEF TypeInv, TypeOK, LaunchRow, Touch

LEMMA CallLaunch ==
    ASSUME ReachInv, NEW w \in Workers, WorkerStep(w)
    PROVE  LaunchKeeps
<1> DEFINE o == work[w].op
           g == work[w].gen
           s == work[w].stage
<1>0. TypeInv /\ WorkInv /\ SightInv
    BY DEF ReachInv, ImplInv
<1>1. ASSUME NEW state \in LaunchStates \ {"in_review", "live"},
             Touch([launch EXCEPT !.state = state])
      PROVE  LaunchKeeps
    BY <1>0, <1>1, TouchSets DEF LaunchKeeps
<1>2. ASSUME NEW x, NEW next, NEW state \in LaunchStates, Advance(x, next, state, launch.ids),
             state \in {"in_review", "live"} => PublishSent
      PROVE  LaunchKeeps
    BY <1>0, <1>2, TouchSets DEF LaunchKeeps, Advance
<1>3. {"uncertain", "blocked", "failed", "draft_ready"} \subseteq LaunchStates \ {"in_review", "live"}
    BY DEF LaunchStates
<1>4. ASSUME NEW x \in Ops, DeadlineClose(x)
      PROVE  LaunchKeeps
    <2>1. PICK state \in {"uncertain", "blocked"} : Touch([launch EXCEPT !.state = state])
        BY <1>4 DEF DeadlineClose
    <2>2. QED
        BY <1>1, <1>3, <2>1
<1>5. CASE \E x \in Ops : Deliver(w, x) \/ DeliverLate(w, x)
    <2>1. PICK x \in Ops : Deliver(w, x) \/ DeliverLate(w, x)
        BY <1>5
    <2>2. CASE Deliver(w, x)
        <3>1. Touch([launch EXCEPT !.state = ClaimState(x)])
            BY <2>2 DEF Deliver, Claim
        <3>2. ClaimState(x) \in LaunchStates \ {"in_review", "live"}
            BY DEF ClaimState, LaunchStates
        <3>3. QED
            BY <1>1, <3>1, <3>2
    <2>3. QED
        BY <1>4, <2>1, <2>2 DEF DeliverLate
<1>6. CASE Read(w) \/ Admit(w) \/ Record(w) \/ Recheck(w) \/ Send(w) \/ GiveUp(w)
    BY <1>6 DEF Read, Admit, Record, Dispatch, Recheck, Send, Waiting, GiveUp, store, LaunchKeeps
<1>7. CASE Conclude(w)
    <2>1. ~At(w, "idle")
        BY <1>7 DEF Conclude, At
    <2>2. \/ DraftReady(o, w, g, s, launch.ids)
          \/ ParityRefusal(o, w, g, s, Evidenced)
          \/ PreflightRefusal(o, w, g, s, Evidenced)
          \/ \E next : Report(o, w, g, s, next, work[w].saw, launch.ids)
        BY <1>7 DEF Conclude
    <2>3. CASE DraftReady(o, w, g, s, launch.ids)
        BY <1>2, <1>3, <2>3 DEF DraftReady
    <2>4. CASE ParityRefusal(o, w, g, s, Evidenced) \/ PreflightRefusal(o, w, g, s, Evidenced)
        BY <1>2, <1>3, <2>4 DEF ParityRefusal, PreflightRefusal
    <2>5. ASSUME NEW next, Report(o, w, g, s, next, work[w].saw, launch.ids)
          PROVE  LaunchKeeps
        <3>1. work[w].saw \in LaunchStates /\ Advance(o, next, work[w].saw, launch.ids)
            BY <2>5 DEF Report, Reports, LaunchStates
        <3>2. work[w].saw \in {"in_review", "live"} => PublishSent
            BY <1>0, <2>1 DEF SightInv
        <3>3. QED
            BY <1>2, <3>1, <3>2
    <2>6. QED
        BY <2>2, <2>3, <2>4, <2>5
<1>8. CASE Receive(w)
    <2>1. PICK state \in {"drafting", "publish_queued", "pause_pending", "resume_pending"} :
              ConfirmEffect(o, w, g, s, state,
                  IF s \in Creations THEN [launch.ids EXCEPT ![s] = work[w].reply] ELSE launch.ids)
        BY <1>8 DEF Receive, Confirm
    <2>2. state \in LaunchStates \ {"in_review", "live"}
        BY DEF LaunchStates
    <2>3. CASE s \in Creations
        <3>1. Advance(o, AfterEffect(s), state, [launch.ids EXCEPT ![s] = work[w].reply])
            BY <2>1, <2>3 DEF ConfirmEffect
        <3>2. /\ launch'.state = state
              /\ launch'.ids = [launch.ids EXCEPT ![s] = work[w].reply]
            BY <1>0, <2>2, <3>1, TouchSets DEF Advance
        <3>3. QED
            BY <1>8, <2>2, <2>3, <3>2 DEF LaunchKeeps, Learns
    <2>4. CASE s \notin Creations
        <3>1. Advance(o, AfterEffect(s), state, launch.ids)
            BY <2>1, <2>4 DEF ConfirmEffect
        <3>2. QED
            BY <1>2, <2>2, <3>1
    <2>5. QED
        BY <2>3, <2>4
<1>9. CASE Doubt(w)
    BY <1>1, <1>3, <1>9 DEF Doubt, MarkUncertain
<1>10. CASE FinishLate(w)
    <2>1. o \in Ops /\ DeadlineClose(o)
        BY <1>0, <1>10 DEF FinishLate, WorkInv, Held, Idle, At, DeliveryRow
    <2>2. QED
        BY <1>4, <2>1
<1>11. QED
    BY <1>5, <1>6, <1>7, <1>8, <1>9, <1>10 DEF WorkerStep

LEMMA LaunchSteps ==
    ASSUME ReachInv, [WorkerNext]_vars
    PROVE  LaunchKeeps
<1>1. ASSUME NEW o \in Ops, NEW act \in Actions, Command(o, act)
      PROVE  LaunchKeeps
    <2>1. TypeInv /\ Evidenced \in Evidence
        BY DEF ReachInv, ImplInv, WorkInv, Evidenced, Evidence
    <2>2. Reserves(o, act)
        BY <1>1, <2>1, ReserveKind DEF Command
    <2>3. QED
        BY <2>2 DEF Reserves, LaunchKeeps
<1>2. CASE \E w \in Workers : WorkerStep(w)
    BY <1>2, CallLaunch
<1>3. CASE launch' = launch
    BY <1>3 DEF LaunchKeeps
<1>4. QED
    BY <1>1, <1>2, <1>3 DEF WorkerNext, Browse, Load, Apply, Lose, Review, Lapse, Tick,
        Environment, LeaseExpires, DeadlinePasses, vars, store

LEMMA SightStep ==
    ASSUME ReachInv, [WorkerNext]_vars
    PROVE  SightInv'
<1>1. SightInv /\ (PublishSent => PublishSent')
    BY SentStays DEF ReachInv
<1>2. launch'.state \in {"in_review", "live"} => PublishSent'
    BY <1>1, LaunchSteps DEF LaunchKeeps, SightInv
<1>3. ASSUME NEW w \in Workers, ~At(w, "idle")', work'[w].saw \in {"in_review", "live"}
      PROVE  PublishSent'
    <2>1. Carries(w)
        BY <1>3, AllGo DEF Goes, Fresh
    <2>2. CASE Read(w)
        BY <1>1, <1>3, <2>2, ReadSees
    <2>3. CASE work'[w].saw = work[w].saw
        BY <1>1, <1>3, <2>1, <2>3 DEF Carries, SightInv
    <2>4. QED
        BY <2>1, <2>2, <2>3 DEF Carries
<1>4. QED
    BY <1>2, <1>3 DEF SightInv

\* An identity is learnt from the answer to the request that made the object.
LEMMA IdentityStep ==
    ASSUME ReachInv, [WorkerNext]_vars
    PROVE  IdentityInv'
<1>0. IdentityInv /\ TypeInv /\ ProviderInv
    BY DEF ReachInv, ImplInv
<1>1. \A k \in Creations : remote.made[k] \subseteq remote'.made[k]
    <2>1. CASE remote' = remote
        BY <2>1
    <2>2. CASE Review
        BY <1>0, <2>2 DEF Review, ProviderInv
    <2>3. ASSUME NEW m \in wire, Apply(m)
          PROVE  \A k \in Creations : remote.made[k] \subseteq remote'.made[k]
        BY <1>0, <2>3 DEF Apply, ProviderInv
    <2>4. QED
        BY <2>1, <2>2, <2>3, RemoteSteps
<1>2. ASSUME NEW w \in Workers, ~At(w, "idle")', work'[w].stage \in Creations, work'[w].reply # "none"
      PROVE  work'[w].reply \in remote'.made[work'[w].stage]
    <2>1. Carries(w)
        BY <1>2, AllGo DEF Goes, Fresh
    <2>2. QED
        BY <1>0, <1>1, <1>2, <2>1 DEF Carries, IdentityInv
<1>3. ASSUME NEW k \in Creations, launch'.ids[k] # NoId
      PROVE  launch'.ids[k] \in remote'.made[k]
    <2>1. CASE launch'.ids = launch.ids
        BY <1>0, <1>1, <1>3, <2>1 DEF IdentityInv
    <2>2. ASSUME NEW w \in Workers, Learns(w)
          PROVE  launch'.ids[k] \in remote'.made[k]
        <3>1. ~At(w, "idle") /\ work[w].reply # "none" /\ work[w].stage \in Creations
            BY <2>2 DEF Learns, Receive, At
        <3>2. work[w].reply \in remote.made[work[w].stage]
            BY <1>0, <3>1 DEF IdentityInv
        <3>3. launch'.ids = [launch.ids EXCEPT ![work[w].stage] = work[w].reply]
            BY <2>2 DEF Learns
        <3>4. launch.ids \in NativeIds
            BY <1>0 DEF TypeInv, TypeOK, LaunchRow
        <3>5. launch'.ids[k] = (IF k = work[w].stage THEN work[w].reply ELSE launch.ids[k])
            BY <3>1, <3>3, <3>4 DEF NativeIds, Creations
        <3>6. QED
            BY <1>0, <1>1, <1>3, <3>1, <3>2, <3>5 DEF IdentityInv
    <2>3. QED
        BY <2>1, <2>2, LaunchSteps DEF LaunchKeeps
<1>4. QED
    BY <1>2, <1>3 DEF IdentityInv

-----------------------------------------------------------------------------
\* What an operation is for never changes.
LEMMA ActionStays ==
    ASSUME Kinds, NEW o \in Ops, Reserved(o)
    PROVE  Reserved(o)' /\ ops'[o].action = ops[o].action
<1>1. ops'[o].action = ops[o].action
    BY DEF Kinds, MoveKind, Rests, Reserves, Dispatches, Moves
<1>2. QED
    BY <1>1 DEF Reserved

\* A delivery holds a reserved operation, and reads a draft only at its parity.
LEMMA HeldStep ==
    ASSUME ReachInv, [WorkerNext]_vars, NEW w \in Workers, ~At(w, "idle")'
    PROVE  /\ Reserved(work[w].op)'
           /\ work'[w].pc \in {"read", "admitted"} /\ work'[w].stage \in {"progress", "reconcile"}
                 => ops'[work'[w].op].action # "draft"
<1>0. /\ DraftInv /\ Kinds /\ TypeInv' /\ WorkInv /\ WorkInv'
    BY StepFacts DEF ReachInv, ImplInv
<1>1. work'[w].op \in Ops
    BY <1>0 DEF WorkInv, Held, Idle, DeliveryRow, At
<1>2. ASSUME ~At(w, "idle"), work'[w].op = work[w].op
      PROVE  Reserved(work[w].op)' /\ ops'[work'[w].op].action = ops[work[w].op].action
    BY <1>0, <1>1, <1>2, ActionStays DEF DraftInv, Reserved
<1>3. CASE Fresh(w)
    <2>1. ops'[work'[w].op].active => Reserved(work[w].op)'
        BY <1>0, <1>1 DEF TypeInv, ActiveIsReserved, Active, Reserved
    <2>2. QED
        BY <1>2, <1>3, <2>1 DEF Fresh
<1>4. CASE Carries(w)
    BY <1>0, <1>2, <1>4, ReadSees DEF Carries, DraftInv, At
<1>5. QED
    BY <1>3, <1>4, AllGo DEF Goes

\* Other operations than the one a step moves cannot become a draft in progress.
LEMMA DraftMoves ==
    ASSUME ReachInv, NEW o \in Ops, ops[o].active,
           \A x \in Ops \ {o} : ops'[x] = ops[x],
           ops'[o].action = ops[o].action,
           ops'[o].active /\ ops[o].action = "draft" => DraftAt(o)'
    PROVE  \A x \in Active' : ops'[x].action = "draft" => DraftAt(x)'
<1>1. \A x \in Active' : x = o
    BY DEF ReachInv, SafeInv, SingleActive, Active
<1>2. QED
    BY <1>1 DEF Active

\* A draft that ends needs nothing.
LEMMA DraftEnds ==
    ASSUME ReachInv, NEW o \in Ops, ops[o].active, MoveKind(o), ~ops'[o].active
    PROVE  \A x \in Active' : ops'[x].action = "draft" => DraftAt(x)'
    BY DraftMoves DEF MoveKind, Moves

LEMMA DraftReserves ==
    ASSUME ReachInv, NEW o \in Ops, NEW act \in Actions, Reserves(o, act)
    PROVE  \A x \in Active' : ops'[x].action = "draft" => DraftAt(x)'
<1>1. Active' = {o} /\ ops'[o].action = act /\ ops'[o].stage = "queued"
      /\ launch'.ids = launch.ids /\ attempts' = attempts
    BY ReservesActive DEF Reserves
<1>2. Chained(launch.ids) /\ FreshLaunch
    BY DEF ReachInv, SafeInv, Identities
<1>3. ASSUME act = "draft"
      PROVE  \A k \in Creations : launch.ids[k] = NoId /\ attempts[o][k].status = "none"
    <2>1. launch.state = "reserved" /\ launch.ids.campaign = NoId
        BY <1>3 DEF Reserves, Ready, Stops
    <2>2. ~HasAttempt(o)
        BY <1>2, <2>1 DEF FreshLaunch
    <2>3. QED
        BY <1>2, <2>1, <2>2 DEF Chained, Creations, EffectStages, HasAttempt
<1>4. act = "draft" => DraftAt(o)'
    BY <1>1, <1>3 DEF DraftAt, Creations
<1>5. QED
    BY <1>1, <1>4

LEMMA DraftDispatches ==
    ASSUME ReachInv, NEW o \in Ops, NEW s \in EffectStages, Dispatches(o, s)
    PROVE  \A x \in Active' : ops'[x].action = "draft" => DraftAt(x)'
<1>1. TypeInv /\ DraftInv /\ SingleActive
    BY DEF ReachInv, ImplInv, SafeInv
<1>2. /\ \A x \in EffectStages \ {s} : attempts'[o][x] = attempts[o][x]
      /\ attempts'[o][s] = [status |-> "dispatching", gen |-> ops[o].gen]
      /\ o \in Active
    BY <1>1, DispatchesActive
<1>3. ops' = ops /\ launch' = launch /\ ops[o].stage = s
    BY DEF Dispatches
<1>4. ASSUME ops[o].action = "draft"
      PROVE  DraftAt(o)'
    <2>1. DraftAt(o)
        BY <1>1, <1>2, <1>4 DEF DraftInv
    <2>2. s \in Creations /\ "reconcile" \notin EffectStages /\ "queued" \notin EffectStages
        BY <1>3, <2>1 DEF DraftAt, EffectStages, Creations
    <2>3. \A k \in Beyond(s) : k \in EffectStages \ {s}
        BY DEF Beyond, EffectStages, Creations
    <2>4. QED
        BY <1>2, <1>3, <2>1, <2>2, <2>3 DEF DraftAt
<1>5. QED
    BY <1>1, <1>2, <1>3, <1>4, DraftMoves DEF Active

\* A draft is picked up where it was, at its first creation, or behind the record of a creation.
LEMMA DraftClaim ==
    ASSUME ReachInv, NEW o \in Ops, NEW w \in Workers, Claim(o, w)
    PROVE  \A x \in Active' : ops'[x].action = "draft" => DraftAt(x)'
<1>1. TypeInv /\ DraftInv /\ UnconfirmedHolds
    BY DEF ReachInv, ImplInv, SafeInv
<1>2. ops[o].active /\ attempts' = attempts
      /\ ops' = [ops EXCEPT ![o] = Claimed(o, w, ClaimStage(o), ClaimState(o))]
    BY DEF Claim, Current
<1>3. launch'.ids = launch.ids
    BY <1>1 DEF Claim, Touch, TypeInv, TypeOK, LaunchRow
<1>4. /\ \A x \in Ops \ {o} : ops'[x] = ops[x]
      /\ ops'[o].action = ops[o].action /\ ops'[o].stage = ClaimStage(o)
    BY <1>1, <1>2 DEF Claimed, TypeInv, TypeOK, OpRow
<1>5. ASSUME ops[o].action = "draft"
      PROVE  DraftAt(o)'
    <2>1. DraftAt(o) /\ Creations \subseteq EffectStages
        BY <1>1, <1>2, <1>5 DEF DraftInv, Active, EffectStages
    <2>2. CASE HasUnconfirmed(o)
        <3>1. ClaimStage(o) = "reconcile"
            BY <2>2 DEF ClaimStage, ClaimState
        <3>2. PICK s \in EffectStages : attempts[o][s].status \in {"dispatching", "uncertain"}
            BY <2>2 DEF HasUnconfirmed
        <3>3. ops[o].stage \in {"reconcile", "progress"} \/ ops[o].stage = s
            BY <1>1, <1>2, <3>2 DEF UnconfirmedHolds, Active
        <3>4. \E k \in Creations : launch.ids[k] = NoId /\ attempts[o][k].status # "none"
            BY <2>1, <3>2, <3>3 DEF DraftAt, EffectStages, Creations
        <3>5. QED
            BY <1>2, <1>3, <1>4, <3>1, <3>4 DEF DraftAt, Creations
    <2>3. CASE ~HasUnconfirmed(o)
        <3>1. ClaimStage(o) = (IF ops[o].stage # "queued" THEN ops[o].stage ELSE "campaign")
            BY <1>5, <2>3 DEF ClaimStage, ClaimState
        <3>2. CASE ops[o].stage # "queued"
            BY <1>2, <1>3, <1>4, <2>1, <3>1, <3>2 DEF DraftAt
        <3>3. CASE ops[o].stage = "queued"
            <4>1. \A k \in Creations : launch.ids[k] = NoId /\ attempts[o][k].status = "none"
                BY <2>1, <3>3 DEF DraftAt
            <4>2. Beyond("campaign") \subseteq Creations /\ "campaign" \in Creations
                BY DEF Beyond, Creations
            <4>3. QED
                BY <1>2, <1>3, <1>4, <3>1, <3>3, <4>1, <4>2 DEF DraftAt
        <3>4. QED
            BY <3>2, <3>3
    <2>4. QED
        BY <2>2, <2>3
<1>6. QED
    BY <1>2, <1>4, <1>5, DraftMoves

\* The next creation follows the one that was confirmed.
LEMMA DraftConfirms ==
    ASSUME ReachInv, NEW w \in Workers, Receive(w)
    PROVE  \A x \in Active' : ops'[x].action = "draft" => DraftAt(x)'
<1>0. PICK o, s : o = work[w].op /\ s = work[w].stage
    OBVIOUS
<1> DEFINE ids == IF s \in Creations THEN [launch.ids EXCEPT ![s] = work[w].reply] ELSE launch.ids
<1>1. TypeInv /\ DraftInv /\ WorkInv /\ Chained(launch.ids)
    BY DEF ReachInv, ImplInv, SafeInv, Identities
<1>2. ~At(w, "idle") /\ \E g, state : ConfirmEffect(o, w, g, s, state, ids)
    BY <1>0 DEF Receive, Confirm, At
<1>3. o \in Ops
    BY <1>0, <1>1, <1>2 DEF WorkInv, Held, Idle, DeliveryRow, At
<1> HIDE DEF ids
<1>4. PICK g, state : ConfirmEffect(o, w, g, s, state, ids)
    BY <1>2
<1>5. /\ ops[o].active /\ ops[o].stage = s /\ s \in EffectStages
      /\ attempts[o][s].status # "none"
      /\ Settle(o, s) /\ Advance(o, AfterEffect(s), state, ids)
      /\ s \in {"campaign", "adset"} => ids[s] # NoId
    BY <1>4 DEF ConfirmEffect, Fence, Current, Required
<1>6. \A x \in EffectStages \ {s} : attempts'[o][x] = attempts[o][x]
    BY <1>1, <1>3, <1>5, AttemptSettles
<1>7. /\ \A x \in Ops \ {o} : ops'[x] = ops[x]
      /\ ops'[o].action = ops[o].action /\ ops'[o].stage = AfterEffect(s)
    BY <1>1, <1>3, <1>5 DEF Advance, Moved, TypeInv, TypeOK, OpRow, View
<1>8. launch'.ids = ids
    BY <1>1, <1>5 DEF Advance, Touch, TypeInv, TypeOK, LaunchRow
<1>9. ASSUME ops[o].action = "draft"
      PROVE  DraftAt(o)'
    <2>1. DraftAt(o)
        BY <1>1, <1>3, <1>5, <1>9 DEF DraftInv, Active
    <2>2. s \in Creations
        BY <1>5, <2>1 DEF DraftAt, EffectStages
    <2>3. launch.ids[s] = NoId /\ \A k \in Beyond(s) : attempts[o][k].status = "none"
        BY <1>5, <2>1, <2>2 DEF DraftAt
    <2>4. \A k \in Creations \ {s} : ids[k] = launch.ids[k]
        BY <1>1, <2>2 DEF ids, TypeInv, TypeOK, LaunchRow, NativeIds, Creations
    <2>5. ops'[o].stage = AfterCreation[s]
        BY <1>7, <2>2 DEF AfterEffect
    <2>6. CASE s = "campaign"
        <3>1. /\ ops'[o].stage = "adset" /\ Beyond("campaign") = {"adset", "ad"}
              /\ Beyond("adset") = {"ad"}
              /\ launch'.ids["adset"] = NoId /\ launch'.ids["campaign"] # NoId
            BY <1>1, <1>5, <1>8, <2>3, <2>4, <2>5, <2>6 DEF AfterCreation, Beyond, Chained, Creations
        <3>2. attempts'[o]["adset"].status = "none" /\ attempts'[o]["ad"].status = "none"
            BY <1>6, <2>3, <2>6, <3>1 DEF EffectStages, Creations
        <3>3. QED
            BY <3>1, <3>2 DEF DraftAt, Creations
    <2>7. CASE s = "adset"
        <3>1. /\ ops'[o].stage = "ad" /\ Beyond("adset") = {"ad"} /\ Beyond("ad") = {}
              /\ launch'.ids["ad"] = NoId /\ launch'.ids["adset"] # NoId
            BY <1>1, <1>5, <1>8, <2>3, <2>4, <2>5, <2>7 DEF AfterCreation, Beyond, Chained, Creations
        <3>2. attempts'[o]["ad"].status = "none"
            BY <1>6, <2>3, <2>7, <3>1 DEF EffectStages, Creations
        <3>3. QED
            BY <3>1, <3>2 DEF DraftAt, Creations
    <2>8. CASE s = "ad"
        BY <2>5, <2>8 DEF DraftAt, AfterCreation, Creations
    <2>9. QED
        BY <2>2, <2>6, <2>7, <2>8 DEF Creations
<1>10. QED
    BY <1>3, <1>5, <1>7, <1>9, DraftMoves

\* A creation in doubt is one that was recorded and whose identity never arrived.
LEMMA DraftDoubts ==
    ASSUME ReachInv, [WorkerNext]_vars, NEW w \in Workers, Doubt(w)
    PROVE  \A x \in Active' : ops'[x].action = "draft" => DraftAt(x)'
<1>0. PICK o, s : o = work[w].op /\ s = work[w].stage
    OBVIOUS
<1>1. TypeInv /\ DraftInv /\ WorkInv /\ RequestInv
    BY DEF ReachInv, ImplInv
<1>2. ~At(w, "idle") /\ Engaged(w) /\ MarkUncertain(o, w, work[w].gen, s)
    BY <1>0 DEF Doubt, At, Engaged
<1>3. o \in Ops /\ s \in EffectStages /\ attempts[o][s].status # "none"
    BY <1>0, <1>1, <1>2 DEF WorkInv, Held, Idle, DeliveryRow, At, RequestInv
<1>4. attempts'[o][s].status # "none"
    BY <1>3, StepFacts
<1>5. /\ ops[o].active /\ ops[o].stage = s
      /\ ops' = [ops EXCEPT ![o] = Moved(o, "reconcile", "uncertain")]
    BY <1>2 DEF MarkUncertain, Fence, Current
<1>6. /\ \A x \in Ops \ {o} : ops'[x] = ops[x]
      /\ ops'[o].action = ops[o].action /\ ops'[o].stage = "reconcile"
    BY <1>1, <1>3, <1>5 DEF Moved, TypeInv, TypeOK, OpRow, View
<1>7. launch'.ids = launch.ids
    BY <1>1, <1>2 DEF MarkUncertain, Touch, TypeInv, TypeOK, LaunchRow
<1>8. ASSUME ops[o].action = "draft"
      PROVE  DraftAt(o)'
    <2>1. DraftAt(o)
        BY <1>1, <1>3, <1>5, <1>8 DEF DraftInv, Active
    <2>2. s \in Creations /\ launch.ids[s] = NoId
        BY <1>3, <1>5, <2>1 DEF DraftAt, EffectStages
    <2>3. \E k \in Creations : launch'.ids[k] = NoId /\ attempts'[o][k].status # "none"
        BY <1>4, <1>7, <2>2
    <2>4. QED
        BY <1>6, <2>3 DEF DraftAt, Creations
<1>9. QED
    BY <1>3, <1>5, <1>6, <1>8, DraftMoves

\* One readback ends a draft; the others are not taken of one.
LEMMA DraftConcludes ==
    ASSUME ReachInv, NEW w \in Workers, Conclude(w)
    PROVE  \A x \in Active' : ops'[x].action = "draft" => DraftAt(x)'
<1> DEFINE o == work[w].op
           g == work[w].gen
           s == work[w].stage
<1>1. TypeInv /\ DraftInv /\ WorkInv
    BY DEF ReachInv, ImplInv
<1>2. At(w, "admitted") /\ o \in Ops
    BY <1>1 DEF Conclude, WorkInv, Held, Idle, DeliveryRow, At
<1>3. PICK next, state, ids :
          /\ Advance(o, next, state, ids) /\ Fence(o, w, g, s)
          /\ next = "complete" \/ s \in {"progress", "reconcile"}
    BY DEF Conclude, DraftReady, ParityRefusal, PreflightRefusal, Report
<1>4. ops[o].active /\ ops' = [ops EXCEPT ![o] = [Moved(o, next, state) EXCEPT
            !.active = next # "complete", !.leased = next # "complete"]]
    BY <1>3 DEF Fence, Current, Advance
<1>5. ops[o] \in OpRow /\ ops \in [Ops -> OpRow]
    BY <1>1, <1>2 DEF TypeInv, TypeOK
<1>6. /\ \A x \in Ops \ {o} : ops'[x] = ops[x]
      /\ ops'[o].action = ops[o].action /\ ops'[o].active = (next # "complete")
    BY <1>2, <1>4, <1>5 DEF Moved, OpRow, View
<1>7. ops'[o].active => ops[o].action # "draft"
    BY <1>1, <1>2, <1>3, <1>6 DEF DraftInv
<1>8. QED
    BY <1>2, <1>4, <1>6, <1>7, DraftMoves

LEMMA DraftStep ==
    ASSUME ReachInv, [WorkerNext]_vars
    PROVE  DraftInv'
<1> DEFINE Drafts == \A x \in Active' : ops'[x].action = "draft" => DraftAt(x)'
<1>1. TypeInv /\ DraftInv /\ WorkInv /\ Evidenced \in Evidence
    BY DEF ReachInv, ImplInv, WorkInv, Evidenced, Evidence
<1>2. ASSUME Rests PROVE Drafts
    <2>1. /\ Active' = Active /\ launch' = launch /\ attempts' = attempts
          /\ \A x \in Ops : ops'[x].action = ops[x].action /\ ops'[x].stage = ops[x].stage
        BY <1>2, RestsActive DEF Rests
    <2>2. QED
        BY <1>1, <2>1 DEF DraftInv, DraftAt, Active
<1>3. ASSUME NEW o \in Ops, DeadlineClose(o) PROVE Drafts
    <2>1. ops[o].active /\ ~ops'[o].active
        BY <1>1, <1>3 DEF DeadlineClose, Current, Moved, TypeInv, TypeOK, OpRow, View
    <2>2. QED
        BY <1>1, <1>3, <2>1, CloseKind, DraftEnds
<1>4. ASSUME NEW w \in Workers, WorkerStep(w) PROVE Drafts
    <2>1. ~At(w, "idle") => work[w].op \in Ops
        BY <1>1 DEF WorkInv, Held, Idle, DeliveryRow, At
    <2>2. CASE \E o \in Ops : Deliver(w, o) \/ DeliverLate(w, o)
        BY <1>3, <2>2, DraftClaim DEF Deliver, DeliverLate
    <2>3. CASE Read(w) \/ Admit(w) \/ Recheck(w) \/ Send(w) \/ GiveUp(w)
        <3>1. UNCHANGED store
            BY <2>3 DEF Read, Admit, Recheck, Send, Waiting, GiveUp
        <3>2. QED
            BY <1>1, <1>2, <3>1, ClockKind
    <2>4. CASE Record(w)
        <3>1. ~At(w, "idle") /\ Dispatch(work[w].op, w, work[w].gen, work[w].stage, Evidenced)
            BY <2>4 DEF Record, At
        <3>2. QED
            BY <1>1, <2>1, <3>1, DispatchKind, DraftDispatches
    <2>5. CASE FinishLate(w)
        <3>1. ~At(w, "idle") /\ DeadlineClose(work[w].op)
            BY <2>5 DEF FinishLate, At
        <3>2. QED
            BY <1>3, <2>1, <3>1
    <2>6. QED
        BY <1>4, <2>2, <2>3, <2>4, <2>5, DraftConfirms, DraftDoubts, DraftConcludes DEF WorkerStep
<1>5. ASSUME NEW o \in Ops, NEW act \in Actions, Command(o, act) PROVE Drafts
    BY <1>1, <1>5, ReserveKind, DraftReserves DEF Command
<1>6. ASSUME Browse \/ Tick \/ UNCHANGED store PROVE Drafts
    BY <1>1, <1>2, <1>6, ClockKind DEF Browse, Tick
<1>7. Drafts
    <2>1. \/ \E w \in Workers : WorkerStep(w)
          \/ \E o \in Ops, act \in Actions : Command(o, act)
          \/ Browse \/ Tick \/ UNCHANGED store
        BY DEF WorkerNext, Apply, Lose, Review, Lapse, vars, store
    <2>2. QED
        BY <1>4, <1>5, <1>6, <2>1
<1>8. /\ \A w \in Workers : (At(w, "read") \/ At(w, "admitted"))'
             /\ work'[w].stage \in {"progress", "reconcile"} => ops'[work'[w].op].action # "draft"
      /\ \A w \in Workers : ~At(w, "idle")' => Reserved(work[w].op)'
    BY HeldStep DEF At
<1>9. QED
    BY <1>7, <1>8 DEF DraftInv

-----------------------------------------------------------------------------
\* Known identities stay known, and a record that was not there is one of the stage it is made at.
LEMMA FoundStep ==
    ASSUME ReachInv, [WorkerNext]_vars
    PROVE  FoundInv'
<1>0. TypeInv /\ SingleActive /\ Kinds /\ FoundInv /\ AttemptsFit /\ DraftInv
    BY StepFacts DEF ReachInv, ImplInv, SafeInv
<1>1. ASSUME attempts' = attempts, launch'.ids = launch.ids,
             \A x \in Ops : ops'[x].action = ops[x].action
      PROVE  FoundInv'
    BY <1>0, <1>1 DEF FoundInv
<1>2. ASSUME NEW o \in Ops, NEW act \in Actions, Reserves(o, act)
      PROVE  FoundInv'
    BY <1>0, <1>2 DEF Reserves, Ready, FoundInv, Stops
<1>3. ASSUME NEW o \in Ops, NEW s \in EffectStages, Dispatches(o, s)
      PROVE  FoundInv'
    <2>1. /\ \A x \in Ops \ {o} : attempts'[x] = attempts[x]
          /\ \A x \in EffectStages \ {s} : attempts'[o][x] = attempts[o][x]
          /\ o \in Active /\ launch' = launch /\ ops' = ops /\ ops[o].stage = s
        BY <1>0, <1>3, DispatchesActive DEF Dispatches
    <2>2. s \in Creations => DraftAt(o)
        BY <1>0, <2>1 DEF AttemptsFit, Fits, DraftInv
    <2>3. /\ s = "adset" => launch.ids.campaign # NoId
          /\ s = "ad" => launch.ids.adset # NoId
        BY <2>1, <2>2 DEF DraftAt, Creations
    <2>4. /\ attempts'[o]["adset"].status # "none" => launch.ids.campaign # NoId
          /\ attempts'[o]["ad"].status # "none" => launch.ids.adset # NoId
        <3>1. CASE s = "adset"
            BY <1>0, <2>1, <2>3, <3>1 DEF FoundInv, EffectStages, Creations
        <3>2. CASE s = "ad"
            BY <1>0, <2>1, <2>3, <3>2 DEF FoundInv, EffectStages, Creations
        <3>3. CASE s \notin {"adset", "ad"}
            BY <1>0, <2>1, <3>3 DEF FoundInv, EffectStages, Creations
        <3>4. QED
            BY <3>1, <3>2, <3>3
    <2>5. QED
        BY <1>0, <2>1, <2>4 DEF FoundInv
<1>4. ASSUME NEW o \in Ops, MoveKind(o)
      PROVE  FoundInv'
    <2>1. PICK stage \in Stages, state \in LaunchStates, active \in BOOLEAN :
              Moves(o, stage, state, active) /\ Means(o, stage, state, active)
        BY <1>4 DEF MoveKind
    <2>2. \A x \in Ops, s \in EffectStages :
              attempts[x][s].status = "none" <=> attempts'[x][s].status = "none"
        BY <1>0, <2>1, MovesActive
    <2>3. \A k \in Creations : launch.ids[k] # NoId => launch'.ids[k] # NoId
        BY <2>1 DEF Means
    <2>4. \A x \in Ops : ops'[x].action = ops[x].action
        BY <2>1 DEF Moves
    <2>5. QED
        BY <1>0, <2>2, <2>3, <2>4 DEF FoundInv, EffectStages, Creations
<1>5. QED
    BY <1>0, <1>1, <1>2, <1>3, <1>4 DEF Kinds, Rests

-----------------------------------------------------------------------------
LEMMA ReachInit == WorkerInit => ReachInv
<1> SUFFICES ASSUME WorkerInit PROVE ReachInv
    OBVIOUS
<1>1. /\ ImplInv /\ SafeInv
      /\ Init /\ Quiet /\ remote = NothingMade
    BY InitImplements, SafeInit DEF WorkerInit
<1>2. /\ wire = {} /\ \A w \in Workers : work[w].pc = "idle"
      /\ sent = [o \in Ops |-> [s \in EffectStages |-> 0]]
    BY <1>1 DEF WorkerInit, Quiet, NothingSent, Idle
<1>3. /\ launch.state = "reserved" /\ Active = {}
      /\ \A k \in Creations : launch.ids[k] = NoId
    BY <1>1 DEF Init, NoIds, NoOp, Active
<1>4. /\ remote.status = "NONE" /\ \A k \in Creations : remote.made[k] = {}
      /\ remote \in [made : [Creations -> SUBSET Ids], status : RemoteStatus]
    BY <1>1 DEF NothingMade, RemoteStatus
<1>5. RequestInv
    BY <1>2 DEF RequestInv, Has, Engaged
<1>6. ProviderInv
    BY <1>2, <1>4 DEF ProviderInv
<1>7. SightInv /\ IdentityInv /\ DraftInv /\ FoundInv
    BY <1>1, <1>2, <1>3 DEF SightInv, IdentityInv, DraftInv, FoundInv, At, Init, NoAttempt, NoOp,
        EffectStages, Creations
<1>8. QED
    BY <1>1, <1>5, <1>6, <1>7 DEF ReachInv

LEMMA ReachHolds == WorkerSpec => []ReachInv
<1>1. ReachInv /\ [WorkerNext]_vars => ReachInv'
    BY StepFacts, RequestStep, ProviderStep, SightStep, IdentityStep, DraftStep,
        FoundStep DEF ReachInv
<1>2. QED
    BY <1>1, ReachInit, PTL DEF WorkerSpec

\* However often a command is given, a task delivered or a lease reclaimed, the provider is asked
\* at most once to create each object and at most once to publish.
THEOREM SentOnceHolds == WorkerSpec => []SentOnce
<1>1. ReachInv => SentOnce
    <2> SUFFICES ASSUME ReachInv, NEW s \in Creations \cup {"publish"}, NEW o \in Ops, NEW p \in Ops
                 PROVE  sent[o][s] <= 1 /\ (sent[o][s] > 0 /\ sent[p][s] > 0 => o = p)
        BY DEF SentOnce
    <2>1. s \in EffectStages
        BY DEF EffectStages
    <2>2. sent[o][s] \in {0, 1} /\ sent[p][s] \in {0, 1}
        BY <2>1 DEF ReachInv, RequestInv
    <2>3. \A x \in Ops : sent[x][s] = 1 => attempts[x][s].status # "none"
        BY <2>1 DEF ReachInv, RequestInv
    <2>4. sent[o][s] = 1 /\ sent[p][s] = 1 => o = p
        BY <2>3, SafeDispatchesOnce DEF ReachInv, DispatchedOnce
    <2>5. QED
        BY <2>2, <2>4
<1>2. QED
    BY <1>1, ReachHolds, PTL

\* So no interleaving of workers, late answers and reclaimed leases leaves a second campaign, ad
\* set or ad at the provider.
THEOREM NoDuplicatesHold == WorkerSpec => []NoDuplicates
<1>1. ReachInv => NoDuplicates
    <2> SUFFICES ASSUME ReachInv, NEW k \in Creations PROVE Cardinality(remote.made[k]) <= 1
        BY DEF NoDuplicates
    <2>1. \A x, y \in remote.made[k] : x = y
        BY DEF ReachInv, ProviderInv
    <2>2. remote.made[k] = {} \/ \E x : remote.made[k] = {x}
        BY <2>1
    <2>3. Cardinality(remote.made[k]) \in {0, 1}
        BY <2>2, FS_EmptySet, FS_Singleton
    <2>4. QED
        BY <2>3
<1>2. QED
    BY <1>1, ReachHolds, PTL

\* What nobody recorded nobody sent, and the provider made nothing of it.
LEMMA UnrecordedUnsent ==
    ASSUME ReachInv, NEW o \in Ops, ~HasAttempt(o)
    PROVE  \A s \in EffectStages : sent[o][s] = 0
    BY DEF ReachInv, RequestInv, HasAttempt

\* A launch shown as cancelled has left nothing at the provider and nothing on the way there.
THEOREM CancelledReachedNobodyHolds == WorkerSpec => []CancelledReachedNobody
<1>1. ReachInv => CancelledReachedNobody
    <2> SUFFICES ASSUME ReachInv, launch.state = "cancelled"
                 PROVE  wire = {} /\ remote = NothingMade
        BY DEF CancelledReachedNobody
    <2>1. \A o \in Ops, s \in EffectStages : sent[o][s] = 0
        BY UnrecordedUnsent DEF ReachInv, SafeInv, CancelledIsClean
    <2>2. wire = {}
        BY <2>1 DEF ReachInv, RequestInv, Requests
    <2>3. \A k \in Creations : remote.made[k] = {}
        BY <2>1 DEF ReachInv, ProviderInv, EffectStages
    <2>4. remote.status = "NONE"
        BY <2>3 DEF ReachInv, ProviderInv, Creations
    <2>5. remote \in [made : [Creations -> SUBSET Ids], status : RemoteStatus]
        BY DEF ReachInv, ProviderInv
    <2>6. remote.made = [k \in Creations |-> {}]
        BY <2>3, <2>5
    <2>7. QED
        BY <2>2, <2>4, <2>5, <2>6 DEF NothingMade
<1>2. QED
    BY <1>1, ReachHolds, PTL

\* A superseded operation is only shown as cancelled where no worker of it, however late, has
\* sent anything.
THEOREM CancelledNeverSendsHolds == WorkerSpec => []CancelledNeverSends
<1>1. ReachInv => CancelledNeverSends
    BY UnrecordedUnsent DEF ReachInv, SafeInv, ShownCancelled, CancelledNeverSends
<1>2. QED
    BY <1>1, ReachHolds, PTL

\* A draft shown ready is the whole of what the provider holds, and no creation is under way
\* that could still add to it.
THEOREM DraftReadyIsWholeHolds == WorkerSpec => []DraftReadyIsWhole
<1>1. ReachInv => DraftReadyIsWhole
    <2> SUFFICES ASSUME ReachInv, launch.state = "draft_ready"
                 PROVE  /\ \A k \in Creations : remote.made[k] = {launch.ids[k]}
                        /\ \A m \in wire : m.stage \notin Creations
        BY DEF DraftReadyIsWhole
    <2>1. \A k \in Creations : launch.ids[k] # NoId
        BY DEF ReachInv, SafeInv, Identities, Chained, Creations
    <2>2. \A k \in Creations : launch.ids[k] \in remote.made[k]
        BY <2>1 DEF ReachInv, IdentityInv
    <2>3. \A k \in Creations : remote.made[k] = {launch.ids[k]}
        BY <2>2 DEF ReachInv, ProviderInv
    <2>4. \A m \in wire : m.stage \notin Creations
        BY <2>2 DEF ReachInv, ProviderInv
    <2>5. QED
        BY <2>3, <2>4
<1>2. QED
    BY <1>1, ReachHolds, PTL

\* Nobody is shown a launch in review or live whose publication never left for the provider.
THEOREM LiveWasPublishedHolds == WorkerSpec => []LiveWasPublished
<1>1. ReachInv => LiveWasPublished
    <2> SUFFICES ASSUME ReachInv, launch.state \in {"in_review", "live"}
                 PROVE  \E o \in Ops : sent[o]["publish"] > 0
        BY DEF LiveWasPublished
    <2>1. PICK o \in Ops : sent[o]["publish"] = 1
        BY DEF ReachInv, SightInv, PublishSent
    <2>2. sent[o]["publish"] > 0
        BY <2>1
    <2>3. QED
        BY <2>2
<1>2. QED
    BY <1>1, ReachHolds, PTL

\* A draft in doubt lost the identity of a creation beyond the last one known, so the recovery
\* the procedure offers for its last creation never applies.
THEOREM DraftRecoveryIsDeadHolds == WorkerSpec => []DraftRecoveryIsDead
<1>1. ReachInv => DraftRecoveryIsDead
    <2> SUFFICES ASSUME ReachInv, NEW o \in Active, ops[o].action = "draft",
                        ops[o].stage = "reconcile", launch.ids.campaign # NoId
                 PROVE  ~LatestCreation(o, LastCreation(launch.ids))
        BY DEF DraftRecoveryIsDead
    <2>1. PICK k \in Creations : launch.ids[k] = NoId /\ attempts[o][k].status # "none"
        BY DEF ReachInv, DraftInv, DraftAt
    <2>2. Chained(launch.ids)
        BY DEF ReachInv, SafeInv, Identities
    <2>3. CASE k = "adset"
        <3>1. LastCreation(launch.ids) = "campaign"
            BY <2>1, <2>3 DEF LastCreation
        <3>2. QED
            BY <2>1, <2>3, <3>1 DEF LatestCreation
    <2>4. CASE k = "ad"
        <3>1. LastCreation(launch.ids) \in {"campaign", "adset"}
            BY <2>1, <2>4 DEF LastCreation
        <3>2. QED
            BY <2>1, <2>4, <3>1 DEF LatestCreation
    <2>5. QED
        BY <2>1, <2>3, <2>4 DEF Creations
<1>2. QED
    BY <1>1, ReachHolds, PTL

-----------------------------------------------------------------------------
(***************************************************************************)
(* The workers and the provider keep the promise to the owner.             *)
(***************************************************************************)
LEMMA AskedIs ==
    ASSUME ReachInv, NEW r \in Creations \cup {"publish"}
    PROVE  r \in Asked <=> \E o \in Ops : sent[o][r] = 1
<1>1. \A o \in Ops : sent[o][r] \in {0, 1}
    BY DEF ReachInv, RequestInv, EffectStages
<1>2. ASSUME NEW o \in Ops
      PROVE  sent[o][r] > 0 <=> sent[o][r] = 1
    <2>1. CASE sent[o][r] = 0
        BY <2>1
    <2>2. CASE sent[o][r] = 1
        BY <2>2
    <2>3. QED
        BY <1>1, <2>1, <2>2
<1>3. QED
    BY <1>2 DEF Asked

\* A known identity tells of an object, and of those above it.
LEMMA KnownIsHeld ==
    ASSUME ReachInv
    PROVE  /\ launch.ids.campaign # NoId => remote.made["campaign"] # {}
           /\ launch.ids.adset # NoId =>
                 remote.made["campaign"] # {} /\ remote.made["adset"] # {}
           /\ launch.ids.ad # NoId => \A k \in Creations : remote.made[k] # {}
    BY DEF ReachInv, SafeInv, Identities, Chained, IdentityInv, Creations

\* Once the publication is recorded, and once the draft is shown ready, nothing is left to create.
LEMMA AllAsked ==
    ASSUME ReachInv, launch.state = "draft_ready" \/ \E o \in Ops : Published(o)
    PROVE  \A k \in Creations : k \in Asked
<1>1. launch.ids.ad # NoId
    BY DEF ReachInv, SafeInv, AttemptsFit, Published, FoundInv, Identities
<1>2. \A k \in Creations : remote.made[k] # {}
    BY <1>1, KnownIsHeld
<1>3. QED
    BY <1>2, AskedIs DEF ReachInv, ProviderInv

LEMMA PromiseAsks ==
    ASSUME ReachInv, NEW w \in Workers, Send(w)
    PROVE  [Promise!PromiseNext]_(Promise!promise)
<1>0. PICK o, s : o = work[w].op /\ s = work[w].stage
    OBVIOUS
<1>1. /\ o \in Ops /\ s \in EffectStages /\ sent[o][s] = 0 /\ sent'[o][s] = 1
      /\ \A x \in Ops, z \in EffectStages : <<x, z>> # <<o, s>> => sent'[x][z] = sent[x][z]
      /\ attempts[o][s].status # "none"
    BY <1>0, SendFacts DEF Requests
<1>2. launch' = launch /\ remote' = remote
    BY DEF Send, Waiting, store
<1>3. Shown' = Shown
    BY <1>2 DEF Shown
<1>4. Asked' = IF s \in Creations \cup {"publish"} THEN Asked \cup {s} ELSE Asked
    <2>1. ASSUME NEW r \in Creations \cup {"publish"}
          PROVE  (\E x \in Ops : sent'[x][r] > 0) <=> r = s \/ \E x \in Ops : sent[x][r] > 0
        <3>1. r \in EffectStages
            BY DEF EffectStages
        <3>2. CASE r = s
            <4>1. sent'[o][r] > 0
                BY <1>1, <3>2
            <4>2. QED
                BY <1>1, <3>2, <4>1
        <3>3. CASE r # s
            BY <1>1, <3>1, <3>3
        <3>4. QED
            BY <3>2, <3>3
    <2>2. QED
        BY <2>1 DEF Asked
<1>5. CASE s \in Asked \/ s \notin Creations \cup {"publish"}
    BY <1>2, <1>3, <1>4, <1>5 DEF Promise!promise
<1>6. CASE s \notin Asked /\ s \in Creations \cup {"publish"}
    <2>1. \A k \in Promise!Needs[s] : remote.made[k] # {}
        <3>1. CASE s = "campaign"
            BY <3>1 DEF Promise!Needs
        <3>2. CASE s = "adset"
            BY <1>1, <3>2, KnownIsHeld DEF Promise!Needs, ReachInv, FoundInv
        <3>3. CASE s = "ad"
            BY <1>1, <3>3, KnownIsHeld DEF Promise!Needs, ReachInv, FoundInv
        <3>4. CASE s = "publish"
            <4>1. launch.ids.ad # NoId
                BY <1>1, <3>4 DEF ReachInv, SafeInv, AttemptsFit, FoundInv
            <4>2. QED
                BY <3>4, <4>1, KnownIsHeld DEF Promise!Needs, Promise!Objects, Creations
        <3>5. QED
            BY <1>6, <3>1, <3>2, <3>3, <3>4 DEF Creations
    <2>2. Shown = "open"
        <3>1. launch.state # "cancelled"
            BY <1>1 DEF ReachInv, SafeInv, CancelledIsClean, HasAttempt
        <3>2. launch.state = "draft_ready" \/ (\E p \in Ops : Published(p)) => s = "publish"
            BY <1>6, AllAsked
        <3>3. launch.state # "draft_ready"
            BY <1>1, <3>2 DEF ReachInv, SafeInv, PublishOnce, Published
        <3>4. launch.state \notin {"in_review", "live"}
            <4> SUFFICES ASSUME launch.state \in {"in_review", "live"} PROVE FALSE
                OBVIOUS
            <4>1. PICK p \in Ops : sent[p]["publish"] = 1
                BY DEF ReachInv, SightInv, PublishSent
            <4>2. Published(p)
                BY <4>1 DEF ReachInv, RequestInv, EffectStages, Published
            <4>3. QED
                BY <1>6, <3>2, <4>1, <4>2, AskedIs
        <3>5. QED
            BY <3>1, <3>3, <3>4 DEF Shown
    <2>3. Promise!Ask(s)
        BY <1>2, <1>3, <1>4, <1>6, <2>1, <2>2 DEF Promise!Ask, Promise!Holds
    <2>4. QED
        BY <1>6, <2>3 DEF Promise!PromiseNext, Promise!Objects, Creations
<1>7. QED
    BY <1>5, <1>6

LEMMA PromiseArrives ==
    ASSUME ReachInv, NEW m \in wire, Apply(m)
    PROVE  [Promise!PromiseNext]_(Promise!promise)
<1>0. PICK k : k = m.stage
    OBVIOUS
<1>1. ProviderInv /\ RequestInv /\ m \in Requests /\ sent[m.op][k] = 1
    BY <1>0 DEF ReachInv, RequestInv
<1>2. Asked' = Asked /\ Shown' = Shown
    BY DEF Apply, store, Asked, Shown
<1>3. CASE k \in Creations
    <2>1. PICK id \in Ids :
              remote' = [made |-> [remote.made EXCEPT ![k] = @ \cup {id}],
                         status |-> IF k = "campaign" THEN "DRAFT" ELSE remote.status]
        BY <1>0, <1>3 DEF Apply
    <2>2. remote.made[k] = {} /\ remote.made \in [Creations -> SUBSET Ids]
        BY <1>0, <1>1, <1>3 DEF ProviderInv
    <2>3. remote'.made = [remote.made EXCEPT ![k] = {id}]
        BY <2>1, <2>2
    <2>4. k \in Asked
        BY <1>1, <1>3, AskedIs DEF Requests
    <2>5. Promise!Arrive(k)
        BY <1>2, <2>2, <2>3, <2>4 DEF Promise!Arrive, Promise!Holds
    <2>6. QED
        BY <1>3, <2>5 DEF Promise!PromiseNext, Promise!Objects, Creations
<1>4. CASE k \notin Creations
    <2>1. remote'.made = remote.made
        BY <1>0, <1>1, <1>4 DEF Apply, ProviderInv
    <2>2. QED
        BY <1>2, <2>1 DEF Promise!promise
<1>5. QED
    BY <1>3, <1>4

\* Nothing leaves a cancelled launch.
LEMMA CancelledStays ==
    ASSUME ReachInv, [WorkerNext]_vars, launch.state = "cancelled"
    PROVE  launch'.state = "cancelled"
    BY StepFacts DEF ReachInv, SafeInv, CancelledIsClean, Active, Kinds, MoveKind, Rests, Reserves,
        Dispatches, Moves

LEMMA PromiseShows ==
    ASSUME ReachInv, [WorkerNext]_vars, sent' = sent, remote'.made = remote.made,
           ReachInv', DraftReadyIsWhole', LiveWasPublished', CancelledReachedNobody'
    PROVE  [Promise!PromiseNext]_(Promise!promise)
<1>1. Asked' = Asked
    BY DEF Asked
<1>2. CASE Shown' = Shown
    BY <1>1, <1>2 DEF Promise!promise
<1>3. CASE Shown' # Shown
    <2>1. Shown # "cancelled"
        BY <1>3, CancelledStays DEF Shown
    <2>2. ASSUME Shown' = "ready"
          PROVE  "publish" \notin Asked /\ \A k \in Creations : remote.made[k] # {}
        <3>1. launch'.state = "draft_ready"
            BY <2>2 DEF Shown
        <3>2. \A k \in Creations : remote'.made[k] # {}
            BY <3>1 DEF DraftReadyIsWhole
        <3>3. \A o \in Ops : sent'[o]["publish"] = 0
            BY <3>1 DEF ReachInv, SafeInv, PublishOnce, Published, RequestInv, EffectStages
        <3>4. QED
            BY <3>2, <3>3, AskedIs
    <2>3. Shown' = "live" => "publish" \in Asked
        BY DEF Shown, LiveWasPublished, Asked
    <2>4. ASSUME Shown' = "cancelled" PROVE Asked = {}
        <3>1. remote'.made = [k \in Creations |-> {}] /\ launch'.state = "cancelled"
            BY <2>4 DEF Shown, CancelledReachedNobody, NothingMade
        <3>2. \A o \in Ops, s \in EffectStages : attempts'[o][s].status = "none"
            BY <3>1 DEF ReachInv, SafeInv, CancelledIsClean, HasAttempt
        <3>3. \A o \in Ops, s \in EffectStages : sent'[o][s] = 0
            BY <3>2 DEF ReachInv, RequestInv
        <3>4. QED
            BY <3>3 DEF Asked, EffectStages
    <2>5. Shown' \in {"open", "ready", "live", "cancelled"}
        BY DEF Shown
    <2>6. Promise!Show(Shown')
        BY <1>1, <2>1, <2>2, <2>3, <2>4 DEF Promise!Show, Promise!Holds, Promise!Objects, Creations
    <2>7. QED
        BY <2>5, <2>6 DEF Promise!PromiseNext
<1>4. QED
    BY <1>2, <1>3

LEMMA PromiseStep ==
    ReachInv /\ [WorkerNext]_vars
    /\ ReachInv' /\ DraftReadyIsWhole' /\ LiveWasPublished' /\ CancelledReachedNobody'
        => [Promise!PromiseNext]_(Promise!promise)
<1> SUFFICES ASSUME ReachInv, [WorkerNext]_vars,
                    ReachInv', DraftReadyIsWhole', LiveWasPublished', CancelledReachedNobody'
             PROVE  [Promise!PromiseNext]_(Promise!promise)
    OBVIOUS
<1>1. CASE \E w \in Workers : Send(w)
    BY <1>1, PromiseAsks
<1>2. CASE \E m \in wire : Apply(m)
    BY <1>2, PromiseArrives
<1>3. CASE ~(\E w \in Workers : Send(w)) /\ ~(\E m \in wire : Apply(m))
    <2>1. sent' = sent
        BY <1>3, CalmSteps DEF Calm, Record
    <2>2. remote' = remote \/ Review
        BY <1>3, RemoteSteps
    <2>3. remote'.made = remote.made
        BY <2>2 DEF Review, ReachInv, ProviderInv
    <2>4. QED
        BY <2>1, <2>3, PromiseShows
<1>4. QED
    BY <1>1, <1>2, <1>3

LEMMA PromiseInit == WorkerInit => Promise!Blank
    BY DEF WorkerInit, NothingSent, NothingMade, Init, Promise!Blank, Promise!Objects, Asked, Shown,
        EffectStages, Creations

\* Whatever is retried, redelivered, superseded or lost, the provider's account grows parent first
\* and one object of a kind, the publication is asked for once and for a whole draft, and nothing
\* is asked for while the owner is shown a draft ready, a launch that runs or a cancelled one.
THEOREM WorkersKeepPromise == WorkerSpec => PromiseKept
    BY PromiseInit, PromiseStep, ReachHolds, DraftReadyIsWholeHolds, LiveWasPublishedHolds,
       CancelledReachedNobodyHolds, PTL DEF WorkerSpec, PromiseKept, Promise!PromiseSpec

\* The same of every single step.
THEOREM PromiseStaysHolds == WorkerSpec => PromiseStays
    BY PromiseStep, ReachHolds, DraftReadyIsWholeHolds, LiveWasPublishedHolds,
       CancelledReachedNobodyHolds, PTL DEF WorkerSpec, PromiseStays
=============================================================================

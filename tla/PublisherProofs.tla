--------------------------- MODULE PublisherProofs ---------------------------
(***************************************************************************)
(* Theorems about the publisher lineage, for any number of operations,     *)
(* workers, identities and claims.                                         *)
(***************************************************************************)
EXTENDS PublisherLineage, TLAPS

-----------------------------------------------------------------------------
(***************************************************************************)
(* Types.  A claim derives stage and state from the action of the row, so  *)
(* the types are only preserved because an active row has been reserved.   *)
(***************************************************************************)
ActiveIsReserved == \A o \in Active : Reserved(o)

TypeInv == TypeOK /\ ActiveIsReserved

LEMMA ClaimIsTyped ==
    ASSUME TypeInv, NEW o \in Ops, ops[o].active
    PROVE  ClaimState(o) \in LaunchStates /\ ClaimStage(o) \in Stages
<1>1. ops[o].action \in Actions /\ ops[o].stage \in Stages
    BY DEF TypeInv, TypeOK, OpRow, ActiveIsReserved, Active, Reserved
<1>2. ClaimState(o) \in LaunchStates
    BY DEF ClaimState, LaunchStates
<1>3. ClaimStage(o) \in Stages
    BY <1>1 DEF ClaimStage, Stages, EffectStages, Creations, Actions
<1>4. QED
    BY <1>2, <1>3

LEMMA MovedIsTyped ==
    ASSUME TypeInv, NEW o \in Ops, NEW stage \in Stages, NEW state \in LaunchStates
    PROVE  Moved(o, stage, state) \in OpRow
<1>1. ops[o] \in OpRow
    BY DEF TypeInv, TypeOK
<1>2. [ops[o].view EXCEPT !.stage = stage, !.state = state] \in View
    BY <1>1 DEF OpRow, View
<1>3. QED
    BY <1>1, <1>2 DEF OpRow, Moved

\* One row of the operation table is written, the other tables stay typed.
LEMMA RowStep ==
    ASSUME TypeInv, NEW o \in Ops, NEW row \in OpRow, row.active => row.action # "none",
           ops' = [ops EXCEPT ![o] = row],
           launch' \in LaunchRow, page' \in {page, Stale},
           attempts' \in AttemptTable, processed' \subseteq Ops
    PROVE  TypeInv'
<1>1. ops' \in [Ops -> OpRow] /\ ActiveIsReserved'
    BY DEF TypeInv, TypeOK, ActiveIsReserved, Active, Reserved
<1>2. QED
    BY <1>1 DEF TypeInv, TypeOK

LEMMA AdvanceStep ==
    ASSUME TypeInv, NEW o \in Ops, ops[o].active,
           NEW next \in Stages, NEW state \in LaunchStates, NEW ids \in NativeIds,
           Advance(o, next, state, ids), attempts' \in AttemptTable
    PROVE  TypeInv'
<1> DEFINE row == [Moved(o, next, state) EXCEPT
               !.active = next # "complete", !.leased = next # "complete"]
<1>0. Moved(o, next, state) \in OpRow
    BY MovedIsTyped
<1>1. row \in OpRow
    BY <1>0 DEF OpRow
<1>2. row.action = ops[o].action
    BY DEF Moved, TypeInv, TypeOK, OpRow
<1>3. row.active => row.action # "none"
    BY <1>2 DEF TypeInv, ActiveIsReserved, Active, Reserved
<1>4. launch' \in LaunchRow /\ page' = Stale
    BY DEF Advance, Touch, TypeInv, TypeOK, LaunchRow
<1>5. ops' = [ops EXCEPT ![o] = row] /\ processed' \subseteq Ops
    BY DEF Advance, TypeInv, TypeOK
<1> HIDE DEF row
<1>6. QED
    BY <1>1, <1>3, <1>4, <1>5, RowStep

LEMMA TypeInit == Init => TypeInv
    BY DEF Init, TypeInv, TypeOK, ActiveIsReserved, Active, Reserved, OpRow, View, NoOp, NoIds,
        LaunchRow, AttemptTable, NoAttempt, NativeIds, LaunchStates, Actions, Stages,
        EffectStages, Creations

LEMMA SettleIsTyped ==
    ASSUME TypeInv, NEW o \in Ops, NEW s \in EffectStages, Settle(o, s)
    PROVE  attempts' \in AttemptTable
<1> DEFINE table == [EffectStages -> [status : {"none", "dispatching", "confirmed", "uncertain"}, gen : Nat]]
           settled == [attempts[o] EXCEPT ![s].status = "confirmed"]
<1>1. attempts \in [Ops -> table]
    BY DEF TypeInv, TypeOK, AttemptTable
<1>2. settled \in table
    BY <1>1
<1>3. attempts' = [attempts EXCEPT ![o] = settled]
    BY DEF Settle
<1> HIDE DEF settled, table
<1>4. attempts' \in [Ops -> table]
    BY <1>1, <1>2, <1>3
<1> QED
    BY <1>4 DEF AttemptTable, table

LEMMA ReserveIsTyped ==
    ASSUME TypeInv, NEW o \in Ops, NEW act \in Actions, NEW ev \in Evidence, Reserve(o, act, ev)
    PROVE  TypeInv'
<1> DEFINE generation == launch.cancelGen + (IF Active = {} THEN 0 ELSE 1)
<1>1. launch' = [launch EXCEPT !.cancelGen = generation] /\ page' = Stale
    BY DEF Reserve, Touch
<1>2. ops' = [x \in Ops |-> IF x = o THEN NewOp(act, generation)
                            ELSE IF ops[x].active THEN Superseded(x) ELSE ops[x]]
    BY DEF Reserve
<1>3. generation \in Nat
    BY DEF TypeInv, TypeOK, LaunchRow
<1> HIDE DEF generation
<1>4. NewOp(act, generation) \in OpRow /\ NewOp(act, generation).action = act
    BY <1>3 DEF NewOp, NoOp, OpRow, View, Actions, Stages, LaunchStates
<1>5. ASSUME NEW x \in Ops
      PROVE  Superseded(x) \in OpRow /\ Superseded(x).active = FALSE
    <2> DEFINE view == [stage |-> IF HasAttempt(x) THEN "reconcile" ELSE "complete",
                        state |-> IF HasAttempt(x) THEN "uncertain" ELSE "cancelled",
                        gen |-> ops[x].gen + 1]
    <2>1. ops[x] \in OpRow
        BY DEF TypeInv, TypeOK
    <2>2. view \in View
        BY <2>1 DEF OpRow, View, Stages, LaunchStates
    <2>3. Superseded(x) = [ops[x] EXCEPT !.active = FALSE, !.gen = @ + 1, !.leased = FALSE,
                               !.view = view]
        BY DEF Superseded
    <2> HIDE DEF view
    <2>4. ops[x].gen + 1 \in Nat
        BY <2>1 DEF OpRow
    <2>5. QED
        BY <2>1, <2>2, <2>3, <2>4 DEF OpRow
<1>6. ops' \in [Ops -> OpRow]
    BY <1>2, <1>4, <1>5 DEF TypeInv, TypeOK
<1>7. ActiveIsReserved'
    BY <1>2, <1>4, <1>5 DEF TypeInv, ActiveIsReserved, Active, Reserved, Actions
<1>8. launch' \in LaunchRow
    BY <1>1, <1>3 DEF TypeInv, TypeOK, LaunchRow
<1>9. QED
    BY <1>1, <1>6, <1>7, <1>8 DEF Reserve, TypeInv, TypeOK

LEMMA ClaimedIsTyped ==
    ASSUME TypeInv, NEW o \in Ops, NEW w \in Workers,
           NEW stage \in Stages, NEW state \in LaunchStates
    PROVE  Claimed(o, w, stage, state) \in OpRow
<1> DEFINE view == [stage |-> stage, state |-> state, gen |-> ops[o].gen + 1]
<1>1. ops[o] \in OpRow
    BY DEF TypeInv, TypeOK
<1>2. ops[o].gen + 1 \in Nat /\ view \in View
    BY <1>1 DEF OpRow, View
<1>3. Claimed(o, w, stage, state) = [ops[o] EXCEPT !.worker = w, !.gen = @ + 1,
          !.leased = TRUE, !.stage = stage, !.active = stage # "complete", !.view = view]
    BY DEF Claimed
<1> HIDE DEF view
<1>4. QED
    BY <1>1, <1>2, <1>3, ZenonT(40) DEF OpRow

LEMMA ClaimStepIsTyped ==
    ASSUME TypeInv, NEW o \in Ops, NEW w \in Workers, Claim(o, w)
    PROVE  TypeInv'
<1> DEFINE row == Claimed(o, w, ClaimStage(o), ClaimState(o))
<1>1. ClaimStage(o) \in Stages /\ ClaimState(o) \in LaunchStates
    BY ClaimIsTyped DEF Claim, Current
<1>2. ops' = [ops EXCEPT ![o] = row] /\ Touch([launch EXCEPT !.state = ClaimState(o)])
    BY DEF Claim
<1>3. attempts' \in AttemptTable /\ processed' \subseteq Ops
    BY DEF Claim, TypeInv, TypeOK
<1>4. launch' \in LaunchRow /\ page' = Stale
    BY <1>1, <1>2 DEF Touch, TypeInv, TypeOK, LaunchRow
<1>5. row \in OpRow
    BY <1>1, ClaimedIsTyped
<1>6. row.action = ops[o].action /\ ops[o].action # "none"
    BY DEF Claimed, Claim, Current, TypeInv, TypeOK, OpRow, ActiveIsReserved, Active, Reserved
<1> HIDE DEF row
<1>7. QED
    BY <1>2, <1>3, <1>4, <1>5, <1>6, RowStep

LEMMA TypeStep == TypeInv /\ [Next]_store => TypeInv'
<1> SUFFICES ASSUME TypeInv, [Next]_store PROVE TypeInv'
    OBVIOUS
<1>0. \A o \in Ops : ops[o] \in OpRow /\ (ops[o].active => ops[o].action # "none")
    BY DEF TypeInv, TypeOK, ActiveIsReserved, Active, Reserved
<1>1. CASE Load
    BY <1>1 DEF Load, Picture, TypeInv, TypeOK, LaunchRow, ActiveIsReserved, Active, Reserved
<1>2. ASSUME NEW o \in Ops, NEW act \in Actions, NEW ev \in Evidence, Reserve(o, act, ev)
      PROVE  TypeInv'
    BY <1>2, ReserveIsTyped
<1>3. ASSUME NEW o \in Ops, DeadlineClose(o)
      PROVE  TypeInv'
    <2>1. PICK stage \in {"reconcile", "complete"}, state \in {"uncertain", "blocked"} :
              /\ ops' = [ops EXCEPT ![o] =
                     [Moved(o, stage, state) EXCEPT !.active = FALSE, !.leased = FALSE]]
              /\ Touch([launch EXCEPT !.state = state])
        BY <1>3 DEF DeadlineClose
    <2>2. stage \in Stages /\ state \in LaunchStates
        BY DEF Stages, LaunchStates
    <2> DEFINE row == [Moved(o, stage, state) EXCEPT !.active = FALSE, !.leased = FALSE]
    <2>3. Moved(o, stage, state) \in OpRow
        BY <2>2, MovedIsTyped
    <2>4. row \in OpRow /\ ~row.active
        BY <2>3 DEF OpRow
    <2>5. launch' \in LaunchRow /\ page' = Stale
        BY <2>1, <2>2 DEF Touch, TypeInv, TypeOK, LaunchRow
    <2>6. attempts' \in AttemptTable /\ processed' \subseteq Ops
        BY <1>3 DEF DeadlineClose, TypeInv, TypeOK
    <2>7. ops' = [ops EXCEPT ![o] = row]
        BY <2>1
    <2> HIDE DEF row
    <2>8. QED
        BY <2>4, <2>5, <2>6, <2>7, RowStep
<1>4. ASSUME NEW o \in Ops, NEW w \in Workers, Claim(o, w)
      PROVE  TypeInv'
    BY <1>4, ClaimStepIsTyped
<1>5. ASSUME NEW o \in Ops, NEW w \in Workers, NEW g \in 1 .. MaxGen, NEW s \in Stages,
             WorkerCall(o, w, g, s)
      PROVE  TypeInv'
    <2>0. /\ ops[o].active
          /\ attempts \in AttemptTable
          /\ launch.ids \in NativeIds
        BY <1>5 DEF WorkerCall, Fence, Current, TypeInv, TypeOK, LaunchRow
    <2>1. {"failed", "draft_ready", "drafting", "uncertain"} \subseteq LaunchStates
          /\ Reports \subseteq LaunchStates /\ Acknowledgements \subseteq LaunchStates
        BY DEF LaunchStates, Reports, Acknowledgements
    <2>2. {"complete", "progress", "reconcile"} \subseteq Stages
          /\ \A x \in Creations : AfterCreation[x] \in Stages
        BY DEF Stages, EffectStages, Creations, AfterCreation
    <2>3. CASE MarkUncertain(o, w, g, s)
        <3>1. Moved(o, "reconcile", "uncertain") \in OpRow
            BY <2>1, <2>2, MovedIsTyped
        <3>2. Moved(o, "reconcile", "uncertain").action # "none"
            BY <1>0, <2>0 DEF Moved, OpRow
        <3>3. ops' = [ops EXCEPT ![o] = Moved(o, "reconcile", "uncertain")]
            BY <2>3 DEF MarkUncertain
        <3>4. launch' \in LaunchRow /\ page' = Stale /\ processed' \subseteq Ops
            BY <2>1, <2>3 DEF MarkUncertain, Touch, TypeInv, TypeOK, LaunchRow
        <3>5. attempts' \in AttemptTable
            BY <2>0, <2>3, SMTT(30) DEF MarkUncertain, AttemptTable
        <3>6. QED
            BY <3>1, <3>2, <3>3, <3>4, <3>5, RowStep
    <2>4. ASSUME NEW ev \in Evidence, Dispatch(o, w, g, s, ev)
          PROVE  TypeInv'
        <3>1. attempts' \in AttemptTable
            BY <2>0, <2>4 DEF Dispatch, AttemptTable
        <3>2. QED
            BY <2>4, <3>1 DEF Dispatch, TypeInv, TypeOK, ActiveIsReserved, Active, Reserved
    <2>5. ASSUME NEW ev \in Evidence, PreflightRefusal(o, w, g, s, ev)
          PROVE  TypeInv'
        BY <2>0, <2>1, <2>2, <2>5, AdvanceStep DEF PreflightRefusal
    <2>6. ASSUME NEW ev \in Evidence, ParityRefusal(o, w, g, s, ev)
          PROVE  TypeInv'
        BY <2>0, <2>1, <2>2, <2>6, AdvanceStep DEF ParityRefusal
    <2>7. ASSUME NEW ev \in Evidence, DraftReconcile(o, w, g, s, ev)
          PROVE  TypeInv'
        <3>1. LastCreation(launch.ids) \in Creations
            BY DEF LastCreation, Creations
        <3>2. LastCreation(launch.ids) \in EffectStages
            BY <3>1 DEF EffectStages
        <3>3. QED
            BY <2>0, <2>1, <2>2, <2>7, <3>1, <3>2, SettleIsTyped, AdvanceStep DEF DraftReconcile
    <2>8. ASSUME NEW ids \in NativeIds, NEW state \in Acknowledgements,
                 ConfirmEffect(o, w, g, s, state, ids)
          PROVE  TypeInv'
        <3>1. AfterEffect(s) \in Stages
            BY <2>2 DEF AfterEffect
        <3>2. QED
            BY <2>0, <2>1, <2>8, <3>1, SettleIsTyped, AdvanceStep DEF ConfirmEffect
    <2>9. ASSUME NEW ids \in NativeIds, DraftReady(o, w, g, s, ids)
          PROVE  TypeInv'
        BY <2>0, <2>1, <2>2, <2>9, AdvanceStep DEF DraftReady
    <2>10. ASSUME NEW ids \in NativeIds, NEW next \in {"progress", "complete"},
                 NEW state \in Reports, Report(o, w, g, s, next, state, ids)
          PROVE  TypeInv'
        BY <2>0, <2>1, <2>2, <2>10, AdvanceStep DEF Report
    <2>11. QED
        BY <1>5, <2>3, <2>4, <2>5, <2>6, <2>7, <2>8, <2>9, <2>10 DEF WorkerCall
<1>6. ASSUME NEW o \in Ops, LeaseExpires(o)
      PROVE  TypeInv'
    <2>1. [ops[o] EXCEPT !.leased = FALSE] \in OpRow
          /\ [ops[o] EXCEPT !.leased = FALSE].action # "none"
        BY <1>0, <1>6 DEF LeaseExpires, OpRow
    <2>2. QED
        BY <1>6, <2>1, RowStep DEF LeaseExpires, TypeInv, TypeOK
<1>7. ASSUME NEW o \in Ops, DeadlinePasses(o)
      PROVE  TypeInv'
    <2>1. [ops[o] EXCEPT !.due = TRUE, !.leased = FALSE] \in OpRow
          /\ [ops[o] EXCEPT !.due = TRUE, !.leased = FALSE].action # "none"
        BY <1>0, <1>7 DEF DeadlinePasses, OpRow
    <2>2. QED
        BY <1>7, <2>1, RowStep DEF DeadlinePasses, TypeInv, TypeOK
<1>8. CASE UNCHANGED store
    BY <1>8 DEF store, TypeInv, TypeOK, ActiveIsReserved, Active, Reserved
<1>9. QED
    BY <1>1, <1>2, <1>3, <1>4, <1>5, <1>6, <1>7, <1>8 DEF Next, Environment

\* Every reachable table state is within the declared column types and check constraints:
\* no claim, checkpoint or closing ever derives a stage or state the tables would refuse.
THEOREM TypesHold == Spec => []TypeOK
<1>1. TypeInv => TypeOK
    BY DEF TypeInv
<1>2. QED
    BY <1>1, TypeInit, TypeStep, PTL DEF Spec
=============================================================================

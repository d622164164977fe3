--------------------------- MODULE PublisherSafety ---------------------------
(***************************************************************************)
(* The safety properties of the publisher lineage, for any number of       *)
(* operations, workers, identities and claims.                             *)
(*                                                                         *)
(* Every step of the lineage is one of four kinds: it rests (a page is     *)
(* loaded, the clock moves), reserves an operation, records a dispatch, or *)
(* moves one active operation together with the launch.  StepKinds says    *)
(* so once; the invariants are then proved kind by kind.                   *)
(***************************************************************************)
EXTENDS PublisherProofs

Unconfirmed == {"dispatching", "uncertain"}
Settled(o) == \A s \in EffectStages : attempts[o][s].status \notin Unconfirmed

\* UnconfirmedHolds, for one operation.
Holds(o) ==
    \A s \in EffectStages : attempts[o][s].status \in Unconfirmed =>
        \/ ops[o].stage \in {"reconcile", "progress"}
        \/ ops[o].stage = s /\ attempts[o][s] = [status |-> "dispatching", gen |-> ops[o].gen]

\* An operation is only ever at stages of its action.
Fits(o) ==
    /\ ops[o].stage \in Creations \cup {"parity"} => ops[o].action = "draft"
    /\ ops[o].stage = "publish" => ops[o].action = "publish"

\* A child is never known before its parent.
Chained(ids) ==
    /\ ids.adset # NoId => ids.campaign # NoId
    /\ ids.ad # NoId => ids.adset # NoId

Settles(a, b) ==
    /\ a.status = "none" => b = a
    /\ a.status # "none" => b.status # "none"
    /\ a.status = "confirmed" => b = a
    /\ a.status = "uncertain" => b.status # "dispatching"

-----------------------------------------------------------------------------
\* The kinds of steps.
Rests ==
    /\ \A x \in Ops :
          /\ ops'[x].action = ops[x].action /\ ops'[x].stage = ops[x].stage
          /\ ops'[x].active = ops[x].active /\ ops'[x].gen = ops[x].gen
          /\ ops'[x].cancelGen = ops[x].cancelGen /\ ops'[x].view = ops[x].view
          /\ ops'[x].leased => ops[x].leased
          /\ ~ops[x].active => ops'[x] = ops[x]
    /\ page' = page \/ page' = Picture
    /\ UNCHANGED <<launch, attempts, processed>>

Reserves(o, act) ==
    /\ ~Reserved(o) /\ Ready(act)
    /\ Active # {} => act \in Stops
    /\ ops'[o].action = act /\ ops'[o].stage = "queued" /\ ops'[o].active /\ ~ops'[o].leased
    /\ ops'[o].gen = 0 /\ ops'[o].cancelGen = launch'.cancelGen
    /\ ops'[o].view = [stage |-> "queued", state |-> "reserved", gen |-> 0]
    /\ \A x \in Ops \ {o} :
          /\ ~ops[x].active => ops'[x] = ops[x]
          /\ ~ops'[x].active
          /\ ops'[x].action = ops[x].action /\ ops'[x].stage = ops[x].stage
          /\ ops[x].active /\ HasAttempt(x) => ops'[x].view.state # "cancelled"
    /\ launch'.state = launch.state /\ launch'.ids = launch.ids
    /\ page' = Stale
    /\ UNCHANGED <<attempts, processed>>

Dispatches(o, s) ==
    /\ ops[o].active /\ ops[o].stage = s
    /\ s = "publish" => ops[o].action = "publish"
    /\ attempts[o][s].status = "none"
    /\ attempts' = [attempts EXCEPT ![o][s] = [status |-> "dispatching", gen |-> ops[o].gen]]
    /\ UNCHANGED <<launch, page, ops, processed>>

\* The row of one active operation moves, and the launch with it.
Moves(o, stage, state, active) ==
    /\ ops[o].active
    /\ \A x \in Ops \ {o} : ops'[x] = ops[x]
    /\ ops'[o].action = ops[o].action /\ ops'[o].cancelGen = ops[o].cancelGen
    /\ ops'[o].stage = stage /\ ops'[o].active = active
    /\ ops'[o].view.stage = stage /\ ops'[o].view.state = state
    /\ ops[o].view.gen = ops[o].gen => ops'[o].view.gen = ops'[o].gen
    /\ launch'.state = state /\ launch'.cancelGen = launch.cancelGen
    /\ page' = Stale
    /\ processed' \subseteq processed \cup {o} /\ (active => processed' = processed)
    /\ \/ ops'[o].gen = ops[o].gen /\ (ops'[o].leased => ops[o].leased)
       \/ ops[o].gen < MaxGen /\ ops'[o].gen = ops[o].gen + 1

\* What the new stage and state say about the attempts and the identities.
Means(o, stage, state, active) ==
    /\ \A x \in Ops \ {o} : attempts'[x] = attempts[x]
    /\ \A s \in EffectStages : Settles(attempts[o][s], attempts'[o][s])
    /\ \A k \in Creations : launch.ids[k] # NoId => launch'.ids[k] = launch.ids[k]
    /\ Chained(launch.ids) => Chained(launch'.ids)
    /\ state # "reserved"
    /\ state = "draft_ready" => ~active /\ ops[o].stage = "parity" /\ launch'.ids.ad # NoId
    /\ state = "cancelled" =>
          /\ Untouched /\ attempts' = attempts /\ launch'.ids = launch.ids
          /\ ops[o].action = "cancel" /\ (ops[o].stage = "queued" => ~active)
    /\ active /\ ops[o].action = "cancel" =>
          ops[o].leased \/ ops[o].stage # "queued" \/ ~Untouched
    /\ active => stage \in {"reconcile", "progress"} \/ (Holds(o) => Settled(o)')
    /\ active => stage # "queued"
    /\ Fits(o) => Fits(o)'

-----------------------------------------------------------------------------
\* The invariants the safety properties rest on.
Unused == \A o \in Ops : ~Reserved(o) => o \notin processed /\ ~HasAttempt(o)

\* A cancellation that did not end at once has something to account for.
CancelTouched ==
    \A o \in Active : ops[o].action = "cancel" /\ (ops[o].leased \/ ops[o].stage # "queued")
        => ~Untouched

ShownCancelled ==
    \A o \in Ops : ops[o].view.state = "cancelled" => ~ops[o].active /\ ~HasAttempt(o)

\* A launch that rests in these states has not started its next operation.
RestsQueued ==
    launch.state \in {"reserved", "draft_ready"} => \A o \in Active : ops[o].stage = "queued"

FreshLaunch ==
    launch.state = "reserved" =>
        /\ \A o \in Ops : ~HasAttempt(o)
        /\ Active = {} => \A o \in Ops : ~Reserved(o)

OneDrafter == \A o, p \in Ops : ops[o].action = "draft" /\ ops[p].action = "draft" => o = p

\* Writes are recorded by operations whose action calls for them.
AttemptsFit ==
    \A o \in Ops :
        /\ Fits(o)
        /\ \A s \in Creations : attempts[o][s].status # "none" => ops[o].action = "draft"
        /\ attempts[o]["publish"].status # "none" => ops[o].action = "publish"

Published(o) == attempts[o]["publish"].status # "none"

PublishOnce ==
    /\ launch.state = "draft_ready" => \A o \in Ops : ~Published(o)
    /\ \A o \in Active : ops[o].action = "draft" => \A p \in Ops : ~Published(p)
    /\ \A o \in Active, p \in Ops : ops[o].action = "publish" /\ Published(p) => p = o
    /\ \A o, p \in Ops : Published(o) /\ Published(p) => o = p

\* What is known of the draft, and that a draft shown ready is known as a whole.
Identities ==
    /\ Chained(launch.ids)
    /\ launch.state = "draft_ready" => launch.ids.ad # NoId

-----------------------------------------------------------------------------
LEMMA MovedFields ==
    ASSUME TypeInv, NEW o \in Ops, NEW stage \in Stages, NEW state \in LaunchStates
    PROVE  LET row == Moved(o, stage, state)
           IN /\ row \in OpRow
              /\ row.stage = stage /\ row.view.stage = stage /\ row.view.state = state
              /\ row.view.gen = ops[o].view.gen /\ row.gen = ops[o].gen
              /\ row.action = ops[o].action /\ row.cancelGen = ops[o].cancelGen
              /\ row.active = ops[o].active
<1> DEFINE view == [ops[o].view EXCEPT !.stage = stage, !.state = state]
<1>1. ops[o] \in OpRow /\ ops[o].view \in View
    BY DEF TypeInv, TypeOK, OpRow
<1>2. view.stage = stage /\ view.state = state /\ view.gen = ops[o].view.gen
    BY <1>1 DEF View
<1>3. Moved(o, stage, state) = [ops[o] EXCEPT !.stage = stage, !.view = view]
    BY DEF Moved
<1> HIDE DEF view
<1>4. QED
    BY <1>1, <1>2, <1>3, MovedIsTyped DEF OpRow

\* The row o moves to "row", and every update of the launch goes with it.
LEMMA RowMoves ==
    ASSUME TypeInv, NEW o \in Ops, ops[o].active, NEW row,
           NEW stage, NEW state, NEW active,
           ops' = [ops EXCEPT ![o] = row],
           row.action = ops[o].action, row.cancelGen = ops[o].cancelGen,
           row.stage = stage, row.active = active,
           row.view.stage = stage, row.view.state = state,
           ops[o].view.gen = ops[o].gen => row.view.gen = row.gen,
           launch'.state = state, launch'.cancelGen = launch.cancelGen, page' = Stale,
           processed' \subseteq processed \cup {o}, active => processed' = processed,
           \/ row.gen = ops[o].gen /\ (row.leased => ops[o].leased)
           \/ ops[o].gen < MaxGen /\ row.gen = ops[o].gen + 1
    PROVE  Moves(o, stage, state, active)
<1>1. ops'[o] = row /\ \A x \in Ops \ {o} : ops'[x] = ops[x]
    BY DEF TypeInv, TypeOK
<1>2. QED
    BY <1>1 DEF Moves

LEMMA AdvanceMoves ==
    ASSUME TypeInv, NEW o \in Ops, NEW next \in Stages, NEW state \in LaunchStates, NEW ids,
           ops[o].active, ops[o].leased, Advance(o, next, state, ids)
    PROVE  Moves(o, next, state, next # "complete")
<1> DEFINE row == [Moved(o, next, state) EXCEPT
               !.active = next # "complete", !.leased = next # "complete"]
<1>1. /\ row.stage = next /\ row.view.stage = next /\ row.view.state = state
      /\ row.view.gen = ops[o].view.gen /\ row.gen = ops[o].gen
      /\ row.action = ops[o].action /\ row.cancelGen = ops[o].cancelGen
      /\ row.active = (next # "complete")
    <2> DEFINE moved == Moved(o, next, state)
    <2>1. /\ moved \in OpRow
          /\ moved.stage = next /\ moved.view.stage = next /\ moved.view.state = state
          /\ moved.view.gen = ops[o].view.gen /\ moved.gen = ops[o].gen
          /\ moved.action = ops[o].action /\ moved.cancelGen = ops[o].cancelGen
        BY MovedFields
    <2> HIDE DEF moved
    <2>2. [moved EXCEPT !.active = next # "complete", !.leased = next # "complete"].view = moved.view
        BY <2>1 DEF OpRow
    <2>3. LET m == [moved EXCEPT !.active = next # "complete", !.leased = next # "complete"]
          IN /\ m.stage = moved.stage /\ m.gen = moved.gen /\ m.action = moved.action
             /\ m.cancelGen = moved.cancelGen /\ m.active = (next # "complete")
        BY <2>1 DEF OpRow
    <2>4. QED
        BY <2>1, <2>2, <2>3 DEF moved
<1>2. ops' = [ops EXCEPT ![o] = row]
    BY DEF Advance
<1>3. launch'.state = state /\ launch'.cancelGen = launch.cancelGen /\ page' = Stale
    BY DEF Advance, Touch, TypeInv, TypeOK, LaunchRow
<1>4. /\ processed' \subseteq processed \cup {o}
      /\ next # "complete" => processed' = processed
    BY DEF Advance
<1> HIDE DEF row
<1>5. QED
    BY <1>1, <1>2, <1>3, <1>4, RowMoves

-----------------------------------------------------------------------------
MoveKind(o) ==
    \E stage \in Stages, state \in LaunchStates, active \in BOOLEAN :
        Moves(o, stage, state, active) /\ Means(o, stage, state, active)

\* Every step of the lineage is of one of the four kinds.
Kinds ==
    \/ Rests
    \/ \E o \in Ops, act \in Actions : Reserves(o, act)
    \/ \E o \in Ops, s \in EffectStages : Dispatches(o, s)
    \/ \E o \in Ops : MoveKind(o)

LEMMA ReserveKind ==
    ASSUME TypeInv, NEW o \in Ops, NEW act \in Actions, NEW ev \in Evidence, Reserve(o, act, ev)
    PROVE  Reserves(o, act)
<1> DEFINE generation == launch.cancelGen + (IF Active = {} THEN 0 ELSE 1)
<1>1. /\ ~Reserved(o) /\ Ready(act) /\ (Active # {} => act \in Stops)
      /\ page' = Stale /\ attempts' = attempts /\ processed' = processed
      /\ launch' = [launch EXCEPT !.cancelGen = generation]
      /\ ops' = [x \in Ops |-> IF x = o THEN NewOp(act, generation)
                               ELSE IF ops[x].active THEN Superseded(x) ELSE ops[x]]
    BY DEF Reserve, Touch
<1> HIDE DEF generation
<1>2. /\ launch'.state = launch.state /\ launch'.ids = launch.ids
      /\ launch'.cancelGen = generation
    BY <1>1 DEF TypeInv, TypeOK, LaunchRow
<1>3. LET row == NewOp(act, generation)
      IN /\ row.action = act /\ row.stage = "queued" /\ row.active /\ ~row.leased
         /\ row.gen = 0 /\ row.cancelGen = generation
         /\ row.view = [stage |-> "queued", state |-> "reserved", gen |-> 0]
    BY DEF NewOp, NoOp
<1>4. ops'[o] = NewOp(act, generation)
    BY <1>1
<1>5. ASSUME NEW x \in Ops \ {o}
      PROVE  /\ ~ops[x].active => ops'[x] = ops[x]
             /\ ~ops'[x].active
             /\ ops'[x].action = ops[x].action /\ ops'[x].stage = ops[x].stage
             /\ ops[x].active /\ HasAttempt(x) => ops'[x].view.state # "cancelled"
    <2>1. CASE ~ops[x].active
        BY <1>1, <2>1
    <2>2. CASE ops[x].active
        <3>1. ops'[x] = Superseded(x)
            BY <1>1, <2>2
        <3>2. ops[x] \in OpRow
            BY DEF TypeInv, TypeOK
        <3>3. /\ ~Superseded(x).active
              /\ Superseded(x).action = ops[x].action /\ Superseded(x).stage = ops[x].stage
            BY <3>2 DEF Superseded, OpRow
        <3>4. HasAttempt(x) => Superseded(x).view.state = "uncertain"
            BY <3>2 DEF Superseded, OpRow
        <3>5. QED
            BY <2>2, <3>1, <3>3, <3>4
    <2>3. QED
        BY <2>1, <2>2
<1>6. QED
    BY <1>1, <1>2, <1>3, <1>4, <1>5 DEF Reserves

LEMMA DispatchKind ==
    ASSUME TypeInv, NEW o \in Ops, NEW w, NEW g, NEW s, NEW ev, Dispatch(o, w, g, s, ev)
    PROVE  s \in EffectStages /\ Dispatches(o, s)
    BY DEF Dispatch, Dispatches, Fence, Current, MaySpend

LEMMA ClockKind ==
    ASSUME TypeInv, Load \/ Environment \/ UNCHANGED store
    PROVE  Rests
<1>0. ops \in [Ops -> OpRow]
    BY DEF TypeInv, TypeOK
<1>1. CASE Load
    BY <1>1 DEF Load, Rests
<1>2. CASE UNCHANGED store
    BY <1>2 DEF store, Rests
<1>3. ASSUME NEW o \in Ops, LeaseExpires(o) \/ DeadlinePasses(o)
      PROVE  Rests
    <2>1. PICK due \in BOOLEAN :
              ops' = [ops EXCEPT ![o] = [ops[o] EXCEPT !.due = due, !.leased = FALSE]]
        <3>1. [ops[o] EXCEPT !.leased = FALSE] = [ops[o] EXCEPT !.due = ops[o].due, !.leased = FALSE]
              /\ ops[o].due \in BOOLEAN
            BY <1>0 DEF OpRow
        <3>2. QED
            BY <1>3, <3>1 DEF LeaseExpires, DeadlinePasses
    <2> DEFINE row == [ops[o] EXCEPT !.due = due, !.leased = FALSE]
    <2>2. /\ row.action = ops[o].action /\ row.stage = ops[o].stage
          /\ row.active = ops[o].active /\ row.gen = ops[o].gen
          /\ row.cancelGen = ops[o].cancelGen /\ row.view = ops[o].view /\ ~row.leased
        BY <1>0 DEF OpRow
    <2> HIDE DEF row
    <2>3. ops'[o] = row /\ \A x \in Ops \ {o} : ops'[x] = ops[x]
        BY <1>0, <2>1 DEF row
    <2>4. ops[o].active /\ UNCHANGED <<launch, page, attempts, processed>>
        BY <1>3 DEF LeaseExpires, DeadlinePasses
    <2>5. QED
        BY <2>2, <2>3, <2>4 DEF Rests
<1>4. QED
    BY <1>1, <1>2, <1>3 DEF Environment

-----------------------------------------------------------------------------
LEMMA AttemptsRest ==
    ASSUME attempts' = attempts
    PROVE  \A x \in Ops, s \in EffectStages : Settles(attempts[x][s], attempts'[x][s])
    BY DEF Settles

LEMMA AttemptSettles ==
    ASSUME TypeInv, NEW o \in Ops, NEW s \in EffectStages,
           attempts[o][s].status # "none", Settle(o, s)
    PROVE  /\ \A x \in Ops \ {o} : attempts'[x] = attempts[x]
           /\ \A x \in EffectStages : Settles(attempts[o][x], attempts'[o][x])
           /\ attempts'[o][s].status = "confirmed"
           /\ \A x \in EffectStages \ {s} : attempts'[o][x] = attempts[o][x]
<1>1. /\ attempts \in AttemptTable
      /\ attempts' = [attempts EXCEPT ![o][s].status = "confirmed"]
    BY DEF Settle, TypeInv, TypeOK
<1>2. /\ \A x \in Ops \ {o} : attempts'[x] = attempts[x]
      /\ \A x \in EffectStages \ {s} : attempts'[o][x] = attempts[o][x]
      /\ attempts'[o][s] = [attempts[o][s] EXCEPT !.status = "confirmed"]
    BY <1>1 DEF AttemptTable
<1>3. /\ attempts'[o][s].status = "confirmed"
      /\ attempts[o][s].status = "confirmed" => attempts'[o][s] = attempts[o][s]
    BY <1>1, <1>2 DEF AttemptTable
<1>4. \A x \in EffectStages : Settles(attempts[o][x], attempts'[o][x])
    BY <1>2, <1>3 DEF Settles
<1>5. QED
    BY <1>2, <1>3, <1>4

\* A checkpoint that says what Means asks for moves the operation.
LEMMA AdvanceKind ==
    ASSUME TypeInv, NEW o \in Ops, NEW w, NEW g, NEW s, Fence(o, w, g, s),
           NEW next \in Stages \ {"queued"}, NEW state \in LaunchStates, NEW ids \in NativeIds,
           Advance(o, next, state, ids),
           \A k \in Creations : launch.ids[k] # NoId => ids[k] = launch.ids[k],
           Chained(launch.ids) => Chained(ids),
           state # "reserved", state # "cancelled",
           state = "draft_ready" => next = "complete" /\ s = "parity" /\ ids.ad # NoId,
           \A x \in Ops \ {o} : attempts'[x] = attempts[x],
           \A x \in EffectStages : Settles(attempts[o][x], attempts'[o][x]),
           \/ next \in {"reconcile", "progress", "complete"}
           \/ /\ next # "publish" /\ (Fits(o) => ops[o].action = "draft")
              /\ Holds(o) => Settled(o)'
    PROVE  MoveKind(o)
<1>1. ops[o].active /\ ops[o].leased /\ ops[o].stage = s
    BY DEF Fence, Current
<1>2. Moves(o, next, state, next # "complete")
    BY <1>1, AdvanceMoves
<1>3. launch'.ids = ids
    BY DEF Advance, Touch, TypeInv, TypeOK, LaunchRow
<1>4. ops'[o].stage = next /\ ops'[o].action = ops[o].action
    BY <1>2 DEF Moves
<1>5. Fits(o) => Fits(o)'
    BY <1>4 DEF Fits, Creations
<1>6. Means(o, next, state, next # "complete")
    BY <1>1, <1>3, <1>5 DEF Means
<1>7. QED
    BY <1>2, <1>6 DEF MoveKind

LEMMA CloseKind ==
    ASSUME TypeInv, NEW o \in Ops, DeadlineClose(o)
    PROVE  MoveKind(o)
<1>1. PICK stage \in {"reconcile", "complete"}, state \in {"uncertain", "blocked"} :
          /\ ops' = [ops EXCEPT ![o] =
                 [Moved(o, stage, state) EXCEPT !.active = FALSE, !.leased = FALSE]]
          /\ Touch([launch EXCEPT !.state = state])
    BY DEF DeadlineClose
<1>2. stage \in Stages /\ state \in LaunchStates
    BY DEF Stages, LaunchStates
<1>3. ops[o].active /\ attempts' = attempts /\ processed' = processed
    BY DEF DeadlineClose, Current
<1>4. /\ launch'.state = state /\ launch'.cancelGen = launch.cancelGen
      /\ launch'.ids = launch.ids /\ page' = Stale
    BY <1>1 DEF Touch, TypeInv, TypeOK, LaunchRow
<1> DEFINE moved == Moved(o, stage, state)
           row == [moved EXCEPT !.active = FALSE, !.leased = FALSE]
<1>5. /\ moved \in OpRow
      /\ moved.stage = stage /\ moved.view.stage = stage /\ moved.view.state = state
      /\ moved.view.gen = ops[o].view.gen /\ moved.gen = ops[o].gen
      /\ moved.action = ops[o].action /\ moved.cancelGen = ops[o].cancelGen
    BY <1>2, MovedFields
<1> HIDE DEF moved
<1>6. row.view = moved.view
    BY <1>5 DEF OpRow
<1>7. /\ row.stage = stage /\ row.gen = ops[o].gen /\ row.active = FALSE /\ ~row.leased
      /\ row.action = ops[o].action /\ row.cancelGen = ops[o].cancelGen
    BY <1>5 DEF OpRow
<1>8. ops' = [ops EXCEPT ![o] = row]
    BY <1>1 DEF moved
<1> HIDE DEF row
<1>9. Moves(o, stage, state, FALSE)
    BY <1>3, <1>4, <1>5, <1>6, <1>7, <1>8, RowMoves
<1>10. Fits(o)'
    BY <1>9 DEF Moves, Fits, Creations
<1>11. Means(o, stage, state, FALSE)
    BY <1>3, <1>4, <1>10, AttemptsRest DEF Means
<1>12. QED
    BY <1>2, <1>9, <1>11 DEF MoveKind

LEMMA ClaimKind ==
    ASSUME TypeInv, NEW o \in Ops, NEW w \in Workers, Claim(o, w)
    PROVE  MoveKind(o)
<1> DEFINE stage == ClaimStage(o)
           state == ClaimState(o)
           row == Claimed(o, w, stage, state)
<1>1. /\ ops[o].active /\ ops' = [ops EXCEPT ![o] = row] /\ ops[o].gen < MaxGen
      /\ Touch([launch EXCEPT !.state = state])
      /\ processed' = (IF stage = "complete" THEN processed \cup {o} ELSE processed)
      /\ attempts' = attempts
    BY DEF Claim, Current
<1>2. stage \in Stages /\ state \in LaunchStates
    BY <1>1, ClaimIsTyped
<1>3. ops[o] \in OpRow /\ ops[o].action \in Actions
    BY <1>1 DEF TypeInv, TypeOK, OpRow, ActiveIsReserved, Active, Reserved
<1>4. stage = "reconcile" \/ ~HasUnconfirmed(o)
    BY DEF ClaimStage, ClaimState
<1>5. stage # "queued" /\ state # "reserved" /\ state # "draft_ready"
    BY <1>3 DEF ClaimStage, ClaimState, Actions
<1>6. state = "cancelled" =>
          Untouched /\ ops[o].action = "cancel" /\ (ops[o].stage = "queued" => stage = "complete")
    BY DEF ClaimState, ClaimStage
<1>7. ops[o].action = "cancel" /\ ops[o].stage = "queued" => stage = "complete" \/ ~Untouched
    BY DEF ClaimStage, ClaimState, HasUnconfirmed, Untouched, HasAttempt
<1>8. \/ stage \in {"reconcile", "complete"} \/ stage = ops[o].stage
      \/ stage = "campaign" /\ ops[o].action = "draft"
      \/ stage = ops[o].action /\ stage # "draft" /\ ops[o].stage = "queued"
    BY DEF ClaimStage
<1> HIDE DEF stage, state
<1>9. /\ row.stage = stage /\ row.view.stage = stage /\ row.view.state = state
      /\ row.view.gen = row.gen /\ row.active = (stage # "complete")
      /\ row.gen = ops[o].gen + 1
      /\ row.action = ops[o].action /\ row.cancelGen = ops[o].cancelGen
    <2> DEFINE view == [stage |-> stage, state |-> state, gen |-> ops[o].gen + 1]
    <2>1. row = [ops[o] EXCEPT !.worker = w, !.gen = @ + 1, !.leased = TRUE, !.stage = stage,
                     !.active = stage # "complete", !.view = view]
        BY DEF Claimed
    <2>2. view.stage = stage /\ view.state = state /\ view.gen = ops[o].gen + 1
        OBVIOUS
    <2> HIDE DEF view, row
    <2>3. QED
        BY <1>3, <2>1, <2>2 DEF OpRow
<1> HIDE DEF row
<1>10. /\ launch'.state = state /\ launch'.cancelGen = launch.cancelGen
       /\ launch'.ids = launch.ids /\ page' = Stale
    BY <1>1 DEF Touch, TypeInv, TypeOK, LaunchRow
<1>11. Moves(o, stage, state, stage # "complete")
    BY <1>1, <1>9, <1>10, RowMoves
<1>12. ~HasUnconfirmed(o) => Settled(o)'
    BY <1>1 DEF HasUnconfirmed, Settled, Unconfirmed
<1>13. Fits(o) => Fits(o)'
    <2>1. ops'[o].stage = stage /\ ops'[o].action = ops[o].action
        BY <1>11 DEF Moves
    <2>2. QED
        BY <1>3, <1>8, <2>1 DEF Fits, Creations, Actions
<1>14. Means(o, stage, state, stage # "complete")
    BY <1>1, <1>4, <1>5, <1>6, <1>7, <1>10, <1>12, <1>13, AttemptsRest DEF Means
<1>15. QED
    BY <1>2, <1>11, <1>14 DEF MoveKind

LEMMA MarkKind ==
    ASSUME TypeInv, NEW o \in Ops, NEW w, NEW g, NEW s, MarkUncertain(o, w, g, s)
    PROVE  MoveKind(o)
<1> DEFINE row == Moved(o, "reconcile", "uncertain")
           doubted == [x \in EffectStages |->
               IF x = s /\ attempts[o][x] = [status |-> "dispatching", gen |-> g]
               THEN [attempts[o][x] EXCEPT !.status = "uncertain"] ELSE attempts[o][x]]
<1>1. /\ ops[o].active /\ ops[o].leased
      /\ ops' = [ops EXCEPT ![o] = row]
      /\ Touch([launch EXCEPT !.state = "uncertain"])
      /\ attempts' = [attempts EXCEPT ![o] = doubted]
      /\ processed' = processed
    BY DEF MarkUncertain, Fence, Current
<1>2. "reconcile" \in Stages /\ "uncertain" \in LaunchStates
    BY DEF Stages, LaunchStates
<1>3. /\ row.stage = "reconcile" /\ row.view.stage = "reconcile" /\ row.view.state = "uncertain"
      /\ row.view.gen = ops[o].view.gen /\ row.gen = ops[o].gen /\ row.active = TRUE
      /\ row.action = ops[o].action /\ row.cancelGen = ops[o].cancelGen
    BY <1>1, <1>2, MovedFields DEF TypeInv, TypeOK, OpRow
<1> HIDE DEF row
<1>4. /\ launch'.state = "uncertain" /\ launch'.cancelGen = launch.cancelGen
      /\ launch'.ids = launch.ids /\ page' = Stale
    BY <1>1 DEF Touch, TypeInv, TypeOK, LaunchRow
<1>5. Moves(o, "reconcile", "uncertain", TRUE)
    BY <1>1, <1>3, <1>4, RowMoves
<1>6. attempts \in AttemptTable
    BY DEF TypeInv, TypeOK
<1>7. \A x \in EffectStages : Settles(attempts[o][x], doubted[x])
    <2> TAKE x \in EffectStages
    <2>1. CASE x = s /\ attempts[o][x] = [status |-> "dispatching", gen |-> g]
        <3>1. attempts[o][x].status = "dispatching"
            BY <2>1
        <3>2. doubted[x].status = "uncertain"
            BY <1>6, <2>1 DEF AttemptTable
        <3>3. QED
            BY <3>1, <3>2 DEF Settles
    <2>2. CASE ~(x = s /\ attempts[o][x] = [status |-> "dispatching", gen |-> g])
        BY <2>2 DEF Settles
    <2>3. QED
        BY <2>1, <2>2
<1> HIDE DEF doubted
<1>8. attempts'[o] = doubted /\ \A x \in Ops \ {o} : attempts'[x] = attempts[x]
    BY <1>1, <1>6 DEF AttemptTable
<1>9. Fits(o)'
    BY <1>5 DEF Moves, Fits, Creations
<1>10. Means(o, "reconcile", "uncertain", TRUE)
    BY <1>1, <1>4, <1>7, <1>8, <1>9 DEF Means
<1>11. QED
    BY <1>2, <1>5, <1>10 DEF MoveKind

LEMMA EndsKnown ==
    /\ {"complete", "progress", "reconcile"} \subseteq Stages \ {"queued"}
    /\ {"failed", "draft_ready", "drafting", "uncertain"} \subseteq LaunchStates
    /\ Reports \subseteq LaunchStates \ {"reserved", "cancelled", "draft_ready"}
    /\ Acknowledgements \subseteq LaunchStates \ {"reserved", "cancelled", "draft_ready"}
    /\ \A x \in Creations : AfterCreation[x] \in Stages \ {"queued", "publish"}
    /\ Creations \subseteq EffectStages
    BY DEF Stages, EffectStages, Creations, AfterCreation, LaunchStates, Reports, Acknowledgements

\* Accepted identities keep what was known, and a child is never known before its parent.
LEMMA AcceptedIds ==
    ASSUME NEW ids \in NativeIds, IdsAccepted(ids) \/ ids = launch.ids
    PROVE  /\ \A k \in Creations : launch.ids[k] # NoId => ids[k] = launch.ids[k]
           /\ Chained(launch.ids) => Chained(ids)
    BY DEF IdsAccepted, Chained

LEMMA ConfirmKind ==
    ASSUME TypeInv, NEW o \in Ops, NEW w, NEW g, NEW s, NEW ids \in NativeIds,
           NEW state \in Acknowledgements, ConfirmEffect(o, w, g, s, state, ids)
    PROVE  MoveKind(o)
<1>1. /\ s \in EffectStages /\ Fence(o, w, g, s) /\ IdsAccepted(ids)
      /\ attempts[o][s] = [status |-> "dispatching", gen |-> g]
      /\ Settle(o, s) /\ Advance(o, AfterEffect(s), state, ids)
    BY DEF ConfirmEffect
<1>2. ops[o].stage = s /\ attempts[o][s].status # "none"
    BY <1>1 DEF Fence
<1>3. /\ \A k \in Creations : launch.ids[k] # NoId => ids[k] = launch.ids[k]
      /\ Chained(launch.ids) => Chained(ids)
    BY <1>1, AcceptedIds
<1>4. AfterEffect(s) \in Stages \ {"queued"}
    BY EndsKnown DEF AfterEffect
<1>5. /\ \A x \in Ops \ {o} : attempts'[x] = attempts[x]
      /\ \A x \in EffectStages : Settles(attempts[o][x], attempts'[o][x])
      /\ attempts'[o][s].status = "confirmed"
      /\ \A x \in EffectStages \ {s} : attempts'[o][x] = attempts[o][x]
    BY <1>1, <1>2, AttemptSettles
<1>6. ASSUME s \in Creations
      PROVE  /\ AfterEffect(s) # "publish" /\ (Fits(o) => ops[o].action = "draft")
             /\ Holds(o) => Settled(o)'
    <2>1. AfterEffect(s) # "publish"
        BY <1>6, EndsKnown DEF AfterEffect
    <2>2. Fits(o) => ops[o].action = "draft"
        BY <1>2, <1>6 DEF Fits
    <2>3. s \notin {"reconcile", "progress"}
        BY <1>6 DEF Creations
    <2>4. Holds(o) => \A x \in EffectStages \ {s} : attempts[o][x].status \notin Unconfirmed
        BY <1>2, <2>3 DEF Holds
    <2>5. Holds(o) => \A x \in EffectStages : attempts'[o][x].status \notin Unconfirmed
        BY <1>5, <2>4 DEF Unconfirmed
    <2>6. QED
        BY <2>1, <2>2, <2>5 DEF Settled
<1>7. s \notin Creations => AfterEffect(s) = "progress"
    BY DEF AfterEffect
<1>8. state \in LaunchStates /\ state \notin {"reserved", "cancelled", "draft_ready"}
    BY EndsKnown
<1>9. QED
    BY <1>1, <1>3, <1>4, <1>5, <1>6, <1>7, <1>8, AdvanceKind

LEMMA ReconcileKind ==
    ASSUME TypeInv, NEW o \in Ops, NEW w, NEW g, NEW s, NEW ev, DraftReconcile(o, w, g, s, ev)
    PROVE  MoveKind(o)
<1> DEFINE last == LastCreation(launch.ids)
<1>1. /\ Fence(o, w, g, s) /\ ops[o].action = "draft" /\ LatestCreation(o, last)
      /\ \A x \in EffectStages \ {last} : attempts[o][x].status \in {"none", "confirmed"}
      /\ Settle(o, last) /\ Advance(o, AfterCreation[last], "drafting", launch.ids)
    BY DEF DraftReconcile
<1>2. last \in Creations /\ last \in EffectStages
    BY DEF LastCreation, Creations, EffectStages
<1> HIDE DEF last
<1>3. attempts[o][last].status # "none"
    BY <1>1 DEF LatestCreation
<1>4. /\ \A x \in Ops \ {o} : attempts'[x] = attempts[x]
      /\ \A x \in EffectStages : Settles(attempts[o][x], attempts'[o][x])
      /\ attempts'[o][last].status = "confirmed"
      /\ \A x \in EffectStages \ {last} : attempts'[o][x] = attempts[o][x]
    BY <1>1, <1>2, <1>3, AttemptSettles
<1>5. Settled(o)'
    <2>1. \A x \in EffectStages : attempts'[o][x].status \notin Unconfirmed
        BY <1>1, <1>4 DEF Unconfirmed
    <2>2. QED
        BY <2>1 DEF Settled
<1>6. AfterCreation[last] \in Stages \ {"queued", "publish"} /\ "drafting" \in LaunchStates
      /\ launch.ids \in NativeIds
    BY <1>2, EndsKnown DEF TypeInv, TypeOK, LaunchRow
<1>7. QED
    BY <1>1, <1>4, <1>5, <1>6, AdvanceKind

\* The readbacks that end a stage without settling an attempt.
LEMMA ReadbackKind ==
    ASSUME TypeInv, NEW o \in Ops, NEW w, NEW g, NEW s, Fence(o, w, g, s),
           NEW next \in {"progress", "complete"}, NEW state \in Reports \cup {"draft_ready"},
           NEW ids \in NativeIds, IdsAccepted(ids) \/ ids = launch.ids,
           state = "draft_ready" => next = "complete" /\ s = "parity" /\ ids.ad # NoId,
           Advance(o, next, state, ids), attempts' = attempts
    PROVE  MoveKind(o)
<1>1. /\ \A x \in Ops \ {o} : attempts'[x] = attempts[x]
      /\ \A x \in EffectStages : Settles(attempts[o][x], attempts'[o][x])
    BY AttemptsRest
<1>2. state \in LaunchStates /\ state # "reserved" /\ state # "cancelled"
      /\ next \in Stages \ {"queued"}
    BY EndsKnown
<1>3. /\ \A k \in Creations : launch.ids[k] # NoId => ids[k] = launch.ids[k]
      /\ Chained(launch.ids) => Chained(ids)
    BY AcceptedIds
<1>4. QED
    BY <1>1, <1>2, <1>3, AdvanceKind

LEMMA WorkerKind ==
    ASSUME TypeInv, NEW o \in Ops, NEW w \in Workers, NEW g \in 1 .. MaxGen, NEW s \in Stages,
           WorkerCall(o, w, g, s)
    PROVE  Kinds
<1>0. launch.ids \in NativeIds /\ "failed" \in Reports
    BY DEF TypeInv, TypeOK, LaunchRow, Reports
<1>1. CASE MarkUncertain(o, w, g, s)
    BY <1>1, MarkKind DEF Kinds
<1>2. ASSUME NEW ev \in Evidence, Dispatch(o, w, g, s, ev)
      PROVE  Kinds
    BY <1>2, DispatchKind DEF Kinds
<1>3. ASSUME NEW ev \in Evidence, PreflightRefusal(o, w, g, s, ev)
      PROVE  Kinds
    <2>1. Fence(o, w, g, s) /\ Advance(o, "complete", "failed", launch.ids) /\ attempts' = attempts
        BY <1>3 DEF PreflightRefusal
    <2>2. QED
        BY <1>0, <2>1, ReadbackKind DEF Kinds
<1>4. ASSUME NEW ev \in Evidence, ParityRefusal(o, w, g, s, ev)
      PROVE  Kinds
    <2>1. Fence(o, w, g, s) /\ Advance(o, "complete", "failed", launch.ids) /\ attempts' = attempts
        BY <1>4 DEF ParityRefusal
    <2>2. QED
        BY <1>0, <2>1, ReadbackKind DEF Kinds
<1>5. ASSUME NEW ev \in Evidence, DraftReconcile(o, w, g, s, ev)
      PROVE  Kinds
    BY <1>5, ReconcileKind DEF Kinds
<1>6. ASSUME NEW ids \in NativeIds, NEW state \in Acknowledgements,
             ConfirmEffect(o, w, g, s, state, ids)
      PROVE  Kinds
    BY <1>6, ConfirmKind DEF Kinds
<1>7. ASSUME NEW ids \in NativeIds, DraftReady(o, w, g, s, ids)
      PROVE  Kinds
    <2>1. /\ s = "parity" /\ Fence(o, w, g, s) /\ IdsAccepted(ids) /\ ids.ad # NoId
          /\ Advance(o, "complete", "draft_ready", ids) /\ attempts' = attempts
        BY <1>7 DEF DraftReady
    <2>2. QED
        BY <2>1, ReadbackKind DEF Kinds
<1>8. ASSUME NEW ids \in NativeIds, NEW next \in {"progress", "complete"},
             NEW state \in Reports, Report(o, w, g, s, next, state, ids)
      PROVE  Kinds
    <2>1. /\ Fence(o, w, g, s) /\ IdsAccepted(ids)
          /\ Advance(o, next, state, ids) /\ attempts' = attempts
        BY <1>8 DEF Report
    <2>2. state # "draft_ready"
        BY DEF Reports
    <2>3. QED
        BY <2>1, <2>2, ReadbackKind DEF Kinds
<1>9. QED
    BY <1>1, <1>2, <1>3, <1>4, <1>5, <1>6, <1>7, <1>8 DEF WorkerCall

LEMMA StepKinds ==
    ASSUME TypeInv, [Next]_store
    PROVE  Kinds
<1>1. CASE Load \/ Environment \/ UNCHANGED store
    BY <1>1, ClockKind DEF Kinds
<1>2. ASSUME NEW o \in Ops, NEW act \in Actions, NEW ev \in Evidence, Reserve(o, act, ev)
      PROVE  Kinds
    BY <1>2, ReserveKind DEF Kinds
<1>3. ASSUME NEW o \in Ops, DeadlineClose(o)
      PROVE  Kinds
    BY <1>3, CloseKind DEF Kinds
<1>4. ASSUME NEW o \in Ops, NEW w \in Workers, Claim(o, w)
      PROVE  Kinds
    BY <1>4, ClaimKind DEF Kinds
<1>5. ASSUME NEW o \in Ops, NEW w \in Workers, NEW g \in 1 .. MaxGen, NEW s \in Stages,
             WorkerCall(o, w, g, s)
      PROVE  Kinds
    BY <1>5, WorkerKind
<1>6. QED
    BY <1>1, <1>2, <1>3, <1>4, <1>5 DEF Next

-----------------------------------------------------------------------------
SafeInv ==
    /\ TypeInv
    /\ SingleActive /\ ActiveDeliverable /\ Unused
    /\ CancelTouched /\ CancelledIsClean /\ ShownCancelled
    /\ UnconfirmedHolds
    /\ RestsQueued /\ FreshLaunch /\ OneDrafter /\ AttemptsFit /\ PublishOnce
    /\ Identities

LEMMA SafeInit == Init => SafeInv
<1> SUFFICES ASSUME Init PROVE SafeInv
    OBVIOUS
<1>1. TypeInv
    BY TypeInit
<1>2. /\ launch = [state |-> "reserved", ids |-> NoIds, cancelGen |-> 0]
      /\ page = Stale /\ processed = {}
      /\ \A o \in Ops : ops[o] = NoOp
      /\ \A o \in Ops, s \in EffectStages : attempts[o][s].status = "none"
    BY DEF Init, NoAttempt
<1>3. /\ NoOp.action = "none" /\ NoOp.stage = "queued" /\ ~NoOp.active
      /\ NoOp.view.state = "reserved"
    BY DEF NoOp
<1>4. \A o \in Ops : ops[o].action = "none" /\ ops[o].stage = "queued" /\ ~ops[o].active
          /\ ops[o].view.state = "reserved"
    BY <1>2, <1>3
<1>5. Active = {} /\ \A o \in Ops : ~Reserved(o) /\ ~HasAttempt(o)
    BY <1>2, <1>4 DEF Active, Reserved, HasAttempt
<1>6. Creations \cup {"publish"} \subseteq EffectStages
    BY DEF EffectStages
<1>7. AttemptsFit
    BY <1>2, <1>4, <1>6 DEF AttemptsFit, Fits, Creations
<1>8. \A o \in Ops : ~Published(o)
    BY <1>2, <1>6 DEF Published
<1>9. PublishOnce
    BY <1>5, <1>8 DEF PublishOnce
<1>10. SingleActive /\ ActiveDeliverable /\ Unused /\ CancelTouched
    BY <1>2, <1>5 DEF SingleActive, ActiveDeliverable, Unused, CancelTouched
<1>11. CancelledIsClean /\ ShownCancelled /\ UnconfirmedHolds
    BY <1>2, <1>4, <1>5 DEF CancelledIsClean, ShownCancelled, UnconfirmedHolds
<1>12. RestsQueued /\ FreshLaunch /\ OneDrafter
    BY <1>4, <1>5 DEF RestsQueued, FreshLaunch, OneDrafter
<1>13. Identities
    BY <1>2 DEF Identities, Chained, NoIds, Creations
<1>14. QED
    BY <1>1, <1>7, <1>9, <1>10, <1>11, <1>12, <1>13 DEF SafeInv

\* Who is active after a step of each kind.
LEMMA RestsActive ==
    ASSUME Rests
    PROVE  Active' = Active /\ \A x \in Ops : HasAttempt(x)' = HasAttempt(x)
    BY DEF Rests, Active, HasAttempt

LEMMA ReservesActive ==
    ASSUME NEW o \in Ops, NEW act \in Actions, Reserves(o, act)
    PROVE  Active' = {o} /\ \A x \in Ops : HasAttempt(x)' = HasAttempt(x)
    BY DEF Reserves, Active, HasAttempt

LEMMA DispatchesActive ==
    ASSUME TypeInv, NEW o \in Ops, NEW s \in EffectStages, Dispatches(o, s)
    PROVE  /\ Active' = Active /\ o \in Active
           /\ \A x \in Ops \ {o} : attempts'[x] = attempts[x] /\ HasAttempt(x)' = HasAttempt(x)
           /\ HasAttempt(o)'
           /\ \A x \in EffectStages \ {s} : attempts'[o][x] = attempts[o][x]
           /\ attempts'[o][s] = [status |-> "dispatching", gen |-> ops[o].gen]
<1>1. attempts \in AttemptTable
    BY DEF TypeInv, TypeOK
<1>2. /\ \A x \in Ops \ {o} : attempts'[x] = attempts[x]
      /\ \A x \in EffectStages \ {s} : attempts'[o][x] = attempts[o][x]
      /\ attempts'[o][s] = [status |-> "dispatching", gen |-> ops[o].gen]
    BY <1>1 DEF Dispatches, AttemptTable
<1>3. Active' = Active /\ o \in Active
    BY DEF Dispatches, Active
<1>4. QED
    BY <1>2, <1>3 DEF HasAttempt

LEMMA MovesActive ==
    ASSUME SingleActive, NEW o \in Ops, NEW stage, NEW state, NEW active,
           Moves(o, stage, state, active), Means(o, stage, state, active)
    PROVE  /\ Active = {o} /\ Active' = (IF active THEN {o} ELSE {})
           /\ \A x \in Ops \ {o} : attempts'[x] = attempts[x] /\ HasAttempt(x)' = HasAttempt(x)
           /\ \A x \in Ops : HasAttempt(x) => HasAttempt(x)'
           /\ \A x \in Ops, s \in EffectStages :
                 attempts[x][s].status = "none" <=> attempts'[x][s].status = "none"
<1>1. Active = {o}
    BY DEF SingleActive, Active, Moves
<1>2. Active' = (IF active THEN {o} ELSE {})
    BY <1>1 DEF Active, Moves
<1>3. \A x \in Ops \ {o} : attempts'[x] = attempts[x]
    BY DEF Means
<1>4. \A s \in EffectStages : attempts[o][s].status = "none" <=> attempts'[o][s].status = "none"
    BY DEF Means, Settles
<1>5. \A x \in Ops, s \in EffectStages :
          attempts[x][s].status = "none" <=> attempts'[x][s].status = "none"
    BY <1>3, <1>4
<1>6. QED
    BY <1>1, <1>2, <1>3, <1>5 DEF HasAttempt

-----------------------------------------------------------------------------
\* Delivery: the one active operation stays deliverable.
LEMMA DeliveryStep ==
    ASSUME SafeInv, Kinds
    PROVE  (SingleActive /\ ActiveDeliverable /\ Unused)'
<1>0. TypeInv /\ SingleActive /\ ActiveDeliverable /\ Unused
    BY DEF SafeInv
<1>1. CASE Rests
    <2>1. /\ Active' = Active /\ \A x \in Ops : HasAttempt(x)' = HasAttempt(x)
          /\ launch' = launch /\ processed' = processed
          /\ \A x \in Ops : /\ ops'[x].action = ops[x].action /\ ops'[x].stage = ops[x].stage
                            /\ ops'[x].gen = ops[x].gen /\ ops'[x].view = ops[x].view
                            /\ ops'[x].cancelGen = ops[x].cancelGen
                            /\ ops'[x].active = ops[x].active
        BY <1>1, RestsActive DEF Rests
    <2>2. QED
        BY <1>0, <2>1 DEF SingleActive, ActiveDeliverable, Unused, Current, Active, Reserved
<1>2. ASSUME NEW o \in Ops, NEW act \in Actions, Reserves(o, act)
      PROVE  (SingleActive /\ ActiveDeliverable /\ Unused)'
    <2>1. Active' = {o} /\ \A x \in Ops : HasAttempt(x)' = HasAttempt(x)
        BY <1>2, ReservesActive
    <2>2. /\ ops'[o].active /\ ops'[o].cancelGen = launch'.cancelGen
          /\ ops'[o].stage = "queued" /\ ops'[o].gen = 0
          /\ ops'[o].view.stage = "queued" /\ ops'[o].view.gen = 0
          /\ o \notin processed' /\ ~Reserved(o)
        BY <1>0, <1>2 DEF Reserves, Unused
    <2>3. (SingleActive /\ ActiveDeliverable)'
        BY <2>1, <2>2 DEF SingleActive, ActiveDeliverable, Current
    <2>4. \A x \in Ops : Reserved(x) => Reserved(x)'
        BY <1>2 DEF Reserves, Reserved
    <2>5. Unused'
        BY <1>0, <1>2, <2>1, <2>4 DEF Unused, Reserves
    <2>6. QED
        BY <2>3, <2>5
<1>3. ASSUME NEW o \in Ops, NEW s \in EffectStages, Dispatches(o, s)
      PROVE  (SingleActive /\ ActiveDeliverable /\ Unused)'
    <2>1. /\ Active' = Active /\ o \in Active
          /\ \A x \in Ops \ {o} : HasAttempt(x)' = HasAttempt(x)
        BY <1>0, <1>3, DispatchesActive
    <2>2. Reserved(o)
        BY <1>0, <2>1 DEF TypeInv, ActiveIsReserved
    <2>3. launch' = launch /\ ops' = ops /\ processed' = processed
        BY <1>3 DEF Dispatches
    <2>4. QED
        BY <1>0, <2>1, <2>2, <2>3 DEF SingleActive, ActiveDeliverable, Unused, Current, Reserved
<1>4. ASSUME NEW o \in Ops, NEW stage \in Stages, NEW state \in LaunchStates,
             NEW active \in BOOLEAN, Moves(o, stage, state, active), Means(o, stage, state, active)
      PROVE  (SingleActive /\ ActiveDeliverable /\ Unused)'
    <2>1. /\ Active = {o} /\ Active' = (IF active THEN {o} ELSE {})
          /\ \A x \in Ops \ {o} : HasAttempt(x)' = HasAttempt(x)
        BY <1>0, <1>4, MovesActive
    <2>2. /\ o \notin processed /\ ops[o].view.gen = ops[o].gen
          /\ ops[o].cancelGen = launch.cancelGen /\ Reserved(o)
        BY <1>0, <2>1 DEF ActiveDeliverable, Current, TypeInv, ActiveIsReserved
    <2>3. /\ ops'[o].active = active /\ ops'[o].cancelGen = launch'.cancelGen
          /\ ops'[o].view.gen = ops'[o].gen /\ ops'[o].view.stage = ops'[o].stage
          /\ active => o \notin processed'
        BY <1>4, <2>2 DEF Moves
    <2>4. (SingleActive /\ ActiveDeliverable)'
        BY <2>1, <2>3 DEF SingleActive, ActiveDeliverable, Current
    <2>5. /\ Reserved(o)' /\ \A x \in Ops \ {o} : Reserved(x)' = Reserved(x)
          /\ processed' \subseteq processed \cup {o}
        BY <1>4, <2>2 DEF Moves, Reserved
    <2>6. Unused'
        BY <1>0, <2>1, <2>5 DEF Unused
    <2>7. QED
        BY <2>4, <2>6
<1>5. QED
    BY <1>1, <1>2, <1>3, <1>4 DEF Kinds, MoveKind

\* What was ever sent or known stays so.
LEMMA UntouchedStep ==
    ASSUME SafeInv, NEW o \in Ops, NEW stage, NEW state, NEW active,
           Moves(o, stage, state, active), Means(o, stage, state, active)
    PROVE  Untouched' => Untouched
<1>1. \A x \in Ops : HasAttempt(x) => HasAttempt(x)'
    BY MovesActive DEF SafeInv
<1>2. launch.ids.campaign # NoId => launch'.ids.campaign # NoId
    BY DEF Means, Creations
<1>3. QED
    BY <1>1, <1>2 DEF Untouched

\* Cancellation: what is called cancelled never sent anything and cannot any more.
LEMMA CancelStep ==
    ASSUME SafeInv, Kinds
    PROVE  (CancelTouched /\ CancelledIsClean /\ ShownCancelled)'
<1>0. TypeInv /\ SingleActive /\ CancelTouched /\ CancelledIsClean /\ ShownCancelled
    BY DEF SafeInv
<1>1. CASE Rests
    <2>1. /\ Active' = Active /\ \A x \in Ops : HasAttempt(x)' = HasAttempt(x)
          /\ launch' = launch
          /\ \A x \in Ops : /\ ops'[x].action = ops[x].action /\ ops'[x].stage = ops[x].stage
                            /\ ops'[x].view = ops[x].view /\ ops'[x].active = ops[x].active
                            /\ ops'[x].leased => ops[x].leased
        BY <1>1, RestsActive DEF Rests
    <2>2. Untouched' = Untouched
        BY <2>1 DEF Untouched
    <2>3. QED
        BY <1>0, <2>1, <2>2 DEF CancelTouched, CancelledIsClean, ShownCancelled, Active
<1>2. ASSUME NEW o \in Ops, NEW act \in Actions, Reserves(o, act)
      PROVE  (CancelTouched /\ CancelledIsClean /\ ShownCancelled)'
    <2>1. Active' = {o} /\ \A x \in Ops : HasAttempt(x)' = HasAttempt(x)
        BY <1>2, ReservesActive
    <2>2. CancelTouched'
        BY <1>2, <2>1 DEF CancelTouched, Reserves
    <2>3. launch'.state = launch.state /\ launch.state # "cancelled"
        BY <1>2 DEF Reserves, Ready, Stops
    <2>4. CancelledIsClean'
        BY <2>3 DEF CancelledIsClean
    <2>5. ops'[o].view.state = "reserved"
        BY <1>2 DEF Reserves
    <2>6. \A x \in Ops \ {o} : ops'[x].view.state = "cancelled" =>
              ~ops'[x].active /\ ~HasAttempt(x)
        BY <1>0, <1>2 DEF Reserves, ShownCancelled
    <2>7. ShownCancelled'
        BY <2>1, <2>5, <2>6 DEF ShownCancelled
    <2>8. QED
        BY <2>2, <2>4, <2>7
<1>3. ASSUME NEW o \in Ops, NEW s \in EffectStages, Dispatches(o, s)
      PROVE  (CancelTouched /\ CancelledIsClean /\ ShownCancelled)'
    <2>1. /\ Active' = Active /\ o \in Active /\ HasAttempt(o)'
          /\ \A x \in Ops \ {o} : HasAttempt(x)' = HasAttempt(x)
        BY <1>0, <1>3, DispatchesActive
    <2>2. launch' = launch /\ ops' = ops
        BY <1>3 DEF Dispatches
    <2>3. launch.state # "cancelled" /\ ops[o].view.state # "cancelled"
        BY <1>0, <2>1 DEF CancelledIsClean, ShownCancelled, Active
    <2>4. ~Untouched'
        BY <2>1 DEF Untouched
    <2>5. QED
        BY <1>0, <2>1, <2>2, <2>3, <2>4 DEF CancelTouched, CancelledIsClean, ShownCancelled
<1>4. ASSUME NEW o \in Ops, NEW stage \in Stages, NEW state \in LaunchStates,
             NEW active \in BOOLEAN, Moves(o, stage, state, active), Means(o, stage, state, active)
      PROVE  (CancelTouched /\ CancelledIsClean /\ ShownCancelled)'
    <2>1. /\ Active = {o} /\ Active' = (IF active THEN {o} ELSE {})
          /\ \A x \in Ops \ {o} : HasAttempt(x)' = HasAttempt(x)
        BY <1>0, <1>4, MovesActive
    <2>2. /\ launch'.state = state /\ ops'[o].view.state = state /\ ops'[o].active = active
          /\ ops'[o].action = ops[o].action /\ \A x \in Ops \ {o} : ops'[x] = ops[x]
        BY <1>4 DEF Moves
    <2>3. ops[o].action = "cancel" /\ (ops[o].leased \/ ops[o].stage # "queued") => ~Untouched
        BY <1>0, <2>1 DEF CancelTouched
    <2>4. active /\ ops[o].action = "cancel" => ~Untouched'
        BY <1>4, <2>3, UntouchedStep DEF Means
    <2>5. CancelTouched'
        BY <2>1, <2>2, <2>4 DEF CancelTouched
    <2>6. state = "cancelled" =>
              ~active /\ Untouched /\ attempts' = attempts /\ launch'.ids = launch.ids
        BY <1>4, <2>3 DEF Means
    <2>7. state = "cancelled" => launch'.ids.campaign = NoId /\ \A x \in Ops : ~HasAttempt(x)'
        BY <2>6 DEF Untouched, HasAttempt
    <2>8. CancelledIsClean'
        BY <2>1, <2>2, <2>6, <2>7 DEF CancelledIsClean
    <2>9. ShownCancelled'
        BY <1>0, <2>1, <2>2, <2>6, <2>7 DEF ShownCancelled
    <2>10. QED
        BY <2>5, <2>8, <2>9
<1>5. QED
    BY <1>1, <1>2, <1>3, <1>4 DEF Kinds, MoveKind

-----------------------------------------------------------------------------
\* An unconfirmed write holds its operation.
LEMMA HoldStep ==
    ASSUME SafeInv, Kinds
    PROVE  UnconfirmedHolds'
<1>0. TypeInv /\ SingleActive /\ Unused /\ \A o \in Active : Holds(o)
    BY DEF SafeInv, UnconfirmedHolds, Holds, Unconfirmed
<1>1. SUFFICES \A o \in Active' : Holds(o)'
    BY DEF UnconfirmedHolds, Holds, Unconfirmed
<1>2. CASE Rests
    <2>1. Active' = Active /\ attempts' = attempts
        BY <1>2, RestsActive DEF Rests
    <2>2. \A x \in Ops : ops'[x].stage = ops[x].stage /\ ops'[x].gen = ops[x].gen
        BY <1>2 DEF Rests
    <2>3. QED
        BY <1>0, <2>1, <2>2 DEF Holds, Active
<1>3. ASSUME NEW o \in Ops, NEW act \in Actions, Reserves(o, act)
      PROVE  \A x \in Active' : Holds(x)'
    <2>1. Active' = {o} /\ ~HasAttempt(o) /\ attempts' = attempts
        BY <1>0, <1>3, ReservesActive DEF Reserves, Unused
    <2>2. QED
        BY <2>1 DEF Holds, HasAttempt, Unconfirmed
<1>4. ASSUME NEW o \in Ops, NEW s \in EffectStages, Dispatches(o, s)
      PROVE  \A x \in Active' : Holds(x)'
    <2>1. /\ Active' = Active /\ o \in Active
          /\ \A x \in EffectStages \ {s} : attempts'[o][x] = attempts[o][x]
          /\ attempts'[o][s] = [status |-> "dispatching", gen |-> ops[o].gen]
        BY <1>0, <1>4, DispatchesActive
    <2>2. Active' = {o}
        BY <1>0, <2>1 DEF SingleActive
    <2>3. ops' = ops /\ ops[o].stage = s
        BY <1>4 DEF Dispatches
    <2>4. Holds(o)
        BY <1>0, <2>1
    <2>5. QED
        BY <2>1, <2>2, <2>3, <2>4 DEF Holds
<1>5. ASSUME NEW o \in Ops, NEW stage \in Stages, NEW state \in LaunchStates,
             NEW active \in BOOLEAN, Moves(o, stage, state, active), Means(o, stage, state, active)
      PROVE  \A x \in Active' : Holds(x)'
    <2>1. Active = {o} /\ Active' = (IF active THEN {o} ELSE {})
        BY <1>0, <1>5, MovesActive
    <2>2. CASE ~active
        BY <2>1, <2>2
    <2>3. CASE active
        <3>1. stage \in {"reconcile", "progress"} \/ Settled(o)'
            BY <1>0, <1>5, <2>1, <2>3 DEF Means
        <3>2. ops'[o].stage = stage
            BY <1>5 DEF Moves
        <3>3. Holds(o)'
            BY <3>1, <3>2 DEF Holds, Settled
        <3>4. QED
            BY <2>1, <2>3, <3>3
    <2>4. QED
        BY <2>2, <2>3
<1>6. QED
    BY <1>2, <1>3, <1>4, <1>5 DEF Kinds, MoveKind

\* Identities: the checkpoint that shows a draft ready knows the deepest of them.
LEMMA IdentitiesStep ==
    ASSUME SafeInv, Kinds
    PROVE  Identities'
<1>0. Identities
    BY DEF SafeInv
<1>1. CASE launch'.ids = launch.ids /\ launch'.state = launch.state
    BY <1>0, <1>1 DEF Identities, Chained
<1>2. ASSUME NEW o \in Ops, NEW stage \in Stages, NEW state \in LaunchStates,
             NEW active \in BOOLEAN, Moves(o, stage, state, active), Means(o, stage, state, active)
      PROVE  Identities'
    <2>1. launch'.state = state
        BY <1>2 DEF Moves
    <2>2. Chained(launch'.ids) /\ (state = "draft_ready" => launch'.ids.ad # NoId)
        BY <1>0, <1>2 DEF Means, Identities
    <2>3. QED
        BY <2>1, <2>2 DEF Identities, Chained
<1>3. QED
    BY <1>1, <1>2 DEF Kinds, MoveKind, Rests, Reserves, Dispatches

\* The history of a launch: one draft, its writes before any publication's.
History == RestsQueued /\ FreshLaunch /\ OneDrafter /\ AttemptsFit /\ PublishOnce

LEMMA RestsHistory ==
    ASSUME SafeInv, Rests
    PROVE  History'
<1>1. /\ Active' = Active /\ \A x \in Ops : HasAttempt(x)' = HasAttempt(x)
      /\ launch' = launch /\ attempts' = attempts
      /\ \A x \in Ops : ops'[x].action = ops[x].action /\ ops'[x].stage = ops[x].stage
    BY RestsActive DEF Rests
<1>2. \A x \in Ops : Fits(x)' = Fits(x) /\ Reserved(x)' = Reserved(x)
          /\ Published(x)' = Published(x)
    BY <1>1 DEF Fits, Reserved, Published
<1>3. (RestsQueued /\ FreshLaunch /\ OneDrafter)'
    BY <1>1, <1>2 DEF SafeInv, RestsQueued, FreshLaunch, OneDrafter, Active
<1>4. AttemptsFit'
    BY <1>1, <1>2 DEF SafeInv, AttemptsFit
<1>5. PublishOnce'
    BY <1>1, <1>2 DEF SafeInv, PublishOnce, Active
<1>6. QED
    BY <1>3, <1>4, <1>5 DEF History

LEMMA ReservesHistory ==
    ASSUME SafeInv, NEW o \in Ops, NEW act \in Actions, Reserves(o, act)
    PROVE  History'
<1>1. Active' = {o} /\ \A x \in Ops : HasAttempt(x)' = HasAttempt(x)
    BY ReservesActive
<1>2. /\ ops'[o].action = act /\ ops'[o].stage = "queued" /\ ~Reserved(o)
      /\ Ready(act) /\ (Active # {} => act \in Stops)
      /\ \A x \in Ops \ {o} : ops'[x].action = ops[x].action /\ ops'[x].stage = ops[x].stage
      /\ launch'.state = launch.state /\ attempts' = attempts
    BY DEF Reserves
<1>3. ~HasAttempt(o)
    BY <1>2 DEF SafeInv, Unused
<1>4. RestsQueued' /\ FreshLaunch'
    BY <1>1, <1>2 DEF SafeInv, RestsQueued, FreshLaunch
<1>5. act = "draft" => launch.state = "reserved" /\ Active = {}
    BY <1>2 DEF Ready, Stops
<1>6. act = "draft" => \A x \in Ops : ~Reserved(x) /\ ~HasAttempt(x)
    BY <1>5 DEF SafeInv, FreshLaunch
<1>7. OneDrafter'
    BY <1>2, <1>6 DEF SafeInv, OneDrafter, Reserved
<1>8. Creations \cup {"publish"} \subseteq EffectStages
    BY DEF EffectStages
<1>9. AttemptsFit'
    <2>1. \A x \in Ops \ {o} : Fits(x)' = Fits(x)
        BY <1>2 DEF Fits
    <2>2. Fits(o)'
        BY <1>2 DEF Fits, Creations
    <2>3. \A s \in Creations \cup {"publish"} : attempts[o][s].status = "none"
        BY <1>3, <1>8 DEF HasAttempt
    <2>4. QED
        BY <1>2, <2>1, <2>2, <2>3 DEF SafeInv, AttemptsFit
<1>10. act = "publish" => launch.state = "draft_ready"
    BY <1>2 DEF Ready, Stops
<1>11. act \in {"draft", "publish"} => \A x \in Ops : ~Published(x)
    BY <1>6, <1>8, <1>10 DEF SafeInv, PublishOnce, Published, HasAttempt
<1>12. PublishOnce'
    BY <1>1, <1>2, <1>11 DEF SafeInv, PublishOnce, Published
<1>13. QED
    BY <1>4, <1>7, <1>9, <1>12 DEF History

LEMMA DispatchesHistory ==
    ASSUME SafeInv, NEW o \in Ops, NEW s \in EffectStages, Dispatches(o, s)
    PROVE  History'
<1>1. /\ Active' = Active /\ o \in Active /\ Active = {o}
      /\ \A x \in Ops \ {o} : attempts'[x] = attempts[x]
      /\ \A x \in EffectStages \ {s} : attempts'[o][x] = attempts[o][x]
    BY DispatchesActive DEF SafeInv, SingleActive
<1>2. /\ ops' = ops /\ launch' = launch /\ ops[o].stage = s
      /\ s = "publish" => ops[o].action = "publish"
    BY DEF Dispatches
<1>3. s # "queued" /\ Creations \cup {"publish"} \subseteq EffectStages
    BY DEF EffectStages, Creations
<1>4. launch.state \notin {"reserved", "draft_ready"}
    BY <1>1, <1>2, <1>3 DEF SafeInv, RestsQueued
<1>5. RestsQueued' /\ FreshLaunch' /\ OneDrafter'
    BY <1>2, <1>4 DEF SafeInv, RestsQueued, FreshLaunch, OneDrafter
<1>6. Fits(o) /\ \A x \in Ops : Fits(x)' = Fits(x)
    BY <1>2 DEF SafeInv, AttemptsFit, Fits
<1>7. s \in Creations => ops[o].action = "draft"
    BY <1>2, <1>6 DEF Fits
<1>8. AttemptsFit'
    BY <1>1, <1>2, <1>3, <1>6, <1>7 DEF SafeInv, AttemptsFit
<1>9. CASE s # "publish"
    <2>1. \A x \in Ops : Published(x)' = Published(x)
        BY <1>1, <1>3, <1>9 DEF Published
    <2>2. PublishOnce'
        BY <1>1, <1>2, <2>1 DEF SafeInv, PublishOnce
    <2>3. QED
        BY <1>5, <1>8, <2>2 DEF History
<1>10. CASE s = "publish"
    <2>1. \A x \in Ops \ {o} : Published(x)' = Published(x)
        BY <1>1 DEF Published
    <2>2. ops[o].action = "publish"
        BY <1>2, <1>10
    <2>3. \A x \in Ops : Published(x)' => x = o
        BY <1>1, <2>1, <2>2 DEF SafeInv, PublishOnce
    <2>4. PublishOnce'
        BY <1>1, <1>2, <1>4, <2>2, <2>3 DEF PublishOnce
    <2>5. QED
        BY <1>5, <1>8, <2>4 DEF History
<1>11. QED
    BY <1>9, <1>10

LEMMA MovesHistory ==
    ASSUME SafeInv, NEW o \in Ops, NEW stage \in Stages, NEW state \in LaunchStates,
           NEW active \in BOOLEAN, Moves(o, stage, state, active), Means(o, stage, state, active)
    PROVE  History'
<1>1. /\ Active = {o} /\ Active' = (IF active THEN {o} ELSE {})
      /\ \A x \in Ops, s \in EffectStages :
            attempts[x][s].status = "none" <=> attempts'[x][s].status = "none"
    BY MovesActive DEF SafeInv
<1>2. /\ \A x \in Ops \ {o} : ops'[x] = ops[x]
      /\ ops'[o].action = ops[o].action /\ launch'.state = state
    BY DEF Moves
<1>3. state # "reserved" /\ (state = "draft_ready" => ~active /\ ops[o].stage = "parity")
      /\ (Fits(o) => Fits(o)')
    BY DEF Means
<1>4. Creations \cup {"publish"} \subseteq EffectStages
    BY DEF EffectStages
<1>5. RestsQueued' /\ FreshLaunch'
    BY <1>1, <1>2, <1>3 DEF RestsQueued, FreshLaunch
<1>6. OneDrafter'
    BY <1>2 DEF SafeInv, OneDrafter
<1>7. \A x \in Ops : Fits(x) => Fits(x)'
    BY <1>2, <1>3 DEF Fits
<1>8. AttemptsFit'
    BY <1>1, <1>2, <1>4, <1>7 DEF SafeInv, AttemptsFit
<1>9. \A x \in Ops : Published(x)' = Published(x)
    BY <1>1, <1>4 DEF Published
<1>10. state = "draft_ready" => ops[o].action = "draft"
    BY <1>3 DEF SafeInv, AttemptsFit, Fits
<1>11. PublishOnce'
    BY <1>1, <1>2, <1>9, <1>10 DEF SafeInv, PublishOnce
<1>12. QED
    BY <1>5, <1>6, <1>8, <1>11 DEF History

LEMMA SafeStep == SafeInv /\ [Next]_store => SafeInv'
<1> SUFFICES ASSUME SafeInv, [Next]_store PROVE SafeInv'
    OBVIOUS
<1>1. TypeInv' /\ Kinds
    BY TypeStep, StepKinds DEF SafeInv
<1>2. History'
    BY <1>1, RestsHistory, ReservesHistory, DispatchesHistory, MovesHistory DEF Kinds, MoveKind
<1>3. QED
    BY <1>1, <1>2, DeliveryStep, CancelStep, HoldStep, IdentitiesStep
        DEF SafeInv, History

-----------------------------------------------------------------------------
\* The invariant the safety theorems follow from.
LEMMA SafeHolds == Spec => []SafeInv
    BY SafeInit, SafeStep, PTL DEF Spec

\* However commands supersede each other, a launch has at most one active operation, and a
\* worker can always pick it up: not fenced, its outbox row pending, the copy it reads current.
THEOREM DeliveryHolds == Spec => [](SingleActive /\ ActiveDeliverable)
<1>1. SafeInv => SingleActive /\ ActiveDeliverable
    BY DEF SafeInv
<1>2. QED
    BY <1>1, SafeHolds, PTL

\* A launch reported cancelled never sent a write and has no operation left that could.
THEOREM CancelledHolds == Spec => []CancelledIsClean
<1>1. SafeInv => CancelledIsClean
    BY DEF SafeInv
<1>2. QED
    BY <1>1, SafeHolds, PTL

\* An operation shown as cancelled, by a claim or by being superseded, never sent a write.
THEOREM CancelledSentNothingHolds == Spec => []CancelledSentNothing
<1>1. SafeInv => CancelledSentNothing
    BY DEF SafeInv, ShownCancelled, CancelledSentNothing
<1>2. QED
    BY <1>1, SafeHolds, PTL

LEMMA SafeDispatchesOnce == SafeInv => DispatchedOnce
<1> SUFFICES ASSUME SafeInv, NEW s \in Creations \cup {"publish"}, NEW o \in Ops, NEW p \in Ops,
                    attempts[o][s].status # "none", attempts[p][s].status # "none"
             PROVE  o = p
    BY DEF DispatchedOnce
<1>1. CASE s \in Creations
    BY <1>1 DEF SafeInv, AttemptsFit, OneDrafter
<1>2. CASE s = "publish"
    BY <1>2 DEF SafeInv, PublishOnce, Published
<1>3. QED
    BY <1>1, <1>2

\* Over every operation ever reserved, each creation and the publication are dispatched at
\* most once: no later command and no reclaimed lease repeats them.
THEOREM DispatchedOnceHolds == Spec => []DispatchedOnce
    BY SafeDispatchesOnce, SafeHolds, PTL

\* A write nobody confirmed is never passed over: its operation observes, or is still with
\* the very claim that recorded it.
THEOREM UnconfirmedStays == Spec => []UnconfirmedHolds
<1>1. SafeInv => UnconfirmedHolds
    BY DEF SafeInv
<1>2. QED
    BY <1>1, SafeHolds, PTL

\* No late worker changes an operation that was superseded, has ended or has expired.
THEOREM ClosedHolds == Spec => ClosedIsFinal
<1> DEFINE Closed == \A o \in Ops : Reserved(o) /\ ~ops[o].active =>
                         ops'[o] = ops[o] /\ attempts'[o] = attempts[o]
<1>1. TypeInv /\ [Next]_store => [Closed]_store
    <2> SUFFICES ASSUME TypeInv, Kinds PROVE Closed
        BY StepKinds
    <2>1. CASE Rests
        BY <2>1 DEF Rests
    <2>2. ASSUME NEW o \in Ops, NEW act \in Actions, Reserves(o, act)
          PROVE  Closed
        BY <2>2 DEF Reserves
    <2>3. ASSUME NEW o \in Ops, NEW s \in EffectStages, Dispatches(o, s)
          PROVE  Closed
        BY <2>3, DispatchesActive DEF Dispatches
    <2>4. ASSUME NEW o \in Ops, NEW stage \in Stages, NEW state \in LaunchStates,
                 NEW active \in BOOLEAN, Moves(o, stage, state, active),
                 Means(o, stage, state, active)
          PROVE  Closed
        BY <2>4 DEF Moves, Means
    <2>5. QED
        BY <2>1, <2>2, <2>3, <2>4 DEF Kinds, MoveKind
<1>2. QED
    BY <1>1, TypeInit, TypeStep, PTL DEF Spec, ClosedIsFinal

\* The record of a write is never withdrawn, a confirmed one never changes, and a doubtful
\* one is never taken for a fresh dispatch.
THEOREM AttemptsHold == Spec => AttemptsOnlySettle
<1> DEFINE Settling == \A o \in Ops, s \in EffectStages :
        /\ attempts[o][s].status # "none" => attempts'[o][s].status # "none"
        /\ attempts[o][s].status = "confirmed" => attempts'[o][s] = attempts[o][s]
        /\ attempts[o][s].status = "uncertain" => attempts'[o][s].status # "dispatching"
<1>1. TypeInv /\ [Next]_store => [Settling]_store
    <2> SUFFICES ASSUME TypeInv, Kinds PROVE Settling
        BY StepKinds
    <2>1. CASE attempts' = attempts
        BY <2>1
    <2>2. ASSUME NEW o \in Ops, NEW s \in EffectStages, Dispatches(o, s)
          PROVE  Settling
        BY <2>2, DispatchesActive DEF Dispatches
    <2>3. ASSUME NEW o \in Ops, NEW stage \in Stages, NEW state \in LaunchStates,
                 NEW active \in BOOLEAN, Means(o, stage, state, active)
          PROVE  Settling
        <3>1. \A x \in Ops \ {o} : attempts'[x] = attempts[x]
            BY <2>3 DEF Means
        <3>2. \A x \in EffectStages : Settles(attempts[o][x], attempts'[o][x])
            BY <2>3 DEF Means
        <3>3. QED
            BY <3>1, <3>2 DEF Settles
    <2>4. QED
        BY <2>1, <2>2, <2>3 DEF Kinds, MoveKind, Rests, Reserves
<1>2. QED
    BY <1>1, TypeInit, TypeStep, PTL DEF Spec, AttemptsOnlySettle
=============================================================================

--------------------------- MODULE DeliveryProofs ---------------------------
(***************************************************************************)
(* The delivery guard keeps its promise for any number of runs, tries and  *)
(* deliveries, whatever references and outcomes they share.                *)
(***************************************************************************)
EXTENDS DeliveryGuard, TLAPS

\* What the two unique constraints of the table come to.
OneRow ==
    \A d, e \in Deliveries : claims[d] # "none" /\ claims[e] # "none" /\ e \in Conflicts(d) => d = e

\* What a run knows of its row.
Knows(r) ==
    /\ runs[r].pc = "queued" => runs[r].tries < MaxTries
    /\ runs[r].pc = "claiming" => \A e \in runs[r].seen : claims[e] # "none"
    /\ runs[r].pc \in {"handling", "releasing"} => claims[Of(r)] = "claimed" /\ made[Of(r)] = 0
    /\ runs[r].pc = "completing" => claims[Of(r)] = "claimed" /\ made[Of(r)] = 1
    /\ runs[r].pc = "doubting" => claims[Of(r)] \in {"claimed", "completed"} /\ made[Of(r)] = 1
    /\ runs[r].pc = "processed" => claims[Of(r)] = "completed"

GuardInv ==
    /\ TypeOK
    /\ OneRow
    /\ \A r \in Runs : Knows(r)
    /\ SoleHolder
    /\ RowsAreTrue

LEMMA ConflictFacts ==
    ASSUME NEW d \in Deliveries, NEW e \in Deliveries
    PROVE  /\ d \in Conflicts(d)
           /\ e \in Conflicts(d) <=> d \in Conflicts(e)
BY DEF Conflicts

\* Only a delivery none of whose rivals has a row is inserted, and only its own released row
\* is claimed again.
LEMMA AcquiredFacts ==
    ASSUME GuardInv, NEW r \in Runs, Acquired(r), runs[r].pc = "claiming"
    PROVE  /\ claims[Of(r)] \in {"none", "released"}
           /\ \A e \in Conflicts(Of(r)) : e # Of(r) => claims[e] = "none"
           /\ \A q \in Runs : runs[q].pc \in Holding => Of(q) \notin Conflicts(Of(r))
           /\ made[Of(r)] = 0
<1> Of(r) \in Deliveries /\ \A q \in Runs : Of(q) \in Deliveries
  BY DEF GuardInv, TypeOK, Run, Of
<1>1. claims[Of(r)] \in {"none", "released"} /\ \A e \in Conflicts(Of(r)) : e # Of(r) => claims[e] = "none"
  <2>1. CASE Reclaimed(r)
    BY <2>1, ConflictFacts DEF Reclaimed, GuardInv, OneRow, Conflicts
  <2>2. CASE Inserted(r)
    BY <2>2, ConflictFacts DEF Inserted, Rows, Conflicts
  <2> QED BY <2>1, <2>2 DEF Acquired
<1>2. ASSUME NEW q \in Runs, runs[q].pc \in Holding, Of(q) \in Conflicts(Of(r)) PROVE FALSE
  <2>1. claims[Of(q)] \in {"claimed", "completed"}
    BY <1>2 DEF GuardInv, Knows, Holding
  <2> QED BY <1>1, <1>2, <2>1
<1> QED BY <1>1, <1>2 DEF GuardInv, RowsAreTrue

LEMMA GuardInit == Init => GuardInv
<1> SUFFICES ASSUME Init PROVE GuardInv
  OBVIOUS
<1>1. TypeOK
  BY TriesAssumption DEF Init, TypeOK, Run, Pristine, Statuses
<1> QED BY <1>1, TriesAssumption DEF Init, Pristine, GuardInv, OneRow, Knows, SoleHolder, RowsAreTrue, Holding, Of

\* A run is somewhere else, and nothing besides.
LEMMA ThrowsFacts ==
    ASSUME TypeOK, NEW r \in Runs, Throws(r)
    PROVE  \E pc \in {"queued", "failed"} :
              Goes(r, pc) /\ (pc = "queued" => runs[r].tries < MaxTries)
BY DEF Throws

LEMMA GoesFacts ==
    ASSUME TypeOK, NEW r \in Runs, NEW pc \in {"queued"} \cup Busy \cup Ended, Goes(r, pc)
    PROVE  /\ runs' \in [Runs -> Run]
           /\ runs'[r].pc = pc
           /\ \A q \in Runs : /\ Of(q)' = Of(q) /\ runs'[q].seen = runs[q].seen
                             /\ runs'[q].tries = runs[q].tries
           /\ \A q \in Runs \ {r} : runs'[q] = runs[q]
<1>1. runs[r] \in Run
  BY DEF TypeOK
<1>2. [runs[r] EXCEPT !.pc = pc] \in Run
  BY <1>1 DEF Run
<1>3. runs' = [runs EXCEPT ![r] = [runs[r] EXCEPT !.pc = pc]]
  BY DEF Goes
<1>4. runs'[r] = [runs[r] EXCEPT !.pc = pc] /\ \A q \in Runs \ {r} : runs'[q] = runs[q]
  BY <1>3 DEF TypeOK
<1>5. /\ [runs[r] EXCEPT !.pc = pc].pc = pc
      /\ [runs[r] EXCEPT !.pc = pc].delivery = runs[r].delivery
      /\ [runs[r] EXCEPT !.pc = pc].seen = runs[r].seen
      /\ [runs[r] EXCEPT !.pc = pc].tries = runs[r].tries
  BY <1>1 DEF Run
<1>6. runs' \in [Runs -> Run]
  BY <1>2, <1>3 DEF TypeOK
<1> QED BY <1>4, <1>5, <1>6 DEF Of

-----------------------------------------------------------------------------
\* Run r moves to pc, the row of its delivery to c and the count of its successes to m.
\* Nobody else notices if no other holder works for the same delivery, or if the row rests.
LEMMA StepKeeps ==
    ASSUME GuardInv, NEW r \in Runs, NEW d \in Deliveries, d = Of(r),
           NEW c \in Statuses, claims' = [claims EXCEPT ![d] = c],
           NEW m \in Nat, made' = [made EXCEPT ![d] = m],
           runs' \in [Runs -> Run],
           \A q \in Runs : Of(q)' = Of(q),
           \A q \in Runs \ {r} : runs'[q] = runs[q],
           Knows(r)',
           c \in {"completed", "completion_uncertain"} => m = 1,
           c \in {"none", "released"} => m = 0,
           c # "none" => \A e \in Conflicts(d) : e # d => claims[e] = "none",
           claims[d] # "none" => c # "none",
           \/ c = claims[d] /\ m = made[d]
           \/ /\ \A q \in Runs \ {r} : runs[q].pc \in Holding => Of(q) # d
              /\ claims[d] # "completed",
           runs'[r].pc \in Holding =>
              \A q \in Runs \ {r} : runs[q].pc \in Holding => Of(q) \notin Conflicts(d)
    PROVE  GuardInv'
<1> d \in Deliveries /\ \A q \in Runs : runs[q] \in Run /\ Of(q) \in Deliveries
  BY DEF GuardInv, TypeOK, Run, Of
<1>1. TypeOK'
  BY DEF GuardInv, TypeOK
<1>2. /\ claims'[d] = c /\ made'[d] = m
      /\ \A e \in Deliveries : e # d => claims'[e] = claims[e] /\ made'[e] = made[e]
  BY DEF GuardInv, TypeOK
<1>3. OneRow'
  <2> SUFFICES ASSUME NEW e \in Deliveries, NEW f \in Deliveries, claims'[e] # "none",
                      claims'[f] # "none", f \in Conflicts(e)
               PROVE  e = f
    BY DEF OneRow, Conflicts
  <2>1. CASE e = d
    BY <1>2, <2>1
  <2>2. CASE f = d
    BY <1>2, <2>2, ConflictFacts
  <2>3. CASE e # d /\ f # d
    BY <1>2, <2>3 DEF GuardInv, OneRow
  <2> QED BY <2>1, <2>2, <2>3
<1>4. \A q \in Runs : Knows(q)'
  <2> SUFFICES ASSUME NEW q \in Runs \ {r} PROVE Knows(q)'
    OBVIOUS
  <2>1. Knows(q) /\ runs'[q] = runs[q] /\ Of(q)' = Of(q) /\ runs[q].seen \subseteq Deliveries
    BY DEF GuardInv, Run
  <2>2. runs'[q].pc = "claiming" => \A e \in runs'[q].seen : claims'[e] # "none"
    BY <1>2, <2>1 DEF Knows
  <2>3. CASE Of(q) # d \/ (c = claims[d] /\ m = made[d])
    <3>1. claims'[Of(q)] = claims[Of(q)] /\ made'[Of(q)] = made[Of(q)]
      BY <1>2, <2>3
    <3> QED BY <2>1, <2>2, <3>1 DEF Knows
  <2>4. CASE Of(q) = d /\ claims[d] # "completed" /\ runs[q].pc \notin Holding
    BY <2>1, <2>2, <2>4 DEF Knows, Holding
  <2> QED BY <2>3, <2>4
<1>5. SoleHolder'
  <2> SUFFICES ASSUME NEW p \in Runs, NEW q \in Runs, runs'[p].pc \in Holding,
                      runs'[q].pc \in Holding, Of(q) \in Conflicts(Of(p)), p # q
               PROVE  FALSE
    BY DEF SoleHolder, Conflicts, Holding
  <2>1. CASE p = r
    BY <2>1
  <2>2. CASE q = r
    BY <2>2, ConflictFacts
  <2>3. CASE p # r /\ q # r
    BY <2>3 DEF GuardInv, SoleHolder
  <2> QED BY <2>1, <2>2, <2>3
<1>6. RowsAreTrue'
  BY <1>2 DEF GuardInv, RowsAreTrue
<1> QED BY <1>1, <1>3, <1>4, <1>5, <1>6 DEF GuardInv

\* A holder is the only one, and its row the only one among its rivals.
LEMMA HolderFacts ==
    ASSUME GuardInv, NEW r \in Runs, runs[r].pc \in Holding
    PROVE  /\ \A q \in Runs \ {r} :
                 runs[q].pc \in Holding => Of(q) # Of(r) /\ Of(q) \notin Conflicts(Of(r))
           /\ \A e \in Conflicts(Of(r)) : e # Of(r) => claims[e] = "none"
           /\ claims[Of(r)] # "none"
<1> \A q \in Runs : Of(q) \in Deliveries
  BY DEF GuardInv, TypeOK, Run, Of
<1>1. claims[Of(r)] # "none"
  BY DEF GuardInv, Knows, Holding
<1>2. \A q \in Runs \ {r} : runs[q].pc \in Holding => Of(q) \notin Conflicts(Of(r))
  BY DEF GuardInv, SoleHolder
<1>3. \A e \in Conflicts(Of(r)) : e # Of(r) => claims[e] = "none"
  BY <1>1 DEF GuardInv, OneRow, Conflicts
<1> QED BY <1>1, <1>2, <1>3, ConflictFacts

\* Steps that only move the run, to a place where it holds no more than before.
LEMMA OnlyGoes ==
    ASSUME GuardInv, NEW r \in Runs, NEW pc \in {"queued"} \cup Busy \cup Ended, Goes(r, pc),
           UNCHANGED <<claims, made>>,
           \/ pc \in {"queued", "duplicate", "failed"} /\ (pc = "queued" => runs[r].tries < MaxTries)
           \/ runs[r].pc = "handling" /\ pc = "releasing"
           \/ runs[r].pc = "completing" /\ pc = "doubting"
    PROVE  GuardInv'
<1> DEFINE d == Of(r)
<1>0. d \in Deliveries
  BY DEF GuardInv, TypeOK, Run, Of
<1>1. claims' = [claims EXCEPT ![d] = claims[d]] /\ made' = [made EXCEPT ![d] = made[d]]
  BY <1>0 DEF GuardInv, TypeOK
<1>2. claims[d] \in Statuses /\ made[d] \in Nat
  BY <1>0 DEF GuardInv, TypeOK
<1>3. /\ runs' \in [Runs -> Run] /\ runs'[r].pc = pc /\ runs'[r].tries = runs[r].tries
      /\ \A q \in Runs : Of(q)' = Of(q)
      /\ \A q \in Runs \ {r} : runs'[q] = runs[q]
  BY GoesFacts DEF GuardInv
<1>4. Knows(r)'
  BY <1>3 DEF GuardInv, Knows
<1>5. claims[d] # "none" => \A e \in Conflicts(d) : e # d => claims[e] = "none"
  BY <1>0 DEF GuardInv, OneRow, Conflicts
<1>6. runs'[r].pc \in Holding =>
          \A q \in Runs \ {r} : runs[q].pc \in Holding => Of(q) \notin Conflicts(d)
  BY <1>3, HolderFacts DEF Holding
<1>7. /\ claims[d] \in {"completed", "completion_uncertain"} => made[d] = 1
      /\ claims[d] \in {"none", "released"} => made[d] = 0
  BY <1>0 DEF GuardInv, RowsAreTrue
<1>8. d = Of(r)
  OBVIOUS
<1>9. \/ claims[d] = claims[d] /\ made[d] = made[d]
      \/ (\A q \in Runs \ {r} : runs[q].pc \in Holding => Of(q) # d) /\ claims[d] # "completed"
  OBVIOUS
<1>10. claims[d] # "none" => claims[d] # "none"
  OBVIOUS
<1> HIDE DEF d
<1> QED BY ONLY GuardInv, <1>0, <1>1, <1>2, <1>3, <1>4, <1>5, <1>6, <1>7, <1>8, <1>9, <1>10, StepKeeps

\* The holder of a row writes it, and goes on or ends.
LEMMA HolderWrites ==
    ASSUME GuardInv, NEW r \in Runs, runs[r].pc \in Holding, claims[Of(r)] = "claimed",
           NEW pc \in {"queued"} \cup Busy \cup Ended, Goes(r, pc), pc # "claiming",
           NEW c \in Statuses \ {"none"}, Marks(Of(r), c),
           NEW m \in Nat, made' = [made EXCEPT ![Of(r)] = m],
           Knows(r)',
           c \in {"completed", "completion_uncertain"} => m = 1,
           c = "released" => m = 0
    PROVE  GuardInv'
<1> DEFINE d == Of(r)
<1>1. claims' = [claims EXCEPT ![d] = c] /\ made' = [made EXCEPT ![d] = m]
  BY DEF Marks
<1>2. /\ runs' \in [Runs -> Run] /\ runs'[r].pc = pc
      /\ \A q \in Runs : Of(q)' = Of(q)
      /\ \A q \in Runs \ {r} : runs'[q] = runs[q]
  BY GoesFacts DEF GuardInv
<1>3. /\ \A q \in Runs \ {r} : runs[q].pc \in Holding => Of(q) # d /\ Of(q) \notin Conflicts(d)
      /\ \A e \in Conflicts(d) : e # d => claims[e] = "none"
  BY HolderFacts
<1>4. d \in Deliveries /\ d = Of(r) /\ claims[d] # "completed"
  BY DEF GuardInv, TypeOK, Run, Of
<1>5. c \in Statuses /\ c # "none" /\ (c \in {"none", "released"} => m = 0)
  OBVIOUS
<1>6. c # "none" => \A e \in Conflicts(d) : e # d => claims[e] = "none"
  BY <1>3
<1>7. \/ c = claims[d] /\ m = made[d]
      \/ (\A q \in Runs \ {r} : runs[q].pc \in Holding => Of(q) # d) /\ claims[d] # "completed"
  BY <1>3, <1>4
<1>8. claims[d] # "none" => c # "none"
  BY <1>5
<1>9. runs'[r].pc \in Holding =>
          \A q \in Runs \ {r} : runs[q].pc \in Holding => Of(q) \notin Conflicts(d)
  BY <1>3
<1>10. Knows(r)' /\ m \in Nat /\ (c \in {"completed", "completion_uncertain"} => m = 1)
  OBVIOUS
<1> HIDE DEF d
<1> QED BY ONLY GuardInv, <1>1, <1>2, <1>4, <1>5, <1>6, <1>7, <1>8, <1>9, <1>10, StepKeeps

-----------------------------------------------------------------------------
LEMMA LookKeeps == ASSUME GuardInv, NEW r \in Runs, Look(r) PROVE GuardInv'
<1> DEFINE d == Of(r)
           next == [runs[r] EXCEPT !.pc = "claiming", !.seen = Rows(Of(r)),
                                   !.tries = runs[r].tries + 1]
<1>1. runs[r] \in Run /\ runs[r].tries < MaxTries /\ d \in Deliveries
  BY DEF GuardInv, TypeOK, Knows, Look, At, Run, Of
<1>2. Rows(d) \subseteq Deliveries /\ runs[r].tries + 1 \in 0..MaxTries
  BY <1>1, TriesAssumption DEF Rows, Conflicts, Run
<1>3. /\ next \in Run /\ next.pc = "claiming" /\ next.seen = Rows(d)
      /\ next.delivery = runs[r].delivery
  BY <1>1, <1>2 DEF Run, Busy
<1>4. runs' = [runs EXCEPT ![r] = next]
  BY DEF Look
<1> HIDE DEF next
<1>5. /\ runs' \in [Runs -> Run] /\ runs'[r] = next
      /\ \A q \in Runs \ {r} : runs'[q] = runs[q]
  BY <1>3, <1>4 DEF GuardInv, TypeOK
<1>6. \A q \in Runs : Of(q)' = Of(q)
  BY <1>3, <1>5 DEF Of
<1>7. claims' = [claims EXCEPT ![d] = claims[d]] /\ made' = [made EXCEPT ![d] = made[d]]
  BY <1>1 DEF GuardInv, TypeOK, Look
<1>8. claims[d] \in Statuses /\ made[d] \in Nat
  BY <1>1 DEF GuardInv, TypeOK
<1>9. Knows(r)'
  BY <1>3, <1>5 DEF Knows, Rows, Look
<1>10. claims[d] # "none" => \A e \in Conflicts(d) : e # d => claims[e] = "none"
  BY <1>1 DEF GuardInv, OneRow, Conflicts
<1>11. /\ claims[d] \in {"completed", "completion_uncertain"} => made[d] = 1
       /\ claims[d] \in {"none", "released"} => made[d] = 0
  BY <1>1 DEF GuardInv, RowsAreTrue
<1>12. runs'[r].pc \notin Holding
  BY <1>3, <1>5 DEF Holding
<1>13. d = Of(r) /\ claims[d] = claims[d] /\ made[d] = made[d] /\ (claims[d] # "none" => claims[d] # "none")
  OBVIOUS
<1> HIDE DEF d
<1> QED BY ONLY GuardInv, <1>1, <1>5, <1>6, <1>7, <1>8, <1>9, <1>10, <1>11, <1>12, <1>13, StepKeeps

LEMMA ClaimKeeps == ASSUME GuardInv, NEW r \in Runs, Claim(r) PROVE GuardInv'
<1> DEFINE d == Of(r)
<1>1. runs[r].pc = "claiming" /\ d \in Deliveries
  BY DEF Claim, At, GuardInv, TypeOK, Run, Of
<1>2. PICK pc \in {"handling", "queued", "failed"} :
          Goes(r, pc) /\ (pc = "queued" => runs[r].tries < MaxTries)
  BY ThrowsFacts DEF Claim, GuardInv
<1>3. /\ runs' \in [Runs -> Run] /\ runs'[r].pc = pc /\ runs'[r].tries = runs[r].tries
      /\ \A q \in Runs : Of(q)' = Of(q)
      /\ \A q \in Runs \ {r} : runs'[q] = runs[q]
  BY <1>2, GoesFacts DEF GuardInv, Busy, Ended, Holding
<1>4. /\ claims[d] \in {"none", "released"}
      /\ \A e \in Conflicts(d) : e # d => claims[e] = "none"
      /\ \A q \in Runs : runs[q].pc \in Holding => Of(q) \notin Conflicts(d)
      /\ made[d] = 0
  BY <1>1, AcquiredFacts DEF Claim
<1>5. \A q \in Runs \ {r} : runs[q].pc \in Holding => Of(q) # d
  BY <1>1, <1>4, ConflictFacts
<1>6. claims' = [claims EXCEPT ![d] = "claimed"] /\ made' = [made EXCEPT ![d] = 0]
  BY <1>1, <1>4 DEF Claim, Marks, GuardInv, TypeOK
<1>7. Knows(r)'
  <2>1. claims'[d] = "claimed" /\ made'[d] = 0 /\ Of(r)' = d
    BY <1>1, <1>3, <1>6 DEF GuardInv, TypeOK
  <2> QED BY <1>2, <1>3, <2>1 DEF Knows
<1>8. "claimed" \in Statuses /\ 0 \in Nat /\ d = Of(r)
  BY DEF Statuses
<1> HIDE DEF d
<1> QED BY ONLY GuardInv, <1>1, <1>3, <1>4, <1>5, <1>6, <1>7, <1>8, StepKeeps

LEMMA SucceedsKeeps == ASSUME GuardInv, NEW r \in Runs, HandlerSucceeds(r) PROVE GuardInv'
<1>1. runs[r].pc = "handling" /\ runs[r].pc \in Holding /\ Of(r) \in Deliveries
  BY DEF HandlerSucceeds, At, Holding, GuardInv, TypeOK, Run, Of
<1>2. claims[Of(r)] = "claimed" /\ made[Of(r)] = 0
  BY <1>1 DEF GuardInv, Knows
<1>3. Marks(Of(r), "claimed") /\ made' = [made EXCEPT ![Of(r)] = 1] /\ Goes(r, "completing")
  BY <1>1, <1>2 DEF HandlerSucceeds, Marks, GuardInv, TypeOK
<1>4. runs'[r].pc = "completing" /\ Of(r)' = Of(r)
  BY <1>3, GoesFacts DEF GuardInv, Busy, Holding
<1>5. Knows(r)'
  <2>1. claims'[Of(r)] = "claimed" /\ made'[Of(r)] = 1
    BY <1>1, <1>3 DEF Marks, GuardInv, TypeOK
  <2> QED BY <1>4, <2>1 DEF Knows
<1>6. "claimed" \in Statuses \ {"none"} /\ 1 \in Nat /\ "completing" \in {"queued"} \cup Busy \cup Ended
  BY DEF Statuses, Busy, Holding
<1> QED BY <1>1, <1>2, <1>3, <1>5, <1>6, HolderWrites

LEMMA CompleteKeeps == ASSUME GuardInv, NEW r \in Runs, Complete(r) PROVE GuardInv'
<1>1. runs[r].pc = "completing" /\ runs[r].pc \in Holding /\ Of(r) \in Deliveries
  BY DEF Complete, At, Holding, GuardInv, TypeOK, Run, Of
<1>2. claims[Of(r)] = "claimed" /\ made[Of(r)] = 1
  BY <1>1 DEF GuardInv, Knows
<1>3. "doubting" \in {"queued"} \cup Busy \cup Ended /\ "processed" \in {"queued"} \cup Busy \cup Ended
  BY DEF Busy, Ended, Holding
<1>4. CASE Goes(r, "doubting") /\ UNCHANGED <<claims, made>>
  BY <1>1, <1>3, <1>4, OnlyGoes
<1>5. ASSUME NEW pc \in {"processed", "doubting"}, Goes(r, pc), Marks(Of(r), "completed"), UNCHANGED made
      PROVE  GuardInv'
  <2>1. runs'[r].pc = pc /\ Of(r)' = Of(r)
    BY <1>3, <1>5, GoesFacts DEF GuardInv
  <2>2. claims'[Of(r)] = "completed" /\ made'[Of(r)] = 1 /\ made' = [made EXCEPT ![Of(r)] = 1]
    BY <1>1, <1>2, <1>5 DEF Marks, GuardInv, TypeOK
  <2>3. Knows(r)'
    BY <2>1, <2>2 DEF Knows
  <2>4. "completed" \in Statuses \ {"none"} /\ 1 \in Nat /\ pc \in {"queued"} \cup Busy \cup Ended
    BY <1>3 DEF Statuses
  <2> QED BY <1>1, <1>2, <1>5, <2>2, <2>3, <2>4, HolderWrites
<1> QED BY <1>4, <1>5 DEF Complete

LEMMA MarkKeeps == ASSUME GuardInv, NEW r \in Runs, MarkUncertain(r) PROVE GuardInv'
<1>1. runs[r].pc = "doubting" /\ runs[r].pc \in Holding /\ Of(r) \in Deliveries /\ made[Of(r)] = 1
  BY DEF MarkUncertain, At, Holding, GuardInv, TypeOK, Run, Of, Knows
<1>2. PICK pc \in {"queued", "failed"} : Goes(r, pc) /\ (pc = "queued" => runs[r].tries < MaxTries)
  BY ThrowsFacts DEF MarkUncertain, GuardInv
<1>3. pc \in {"queued"} \cup Busy \cup Ended
  BY DEF Ended
<1>4. CASE UNCHANGED claims
  BY <1>2, <1>3, <1>4, OnlyGoes DEF MarkUncertain
<1>5. CASE Held(r) /\ Marks(Of(r), "completion_uncertain")
  <2>1. runs'[r].pc = pc /\ runs'[r].tries = runs[r].tries
    BY <1>2, <1>3, GoesFacts DEF GuardInv
  <2>2. Knows(r)'
    BY <1>2, <2>1 DEF Knows
  <2>3. made' = [made EXCEPT ![Of(r)] = 1]
    BY <1>1 DEF MarkUncertain, GuardInv, TypeOK
  <2>4. "completion_uncertain" \in Statuses \ {"none"} /\ 1 \in Nat /\ pc # "claiming"
    BY DEF Statuses
  <2> QED BY <1>1, <1>2, <1>3, <1>5, <2>2, <2>3, <2>4, HolderWrites DEF Held
<1> QED BY <1>4, <1>5 DEF MarkUncertain

LEMMA ReleaseKeeps == ASSUME GuardInv, NEW r \in Runs, Release(r) PROVE GuardInv'
<1>1. runs[r].pc = "releasing" /\ runs[r].pc \in Holding /\ Of(r) \in Deliveries /\ made[Of(r)] = 0
  BY DEF Release, At, Holding, GuardInv, TypeOK, Run, Of, Knows
<1>2. PICK pc \in {"queued", "failed"} : Goes(r, pc) /\ (pc = "queued" => runs[r].tries < MaxTries)
  BY ThrowsFacts DEF Release, GuardInv
<1>3. pc \in {"queued"} \cup Busy \cup Ended
  BY DEF Ended
<1>4. CASE UNCHANGED claims
  BY <1>2, <1>3, <1>4, OnlyGoes DEF Release
<1>5. CASE Held(r) /\ Marks(Of(r), "released")
  <2>1. runs'[r].pc = pc /\ runs'[r].tries = runs[r].tries
    BY <1>2, <1>3, GoesFacts DEF GuardInv
  <2>2. Knows(r)'
    BY <1>2, <2>1 DEF Knows
  <2>3. made' = [made EXCEPT ![Of(r)] = 0]
    BY <1>1 DEF Release, GuardInv, TypeOK
  <2>4. "released" \in Statuses \ {"none"} /\ 0 \in Nat /\ pc # "claiming"
    BY DEF Statuses
  <2> QED BY <1>1, <1>2, <1>3, <1>5, <2>2, <2>3, <2>4, HolderWrites DEF Held
<1> QED BY <1>4, <1>5 DEF Release

LEMMA RestKeeps ==
    ASSUME GuardInv, NEW r \in Runs,
           Refused(r) \/ Duplicate(r) \/ HandlerThrows(r) \/ Crash(r)
    PROVE  GuardInv'
<1>1. {"queued", "failed", "duplicate", "releasing"} \subseteq {"queued"} \cup Busy \cup Ended
  BY DEF Busy, Ended, Holding
<1>2. CASE Refused(r) \/ Duplicate(r)
  BY <1>1, <1>2, OnlyGoes DEF Refused, Duplicate
<1>3. CASE HandlerThrows(r)
  BY <1>1, <1>3, OnlyGoes DEF HandlerThrows, At
<1>4. CASE Crash(r)
  <2>1. PICK pc \in {"queued", "failed"} : Goes(r, pc) /\ (pc = "queued" => runs[r].tries < MaxTries)
    BY <1>4, ThrowsFacts DEF Crash, GuardInv
  <2> QED BY <1>1, <1>4, <2>1, OnlyGoes DEF Crash
<1> QED BY <1>2, <1>3, <1>4

LEMMA GuardStep == GuardInv /\ [Next]_vars => GuardInv'
<1> SUFFICES ASSUME GuardInv, [Next]_vars PROVE GuardInv'
  OBVIOUS
<1>1. CASE UNCHANGED vars
  <2>1. \A r \in Runs : Of(r)' = Of(r)
    BY <1>1 DEF vars, Of
  <2> QED BY <1>1, <2>1 DEF vars, GuardInv, TypeOK, OneRow, Knows, SoleHolder, RowsAreTrue, Conflicts
<1>2. ASSUME NEW r \in Runs, Step(r) PROVE GuardInv'
  BY <1>2, LookKeeps, ClaimKeeps, SucceedsKeeps, CompleteKeeps, MarkKeeps, ReleaseKeeps, RestKeeps
  DEF Step
<1> QED BY <1>1, <1>2 DEF Next

LEMMA GuardHolds == Spec => []GuardInv
BY GuardInit, GuardStep, PTL DEF Spec

-----------------------------------------------------------------------------
\* At most one run works for a reference or an outcome at any time.
THEOREM SoleHolderHolds == Spec => []SoleHolder
<1>1. GuardInv => SoleHolder
  BY DEF GuardInv
<1> QED BY <1>1, GuardHolds, PTL

\* Whatever crashes or gets lost, a row that says completed or doubtful is of a delivery
\* whose handler succeeded, and a row that may be claimed again of one whose did not.
THEOREM RowsHold == Spec => []RowsAreTrue
<1>1. GuardInv => RowsAreTrue
  BY DEF GuardInv
<1> QED BY <1>1, GuardHolds, PTL

\* A run that reports success has its completion on record.
THEOREM ProcessedHolds == Spec => []ProcessedIsRecorded
<1>1. GuardInv => ProcessedIsRecorded
  BY DEF GuardInv, Knows, ProcessedIsRecorded, At
<1> QED BY <1>1, GuardHolds, PTL

\* No step changes a completed or doubtful row.
THEOREM SettledHolds == Spec => SettledStays
<1>1. GuardInv /\ [Next]_vars =>
        [\A d \in Deliveries :
            claims[d] \in {"completed", "completion_uncertain"} => claims'[d] = claims[d]]_vars
  <2> SUFFICES ASSUME GuardInv, NEW r \in Runs, Step(r), NEW d \in Deliveries,
                      claims[d] \in {"completed", "completion_uncertain"}
               PROVE  claims'[d] = claims[d]
    BY DEF Next
  <2>1. CASE Claim(r)
    <3>1. claims[Of(r)] # claims[d]
      BY <2>1, AcquiredFacts DEF Claim, At
    <3> QED BY <2>1, <3>1 DEF Claim, Marks, GuardInv, TypeOK
  <2>2. CASE Complete(r) \/ MarkUncertain(r) \/ Release(r)
    BY <2>2 DEF Complete, MarkUncertain, Release, Held, Marks, GuardInv, TypeOK
  <2>3. CASE UNCHANGED claims
    BY <2>3
  <2> QED BY <2>1, <2>2, <2>3
    DEF Step, Look, Refused, Duplicate, HandlerSucceeds, HandlerThrows, Crash
<1> QED BY <1>1, GuardHolds, PTL DEF Spec, SettledStays

\* The guard implements its promise: of the deliveries that share a reference or an outcome,
\* one succeeds, once.
THEOREM GuardImplements == Spec => OnceSpec
<1>1. Init => Pristine
  BY DEF Init
<1>2. GuardInv /\ [Next]_vars => [\E d \in Deliveries : Make(d)]_made
  <2> SUFFICES ASSUME GuardInv, NEW r \in Runs, HandlerSucceeds(r) PROVE Make(Of(r)) /\ Of(r) \in Deliveries
    BY DEF Next, Step, vars, Look, Refused, Claim, Duplicate, HandlerThrows, Complete,
           MarkUncertain, Release, Crash
  <2>1. runs[r].pc = "handling" /\ Of(r) \in Deliveries /\ runs[r].pc \in Holding
    BY DEF HandlerSucceeds, At, Holding, GuardInv, TypeOK, Run, Of
  <2>2. made[Of(r)] = 0
    BY <2>1 DEF GuardInv, Knows
  <2>3. \A e \in Conflicts(Of(r)) : made[e] = 0
    BY <2>1, <2>2, HolderFacts DEF GuardInv, RowsAreTrue, Conflicts
  <2>4. made' = [made EXCEPT ![Of(r)] = 1]
    BY <2>1, <2>2 DEF HandlerSucceeds, GuardInv, TypeOK
  <2> QED BY <2>1, <2>3, <2>4, SMTT(30) DEF Make
<1> QED BY <1>1, <1>2, GuardHolds, PTL DEF Spec, OnceSpec
=============================================================================

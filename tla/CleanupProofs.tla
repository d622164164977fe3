--------------------------- MODULE CleanupProofs ---------------------------
(***************************************************************************)
(* The cleanup of partial publications keeps its promises for any number   *)
(* of artifacts, attempts and sweeps.                                      *)
(***************************************************************************)
EXTENDS PublicationCleanup, TLAPS

\* What the publisher has withdrawn so far stays withdrawn.
WithdrawalKnows ==
    /\ pub.pc = "copying" => copied \subseteq 1..(pub.key - 1)
    /\ pub.pc = "withdrawing" => pub.key <= pub.upto /\ copied \subseteq pub.key..pub.upto

\* What a sweep has deleted so far is gone, unless it appeared again.
SweepKnows(s) ==
    LET w == sweeps[s]
    IN  /\ \A i \in w.batch : rows[i].status # "none"
        /\ w.pc \in {"deleting", "completing", "releasing"} => rows[w.intent].status # "none"
        /\ w.pc = "deleting" =>
             /\ w.key <= w.intent
             /\ \A k \in public : k < w.key => k \in after[w.intent]
        /\ w.pc = "completing" => \A k \in public : k <= w.intent => k \in after[w.intent]

CleanupInv ==
    /\ TypeOK
    /\ WithdrawalKnows
    /\ \A s \in Sweeps : SweepKnows(s)
    /\ CompletedWasCleared
    /\ WithdrawnIsClean
    /\ TriesAreUsed

LEMMA CleanupInit == Init => CleanupInv
<1> SUFFICES ASSUME Init PROVE CleanupInv
  OBVIOUS
<1>1. TypeOK
  BY CleanupAssumption DEF Init, TypeOK, NoRow, Sweeping, Row, Sweep, Publication, Keys, Intents,
     Statuses, Told, Working, Answers
<1>2. CompletedWasCleared /\ TriesAreUsed /\ WithdrawnIsClean /\ WithdrawalKnows
  BY DEF Init, CompletedWasCleared, TriesAreUsed, WithdrawnIsClean, WithdrawalKnows, NoRow
<1>3. \A s \in Sweeps : SweepKnows(s)
  BY DEF Init, SweepKnows, Sweeping
<1> QED BY <1>1, <1>2, <1>3 DEF CleanupInv

-----------------------------------------------------------------------------
(* Rows *)

\* What a step does to a row.
RowMoves(i) ==
    \/ rows'[i] = rows[i]
    \/ rows[i].status = "none" /\ rows'[i].status = "pending" /\ rows'[i].attempts = 0
    \/ /\ rows[i].status \in Open
       /\ rows'[i] = [rows[i] EXCEPT !.due = TRUE]
    \/ /\ rows[i].status \in Open /\ rows[i].due
       /\ \/ rows[i].attempts >= MaxAttempts /\ rows'[i].status = "dead_lettered" /\ rows'[i].attempts = rows[i].attempts
          \/ rows[i].attempts < MaxAttempts /\ rows'[i].status = "reconciling" /\ rows'[i].attempts = rows[i].attempts + 1
    \/ \E s \in Sweeps :
          /\ rows[i].status = "reconciling" /\ rows[i].owner = s /\ sweeps[s].intent = i
          /\ sweeps'[s] # sweeps[s]
          /\ rows'[i].attempts = rows[i].attempts
          /\ \/ sweeps[s].pc = "completing" /\ rows'[i].status = "completed"
             \/ rows[i].attempts >= MaxAttempts /\ rows'[i].status = "dead_lettered"
             \/ rows[i].attempts < MaxAttempts /\ rows'[i].status = "pending"

\* A row is typed, and owned exactly while it is leased.
RowOK(row) == row \in Row /\ ((row.owner = Nobody) = (row.status # "reconciling"))

LEMMA StoredMoves ==
    ASSUME CleanupInv, NEW n \in Intents, Stored(n)
    PROVE  /\ rows' \in [Intents -> Row]
           /\ \A i \in Intents : RowOK(rows'[i]) /\ RowMoves(i)
<1>1. NewRow.status = "pending" /\ NewRow.attempts = 0
  BY DEF NewRow
<1>2. RowOK(NewRow)
  BY CleanupAssumption DEF RowOK, Row, NewRow, Statuses
<1>3. \A i \in Intents : RowOK(rows[i])
  BY DEF CleanupInv, TypeOK, RowOK
<1>4. rows' = rows \/ (rows[n].status = "none" /\ rows' = [rows EXCEPT ![n] = NewRow])
  BY DEF Stored
<1> QED BY <1>1, <1>2, <1>3, <1>4 DEF RowMoves, CleanupInv, TypeOK, RowOK

LEMMA ClaimMoves ==
    ASSUME CleanupInv, NEW s \in Sweeps, Claim(s)
    PROVE  /\ rows' \in [Intents -> Row]
           /\ \A i \in Intents : RowOK(rows'[i]) /\ RowMoves(i)
<1> SUFFICES ASSUME NEW i \in Intents PROVE RowOK(rows'[i]) /\ RowMoves(i)
  <2>1. rows' \in [Intents -> {rows'[i] : i \in Intents}]
    BY DEF Claim
  <2> QED BY <2>1 DEF RowOK
<1>1. RowOK(rows[i])
  BY DEF CleanupInv, TypeOK, RowOK
<1>2. CASE Exhausted(i)
  <2>1. rows'[i] = [rows[i] EXCEPT !.status = "dead_lettered", !.owner = Nobody, !.due = FALSE]
    BY <1>2 DEF Claim
  <2> QED BY <1>1, <1>2, <2>1, ZenonT(40) DEF RowOK, Row, RowMoves, Exhausted, Statuses
<1>3. CASE ~Exhausted(i) /\ Claimable(i)
  <2>1. rows'[i] = [status |-> "reconciling", attempts |-> rows[i].attempts + 1, owner |-> s, due |-> FALSE]
    BY <1>3 DEF Claim
  <2> QED BY <1>1, <1>3, <2>1, CleanupAssumption DEF RowOK, Row, RowMoves, Claimable, Statuses
<1>4. CASE ~Exhausted(i) /\ ~Claimable(i)
  BY <1>1, <1>4 DEF Claim, RowMoves
<1> QED BY <1>2, <1>3, <1>4

LEMMA SettledMoves ==
    ASSUME CleanupInv, NEW s \in Sweeps, sweeps'[s] # sweeps[s],
           (Completed(s) /\ sweeps[s].pc = "completing") \/ Released(s)
    PROVE  /\ rows' \in [Intents -> Row]
           /\ \A i \in Intents : RowOK(rows'[i]) /\ RowMoves(i)
<1> DEFINE n == sweeps[s].intent
<1>1. n \in Intents /\ \A i \in Intents : RowOK(rows[i])
  BY DEF CleanupInv, TypeOK, RowOK, Sweep
<1>2. PICK status \in {"completed", "dead_lettered", "pending"} :
        /\ rows' = [rows EXCEPT ![n].status = status, ![n].owner = Nobody, ![n].due = FALSE]
        /\ \/ status = "completed" /\ sweeps[s].pc = "completing"
           \/ status = "dead_lettered" /\ rows[n].attempts >= MaxAttempts
           \/ status = "pending" /\ ~(rows[n].attempts >= MaxAttempts)
  BY ZenonT(40) DEF Completed, Released
<1>3. rows[n].status = "reconciling" /\ rows[n].owner = s
  BY DEF Completed, Released, Holds
<1>4. rows'[n] = [rows[n] EXCEPT !.status = status, !.owner = Nobody, !.due = FALSE]
  BY <1>1, <1>2 DEF CleanupInv, TypeOK
<1>5. RowOK(rows'[n])
  BY <1>1, <1>4 DEF RowOK, Row, Statuses
<1>6. RowMoves(n)
  <2>1. rows'[n].status = status /\ rows'[n].attempts = rows[n].attempts /\ rows[n].attempts \in Nat
    BY <1>1, <1>4, CleanupAssumption, SMTT(30) DEF RowOK, Row
  <2>2. \/ sweeps[s].pc = "completing" /\ rows'[n].status = "completed"
        \/ rows[n].attempts >= MaxAttempts /\ rows'[n].status = "dead_lettered"
        \/ rows[n].attempts < MaxAttempts /\ rows'[n].status = "pending"
    BY <1>2, <2>1, CleanupAssumption, SMTT(30)
  <2> QED BY <1>3, <2>1, <2>2 DEF RowMoves
<1>7. \A i \in Intents \ {n} : rows'[i] = rows[i]
  BY <1>2, SMTT(30) DEF CleanupInv, TypeOK
<1>8. rows' \in [Intents -> Row]
  BY <1>1, <1>2, <1>5, <1>7 DEF RowOK, CleanupInv, TypeOK
<1> QED BY <1>1, <1>5, <1>6, <1>7, <1>8, ZenonT(40) DEF RowMoves

\* Whatever step is taken, every row moves in one of these ways.
LEMMA RowStep ==
    ASSUME CleanupInv, Next
    PROVE  /\ rows' \in [Intents -> Row]
           /\ \A i \in Intents : RowOK(rows'[i]) /\ RowMoves(i)
<1> DEFINE Good == rows' \in [Intents -> Row] /\ \A i \in Intents : RowOK(rows'[i]) /\ RowMoves(i)
<1>1. ASSUME rows' = rows PROVE Good
  BY <1>1 DEF CleanupInv, TypeOK, RowOK, RowMoves
<1>2. CASE Publisher
  <2>1. pub.upto \in Intents
    BY DEF CleanupInv, TypeOK, Publication, Intents
  <2>2. CASE Enqueue \/ EnqueueFails
    BY <1>1, <2>1, <2>2, StoredMoves DEF Enqueue, EnqueueFails
  <2>3. CASE ~(Enqueue \/ EnqueueFails)
    BY <1>1, <1>2, <2>3 DEF Publisher, Publish, Copy, CopyFails, Withdraw, WithdrawFails, PublisherCrash
  <2> QED BY <2>2, <2>3
<1>3. ASSUME NEW s \in Sweeps, SweepStep(s) PROVE Good
  <2>1. CASE Claim(s)
    BY <2>1, ClaimMoves
  <2>2. CASE Complete(s)
    <3>1. sweeps'[s] # sweeps[s]
      <4>1. sweeps'[s].pc # "completing" /\ sweeps[s].pc = "completing"
        BY <2>2 DEF Complete, GoesOn, Sweeping, CleanupInv, TypeOK, Sweep
      <4> QED BY <4>1
    <3> QED BY <1>1, <2>2, <3>1, SettledMoves DEF Complete
  <2>3. CASE Release(s)
    <3>1. sweeps'[s] # sweeps[s]
      <4>1. sweeps'[s].pc # "releasing" /\ sweeps[s].pc = "releasing"
        BY <2>3 DEF Release, GoesOn, Ends, Sweeping, CleanupInv, TypeOK, Sweep
      <4> QED BY <4>1
    <3> QED BY <1>1, <2>3, <3>1, SettledMoves DEF Release
  <2>4. CASE \/ \E i \in Intents : Choose(s, i)
            \/ Delete(s) \/ DeleteFails(s) \/ Finish(s) \/ SweepCrash(s)
    BY <1>1, <2>4 DEF Choose, Delete, DeleteFails, Finish, SweepCrash
  <2> QED BY <1>3, <2>1, <2>2, <2>3, <2>4 DEF SweepStep
<1>4. ASSUME NEW n \in Intents, FallsDue(n) PROVE Good
  <2>1. \A i \in Intents : RowOK(rows[i])
    BY DEF CleanupInv, TypeOK, RowOK
  <2>2. rows'[n] = [rows[n] EXCEPT !.due = TRUE] /\ \A i \in Intents \ {n} : rows'[i] = rows[i]
    BY <1>4 DEF FallsDue, CleanupInv, TypeOK
  <2>3. RowOK(rows'[n])
    BY <2>1, <2>2 DEF RowOK, Row
  <2>4. rows' \in [Intents -> Row]
    BY <1>4, <2>1, <2>2, <2>3 DEF FallsDue, RowOK, CleanupInv, TypeOK
  <2> QED BY <1>4, <2>1, <2>2, <2>3, <2>4 DEF RowMoves, FallsDue
<1>5. ASSUME NEW k \in Keys, Arrive(k) PROVE Good
  BY <1>1, <1>5 DEF Arrive
<1> QED BY <1>2, <1>3, <1>4, <1>5 DEF Next

-----------------------------------------------------------------------------
(* The public bucket *)

StoreOK == public \subseteq Keys /\ late \subseteq Keys /\ copied \subseteq Keys /\ after \in [Intents -> SUBSET Keys]

\* Whatever appears is noted for every intent that is stored, and no note is taken back.
Noted ==
    \A i \in Intents : rows[i].status # "none" => after[i] \subseteq after'[i] /\ public' \ public \subseteq after'[i]

LEMMA StoreStep ==
    ASSUME CleanupInv, Next
    PROVE  StoreOK' /\ Noted
<1> USE DEF StoreOK, Noted
<1> DEFINE Good == StoreOK' /\ Noted
<1>0. StoreOK
  BY DEF CleanupInv, TypeOK
<1>1. ASSUME store' = store PROVE Good
  BY <1>0, <1>1 DEF store
<1>2. ASSUME NEW k \in Keys, Appears(k) PROVE public' \subseteq Keys /\ after' \in [Intents -> SUBSET Keys] /\ Noted
  BY <1>0, <1>2 DEF Appears
<1>3. ASSUME NEW k \in Keys, Copies(k), late' = late PROVE Good
  BY <1>0, <1>2, <1>3 DEF Copies
<1>4. ASSUME NEW k \in Keys, Deletes(k) PROVE Good
  BY <1>0, <1>4 DEF Deletes
<1>5. ASSUME NEW n \in Intents, Stored(n), UNCHANGED <<public, late, copied>> PROVE Good
  BY <1>0, <1>5 DEF Stored
<1>6. CASE Publisher
  <2>1. pub.key \in Keys /\ pub.upto \in Intents
    BY DEF CleanupInv, TypeOK, Publication, Intents
  <2>2. ASSUME CopyInDoubt PROVE Good
    <3>1. CASE Copies(pub.key) /\ UNCHANGED late
      BY <1>3, <2>1, <3>1
    <3>2. CASE late' \in {late, late \cup {pub.key}} /\ UNCHANGED <<public, copied, after>>
      BY <1>0, <2>1, <3>2
    <3> QED BY <2>2, <3>1, <3>2 DEF CopyInDoubt
  <2>3. CASE Publish
    BY <1>0, <2>3 DEF Publish
  <2>4. CASE Copy
    BY <1>3, <2>1, <2>4 DEF Copy
  <2>5. CASE CopyFails
    BY <2>2, <2>5 DEF CopyFails
  <2>6. CASE Withdraw \/ WithdrawFails
    BY <1>1, <1>4, <2>1, <2>6 DEF Withdraw, WithdrawFails
  <2>7. CASE Enqueue \/ EnqueueFails
    BY <1>1, <1>5, <2>1, <2>7 DEF Enqueue, EnqueueFails, store
  <2>8. CASE PublisherCrash
    BY <1>1, <2>2, <2>8 DEF PublisherCrash
  <2> QED BY <1>6, <2>3, <2>4, <2>5, <2>6, <2>7, <2>8 DEF Publisher
<1>7. ASSUME NEW s \in Sweeps, SweepStep(s) PROVE Good
  <2>1. sweeps[s].key \in Keys
    BY DEF CleanupInv, TypeOK, Sweep
  <2> QED BY <1>1, <1>4, <1>7, <2>1
    DEF SweepStep, Claim, Choose, Delete, DeleteFails, Complete, Release, Finish, SweepCrash
<1>8. ASSUME NEW n \in Intents, FallsDue(n) PROVE Good
  BY <1>1, <1>8 DEF FallsDue
<1>9. ASSUME NEW k \in Keys, Arrive(k) PROVE Good
  BY <1>0, <1>2, <1>9 DEF Arrive
<1> QED BY <1>6, <1>7, <1>8, <1>9 DEF Next

-----------------------------------------------------------------------------
(* The publisher *)

LEMMA PublisherStep ==
    ASSUME CleanupInv, Next
    PROVE  pub' \in Publication /\ WithdrawalKnows' /\ WithdrawnIsClean'
<1> DEFINE Good == pub' \in Publication /\ WithdrawalKnows' /\ WithdrawnIsClean'
<1>0. /\ pub \in Publication /\ WithdrawalKnows /\ WithdrawnIsClean
      /\ pub.key \in 1..Artifacts /\ pub.upto \in 1..Artifacts /\ pub.runs \in 0..MaxPublications
      /\ copied \subseteq 1..Artifacts /\ Artifacts \in Nat \ {0} /\ MaxPublications \in Nat
  BY CleanupAssumption DEF CleanupInv, TypeOK, Publication, Keys
<1>a. 1 \in 1..Artifacts
  BY <1>0
<1>1. ASSUME pub' = pub, copied' \subseteq copied PROVE Good
  BY <1>0, <1>1 DEF WithdrawalKnows, WithdrawnIsClean
<1>2. ASSUME NEW k \in Keys, Deletes(k) PROVE copied' = copied \ {k}
  BY <1>2 DEF Deletes
<1>3. CASE Publisher
  <2>1. CASE Publish
    <3> DEFINE new == [pc |-> "copying", key |-> 1, upto |-> 1, answer |-> "none", runs |-> pub.runs + 1]
    <3>1. new \in Publication
      BY <1>0, <2>1 DEF Publish, Publication, Working, Answers, Keys
    <3> QED BY <2>1, <3>1 DEF Publish, WithdrawalKnows, WithdrawnIsClean
  <2>2. CASE Copy
    <3>1. copied' \subseteq copied \cup {pub.key}
      BY <2>2 DEF Copy, Copies
    <3>2. copied \subseteq 1..(pub.key - 1)
      BY <1>0, <2>2 DEF Copy, WithdrawalKnows
    <3>3. CASE pub.key = Artifacts
      <4>1. pub' = [pub EXCEPT !.pc = "published", !.key = 1]
        BY <2>2, <3>3 DEF Copy
      <4>2. pub' \in Publication /\ pub'.pc = "published"
        BY <1>0, <1>a, <4>1 DEF Publication, Told, Keys
      <4> QED BY <4>2 DEF WithdrawalKnows, WithdrawnIsClean
    <3>4. CASE pub.key # Artifacts
      <4>1. pub' = [pub EXCEPT !.key = pub.key + 1] /\ pub.pc = "copying"
        BY <2>2, <3>4 DEF Copy
      <4>2. pub' \in Publication /\ pub'.key = pub.key + 1 /\ pub'.pc = "copying"
        BY <1>0, <3>4, <4>1 DEF Publication, Keys
      <4>3. copied' \subseteq 1..pub.key
        BY <1>0, <3>1, <3>2
      <4> QED BY <1>0, <4>2, <4>3 DEF WithdrawalKnows, WithdrawnIsClean
    <3> QED BY <3>3, <3>4
  <2>3. CASE CopyFails
    <3>1. copied' \subseteq copied \cup {pub.key} /\ copied \subseteq 1..(pub.key - 1)
      BY <1>0, <2>3 DEF CopyFails, CopyInDoubt, Copies, WithdrawalKnows
    <3>2. pub' = [pub EXCEPT !.pc = "withdrawing", !.upto = pub.key, !.key = 1]
      BY <2>3 DEF CopyFails
    <3>3. pub' \in Publication /\ pub'.key = 1 /\ pub'.upto = pub.key /\ pub'.pc = "withdrawing"
      BY <1>0, <1>a, <3>2 DEF Publication, Keys, Working
    <3>4. copied' \subseteq 1..pub.key
      BY <1>0, <3>1
    <3>5. pub'.key <= pub'.upto
      BY <1>0, <3>3
    <3> QED BY <3>3, <3>4, <3>5 DEF WithdrawalKnows, WithdrawnIsClean
  <2>4. CASE Withdraw
    <3>1. copied' = copied \ {pub.key} /\ pub.key <= pub.upto /\ copied \subseteq pub.key..pub.upto
      BY <1>0, <1>2, <2>4 DEF Withdraw, WithdrawalKnows, Keys
    <3>2. CASE pub.key = pub.upto
      <4>1. pub' = [pub EXCEPT !.pc = "withdrawn", !.key = 1]
        BY <2>4, <3>2 DEF Withdraw
      <4>2. \A k \in copied : k = pub.key
        <5> SUFFICES ASSUME NEW k \in copied PROVE k = pub.key
          OBVIOUS
        <5>1. k \in pub.key..pub.upto /\ k \in Nat
          BY <1>0, <3>1
        <5> QED BY <1>0, <3>2, <5>1
      <4>3. copied' = {}
        BY <3>1, <4>2
      <4>4. pub' \in Publication /\ pub'.pc = "withdrawn"
        BY <1>0, <1>a, <4>1 DEF Publication, Told, Keys
      <4> QED BY <4>3, <4>4 DEF WithdrawalKnows, WithdrawnIsClean
    <3>3. CASE pub.key # pub.upto
      <4>1. pub' = [pub EXCEPT !.key = pub.key + 1] /\ pub.pc = "withdrawing"
        BY <2>4, <3>3 DEF Withdraw
      <4>2. pub' \in Publication /\ pub'.key = pub.key + 1 /\ pub'.upto = pub.upto /\ pub'.pc = "withdrawing"
        BY <1>0, <3>1, <3>3, <4>1 DEF Publication, Keys
      <4>3. copied' \subseteq (pub.key + 1)..pub.upto
        <5> SUFFICES ASSUME NEW k \in copied' PROVE k \in (pub.key + 1)..pub.upto
          OBVIOUS
        <5>1. k \in pub.key..pub.upto /\ k # pub.key /\ k \in Nat
          BY <1>0, <3>1
        <5> QED BY <1>0, <5>1
      <4>4. pub'.key <= pub'.upto
        BY <1>0, <3>1, <3>3, <4>2
      <4> QED BY <4>2, <4>3, <4>4 DEF WithdrawalKnows, WithdrawnIsClean
    <3> QED BY <3>2, <3>3
  <2>5. CASE WithdrawFails \/ EnqueueFails \/ PublisherCrash
    <3>1. PICK pc \in {"enqueuing", "unrecorded", "crashed"}, key \in {1, pub.key}, upto \in {1, pub.upto} :
            pub' = [pub EXCEPT !.pc = pc, !.key = key, !.upto = upto]
      BY <1>0, <2>5, ZenonT(40) DEF WithdrawFails, EnqueueFails, PublisherCrash, Publication
    <3>2. key \in Keys /\ upto \in Keys
      BY <1>0, <1>a DEF Keys
    <3>3. pub' \in Publication /\ pub'.pc = pc
      BY <1>0, <3>1, <3>2 DEF Publication, Working, Told
    <3> QED BY <3>3 DEF WithdrawalKnows, WithdrawnIsClean
  <2>6. CASE Enqueue
    <3>1. Answer(pub.upto) \in Answers
      <4>1. rows[pub.upto].status \in Statuses
        BY <1>0 DEF CleanupInv, TypeOK, Row, Intents, Keys
      <4> QED BY <4>1 DEF Answer, Answers, Statuses, Open
    <3> HIDE DEF Answer
    <3>2. pub' = [pub EXCEPT !.pc = "reconciliation_required", !.upto = 1, !.answer = Answer(pub.upto)]
      BY <2>6 DEF Enqueue
    <3>3. pub' \in Publication /\ pub'.pc = "reconciliation_required"
      BY <1>0, <1>a, <3>1, <3>2 DEF Publication, Told, Keys
    <3> QED BY <3>3 DEF WithdrawalKnows, WithdrawnIsClean
  <2> QED BY <1>3, <2>1, <2>2, <2>3, <2>4, <2>5, <2>6 DEF Publisher
<1>4. ASSUME NEW s \in Sweeps, SweepStep(s) PROVE Good
  <2>1. sweeps[s].key \in Keys
    BY DEF CleanupInv, TypeOK, Sweep
  <2>2. pub' = pub /\ copied' \subseteq copied
    BY <1>2, <1>4, <2>1
    DEF SweepStep, Claim, Choose, Delete, DeleteFails, Complete, Release, Finish, SweepCrash, store
  <2> QED BY <1>1, <2>2
<1>5. ASSUME NEW n \in Intents, FallsDue(n) PROVE Good
  BY <1>1, <1>5 DEF FallsDue, store
<1>6. ASSUME NEW k \in Keys, Arrive(k) PROVE Good
  BY <1>1, <1>6 DEF Arrive
<1> QED BY <1>3, <1>4, <1>5, <1>6 DEF Next
-----------------------------------------------------------------------------
(* The sweeps *)

\* What one sweep does to its own record, given what became of the public bucket.
SweepMoves(s) ==
    LET w == sweeps[s] IN
    \/ sweeps'[s] = w
    \/ sweeps'[s] = Sweeping("choosing", {i \in Intents : Claimable(i)})
    \/ sweeps'[s] = Sweeping("choosing", w.batch)
    \/ sweeps'[s] = Sweeping("idle", {})
    \/ \E i \in w.batch : sweeps'[s] = [pc |-> "deleting", batch |-> w.batch \ {i}, intent |-> i, key |-> 1]
    \/ w.pc = "deleting" /\ sweeps'[s] = [w EXCEPT !.pc = "releasing", !.key = 1]
    \/ w.pc = "completing" /\ sweeps'[s] = [w EXCEPT !.pc = "releasing"]
    \/ /\ w.pc = "deleting" /\ w.key \notin public'
       /\ \/ w.key = w.intent /\ sweeps'[s] = [w EXCEPT !.pc = "completing", !.key = 1]
          \/ w.key # w.intent /\ sweeps'[s] = [w EXCEPT !.key = w.key + 1]

LEMMA SweepsMove ==
    ASSUME CleanupInv, Next
    PROVE  sweeps' = [s \in Sweeps |-> sweeps'[s]] /\ \A s \in Sweeps : SweepMoves(s)
<1>0. sweeps \in [Sweeps -> Sweep] /\ pub \in Publication
  BY DEF CleanupInv, TypeOK
<1> DEFINE Good == sweeps' = [s \in Sweeps |-> sweeps'[s]] /\ \A s \in Sweeps : SweepMoves(s)
<1>1. ASSUME sweeps' = sweeps PROVE Good
  BY <1>0, <1>1 DEF SweepMoves
<1>2. CASE Publisher
  BY <1>1, <1>2 DEF Publisher, Publish, Copy, CopyFails, Withdraw, WithdrawFails, Enqueue, EnqueueFails, PublisherCrash
<1>3. ASSUME NEW s \in Sweeps, SweepStep(s) PROVE Good
  <2> DEFINE w == sweeps[s]
  <2>1. ASSUME NEW new, sweeps' = [sweeps EXCEPT ![s] = new] PROVE (SweepMoves(s) => Good) /\ sweeps'[s] = new
    BY <1>0, <2>1 DEF SweepMoves
  <2>2. CASE Claim(s) \/ Finish(s) \/ SweepCrash(s) \/ Release(s)
    BY <2>1, <2>2 DEF Claim, Finish, SweepCrash, Release, GoesOn, Ends, SweepMoves
  <2>3. CASE \E i \in Intents : Choose(s, i)
    BY <2>1, <2>3 DEF Choose, SweepMoves
  <2>4. CASE Complete(s)
    BY <2>1, <2>4 DEF Complete, GoesOn, SweepMoves
  <2>5. CASE DeleteFails(s)
    <3>1. w.pc = "deleting" /\ sweeps' = [sweeps EXCEPT ![s] = [w EXCEPT !.pc = "releasing", !.key = 1]]
      BY <1>0, <2>5 DEF DeleteFails
    <3> QED BY <2>1, <3>1 DEF SweepMoves
  <2>6. CASE Delete(s)
    <3>1. w.pc = "deleting" /\ w.key \notin public'
      BY <2>6 DEF Delete, Deletes
    <3>2. CASE w.key = w.intent
      <4>1. sweeps' = [sweeps EXCEPT ![s] = [w EXCEPT !.pc = "completing", !.key = 1]]
        BY <1>0, <2>6, <3>2 DEF Delete
      <4> QED BY <2>1, <3>1, <3>2, <4>1 DEF SweepMoves
    <3>3. CASE w.key # w.intent
      <4>1. sweeps' = [sweeps EXCEPT ![s] = [w EXCEPT !.key = w.key + 1]]
        BY <1>0, <2>6, <3>3 DEF Delete
      <4> QED BY <2>1, <3>1, <3>3, <4>1 DEF SweepMoves
    <3> QED BY <3>2, <3>3
  <2> QED BY <1>3, <2>2, <2>3, <2>4, <2>5, <2>6 DEF SweepStep
<1>4. ASSUME NEW n \in Intents, FallsDue(n) PROVE Good
  BY <1>1, <1>4 DEF FallsDue
<1>5. ASSUME NEW k \in Keys, Arrive(k) PROVE Good
  BY <1>1, <1>5 DEF Arrive
<1> QED BY <1>2, <1>3, <1>4, <1>5 DEF Next

\* A row that is stored stays stored.
LEMMA RowsStay ==
    ASSUME CleanupInv, Next, NEW i \in Intents, rows[i].status # "none"
    PROVE  rows'[i].status # "none"
<1>1. RowMoves(i) /\ rows[i] \in Row
  BY RowStep DEF CleanupInv, TypeOK
<1>2. rows'[i] = [rows[i] EXCEPT !.due = TRUE] => rows'[i].status = rows[i].status
  BY <1>1 DEF Row
<1> QED BY <1>1, <1>2 DEF RowMoves

LEMMA SweepsKnow ==
    ASSUME CleanupInv, Next
    PROVE  sweeps' \in [Sweeps -> Sweep] /\ \A s \in Sweeps : SweepKnows(s)'
<1>1. /\ sweeps' = [s \in Sweeps |-> sweeps'[s]]
      /\ \A s \in Sweeps : SweepMoves(s)
      /\ sweeps \in [Sweeps -> Sweep]
      /\ \A s \in Sweeps : SweepKnows(s)
      /\ public \subseteq Keys /\ public' \subseteq Keys
  BY SweepsMove, StoreStep DEF StoreOK, CleanupInv, TypeOK
<1>2. \A i \in Intents : rows[i].status # "none" => rows'[i].status # "none"
  BY RowsStay
<1>3. \A i \in Intents : rows[i].status # "none" =>
        \A k \in public' : (k \in public => k \in after[i]) => k \in after'[i]
  BY StoreStep DEF Noted
<1>4. Keys = 1..Artifacts /\ Intents = 1..Artifacts /\ Artifacts \in Nat \ {0} /\ 1 \in Keys
  BY CleanupAssumption DEF Keys, Intents
<1>5. ASSUME NEW s \in Sweeps PROVE sweeps'[s] \in Sweep /\ SweepKnows(s)'
  <2> DEFINE w == sweeps[s]
  <2>1. /\ w \in Sweep /\ w.batch \subseteq Intents /\ w.intent \in 1..Artifacts /\ w.key \in 1..Artifacts
        /\ SweepKnows(s)
    BY <1>1, <1>4 DEF Sweep
  <2>2. CASE sweeps'[s] = w
    BY <1>1, <1>2, <1>3, <1>4, <2>1, <2>2 DEF SweepKnows
  <2>3. ASSUME NEW pc \in {"idle", "choosing"}, NEW batch \in SUBSET Intents,
               \A i \in batch : rows[i].status # "none", sweeps'[s] = Sweeping(pc, batch)
        PROVE  sweeps'[s] \in Sweep /\ SweepKnows(s)'
    <3>1. /\ sweeps'[s] \in Sweep /\ sweeps'[s].batch = batch
          /\ sweeps'[s].pc \notin {"deleting", "completing", "releasing"}
      BY <1>4, <2>3 DEF Sweeping, Sweep
    <3> QED BY <1>2, <2>3, <3>1 DEF SweepKnows
  <2>4. CASE \/ sweeps'[s] = Sweeping("choosing", {i \in Intents : Claimable(i)})
             \/ sweeps'[s] = Sweeping("choosing", w.batch)
             \/ sweeps'[s] = Sweeping("idle", {})
    BY <2>1, <2>3, <2>4 DEF Claimable, Open, SweepKnows
  <2>5. ASSUME NEW i \in w.batch,
               sweeps'[s] = [pc |-> "deleting", batch |-> w.batch \ {i}, intent |-> i, key |-> 1]
        PROVE  sweeps'[s] \in Sweep /\ SweepKnows(s)'
    <3>1. /\ sweeps'[s].pc = "deleting" /\ sweeps'[s].batch = w.batch \ {i}
          /\ sweeps'[s].intent = i /\ sweeps'[s].key = 1
      BY <2>5
    <3>2. sweeps'[s] \in Sweep
      BY <1>4, <2>1, <2>5 DEF Sweep
    <3>3. (\A j \in w.batch : rows'[j].status # "none") /\ i \in Intents
      BY <1>2, <2>1 DEF SweepKnows
    <3>4. 1 <= i /\ \A k \in public' : ~(k < 1)
      BY <1>1, <1>4, <3>3
    <3> QED BY <3>1, <3>2, <3>3, <3>4 DEF SweepKnows
  <2>6. CASE \/ w.pc = "deleting" /\ sweeps'[s] = [w EXCEPT !.pc = "releasing", !.key = 1]
             \/ w.pc = "completing" /\ sweeps'[s] = [w EXCEPT !.pc = "releasing"]
    <3>1. /\ sweeps'[s] \in Sweep /\ sweeps'[s].pc = "releasing"
          /\ sweeps'[s].batch = w.batch /\ sweeps'[s].intent = w.intent
      BY <1>4, <2>1, <2>6 DEF Sweep
    <3> QED BY <1>2, <1>4, <2>1, <2>6, <3>1 DEF SweepKnows
  <2>7. CASE w.pc = "deleting" /\ w.key \notin public' /\ w.key = w.intent
             /\ sweeps'[s] = [w EXCEPT !.pc = "completing", !.key = 1]
    <3>1. /\ sweeps'[s] \in Sweep /\ sweeps'[s].pc = "completing"
          /\ sweeps'[s].batch = w.batch /\ sweeps'[s].intent = w.intent
      BY <1>4, <2>1, <2>7 DEF Sweep
    <3>2. rows[w.intent].status # "none" /\ \A k \in public : k < w.intent => k \in after[w.intent]
      BY <2>1, <2>7 DEF SweepKnows
    <3>3. \A k \in public' : k <= w.intent => k < w.intent
      BY <1>1, <1>4, <2>1, <2>7
    <3>4. \A k \in public' : k <= w.intent => k \in after'[w.intent]
      BY <1>3, <1>4, <2>1, <3>2, <3>3
    <3> QED BY <1>2, <1>4, <2>1, <3>1, <3>2, <3>4 DEF SweepKnows
  <2>8. CASE w.pc = "deleting" /\ w.key \notin public' /\ w.key # w.intent
             /\ sweeps'[s] = [w EXCEPT !.key = w.key + 1]
    <3>1. w.key <= w.intent /\ rows[w.intent].status # "none"
          /\ \A k \in public : k < w.key => k \in after[w.intent]
      BY <2>1, <2>8 DEF SweepKnows
    <3>2. w.key + 1 <= w.intent /\ w.key + 1 \in 1..Artifacts
      BY <1>4, <2>1, <2>8, <3>1
    <3>3. /\ sweeps'[s] \in Sweep /\ sweeps'[s].pc = "deleting"
          /\ sweeps'[s].batch = w.batch /\ sweeps'[s].intent = w.intent /\ sweeps'[s].key = w.key + 1
      BY <1>4, <2>1, <2>8, <3>2 DEF Sweep
    <3>4. \A k \in public' : k < w.key + 1 => k < w.key
      BY <1>1, <1>4, <2>1, <2>8
    <3>5. \A k \in public' : k < w.key + 1 => k \in after'[w.intent]
      BY <1>3, <1>4, <2>1, <3>1, <3>4
    <3> QED BY <1>2, <1>4, <2>1, <3>1, <3>2, <3>3, <3>5 DEF SweepKnows
  <2> QED BY <1>1, <2>2, <2>4, <2>5, <2>6, <2>7, <2>8 DEF SweepMoves
<1>6. sweeps' \in [Sweeps -> Sweep]
  BY <1>1, <1>5
<1> QED BY <1>5, <1>6

-----------------------------------------------------------------------------
(* The invariant *)

LEMMA CompletedStep ==
    ASSUME CleanupInv, Next
    PROVE  CompletedWasCleared'
<1> SUFFICES ASSUME NEW i \in Intents, rows'[i].status = "completed", NEW k \in public', k \in 1..i
             PROVE  k \in after'[i]
  BY DEF CompletedWasCleared
<1>1. RowMoves(i) /\ Noted
  BY RowStep, StoreStep
<1>2. CASE rows'[i] = rows[i]
  <2>1. rows[i].status = "completed"
    BY <1>2
  <2>2. k \in public => k \in after[i]
    BY <2>1 DEF CleanupInv, CompletedWasCleared
  <2> QED BY <1>1, <2>1, <2>2 DEF Noted
<1>3. ASSUME NEW s \in Sweeps, rows[i].status = "reconciling", sweeps[s].intent = i,
             sweeps[s].pc = "completing"
      PROVE  k \in after'[i]
  <2>1. k \in public => k \in after[i]
    BY <1>3 DEF CleanupInv, SweepKnows, Intents, Keys
  <2> QED BY <1>1, <1>3, <2>1 DEF Noted
<1>4. rows'[i] = [rows[i] EXCEPT !.due = TRUE] => rows[i].status = "completed"
  BY DEF CleanupInv, TypeOK, Row
<1> QED BY <1>1, <1>2, <1>3, <1>4 DEF RowMoves, Open

LEMMA TriesStep ==
    ASSUME CleanupInv, Next
    PROVE  TriesAreUsed'
<1> SUFFICES ASSUME NEW i \in Intents
             PROVE  /\ rows'[i].status = "dead_lettered" => rows'[i].attempts = MaxAttempts
                    /\ rows'[i].status = "pending" => rows'[i].attempts < MaxAttempts
                    /\ rows'[i].status = "reconciling" => rows'[i].attempts > 0
  BY DEF TriesAreUsed
<1>1. /\ RowMoves(i) /\ rows[i] \in Row /\ rows'[i] \in Row
      /\ rows[i].attempts \in 0..MaxAttempts /\ rows'[i].attempts \in 0..MaxAttempts
      /\ MaxAttempts \in Nat \ {0}
  BY RowStep, CleanupAssumption DEF RowOK, CleanupInv, TypeOK, Row
<1>2. /\ rows[i].status = "dead_lettered" => rows[i].attempts = MaxAttempts
      /\ rows[i].status = "pending" => rows[i].attempts < MaxAttempts
      /\ rows[i].status = "reconciling" => rows[i].attempts > 0
  BY DEF CleanupInv, TriesAreUsed
<1>3. CASE rows'[i] = [rows[i] EXCEPT !.due = TRUE]
  <2>1. rows'[i].status = rows[i].status /\ rows'[i].attempts = rows[i].attempts
    BY <1>1, <1>3 DEF Row
  <2> QED BY <1>2, <2>1
<1> QED BY <1>1, <1>2, <1>3 DEF RowMoves

LEMMA CleanupNext == CleanupInv /\ [Next]_vars => CleanupInv'
<1> SUFFICES ASSUME CleanupInv, [Next]_vars PROVE CleanupInv'
  OBVIOUS
<1>1. CASE Next
  <2>1. TypeOK'
    BY <1>1, RowStep, StoreStep, PublisherStep, SweepsKnow DEF TypeOK, RowOK, StoreOK
  <2> QED BY <1>1, <2>1, PublisherStep, SweepsKnow, CompletedStep, TriesStep DEF CleanupInv
<1>2. CASE UNCHANGED vars
  BY <1>2 DEF vars, CleanupInv, TypeOK, WithdrawalKnows, SweepKnows, CompletedWasCleared,
     WithdrawnIsClean, TriesAreUsed
<1> QED BY <1>1, <1>2

\* The invariant holds throughout.
THEOREM CleanupAlways == Spec => []CleanupInv
<1> QED BY CleanupInit, CleanupNext, PTL DEF Spec

\* Rows and sweeps are typed; a row has an owner exactly while it is leased.
THEOREM CleanupTyped == Spec => []TypeOK
<1>1. CleanupInv => TypeOK
  BY DEF CleanupInv
<1> QED BY <1>1, CleanupAlways, PTL

\* A completed intent has no object in the public bucket but those that appeared after it was stored.
THEOREM CompletionClears == Spec => []CompletedWasCleared
<1>1. CleanupInv => CompletedWasCleared
  BY DEF CleanupInv
<1> QED BY <1>1, CleanupAlways, PTL

\* A publication that is withdrawn at once leaves nothing of what it copied.
THEOREM WithdrawalCleans == Spec => []WithdrawnIsClean
<1>1. CleanupInv => WithdrawnIsClean
  BY DEF CleanupInv
<1> QED BY <1>1, CleanupAlways, PTL

\* No intent is given up early, and none waits for an attempt it does not have.
THEOREM EveryTryIsUsed == Spec => []TriesAreUsed
<1>1. CleanupInv => TriesAreUsed
  BY DEF CleanupInv
<1> QED BY <1>1, CleanupAlways, PTL

\* A lease that runs is changed by nobody but its owner.
THEOREM LeasesFence == Spec => LeaseIsFence
<1> DEFINE Fenced == \A i \in Intents :
        rows[i].status = "reconciling" /\ ~rows[i].due
            => \/ rows'[i] \in {rows[i], [rows[i] EXCEPT !.due = TRUE]}
               \/ \E s \in Sweeps : rows[i].owner = s /\ sweeps'[s] # sweeps[s]
<1>1. CleanupInv /\ [Next]_vars => [Fenced]_vars
  BY RowStep, ZenonT(40) DEF RowMoves
<1> QED BY <1>1, CleanupAlways, PTL DEF Spec, LeaseIsFence

\* An intent that is completed or given up stays as it is.
THEOREM ClosedForGood == Spec => ClosedStays
<1> DEFINE Closed == \A i \in Intents :
        rows[i].status \in {"completed", "dead_lettered"} => rows'[i] = rows[i]
<1>1. CleanupInv /\ [Next]_vars => [Closed]_vars
  BY RowStep DEF RowMoves, Open
<1> QED BY <1>1, CleanupAlways, PTL DEF Spec, ClosedStays
=============================================================================

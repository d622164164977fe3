----------------------------- MODULE HomeProofs -----------------------------
(***************************************************************************)
(* What HomeReports keeps, for any number of homes, workspaces, requests   *)
(* and calls, any limits and any length of the clock.                      *)
(***************************************************************************)
EXTENDS HomeReports, FiniteSetTheorems, TLAPS

\* A call at work has a request.
ActiveHasId == \A c \in Calls : call[c].pc # "idle" => call[c].id \in Ids

\* A home that is not there has no schedule.
GoneIsBlank ==
    \A h \in Homes : ~homes[h].there => homes[h].due = 0 /\ ~homes[h].monthly /\ ~homes[h].paused

\* The types alone are not inductive: the scheduler's request is made of the date of a schedule
\* that is on, so that date must be there.
TypeInv == TypeOK /\ OnHasDate /\ ActiveHasId /\ GoneIsBlank

\* A request and a date of a home belong to that home.
LEMMA IdFacts ==
    /\ \A i \in Ids : House(i) \in Homes
    /\ \A h \in Homes, d \in 1..MaxMonth : <<h, d>> \in Ids
<1>1. ASSUME NEW i \in Ids PROVE House(i) \in Homes
  <2>1. CASE i \in Requests
    BY <2>1, RequestsAssumption DEF House
  <2>2. CASE i \notin Requests
    <3>1. i \in Homes \X (1..MaxMonth)
      BY <2>2 DEF Ids
    <3> QED
      BY <2>2, <3>1 DEF House
  <2> QED
    BY <2>1, <2>2
<1>2. ASSUME NEW h \in Homes, NEW d \in 1..MaxMonth PROVE <<h, d>> \in Ids
  BY DEF Ids
<1> QED
  BY <1>1, <1>2

\* What moving a call to another step leaves of it.
LEMMA GoesFacts ==
    ASSUME call \in [Calls -> Call], NEW c \in Calls, NEW pc \in Steps, Goes(c, pc)
    PROVE  /\ call' \in [Calls -> Call]
           /\ call'[c].pc = pc /\ call'[c].id = call[c].id
           /\ call'[c].run = call[c].run /\ call'[c].due = call[c].due
           /\ \A d \in Calls : d # c => call'[d] = call[d]
BY DEF Goes, Call

\* None is not needed as anything else, and an idle call is well formed.
LEMMA EndsFacts ==
    ASSUME call \in [Calls -> Call], NEW c \in Calls, Ends(c)
    PROVE  /\ call' \in [Calls -> Call]
           /\ call'[c].pc = "idle"
           /\ \A d \in Calls : d # c => call'[d] = call[d]
<1>1. Idle \in Call /\ Idle.pc = "idle"
  BY LimitsAssumption DEF Idle, New, Call, Steps
<1> QED
  BY <1>1 DEF Ends

LEMMA FailsFacts ==
    ASSUME call \in [Calls -> Call], NEW c \in Calls, NEW unsure \in BOOLEAN, Fails(c, unsure)
    PROVE  /\ call' \in [Calls -> Call]
           /\ call'[c].pc = "fail" /\ call'[c].id = call[c].id
           /\ call'[c].run = call[c].run /\ call'[c].due = call[c].due
           /\ \A d \in Calls : d # c => call'[d] = call[d]
<1> DEFINE mid == [call EXCEPT ![c].pc = "fail"]
<1>1. /\ mid \in [Calls -> Call]
      /\ mid[c].pc = "fail" /\ mid[c].id = call[c].id
      /\ mid[c].run = call[c].run /\ mid[c].due = call[c].due
      /\ \A d \in Calls : d # c => mid[d] = call[d]
  BY DEF Call, Steps
<1>2. call' = [mid EXCEPT ![c].unsure = unsure]
  BY DEF Fails
<1> HIDE DEF mid
<1> QED
  BY <1>1, <1>2 DEF Call

LEMMA ThrowsFacts ==
    ASSUME call \in [Calls -> Call], NEW c \in Calls, Throws(c)
    PROVE  /\ call' \in [Calls -> Call]
           /\ call'[c].pc = "idle" \/ (call[c].run /\ call'[c].pc = "pausing")
           /\ call'[c].pc # "idle" =>
                call'[c].id = call[c].id /\ call'[c].due = call[c].due /\ call'[c].run = call[c].run
           /\ \A d \in Calls : d # c => call'[d] = call[d]
<1>1. CASE call[c].run
  <2>1. Goes(c, "pausing") /\ "pausing" \in Steps
    BY <1>1 DEF Throws, Steps
  <2> QED
    BY <1>1, <2>1, GoesFacts
<1>2. CASE ~call[c].run
  BY <1>2, EndsFacts DEF Throws
<1> QED
  BY <1>1, <1>2

LEMMA SucceedsFacts ==
    ASSUME call \in [Calls -> Call], NEW c \in Calls, NEW pc \in Steps, Succeeds(c, pc)
    PROVE  /\ call' \in [Calls -> Call]
           /\ call'[c].pc = "idle" \/ (call[c].run /\ call'[c].pc = pc)
           /\ call'[c].pc # "idle" =>
                call'[c].id = call[c].id /\ call'[c].due = call[c].due /\ call'[c].run = call[c].run
           /\ \A d \in Calls : d # c => call'[d] = call[d]
<1>1. CASE call[c].run
  BY <1>1, GoesFacts DEF Succeeds
<1>2. CASE ~call[c].run
  BY <1>2, EndsFacts DEF Succeeds
<1> QED
  BY <1>1, <1>2

-----------------------------------------------------------------------------
(* Types *)

\* The steps of a call that change no home keep the types if they keep the rows they touch typed.
LEMMA CallMoves ==
    ASSUME TypeInv, NEW c \in Calls, UNCHANGED homes,
           call' \in [Calls -> Call],
           call'[c].pc # "idle" => call'[c].id \in Ids,
           \A d \in Calls : d # c => call'[d] = call[d]
    PROVE  ActiveHasId' /\ OnHasDate' /\ GoneIsBlank'
BY DEF TypeInv, ActiveHasId, OnHasDate, GoneIsBlank

LEMMA ControlKeepsCalls ==
    ASSUME TypeInv, UNCHANGED call
    PROVE  ActiveHasId' /\ call' \in [Calls -> Call]
BY DEF TypeInv, TypeOK, ActiveHasId

\* A call that begins, or the scheduler's that begins anew, is well formed.
LEMMA NewTyped ==
    ASSUME NEW i \in Ids, NEW pc \in Steps, NEW run \in BOOLEAN, NEW due \in 0..MaxMonth
    PROVE  New(pc, i, run, due) \in Call /\ New(pc, i, run, due).id = i
BY DEF New, Call

LEMMA StepNames ==
    /\ {"reserve", "claimed", "handoff", "pausing", "estimate", "complete", "fail", "made"} \subseteq Steps
    /\ {"share", "send", "sent", "block", "doubt", "advance"} \subseteq Steps
    /\ 0 \in 0..MaxMonth
BY LimitsAssumption DEF Steps

LEMMA AskTyped == ASSUME TypeInv, NEW c \in Calls, NEW r \in Requests, Ask(c, r) PROVE TypeInv'
<1>1. New("reserve", r, FALSE, 0) \in Call /\ New("reserve", r, FALSE, 0).id \in Ids
  BY NewTyped, StepNames DEF Ids
<1>2. /\ call' \in [Calls -> Call] /\ call'[c].id \in Ids
      /\ \A d \in Calls : d # c => call'[d] = call[d]
  BY <1>1 DEF Ask, TypeInv, TypeOK
<1> QED
  BY <1>2, CallMoves DEF Ask, rows, TypeInv, TypeOK

LEMMA ClaimTyped == ASSUME TypeInv, NEW c \in Calls, NEW h \in Homes, Claim(c, h) PROVE TypeInv'
<1> DEFINE new == New("claimed", <<h, homes[h].due>>, TRUE, homes[h].due)
<1>1. homes[h].due \in 1..MaxMonth
  BY LimitsAssumption DEF Claim, TypeInv, TypeOK, Home, OnHasDate
<1>2. <<h, homes[h].due>> \in Ids
  BY <1>1, IdFacts
<1>3. new \in Call /\ new.id \in Ids
  BY <1>1, <1>2, StepNames DEF New, Call
<1>4. /\ call' \in [Calls -> Call] /\ call'[c].id \in Ids
      /\ \A d \in Calls : d # c => call'[d] = call[d]
  BY <1>3 DEF Claim, TypeInv, TypeOK
<1>5. homes' \in [Homes -> Home] /\ OnHasDate' /\ GoneIsBlank'
  BY ZenonT(40) DEF Claim, TypeInv, TypeOK, Home, OnHasDate, GoneIsBlank
<1> QED
  BY <1>4, <1>5 DEF Claim, TypeInv, TypeOK, ActiveHasId

LEMMA DeliverTyped == ASSUME TypeInv, NEW c \in Calls, NEW i \in Ids, Deliver(c, i) PROVE TypeInv'
<1>1. New("handoff", i, FALSE, 0) \in Call /\ New("handoff", i, FALSE, 0).id \in Ids
  BY NewTyped, StepNames
<1>2. /\ call' \in [Calls -> Call] /\ call'[c].id \in Ids
      /\ \A d \in Calls : d # c => call'[d] = call[d]
  BY <1>1 DEF Deliver, TypeInv, TypeOK
<1> QED
  BY <1>2, CallMoves DEF Deliver, rows, TypeInv, TypeOK

LEMMA RereadTyped == ASSUME TypeInv, NEW c \in Calls, Reread(c) PROVE TypeInv'
<1> DEFINE h == House(call[c].id)
           new(pc) == New(pc, <<h, homes[h].due>>, TRUE, homes[h].due)
<1>1. call[c].id \in Ids /\ h \in Homes
  BY IdFacts DEF Reread, At, TypeInv, ActiveHasId
<1>2. /\ call' \in [Calls -> Call]
      /\ call'[c].pc # "idle" => call'[c].id \in Ids
      /\ \A d \in Calls : d # c => call'[d] = call[d]
  <2>1. CASE Ends(c)
    BY <2>1, EndsFacts DEF TypeInv, TypeOK
  <2>2. ASSUME homes[h].there /\ homes[h].monthly /\ ~homes[h].paused /\ homes[h].due <= month,
               NEW pc \in {"reserve", "pausing"},
               call' = [call EXCEPT ![c] = new(pc)]
        PROVE  <1>2!1 /\ <1>2!2 /\ <1>2!3
    <3>1. homes[h].due \in 1..MaxMonth
      BY <1>1, <2>2, LimitsAssumption DEF TypeInv, TypeOK, Home, OnHasDate
    <3>2. <<h, homes[h].due>> \in Ids
      BY <1>1, <3>1, IdFacts
    <3>3. new(pc) \in Call /\ new(pc).id \in Ids
      BY <3>1, <3>2, StepNames DEF New, Call
    <3> HIDE DEF h, new
    <3> QED
      BY <2>2, <3>3 DEF TypeInv, TypeOK
  <2> QED
    BY <2>1, <2>2 DEF Reread
<1> QED
  BY <1>2, CallMoves DEF Reread, rows, TypeInv, TypeOK

LEMMA SettledTyped ==
    /\ \A status \in {"none", "pending", "ready", "failed", "uncertain"} : Settled(status) \in Lookups
    /\ \A status \in {"none", "pending", "sent", "blocked", "uncertain", "reviewed"} :
         Settled(status) \in Deliveries
BY DEF Settled, Lookups, Deliveries

\* A step of a call at work keeps its request or ends it.
LEMMA Works ==
    ASSUME TypeInv, NEW c \in Calls, ~At(c, "idle"), UNCHANGED homes,
           call' \in [Calls -> Call],
           call'[c].pc # "idle" => call'[c].id = call[c].id,
           \A d \in Calls : d # c => call'[d] = call[d]
    PROVE  ActiveHasId' /\ OnHasDate' /\ GoneIsBlank' /\ call[c].id \in Ids
<1>1. call[c].id \in Ids
  BY DEF TypeInv, ActiveHasId, At
<1> QED
  BY <1>1, CallMoves

LEMMA EstimateTyped == ASSUME TypeInv, NEW c \in Calls, Estimate(c) PROVE TypeInv'
<1>1. /\ call' \in [Calls -> Call] /\ call'[c].id = call[c].id
      /\ \A d \in Calls : d # c => call'[d] = call[d]
  BY GoesFacts, FailsFacts, StepNames DEF Estimate, TypeInv, TypeOK
<1>2. ActiveHasId' /\ OnHasDate' /\ GoneIsBlank' /\ call[c].id \in Ids
  BY <1>1, Works DEF Estimate, At, rows
<1>3. history' \in [billed : [Ids -> Nat], handed : [Ids -> Nat], lives : [Ids -> Nat], spent : SUBSET Ids]
  BY <1>2 DEF Estimate, TypeInv, TypeOK
<1> QED
  BY <1>1, <1>2, <1>3 DEF Estimate, rows, TypeInv, TypeOK

LEMMA CompleteTyped == ASSUME TypeInv, NEW c \in Calls, Complete(c) PROVE TypeInv'
<1>1. /\ call' \in [Calls -> Call]
      /\ call'[c].pc # "idle" => call'[c].id = call[c].id
      /\ \A d \in Calls : d # c => call'[d] = call[d]
  BY SucceedsFacts, FailsFacts, StepNames DEF Complete, TypeInv, TypeOK
<1>2. ActiveHasId' /\ OnHasDate' /\ GoneIsBlank' /\ call[c].id \in Ids
  BY <1>1, Works DEF Complete, At
<1>3. lookup' \in [Ids -> Lookups]
  BY <1>2, SettledTyped DEF Complete, TypeInv, TypeOK
<1> QED
  BY <1>1, <1>2, <1>3 DEF Complete, TypeInv, TypeOK

LEMMA FailTyped == ASSUME TypeInv, NEW c \in Calls, Fail(c) PROVE TypeInv'
<1>1. /\ call' \in [Calls -> Call]
      /\ call'[c].pc # "idle" => call'[c].id = call[c].id
      /\ \A d \in Calls : d # c => call'[d] = call[d]
  BY ThrowsFacts DEF Fail, TypeInv, TypeOK
<1>2. ActiveHasId' /\ OnHasDate' /\ GoneIsBlank' /\ call[c].id \in Ids
  BY <1>1, Works DEF Fail, At
<1>3. lookup' \in [Ids -> Lookups]
  BY <1>2, SettledTyped DEF Fail, TypeInv, TypeOK
<1> QED
  BY <1>1, <1>2, <1>3 DEF Fail, TypeInv, TypeOK

LEMMA DecideTyped == ASSUME TypeInv, NEW c \in Calls, Decide(c) PROVE TypeInv'
<1>1. /\ call' \in [Calls -> Call] /\ call'[c].id = call[c].id
      /\ \A d \in Calls : d # c => call'[d] = call[d]
  BY GoesFacts, StepNames DEF Decide, TypeInv, TypeOK
<1>2. ActiveHasId' /\ OnHasDate' /\ GoneIsBlank'
  BY <1>1, Works DEF Decide, At, rows
<1> QED
  BY <1>1, <1>2 DEF Decide, rows, TypeInv, TypeOK

LEMMA ReserveDeliveryTyped == ASSUME TypeInv, NEW c \in Calls, ReserveDelivery(c) PROVE TypeInv'
<1>1. /\ call' \in [Calls -> Call]
      /\ call'[c].pc # "idle" => call'[c].id = call[c].id
      /\ \A d \in Calls : d # c => call'[d] = call[d]
  BY GoesFacts, ThrowsFacts, StepNames DEF ReserveDelivery, TypeInv, TypeOK
<1>2. ActiveHasId' /\ OnHasDate' /\ GoneIsBlank' /\ call[c].id \in Ids
  BY <1>1, Works DEF ReserveDelivery, At
<1>3. delivery' \in [Ids -> Deliveries]
  BY <1>2, SettledTyped DEF ReserveDelivery, TypeInv, TypeOK
<1> QED
  BY <1>1, <1>2, <1>3 DEF ReserveDelivery, TypeInv, TypeOK

LEMMA ShareTyped == ASSUME TypeInv, NEW c \in Calls, Share(c) PROVE TypeInv'
<1>1. /\ call' \in [Calls -> Call] /\ call'[c].id = call[c].id
      /\ \A d \in Calls : d # c => call'[d] = call[d]
  BY GoesFacts, StepNames DEF Share, TypeInv, TypeOK
<1>2. ActiveHasId' /\ OnHasDate' /\ GoneIsBlank'
  BY <1>1, Works DEF Share, At, rows
<1> QED
  BY <1>1, <1>2 DEF Share, rows, TypeInv, TypeOK

LEMMA SendTyped == ASSUME TypeInv, NEW c \in Calls, Send(c) PROVE TypeInv'
<1>1. /\ call' \in [Calls -> Call] /\ call'[c].id = call[c].id
      /\ \A d \in Calls : d # c => call'[d] = call[d]
  BY GoesFacts, StepNames DEF Send, TypeInv, TypeOK
<1>2. ActiveHasId' /\ OnHasDate' /\ GoneIsBlank' /\ call[c].id \in Ids
  BY <1>1, Works DEF Send, At, rows
<1>3. history' \in [billed : [Ids -> Nat], handed : [Ids -> Nat], lives : [Ids -> Nat], spent : SUBSET Ids]
  BY <1>2 DEF Send, TypeInv, TypeOK
<1> QED
  BY <1>1, <1>2, <1>3 DEF Send, rows, TypeInv, TypeOK

LEMMA FinishedTyped ==
    ASSUME TypeInv, NEW i \in Ids, NEW status \in {"sent", "blocked", "uncertain"}, Finished(i, status)
    PROVE  delivery' \in [Ids -> Deliveries]
BY SettledTyped DEF Finished, TypeInv, TypeOK

LEMMA FinishSentTyped == ASSUME TypeInv, NEW c \in Calls, FinishSent(c) PROVE TypeInv'
<1>1. /\ call' \in [Calls -> Call]
      /\ call'[c].pc # "idle" => call'[c].id = call[c].id
      /\ \A d \in Calls : d # c => call'[d] = call[d]
  BY GoesFacts, SucceedsFacts, StepNames DEF FinishSent, TypeInv, TypeOK
<1>2. ActiveHasId' /\ OnHasDate' /\ GoneIsBlank' /\ call[c].id \in Ids
  BY <1>1, Works DEF FinishSent, At
<1>3. delivery' \in [Ids -> Deliveries]
  BY <1>2, FinishedTyped DEF FinishSent, TypeInv, TypeOK
<1> QED
  BY <1>1, <1>2, <1>3 DEF FinishSent, TypeInv, TypeOK

LEMMA FinishFailedTyped == ASSUME TypeInv, NEW c \in Calls, FinishFailed(c) PROVE TypeInv'
<1>1. /\ call' \in [Calls -> Call]
      /\ call'[c].pc # "idle" => call'[c].id = call[c].id
      /\ \A d \in Calls : d # c => call'[d] = call[d]
  BY ThrowsFacts DEF FinishFailed, TypeInv, TypeOK
<1>2. ActiveHasId' /\ OnHasDate' /\ GoneIsBlank' /\ call[c].id \in Ids
  BY <1>1, Works DEF FinishFailed, At
<1>3. delivery' \in [Ids -> Deliveries]
  BY <1>2, FinishedTyped DEF FinishFailed, TypeInv, TypeOK
<1> QED
  BY <1>1, <1>2, <1>3 DEF FinishFailed, TypeInv, TypeOK

LEMMA CrashTyped == ASSUME TypeInv, NEW c \in Calls, Crash(c) PROVE TypeInv'
<1>1. /\ call' \in [Calls -> Call] /\ call'[c].pc = "idle"
      /\ \A d \in Calls : d # c => call'[d] = call[d]
  BY EndsFacts DEF Crash, TypeInv, TypeOK
<1>2. ActiveHasId' /\ OnHasDate' /\ GoneIsBlank'
  BY <1>1, Works DEF Crash, rows
<1> QED
  BY <1>1, <1>2 DEF Crash, rows, TypeInv, TypeOK

\* What a reservation makes of a home: nothing, or a home without a schedule.
LEMMA NewHomeTyped == NewHome \in Home /\ NewHome.due = 0 /\ ~NewHome.monthly /\ ~NewHome.paused
BY LimitsAssumption DEF NewHome, Blank, Home

LEMMA CachedTyped == ASSUME NEW i PROVE Cached(i) \subseteq BOOLEAN
BY DEF Cached

LEMMA ReservedTyped ==
    ASSUME TypeInv, NEW c \in Calls, At(c, "reserve"), NEW cached \in BOOLEAN, Reserved(c, cached)
    PROVE  TypeInv'
<1> DEFINE i == call[c].id
           h == House(i)
<1>1. i \in Ids /\ h \in Homes
  BY IdFacts DEF At, TypeInv, ActiveHasId
<1>2. /\ call' \in [Calls -> Call] /\ call'[c].id = i
      /\ \A d \in Calls : d # c => call'[d] = call[d]
  BY GoesFacts, StepNames DEF Reserved, TypeInv, TypeOK
<1>3. ActiveHasId'
  BY <1>1, <1>2 DEF ActiveHasId, TypeInv
<1>4. homes' \in [Homes -> Home] /\ OnHasDate' /\ GoneIsBlank'
  <2>1. homes' = [homes EXCEPT ![h] = IF homes[h].there THEN homes[h] ELSE NewHome]
    BY DEF Reserved
  <2>2. homes' \in [Homes -> Home]
    BY <1>1, <2>1, NewHomeTyped DEF TypeInv, TypeOK
  <2>3. \A g \in Homes : homes'[g] = homes[g] \/ homes'[g] = NewHome
    BY <1>1, <2>1 DEF TypeInv, TypeOK
  <2>4. \A g \in Homes : homes'[g].there => (homes'[g].monthly /\ ~homes'[g].paused) = (homes'[g].due # 0)
    BY <2>3, NewHomeTyped DEF TypeInv, OnHasDate
  <2>5. OnHasDate'
    BY <2>3, NewHomeTyped DEF TypeInv, OnHasDate
  <2>6. GoneIsBlank'
    BY <2>3, NewHomeTyped DEF TypeInv, GoneIsBlank
  <2> QED
    BY <2>2, <2>5, <2>6
<1>5. lookup' \in [Ids -> Lookups]
  BY SettledTyped DEF Reserved, TypeInv, TypeOK
<1>6. /\ usage' \in [Ids -> 0..MaxMonth]
      /\ history' \in [billed : [Ids -> Nat], handed : [Ids -> Nat], lives : [Ids -> Nat], spent : SUBSET Ids]
  <2>1. month \in 0..MaxMonth
    BY LimitsAssumption DEF TypeInv, TypeOK
  <2>2. usage' \in [Ids -> 0..MaxMonth]
    BY <2>1 DEF Reserved, Pay, TypeInv, TypeOK
  <2>3. history'.lives \in [Ids -> Nat] /\ history'.spent \in SUBSET Ids
    BY <1>1 DEF Reserved, Pay, TypeInv, TypeOK
  <2>4. history' = [history EXCEPT !.lives = history'.lives, !.spent = history'.spent]
    BY DEF Reserved, Pay, TypeInv, TypeOK
  <2> QED
    BY <2>2, <2>3, <2>4 DEF TypeInv, TypeOK
<1>7. budget' \in 0..ProviderLimit
  BY LimitsAssumption DEF Reserved, Pay, Affordable, TypeInv, TypeOK
<1> QED
  BY <1>2, <1>3, <1>4, <1>5, <1>6, <1>7 DEF Reserved, TypeInv, TypeOK

LEMMA ReserveTyped == ASSUME TypeInv, NEW c \in Calls, Reserve(c) PROVE TypeInv'
<1>1. CASE Found(c)
  <2>1. /\ call' \in [Calls -> Call]
        /\ call'[c].pc # "idle" => call'[c].id = call[c].id
        /\ \A d \in Calls : d # c => call'[d] = call[d]
    BY <1>1, SucceedsFacts, StepNames DEF Found, TypeInv, TypeOK
  <2>2. ActiveHasId' /\ OnHasDate' /\ GoneIsBlank'
    BY <1>1, <2>1, Works DEF Found, Reserve, At, rows
  <2> QED
    BY <1>1, <2>1, <2>2 DEF Found, rows, TypeInv, TypeOK
<1>2. CASE Refused(c)
  <2>1. /\ call' \in [Calls -> Call]
        /\ call'[c].pc # "idle" => call'[c].id = call[c].id
        /\ \A d \in Calls : d # c => call'[d] = call[d]
    BY <1>2, ThrowsFacts DEF Refused, TypeInv, TypeOK
  <2>2. ActiveHasId' /\ OnHasDate' /\ GoneIsBlank'
    BY <1>2, <2>1, Works DEF Refused, Reserve, At, rows
  <2> QED
    BY <1>2, <2>1, <2>2 DEF Refused, rows, TypeInv, TypeOK
<1>3. CASE \E cached \in Cached(call[c].id) : Reserved(c, cached)
  BY <1>3, CachedTyped, ReservedTyped DEF Reserve
<1> QED
  BY <1>1, <1>2, <1>3 DEF Reserve

\* Moving a schedule touches its date, its pause and its lease.
LEMMA MovedFacts ==
    ASSUME TypeInv, NEW h \in Homes, NEW due \in 0..(MaxMonth + 1), NEW paused \in BOOLEAN,
           homes' = Moved(h, due, paused)
    PROVE  /\ homes' \in [Homes -> Home]
           /\ homes'[h].due = due /\ homes'[h].paused = paused
           /\ homes'[h].monthly = homes[h].monthly /\ homes'[h].there = homes[h].there
           /\ \A g \in Homes : g # h => homes'[g] = homes[g]
<1> DEFINE one == [homes EXCEPT ![h].due = due]
           two == [one EXCEPT ![h].paused = paused]
<1>1. homes' = [two EXCEPT ![h].leased = FALSE]
  BY DEF Moved
<1>2. /\ one \in [Homes -> Home]
      /\ one[h].due = due /\ one[h].monthly = homes[h].monthly /\ one[h].there = homes[h].there
      /\ \A g \in Homes : g # h => one[g] = homes[g]
  BY DEF TypeInv, TypeOK, Home
<1> HIDE DEF one
<1>3. /\ two \in [Homes -> Home]
      /\ two[h].due = due /\ two[h].paused = paused
      /\ two[h].monthly = homes[h].monthly /\ two[h].there = homes[h].there
      /\ \A g \in Homes : g # h => two[g] = homes[g]
  BY <1>2 DEF Home
<1> HIDE DEF two
<1> QED
  BY <1>1, <1>3, ZenonT(40) DEF Home

\* A schedule that is moved by its run stays on, with its next date, or is paused without one.
LEMMA MovesTyped ==
    ASSUME TypeInv, NEW h \in Homes, homes[h].there, homes[h].monthly,
           NEW due \in 0..(MaxMonth + 1), NEW paused \in BOOLEAN, paused = (due = 0),
           homes' = Moved(h, due, paused)
    PROVE  homes' \in [Homes -> Home] /\ OnHasDate' /\ GoneIsBlank'
<1>1. /\ homes' \in [Homes -> Home]
      /\ homes'[h].due = due /\ homes'[h].paused = paused
      /\ homes'[h].monthly = homes[h].monthly /\ homes'[h].there = homes[h].there
      /\ \A g \in Homes : g # h => homes'[g] = homes[g]
  BY MovedFacts
<1>2. ASSUME NEW g \in Homes
      PROVE  /\ (homes'[g].monthly /\ ~homes'[g].paused) = (homes'[g].due # 0)
             /\ ~homes'[g].there => homes'[g].due = 0 /\ ~homes'[g].monthly /\ ~homes'[g].paused
  <2>1. CASE g = h
    BY <1>1, <2>1
  <2>2. CASE g # h
    BY <1>1, <2>2 DEF TypeInv, OnHasDate, GoneIsBlank
  <2> QED
    BY <2>1, <2>2
<1> QED
  BY <1>1, <1>2 DEF OnHasDate, GoneIsBlank

LEMMA HomesUntouched ==
    ASSUME TypeInv, UNCHANGED homes
    PROVE  homes' \in [Homes -> Home] /\ OnHasDate' /\ GoneIsBlank'
BY DEF TypeInv, TypeOK, OnHasDate, GoneIsBlank

LEMMA AdvanceTyped == ASSUME TypeInv, NEW c \in Calls, Advance(c) PROVE TypeInv'
<1> DEFINE h == House(call[c].id)
<1>1. call[c].id \in Ids /\ h \in Homes
  BY IdFacts DEF Advance, At, TypeInv, ActiveHasId
<1>2. /\ call' \in [Calls -> Call]
      /\ call'[c].pc # "idle" => call'[c].id = call[c].id
      /\ \A d \in Calls : d # c => call'[d] = call[d]
  BY GoesFacts, EndsFacts, StepNames DEF Advance, TypeInv, TypeOK
<1>3. ActiveHasId'
  BY <1>1, <1>2 DEF ActiveHasId, TypeInv
<1>4. homes' \in [Homes -> Home] /\ OnHasDate' /\ GoneIsBlank'
  <2>1. month + 1 \in 0..(MaxMonth + 1) /\ month + 1 # 0
    BY LimitsAssumption DEF TypeInv, TypeOK
  <2>2. UNCHANGED homes \/ (OfRun(c, h) /\ homes' = Moved(h, month + 1, FALSE))
    BY DEF Advance
  <2> QED
    BY <1>1, <2>1, <2>2, MovesTyped, HomesUntouched DEF OfRun
<1> QED
  BY <1>2, <1>3, <1>4 DEF Advance, TypeInv, TypeOK

LEMMA PauseTyped == ASSUME TypeInv, NEW c \in Calls, Pause(c) PROVE TypeInv'
<1> DEFINE h == House(call[c].id)
<1>1. call[c].id \in Ids /\ h \in Homes
  BY IdFacts DEF Pause, At, TypeInv, ActiveHasId
<1>2. /\ call' \in [Calls -> Call] /\ call'[c].pc = "idle"
      /\ \A d \in Calls : d # c => call'[d] = call[d]
  BY EndsFacts DEF Pause, TypeInv, TypeOK
<1>3. ActiveHasId'
  BY <1>2 DEF ActiveHasId, TypeInv
<1>4. homes' \in [Homes -> Home] /\ OnHasDate' /\ GoneIsBlank'
  <2>1. 0 \in 0..(MaxMonth + 1)
    BY LimitsAssumption
  <2>2. UNCHANGED homes \/ (OfRun(c, h) /\ homes' = Moved(h, 0, TRUE))
    BY DEF Pause
  <2> QED
    BY <1>1, <2>1, <2>2, MovesTyped, HomesUntouched DEF OfRun
<1> QED
  BY <1>2, <1>3, <1>4 DEF Pause, TypeInv, TypeOK

LEMMA EnrollTyped ==
    ASSUME TypeInv, NEW h \in Homes, NEW monthly \in BOOLEAN, NEW paused \in BOOLEAN,
           NEW updates \in BOOLEAN, Enroll(h, monthly, paused, updates)
    PROVE  TypeInv'
<1> DEFINE due == IF monthly /\ ~paused THEN month + 1 ELSE 0
           new == [there |-> TRUE, monthly |-> monthly, paused |-> paused, updates |-> updates,
                   due |-> due, leased |-> FALSE]
<1>1. due \in 0..(MaxMonth + 1) /\ (monthly /\ ~paused) = (due # 0)
  BY LimitsAssumption DEF TypeInv, TypeOK
<1> HIDE DEF due
<1>2. new \in Home /\ (new.monthly /\ ~new.paused) = (new.due # 0) /\ new.there
  BY <1>1 DEF Home
<1>3. homes' = [homes EXCEPT ![h] = new]
  BY DEF Enroll, due
<1> HIDE DEF new
<1>4. homes' \in [Homes -> Home] /\ OnHasDate' /\ GoneIsBlank'
  BY <1>2, <1>3 DEF TypeInv, TypeOK, OnHasDate, GoneIsBlank
<1> QED
  BY <1>4, ControlKeepsCalls DEF Enroll, TypeInv, TypeOK

LEMMA CloseInterruptedTyped == ASSUME TypeInv, NEW h \in Homes, CloseInterrupted(h) PROVE TypeInv'
<1>1. lookup' \in [Ids -> Lookups]
  BY SettledTyped DEF CloseInterrupted, TypeInv, TypeOK
<1> QED
  BY <1>1, HomesUntouched, ControlKeepsCalls DEF CloseInterrupted, TypeInv, TypeOK

LEMMA AcknowledgeTyped == ASSUME TypeInv, NEW i \in Ids, Acknowledge(i) PROVE TypeInv'
<1>1. delivery' \in [Ids -> Deliveries]
  BY SettledTyped DEF Acknowledge, TypeInv, TypeOK
<1> QED
  BY <1>1, HomesUntouched, ControlKeepsCalls DEF Acknowledge, TypeInv, TypeOK

LEMMA RemoveTyped == ASSUME TypeInv, NEW h \in Homes, Remove(h) PROVE TypeInv'
<1>1. NoHome \in Home /\ NoHome.due = 0 /\ ~NoHome.monthly /\ ~NoHome.paused
  BY LimitsAssumption DEF NoHome, Blank, Home
<1>2. homes' \in [Homes -> Home] /\ OnHasDate' /\ GoneIsBlank'
  BY <1>1 DEF Remove, TypeInv, TypeOK, OnHasDate, GoneIsBlank
<1>3. lookup' \in [Ids -> Lookups] /\ delivery' \in [Ids -> Deliveries]
  BY SettledTyped DEF Remove, NoLookup, NoDelivery, TypeInv, TypeOK
<1> QED
  BY <1>2, <1>3, ControlKeepsCalls DEF Remove, TypeInv, TypeOK

LEMMA LeaseLapsesTyped == ASSUME TypeInv, NEW h \in Homes, LeaseLapses(h) PROVE TypeInv'
<1>1. homes' \in [Homes -> Home] /\ OnHasDate' /\ GoneIsBlank'
  BY ZenonT(40) DEF LeaseLapses, TypeInv, TypeOK, Home, OnHasDate, GoneIsBlank
<1> QED
  BY <1>1, ControlKeepsCalls DEF LeaseLapses, TypeInv, TypeOK

LEMMA AgesTyped == ASSUME TypeInv, NEW i \in Ids, Ages(i) PROVE TypeInv'
<1>1. lookup' \in [Ids -> Lookups]
  <2>1. [lookup[i] EXCEPT !.old = TRUE] \in Lookups
    BY ZenonT(40) DEF TypeInv, TypeOK, Lookups
  <2>2. UNCHANGED lookup \/ lookup' = [lookup EXCEPT ![i] = [lookup[i] EXCEPT !.old = TRUE]]
    BY DEF Ages
  <2> QED
    BY <2>1, <2>2 DEF TypeInv, TypeOK
<1>2. delivery' \in [Ids -> Deliveries]
  <2>1. [delivery[i] EXCEPT !.old = TRUE] \in Deliveries
    BY ZenonT(40) DEF TypeInv, TypeOK, Deliveries
  <2>2. UNCHANGED delivery \/ delivery' = [delivery EXCEPT ![i] = [delivery[i] EXCEPT !.old = TRUE]]
    BY DEF Ages
  <2> QED
    BY <2>1, <2>2 DEF TypeInv, TypeOK
<1> QED
  BY <1>1, <1>2, HomesUntouched, ControlKeepsCalls DEF Ages, TypeInv, TypeOK

LEMMA RolloverTyped == ASSUME TypeInv, Rollover PROVE TypeInv'
<1>1. budget' \in 0..ProviderLimit
  BY LimitsAssumption DEF Rollover
<1>2. history' \in [billed : [Ids -> Nat], handed : [Ids -> Nat], lives : [Ids -> Nat], spent : SUBSET Ids]
  BY DEF Rollover, TypeInv, TypeOK
<1> QED
  BY <1>1, <1>2, HomesUntouched, ControlKeepsCalls DEF Rollover, TypeInv, TypeOK

LEMMA TickTyped == ASSUME TypeInv, Tick PROVE TypeInv'
<1>1. month' \in 1..MaxMonth
  BY LimitsAssumption DEF Tick, TypeInv, TypeOK
<1> QED
  BY <1>1, HomesUntouched, ControlKeepsCalls DEF Tick, rows, TypeInv, TypeOK

LEMMA StepTyped == ASSUME TypeInv, NEW c \in Calls, Step(c) PROVE TypeInv'
BY RereadTyped, ReserveTyped, EstimateTyped, CompleteTyped, FailTyped, DecideTyped,
   ReserveDeliveryTyped, ShareTyped, SendTyped, FinishSentTyped, FinishFailedTyped,
   AdvanceTyped, PauseTyped, CrashTyped DEF Step

LEMMA StartTyped == ASSUME TypeInv, NEW c \in Calls, Start(c) PROVE TypeInv'
BY AskTyped, ClaimTyped, DeliverTyped DEF Start

LEMMA ControlTyped == ASSUME TypeInv, Control PROVE TypeInv'
BY EnrollTyped, CloseInterruptedTyped, RemoveTyped, LeaseLapsesTyped, AcknowledgeTyped, AgesTyped
   DEF Control

LEMMA InitTyped == Init => TypeInv
<1> SUFFICES ASSUME Init PROVE TypeInv
  OBVIOUS
<1>1. NoHome \in Home /\ NoHome.due = 0 /\ ~NoHome.monthly
  BY LimitsAssumption DEF NoHome, Blank, Home
<1>2. Idle \in Call /\ Idle.pc = "idle"
  BY StepNames, LimitsAssumption DEF Idle, New, Call, Steps
<1>3. NoLookup \in Lookups /\ NoDelivery \in Deliveries
  BY SettledTyped DEF NoLookup, NoDelivery
<1>4. TypeOK
  BY <1>1, <1>2, <1>3, LimitsAssumption DEF Init, TypeOK
<1>5. OnHasDate /\ GoneIsBlank /\ ActiveHasId
  BY <1>1, <1>2 DEF Init, OnHasDate, GoneIsBlank, ActiveHasId, NoHome, Blank
<1> QED
  BY <1>4, <1>5 DEF TypeInv

LEMMA TypeStep == TypeInv /\ [Next]_vars => TypeInv'
<1> SUFFICES ASSUME TypeInv, [Next]_vars PROVE TypeInv'
  OBVIOUS
<1>1. CASE Next
  BY <1>1, StepTyped, StartTyped, ControlTyped, RolloverTyped, TickTyped DEF Next
<1>2. CASE UNCHANGED vars
  BY <1>2 DEF vars, rows, TypeInv, TypeOK, OnHasDate, ActiveHasId, GoneIsBlank
<1> QED
  BY <1>1, <1>2

\* Rows, calls and what the providers saw stay typed, and the shared counter within its limit,
\* for any number of homes, workspaces and calls.
THEOREM HomesTyped == Spec => []TypeOK
<1>1. TypeInv => TypeOK
  BY DEF TypeInv
<1> QED
  BY <1>1, InitTyped, TypeStep, PTL DEF Spec

LEMMA TypeHolds == Spec => []TypeInv
BY InitTyped, TypeStep, PTL DEF Spec

\* A schedule that is on has a date and one that is off has none, whatever fails in its runs.
THEOREM SchedulesHaveDates == Spec => []OnHasDate
<1>1. TypeInv => OnHasDate
  BY DEF TypeInv
<1> QED
  BY <1>1, TypeHolds, PTL

-----------------------------------------------------------------------------
(* What the provider is asked, and what that costs *)

\* The counter counts a finite set, and nothing is in it that has no usage event.
BudgetInv ==
    /\ IsFiniteSet(history.spent) /\ budget = Cardinality(history.spent)
    /\ \A i \in history.spent : usage[i] # 0

\* A call that is about to ask has its attempt on record, has not asked, and is alone in this: its
\* usage event, which nothing removes, keeps every other call from reserving the request again.
AskInv ==
    /\ LookedUpOnce
    /\ \A c \in Calls : At(c, "estimate") => usage[call[c].id] # 0 /\ history.billed[call[c].id] = 0
    /\ \A c, d \in Calls :
         At(c, "estimate") /\ At(d, "estimate") /\ call[c].id = call[d].id => c = d

CostInv == TypeInv /\ BudgetInv /\ AskInv

\* Steps that neither reserve nor ask keep both.
LEMMA CostFrame ==
    ASSUME CostInv, TypeInv', UNCHANGED <<usage, budget>>,
           history'.spent = history.spent, history'.billed = history.billed,
           \A d \in Calls : call'[d].pc = "estimate" => call'[d] = call[d]
    PROVE  CostInv'
BY DEF CostInv, BudgetInv, AskInv, LookedUpOnce, At

\* One call moved, and not to the provider.
LEMMA CostFrameOf ==
    ASSUME CostInv, TypeInv', UNCHANGED <<usage, budget>>,
           history'.spent = history.spent, history'.billed = history.billed,
           NEW c \in Calls, call'[c].pc # "estimate", \A d \in Calls : d # c => call'[d] = call[d]
    PROVE  CostInv'
BY CostFrame

LEMMA EstimateCost == ASSUME CostInv, NEW c \in Calls, Estimate(c) PROVE CostInv'
<1> DEFINE i == call[c].id
<1>1. TypeInv' /\ TypeInv /\ i \in Ids
  BY EstimateTyped DEF CostInv, TypeInv, ActiveHasId, Estimate, At
<1>2. /\ call'[c].pc # "estimate" /\ \A d \in Calls : d # c => call'[d] = call[d]
  BY GoesFacts, FailsFacts, StepNames DEF Estimate, CostInv, TypeInv, TypeOK
<1>3. usage[i] # 0 /\ history.billed[i] = 0
  BY DEF CostInv, AskInv, Estimate
<1>4. /\ history'.spent = history.spent
      /\ history'.billed = [history.billed EXCEPT ![i] = 1]
      /\ history.billed \in [Ids -> Nat] /\ UNCHANGED <<usage, budget>>
  BY <1>1, <1>3 DEF Estimate, rows, TypeInv, TypeOK
<1>5. BudgetInv'
  BY <1>4 DEF CostInv, BudgetInv
<1>6. LookedUpOnce'
  BY <1>1, <1>3, <1>4 DEF CostInv, AskInv, LookedUpOnce
<1>7. ASSUME NEW d \in Calls, At(d, "estimate")'
      PROVE  /\ d # c /\ call'[d] = call[d] /\ At(d, "estimate") /\ call[d].id # i /\ call[d].id \in Ids
  BY <1>1, <1>2, <1>7 DEF CostInv, AskInv, At, Estimate, TypeInv, ActiveHasId
<1>8. AskInv'
  BY <1>4, <1>6, <1>7 DEF CostInv, AskInv, At
<1> QED
  BY <1>1, <1>5, <1>8 DEF CostInv

LEMMA ReservedCost ==
    ASSUME CostInv, NEW c \in Calls, At(c, "reserve"), NEW cached \in BOOLEAN, Reserved(c, cached)
    PROVE  CostInv'
<1> DEFINE i == call[c].id
<1>1. TypeInv' /\ TypeInv /\ i \in Ids /\ usage[i] = 0
  BY ReservedTyped DEF CostInv, TypeInv, ActiveHasId, At, Reserved, Fresh
<1>2. /\ call'[c].pc = (IF cached THEN "complete" ELSE "estimate") /\ call'[c].id = i
      /\ \A d \in Calls : d # c => call'[d] = call[d]
  BY GoesFacts, StepNames DEF Reserved, TypeInv, TypeOK, CostInv
<1>3. /\ history'.billed = history.billed
      /\ history'.spent = IF cached THEN history.spent ELSE history.spent \cup {i}
      /\ usage' = IF cached THEN usage ELSE [usage EXCEPT ![i] = month]
      /\ budget' = IF cached THEN budget ELSE budget + 1
  BY DEF Reserved, Pay, CostInv, TypeInv, TypeOK
<1>4. month # 0 /\ usage \in [Ids -> 0..MaxMonth] /\ history.spent \in SUBSET Ids
  BY LimitsAssumption DEF CostInv, TypeInv, TypeOK
<1>5. \A j \in Ids : usage[j] # 0 => usage'[j] # 0
  BY <1>1, <1>3, <1>4
<1>6. BudgetInv'
  <2>1. CASE cached
    BY <1>3, <2>1 DEF CostInv, BudgetInv
  <2>2. CASE ~cached
    <3>1. i \notin history.spent
      BY <1>1 DEF CostInv, BudgetInv
    <3>2. /\ IsFiniteSet(history.spent \cup {i})
          /\ Cardinality(history.spent \cup {i}) = Cardinality(history.spent) + 1
      BY <3>1, FS_AddElement DEF CostInv, BudgetInv
    <3>3. \A j \in history.spent \cup {i} : usage'[j] # 0
      BY <1>1, <1>3, <1>4, <2>2 DEF CostInv, BudgetInv
    <3> QED
      BY <1>3, <2>2, <3>2, <3>3 DEF CostInv, BudgetInv
  <2> QED
    BY <2>1, <2>2
<1>7. LookedUpOnce'
  BY <1>3, <1>5 DEF CostInv, AskInv, LookedUpOnce
\* Who was about to ask before has a usage event, so it asks for another request.
<1>8. ASSUME NEW d \in Calls, d # c, At(d, "estimate")'
      PROVE  call'[d] = call[d] /\ At(d, "estimate") /\ call[d].id # i /\ call[d].id \in Ids
  BY <1>1, <1>2, <1>8 DEF CostInv, AskInv, At, TypeInv, ActiveHasId
<1>9. At(c, "estimate")' => usage'[i] # 0 /\ history'.billed[i] = 0
  <2>1. history.billed[i] = 0
    <3>1. history.billed[i] \in Nat
      BY <1>1 DEF TypeInv, TypeOK
    <3>2. history.billed[i] <= 1 /\ (history.billed[i] = 1 => usage[i] # 0)
      BY <1>1 DEF CostInv, AskInv, LookedUpOnce
    <3> QED
      BY <1>1, <3>1, <3>2
  <2> QED
    BY <1>1, <1>2, <1>3, <1>4, <2>1 DEF At
<1>10. AskInv'
  BY <1>2, <1>3, <1>5, <1>7, <1>8, <1>9 DEF CostInv, AskInv, At
<1> QED
  BY <1>1, <1>6, <1>10 DEF CostInv

LEMMA ReserveCost == ASSUME CostInv, NEW c \in Calls, Reserve(c) PROVE CostInv'
<1>1. TypeInv' /\ TypeInv
  BY ReserveTyped DEF CostInv
<1>2. CASE Found(c)
  BY <1>1, <1>2, CostFrameOf, SucceedsFacts, StepNames DEF Found, rows, TypeInv, TypeOK
<1>3. CASE Refused(c)
  BY <1>1, <1>3, CostFrameOf, ThrowsFacts DEF Refused, rows, TypeInv, TypeOK
<1>4. CASE \E cached \in Cached(call[c].id) : Reserved(c, cached)
  BY <1>4, CachedTyped, ReservedCost DEF Reserve
<1> QED
  BY <1>2, <1>3, <1>4 DEF Reserve

\* A call that begins does so before its reservation.
LEMMA StartCost == ASSUME CostInv, NEW c \in Calls, Start(c) PROVE CostInv'
<1>1. TypeInv' /\ TypeInv
  BY StartTyped DEF CostInv
<1>2. /\ call'[c].pc # "estimate" /\ \A d \in Calls : d # c => call'[d] = call[d]
      /\ UNCHANGED <<usage, budget, history>>
  BY <1>1 DEF Start, Ask, Claim, Deliver, New, rows, TypeInv, TypeOK
<1> QED
  BY <1>1, <1>2, CostFrameOf

LEMMA StepCost == ASSUME CostInv, NEW c \in Calls, Step(c) PROVE CostInv'
<1>1. TypeInv' /\ TypeInv
  BY StepTyped DEF CostInv
<1>2. CASE Reread(c)
  <2>1. /\ call'[c].pc # "estimate" /\ \A d \in Calls : d # c => call'[d] = call[d]
    BY <1>1, <1>2, EndsFacts DEF Reread, New, TypeInv, TypeOK
  <2> QED
    BY <1>1, <1>2, <2>1, CostFrameOf DEF Reread, rows
<1>3. CASE Complete(c)
  BY <1>1, <1>3, CostFrameOf, SucceedsFacts, FailsFacts, StepNames, ZenonT(40) DEF Complete, TypeInv, TypeOK
<1>4. CASE Fail(c)
  BY <1>1, <1>4, CostFrameOf, ThrowsFacts DEF Fail, TypeInv, TypeOK
<1>5. CASE Decide(c)
  BY <1>1, <1>5, CostFrameOf, GoesFacts, StepNames DEF Decide, rows, TypeInv, TypeOK
<1>6. CASE ReserveDelivery(c)
  BY <1>1, <1>6, CostFrameOf, GoesFacts, ThrowsFacts, StepNames DEF ReserveDelivery, TypeInv, TypeOK
<1>7. CASE Share(c)
  BY <1>1, <1>7, CostFrameOf, GoesFacts, StepNames DEF Share, rows, TypeInv, TypeOK
<1>8. CASE Send(c)
  <2>1. /\ call'[c].pc # "estimate" /\ \A d \in Calls : d # c => call'[d] = call[d]
    BY <1>1, <1>8, GoesFacts, StepNames DEF Send, TypeInv, TypeOK
  <2>2. history'.spent = history.spent /\ history'.billed = history.billed
    BY <1>1, <1>8 DEF Send, TypeInv, TypeOK
  <2> QED
    BY <1>1, <1>8, <2>1, <2>2, CostFrameOf DEF Send, rows
<1>9. CASE FinishSent(c)
  BY <1>1, <1>9, CostFrameOf, GoesFacts, SucceedsFacts, StepNames DEF FinishSent, TypeInv, TypeOK
<1>10. CASE FinishFailed(c)
  BY <1>1, <1>10, CostFrameOf, ThrowsFacts DEF FinishFailed, TypeInv, TypeOK
<1>11. CASE Advance(c)
  BY <1>1, <1>11, CostFrameOf, GoesFacts, EndsFacts, StepNames, ZenonT(40) DEF Advance, TypeInv, TypeOK
<1>12. CASE Pause(c)
  BY <1>1, <1>12, CostFrameOf, EndsFacts DEF Pause, TypeInv, TypeOK
<1>13. CASE Crash(c)
  BY <1>1, <1>13, CostFrameOf, EndsFacts DEF Crash, rows, TypeInv, TypeOK
<1> QED
  BY <1>2, <1>3, <1>4, <1>5, <1>6, <1>7, <1>8, <1>9, <1>10, <1>11, <1>12, <1>13,
     EstimateCost, ReserveCost DEF Step

LEMMA ControlCost == ASSUME CostInv, Control PROVE CostInv'
<1>1. TypeInv'
  BY ControlTyped DEF CostInv
<1>2. UNCHANGED <<usage, budget, call, history>>
  BY DEF Control, Enroll, CloseInterrupted, Remove, LeaseLapses, Acknowledge, Ages
<1> QED
  BY <1>1, <1>2, CostFrame

LEMMA RolloverCost == ASSUME CostInv, Rollover PROVE CostInv'
<1>1. TypeInv' /\ history'.billed = history.billed /\ history'.spent = {}
  BY RolloverTyped DEF CostInv, Rollover, TypeInv, TypeOK
<1>2. BudgetInv'
  BY <1>1, FS_EmptySet DEF Rollover, BudgetInv
<1>3. AskInv'
  BY <1>1 DEF Rollover, CostInv, AskInv, LookedUpOnce, At
<1> QED
  BY <1>1, <1>2, <1>3 DEF CostInv

LEMMA CostInit == Init => CostInv
<1> SUFFICES ASSUME Init PROVE CostInv
  OBVIOUS
<1>1. TypeInv
  BY InitTyped
<1>2. BudgetInv
  BY FS_EmptySet DEF Init, BudgetInv
<1>3. AskInv
  BY DEF Init, AskInv, LookedUpOnce, At, Idle, New
<1> QED
  BY <1>1, <1>2, <1>3 DEF CostInv

LEMMA CostStep == CostInv /\ [Next]_vars => CostInv'
<1> SUFFICES ASSUME CostInv, [Next]_vars PROVE CostInv'
  OBVIOUS
<1>1. CASE Tick
  <2>1. TypeInv'
    BY <1>1, TickTyped DEF CostInv
  <2> QED
    BY <1>1, <2>1, CostFrame DEF Tick, rows
<1>2. CASE UNCHANGED vars
  <2>1. TypeInv'
    BY TypeStep DEF CostInv
  <2> QED
    BY <1>2, <2>1, CostFrame DEF vars, rows
<1> QED
  BY <1>1, <1>2, StepCost, StartCost, ControlCost, RolloverCost DEF Next

LEMMA CostHolds == Spec => []CostInv
BY CostInit, CostStep, PTL DEF Spec

\* The provider is asked at most once for a request, for any number of calls that meet, die or are
\* sent again.
THEOREM LookedUpOnceHolds == Spec => []LookedUpOnce
<1>1. CostInv => LookedUpOnce
  BY DEF CostInv, AskInv
<1> QED
  BY <1>1, CostHolds, PTL

\* The shared counter is the number of attempts of the period and never above its limit.
THEOREM BudgetHolds == Spec => []BudgetIsCount
<1>1. CostInv => BudgetIsCount
  BY LimitsAssumption DEF CostInv, BudgetInv, BudgetIsCount, TypeInv, TypeOK
<1> QED
  BY <1>1, CostHolds, PTL

-----------------------------------------------------------------------------
(* Whose schedule it is *)

\* What OwnerDecides says of a step.
Decided ==
    \A c \in Calls, h \in Homes :
      call'[c] # call[c] /\ <<homes'[h].due, homes'[h].paused>> # <<homes[h].due, homes[h].paused>>
        => ~homes[h].paused /\ homes[h].due = call[c].due

\* A step that moves one call, and at most the home of that call as its run found it.
LEMMA DecidedOf ==
    ASSUME NEW c \in Calls, \A d \in Calls : d # c => call'[d] = call[d],
           \A h \in Homes :
             \/ homes'[h].due = homes[h].due /\ homes'[h].paused = homes[h].paused
             \/ OfRun(c, h)
    PROVE  Decided
BY DEF Decided, OfRun

\* A home that a reservation creates had no schedule to lose.
LEMMA ReservedDecided ==
    ASSUME TypeInv, NEW c \in Calls, At(c, "reserve"), NEW cached \in BOOLEAN, Reserved(c, cached)
    PROVE  Decided
<1> DEFINE h == House(call[c].id)
<1>1. call[c].id \in Ids /\ h \in Homes
  BY IdFacts DEF At, TypeInv, ActiveHasId
<1>2. \A d \in Calls : d # c => call'[d] = call[d]
  BY GoesFacts, StepNames DEF Reserved, TypeInv, TypeOK
<1>3. homes' = [homes EXCEPT ![h] = IF homes[h].there THEN homes[h] ELSE NewHome]
  BY DEF Reserved
<1>4. ASSUME NEW g \in Homes PROVE homes'[g].due = homes[g].due /\ homes'[g].paused = homes[g].paused
  <2>1. CASE g = h /\ ~homes[h].there
    <3>1. homes[g].due = 0 /\ ~homes[g].paused /\ homes[g].paused \in BOOLEAN
      BY <2>1 DEF TypeInv, TypeOK, Home, GoneIsBlank
    <3>2. homes'[g] = NewHome /\ NewHome.paused \in BOOLEAN
      BY <1>3, <2>1, NewHomeTyped DEF TypeInv, TypeOK, Home
    <3> QED
      BY <3>1, <3>2, NewHomeTyped
  <2>2. CASE g # h \/ homes[h].there
    BY <1>3, <2>2 DEF TypeInv, TypeOK
  <2> QED
    BY <2>1, <2>2
<1> QED
  BY <1>2, <1>4, DecidedOf

LEMMA MovesDecided ==
    ASSUME TypeInv, NEW c \in Calls, Advance(c) \/ Pause(c)
    PROVE  Decided
<1> DEFINE h == House(call[c].id)
<1>1. call[c].id \in Ids /\ h \in Homes
  BY IdFacts DEF Advance, Pause, At, TypeInv, ActiveHasId
<1>2. \A d \in Calls : d # c => call'[d] = call[d]
  BY GoesFacts, EndsFacts, StepNames DEF Advance, Pause, TypeInv, TypeOK
<1>3. month + 1 \in 0..(MaxMonth + 1) /\ 0 \in 0..(MaxMonth + 1)
  BY LimitsAssumption DEF TypeInv, TypeOK
<1>4. UNCHANGED homes \/ (OfRun(c, h) /\ homes' \in {Moved(h, month + 1, FALSE), Moved(h, 0, TRUE)})
  BY DEF Advance, Pause
<1>5. ASSUME OfRun(c, h), homes' \in {Moved(h, month + 1, FALSE), Moved(h, 0, TRUE)}, NEW g \in Homes, g # h
      PROVE  homes'[g] = homes[g]
  BY <1>1, <1>3, <1>5, MovedFacts
<1> HIDE DEF h
<1>6. \A g \in Homes : homes'[g] = homes[g] \/ OfRun(c, g)
  BY <1>4, <1>5
<1> QED
  BY <1>2, <1>6, DecidedOf

LEMMA StartDecided == ASSUME TypeInv, NEW c \in Calls, Start(c) PROVE Decided
<1>1. \A d \in Calls : d # c => call'[d] = call[d]
  BY DEF Start, Ask, Claim, Deliver, TypeInv, TypeOK
<1>2. \A g \in Homes : homes'[g].due = homes[g].due /\ homes'[g].paused = homes[g].paused
  <2>1. ASSUME NEW h \in Homes, homes' = [homes EXCEPT ![h].leased = TRUE], NEW g \in Homes
        PROVE  homes'[g].due = homes[g].due /\ homes'[g].paused = homes[g].paused
    BY <2>1 DEF TypeInv, TypeOK, Home
  <2>2. UNCHANGED homes \/ \E h \in Homes : homes' = [homes EXCEPT ![h].leased = TRUE]
    BY DEF Start, Ask, Claim, Deliver, rows
  <2> QED
    BY <2>1, <2>2
<1> QED
  BY <1>1, <1>2, DecidedOf

LEMMA NextDecided == TypeInv /\ [Next]_vars => Decided
<1> SUFFICES ASSUME TypeInv, [Next]_vars PROVE Decided
  OBVIOUS
<1>1. ASSUME NEW c \in Calls, Reserve(c) PROVE Decided
  <2>1. CASE Found(c) \/ Refused(c)
    BY <2>1 DEF Found, Refused, rows, Decided
  <2>2. CASE \E cached \in Cached(call[c].id) : Reserved(c, cached)
    BY <1>1, <2>2, CachedTyped, ReservedDecided DEF Reserve
  <2> QED
    BY <1>1, <2>1, <2>2 DEF Reserve
<1>2. ASSUME NEW c \in Calls, Step(c) PROVE Decided
  <2>1. UNCHANGED homes => Decided
    BY DEF Decided
  <2> QED
    BY <1>1, <1>2, <2>1, MovesDecided
       DEF Step, Reread, Estimate, Complete, Fail, Decide, ReserveDelivery, Share, Send, FinishSent,
           FinishFailed, Crash, rows
<1>3. CASE Control
  BY <1>3 DEF Control, Enroll, CloseInterrupted, Remove, LeaseLapses, Acknowledge, Ages, Decided
<1>4. CASE Rollover \/ Tick \/ UNCHANGED vars
  BY <1>4 DEF Rollover, Tick, vars, rows, Decided
<1> QED
  BY <1>2, <1>3, <1>4, StartDecided DEF Next

\* A run of the scheduler never overrides what the owner has chosen since it began.
THEOREM OwnersDecide == Spec => OwnerDecides
<1>1. TypeInv /\ [Next]_vars => [Decided]_vars
  BY NextDecided
<1> QED
  BY <1>1, TypeHolds, PTL DEF Spec, OwnerDecides, Decided

-----------------------------------------------------------------------------
(* The handoff of a report *)

\* From the reservation of a delivery to its outcome.
HandSteps == {"share", "send", "sent", "block", "doubt"}
Handing(c, i) == call[c].pc \in HandSteps /\ call[c].id = i

\* Nothing of the report was handed over and nobody is about to.
Clean(i) == history.handed[i] = 0 /\ \A c \in Calls : ~Handing(c, i)

\* What makes the row of a delivery a fence: in the only life of a report, one call at a time holds
\* it, a report without a row is untouched, and so is one that was blocked.
HandOf(i) ==
    history.lives[i] <= 1 =>
        /\ history.lives[i] = 0 => lookup[i].status = "none" /\ delivery[i].status = "none"
        /\ delivery[i].status = "none" /\ (lookup[i].status # "none" \/ history.lives[i] = 0) => Clean(i)
        /\ delivery[i].status = "blocked" => Clean(i)
        /\ delivery[i].status = "sent" => history.handed[i] = 1
        /\ history.handed[i] <= 1
        /\ \A c \in Calls : Handing(c, i) =>
             /\ call[c].pc \in {"share", "send", "block"} => history.handed[i] = 0
             /\ call[c].pc = "sent" => history.handed[i] = 1
        /\ \A c, d \in Calls : Handing(c, i) /\ Handing(d, i) => c = d

HandInv == TypeInv /\ \A i \in Ids : HandOf(i)

\* Steps that hand nothing over: the row stays, is settled by hand, or goes with its home, and no
\* call takes the report in hand or moves on with it.
LEMMA HandFrame ==
    ASSUME NEW i \in Ids, HandOf(i),
           history'.lives[i] = history.lives[i], history'.handed[i] = history.handed[i],
           lookup[i].status = "none" => lookup'[i].status = "none",
           \/ delivery'[i].status = delivery[i].status
           \/ delivery[i].status # "none" /\ delivery'[i].status \notin {"none", "blocked", "sent"}
           \/ delivery'[i].status = "none" /\ lookup'[i].status = "none",
           \A d \in Calls : Handing(d, i)' => Handing(d, i) /\ call'[d].pc = call[d].pc
    PROVE  HandOf(i)'
BY DEF HandOf, Clean

\* One call moved, and is at none of these steps now.
LEMMA HandLeaves ==
    ASSUME NEW c \in Calls, call'[c].pc \notin HandSteps, \A d \in Calls : d # c => call'[d] = call[d]
    PROVE  \A i \in Ids, d \in Calls : Handing(d, i)' => Handing(d, i) /\ call'[d].pc = call[d].pc
BY DEF Handing

\* The steps of a lookup and of the schedule.
LEMMA HandElsewhere ==
    ASSUME HandInv, TypeInv', UNCHANGED delivery,
           history'.lives = history.lives, history'.handed = history.handed,
           \A i \in Ids : lookup[i].status = "none" => lookup'[i].status = "none",
           NEW c \in Calls, call'[c].pc \notin HandSteps, \A d \in Calls : d # c => call'[d] = call[d]
    PROVE  HandInv'
BY HandFrame, HandLeaves DEF HandInv

LEMMA ReservedHand ==
    ASSUME HandInv, NEW c \in Calls, At(c, "reserve"), NEW cached \in BOOLEAN, Reserved(c, cached)
    PROVE  HandInv'
<1>0. PICK i \in Ids : call[c].id = i
  BY DEF Reserved, At, HandInv, TypeInv, ActiveHasId
<1>1. TypeInv' /\ TypeInv /\ i \in Ids
  BY <1>0, ReservedTyped DEF HandInv, TypeInv, ActiveHasId, At
<1>2. call'[c].pc \notin HandSteps /\ \A d \in Calls : d # c => call'[d] = call[d]
  BY <1>0, <1>1, GoesFacts, StepNames DEF Reserved, HandSteps, TypeInv, TypeOK
<1>3. /\ history'.handed = history.handed
      /\ history'.lives = [history.lives EXCEPT ![i] = history.lives[i] + 1]
      /\ history.lives \in [Ids -> Nat]
      /\ lookup' = [lookup EXCEPT ![i] = Settled("pending")] /\ lookup \in [Ids -> Lookups]
      /\ UNCHANGED delivery
  BY <1>0, <1>1 DEF Reserved, Pay, TypeInv, TypeOK
<1>4. ASSUME NEW j \in Ids, j # i PROVE HandOf(j)'
  <2>1. history'.lives[j] = history.lives[j] /\ lookup'[j] = lookup[j]
    BY <1>0, <1>1, <1>3, <1>4
  <2> QED
    BY <1>2, <1>3, <2>1, HandFrame, HandLeaves DEF HandInv
\* A report that is made anew has a second life; one that is made was untouched.
<1>5. HandOf(i)'
  <2>1. history'.lives[i] = history.lives[i] + 1 /\ history.lives[i] \in Nat
    BY <1>0, <1>1, <1>3
  <2>2. SUFFICES ASSUME history.lives[i] = 0 PROVE HandOf(i)'
    BY <2>1 DEF HandOf
  <2>3. delivery[i].status = "none" /\ Clean(i)
    BY <1>0, <1>1, <2>2 DEF HandInv, HandOf
  <2>4. Clean(i)'
    BY <1>0, <1>1, <1>2, <1>3, <2>3, HandLeaves DEF Clean
  <2>5. lookup'[i].status # "none" /\ delivery'[i].status = "none"
    BY <1>0, <1>1, <1>3, <2>3 DEF Settled
  <2> QED
    BY <2>1, <2>2, <2>4, <2>5 DEF HandOf, Clean
<1> QED
  BY <1>0, <1>1, <1>4, <1>5 DEF HandInv

LEMMA ReserveHand == ASSUME HandInv, NEW c \in Calls, Reserve(c) PROVE HandInv'
<1>1. TypeInv' /\ TypeInv
  BY ReserveTyped DEF HandInv
<1>2. CASE Found(c)
  <2>1. call'[c].pc \notin HandSteps /\ \A d \in Calls : d # c => call'[d] = call[d]
    BY <1>1, <1>2, SucceedsFacts, StepNames DEF Found, HandSteps, TypeInv, TypeOK
  <2> QED
    BY <1>1, <1>2, <2>1, HandElsewhere DEF Found, rows
<1>3. CASE Refused(c)
  <2>1. call'[c].pc \notin HandSteps /\ \A d \in Calls : d # c => call'[d] = call[d]
    BY <1>1, <1>3, ThrowsFacts DEF Refused, HandSteps, TypeInv, TypeOK
  <2> QED
    BY <1>1, <1>3, <2>1, HandElsewhere DEF Refused, rows
<1>4. CASE \E cached \in Cached(call[c].id) : Reserved(c, cached)
  BY <1>4, CachedTyped, ReservedHand DEF Reserve
<1> QED
  BY <1>2, <1>3, <1>4 DEF Reserve

\* The steps of a call that has the report in hand change nothing of another report.
LEMMA HandOthers ==
    ASSUME HandInv, NEW c \in Calls, NEW i \in Ids, call[c].id = i, NEW j \in Ids, j # i,
           history'.lives = history.lives, history'.handed[j] = history.handed[j],
           UNCHANGED lookup, delivery'[j] = delivery[j],
           call'[c].pc # "idle" => call'[c].id = i,
           \A d \in Calls : d # c => call'[d] = call[d]
    PROVE  HandOf(j)'
<1>1. \A d \in Calls : Handing(d, j)' => Handing(d, j) /\ call'[d].pc = call[d].pc
  BY DEF Handing, HandSteps
<1> QED
  BY <1>1, HandFrame DEF HandInv

LEMMA ReserveDeliveryHand == ASSUME HandInv, NEW c \in Calls, ReserveDelivery(c) PROVE HandInv'
<1>0. PICK i \in Ids : call[c].id = i
  BY DEF ReserveDelivery, At, HandInv, TypeInv, ActiveHasId
<1>1. TypeInv' /\ TypeInv /\ i \in Ids
  BY <1>0, ReserveDeliveryTyped DEF HandInv, TypeInv, ActiveHasId, At, ReserveDelivery
<1>2. CASE Throws(c) /\ UNCHANGED delivery
  <2>1. call'[c].pc \notin HandSteps /\ \A d \in Calls : d # c => call'[d] = call[d]
    BY <1>0, <1>1, <1>2, ThrowsFacts DEF HandSteps, TypeInv, TypeOK
  <2> QED
    BY <1>0, <1>1, <1>2, <2>1, HandElsewhere DEF ReserveDelivery
<1>3. CASE Untried(i) /\ delivery' = [delivery EXCEPT ![i] = Settled("pending")] /\ Goes(c, "share")
  <2>1. /\ call'[c].pc = "share" /\ call'[c].id = i
        /\ \A d \in Calls : d # c => call'[d] = call[d]
    BY <1>0, <1>1, <1>3, GoesFacts, StepNames DEF TypeInv, TypeOK
  <2>2. UNCHANGED <<lookup, history>> /\ delivery'[i].status = "pending"
        /\ \A j \in Ids : j # i => delivery'[j] = delivery[j]
    BY <1>0, <1>1, <1>3 DEF ReserveDelivery, TypeInv, TypeOK, Settled
  <2>3. ASSUME NEW j \in Ids, j # i PROVE HandOf(j)'
    BY <1>0, <1>1, <2>1, <2>2, <2>3, HandOthers
  <2>4. HandOf(i)'
    <3>1. lookup[i].status = "ready" /\ delivery[i].status = "none"
      BY <1>0, <1>3 DEF Untried, Ready
    <3>2. SUFFICES ASSUME history.lives[i] <= 1 PROVE HandOf(i)'
      BY <2>2 DEF HandOf
    <3>3. Clean(i) /\ history.lives[i] # 0
      BY <1>0, <1>1, <3>1, <3>2 DEF HandInv, HandOf
    <3>4. \A d \in Calls : Handing(d, i)' => d = c
      BY <2>1, <3>3 DEF Clean, Handing
    <3> QED
      BY <2>1, <2>2, <3>1, <3>3, <3>4 DEF HandOf, Clean
  <2> QED
    BY <1>0, <1>1, <2>3, <2>4 DEF HandInv
<1> QED
  BY <1>0, <1>2, <1>3 DEF ReserveDelivery

\* A call that has the report in hand and keeps it: it is alone, the row and the report's life are
\* as they were, and what is known of the handoff agrees with its step.
LEMMA HandKeeps ==
    ASSUME HandInv, NEW c \in Calls, NEW i \in Ids, Handing(c, i), UNCHANGED lookup,
           history'.lives = history.lives,
           delivery'[i].status = delivery[i].status \/
             (delivery[i].status # "none" /\ delivery'[i].status = "sent" /\ history'.handed[i] = 1),
           call'[c].pc \in HandSteps, call'[c].id = i, \A d \in Calls : d # c => call'[d] = call[d],
           history.lives[i] <= 1 =>
             /\ history'.handed[i] <= 1
             /\ call'[c].pc \in {"share", "send", "block"} => history'.handed[i] = 0
             /\ call'[c].pc = "sent" => history'.handed[i] = 1
             /\ delivery[i].status = "sent" => history'.handed[i] = 1
    PROVE  HandOf(i)'
<1>1. SUFFICES ASSUME history.lives[i] <= 1 PROVE HandOf(i)'
  BY DEF HandOf
<1>2. HandOf(i) /\ ~Clean(i)
  BY DEF HandInv, Clean
<1>3. \A d \in Calls : Handing(d, i)' => d = c
  BY <1>1, <1>2 DEF HandOf, Handing
<1> QED
  BY <1>1, <1>2, <1>3 DEF HandOf, Handing

LEMMA ShareHand == ASSUME HandInv, NEW c \in Calls, Share(c) PROVE HandInv'
<1>0. PICK i \in Ids : call[c].id = i
  BY DEF Share, At, HandInv, TypeInv, ActiveHasId
<1>1. TypeInv' /\ TypeInv /\ i \in Ids /\ Handing(c, i) /\ call[c].pc = "share"
  BY <1>0, ShareTyped DEF HandInv, TypeInv, ActiveHasId, At, Share, Handing, HandSteps
<1>2. /\ call'[c].pc \in {"send", "block"} /\ call'[c].id = i
      /\ \A d \in Calls : d # c => call'[d] = call[d]
  BY <1>0, <1>1, GoesFacts, StepNames DEF Share, TypeInv, TypeOK
<1>3. UNCHANGED <<lookup, delivery, history>>
  BY DEF Share, rows
<1>4. ASSUME NEW j \in Ids, j # i PROVE HandOf(j)'
  BY <1>0, <1>1, <1>2, <1>3, <1>4, HandOthers
<1>5. history.lives[i] <= 1 => history.handed[i] = 0 /\ delivery[i].status # "sent"
  BY <1>0, <1>1 DEF HandInv, HandOf
<1>6. HandOf(i)'
  BY <1>0, <1>1, <1>2, <1>3, <1>5, HandKeeps DEF HandSteps
<1> QED
  BY <1>0, <1>1, <1>4, <1>6 DEF HandInv

LEMMA SendHand == ASSUME HandInv, NEW c \in Calls, Send(c) PROVE HandInv'
<1>0. PICK i \in Ids : call[c].id = i
  BY DEF Send, At, HandInv, TypeInv, ActiveHasId
<1>1. TypeInv' /\ TypeInv /\ i \in Ids /\ Handing(c, i) /\ call[c].pc = "send"
  BY <1>0, SendTyped DEF HandInv, TypeInv, ActiveHasId, At, Send, Handing, HandSteps
<1>2. /\ call'[c].pc \in {"sent", "doubt"} /\ call'[c].id = i
      /\ \A d \in Calls : d # c => call'[d] = call[d]
  BY <1>0, <1>1, GoesFacts, StepNames DEF Send, TypeInv, TypeOK
<1>3. UNCHANGED <<lookup, delivery>> /\ history'.lives = history.lives
  BY <1>0, <1>1 DEF Send, rows, TypeInv, TypeOK
<1>4. /\ history'.handed[i] \in {history.handed[i], history.handed[i] + 1}
      /\ call'[c].pc = "sent" => history'.handed[i] = history.handed[i] + 1
      /\ \A j \in Ids : j # i => history'.handed[j] = history.handed[j]
  BY <1>0, <1>1, GoesFacts, StepNames DEF Send, TypeInv, TypeOK
<1>5. ASSUME NEW j \in Ids, j # i PROVE HandOf(j)'
  BY <1>0, <1>1, <1>2, <1>3, <1>4, <1>5, HandOthers
<1>6. history.lives[i] <= 1 => history.handed[i] = 0 /\ delivery[i].status # "sent"
  BY <1>0, <1>1 DEF HandInv, HandOf
<1>7. HandOf(i)'
  BY <1>0, <1>1, <1>2, <1>3, <1>4, <1>6, HandKeeps DEF HandSteps
<1> QED
  BY <1>0, <1>1, <1>5, <1>7 DEF HandInv

\* A call that has the report in hand and lets it go: nobody has it then, and the row that it left
\* agrees with what happened.
LEMMA HandDrops ==
    ASSUME HandInv, NEW c \in Calls, NEW i \in Ids, Handing(c, i), UNCHANGED <<lookup, history>>,
           call'[c].pc \notin HandSteps, \A d \in Calls : d # c => call'[d] = call[d],
           \/ delivery'[i].status = delivery[i].status
           \/ /\ delivery[i].status # "none" /\ delivery'[i].status # "none"
              /\ delivery'[i].status = "sent" => call[c].pc = "sent"
              /\ delivery'[i].status = "blocked" => call[c].pc = "block"
    PROVE  HandOf(i)'
<1>1. SUFFICES ASSUME history.lives[i] <= 1 PROVE HandOf(i)'
  BY DEF HandOf
<1>2. HandOf(i) /\ ~Clean(i)
  BY DEF HandInv, Clean
<1>3. \A d \in Calls : ~Handing(d, i)'
  BY <1>1, <1>2 DEF HandOf, Handing
<1> QED
  BY <1>1, <1>2, <1>3 DEF HandOf, Handing, Clean

\* What the recording of an outcome makes of the row.
LEMMA FinishedFacts ==
    ASSUME TypeInv, NEW i \in Ids, NEW status, Finished(i, status)
    PROVE  /\ \/ delivery'[i].status = delivery[i].status
              \/ delivery[i].status # "none" /\ delivery'[i].status = status
           /\ \A j \in Ids : j # i => delivery'[j] = delivery[j]
BY DEF Finished, Settled, TypeInv, TypeOK

LEMMA FinishSentHand == ASSUME HandInv, NEW c \in Calls, FinishSent(c) PROVE HandInv'
<1>0. PICK i \in Ids : call[c].id = i
  BY DEF FinishSent, At, HandInv, TypeInv, ActiveHasId
<1>1. TypeInv' /\ TypeInv /\ i \in Ids /\ Handing(c, i) /\ call[c].pc = "sent"
  BY <1>0, FinishSentTyped DEF HandInv, TypeInv, ActiveHasId, At, FinishSent, Handing, HandSteps
<1>2. /\ \/ call'[c].pc = "doubt"
         \/ call'[c].pc \notin HandSteps
      /\ call'[c].pc # "idle" => call'[c].id = i
      /\ \A d \in Calls : d # c => call'[d] = call[d]
  BY <1>0, <1>1, GoesFacts, SucceedsFacts, StepNames DEF FinishSent, HandSteps, TypeInv, TypeOK
<1>3. UNCHANGED <<lookup, history>>
  BY DEF FinishSent
<1>4. /\ \/ delivery'[i].status = delivery[i].status
         \/ delivery[i].status # "none" /\ delivery'[i].status = "sent"
      /\ \A j \in Ids : j # i => delivery'[j] = delivery[j]
  BY <1>0, <1>1, FinishedFacts DEF FinishSent
<1>5. ASSUME NEW j \in Ids, j # i PROVE HandOf(j)'
  BY <1>0, <1>1, <1>2, <1>3, <1>4, <1>5, HandOthers
<1>6. history.lives[i] <= 1 => history.handed[i] = 1
  BY <1>0, <1>1 DEF HandInv, HandOf
<1>7. HandOf(i)'
  <2>1. CASE call'[c].pc = "doubt"
    <3>1. SUFFICES ASSUME history.lives[i] <= 1 PROVE HandOf(i)'
      BY <1>3 DEF HandOf
    <3>2. history'.handed[i] = 1 /\ call'[c].id = i
      BY <1>2, <1>3, <1>6, <2>1, <3>1
    <3> QED
      BY <1>0, <1>1, <1>2, <1>3, <1>4, <2>1, <3>2, HandKeeps DEF HandSteps
  <2>2. CASE call'[c].pc \notin HandSteps
    BY <1>0, <1>1, <1>2, <1>3, <1>4, <2>2, HandDrops
  <2> QED
    BY <1>2, <2>1, <2>2
<1> QED
  BY <1>0, <1>1, <1>5, <1>7 DEF HandInv

LEMMA FinishFailedHand == ASSUME HandInv, NEW c \in Calls, FinishFailed(c) PROVE HandInv'
<1>0. PICK i \in Ids : call[c].id = i
  BY DEF FinishFailed, At, HandInv, TypeInv, ActiveHasId
<1>1. TypeInv' /\ TypeInv /\ i \in Ids /\ Handing(c, i) /\ call[c].pc \in {"block", "doubt"}
  BY <1>0, FinishFailedTyped DEF HandInv, TypeInv, ActiveHasId, At, FinishFailed, Handing, HandSteps
<1>2. /\ call'[c].pc \notin HandSteps
      /\ call'[c].pc # "idle" => call'[c].id = i
      /\ \A d \in Calls : d # c => call'[d] = call[d]
  BY <1>0, <1>1, ThrowsFacts DEF FinishFailed, HandSteps, TypeInv, TypeOK
<1>3. UNCHANGED <<lookup, history>>
  BY DEF FinishFailed
<1>4. /\ \/ delivery'[i].status = delivery[i].status
         \/ /\ delivery[i].status # "none"
            /\ delivery'[i].status = IF call[c].pc = "block" THEN "blocked" ELSE "uncertain"
      /\ \A j \in Ids : j # i => delivery'[j] = delivery[j]
  BY <1>0, <1>1, FinishedFacts DEF FinishFailed, At
<1>5. ASSUME NEW j \in Ids, j # i PROVE HandOf(j)'
  BY <1>0, <1>1, <1>2, <1>3, <1>4, <1>5, HandOthers
<1>6. HandOf(i)'
  BY <1>0, <1>1, <1>2, <1>3, <1>4, HandDrops
<1> QED
  BY <1>0, <1>1, <1>5, <1>6 DEF HandInv

LEMMA StartHand == ASSUME HandInv, NEW c \in Calls, Start(c) PROVE HandInv'
<1>1. TypeInv' /\ TypeInv
  BY StartTyped DEF HandInv
<1>2. /\ call'[c].pc \notin HandSteps /\ \A d \in Calls : d # c => call'[d] = call[d]
      /\ UNCHANGED <<lookup, delivery, history>>
  BY <1>1 DEF Start, Ask, Claim, Deliver, New, HandSteps, rows, TypeInv, TypeOK
<1> QED
  BY <1>1, <1>2, HandElsewhere

LEMMA StepHand == ASSUME HandInv, NEW c \in Calls, Step(c) PROVE HandInv'
<1>1. TypeInv' /\ TypeInv
  BY StepTyped DEF HandInv
<1>2. CASE Reread(c)
  <2>1. /\ call'[c].pc \notin HandSteps /\ \A d \in Calls : d # c => call'[d] = call[d]
    BY <1>1, <1>2, EndsFacts DEF Reread, New, HandSteps, TypeInv, TypeOK
  <2> QED
    BY <1>1, <1>2, <2>1, HandElsewhere DEF Reread, rows
<1>3. CASE Estimate(c)
  <2>1. /\ call'[c].pc \notin HandSteps /\ \A d \in Calls : d # c => call'[d] = call[d]
    BY <1>1, <1>3, GoesFacts, FailsFacts, StepNames DEF Estimate, HandSteps, TypeInv, TypeOK
  <2>2. history'.lives = history.lives /\ history'.handed = history.handed
    BY <1>1, <1>3 DEF Estimate, TypeInv, TypeOK
  <2> QED
    BY <1>1, <1>3, <2>1, <2>2, HandElsewhere DEF Estimate, rows
<1>4. CASE Complete(c)
  <2>1. /\ call'[c].pc \notin HandSteps /\ \A d \in Calls : d # c => call'[d] = call[d]
    <3>1. CASE Succeeds(c, "made")
      BY <1>1, <3>1, SucceedsFacts, StepNames DEF HandSteps, TypeInv, TypeOK
    <3>2. CASE Fails(c, TRUE)
      BY <1>1, <3>2, FailsFacts DEF HandSteps, TypeInv, TypeOK
    <3> QED
      BY <1>4, <3>1, <3>2 DEF Complete
  <2>2. \A i \in Ids : lookup[i].status = "none" => lookup'[i].status = "none"
    BY <1>1, <1>4 DEF Complete, TypeInv, TypeOK
  <2> QED
    BY <1>1, <1>4, <2>1, <2>2, HandElsewhere DEF Complete
<1>5. CASE Fail(c)
  <2>1. /\ call'[c].pc \notin HandSteps /\ \A d \in Calls : d # c => call'[d] = call[d]
    BY <1>1, <1>5, ThrowsFacts DEF Fail, HandSteps, TypeInv, TypeOK
  <2>2. \A i \in Ids : lookup[i].status = "none" => lookup'[i].status = "none"
    BY <1>1, <1>5 DEF Fail, TypeInv, TypeOK
  <2> QED
    BY <1>1, <1>5, <2>1, <2>2, HandElsewhere DEF Fail
<1>6. CASE Decide(c)
  <2>1. /\ call'[c].pc \notin HandSteps /\ \A d \in Calls : d # c => call'[d] = call[d]
    BY <1>1, <1>6, GoesFacts, StepNames DEF Decide, HandSteps, TypeInv, TypeOK
  <2> QED
    BY <1>1, <1>6, <2>1, HandElsewhere DEF Decide, rows
<1>7. CASE Advance(c) \/ Pause(c)
  <2>1. /\ call'[c].pc \notin HandSteps /\ \A d \in Calls : d # c => call'[d] = call[d]
    <3>0. call \in [Calls -> Call]
      BY <1>1 DEF TypeInv, TypeOK
    <3>1. Ends(c) \/ Goes(c, "pausing")
      BY <1>7 DEF Advance, Pause
    <3>2. CASE Ends(c)
      BY <3>0, <3>2, EndsFacts DEF HandSteps
    <3>3. CASE Goes(c, "pausing")
      BY <3>0, <3>3, GoesFacts, StepNames DEF HandSteps
    <3> QED
      BY <3>1, <3>2, <3>3
  <2> QED
    BY <1>1, <1>7, <2>1, HandElsewhere DEF Advance, Pause
<1>8. CASE Crash(c)
  <2>1. /\ call'[c].pc \notin HandSteps /\ \A d \in Calls : d # c => call'[d] = call[d]
    BY <1>1, <1>8, EndsFacts DEF Crash, HandSteps, TypeInv, TypeOK
  <2> QED
    BY <1>1, <1>8, <2>1, HandElsewhere DEF Crash, rows
<1> QED
  BY <1>2, <1>3, <1>4, <1>5, <1>6, <1>7, <1>8, ReserveHand, ReserveDeliveryHand, ShareHand, SendHand,
     FinishSentHand, FinishFailedHand DEF Step

\* The owner, the operator and the clock leave calls and what was handed over alone.
LEMMA HandControl ==
    ASSUME HandInv, TypeInv', UNCHANGED call,
           history'.lives = history.lives, history'.handed = history.handed,
           \A i \in Ids :
             /\ lookup[i].status = "none" => lookup'[i].status = "none"
             /\ \/ delivery'[i].status = delivery[i].status
                \/ delivery[i].status # "none" /\ delivery'[i].status \notin {"none", "blocked", "sent"}
                \/ delivery'[i].status = "none" /\ lookup'[i].status = "none"
    PROVE  HandInv'
<1>1. \A i \in Ids, d \in Calls : Handing(d, i)' => Handing(d, i) /\ call'[d].pc = call[d].pc
  BY DEF Handing
<1>2. ASSUME NEW i \in Ids PROVE HandOf(i)'
  BY <1>1, HandFrame DEF HandInv
<1> QED
  BY <1>2 DEF HandInv

LEMMA ControlHand == ASSUME HandInv, Control PROVE HandInv'
<1>1. TypeInv' /\ TypeInv
  BY ControlTyped DEF HandInv
<1>2. ASSUME NEW h \in Homes, CloseInterrupted(h) PROVE HandInv'
  <2>1. \A i \in Ids : lookup[i].status = "none" => lookup'[i].status = "none"
    BY <1>2 DEF CloseInterrupted
  <2> QED
    BY <1>1, <1>2, <2>1, HandControl DEF CloseInterrupted
<1>3. ASSUME NEW h \in Homes, Remove(h) PROVE HandInv'
  <2>1. ASSUME NEW i \in Ids
        PROVE  \/ lookup'[i] = lookup[i] /\ delivery'[i] = delivery[i]
               \/ lookup'[i].status = "none" /\ delivery'[i].status = "none"
    BY <1>3 DEF Remove, NoLookup, NoDelivery, Settled
  <2> QED
    BY <1>1, <1>3, <2>1, HandControl DEF Remove
<1>4. ASSUME NEW i \in Ids, Acknowledge(i) PROVE HandInv'
  <2>1. /\ delivery[i].status # "none" /\ delivery'[i].status = "reviewed"
        /\ \A j \in Ids : j # i => delivery'[j] = delivery[j]
    BY <1>1, <1>4 DEF Acknowledge, Settled, TypeInv, TypeOK
  <2> QED
    BY <1>1, <1>4, <2>1, HandControl DEF Acknowledge
<1>5. ASSUME NEW i \in Ids, Ages(i) PROVE HandInv'
  <2>1. \A j \in Ids : lookup'[j].status = lookup[j].status /\ delivery'[j].status = delivery[j].status
    <3>1. [lookup[i] EXCEPT !.old = TRUE].status = lookup[i].status
      BY <1>1 DEF TypeInv, TypeOK, Lookups
    <3>2. [delivery[i] EXCEPT !.old = TRUE].status = delivery[i].status
      BY <1>1 DEF TypeInv, TypeOK, Deliveries
    <3>3. /\ UNCHANGED lookup \/ lookup' = [lookup EXCEPT ![i] = [lookup[i] EXCEPT !.old = TRUE]]
          /\ UNCHANGED delivery \/ delivery' = [delivery EXCEPT ![i] = [delivery[i] EXCEPT !.old = TRUE]]
      BY <1>5 DEF Ages
    <3> QED
      BY <1>1, <3>1, <3>2, <3>3 DEF TypeInv, TypeOK
  <2> QED
    BY <1>1, <1>5, <2>1, HandControl DEF Ages
<1>6. UNCHANGED <<lookup, delivery, call, history>> => HandInv'
  BY <1>1, HandControl
<1> QED
  BY <1>2, <1>3, <1>4, <1>5, <1>6 DEF Control, Enroll, LeaseLapses

LEMMA HandInit == Init => HandInv
<1> SUFFICES ASSUME Init PROVE HandInv
  OBVIOUS
<1>1. TypeInv
  BY InitTyped
<1>2. \A i \in Ids, c \in Calls : ~Handing(c, i)
  BY DEF Init, Idle, New, Handing, HandSteps
<1>3. ASSUME NEW i \in Ids PROVE HandOf(i)
  BY <1>2 DEF Init, HandOf, Clean, NoLookup, NoDelivery, Settled
<1> QED
  BY <1>1, <1>3 DEF HandInv

LEMMA HandStep == HandInv /\ [Next]_vars => HandInv'
<1> SUFFICES ASSUME HandInv, [Next]_vars PROVE HandInv'
  OBVIOUS
<1>1. TypeInv' /\ TypeInv
  BY TypeStep DEF HandInv
<1>2. CASE Rollover
  <2>1. history'.lives = history.lives /\ history'.handed = history.handed
    BY <1>1, <1>2 DEF Rollover, TypeInv, TypeOK
  <2> QED
    BY <1>1, <1>2, <2>1, HandControl DEF Rollover
<1>3. CASE Tick \/ UNCHANGED vars
  BY <1>1, <1>3, HandControl DEF Tick, vars, rows
<1> QED
  BY <1>2, <1>3, StepHand, StartHand, ControlHand DEF Next

LEMMA HandHolds == Spec => []HandInv
BY HandInit, HandStep, PTL DEF Spec

\* In its only life a report is handed over at most once, for any number of calls and crashes.
THEOREM HandedOnceHolds == Spec => []HandedOnce
<1>1. HandInv => HandedOnce
  BY DEF HandInv, HandOf, HandedOnce
<1> QED
  BY <1>1, HandHolds, PTL

\* What a delivery says of the handoff is so, whichever of its recordings failed or came late.
THEOREM DeliveriesAreTrue == Spec => []DeliveryIsTrue
<1>1. HandInv => DeliveryIsTrue
  BY DEF HandInv, HandOf, Clean, DeliveryIsTrue
<1> QED
  BY <1>1, HandHolds, PTL
=============================================================================

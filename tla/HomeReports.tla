---------------------------- MODULE HomeReports ----------------------------
(***************************************************************************)
(* Homeowner reports: lookups that cost money, the monthly schedule that   *)
(* repeats them, and the handoff of a report to its homeowner.             *)
(* (apps/web/src/server/homeowners, packages/db/src/homeowner-repository,  *)
(* supabase/migrations, the homeowner ones)                                 *)
(*                                                                         *)
(* A call is one execution of a server function: it asks for a report,     *)
(* delivers one, or is the scheduler at work on one home.  Each step of a  *)
(* call is one transaction or one request to a provider; between two steps *)
(* other calls, the owner, the operator and the clock move, and the call   *)
(* may die.  A home stands for a tracked property with its contact, and a  *)
(* report has the identity of the request it was made for.                 *)
(***************************************************************************)
EXTENDS Integers, FiniteSets

CONSTANTS
    Homes,         \* tracked properties, one contact each
    Workspace,     \* the workspace of each home; its homes are at one address
    Requests,      \* request ids that a person's page made up
    Target,        \* the home of each request
    Kind,          \* what each request asks for
    Calls,         \* executions of server functions
    MonthlyLimit,  \* lookups of a workspace in a month
    ProviderLimit, \* lookups of all workspaces in a billing period
    MaxMonth,      \* bound on the clock
    None

ASSUME LimitsAssumption ==
    /\ MonthlyLimit \in Nat /\ ProviderLimit \in Nat /\ MaxMonth \in Nat \ {0}
    /\ IsFiniteSet(Homes) /\ IsFiniteSet(Requests)

ASSUME RequestsAssumption ==
    /\ Target \in [Requests -> Homes]
    /\ Kind \in [Requests -> {"create", "refresh", "revise"}]
    /\ Requests \cap (Homes \X (1..MaxMonth)) = {}

\* The scheduler's request id is a digest of the home and the due date.
Ids == Requests \cup (Homes \X (1..MaxMonth))
House(i) == IF i \in Requests THEN Target[i] ELSE i[1]

VARIABLES
    homes,    \* rows of homeowner.properties
    lookup,   \* rows of homeowner.lookup_requests; a ready one has its report
    usage,    \* the month of the usage event of each request, 0 without one
    budget,   \* the provider account's reserved attempts
    delivery, \* rows of homeowner.deliveries
    call,     \* the executions
    month,    \* the clock, in months
    history   \* what the providers saw

rows == <<homes, lookup, usage, budget, delivery>>
vars == <<rows, call, month, history>>

Lookups == [status : {"none", "pending", "ready", "failed", "uncertain"}, old : BOOLEAN]

\* "reviewed" is blocked with the code HUMAN_REVIEWED.
Deliveries ==
    [status : {"none", "pending", "sent", "blocked", "uncertain", "reviewed"}, old : BOOLEAN]

\* How long a row has been there matters while it is pending: old is more than five minutes.
Settled(status) == [status |-> status, old |-> FALSE]

NoLookup == Settled("none")
NoDelivery == Settled("none")

Home == [there : BOOLEAN, monthly : BOOLEAN, paused : BOOLEAN, updates : BOOLEAN,
         due : 0..(MaxMonth + 1), leased : BOOLEAN]
Blank(there) == [there |-> there, monthly |-> FALSE, paused |-> FALSE, updates |-> FALSE,
                 due |-> 0, leased |-> FALSE]
NoHome == Blank(FALSE)
NewHome == Blank(TRUE)

\* The steps of a call; "pausing" is the scheduler's catch.
Steps == {"idle", "claimed", "reserve", "estimate", "complete", "fail", "made",
          "handoff", "share", "send", "sent", "block", "doubt", "advance", "pausing"}

\* Whose id the call works on, for which date the scheduler runs it, and whether what it found
\* out must be recorded as uncertain.
Call == [pc : Steps, id : Ids \cup {None}, run : BOOLEAN, due : 0..MaxMonth, unsure : BOOLEAN]
New(pc, id, run, due) == [pc |-> pc, id |-> id, run |-> run, due |-> due, unsure |-> FALSE]
Idle == New("idle", None, FALSE, 0)

Init ==
    /\ homes = [h \in Homes |-> NoHome]
    /\ lookup = [i \in Ids |-> NoLookup]
    /\ usage = [i \in Ids |-> 0]
    /\ budget = 0
    /\ delivery = [i \in Ids |-> NoDelivery]
    /\ call = [c \in Calls |-> Idle]
    /\ month = 1
    /\ history = [billed |-> [i \in Ids |-> 0], handed |-> [i \in Ids |-> 0],
                  lives |-> [i \in Ids |-> 0], spent |-> {}]

At(c, pc) == call[c].pc = pc
Goes(c, pc) == call' = [call EXCEPT ![c].pc = pc]

\* The call is answered, or dead.
Ends(c) == call' = [call EXCEPT ![c] = Idle]

\* An error ends a person's call; the scheduler catches it and pauses the schedule.
Throws(c) == IF call[c].run THEN Goes(c, "pausing") ELSE Ends(c)

\* A lookup that came to nothing, or of which that is not known.
Fails(c, unsure) == call' = [call EXCEPT ![c].pc = "fail", ![c].unsure = unsure]

\* A success that a person asked for ends the call; the scheduler's goes on.
Succeeds(c, pc) == IF call[c].run THEN Goes(c, pc) ELSE Ends(c)

Ready(i) == lookup[i].status = "ready"
Reports(h) == {i \in Ids : House(i) = h /\ Ready(i)}

-----------------------------------------------------------------------------
(* A report is asked for *)

\* A person sends a request, for the first time or again.
Ask(c, r) ==
    /\ At(c, "idle")
    /\ Kind[r] # "create" => Reports(Target[r]) # {}
    /\ call' = [call EXCEPT ![c] = New("reserve", r, FALSE, 0)]
    /\ UNCHANGED <<rows, month, history>>

\* The scheduler takes a home that is due and leases it for five minutes.
Claim(c, h) ==
    /\ At(c, "idle")
    /\ homes[h].there /\ homes[h].monthly /\ ~homes[h].paused
    /\ homes[h].due <= month /\ ~homes[h].leased
    /\ homes' = [homes EXCEPT ![h].leased = TRUE]
    /\ call' = [call EXCEPT ![c] = New("claimed", <<h, homes[h].due>>, TRUE, homes[h].due)]
    /\ UNCHANGED <<lookup, usage, budget, delivery, month, history>>

\* The home is read again: it may have been changed, paused or removed since it was claimed.
Reread(c) ==
    LET h == House(call[c].id)
        on == homes[h].there /\ homes[h].monthly /\ ~homes[h].paused /\ homes[h].due <= month
    IN /\ At(c, "claimed")
       /\ IF on /\ Reports(h) # {}
          THEN \E pc \in {"reserve", "pausing"} :
                 call' = [call EXCEPT ![c] = New(pc, <<h, homes[h].due>>, TRUE, homes[h].due)]
          ELSE Ends(c)
       /\ UNCHANGED <<rows, month, history>>

Spending(h) == {i \in Ids : usage[i] = month /\ Workspace[House(i)] = Workspace[h]}

\* Mutant: one lookup more than the account has.
AffordableAtLimit(h) ==
    /\ Cardinality(Spending(h)) < MonthlyLimit
    /\ budget <= ProviderLimit

\* What the workspace and the provider's account still allow.
Affordable(h) ==
    /\ Cardinality(Spending(h)) < MonthlyLimit
    /\ budget < ProviderLimit

\* A valuation that is there already serves a new report: a revision keeps that of its report, and
\* a creation takes one of the last thirty days.
Cached(i) ==
    IF i \notin Requests THEN {FALSE}
    ELSE CASE Kind[i] = "refresh" -> {FALSE}
           [] Kind[i] = "revise" -> {TRUE}
           [] OTHER -> {\E h \in Homes : Workspace[h] = Workspace[Target[i]] /\ Reports(h) # {},
                        FALSE}

\* Nothing is reserved without the home, unless it is created, while a lookup of it is pending, or
\* for a revision of a report that is gone.
Admissible(i) ==
    LET h == House(i) IN
    /\ homes[h].there \/ (i \in Requests /\ Kind[i] = "create")
    /\ \A j \in Ids : House(j) = h => lookup[j].status # "pending"
    /\ i \in Requests /\ Kind[i] = "revise" => Reports(h) # {}

\* Mutant: what was paid for is forgotten with the home.
FreshByRow(i) == lookup[i].status = "none"

\* A request that was never seen: its lookup row may be gone with the home, its usage stays.
Fresh(i) == lookup[i].status = "none" /\ usage[i] = 0

\* Mutant: the shared slot is taken before it is known whether one is needed.
PayAlways(i, cached) ==
    /\ usage' = IF cached THEN usage ELSE [usage EXCEPT ![i] = month]
    /\ budget' = budget + 1
    /\ history' = [history EXCEPT !.lives[i] = @ + 1, !.spent = IF cached THEN @ ELSE @ \cup {i}]

\* The attempt is counted for the workspace and in the shared budget, in the same transaction.
Pay(i, cached) ==
    /\ usage' = IF cached THEN usage ELSE [usage EXCEPT ![i] = month]
    /\ budget' = IF cached THEN budget ELSE budget + 1
    /\ history' = [history EXCEPT !.lives[i] = @ + 1, !.spent = IF cached THEN @ ELSE @ \cup {i}]

Reserved(c, cached) ==
    LET i == call[c].id IN
    /\ Fresh(i) /\ Admissible(i)
    /\ ~cached => Affordable(House(i))
    /\ homes' = [homes EXCEPT ![House(i)] = IF @.there THEN @ ELSE NewHome]
    /\ lookup' = [lookup EXCEPT ![i] = Settled("pending")]
    /\ Pay(i, cached)
    /\ Goes(c, IF cached THEN "complete" ELSE "estimate")
    /\ UNCHANGED <<delivery, month>>

\* The request was made before: its report is the answer, unless what it asks has changed.
Found(c) ==
    /\ Ready(call[c].id)
    /\ Succeeds(c, "made")
    /\ UNCHANGED <<rows, month, history>>

\* One of the checks refuses, the operator has disabled the budget, or the transaction fails and
\* leaves nothing.
Refused(c) == Throws(c) /\ UNCHANGED <<rows, month, history>>

Reserve(c) ==
    /\ At(c, "reserve")
    /\ Found(c) \/ Refused(c) \/ \E cached \in Cached(call[c].id) : Reserved(c, cached)

\* The provider is asked, and answers, refuses, or is not heard of within twelve seconds.
Estimate(c) ==
    /\ At(c, "estimate")
    /\ history' = [history EXCEPT !.billed[call[c].id] = @ + 1]
    /\ \/ Goes(c, "complete")
       \/ \E unsure \in BOOLEAN : Fails(c, unsure)
    /\ UNCHANGED <<rows, month>>

\* The report is saved if its lookup is still pending; the answer may be lost.
Complete(c) ==
    LET i == call[c].id IN
    /\ At(c, "complete")
    /\ \/ /\ lookup[i].status = "pending"
          /\ lookup' = [lookup EXCEPT ![i] = Settled("ready")]
          /\ Succeeds(c, "made") \/ Fails(c, TRUE)
       \/ /\ Ready(i) /\ Succeeds(c, "made") /\ UNCHANGED lookup
       \/ /\ Fails(c, TRUE) /\ UNCHANGED lookup
    /\ UNCHANGED <<homes, usage, budget, delivery, month, history>>

\* A lookup that is still pending is closed; the error goes on to the caller in any case.
Fail(c) ==
    LET i == call[c].id IN
    /\ At(c, "fail")
    /\ \/ /\ lookup[i].status = "pending"
          /\ lookup' = [lookup EXCEPT ![i] = Settled(IF call[c].unsure THEN "uncertain" ELSE "failed")]
       \/ UNCHANGED lookup
    /\ Throws(c)
    /\ UNCHANGED <<homes, usage, budget, delivery, month, history>>

\* The scheduler reads the home again and hands the report over if its owner still wants that.
Decide(c) ==
    LET h == House(call[c].id) IN
    /\ At(c, "made")
    /\ Goes(c, IF homes[h].there /\ homes[h].monthly /\ ~homes[h].paused /\ homes[h].updates
               THEN "handoff" ELSE "advance")
    /\ UNCHANGED <<rows, month, history>>

-----------------------------------------------------------------------------
(* A report is handed to its homeowner *)

\* A person asks for the delivery of a report.
Deliver(c, i) ==
    /\ At(c, "idle")
    /\ Ready(i)
    /\ call' = [call EXCEPT ![c] = New("handoff", i, FALSE, 0)]
    /\ UNCHANGED <<rows, month, history>>

\* The unique index on a contact's open deliveries.
Open(h) == {i \in Ids : House(i) = h /\ delivery[i].status \in {"pending", "uncertain"}}

\* Mutant: only an attempt that is still open stands in the way of another.
Handable(i) == Ready(i) /\ Open(House(i)) = {}

\* One attempt per report, and none while another of the contact is open.
Untried(i) == Ready(i) /\ delivery[i].status = "none" /\ Open(House(i)) = {}

ReserveDelivery(c) ==
    LET i == call[c].id IN
    /\ At(c, "handoff")
    /\ \/ /\ Untried(i)
          /\ delivery' = [delivery EXCEPT ![i] = Settled("pending")]
          /\ Goes(c, "share")
       \/ Throws(c) /\ UNCHANGED delivery
    /\ UNCHANGED <<homes, lookup, usage, budget, month, history>>

\* A link is made for the report, if that is still there.
Share(c) ==
    /\ At(c, "share")
    /\ (Ready(call[c].id) /\ Goes(c, "send")) \/ Goes(c, "block")
    /\ UNCHANGED <<rows, month, history>>

\* The link is written to the contact and the workflow started; what fails or is not heard of
\* may have happened.
Send(c) ==
    /\ At(c, "send")
    /\ \/ /\ history' = [history EXCEPT !.handed[call[c].id] = @ + 1]
          /\ Goes(c, "sent") \/ Goes(c, "doubt")
       \/ Goes(c, "doubt") /\ UNCHANGED history
    /\ UNCHANGED <<rows, month>>

\* The outcome overwrites the row, whatever has become of it; the index may refuse to reopen it.
Finished(i, status) ==
    IF delivery[i].status = "none" THEN UNCHANGED delivery
    ELSE /\ status = "uncertain" => Open(House(i)) \subseteq {i}
         /\ delivery' = [delivery EXCEPT ![i] = Settled(status)]

\* Mutant: a success that could not be recorded counts as blocked.
FinishUnsaid(c) ==
    LET i == call[c].id IN
    /\ At(c, "sent")
    /\ \/ Finished(i, "sent") /\ (Succeeds(c, "advance") \/ Goes(c, "block"))
       \/ UNCHANGED delivery /\ Goes(c, "block")
    /\ UNCHANGED <<homes, lookup, usage, budget, month, history>>

\* A success that cannot be recorded, or of which that is not known, is in doubt.
FinishSent(c) ==
    LET i == call[c].id IN
    /\ At(c, "sent")
    /\ \/ Finished(i, "sent") /\ (Succeeds(c, "advance") \/ Goes(c, "doubt"))
       \/ UNCHANGED delivery /\ Goes(c, "doubt")
    /\ UNCHANGED <<homes, lookup, usage, budget, month, history>>

\* Without a link nothing was sent; with one it is uncertain.
FinishFailed(c) ==
    LET i == call[c].id IN
    /\ \/ At(c, "block") /\ Finished(i, "blocked")
       \/ At(c, "doubt") /\ Finished(i, "uncertain")
       \/ (At(c, "block") \/ At(c, "doubt")) /\ UNCHANGED delivery
    /\ Throws(c)
    /\ UNCHANGED <<homes, lookup, usage, budget, month, history>>

-----------------------------------------------------------------------------
(* The schedule *)

\* Mutant: the home is found by its id alone.
OfHome(c, h) == homes[h].there

\* The schedule is moved or paused only where it stands as the run found it.
OfRun(c, h) ==
    homes[h].there /\ homes[h].monthly /\ ~homes[h].paused /\ homes[h].due = call[c].due

Moved(h, due, paused) ==
    [homes EXCEPT ![h].due = due, ![h].paused = paused, ![h].leased = FALSE]

\* The next date after a success, which if it cannot be recorded is an error like any other.
Advance(c) ==
    LET h == House(call[c].id) IN
    /\ At(c, "advance")
    /\ \/ /\ homes' = IF OfRun(c, h) THEN Moved(h, month + 1, FALSE) ELSE homes
          /\ Ends(c) \/ Goes(c, "pausing")
       \/ UNCHANGED homes /\ Goes(c, "pausing")
    /\ UNCHANGED <<lookup, usage, budget, delivery, month, history>>

\* After an error the schedule waits for its owner; if that fails too, the lease is left.
Pause(c) ==
    LET h == House(call[c].id) IN
    /\ At(c, "pausing")
    /\ homes' \in {homes, IF OfRun(c, h) THEN Moved(h, 0, TRUE) ELSE homes}
    /\ Ends(c)
    /\ UNCHANGED <<lookup, usage, budget, delivery, month, history>>

-----------------------------------------------------------------------------
(* The owner's controls *)

\* Mutant: a paused schedule keeps a date.
EnrollDated(h, monthly, paused, updates) ==
    /\ homes[h].there /\ Reports(h) # {}
    /\ homes' = [homes EXCEPT ![h] =
                    [there |-> TRUE, monthly |-> monthly, paused |-> paused, updates |-> updates,
                     due |-> IF monthly THEN month + 1 ELSE 0, leased |-> FALSE]]
    /\ UNCHANGED <<lookup, usage, budget, delivery, call, month, history>>

\* A home with a report is enrolled, paused, or taken off the schedule.
Enroll(h, monthly, paused, updates) ==
    /\ homes[h].there /\ Reports(h) # {}
    /\ homes' = [homes EXCEPT ![h] =
                    [there |-> TRUE, monthly |-> monthly, paused |-> paused, updates |-> updates,
                     due |-> IF monthly /\ ~paused THEN month + 1 ELSE 0, leased |-> FALSE]]
    /\ UNCHANGED <<lookup, usage, budget, delivery, call, month, history>>

\* A lookup that was left pending is closed, unless it is younger than five minutes.
CloseInterrupted(h) ==
    LET pending == {i \in Ids : House(i) = h /\ lookup[i].status = "pending"} IN
    /\ \A i \in pending : lookup[i].old
    /\ lookup' = [i \in Ids |-> IF i \in pending THEN Settled("uncertain") ELSE lookup[i]]
    /\ UNCHANGED <<homes, usage, budget, delivery, call, month, history>>

\* A person has looked at a delivery in doubt, or at one left pending.
Acknowledge(i) ==
    /\ \/ delivery[i].status = "uncertain"
       \/ delivery[i].status = "pending" /\ delivery[i].old
    /\ delivery' = [delivery EXCEPT ![i] = Settled("reviewed")]
    /\ UNCHANGED <<homes, lookup, usage, budget, call, month, history>>

\* All that belongs to the home goes with it; the usage events stay.
Remove(h) ==
    /\ homes[h].there
    /\ homes' = [homes EXCEPT ![h] = NoHome]
    /\ lookup' = [i \in Ids |-> IF House(i) = h THEN NoLookup ELSE lookup[i]]
    /\ delivery' = [i \in Ids |-> IF House(i) = h THEN NoDelivery ELSE delivery[i]]
    /\ UNCHANGED <<usage, budget, call, month, history>>

-----------------------------------------------------------------------------
(* The operator, the clock, and what becomes of calls *)

\* A billing period has ended and the operator starts the next one.
Rollover ==
    /\ budget' = 0
    /\ history' = [history EXCEPT !.spent = {}]
    /\ UNCHANGED <<homes, lookup, usage, delivery, call, month>>

Tick ==
    /\ month < MaxMonth
    /\ month' = month + 1
    /\ UNCHANGED <<rows, call, history>>

\* The scheduler's function is ended by its platform within the five minutes of a lease and of
\* what it left pending; nothing bounds the other calls.
Running(h) == \E c \in Calls : ~At(c, "idle") /\ call[c].run /\ House(call[c].id) = h

LeaseLapses(h) ==
    /\ homes[h].leased /\ ~Running(h)
    /\ homes' = [homes EXCEPT ![h].leased = FALSE]
    /\ UNCHANGED <<lookup, usage, budget, delivery, call, month, history>>

Ages(i) ==
    /\ ~\E c \in Calls : ~At(c, "idle") /\ call[c].run /\ call[c].id = i
    /\ \/ /\ lookup[i].status = "pending" /\ ~lookup[i].old
          /\ lookup' = [lookup EXCEPT ![i].old = TRUE]
          /\ UNCHANGED delivery
       \/ /\ delivery[i].status = "pending" /\ ~delivery[i].old
          /\ delivery' = [delivery EXCEPT ![i].old = TRUE]
          /\ UNCHANGED lookup
    /\ UNCHANGED <<homes, usage, budget, call, month, history>>

\* A call dies; a request that had left may have been served.
Crash(c) ==
    /\ ~At(c, "idle")
    /\ Ends(c)
    /\ UNCHANGED <<rows, month, history>>

Step(c) ==
    \/ Reread(c) \/ Reserve(c) \/ Estimate(c) \/ Complete(c) \/ Fail(c) \/ Decide(c)
    \/ ReserveDelivery(c) \/ Share(c) \/ Send(c) \/ FinishSent(c) \/ FinishFailed(c)
    \/ Advance(c) \/ Pause(c) \/ Crash(c)

Start(c) ==
    \/ \E r \in Requests : Ask(c, r)
    \/ \E h \in Homes : Claim(c, h)
    \/ \E i \in Ids : Deliver(c, i)

Control ==
    \/ \E h \in Homes :
         \/ \E monthly, paused, updates \in BOOLEAN : Enroll(h, monthly, paused, updates)
         \/ CloseInterrupted(h) \/ Remove(h) \/ LeaseLapses(h)
    \/ \E i \in Ids : Acknowledge(i) \/ Ages(i)

Next ==
    \/ \E c \in Calls : Start(c) \/ Step(c)
    \/ Control
    \/ Rollover \/ Tick

Spec == Init /\ [][Next]_vars

-----------------------------------------------------------------------------
\* Every variable is of its type.
TypeOK ==
    /\ homes \in [Homes -> Home]
    /\ lookup \in [Ids -> Lookups]
    /\ usage \in [Ids -> 0..MaxMonth]
    /\ budget \in 0..ProviderLimit
    /\ delivery \in [Ids -> Deliveries]
    /\ call \in [Calls -> Call]
    /\ month \in 1..MaxMonth
    /\ history \in [billed : [Ids -> Nat], handed : [Ids -> Nat], lives : [Ids -> Nat], spent : SUBSET Ids]

\* The provider is asked at most once for a request, however often it is sent, whichever server
\* takes it up and even after its home was removed, and never without an attempt on record
\* (reserve, generateHomeReport).
LookedUpOnce ==
    \A i \in Ids : history.billed[i] <= 1 /\ (history.billed[i] = 1 => usage[i] # 0)

\* The shared counter is the number of attempts that were committed in the period: a refusal or a
\* rollback costs no slot, and no failure or removal returns one (reserve_provider_lookup).
BudgetIsCount ==
    budget = Cardinality(history.spent) /\ budget <= ProviderLimit

\* A report is handed to the workflow at most once, whoever asks for it and whatever becomes of the
\* attempt, unless its request was sent again and served after its home had been removed
\* (handoffHomeReport).
HandedOnce == \A i \in Ids : history.lives[i] <= 1 => history.handed[i] <= 1

\* What a delivery says is so: one that was sent was handed over, and one that was blocked without
\* a person's review was not (handoffHomeReport, finishDelivery).
DeliveryIsTrue ==
    \A i \in Ids : history.lives[i] <= 1 =>
        /\ delivery[i].status = "sent" => history.handed[i] = 1
        /\ delivery[i].status = "blocked" => history.handed[i] = 0

\* A run of the scheduler moves or pauses a schedule only as it found it: it neither resumes what
\* was paused nor touches a date that its owner has chosen since (advanceSchedule).
OwnerDecides ==
    [][\A c \in Calls, h \in Homes :
         call'[c] # call[c] /\ <<homes'[h].due, homes'[h].paused>> # <<homes[h].due, homes[h].paused>>
           => ~homes[h].paused /\ homes[h].due = call[c].due]_vars

\* A schedule that is on has a date, and one that is off has none: no schedule stops unnoticed
\* (enrollment, advanceSchedule).
OnHasDate ==
    \A h \in Homes : (homes[h].monthly /\ ~homes[h].paused) = (homes[h].due # 0)
=============================================================================

---------------------------- MODULE Credentials ----------------------------
(***************************************************************************)
(* One person's password account: sign-in with its lock, the single-use    *)
(* links (workspace choice, reset, address confirmation), the first-party  *)
(* sessions bound to the grant of a workspace, password changes, sign-out. *)
(* Every handler is a sequence of awaited database calls, each of them one *)
(* transaction; a call whose statements another one can come between is    *)
(* several actions. A request stops at any step (a refusal of the          *)
(* database, a crash, a lost message). Requests are used once, and name    *)
(* the link or the session they issue.                                     *)
(***************************************************************************)
EXTENDS Naturals, FiniteSets

CONSTANTS
    Requests,
    Mixes,            \* what the requests ask for, whether the account exists already, and
                      \* the grants it then has: a version per workspace, 0 for none
    Locations, Home,  \* workspaces; Home is the one a sign-up creates
    Limit, LockTime,  \* failures that lock, and for how long (ten, fifteen minutes)
    Life,             \* how long a link of each purpose lives
    SessionLife,
    MaxTime, MaxOps,  \* bounds on the clock and on the operator's interventions
    None

Kinds == {"signIn", "choose", "signUp", "forgot", "reset", "verify", "resend", "change", "signOut"}

Purposes == {"choice", "reset", "verify"}

ASSUME CredentialsAssumption ==
    /\ Mixes \subseteq [kind : [Requests -> Kinds], standing : BOOLEAN,
                       granted : [Locations -> Nat]]
    /\ \A mix \in Mixes : \A k, l \in Locations :
          mix.granted[k] # 0 =>
             mix.standing /\ mix.granted[k] <= Cardinality(Locations)
                          /\ (mix.granted[l] = mix.granted[k] => l = k)
    /\ Home \in Locations /\ IsFiniteSet(Locations)
    /\ Limit \in Nat \ {0} /\ LockTime \in Nat \ {0} /\ SessionLife \in Nat \ {0}
    /\ Life \in [Purposes -> Nat \ {0}]
    /\ MaxTime \in Nat /\ MaxOps \in Nat
    /\ None \notin Requests \cup Locations

VARIABLES
    account,   \* the person and the credential row; a password is named by how often it was set
    binding,   \* per workspace the version of its active grant, 0 when there is none
    grants,    \* the latest version granted anywhere
    token,     \* the links, by the request that issued them
    session,   \* the sessions, by the request that issued them
    job,       \* how far each request is, and what it has read
    held,      \* the links that reached the person
    now, ops,
    history    \* the time of the latest failure that met no lock, who set the latest password and
               \* the session it spared, the last version of each workspace that ended

rows == <<account, binding, grants, token, session>>
environment == <<held, now, ops>>
vars == <<rows, job, environment, history>>

LinkOf(kind) ==
    CASE kind \in {"signIn", "reset", "choose"} -> "choice"
      [] kind = "forgot" -> "reset"
      [] OTHER -> "verify"

\* The purpose a redeeming request asks for, and where it goes on.
Redeems == [choose |-> "choice", reset |-> "reset", verify |-> "verify"]
Redeemed == [choose |-> "pick", reset |-> "set", verify |-> "mark"]

Admitted == [resend |-> "resend", change |-> "current", signOut |-> "revoke"]

Places == {"new", "fail", "blocked", "count", "succeed", "bind", "issue", "token", "insert", "send",
           "pick", "set", "mark", "check", "identify", "resend", "current", "change", "update",
           "commit", "revoke", "done"}

NoToken == [state |-> "none", purpose |-> "choice", expires |-> 0,
            offered |-> [l \in Locations |-> 0]]

NoSession == [state |-> "none", loc |-> Home, version |-> 0, expires |-> 0, epoch |-> 0,
              during |-> {}]

NewJob(kind) ==
    [kind |-> kind, pc |-> "new", at |-> 0, seen |-> {}, link |-> None, sess |-> None,
     loc |-> None, want |-> None, list |-> [l \in Locations |-> 0]]

InitOf(mix) ==
    /\ account = [open |-> mix.standing, active |-> mix.standing, verified |-> FALSE,
                  password |-> 0, fails |-> 0, lockUntil |-> 0]
    /\ binding = mix.granted
    /\ grants = Cardinality(Locations)
    /\ token = [r \in Requests |-> NoToken]
    /\ session = [r \in Requests |-> NoSession]
    /\ job = [r \in Requests |-> NewJob(mix.kind[r])]
    /\ held = {}
    /\ now = 1
    /\ ops = 0
    /\ history = [opened |-> 0, setter |-> None, spared |-> None,
                  ended |-> [l \in Locations |-> 0]]

Init == \E mix \in Mixes : InitOf(mix)

At(r, place) == job[r].pc = place

Starts(r, kind) == job[r].kind = kind /\ At(r, "new")

Goto(r, place) == job' = [job EXCEPT ![r].pc = place]

Known == account.open /\ account.active

LockOpen == account.lockUntil > now

\* Setting a password holds the row of the credential from its update to its commit.
Setting == {r \in Requests : At(r, "commit")}

Free == Setting = {}

-----------------------------------------------------------------------------
(* Sign-in: the lookup decides, and what follows acts on what it read.      *)

\* Mutant: a right password is let through an open lock.
SignInRegardless(r, right) ==
    /\ Starts(r, "signIn")
    /\ \/ Known /\ right /\ job' = [job EXCEPT ![r].pc = "succeed", ![r].at = now]
       \/ Known /\ ~right /\ Goto(r, "fail")
       \/ ~Known /\ Goto(r, "done")
    /\ UNCHANGED <<rows, environment, history>>

SignIn(r, right) ==
    /\ Starts(r, "signIn")
    /\ \/ Known /\ right /\ ~LockOpen /\ job' = [job EXCEPT ![r].pc = "succeed", ![r].at = now]
       \/ Known /\ (right => LockOpen) /\ Goto(r, "fail")
       \/ ~Known /\ Goto(r, "done")
    /\ UNCHANGED <<rows, environment, history>>

\* The failure's transaction first looks for an open lock, and only then counts.  It locks the row
\* it finds, and waits for the one who holds it.
FailBegin(r) ==
    /\ At(r, "fail")
    /\ job' = [job EXCEPT ![r].at = now,
                          ![r].pc = IF ~LockOpen THEN "count" ELSE IF Free THEN "done" ELSE "blocked"]
    /\ UNCHANGED <<rows, environment, history>>

\* After the wait the row is read again, against the time the transaction began.
FailWaited(r) ==
    /\ At(r, "blocked") /\ Free
    /\ Goto(r, IF account.lockUntil > job[r].at THEN "done" ELSE "count")
    /\ UNCHANGED <<rows, environment, history>>

\* The count goes on where it stood; only a success or a new password clears it.
FailCount(r) ==
    /\ At(r, "count") /\ Free
    /\ account' = [account EXCEPT
         !.fails = @ + 1,
         !.lockUntil = IF account.fails + 1 >= Limit THEN job[r].at + LockTime ELSE @]
    /\ history' = [history EXCEPT !.opened = IF LockOpen THEN @ ELSE now]
    /\ Goto(r, "done")
    /\ UNCHANGED <<binding, grants, token, session, environment>>

Succeed(r) ==
    /\ At(r, "succeed") /\ Free
    /\ account' = [account EXCEPT !.fails = 0, !.lockUntil = 0]
    /\ Goto(r, "bind")
    /\ UNCHANGED <<binding, grants, token, session, environment, history>>

Listed == {l \in Locations : account.active /\ binding[l] # 0}

Bindings(r) ==
    /\ At(r, "bind")
    /\ \/ Listed = {} /\ Goto(r, "done")
       \/ Cardinality(Listed) > 1 /\ job' = [job EXCEPT ![r].pc = "token", ![r].list = binding]
       \/ \E l \in Listed : Listed = {l} /\ job' = [job EXCEPT ![r].pc = "issue", ![r].loc = l]
    /\ UNCHANGED <<rows, environment, history>>

\* The workspaces are listed by the order of their grants.
Rank(list, l) == Cardinality({k \in Locations : list[k] # 0 /\ list[k] <= list[l]})

\* The index of a choice counts in the list that was shown, and is applied to the list of now.
Pick(r) ==
    /\ At(r, "pick")
    /\ LET index == Rank(token[job[r].link].offered, job[r].want)
           there == {l \in Listed : Rank(binding, l) = index}
       IN  IF there = {} THEN Goto(r, "done")
           ELSE \E l \in there : job' = [job EXCEPT ![r].pc = "issue", ![r].loc = l]
    /\ UNCHANGED <<rows, environment, history>>

\* A sign-up then sends a confirmation, where sending is configured.
IssueSession(r) ==
    /\ At(r, "issue")
    /\ IF account.active /\ binding[job[r].loc] # 0
       THEN /\ session' = [session EXCEPT ![r] =
                 [state |-> "live", loc |-> job[r].loc, version |-> binding[job[r].loc],
                  expires |-> now + SessionLife, epoch |-> account.password, during |-> Setting]]
            /\ \/ Goto(r, "done")
               \/ job[r].kind = "signUp" /\ Goto(r, "token")
       ELSE Goto(r, "done") /\ UNCHANGED session
    /\ UNCHANGED <<account, binding, grants, token, environment, history>>
-----------------------------------------------------------------------------
(* Links. Issuing supersedes the live ones of the purpose that its update   *)
(* saw, unless they were redeemed meanwhile, and adds the new one.          *)

LiveTokens(p) == {t \in Requests : token[t].state = "live" /\ token[t].purpose = p}

TokenBegin(r) ==
    /\ At(r, "token")
    /\ job' = IF account.active
              THEN [job EXCEPT ![r].pc = "insert", ![r].at = now,
                               ![r].seen = LiveTokens(LinkOf(job[r].kind))]
              ELSE [job EXCEPT ![r].pc = "done"]
    /\ UNCHANGED <<rows, environment, history>>

Superseded(seen) == {t \in seen : token[t].state = "live"}

TokenInsert(r) ==
    /\ At(r, "insert")
    /\ LET p == LinkOf(job[r].kind)
           over == Superseded(job[r].seen)
       IN  token' = [t \in Requests |->
             IF t = r
             THEN [state |-> "live", purpose |-> p, expires |-> job[r].at + Life[p],
                   offered |-> job[r].list]
             ELSE [token[t] EXCEPT !.state = IF t \in over THEN "superseded" ELSE @]]
    /\ Goto(r, "send")
    /\ UNCHANGED <<account, binding, grants, session, environment, history>>

Deliver(r) ==
    /\ At(r, "send")
    /\ held' = held \cup {r}
    /\ Goto(r, "done")
    /\ UNCHANGED <<rows, now, ops, history>>

\* Mutant: a redeemed link is told from a superseded one only.
UsableAgain(t, p) ==
    token[t].state # "superseded" /\ token[t].purpose = p /\ token[t].expires > now

Usable(t, p) == token[t].state = "live" /\ token[t].purpose = p /\ token[t].expires > now

\* One update is the whole redeeming. A choice names a workspace of the list it was shown.
Redeem(r, t, l) ==
    /\ At(r, "new") /\ job[r].kind \in DOMAIN Redeems
    /\ t \in held
    /\ job[r].kind = "choose" /\ token[t].purpose = "choice" => token[t].offered[l] # 0
    /\ IF Usable(t, Redeems[job[r].kind])
       THEN /\ token' = [token EXCEPT ![t].state = "consumed"]
            /\ job' = [job EXCEPT ![r].pc = Redeemed[job[r].kind], ![r].link = t,
                              ![r].want = IF job[r].kind = "choose" THEN l ELSE None]
       ELSE Goto(r, "done") /\ UNCHANGED token
    /\ UNCHANGED <<account, binding, grants, session, environment, history>>

Mark(r) ==
    /\ At(r, "mark") /\ (account.verified \/ Free)
    /\ account' = [account EXCEPT !.verified = TRUE]
    /\ Goto(r, "done")
    /\ UNCHANGED <<binding, grants, token, session, environment, history>>

Forgot(r) ==
    /\ Starts(r, "forgot")
    /\ Goto(r, IF Known THEN "token" ELSE "done")
    /\ UNCHANGED <<rows, environment, history>>

\* Registering creates the person, the workspace and its grant; a taken address is answered.
SignUp(r) ==
    /\ Starts(r, "signUp")
    /\ IF account.open
       THEN Goto(r, "done") /\ UNCHANGED <<account, binding, grants>>
       ELSE /\ account' = [account EXCEPT !.open = TRUE, !.active = TRUE]
            /\ grants' = grants + 1
            /\ binding' = [binding EXCEPT ![Home] = grants + 1]
            /\ job' = [job EXCEPT ![r].pc = "issue", ![r].loc = Home]
    /\ UNCHANGED <<token, session, environment, history>>
-----------------------------------------------------------------------------
(* A new password, and the requests a session admits.                       *)

ResetSet(r) ==
    /\ At(r, "set")
    /\ Goto(r, IF account.active THEN "update" ELSE "done")
    /\ UNCHANGED <<rows, environment, history>>

\* The update of the credential waits for its row.  The sessions to end are those alive when the
\* next statement begins, but for the one the change was asked from; a reset was asked from none.
UpdateCredential(r) ==
    /\ At(r, "update") /\ Free
    /\ job' = [job EXCEPT ![r].pc = "commit",
                          ![r].seen = {s \in Requests : session[s].state = "live" /\ s # job[r].sess}]
    /\ UNCHANGED <<rows, environment, history>>

\* Mutant: the session to keep is the one that is ended.
KeptOthers(r, s) ==
    IF session[s].state = "live" /\ s \notin job[r].seen THEN "replaced" ELSE session[s].state

Kept(r, s) ==
    IF session[s].state = "live" /\ s \in job[r].seen THEN "replaced" ELSE session[s].state

\* The commit: a new password, which clears the lock, and the end of the sessions that were seen.
SetPassword(r) ==
    /\ At(r, "commit")
    /\ account' = [account EXCEPT !.password = @ + 1, !.fails = 0, !.lockUntil = 0]
    /\ session' = [s \in Requests |-> [session[s] EXCEPT !.state = Kept(r, s)]]
    /\ history' = [history EXCEPT !.setter = r, !.spared = job[r].sess]
    /\ Goto(r, IF job[r].kind = "reset" THEN "bind" ELSE "done")
    /\ UNCHANGED <<binding, grants, token, environment>>

UseSession(r, s) ==
    /\ At(r, "new") /\ job[r].kind \in DOMAIN Admitted
    /\ session[s].state # "none"
    /\ job' = IF session[s].state = "live" /\ session[s].expires > now
              THEN [job EXCEPT ![r].pc = "check", ![r].sess = s]
              ELSE [job EXCEPT ![r].pc = "done"]
    /\ UNCHANGED <<rows, environment, history>>

\* Mutant: any grant of the workspace will do.
SomeGrant(s) == binding[session[s].loc] # 0

SameGrant(s) == binding[session[s].loc] = session[s].version

CheckRole(r) ==
    /\ At(r, "check")
    /\ Goto(r, IF account.active /\ SameGrant(job[r].sess) THEN "identify" ELSE "done")
    /\ UNCHANGED <<rows, environment, history>>

Identify(r) ==
    /\ At(r, "identify")
    /\ Goto(r, IF account.active THEN Admitted[job[r].kind] ELSE "done")
    /\ UNCHANGED <<rows, environment, history>>

\* Read after the answer: nothing is sent to a confirmed address, or where it is not configured.
Resend(r) ==
    /\ At(r, "resend")
    /\ \/ ~account.verified /\ account.active /\ Goto(r, "token")
       \/ Goto(r, "done")
    /\ UNCHANGED <<rows, environment, history>>

ChangeVerify(r, right) ==
    /\ At(r, "current")
    /\ Goto(r, IF account.active /\ right THEN "change" ELSE "done")
    /\ UNCHANGED <<rows, environment, history>>

ChangeSet(r) ==
    /\ At(r, "change")
    /\ Goto(r, IF account.active THEN "update" ELSE "done")
    /\ UNCHANGED <<rows, environment, history>>

Revoke(r) ==
    /\ At(r, "revoke")
    /\ session' = [session EXCEPT ![job[r].sess].state = IF @ = "live" THEN "signedOut" ELSE @]
    /\ Goto(r, "done")
    /\ UNCHANGED <<account, binding, grants, token, environment, history>>

\* The database refuses, the process dies, the message is lost; a transaction that is open is
\* rolled back.
Stop(r) ==
    /\ job[r].pc \notin {"new", "done"}
    /\ Goto(r, "done")
    /\ UNCHANGED <<rows, environment, history>>

-----------------------------------------------------------------------------
(* The clock, and what operators do to the person and to the grants.        *)

Tick ==
    /\ now < MaxTime
    /\ now' = now + 1
    /\ UNCHANGED <<rows, job, held, ops, history>>

Intervenes == ops < MaxOps /\ ops' = ops + 1 /\ UNCHANGED <<token, session, job, held, now>>

SuspendOrReinstate ==
    /\ Intervenes /\ account.open
    /\ account' = [account EXCEPT !.active = ~@]
    /\ UNCHANGED <<binding, grants, history>>

Grant(l) ==
    /\ Intervenes /\ account.open /\ binding[l] = 0
    /\ grants' = grants + 1
    /\ binding' = [binding EXCEPT ![l] = grants + 1]
    /\ UNCHANGED <<account, history>>

EndGrant(l) ==
    /\ Intervenes /\ binding[l] # 0
    /\ binding' = [binding EXCEPT ![l] = 0]
    /\ history' = [history EXCEPT !.ended[l] = binding[l]]
    /\ UNCHANGED <<account, grants>>

Operator == SuspendOrReinstate \/ \E l \in Locations : Grant(l) \/ EndGrant(l)

Step(r) ==
    \/ \E right \in BOOLEAN : SignIn(r, right) \/ ChangeVerify(r, right)
    \/ FailBegin(r) \/ FailWaited(r) \/ FailCount(r) \/ Succeed(r)
    \/ Bindings(r) \/ Pick(r) \/ IssueSession(r)
    \/ TokenBegin(r) \/ TokenInsert(r) \/ Deliver(r)
    \/ \E t \in Requests, l \in Locations : Redeem(r, t, l)
    \/ Mark(r) \/ Forgot(r) \/ SignUp(r)
    \/ \E s \in Requests : UseSession(r, s)
    \/ CheckRole(r) \/ Identify(r) \/ Resend(r)
    \/ ResetSet(r) \/ ChangeSet(r) \/ UpdateCredential(r) \/ SetPassword(r) \/ Revoke(r)
    \/ Stop(r)

Next == (\E r \in Requests : Step(r)) \/ Tick \/ Operator

Spec == Init /\ [][Next]_vars
-----------------------------------------------------------------------------
(* Properties.                                                              *)

Links == [state : {"none", "live", "consumed", "superseded"}, purpose : Purposes, expires : Nat,
          offered : [Locations -> Nat]]

Sessions == [state : {"none", "live", "replaced", "signedOut"}, loc : Locations, version : Nat,
             expires : Nat, epoch : Nat, during : SUBSET Requests]

Jobs == [kind : Kinds, pc : Places, at : Nat, seen : SUBSET Requests, link : Requests \cup {None},
         sess : Requests \cup {None}, loc : Locations \cup {None}, want : Locations \cup {None},
         list : [Locations -> Nat]]

Histories == [opened : Nat, setter : Requests \cup {None}, spared : Requests \cup {None},
              ended : [Locations -> Nat]]

\* Every variable is of its type.
TypeOK ==
    /\ account \in [open : BOOLEAN, active : BOOLEAN, verified : BOOLEAN,
                    password : Nat, fails : Nat, lockUntil : Nat]
    /\ binding \in [Locations -> Nat]
    /\ grants \in Nat
    /\ token \in [Requests -> Links]
    /\ session \in [Requests -> Sessions]
    /\ job \in [Requests -> Jobs]
    /\ held \subseteq Requests
    /\ now \in Nat /\ ops \in Nat
    /\ history \in Histories

\* A link is redeemed once: no two requests went on with the same one, whatever they raced, and a
\* link that was redeemed does not come back (consume_credential_token).
LinkOnce ==
    \A r, q \in Requests :
        job[r].link # None => /\ token[job[r].link].state = "consumed"
                              /\ job[q].link = job[r].link => q = r

\* The sessions of an older password ended with it, but for the one that the latest change spared
\* and those whose issue committed while the latest change was open, after it had looked for the
\* sessions to end (set_password, revoke_all_first_party_sessions_for_user).
OneSurvivor ==
    \A s \in Requests :
        session[s].state = "live" =>
            \/ session[s].epoch = account.password
            \/ s = history.spared
            \/ history.setter \in session[s].during

\* An open lock moves only by a success or a failure that was decided before it opened, or by a new
\* password: attempts made against it neither lengthen nor end it, a right one as little as a wrong
\* one (handlePasswordSignIn, record_password_sign_in_failure).
LockIsFixed ==
    [][LockOpen /\ account'.lockUntil # account.lockUntil =>
         \/ account'.password # account.password
         \/ \E r \in Requests :
              /\ job[r].at <= history.opened
              /\ \/ At(r, "succeed") /\ job'[r].pc = "bind"
                 \/ At(r, "count") /\ job'[r].pc = "done"]_vars

\* A session never admits a request under a grant that was given after its own had ended: taking a
\* role away and giving it again does not bring back the sessions of the first time
\* (current_role_version).
NoRevival ==
    [][\A r \in Requests :
         At(r, "check") /\ job'[r].pc = "identify" =>
           LET s == session[job[r].sess] IN s.version > history.ended[s.loc]]_vars

\* What comments claim and the code does not keep.

\* "however many times this runs exactly one link is live" (issueAndSendVerificationEmail), "rather
\* than leaving two usable ones" (issue_credential_token).
OneLinkLive ==
    \A p \in Purposes : \A t, u \in Requests : Usable(t, p) /\ Usable(u, p) => t = u
=============================================================================

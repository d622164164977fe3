--------------------------- MODULE CredentialProofs ---------------------------
(***************************************************************************)
(* What Credentials keeps, for any number of requests and workspaces, any  *)
(* limits and lives, and any length of the clock.                          *)
(***************************************************************************)
EXTENDS Credentials, FiniteSetTheorems, TLAPS

\* The places of a request that a session admitted.
Within == {"check", "identify", "resend", "current", "change", "revoke"}

\* The places at which a request relies on what it has read.
Relies == Within \cup {"issue", "blocked", "count", "succeed", "commit"}

\* What a request at a place has read.  A request issues its link last; a failure about to be
\* counted and a success about to be recorded were decided before an open lock opened; and a
\* password about to be committed misses no session but the spared one and those issued since.
JobFits(r) ==
    /\ token[r].state # "none" => job[r].pc \in {"send", "done"}
    /\ job[r].pc = "issue" => job[r].loc \in Locations
    /\ job[r].pc \in Within => job[r].sess \in Requests /\ session[job[r].sess].state # "none"
    /\ job[r].pc \in {"check", "identify"} => job[r].kind \in DOMAIN Admitted
    /\ job[r].pc \in {"blocked", "count", "succeed"} => job[r].at <= now
    /\ job[r].pc \in {"count", "succeed"} /\ LockOpen => job[r].at <= history.opened
    /\ job[r].pc = "commit" =>
         \A s \in Requests : session[s].state = "live" =>
           s = job[r].sess \/ s \in job[r].seen \/ r \in session[s].during

JobsFit == \A r \in Requests : JobFits(r)

\* Versions only grow, and a grant in force is younger than the last one that ended.
GrantsMatch ==
    /\ \A l \in Locations :
         /\ binding[l] <= grants /\ history.ended[l] <= grants
         /\ binding[l] # 0 => binding[l] > history.ended[l]
    /\ \A s \in Requests : session[s].state # "none" => session[s].version # 0

CredInv == TypeOK /\ LinkOnce /\ OneSurvivor /\ JobsFit /\ GrantsMatch

-----------------------------------------------------------------------------
(* Requests and where they are *)

\* A request that goes to another place has read nothing new.
LEMMA GotoFacts ==
    ASSUME job \in [Requests -> Jobs], NEW r \in Requests, NEW p \in Places, Goto(r, p)
    PROVE  /\ job' \in [Requests -> Jobs] /\ \A q \in Requests : q # r => job'[q] = job[q]
           /\ job'[r].pc = p /\ job'[r].at = job[r].at
           /\ job'[r].link = job[r].link /\ job'[r].sess = job[r].sess
           /\ job'[r].kind = job[r].kind /\ job'[r].loc = job[r].loc
BY DEF Goto, Jobs

\* A request goes to another place and notes the time.
Timed(r, p, n) == job' = [job EXCEPT ![r].pc = p, ![r].at = n]

LEMMA TimedFacts ==
    ASSUME job \in [Requests -> Jobs], NEW r \in Requests, NEW p \in Places, NEW n \in Nat,
           Timed(r, p, n)
    PROVE  /\ job' \in [Requests -> Jobs] /\ \A q \in Requests : q # r => job'[q] = job[q]
           /\ job'[r].pc = p /\ job'[r].at = n /\ job'[r].link = job[r].link
<1> DEFINE mid == [job EXCEPT ![r].pc = p]
<1>1. job' = [mid EXCEPT ![r].at = n]
  BY DEF Timed
<1>2. /\ mid \in [Requests -> Jobs] /\ \A q \in Requests : q # r => mid[q] = job[q]
      /\ mid[r].pc = p /\ mid[r].link = job[r].link
  BY DEF Jobs
<1> HIDE DEF mid
<1> QED
  BY <1>1, <1>2 DEF Jobs

\* What the names of the requests' kinds lead to.
LEMMA KindFacts ==
    ASSUME NEW kind
    PROVE  /\ kind \in DOMAIN Redeems => Redeemed[kind] \in {"pick", "set", "mark"}
           /\ kind \in DOMAIN Admitted => Admitted[kind] \in {"resend", "current", "revoke"}
           /\ LinkOf(kind) \in Purposes
BY DEF Redeems, Redeemed, Admitted, LinkOf, Purposes

LEMMA PlaceNames ==
    /\ {"new", "fail", "blocked", "count", "succeed", "bind", "issue", "token", "insert"} \subseteq Places
    /\ {"send", "pick", "set", "mark", "check", "identify", "resend", "current"} \subseteq Places
    /\ {"change", "update", "commit", "revoke", "done"} \subseteq Places
BY DEF Places

-----------------------------------------------------------------------------
(* Steps that change only what a request has read *)

\* A request moves on with the links it had: it fits where it is.
LEMMA JobOnly ==
    ASSUME CredInv, UNCHANGED <<rows, environment, history>>, NEW r \in Requests,
           job' \in [Requests -> Jobs], \A q \in Requests : q # r => job'[q] = job[q],
           job'[r].link = job[r].link,
           token[r].state # "none" => job'[r].pc \in {"send", "done"},
           job'[r].pc = "issue" => job'[r].loc \in Locations,
           job'[r].pc \in Within =>
             job'[r].sess \in Requests /\ session[job'[r].sess].state # "none",
           job'[r].pc \in {"check", "identify"} => job'[r].kind \in DOMAIN Admitted,
           job'[r].pc \in {"blocked", "count", "succeed"} => job'[r].at <= now,
           job'[r].pc \in {"count", "succeed"} /\ LockOpen => job'[r].at <= history.opened,
           job'[r].pc = "commit" =>
             \A s \in Requests : session[s].state = "live" =>
               s = job'[r].sess \/ s \in job'[r].seen \/ r \in session[s].during
    PROVE  CredInv'
<1>1. UNCHANGED <<account, binding, grants, token, session, held, now, ops, history>>
  BY DEF rows, environment
<1>2. TypeOK'
  BY <1>1 DEF CredInv, TypeOK
<1>3. \A q \in Requests : job'[q].link = job[q].link
  OBVIOUS
<1>4. LinkOnce'
  BY <1>1, <1>3 DEF CredInv, LinkOnce
<1>6. JobFits(r)'
  BY <1>1 DEF CredInv, JobsFit, JobFits, LockOpen
<1>7. ASSUME NEW q \in Requests, q # r PROVE JobFits(q)'
  BY <1>1, <1>7 DEF CredInv, JobsFit, JobFits, LockOpen
<1>8. JobsFit' /\ OneSurvivor' /\ GrantsMatch'
  BY <1>1, <1>6, <1>7 DEF CredInv, JobsFit, OneSurvivor, GrantsMatch
<1> QED
  BY <1>2, <1>4, <1>8 DEF CredInv

\* The usual one: the request goes to another place and reads nothing new.
LEMMA GotoOnly ==
    ASSUME CredInv, UNCHANGED <<rows, environment, history>>, NEW r \in Requests, NEW p \in Places,
           Goto(r, p),
           job[r].pc \notin {"send", "done"} \/ p = "done",
           p \notin Relies \ Within, p \in Within => job[r].pc \in Within, p # "check",
           p = "identify" => job[r].pc = "check"
    PROVE  CredInv'
<1>1. /\ job' \in [Requests -> Jobs] /\ \A q \in Requests : q # r => job'[q] = job[q]
      /\ job'[r].pc = p /\ job'[r].at = job[r].at
      /\ job'[r].link = job[r].link /\ job'[r].sess = job[r].sess
      /\ job'[r].kind = job[r].kind
  BY GotoFacts DEF CredInv, TypeOK
<1>2. JobFits(r)
  BY DEF CredInv, JobsFit
<1> QED
  BY <1>1, <1>2, JobOnly DEF JobFits, Relies, Within

LEMMA SignInKeeps ==
    ASSUME CredInv, NEW r \in Requests, NEW right \in BOOLEAN, SignIn(r, right) PROVE CredInv'
<1>1. now \in Nat /\ job \in [Requests -> Jobs] /\ token[r].state = "none"
  BY DEF SignIn, Starts, At, CredInv, TypeOK, JobsFit, JobFits
<1>2. CASE ~LockOpen /\ Timed(r, "succeed", now)
  <2>1. /\ job' \in [Requests -> Jobs] /\ \A q \in Requests : q # r => job'[q] = job[q]
        /\ job'[r].pc = "succeed" /\ job'[r].at = now /\ job'[r].link = job[r].link
    BY <1>1, <1>2, TimedFacts, PlaceNames
  <2> QED
    BY <1>1, <1>2, <2>1, JobOnly DEF SignIn, Within
<1>3. CASE \E p \in {"done", "fail"} : Goto(r, p)
  BY <1>3, GotoOnly, PlaceNames DEF SignIn, Starts, At, Relies, Within
<1> QED
  BY <1>2, <1>3 DEF SignIn, Timed

LEMMA FailBeginKeeps == ASSUME CredInv, NEW r \in Requests, FailBegin(r) PROVE CredInv'
<1> DEFINE p == IF ~LockOpen THEN "count" ELSE IF Free THEN "done" ELSE "blocked"
<1>1. p \in Places /\ now \in Nat /\ job \in [Requests -> Jobs] /\ token[r].state = "none"
  BY PlaceNames DEF FailBegin, At, CredInv, TypeOK, JobsFit, JobFits
<1>2. p \in {"done", "blocked", "count"} /\ (p = "count" => ~LockOpen)
  OBVIOUS
<1>3. Timed(r, p, now)
  <2> DEFINE mid == [job EXCEPT ![r].at = now]
  <2>1. job' = [mid EXCEPT ![r].pc = p]
    BY DEF FailBegin
  <2> HIDE DEF p
  <2> QED
    BY <1>1, <2>1 DEF Jobs, Timed
<1> HIDE DEF p
<1>4. /\ job' \in [Requests -> Jobs] /\ \A q \in Requests : q # r => job'[q] = job[q]
      /\ job'[r].pc = p /\ job'[r].at = now /\ job'[r].link = job[r].link
  BY <1>1, <1>3, TimedFacts
<1> QED
  BY <1>1, <1>2, <1>4, JobOnly DEF FailBegin, Within

\* A failure that waited counts only when no lock was open as it began.
LEMMA FailWaitedKeeps == ASSUME CredInv, NEW r \in Requests, FailWaited(r) PROVE CredInv'
<1>1. /\ now \in Nat /\ job \in [Requests -> Jobs] /\ account.lockUntil \in Nat
      /\ token[r].state = "none" /\ job[r].at \in Nat /\ job[r].at <= now
  BY DEF FailWaited, At, CredInv, TypeOK, Jobs, JobsFit, JobFits
<1>2. CASE Goto(r, "done")
  BY <1>2, GotoOnly, PlaceNames DEF FailWaited, Relies, Within
<1>3. CASE account.lockUntil <= job[r].at /\ Goto(r, "count")
  <2>1. /\ job' \in [Requests -> Jobs] /\ \A q \in Requests : q # r => job'[q] = job[q]
        /\ job'[r].pc = "count" /\ job'[r].at = job[r].at /\ job'[r].link = job[r].link
    BY <1>1, <1>3, GotoFacts, PlaceNames
  <2>2. ~LockOpen
    BY <1>1, <1>3 DEF LockOpen
  <2> QED
    BY <1>1, <2>1, <2>2, JobOnly DEF FailWaited, Within
<1> QED
  BY <1>1, <1>2, <1>3 DEF FailWaited

\* A request goes on to the session of a workspace.
Issues(r, l) == job' = [job EXCEPT ![r].pc = "issue", ![r].loc = l]

LEMMA IssuesFacts ==
    ASSUME job \in [Requests -> Jobs], NEW r \in Requests, NEW l \in Locations, Issues(r, l)
    PROVE  /\ job' \in [Requests -> Jobs] /\ \A q \in Requests : q # r => job'[q] = job[q]
           /\ job'[r].pc = "issue" /\ job'[r].link = job[r].link
           /\ job'[r].loc = l
<1> DEFINE mid == [job EXCEPT ![r].pc = "issue"]
<1>1. job' = [mid EXCEPT ![r].loc = l]
  BY DEF Issues
<1>2. /\ mid \in [Requests -> Jobs] /\ \A q \in Requests : q # r => mid[q] = job[q]
      /\ mid[r].pc = "issue" /\ mid[r].link = job[r].link
  BY PlaceNames DEF Jobs
<1> HIDE DEF mid
<1> DEFINE new == [mid[r] EXCEPT !.loc = l]
<1>3. mid[r] \in Jobs /\ l \in Locations \cup {None}
  BY <1>2
<1>4. new \in Jobs
  BY <1>3 DEF Jobs
<1>5. new.pc = mid[r].pc /\ new.link = mid[r].link /\ new.loc = l
  BY <1>3 DEF Jobs
<1>6. job' = [mid EXCEPT ![r] = new]
  BY <1>1
<1> HIDE DEF new
<1> QED
  BY <1>2, <1>4, <1>5, <1>6

LEMMA BindingsKeeps == ASSUME CredInv, NEW r \in Requests, Bindings(r) PROVE CredInv'
<1>1. job \in [Requests -> Jobs] /\ binding \in [Locations -> Nat] /\ JobFits(r)
  BY DEF CredInv, TypeOK, JobsFit
<1>2. token[r].state = "none"
  BY <1>1 DEF Bindings, At, JobFits
<1>3. CASE Goto(r, "done")
  BY <1>3, GotoOnly, PlaceNames DEF Bindings, Relies, Within
<1>4. CASE job' = [job EXCEPT ![r].pc = "token", ![r].list = binding]
  <2> DEFINE mid == [job EXCEPT ![r].pc = "token"]
  <2>1. job' = [mid EXCEPT ![r].list = binding]
    BY <1>4
  <2>2. /\ mid \in [Requests -> Jobs] /\ \A q \in Requests : q # r => mid[q] = job[q]
        /\ mid[r].pc = "token" /\ mid[r].link = job[r].link
    <3> DEFINE new == [job[r] EXCEPT !.pc = "token"]
    <3>1. job[r] \in Jobs /\ "token" \in Places
      BY <1>1, PlaceNames
    <3>2. new \in Jobs /\ new.pc = "token" /\ new.link = job[r].link
      BY <3>1 DEF Jobs
    <3>3. mid = [job EXCEPT ![r] = new]
      OBVIOUS
    <3> HIDE DEF new, mid
    <3> QED
      BY <1>1, <3>2, <3>3
  <2> HIDE DEF mid
  <2>3. None \in Locations \cup {None} /\ 0 \in Nat
    OBVIOUS
  <2>4. /\ job' \in [Requests -> Jobs] /\ \A q \in Requests : q # r => job'[q] = job[q]
        /\ job'[r].pc = "token" /\ job'[r].link = job[r].link
    BY <1>1, <2>1, <2>2, <2>3 DEF Jobs
  <2> QED
    BY <1>2, <2>4, JobOnly DEF Bindings, Within
<1>5. ASSUME NEW l \in Locations, Issues(r, l) PROVE CredInv'
  BY <1>1, <1>2, <1>5, IssuesFacts, JobOnly DEF Bindings, Within
<1> QED
  BY <1>3, <1>4, <1>5 DEF Bindings, Listed, Issues

LEMMA PickKeeps == ASSUME CredInv, NEW r \in Requests, Pick(r) PROVE CredInv'
<1>1. job \in [Requests -> Jobs] /\ JobFits(r)
  BY DEF CredInv, TypeOK, JobsFit
<1>2. token[r].state = "none"
  BY <1>1 DEF Pick, At, JobFits
<1>3. CASE Goto(r, "done")
  BY <1>3, GotoOnly, PlaceNames DEF Pick, Relies, Within
<1>4. ASSUME NEW l \in Locations, Issues(r, l) PROVE CredInv'
  BY <1>1, <1>2, <1>4, IssuesFacts, JobOnly DEF Pick, Within
<1> QED
  BY <1>3, <1>4 DEF Pick, Listed, Issues

LEMMA TokenBeginKeeps == ASSUME CredInv, NEW r \in Requests, TokenBegin(r) PROVE CredInv'
<1>1. job \in [Requests -> Jobs] /\ JobFits(r) /\ now \in Nat
  BY DEF CredInv, TypeOK, JobsFit
<1>2. token[r].state = "none"
  BY <1>1 DEF TokenBegin, At, JobFits
<1>3. CASE ~account.active
  <2>1. Goto(r, "done")
    BY <1>3, SMTT(30) DEF TokenBegin, Goto
  <2> QED
    BY <2>1, GotoOnly, PlaceNames DEF TokenBegin, Relies, Within
<1>4. CASE account.active
  <2> DEFINE seen == LiveTokens(LinkOf(job[r].kind))
             one == [job EXCEPT ![r].pc = "insert"]
             two == [one EXCEPT ![r].at = now]
  <2>1. job' = [two EXCEPT ![r].seen = seen]
    BY <1>4 DEF TokenBegin
  <2>2. seen \in SUBSET Requests
    BY DEF LiveTokens
  <2> HIDE DEF seen
  <2>3. /\ one \in [Requests -> Jobs] /\ \A q \in Requests : q # r => one[q] = job[q]
        /\ one[r].pc = "insert" /\ one[r].link = job[r].link
    BY <1>1, PlaceNames DEF Jobs
  <2> HIDE DEF one
  <2>4. /\ two \in [Requests -> Jobs] /\ \A q \in Requests : q # r => two[q] = job[q]
        /\ two[r].pc = "insert" /\ two[r].link = job[r].link
    BY <1>1, <2>3 DEF Jobs
  <2> HIDE DEF two
  <2>5. /\ job' \in [Requests -> Jobs] /\ \A q \in Requests : q # r => job'[q] = job[q]
        /\ job'[r].pc = "insert" /\ job'[r].seen = seen /\ job'[r].link = job[r].link
    BY <2>1, <2>2, <2>4 DEF Jobs
  <2> QED
    BY <1>2, <2>5, JobOnly DEF TokenBegin, Within
<1> QED
  BY <1>3, <1>4

LEMMA ForgotKeeps == ASSUME CredInv, NEW r \in Requests, Forgot(r) PROVE CredInv'
<1>1. \E p \in {"token", "done"} : Goto(r, p)
  BY DEF Forgot
<1> QED
  BY <1>1, GotoOnly, PlaceNames DEF Forgot, Starts, At, Relies, Within

LEMMA UseSessionKeeps ==
    ASSUME CredInv, NEW r \in Requests, NEW s \in Requests, UseSession(r, s) PROVE CredInv'
<1>1. job \in [Requests -> Jobs] /\ JobFits(r)
  BY DEF CredInv, TypeOK, JobsFit
<1>2. token[r].state = "none" /\ session[s].state # "none"
  BY <1>1 DEF UseSession, At, JobFits
<1>3. CASE Goto(r, "done")
  BY <1>3, GotoOnly, PlaceNames, SMTT(30) DEF UseSession, Relies, Within
<1>4. CASE job' = [job EXCEPT ![r].pc = "check", ![r].sess = s]
  <2> DEFINE mid == [job EXCEPT ![r].pc = "check"]
  <2>1. job' = [mid EXCEPT ![r].sess = s]
    BY <1>4
  <2>2. /\ mid \in [Requests -> Jobs] /\ \A q \in Requests : q # r => mid[q] = job[q]
        /\ mid[r].pc = "check" /\ mid[r].link = job[r].link
        /\ mid[r].kind = job[r].kind
    BY <1>1, PlaceNames DEF Jobs
  <2> HIDE DEF mid
  <2>3. /\ job' \in [Requests -> Jobs] /\ \A q \in Requests : q # r => job'[q] = job[q]
        /\ job'[r].pc = "check" /\ job'[r].link = job[r].link
        /\ job'[r].sess = s /\ job'[r].kind = job[r].kind
    BY <2>1, <2>2 DEF Jobs
  <2> QED
    BY <1>2, <2>3, JobOnly, SMTT(30) DEF UseSession, Within
<1> QED
  BY <1>3, <1>4 DEF UseSession, Goto

LEMMA AdmissionKeeps ==
    ASSUME CredInv, NEW r \in Requests,
           \/ CheckRole(r) \/ Identify(r) \/ Resend(r)
           \/ \E right \in BOOLEAN : ChangeVerify(r, right)
    PROVE  CredInv'
<1>1. CASE CheckRole(r)
  <2>1. \E p \in {"identify", "done"} : Goto(r, p)
    BY <1>1 DEF CheckRole
  <2> QED
    BY <1>1, <2>1, GotoOnly, PlaceNames DEF CheckRole, At, Relies, Within
<1>2. CASE Identify(r)
  <2>1. Admitted[job[r].kind] \in {"resend", "current", "revoke"}
    BY <1>2, KindFacts DEF Identify, At, CredInv, JobsFit, JobFits
  <2>2. \E p \in {"resend", "current", "revoke", "done"} : Goto(r, p)
    BY <1>2, <2>1 DEF Identify
  <2> QED
    BY <1>2, <2>2, GotoOnly, PlaceNames DEF Identify, At, Relies, Within
<1>3. CASE Resend(r)
  <2>1. \E p \in {"token", "done"} : Goto(r, p)
    BY <1>3 DEF Resend
  <2> QED
    BY <1>3, <2>1, GotoOnly, PlaceNames DEF Resend, At, Relies, Within
<1>4. ASSUME NEW right \in BOOLEAN, ChangeVerify(r, right) PROVE CredInv'
  <2>1. \E p \in {"change", "done"} : Goto(r, p)
    BY <1>4 DEF ChangeVerify
  <2> QED
    BY <1>4, <2>1, GotoOnly, PlaceNames DEF ChangeVerify, At, Relies, Within
<1> QED
  BY <1>1, <1>2, <1>3, <1>4

LEMMA StopKeeps == ASSUME CredInv, NEW r \in Requests, Stop(r) PROVE CredInv'
BY GotoOnly, PlaceNames DEF Stop, Relies, Within

-----------------------------------------------------------------------------
(* The account *)

Account == [open : BOOLEAN, active : BOOLEAN, verified : BOOLEAN,
            password : Nat, fails : Nat, lockUntil : Nat]

\* A request that changed the account and not its password went to another place.
LEMMA AccountKeeps ==
    ASSUME CredInv, UNCHANGED <<binding, grants, token, session, held, now, ops>>,
           account' \in Account, account'.password = account.password,
           history' \in Histories,
           history'.spared = history.spared, history'.setter = history.setter,
           history'.ended = history.ended,
           NEW r \in Requests, NEW p \in Places \ Relies, Goto(r, p),
           job[r].pc \notin {"send", "done"},
           \A q \in Requests :
             q # r /\ job[q].pc \in {"count", "succeed"} /\ LockOpen' => job[q].at <= history'.opened
    PROVE  CredInv'
<1>1. /\ job' \in [Requests -> Jobs] /\ \A q \in Requests : q # r => job'[q] = job[q]
      /\ job'[r].pc = p /\ job'[r].link = job[r].link
  BY GotoFacts DEF CredInv, TypeOK
<1>2. TypeOK'
  BY <1>1 DEF CredInv, TypeOK, Account
<1>3. \A q \in Requests : job'[q].link = job[q].link
  BY <1>1
<1>4. LinkOnce'
  BY <1>3 DEF CredInv, LinkOnce
<1>5. JobFits(r)'
  BY <1>1 DEF CredInv, JobsFit, JobFits, Relies, Within
<1>6. ASSUME NEW q \in Requests, q # r PROVE JobFits(q)'
  BY <1>1, <1>6 DEF CredInv, JobsFit, JobFits
<1>7. JobsFit' /\ OneSurvivor' /\ GrantsMatch'
  BY <1>5, <1>6 DEF CredInv, JobsFit, OneSurvivor, GrantsMatch
<1> QED
  BY <1>2, <1>4, <1>7 DEF CredInv

LEMMA FailCountFacts ==
    ASSUME CredInv, NEW r \in Requests, FailCount(r)
    PROVE  /\ account' \in Account /\ account'.password = account.password
           /\ history' \in Histories
           /\ history'.spared = history.spared /\ history'.setter = history.setter
           /\ history'.ended = history.ended
           /\ history'.opened = IF LockOpen THEN history.opened ELSE now
<1>1. /\ account \in Account /\ job[r].at \in Nat /\ LockTime \in Nat /\ now \in Nat
      /\ history \in Histories
  BY CredentialsAssumption DEF CredInv, TypeOK, Account, Jobs
<1> DEFINE until == IF account.fails + 1 >= Limit THEN job[r].at + LockTime ELSE account.lockUntil
           mid == [account EXCEPT !.fails = account.fails + 1]
<1>2. until \in Nat
  BY <1>1 DEF Account
<1>3. mid \in Account /\ mid.password = account.password
  BY <1>1 DEF Account
<1>4. account' = [mid EXCEPT !.lockUntil = until]
  BY DEF FailCount
<1> HIDE DEF until, mid
<1>5. account' \in Account /\ account'.password = account.password
  BY <1>2, <1>3, <1>4 DEF Account
<1> DEFINE opened == IF LockOpen THEN history.opened ELSE now
<1>6. history' = [history EXCEPT !.opened = opened]
  BY DEF FailCount
<1>7. opened \in Nat
  BY <1>1 DEF Histories
<1> HIDE DEF opened
<1>8. /\ history' \in Histories /\ history'.opened = opened /\ history'.spared = history.spared
      /\ history'.setter = history.setter /\ history'.ended = history.ended
  BY <1>1, <1>6, <1>7 DEF Histories
<1> QED
  BY <1>5, <1>8 DEF opened

LEMMA FailCountKeeps == ASSUME CredInv, NEW r \in Requests, FailCount(r) PROVE CredInv'
<1>1. /\ account' \in Account /\ account'.password = account.password
      /\ history' \in Histories
      /\ history'.spared = history.spared /\ history'.setter = history.setter
      /\ history'.ended = history.ended
      /\ history'.opened = IF LockOpen THEN history.opened ELSE now
  BY FailCountFacts
<1>2. \A q \in Requests : job[q].pc \in {"count", "succeed"} => job[q].at <= history'.opened
  BY <1>1 DEF CredInv, JobsFit, JobFits
<1>3. "done" \in Places \ Relies
  BY PlaceNames DEF Relies, Within
<1> QED
  BY <1>1, <1>2, <1>3, AccountKeeps DEF FailCount, At, environment

\* The lock is cleared with the count of the failures.
LEMMA ClearedFacts ==
    ASSUME account \in Account, NEW set, set = account \/ \E n \in Nat : set = [account EXCEPT !.password = n],
           account' = [set EXCEPT !.fails = 0, !.lockUntil = 0]
    PROVE  account' \in Account /\ account'.password = set.password /\ account'.lockUntil = 0
<1> DEFINE mid == [set EXCEPT !.fails = 0]
<1>1. set \in Account
  BY DEF Account
<1>2. mid \in Account /\ mid.password = set.password
  BY <1>1 DEF Account
<1>3. account' = [mid EXCEPT !.lockUntil = 0]
  OBVIOUS
<1> HIDE DEF mid
<1> QED
  BY <1>2, <1>3 DEF Account

LEMMA SucceedKeeps == ASSUME CredInv, NEW r \in Requests, Succeed(r) PROVE CredInv'
<1>1. account \in Account /\ now \in Nat
  BY DEF CredInv, TypeOK, Account
<1>2. account' \in Account /\ account'.password = account.password /\ account'.lockUntil = 0
  BY <1>1, ClearedFacts DEF Succeed
<1>3. ~LockOpen'
  BY <1>1, <1>2 DEF LockOpen, Succeed, environment
<1>4. "bind" \in Places \ Relies
  BY PlaceNames DEF Relies, Within
<1>5. /\ history' \in Histories /\ history'.spared = history.spared
      /\ history'.setter = history.setter /\ history'.ended = history.ended
  BY DEF Succeed, CredInv, TypeOK, Histories
<1> QED
  BY <1>2, <1>3, <1>4, <1>5, AccountKeeps DEF Succeed, At, environment

LEMMA MarkKeeps == ASSUME CredInv, NEW r \in Requests, Mark(r) PROVE CredInv'
<1>1. account' \in Account /\ account'.password = account.password
      /\ account'.lockUntil = account.lockUntil
  BY DEF Mark, CredInv, TypeOK, Account
<1>2. LockOpen' => LockOpen
  BY <1>1 DEF LockOpen, Mark, environment
<1>3. "done" \in Places \ Relies
  BY PlaceNames DEF Relies, Within
<1>4. \A q \in Requests :
        job[q].pc \in {"count", "succeed"} /\ LockOpen' => job[q].at <= history.opened
  BY <1>2 DEF CredInv, JobsFit, JobFits
<1> QED
  BY <1>1, <1>3, <1>4, AccountKeeps DEF Mark, At, environment, CredInv, TypeOK

\* Registering gives the person a grant that is younger than any before.
LEMMA SignUpKeeps == ASSUME CredInv, NEW r \in Requests, SignUp(r) PROVE CredInv'
<1>1. CASE account.open
  <2>1. Goto(r, "done") /\ UNCHANGED <<rows, environment, history>>
    BY <1>1 DEF SignUp, rows
  <2> QED
    BY <2>1, GotoOnly, PlaceNames DEF Relies, Within
<1>2. CASE ~account.open
  <2>1. /\ Issues(r, Home) /\ Home \in Locations
        /\ grants' = grants + 1 /\ binding' = [binding EXCEPT ![Home] = grants + 1]
        /\ account' = [account EXCEPT !.open = TRUE, !.active = TRUE]
        /\ UNCHANGED <<token, session, held, now, ops, history>>
    BY <1>2, CredentialsAssumption DEF SignUp, Issues, environment
  <2>2. /\ job' \in [Requests -> Jobs] /\ \A q \in Requests : q # r => job'[q] = job[q]
        /\ job'[r].pc = "issue" /\ job'[r].link = job[r].link
        /\ job'[r].loc = Home
    BY <2>1, IssuesFacts DEF CredInv, TypeOK
  <2>3. /\ account' \in Account /\ account'.password = account.password
        /\ account'.lockUntil = account.lockUntil
    <3> DEFINE mid == [account EXCEPT !.open = TRUE]
    <3>1. /\ mid \in Account /\ mid.password = account.password
          /\ mid.lockUntil = account.lockUntil
      BY DEF CredInv, TypeOK, Account
    <3>2. account' = [mid EXCEPT !.active = TRUE]
      BY <2>1
    <3> HIDE DEF mid
    <3> QED
      BY <3>1, <3>2 DEF Account
  <2>4. TypeOK'
    BY <2>1, <2>2, <2>3 DEF CredInv, TypeOK, Account
  <2>5. LinkOnce'
    <3>1. \A q \in Requests : job'[q].link = job[q].link
      BY <2>2
    <3> QED
      BY <2>1, <3>1 DEF CredInv, LinkOnce
  <2>6. OneSurvivor' /\ GrantsMatch'
    BY <2>1, <2>3 DEF CredInv, OneSurvivor, GrantsMatch, TypeOK, Histories
  <2>7. token[r].state = "none" /\ JobFits(r)
    BY DEF SignUp, Starts, At, CredInv, JobsFit, JobFits
  <2>8. JobFits(r)'
    BY <2>1, <2>2, <2>7 DEF JobFits, Within
  <2>9. LockOpen' => LockOpen
    BY <2>1, <2>3 DEF LockOpen
  <2>10. ASSUME NEW q \in Requests, q # r PROVE JobFits(q)'
    BY <2>1, <2>2, <2>9, <2>10 DEF CredInv, JobsFit, JobFits
  <2> QED
    BY <2>4, <2>5, <2>6, <2>8, <2>10 DEF CredInv, JobsFit
<1> QED
  BY <1>1, <1>2

-----------------------------------------------------------------------------
(* Links *)

LEMMA TokenInsertKeeps == ASSUME CredInv, NEW r \in Requests, TokenInsert(r) PROVE CredInv'
<1>0. /\ token \in [Requests -> Links] /\ JobFits(r) /\ job[r] \in Jobs
      /\ token[r].state = "none" /\ job[r].pc = "insert"
  BY DEF TokenInsert, At, CredInv, TypeOK, JobsFit, JobFits
<1>1. /\ job' \in [Requests -> Jobs] /\ \A q \in Requests : q # r => job'[q] = job[q]
      /\ job'[r].pc = "send" /\ job'[r].link = job[r].link
  BY GotoFacts, PlaceNames DEF TokenInsert, CredInv, TypeOK
<1>2. UNCHANGED <<account, binding, grants, session, held, now, ops, history>>
  BY DEF TokenInsert, environment
<1> DEFINE p == LinkOf(job[r].kind)
           over == Superseded(job[r].seen)
           new == [state |-> "live", purpose |-> p, expires |-> job[r].at + Life[p],
                   offered |-> job[r].list]
           kept(t) == [token[t] EXCEPT !.state = IF t \in over THEN "superseded" ELSE token[t].state]
<1>3. token' = [t \in Requests |-> IF t = r THEN new ELSE kept(t)]
  BY DEF TokenInsert
<1>4. new \in Links /\ new.state = "live"
  BY <1>0, KindFacts, CredentialsAssumption DEF Links, Jobs
<1>5. ASSUME NEW t \in Requests
      PROVE  /\ kept(t) \in Links
             /\ kept(t).state = IF t \in over THEN "superseded" ELSE token[t].state
  BY <1>0 DEF Links
<1> HIDE DEF new, kept
<1>6. /\ token' \in [Requests -> Links] /\ token'[r].state = "live"
      /\ \A t \in Requests : t # r =>
           token'[t].state = IF t \in over THEN "superseded" ELSE token[t].state
  BY <1>3, <1>4, <1>5
<1>7. \A t \in over : token[t].state = "live" /\ t \in job[r].seen
  BY DEF Superseded
<1> HIDE DEF over
<1>9. \A q \in Requests : job'[q].link = job[q].link
  BY <1>1
<1>10. TypeOK'
  BY <1>1, <1>2, <1>6 DEF CredInv, TypeOK
\* A link that was redeemed is not superseded, and is not the new one.
<1>11. LinkOnce'
  <2>1. ASSUME NEW q \in Requests, job[q].link # None PROVE token'[job[q].link].state = "consumed"
    <3>1. job[q].link \in Requests /\ token[job[q].link].state = "consumed"
      BY <2>1 DEF CredInv, LinkOnce, TypeOK, Jobs
    <3> QED
      BY <1>0, <1>6, <1>7, <3>1
  <2> QED
    BY <1>9, <2>1 DEF CredInv, LinkOnce
<1>14. JobFits(r)'
  BY <1>0, <1>1, <1>2 DEF JobFits, Within
<1>15. ASSUME NEW q \in Requests, q # r PROVE JobFits(q)'
  <2>1. token'[q].state # "none" => token[q].state # "none"
    BY <1>6, <1>7, <1>15
  <2> QED
    BY <1>1, <1>2, <1>15, <2>1 DEF CredInv, JobsFit, JobFits, LockOpen
<1>16. OneSurvivor' /\ GrantsMatch'
  BY <1>2 DEF CredInv, OneSurvivor, GrantsMatch
<1> QED
  BY <1>10, <1>11, <1>14, <1>15, <1>16 DEF CredInv, JobsFit

LEMMA DeliverKeeps == ASSUME CredInv, NEW r \in Requests, Deliver(r) PROVE CredInv'
<1>1. /\ job' \in [Requests -> Jobs] /\ \A q \in Requests : q # r => job'[q] = job[q]
      /\ job'[r].pc = "done" /\ job'[r].link = job[r].link
  BY GotoFacts, PlaceNames DEF Deliver, CredInv, TypeOK
<1>2. /\ UNCHANGED <<account, binding, grants, token, session, now, ops, history>>
      /\ held' \subseteq Requests
  BY DEF Deliver, rows, CredInv, TypeOK
<1>3. \A q \in Requests : job'[q].link = job[q].link
  BY <1>1
<1>4. TypeOK' /\ LinkOnce'
  BY <1>1, <1>2, <1>3 DEF CredInv, TypeOK, LinkOnce
<1>5. JobFits(r)'
  BY <1>1, <1>2 DEF CredInv, JobsFit, JobFits, Within
<1>6. ASSUME NEW q \in Requests, q # r PROVE JobFits(q)'
  BY <1>1, <1>2, <1>6 DEF CredInv, JobsFit, JobFits, LockOpen
<1> QED
  BY <1>2, <1>4, <1>5, <1>6 DEF CredInv, JobsFit, OneSurvivor, GrantsMatch

\* A request that redeems a link: it is the only one that goes on with it.
LEMMA RedeemKeeps ==
    ASSUME CredInv, NEW r \in Requests, NEW t \in Requests, NEW l \in Locations, Redeem(r, t, l)
    PROVE  CredInv'
<1>0. /\ token \in [Requests -> Links] /\ job \in [Requests -> Jobs] /\ JobFits(r)
      /\ token[r].state = "none" /\ job[r].pc = "new"
  BY DEF Redeem, At, CredInv, TypeOK, JobsFit, JobFits
<1>1. CASE ~Usable(t, Redeems[job[r].kind])
  <2>1. Goto(r, "done") /\ UNCHANGED <<rows, environment, history>>
    BY <1>1 DEF Redeem, rows
  <2> QED
    BY <2>1, GotoOnly, PlaceNames DEF Relies, Within
<1>2. CASE Usable(t, Redeems[job[r].kind])
  <2> DEFINE p == Redeemed[job[r].kind]
             want == IF job[r].kind = "choose" THEN l ELSE None
             one == [job EXCEPT ![r].pc = p]
             two == [one EXCEPT ![r].link = t]
  <2>1. /\ job' = [two EXCEPT ![r].want = want]
        /\ token' = [token EXCEPT ![t].state = "consumed"]
        /\ UNCHANGED <<account, binding, grants, session, held, now, ops, history>>
    BY <1>2 DEF Redeem, environment
  <2>2. p \in {"pick", "set", "mark"} /\ want \in Locations \cup {None}
    BY KindFacts DEF Redeem
  <2> HIDE DEF p, want
  <2>3. /\ one \in [Requests -> Jobs] /\ \A q \in Requests : q # r => one[q] = job[q]
        /\ one[r].pc = p
    BY <1>0, <2>2, PlaceNames DEF Jobs
  <2> HIDE DEF one
  <2>4. /\ two \in [Requests -> Jobs] /\ \A q \in Requests : q # r => two[q] = job[q]
        /\ two[r].pc = p /\ two[r].link = t
    BY <2>3 DEF Jobs
  <2> HIDE DEF two
  <2>5. /\ job' \in [Requests -> Jobs] /\ \A q \in Requests : q # r => job'[q] = job[q]
        /\ job'[r].pc = p /\ job'[r].link = t
    BY <2>1, <2>2, <2>4 DEF Jobs
  <2>6. /\ token' \in [Requests -> Links] /\ token'[t].state = "consumed" /\ token[t].state = "live"
        /\ \A u \in Requests : u # t => token'[u] = token[u]
    BY <1>0, <1>2, <2>1 DEF Links, Usable
  <2>7. TypeOK'
    BY <2>1, <2>5, <2>6 DEF CredInv, TypeOK
  <2>8. LinkOnce'
    <3>1. ASSUME NEW q \in Requests, q # r, job[q].link # None
          PROVE  job[q].link # t /\ job[q].link \in Requests /\ token[job[q].link].state = "consumed"
      BY <2>6, <3>1 DEF CredInv, LinkOnce, TypeOK, Jobs
    <3>2. \A q \in Requests : job'[q].link # None => token'[job'[q].link].state = "consumed"
      BY <2>5, <2>6, <3>1
    <3>3. ASSUME NEW q \in Requests, NEW u \in Requests, job'[q].link # None,
                 job'[u].link = job'[q].link
          PROVE  q = u
      BY <2>5, <3>1, <3>3, CredentialsAssumption DEF CredInv, LinkOnce
    <3> QED
      BY <3>2, <3>3 DEF LinkOnce
  <2>9. \A u \in Requests :
          /\ token'[u].state # "none" <=> token[u].state # "none"
          /\ token'[u].state = "live" => token[u].state = "live"
    BY <2>6
  <2>12. JobFits(r)'
    BY <1>0, <2>1, <2>2, <2>5, <2>9 DEF JobFits, Within
  <2>13. ASSUME NEW q \in Requests, q # r PROVE JobFits(q)'
    BY <2>1, <2>5, <2>9, <2>13 DEF CredInv, JobsFit, JobFits, LockOpen
  <2> QED
    BY <2>1, <2>7, <2>8, <2>12, <2>13 DEF CredInv, JobsFit, OneSurvivor, GrantsMatch
<1> QED
  BY <1>1, <1>2

-----------------------------------------------------------------------------
(* Sessions and passwords *)

\* What a step of one request leaves to the others, when no session disappears and no lock opens.
LEMMA OthersFit ==
    ASSUME CredInv, NEW r \in Requests, UNCHANGED <<token, now>>,
           \A q \in Requests : q # r => job'[q] = job[q],
           account'.lockUntil = 0 \/ account'.lockUntil = account.lockUntil,
           history'.opened = history.opened,
           \A s \in Requests :
             /\ session[s].state # "none" => session'[s].state # "none"
             /\ session'[s].state = "live" =>
                  \/ session[s].state = "live" /\ session'[s].during = session[s].during
                  \/ session'[s].during = Setting
    PROVE  \A q \in Requests : q # r => JobFits(q)'
<1>1. LockOpen' => LockOpen
  BY DEF LockOpen, CredInv, TypeOK
<1> SUFFICES ASSUME NEW q \in Requests, q # r PROVE JobFits(q)'
  OBVIOUS
<1>2. job[q] \in Jobs /\ JobFits(q)
  BY DEF CredInv, TypeOK, JobsFit
<1>3. job[q].pc = "commit" => q \in Setting
  BY DEF Setting, At
<1> QED
  BY <1>1, <1>2, <1>3 DEF JobFits, Within

\* The links of the requests stay as they are.
LEMMA LinksSame ==
    ASSUME CredInv, NEW r \in Requests, UNCHANGED token,
           \A q \in Requests : q # r => job'[q] = job[q],
           job'[r].link = job[r].link
    PROVE  LinkOnce'
<1>1. \A q \in Requests : job'[q].link = job[q].link
  OBVIOUS
<1> QED
  BY <1>1 DEF CredInv, LinkOnce

LEMMA IssueSessionKeeps == ASSUME CredInv, NEW r \in Requests, IssueSession(r) PROVE CredInv'
<1>1. /\ JobFits(r) /\ job \in [Requests -> Jobs] /\ session \in [Requests -> Sessions]
      /\ job[r].loc \in Locations /\ token[r].state = "none"
  BY DEF IssueSession, At, CredInv, TypeOK, JobsFit, JobFits
<1>2. CASE ~(account.active /\ binding[job[r].loc] # 0)
  <2>1. Goto(r, "done") /\ UNCHANGED <<rows, environment, history>>
    BY <1>2 DEF IssueSession, rows
  <2> QED
    BY <2>1, GotoOnly, PlaceNames DEF Relies, Within
<1>3. CASE account.active /\ binding[job[r].loc] # 0
  <2> DEFINE new == [state |-> "live", loc |-> job[r].loc, version |-> binding[job[r].loc],
                     expires |-> now + SessionLife, epoch |-> account.password,
                     during |-> Setting]
  <2>1. /\ session' = [session EXCEPT ![r] = new]
        /\ \E p \in {"done", "token"} : Goto(r, p)
        /\ UNCHANGED <<account, binding, grants, token, held, now, ops, history>>
    BY <1>3 DEF IssueSession, environment
  <2>2. /\ new \in Sessions /\ new.state = "live" /\ new.version # 0
        /\ new.epoch = account.password /\ new.during = Setting
    BY <1>1, <1>3, CredentialsAssumption DEF Sessions, Setting, CredInv, TypeOK
  <2> HIDE DEF new
  <2>3. PICK p \in {"done", "token"} : Goto(r, p)
    BY <2>1
  <2>4. /\ job' \in [Requests -> Jobs] /\ \A q \in Requests : q # r => job'[q] = job[q]
        /\ job'[r].pc = p /\ job'[r].link = job[r].link
    BY <1>1, <2>3, GotoFacts, PlaceNames
  <2>5. session' \in [Requests -> Sessions] /\ session'[r] = new
        /\ \A s \in Requests : s # r => session'[s] = session[s]
    BY <1>1, <2>1, <2>2
  <2>6. TypeOK'
    BY <2>1, <2>4, <2>5 DEF CredInv, TypeOK
  <2>7. LinkOnce'
    BY <2>1, <2>4, LinksSame
  <2>8. OneSurvivor' /\ GrantsMatch'
    BY <2>1, <2>2, <2>5 DEF CredInv, OneSurvivor, GrantsMatch
  <2>9. \A s \in Requests :
          /\ session[s].state # "none" => session'[s].state # "none"
          /\ session'[s].state = "live" =>
               \/ session[s].state = "live" /\ session'[s].during = session[s].during
               \/ session'[s].during = Setting
    BY <2>2, <2>5
  <2>10. \A q \in Requests : q # r => JobFits(q)'
    BY <2>1, <2>4, <2>9, OthersFit
  <2>11. JobFits(r)'
    BY <1>1, <2>1, <2>4 DEF JobFits, Within
  <2> QED
    BY <2>6, <2>7, <2>8, <2>10, <2>11 DEF CredInv, JobsFit
<1> QED
  BY <1>2, <1>3

\* The activity is looked at first, in both ways to a new password.
LEMMA SettingStartsKeeps ==
    ASSUME CredInv, NEW r \in Requests, ResetSet(r) \/ ChangeSet(r) PROVE CredInv'
<1>1. \E p \in {"update", "done"} : Goto(r, p)
  BY DEF ResetSet, ChangeSet
<1> QED
  BY <1>1, GotoOnly, PlaceNames DEF ResetSet, ChangeSet, At, Relies, Within

\* The update looks at every session there is.
LEMMA UpdateCredentialKeeps ==
    ASSUME CredInv, NEW r \in Requests, UpdateCredential(r) PROVE CredInv'
<1>1. job \in [Requests -> Jobs] /\ token[r].state = "none"
  BY DEF UpdateCredential, At, CredInv, TypeOK, JobsFit, JobFits
<1> DEFINE seen == {s \in Requests : session[s].state = "live" /\ s # job[r].sess}
           mid == [job EXCEPT ![r].pc = "commit"]
<1>2. job' = [mid EXCEPT ![r].seen = seen]
  BY DEF UpdateCredential
<1>3. /\ seen \in SUBSET Requests
      /\ \A s \in Requests : session[s].state = "live" => s = job[r].sess \/ s \in seen
  OBVIOUS
<1> HIDE DEF seen
<1>4. /\ mid \in [Requests -> Jobs] /\ \A q \in Requests : q # r => mid[q] = job[q]
      /\ mid[r].pc = "commit" /\ mid[r].link = job[r].link /\ mid[r].sess = job[r].sess
  BY <1>1, PlaceNames DEF Jobs
<1> HIDE DEF mid
<1>5. /\ job' \in [Requests -> Jobs] /\ \A q \in Requests : q # r => job'[q] = job[q]
      /\ job'[r].pc = "commit" /\ job'[r].seen = seen /\ job'[r].link = job[r].link
      /\ job'[r].sess = job[r].sess
  BY <1>2, <1>3, <1>4 DEF Jobs
<1> QED
  <2>1. /\ UNCHANGED <<account, binding, grants, token, session, held, now, ops, history>>
        /\ At(r, "update")
    BY DEF UpdateCredential, rows, environment
  <2> QED
    BY <1>1, <1>3, <1>5, <2>1, JobOnly DEF UpdateCredential, Within

\* A new password: what it writes of the credential and of the sessions.
LEMMA SetPasswordFacts ==
    ASSUME CredInv, NEW r \in Requests, SetPassword(r)
    PROVE  /\ account' \in Account /\ account'.password = account.password + 1
           /\ account'.lockUntil = 0
           /\ session' \in [Requests -> Sessions]
           /\ \A s \in Requests :
                /\ session'[s].state = "live" => session[s].state = "live" /\ s \notin job[r].seen
                /\ session'[s].state # "none" <=> session[s].state # "none"
                /\ session'[s].version = session[s].version
                /\ session'[s].during = session[s].during
<1>1. account \in Account /\ session \in [Requests -> Sessions]
  BY DEF CredInv, TypeOK, Account
<1> DEFINE set == [account EXCEPT !.password = account.password + 1]
<1>2. account.password + 1 \in Nat
  BY <1>1 DEF Account
<1>3. set.password = account.password + 1
  BY <1>1 DEF Account
<1>4. account' = [set EXCEPT !.fails = 0, !.lockUntil = 0]
  BY DEF SetPassword
<1>5. set = account \/ \E n \in Nat : set = [account EXCEPT !.password = n]
  BY <1>2
<1> HIDE DEF set
<1>6. account' \in Account /\ account'.password = account.password + 1 /\ account'.lockUntil = 0
  BY <1>1, <1>3, <1>4, <1>5, ClearedFacts
<1>7. ASSUME NEW s \in Requests
      PROVE  /\ Kept(r, s) \in {"none", "live", "replaced", "signedOut"}
             /\ Kept(r, s) = "live" => session[s].state = "live" /\ s \notin job[r].seen
             /\ Kept(r, s) # "none" <=> session[s].state # "none"
  BY <1>1 DEF Kept, Sessions
<1>8. ASSUME NEW s \in Requests
      PROVE  /\ [session[s] EXCEPT !.state = Kept(r, s)] \in Sessions
             /\ [session[s] EXCEPT !.state = Kept(r, s)].state = Kept(r, s)
             /\ [session[s] EXCEPT !.state = Kept(r, s)].version = session[s].version
             /\ [session[s] EXCEPT !.state = Kept(r, s)].during = session[s].during
  BY <1>1, <1>7 DEF Sessions
<1>9. session' = [s \in Requests |-> [session[s] EXCEPT !.state = Kept(r, s)]]
  BY DEF SetPassword
<1>10. /\ session' \in [Requests -> Sessions]
       /\ \A s \in Requests :
            /\ session'[s].state = Kept(r, s) /\ session'[s].version = session[s].version
            /\ session'[s].during = session[s].during
  BY <1>8, <1>9
<1> QED
  BY <1>6, <1>7, <1>10

\* A new password: how the request goes on, and what is noted of it.
LEMMA SetterFacts ==
    ASSUME CredInv, NEW r \in Requests, SetPassword(r)
    PROVE  /\ job' \in [Requests -> Jobs] /\ \A q \in Requests : q # r => job'[q] = job[q]
           /\ job'[r].pc \in {"bind", "done"} /\ job'[r].link = job[r].link
           /\ history' \in Histories
           /\ history'.opened = history.opened /\ history'.ended = history.ended
           /\ history'.setter = r /\ history'.spared = job[r].sess
<1>1. /\ job \in [Requests -> Jobs] /\ history \in Histories
      /\ job[r].sess \in Requests \cup {None}
  BY DEF CredInv, TypeOK, Jobs
<1> DEFINE p == IF job[r].kind = "reset" THEN "bind" ELSE "done"
           set == [history EXCEPT !.setter = r]
<1>2. Goto(r, p)
  BY DEF SetPassword
<1>3. p \in Places /\ p \in {"bind", "done"}
  BY PlaceNames
<1> HIDE DEF p
<1>4. /\ job' \in [Requests -> Jobs] /\ \A q \in Requests : q # r => job'[q] = job[q]
      /\ job'[r].pc = p /\ job'[r].link = job[r].link
  BY <1>1, <1>2, <1>3 DEF Goto, Jobs
<1>5. history' = [set EXCEPT !.spared = job[r].sess]
  BY DEF SetPassword
<1>6. /\ set \in Histories /\ set.opened = history.opened /\ set.ended = history.ended
      /\ set.setter = r
  BY <1>1 DEF Histories
<1> HIDE DEF set
<1>7. /\ history' \in Histories
      /\ history'.opened = history.opened /\ history'.ended = history.ended
      /\ history'.setter = r /\ history'.spared = job[r].sess
  BY <1>1, <1>5, <1>6 DEF Histories
<1> QED
  BY <1>3, <1>4, <1>7

\* What is alive after a new password was spared or was issued while it was being set.
LEMMA SetPasswordKeeps == ASSUME CredInv, NEW r \in Requests, SetPassword(r) PROVE CredInv'
<1>1. /\ account' \in Account /\ account'.password = account.password + 1
      /\ account'.lockUntil = 0
      /\ session' \in [Requests -> Sessions]
      /\ \A s \in Requests :
           /\ session'[s].state = "live" => session[s].state = "live" /\ s \notin job[r].seen
           /\ session'[s].state # "none" <=> session[s].state # "none"
           /\ session'[s].version = session[s].version
           /\ session'[s].during = session[s].during
  BY SetPasswordFacts
<1>2. /\ job' \in [Requests -> Jobs] /\ \A q \in Requests : q # r => job'[q] = job[q]
      /\ job'[r].pc \in {"bind", "done"} /\ job'[r].link = job[r].link
      /\ history' \in Histories
      /\ history'.opened = history.opened /\ history'.ended = history.ended
      /\ history'.setter = r /\ history'.spared = job[r].sess
  BY SetterFacts
<1>3. UNCHANGED <<binding, grants, token, held, now, ops>>
  BY DEF SetPassword, environment
<1>4. TypeOK'
  BY <1>1, <1>2, <1>3 DEF CredInv, TypeOK, Account
<1>5. LinkOnce'
  BY <1>2, <1>3, LinksSame
<1>6. JobFits(r) /\ job[r].pc = "commit"
  BY DEF SetPassword, At, CredInv, JobsFit
<1>7. OneSurvivor' /\ GrantsMatch'
  <2>1. ASSUME NEW s \in Requests, session'[s].state = "live"
        PROVE  s = history'.spared \/ history'.setter \in session'[s].during
    BY <1>1, <1>2, <1>6, <2>1 DEF JobFits
  <2>2. GrantsMatch'
    BY <1>1, <1>2, <1>3 DEF CredInv, GrantsMatch
  <2> QED
    BY <2>1, <2>2 DEF OneSurvivor
<1>8. \A q \in Requests : q # r => JobFits(q)'
  BY <1>1, <1>2, <1>3, OthersFit
<1>9. JobFits(r)'
  BY <1>2, <1>3, <1>6 DEF JobFits, Within
<1> QED
  BY <1>4, <1>5, <1>7, <1>8, <1>9 DEF CredInv, JobsFit

LEMMA RevokeKeeps == ASSUME CredInv, NEW r \in Requests, Revoke(r) PROVE CredInv'
<1>1. /\ JobFits(r) /\ job \in [Requests -> Jobs] /\ session \in [Requests -> Sessions]
      /\ job[r].sess \in Requests /\ token[r].state = "none"
  BY DEF Revoke, At, Within, CredInv, TypeOK, JobsFit, JobFits
<1>2. PICK s \in Requests : s = job[r].sess
  BY <1>1
<1> DEFINE state == IF session[s].state = "live" THEN "signedOut" ELSE session[s].state
<1>3. session' = [session EXCEPT ![s].state = state]
  BY <1>2 DEF Revoke
<1>4. /\ state \in {"none", "live", "replaced", "signedOut"}
      /\ state # "live" /\ (state # "none" <=> session[s].state # "none")
  BY <1>1 DEF Sessions
<1> HIDE DEF state
<1>5. /\ session' \in [Requests -> Sessions]
      /\ \A q \in Requests :
           /\ session'[q].state = "live" => session[q].state = "live"
           /\ session'[q].state # "none" <=> session[q].state # "none"
           /\ session'[q].version = session[q].version /\ session'[q].epoch = session[q].epoch
           /\ session'[q].during = session[q].during
  BY <1>1, <1>3, <1>4 DEF Sessions
<1>6. UNCHANGED <<account, binding, grants, token, held, now, ops, history>>
  BY DEF Revoke, environment
<1>7. /\ job' \in [Requests -> Jobs] /\ \A q \in Requests : q # r => job'[q] = job[q]
      /\ job'[r].pc = "done" /\ job'[r].link = job[r].link
  BY <1>1, GotoFacts, PlaceNames DEF Revoke
<1>8. TypeOK'
  BY <1>5, <1>6, <1>7 DEF CredInv, TypeOK
<1>9. LinkOnce'
  BY <1>6, <1>7, LinksSame
<1>10. OneSurvivor' /\ GrantsMatch'
  BY <1>5, <1>6 DEF CredInv, OneSurvivor, GrantsMatch
<1>11. \A q \in Requests : q # r => JobFits(q)'
  BY <1>5, <1>6, <1>7, OthersFit
<1>12. JobFits(r)'
  BY <1>1, <1>6, <1>7 DEF JobFits, Within
<1> QED
  BY <1>8, <1>9, <1>10, <1>11, <1>12 DEF CredInv, JobsFit

-----------------------------------------------------------------------------
(* The clock, the operators, and every step *)

\* No request moves, and no lock opens.
LEMMA NobodyMoves ==
    ASSUME CredInv, UNCHANGED <<token, session, job, held>>, now' \in Nat, now' >= now,
           account' \in Account, account'.password = account.password,
           account'.lockUntil = account.lockUntil,
           binding' \in [Locations -> Nat], grants' \in Nat, ops' \in Nat,
           history' \in Histories,
           history'.opened = history.opened, history'.spared = history.spared,
           history'.setter = history.setter,
           \A l \in Locations :
             /\ binding'[l] <= grants' /\ history'.ended[l] <= grants'
             /\ binding'[l] # 0 => binding'[l] > history'.ended[l]
    PROVE  CredInv'
<1>1. TypeOK'
  BY DEF CredInv, TypeOK, Account
<1>2. LinkOnce' /\ OneSurvivor' /\ GrantsMatch'
  BY DEF CredInv, LinkOnce, OneSurvivor, GrantsMatch
<1>3. LockOpen' => LockOpen
  BY DEF LockOpen, CredInv, TypeOK
<1>4. ASSUME NEW r \in Requests PROVE JobFits(r)'
  <2>1. job[r].at \in Nat /\ now \in Nat /\ JobFits(r)
    BY DEF CredInv, TypeOK, Jobs, JobsFit
  <2> QED
    BY <1>3, <2>1 DEF JobFits
<1> QED
  BY <1>1, <1>2, <1>4 DEF CredInv, JobsFit

LEMMA TickKeeps == ASSUME CredInv, Tick PROVE CredInv'
<1>1. now' \in Nat /\ now' >= now /\ account \in Account
  BY DEF Tick, CredInv, TypeOK, Account
<1> QED
  BY <1>1, NobodyMoves DEF Tick, rows, CredInv, TypeOK, GrantsMatch

LEMMA OperatorKeeps == ASSUME CredInv, Operator PROVE CredInv'
<1>1. /\ account \in Account /\ binding \in [Locations -> Nat] /\ grants \in Nat
      /\ history \in Histories
      /\ now \in Nat /\ ops \in Nat
  BY DEF CredInv, TypeOK, Account
<1>2. \A l \in Locations :
        /\ binding[l] <= grants /\ history.ended[l] <= grants
        /\ binding[l] # 0 => binding[l] > history.ended[l]
  BY DEF CredInv, GrantsMatch
<1>3. CASE SuspendOrReinstate
  <2>1. /\ account' \in Account /\ account'.password = account.password
        /\ account'.lockUntil = account.lockUntil
    BY <1>1, <1>3 DEF SuspendOrReinstate, Account
  <2> QED
    BY <1>1, <1>2, <1>3, <2>1, NobodyMoves DEF SuspendOrReinstate, Intervenes
<1>4. ASSUME NEW l \in Locations, Grant(l) PROVE CredInv'
  <2>1. /\ grants' = grants + 1 /\ binding' = [binding EXCEPT ![l] = grants + 1]
        /\ ops' = ops + 1 /\ UNCHANGED <<token, session, job, held, now, account, history>>
    BY <1>4 DEF Grant, Intervenes
  <2>2. \A k \in Locations :
          /\ binding'[k] <= grants' /\ history.ended[k] <= grants'
          /\ binding'[k] # 0 => binding'[k] > history.ended[k]
    BY <1>1, <1>2, <2>1 DEF Histories
  <2> QED
    BY <1>1, <2>1, <2>2, NobodyMoves
<1>5. ASSUME NEW l \in Locations, EndGrant(l) PROVE CredInv'
  <2>1. /\ binding' = [binding EXCEPT ![l] = 0]
        /\ history' = [history EXCEPT !.ended[l] = binding[l]]
        /\ ops' = ops + 1 /\ UNCHANGED <<token, session, job, held, now, account, grants>>
    BY <1>5 DEF EndGrant, Intervenes
  <2> DEFINE ended == [history.ended EXCEPT ![l] = binding[l]]
  <2>2. history' = [history EXCEPT !.ended = ended]
    BY <2>1
  <2>3. /\ ended \in [Locations -> Nat] /\ ended[l] = binding[l]
        /\ \A k \in Locations : k # l => ended[k] = history.ended[k]
    BY <1>1 DEF Histories
  <2> HIDE DEF ended
  <2>4. /\ history' \in Histories
        /\ history'.opened = history.opened /\ history'.spared = history.spared
        /\ history'.setter = history.setter /\ history'.ended = ended
    BY <1>1, <2>2, <2>3 DEF Histories
  <2>5. \A k \in Locations :
          /\ binding'[k] <= grants' /\ history'.ended[k] <= grants'
          /\ binding'[k] # 0 => binding'[k] > history'.ended[k]
    BY <1>1, <1>2, <2>1, <2>3, <2>4
  <2>6. binding' \in [Locations -> Nat] /\ ops' \in Nat
    BY <1>1, <2>1
  <2> QED
    BY <1>1, <2>1, <2>4, <2>5, <2>6, NobodyMoves
<1> QED
  BY <1>3, <1>4, <1>5 DEF Operator

LEMMA CredInit == Init => CredInv
<1> SUFFICES ASSUME NEW mix \in Mixes, InitOf(mix) PROVE CredInv
  BY DEF Init
<1>1. Cardinality(Locations) \in Nat
  BY FS_CardinalityType, CredentialsAssumption
<1>2. /\ mix.kind \in [Requests -> Kinds] /\ mix.standing \in BOOLEAN
      /\ mix.granted \in [Locations -> Nat]
      /\ \A l \in Locations : mix.granted[l] # 0 => mix.granted[l] <= Cardinality(Locations)
  BY CredentialsAssumption
<1>3. /\ binding = mix.granted /\ grants = Cardinality(Locations)
      /\ token = [r \in Requests |-> NoToken] /\ session = [r \in Requests |-> NoSession]
      /\ job = [r \in Requests |-> NewJob(mix.kind[r])]
      /\ history = [opened |-> 0, setter |-> None, spared |-> None,
                    ended |-> [l \in Locations |-> 0]]
  BY DEF InitOf
<1>4. NoToken \in Links /\ NoToken.state = "none"
  BY DEF NoToken, Links, Purposes
<1>5. NoSession \in Sessions /\ NoSession.state = "none"
  BY CredentialsAssumption DEF NoSession, Sessions
<1>6. ASSUME NEW kind \in Kinds
      PROVE  /\ NewJob(kind) \in Jobs /\ NewJob(kind).pc = "new"
             /\ NewJob(kind).link = None
  BY PlaceNames DEF NewJob, Jobs
<1>7. /\ job \in [Requests -> Jobs]
      /\ \A r \in Requests : job[r].pc = "new" /\ job[r].link = None
  BY <1>2, <1>3, <1>6
<1>8. account \in Account
  BY <1>2 DEF InitOf, Account
<1>9. TypeOK
  BY <1>1, <1>2, <1>3, <1>4, <1>5, <1>7, <1>8 DEF InitOf, TypeOK, Account, Histories
<1>10. LinkOnce /\ OneSurvivor
  BY <1>3, <1>4, <1>5, <1>7 DEF LinkOnce, OneSurvivor
<1>11. JobsFit
  BY <1>3, <1>4, <1>7 DEF JobsFit, JobFits, Within
<1>12. GrantsMatch
  BY <1>1, <1>2, <1>3, <1>5 DEF GrantsMatch
<1> QED
  BY <1>9, <1>10, <1>11, <1>12 DEF CredInv

LEMMA StepKeeps == ASSUME CredInv, NEW r \in Requests, Step(r) PROVE CredInv'
BY SignInKeeps, FailBeginKeeps, FailWaitedKeeps, FailCountKeeps, SucceedKeeps, BindingsKeeps, PickKeeps,
   IssueSessionKeeps, TokenBeginKeeps, TokenInsertKeeps, DeliverKeeps, RedeemKeeps, MarkKeeps,
   ForgotKeeps, SignUpKeeps, UseSessionKeeps, AdmissionKeeps, SettingStartsKeeps,
   UpdateCredentialKeeps, SetPasswordKeeps, RevokeKeeps, StopKeeps DEF Step

LEMMA CredNext == CredInv /\ [Next]_vars => CredInv'
<1> SUFFICES ASSUME CredInv, [Next]_vars PROVE CredInv'
  OBVIOUS
<1>1. CASE UNCHANGED vars
  <2>1. UNCHANGED <<token, session, job, held, now, account, binding, grants, ops, history>>
    BY <1>1 DEF vars, rows, environment
  <2> QED
    BY <2>1, NobodyMoves DEF CredInv, TypeOK, Account, GrantsMatch
<1>2. CASE Next
  BY <1>2, StepKeeps, TickKeeps, OperatorKeeps DEF Next
<1> QED
  BY <1>1, <1>2

LEMMA CredAlways == Spec => []CredInv
BY CredInit, CredNext, PTL DEF Spec

-----------------------------------------------------------------------------
(* The results *)

\* Every variable keeps its type.
THEOREM CredentialsTyped == Spec => []TypeOK
BY CredAlways, PTL DEF CredInv

\* A link is redeemed once, whatever requests race for it (consume_credential_token).
THEOREM LinksAreSingleUse == Spec => []LinkOnce
BY CredAlways, PTL DEF CredInv

\* Of the sessions of an older password those survive that the latest change spared, or that were
\* issued while it was being committed, and no others (set_password,
\* revoke_all_first_party_sessions_for_user).
THEOREM OneSessionSurvives == Spec => []OneSurvivor
BY CredAlways, PTL DEF CredInv

\* The steps that do not write when the lock ends.
LEMMA LockStays ==
    ASSUME CredInv, NEW r \in Requests, Step(r), account'.lockUntil # account.lockUntil
    PROVE  FailCount(r) \/ Succeed(r) \/ SetPassword(r)
<1>1. account \in Account
  BY DEF CredInv, TypeOK, Account
<1>2. ASSUME SignUp(r) PROVE account'.lockUntil = account.lockUntil
  <2> DEFINE mid == [account EXCEPT !.open = TRUE]
  <2>1. account' = account \/ account' = [mid EXCEPT !.active = TRUE]
    BY <1>2 DEF SignUp
  <2>2. mid \in Account /\ mid.lockUntil = account.lockUntil
    BY <1>1 DEF Account
  <2> HIDE DEF mid
  <2> QED
    BY <2>1, <2>2 DEF Account
<1>3. ASSUME Mark(r) PROVE account'.lockUntil = account.lockUntil
  BY <1>1, <1>3 DEF Mark, Account
<1>4. ASSUME \/ \E right \in BOOLEAN : SignIn(r, right) \/ ChangeVerify(r, right)
             \/ FailBegin(r) \/ FailWaited(r) \/ Bindings(r) \/ Pick(r) \/ TokenBegin(r) \/ Forgot(r)
             \/ \E s \in Requests : UseSession(r, s)
             \/ CheckRole(r) \/ Identify(r) \/ Resend(r) \/ Stop(r) \/ Deliver(r)
             \/ ResetSet(r) \/ ChangeSet(r) \/ UpdateCredential(r)
      PROVE  account' = account
  BY <1>4 DEF SignIn, ChangeVerify, FailBegin, FailWaited, Bindings, Pick, TokenBegin, Forgot,
              UseSession, CheckRole, Identify, Resend, Stop, Deliver, ResetSet, ChangeSet,
              UpdateCredential, rows
<1>5. ASSUME \/ IssueSession(r) \/ TokenInsert(r) \/ Revoke(r)
             \/ \E t \in Requests, l \in Locations : Redeem(r, t, l)
      PROVE  account' = account
  BY <1>5 DEF IssueSession, TokenInsert, Revoke, Redeem
<1> QED
  BY <1>2, <1>3, <1>4, <1>5 DEF Step

\* An open lock moves only by a success or a failure that was decided before it opened, or by a new
\* password (handlePasswordSignIn, record_password_sign_in_failure).
THEOREM AttemptsLeaveTheLock == Spec => LockIsFixed
<1>1. CredInv /\ [Next]_vars =>
        [LockOpen /\ account'.lockUntil # account.lockUntil =>
           \/ account'.password # account.password
           \/ \E r \in Requests :
                /\ job[r].at <= history.opened
                /\ \/ At(r, "succeed") /\ job'[r].pc = "bind"
                   \/ At(r, "count") /\ job'[r].pc = "done"]_vars
  <2> SUFFICES ASSUME CredInv, Next, LockOpen, account'.lockUntil # account.lockUntil,
                      account'.password = account.password
               PROVE  \E r \in Requests :
                        /\ job[r].at <= history.opened
                        /\ \/ At(r, "succeed") /\ job'[r].pc = "bind"
                           \/ At(r, "count") /\ job'[r].pc = "done"
    OBVIOUS
  <2>1. account \in Account /\ job \in [Requests -> Jobs]
    BY DEF CredInv, TypeOK, Account
  <2>2. ~Tick
    BY DEF Tick, rows
  <2>3. ~Operator
    BY <2>1 DEF Operator, SuspendOrReinstate, Grant, EndGrant, Account
  <2>4. PICK r \in Requests : Step(r)
    BY <2>2, <2>3 DEF Next
  <2>5. JobFits(r)
    BY DEF CredInv, JobsFit
  <2>6. CASE FailCount(r)
    <3>1. job'[r].pc = "done"
      BY <2>1, <2>6, GotoFacts, PlaceNames DEF FailCount
    <3> QED
      BY <2>5, <2>6, <3>1 DEF FailCount, At, JobFits
  <2>7. CASE Succeed(r)
    <3>1. job'[r].pc = "bind"
      BY <2>1, <2>7, GotoFacts, PlaceNames DEF Succeed
    <3> QED
      BY <2>5, <2>7, <3>1 DEF Succeed, At, JobFits
  <2>8. ~SetPassword(r)
    BY <2>1, SetPasswordFacts DEF Account
  <2> QED
    BY <2>4, <2>6, <2>7, <2>8, LockStays
<1> QED
  BY <1>1, CredAlways, PTL DEF Spec, LockIsFixed

\* A request moves only itself.
LEMMA MovesOne ==
    ASSUME CredInv, NEW r \in Requests, Step(r)
    PROVE  \A q \in Requests : q # r => job'[q] = job[q]
<1> SUFFICES ASSUME NEW q \in Requests, q # r PROVE job'[q] = job[q]
  OBVIOUS
<1>1. job \in [Requests -> Jobs]
  BY DEF CredInv, TypeOK
<1>2. ASSUME NEW p, Goto(r, p) PROVE job'[q] = job[q]
  BY <1>1, <1>2 DEF Goto
<1>3. ASSUME \/ \E right \in BOOLEAN : ChangeVerify(r, right)
             \/ FailWaited(r) \/ FailCount(r) \/ Succeed(r) \/ IssueSession(r) \/ TokenInsert(r)
             \/ Deliver(r) \/ Mark(r) \/ Forgot(r) \/ CheckRole(r) \/ Identify(r) \/ Resend(r)
             \/ ResetSet(r) \/ ChangeSet(r) \/ Revoke(r) \/ Stop(r)
      PROVE  job'[q] = job[q]
  <2>1. \E p : Goto(r, p)
    BY <1>3, SMTT(30) DEF ChangeVerify, FailWaited, FailCount, Succeed, IssueSession, TokenInsert,
                Deliver, Mark, Forgot, CheckRole, Identify, Resend, ResetSet, ChangeSet, Revoke, Stop
  <2> QED
    BY <1>2, <2>1
<1>4. ASSUME \/ FailBegin(r) \/ Bindings(r) \/ Pick(r) \/ TokenBegin(r) \/ SignUp(r)
             \/ \E right \in BOOLEAN : SignIn(r, right)
             \/ \E s \in Requests : UseSession(r, s)
             \/ UpdateCredential(r) \/ SetPassword(r)
             \/ \E t \in Requests, l \in Locations : Redeem(r, t, l)
      PROVE  job'[q] = job[q]
  BY <1>1, <1>4 DEF FailBegin, Bindings, Pick, TokenBegin, SignUp, SignIn, UseSession,
              UpdateCredential, SetPassword, Redeem, Goto
<1> QED
  BY <1>3, <1>4 DEF Step

\* Only the check of the role moves a request from there to its work.
LEMMA CheckedByRole ==
    ASSUME CredInv, NEW r \in Requests, Step(r), At(r, "check"), job'[r].pc = "identify"
    PROVE  CheckRole(r)
<1>1. job \in [Requests -> Jobs]
  BY DEF CredInv, TypeOK
<1>2. ~Stop(r)
  BY <1>1, GotoFacts, PlaceNames DEF Stop
<1> QED
  BY <1>2 DEF Step, At, Starts, SignIn, ChangeVerify, FailBegin, FailWaited, FailCount, Succeed,
              Bindings, Pick, IssueSession, TokenBegin, TokenInsert, Deliver, Redeem, Mark, Forgot,
              SignUp, UseSession, Identify, Resend, ResetSet, ChangeSet, UpdateCredential,
              SetPassword, Revoke

\* A session never admits a request under a grant given after its own had ended
\* (current_role_version).
THEOREM SessionsStayEnded == Spec => NoRevival
<1>1. CredInv /\ [Next]_vars =>
        [\A r \in Requests :
           At(r, "check") /\ job'[r].pc = "identify" =>
             LET s == session[job[r].sess] IN s.version > history.ended[s.loc]]_vars
  <2> SUFFICES ASSUME CredInv, Next, NEW r \in Requests, At(r, "check"), job'[r].pc = "identify"
               PROVE  session[job[r].sess].version > history.ended[session[job[r].sess].loc]
    OBVIOUS
  <2>1. job'[r] # job[r]
    BY DEF At
  <2>2. Step(r)
    BY <2>1, MovesOne DEF Next, Tick, Operator, SuspendOrReinstate, Grant, EndGrant, Intervenes
  <2>3. CheckRole(r)
    BY <2>2, CheckedByRole
  <2>4. job[r].sess \in Requests /\ session[job[r].sess].state # "none"
    BY DEF At, Within, CredInv, JobsFit, JobFits
  <2>5. PICK s \in Requests : s = job[r].sess
    BY <2>4
  <2>6. SameGrant(s)
    <3>1. job'[r].pc = IF account.active /\ SameGrant(s) THEN "identify" ELSE "done"
      BY <2>3, <2>5, GotoFacts, PlaceNames DEF CheckRole, CredInv, TypeOK
    <3> QED
      BY <3>1
  <2>7. session[s] \in Sessions
    BY DEF CredInv, TypeOK
  <2> QED
    BY <2>4, <2>5, <2>6, <2>7 DEF SameGrant, Sessions, CredInv, GrantsMatch
<1> QED
  BY <1>1, CredAlways, PTL DEF Spec, NoRevival
=============================================================================

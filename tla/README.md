# Verification of the Operation Automated LO core

This directory holds TLA+ modules of the parts of the repository where order,
concurrency and failure decide whether it is correct, the TLC configurations
that check them on small instances, and TLAPS proofs of what must hold for any
number of operations, workers and identities.

Everything is translated from the source. `PROJECT.json` maps each definition
to the lines it stands for; this file explains the models to a reader who has
the repository at hand.

## 1. The system and its parts

The repository is a multi-tenant web application for loan officers. A Next.js
application (`apps/web`) and a task runner (`apps/tasks`) call services in
`packages/*`; all durable state is in PostgreSQL, and most rules about it are
`security definer` procedures in `supabase/migrations`. The parts, the state
each keeps, and what makes each of them correct:

| Part | State | Operations | Correct when |
| --- | --- | --- | --- |
| **Webinar publisher lineage** (`20261014050000_webinar_publisher.sql`) | launch row, operations, attempts, outbox, admissions | command `load`/`reserve`/`pending`; worker `read`/`claim`/`dispatch`/`uncertain`/`checkpoint`; `admit` | at most one active operation; nothing sent twice; a stop is never fenced by itself; "cancelled" means nothing was sent |
| **Webinar publisher worker** (`apps/tasks/src/core/webinar-publisher-worker.ts`) | one record held across awaits | one bounded delivery over stages campaign, ad set, ad, parity, publish, progress, pause, resume, reconcile | every write recorded before it is sent; an ambiguous write is reconciled, never resent; what is shown agrees with the provider |
| Command service and repository (`packages/application/src/webinar-publisher-command.ts`, `packages/db/src/webinar-publisher-repository.ts`) | none; one serializable transaction per call | prepare, execute, claim, dispatch, checkpoint | a stale page is refused; a repeated request returns its first result |
| Transport and compiler (`packages/ghl/src/webinar-publisher-*.ts`) | none | one request, one decoded answer | a request leaves at most once per call |
| Relay, runtime, task (`apps/tasks/src/core/webinar-publisher-relay.ts`, `-runtime*.ts`) | none | scan the oldest pending outbox row, invoke the worker | every pending operation is eventually attempted or ended |
| Publisher authentication (`20261014130000`, `20261014160000`) | sessions, role bindings | currency checks under locks | one lock order |
| Delivery guard and durable foundation (`packages/db/src/delivery-guard.ts`, `packages/application/src/durable-foundation.ts`) | delivery claims, outbox events, provider operations | claim, complete, release, mark uncertain; sweep; execute | one handler per outcome; no completed outcome repeated |
| Publication cleanup (`packages/storage/src/production-object-store.ts`, `packages/db/src/publication-cleanup.ts`, the procedures of the platform foundation, `reconcile-publication-cleanup.ts`) | public bucket, cleanup intents | publish, withdraw, enqueue; sweep: claim, delete, complete, release | a partial publication does not stay public; every intent ends; what was published stays |
| Platform foundation (`20260721010000_platform_foundation.sql`) | tenants, roles, queue leases, outbox | leases and batches | a queue never runs above its limit |
| **Financing release** (`20261014051000`, `20261014120000`, `financing-release*.ts`) | evidence and its sources, releases with revisions, completed requests, inquiries with their admissions and deliveries | admit and withdraw evidence; prepare, approve, publish, reject, revoke; read, admit, capture, remove, purge | nothing is public without current evidence and an approval; what the owner is told is what was done; an inquiry is accepted once and never comes back |
| **Homeowner reports and lookup budget** (`20260924010000`, `20261014170000`, `homeowners/*`) | homes with their schedule, lookups, usage, the provider's budget, deliveries | ask, look up, complete; hand off; enrol, close, review, remove; the scheduler's claim and advance | a lookup is paid once and within the budget; a report is handed over once; the owner's choice stands |
| **Sessions and credentials** (`20260919*`, `password-authentication-handler.ts`) | the account with its lock, links, sessions, grants | sign in, choose, sign up, forgotten password, reset, confirm, resend, change, sign out | links are used once, a new password ends the old sessions, a lock holds, a role taken away stays taken |
| Funnel studio, publication, domains | versions, publications, domains | save, publish, withdraw, bind | one owner per domain |
| Campaign foundation and approval | versions, preflight results, decisions | save, check, approve | an approval covers exactly its version |
| Meta polling, lead routing, AI generation, rendering, storage, onboarding, reporting, UI | see `PROJECT.json` | | listed with the reason each is not modelled yet or at all |

**How they interact.** The owner's browser loads a launch and confirms an
action with the row version it saw. The command procedure reserves an operation
and an outbox row. The relay signs a task for the oldest pending row; a worker
claims the operation under a 55 second lease (generation, worker reference,
stage), reads its evidence, records each external write, sends it and
checkpoints the verified answer. The tables are shared by all of them, and the
provider (the HighLevel ad manager) is reached only through the transport.

**What is hard.** A worker's state is old at every await; a stop may supersede
its operation at any moment; requests time out and are applied later; a crash
leaves a recorded dispatch nobody will answer; tasks are delivered again; a
lease or the fifteen minute budget ends in the middle. The hazards are listed,
each at its line, in `PROJECT.json`.

## 2. Modules

| Module | Models | Uses |
| --- | --- | --- |
| `PublisherLineage` | the stored procedures: the abstract specification of what the tables may do, for any caller | |
| `LaunchPromise` | what the publisher promises the owner of a launch about the provider's account | |
| `PublisherWorker` | the TypeScript worker, deliveries, the wire and the provider, on top of the lineage | extends `PublisherLineage`, instance of `LaunchPromise` |
| `PublisherProofs` | type correctness of `PublisherLineage` | extends `PublisherLineage`, `TLAPS` |
| `PublisherSafety` | the safety theorems of `PublisherLineage` | extends `PublisherProofs` |
| `PublisherRefinement` | the safety theorems of `PublisherWorker`, and that it implements the lineage and the promise | extends `PublisherWorker`, `PublisherSafety` |
| `MCPublisherLineage`, `MCPublisherWorker` | small instances, symmetry and the finished-draft initial state | extend the above |
| `OutcomeOnce` | the promise of the delivery guard: of the deliveries that share a key, one succeeds, once | |
| `DeliveryGuard` | `processDelivery`, the claims of `delivery-guard.ts` and the runs of the task queue | extends `OutcomeOnce` |
| `DeliveryProofs` | the safety of `DeliveryGuard` and that it implements `OutcomeOnce` | extends `DeliveryGuard`, `TLAPS` |
| `MCDeliveryGuard` | instances of `DeliveryGuard` | extends it |
| `PublicationCleanup` | `publishProjectionWithObjectStore`, the cleanup intents and the scheduled sweeps | |
| `CleanupProofs` | the safety of `PublicationCleanup` | extends `PublicationCleanup`, `TLAPS` |
| `MCPublicationCleanup` | instances of `PublicationCleanup` | extends it |
| `FinancingPromise` | what a release promises to its visitors | |
| `FinancingRelease` | evidence, the owner's commands, public reads, inquiries, retention | instance of `FinancingPromise` |
| `FinancingProofs` | its safety, and that it implements the promise | extends `FinancingRelease`, `TLAPS` |
| `MCFinancingRelease` | an instance from two starts | extends `FinancingRelease` |
| `HomeReports` | lookups and their budget, the schedule, handoffs | |
| `HomeProofs` | the safety of `HomeReports` | extends `HomeReports`, `TLAPS` |
| `MCHomeReports` | an instance in three parts | extends `HomeReports` |
| `Credentials` | one person's account, links, sessions and grants | |
| `CredentialProofs` | the safety of `Credentials` | extends `Credentials`, `TLAPS` |
| `MCCredentials` | instances: five mixes of requests | extends `Credentials` |

### PublisherLineage

*State.* `launch` is the launch row (`state`, native `ids`, cancellation
generation). `ops[o]` is the operation row: columns `action`, `stage`,
`active`, `worker`, `gen` (lease generation), `cancelGen`, and `view`, the copy
of stage, state and generation in the `operation` JSON column, which is what
readers are given and which is *not* always equal to the columns. `attempts[o][s]`
is the attempt row of a stage. `processed` is `processed_at` of the outbox.
`page` is the launch as the owner's page last loaded it; it becomes `Stale`
whenever the row version moves, since a confirmation is compared with it.

*Time* is abstracted to the comparisons made: `leased` (the lease is set and in
the future), `due` (the deadline has passed), and an observation that is fresh
or not there. A lease never outlives its deadline (SQL line 443), which is why
`DeadlinePasses` also ends the lease.

*Actions.* Every procedure locks the launch row first (lines 265-267, 396-404),
so a call is one atomic action; a call that raises rolls back and is a stutter.
`Load`, `Reserve` (lines 270-326), `Claim` (428-446), `DeadlineClose` (any
worker call after the deadline, 413-427), `Dispatch` (451-486), `MarkUncertain`
(487-491), and the accepted forms of `checkpoint` (492-605): `ConfirmEffect`,
`DraftReady`, `Report`, `PreflightRefusal`, `ParityRefusal`, `DraftReconcile`.
`LeaseExpires` and `DeadlinePasses` are the clock. `Next` lets *any* worker
present *any* generation, stage, identities and evidence: the store must not
depend on callers being well behaved.

*Abstracted.* Authority, campaign evidence and proofs are one Boolean
(`standing`): they are read-only here and only refuse. Hashes and receipts
match or do not. A replayed request returns the stored operation and changes
nothing (lines 281-292), a stutter.

### PublisherWorker

*State.* `work[w]` is the delivery a worker runs: its program counter between
two awaits and the record it holds. `wire` is the set of requests under way,
`remote` what the provider holds, `sent` how often each write left (for the
properties only), `observed` the state of the latest linked observation.

*Actions.* `Deliver` (claim), `Read`, `Admit`, `Conclude` for the stages that
only observe, `Read`, `Admit`, `Record`, `Recheck`, `Send` for spending,
`Record`, `Send` for the rest, `Receive` (verified answer and checkpoint),
`Doubt` (the catch block), `GiveUp` (any exception, abort or crash, which
leaves only the tables), `FinishLate` and `DeliverLate` (calls after the
deadline). Store changes are the actions of `PublisherLineage`, called with
what the worker holds. `Apply`, `Lose`, `Review` are the provider and the
network, which are external: a request may be applied at any later time, and an
answer only reaches a sender that still waits. The provider is assumed to hand
out a fresh identity per creation, to publish only a draft, to pause only what
is published or in review, and to resume only what is paused.

*The promise.* `LaunchPromise` says the same in three variables: what the
provider was `asked` for, what its `account` holds, what the owner is `shown`. It
is reached by `INSTANCE` with an operator for each: `Asked` (what left, from
`sent`), `remote.made`, and `Shown` (the launch state, reduced to "ready", "live",
"cancelled" and "open" where nothing is promised). Something is asked for once,
on what it needs, and only while "open" is shown; "ready" is shown of a whole
unpublished draft, "live" after a publication was asked for, and "cancelled"
where nothing ever was, and then for good.

### DeliveryGuard

*State.* `claims[d]` is the status of the row of delivery `d` in
`integration.delivery_claims`, for one location and kind, which partition the
table. A delivery is a pair of a reference and a business outcome; each of the
two is unique in the table by itself. `runs[r]` is a task run of the queue: its
delivery, where its attempt is, how often it was attempted, and the rows its
claim statement saw. `made[d]` counts the successes of the handler; it belongs
to `OutcomeOnce` and no code reads it.

*Actions.* `Look` and then `Claim` or `Duplicate` are the one claim statement
(lines 64-111). It is two steps because it runs at READ COMMITTED: the rows of
its snapshot are locked and read as they are when the lock is granted, a row
inserted after the snapshot is seen only by the unique constraints. A
transaction whose commit is acknowledged is one action; one whose answer is lost
changes the row and leaves the caller with an error, which is a disjunct of
`Claim`, `Complete`, `MarkUncertain` and `Release`. `HandlerSucceeds` and
`HandlerThrows` end the handler. `Throws` is the queue: the run is attempted
again up to its limit (`maxAttempts`, three in the code) and then fails; an
error the code classifies as permanent, or an expired authority (`Refused`),
fails it at once. `Crash` is the end of the process in the middle of anything.
A run that is told "duplicate" ends well (`shared-task-execution.ts:88`).

### PublicationCleanup

*State.* `public` is the public bucket, as far as the keys of one campaign
version go; `late` the copies whose caller has given up and the store may still
apply. `rows[i]` is an intent: its status, attempts, lease owner, and `due`,
which says that the backoff or the lease has passed. `pub` is the caller of
`publishProjectionWithObjectStore`, `sweeps[s]` a run of the scheduled task.
Keys are copied in their sorted order (line 436), so the keys a publication
attempted are always the first n; the identity of an intent is a digest of the
version and those keys, hence n names it. `copied` and `after` are history for
the properties: what the present publication copied itself, and what appeared
after an intent was stored.

*Actions.* `Copy` is a confirmed copy with the check of its metadata (a copy
never overwrites, so an object that is there is left). `CopyFails` is any
failure: the object is there, is not, or comes later (`CopyInDoubt`, `Arrive`).
`Withdraw` deletes the attempted keys one by one; `WithdrawFails` stops it, and
`Enqueue` stores the intent, unless there is one of the same keys
(`on conflict do nothing`). A sweep makes a `Claim` of everything due (after
giving up what has no attempt left), and for each lease deletes the keys,
completes, and releases when either failed. A release that fails ends the
attempt of the task (`PublicationCleanupReleaseError`) with the rest of its
batch still leased. `SweepCrash` and `PublisherCrash` end a process anywhere.
Each database call is a transaction of its own; calls whose answer is lost are
the second disjuncts of `Complete`, `Release` and `EnqueueFails`.

*Abstracted.* The claim takes at most ten rows and a publication makes few
intents, so a batch holds all that is due. A sweep `s` that starts again is a
retry of the same tick, which presents the same owner
(`reconcile-publication-cleanup.ts:123`), or a later tick. The queue runs
one task at a time, but a run that was timed out and one that follows may
overlap, so sweeps interleave freely. A deletion is not applied late: it would
only remove more. The properties that do not hold are violated without it as well.

### FinancingRelease and FinancingPromise

*State.* `evidence[r][v]` is the row of revision `v` of record `r`; `sources`
the saved combinations of exact revisions; `releases[x]` the release row with
its state, revision and bound source. `operations[f]` is the request row of a
confirmation that was completed. `forms[f]` is the owner's page: what it showed
when it was loaded and what it was told. `admitted`, `inquiries`, `delivery` are
the three tables of an inquiry, `visits[q]` the browser that sends it.
`effects` and the receipts are history no action reads. `standing` says that
owner, location and role binding are all in force.

*Actions.* Every transaction is `SERIALIZABLE`
(`financing-release-repository.ts`), so each is one action at its commit, and the
hazards lie between them. An owner `Load`s a page and later `Confirm`s it; when
the answer is lost the same request is sent again, and `Repeat` finds it
completed, or is refused. `Verdict` keeps the order in which the transaction
looks: standing, then (unless the request was completed) the revision, then the
evidence, then the state. A visitor `Read`s the page, is `Admit`ted, and is
`Capture`d in a third transaction; in between the release may be revoked, its
evidence retired, withdrawn or expire. `Finding` is what the capture finds:
a conflict with what was sent before, the inquiry itself (`Recapture`), a
tombstone (`Deny`), or nothing. `Removed` blanks an inquiry and leaves the
delivery row as its tombstone. A revision of evidence is admitted once and
retires the others (`AdmitEvidence`).

*The promise.* `FinancingPromise` knows an offer per release (private, public,
closed) and an inquiry per request (none, due, held, gone). An offer is closed
for good; an inquiry is accepted only while its offer is public, once; what is
gone stays gone; and nothing is due of a release that was ended. The refinement
maps a release whose evidence can never be in force again to "closed" (`Dead`),
because a retired revision is never admitted again. An offer that is public in
the promise may still be hidden for a while, when the owner's standing is
suspended; the converse, served while not public, is what the refinement
excludes.

*Abstracted.* Names, terms and hashes are model values that agree or not; a
refused transaction changes nothing and is a stutter or a `Repeat`. Quotas only
refuse.

### HomeReports

*State.* `homes`, `lookup`, `delivery` are rows of `homeowner.properties`,
`lookup_requests` and `deliveries`; `usage[i]` is the month of the usage event of
request `i`, `budget` the reserved attempts of the provider's account. A report
has the identity of the request it was made for; the scheduler's request is the
digest of the home and the due date (`scheduledRequestId`), hence a pair of
both. `call[c]` is one execution of a server function between two awaits.
`history` holds what the providers saw and how often a request's row was made.

*Actions.* A person `Ask`s for a report or `Deliver`s one; the scheduler
`Claim`s a home that is due under a lease and `Reread`s it. `Reserve` is the
serializable reservation: the request may be known already, a home may be
created with it, a cached valuation may serve it, and otherwise the attempt is
counted for the workspace and in the shared budget in the same transaction.
`Estimate` is the paid request, `Complete` and `Fail` record its end. A handoff
is `ReserveDelivery`, `Share` (the link), `Send` (the provider's workflow),
`FinishSent` or `FinishFailed`. A success whose recording fails is treated as
in doubt, as the `catch` of `handoffHomeReport` does. The scheduler goes on
through `Decide` to `Advance`, or to `Pause` from its `catch`. `Crash` ends a
call anywhere. The owner may `Enroll`, close an interrupted lookup, acknowledge
a delivery in doubt and `Remove` a home at any step.

*Time.* The clock counts months, because due dates, usage and budget do. Ages of
five minutes are a flag (`old`): `Ages` and `LeaseLapses` wait for the
scheduler's function to be over, because its platform ends it within the five
minutes (`maxDuration`, `jobs/homeowner-reports/route.ts:2`); nothing bounds other
calls, and the model lets those be arbitrarily slow. The operator's `Rollover`
opens a billing period at any time. The number of properties a workspace may
hold, and what readers of a link do, are left out.

### Credentials

*State.* `account` is the person with the credential row; a password is named by
how often it was set. `binding[l]` is the version of the active grant of
workspace `l`, 0 without one. `token[r]` and `session[r]` are the link and the
session that request `r` issued; `job[r]` is how far `r` is and what it has read;
`held` the links that reached the person. `history` and a session's `during` serve
the properties.

*Actions.* Each handler of `password-authentication-handler.ts` is a sequence of
awaited procedure calls, and each call is an action, or several where another
transaction can come between its statements. The transactions run at READ
COMMITTED (`packages/db/src/transaction-context.ts:71` begins without a level), so
every statement sees what was committed when it began. `FailBegin` looks for an
open lock and `FailCount` counts: `record_password_sign_in_failure` reads `for
update`, but a row that does not match is not locked. `TokenBegin` sees the live
links, `TokenInsert` supersedes them and adds its own. `set_password` is three
actions: the activity is looked at (`ResetSet`, `ChangeSet`), the credential is
updated and the sessions to end are seen (`UpdateCredential`), and all of it is
committed (`SetPassword`). Between the last two the row of the credential is held:
`Free` guards whoever updates it, and a failure that would lock it waits
(`FailWaited`); a session is issued without asking for that row and can come
between. `Redeem` is one update and so is one action. A sign-in is `SignIn`
(lookup and derivation), then `Succeed` or the failure, `Bindings`, and a session
or, with several workspaces, a choice link; `Pick` applies the index of a choice
to the list as it is now. A request with a session is looked up (`UseSession`),
its role compared (`CheckRole`), its principal bound (`Identify`), and then
resends, changes the password or signs out. `Stop` ends a request anywhere: a
refusal, a crash, a lost message; an open transaction is rolled back. Operators suspend, grant and end grants.

*Abstracted.* One person; another person's rows are never touched. The password
typed is right or wrong. Rate limits, derivation and audit rows only refuse or
record.

## 3. Runs

| Run | Instance | Question |
| --- | --- | --- |
| `lineage` | 2 operations on a fresh launch, and 2 more after a finished draft; 1 worker reference, 1 identity, 2 claims each | do the procedures keep the lineage's properties against any caller? |
| `worker` | 2 operations, 2 workers, 2 identities | does what is shown agree with what the provider holds while drafting and cancelling, and is the promise to the owner kept? |
| `spending` | a finished draft, a publication and a pause, 2 workers | is money asked for once, is only a publication that left reported, and does every step keep the promise? |
| `delivery` | 3 runs, 2 attempts each, deliveries over 2 references and 2 outcomes | is an outcome made at most once, and do the rows tell the truth? |
| `crash` | 2 runs of one delivery, 3 attempts each | does a run that ends well leave its outcome made? (no) |
| `cleanup` | 2 artifacts, 2 publications, 2 sweeps, 2 attempts | do withdrawal, completion and leases keep their promises? |
| `closes` | the same with 1 publication, under fairness | does every intent end? |
| `pending` | as `cleanup` | is cleanup pending when the caller is told so? (no) |
| `financing` | 1 release on 1 record with 2 revisions, 3 forms; 2 visitors with 2 contents and 3 tries | is the owner told the truth, and do owner, verifiers, visitors and retention implement the promise? |
| `homeowner` | 2 homes, 3 requests, 2 calls, 2 months, a budget of 1 | are lookups paid and reports handed over once, and does the owner's choice stand? |
| `credentials` | 5 requests in 5 mixes, 2 workspaces, a lock of 2 failures, 4 instants, 2 interventions | are links used once, do sessions end, does the lock hold? |
| `cred_links` | the mix of forgotten passwords | is one link of a purpose usable at a time? (no) |

*What they show.* `ActiveDeliverable`: at most one operation is active, and it is not fenced by the stop that created it, its task is pending and
the copy workers read agrees with the columns. `CancelledIsClean`,
`CancelledReachedNobody`, `CancelledNeverSends`: what
"cancelled" promises, for the launch and for an operation, in the tables and
outside. `DispatchedOnce`, `SentOnce`, `NoDuplicates`: no creation or
publication is recorded, sent or made twice, over all operations of a launch.
`UnconfirmedHolds`: an unconfirmed write is either being settled by the claim
that recorded it or its operation is at a stage that only observes.
`ClosedIsFinal`: what no step does to an operation that is over.
`DraftReadyIsWhole`, `LiveWasPublished`: what the launch shows is
so at the provider. `PromiseKept`: the workers, the wire and the provider implement
`LaunchPromise`. `PromiseStays` asks the same of the steps only, since the run `spending`
starts from a finished draft, where the three creations have left (`sent` is one for
each) and were confirmed. `DraftRecoveryIsDead`: the recovery branch of `checkpoint`
(SQL 533-563) can never be taken after the worker's own actions, because the
worker that loses an answer also loses the identity the branch requires; the
worker's code for it (lines 378-403, 417-419) is therefore never useful. It is
what justifies `Read` leaving that readback out.

Of the delivery guard, `SoleHolder`: claims name no owner, and still no two runs
work for one reference or outcome at a time; this is why a completion cannot
settle the claim of another run. `RowsAreTrue`: a completed or doubtful row had
its success, one that is offered again did not. `ProcessedIsRecorded`:
success is only reported on record. `OnceSpec`: the guard implements `OutcomeOnce`.

`SurvivesCrashes` does **not** hold, and the run `crash` shows it: an attempt
claims its delivery and dies; the queue attempts the run again; the row is still
claimed, so `processDelivery` (line 158) answers "duplicate" and the task ends
well. The row stays claimed and the outcome is never made, while the
requirements (`prd-001j`, line 19) say that durable tasks survive crashes and
(line 183) that a duplicate delivery produces one business outcome.
The guard gives safety, at most once, at the price of that.

Of the cleanup, `CompletedWasCleared`: of the keys of a completed intent only
those are public that appeared after it was stored. `WithdrawnIsClean`: a
withdrawal that succeeded left nothing of what the publication copied, the key
whose copy was in doubt included (a copy applied later is not the
withdrawal's: `Arrive`). `LeaseIsFence`: nobody interferes with a running lease.
`IntentsClose`: every intent is completed or given up.

Of these, `PendingWhenSaid` does **not** hold: a version is published in part,
its intent is swept and completed, the version is published in part again with
the same keys; `enqueue` answers `already_completed`, the answer is not looked at
(line 486), and the caller is told that reconciliation is pending. It never
comes. A second one has no run, because the same counterexample needs no search:
the withdrawal fails and an intent is stored, a retry publishes the same keys with
success, and then the sweep deletes them, while
`system-build-blueprint.md:282` calls published objects immutable. Nothing outside the
tests calls the publication yet; the test of its retry
(`object-store-adapter.test.ts`) has no sweep between the two.

Of the financing release, `OneInForce`: of the revisions of a record one at most
is in force. `AnswersAreTrue`: a confirmation is carried out once, a repetition
is told so, and a conflict means that nothing was done; this is why the
completed request is looked for before the revision is compared.
`PendingIsServable`: nothing waits to be delivered of an inquiry that is gone or
a release that was ended. `OneReceipt`: all receipts of a request name one
inquiry. `PromiseKept`: the refinement of `FinancingPromise`.

Of the homeowner reports, `LookedUpOnce`: a request asks the paid provider once,
also after its home and its row are gone, because the usage event stays.
`BudgetIsCount`: the shared counter is exactly the attempts that were
committed. `HandedOnce`: a report reaches the workflow once; the property excludes
reports that were made again after the removal of their home. `DeliveryIsTrue`:
"sent" and "blocked" are so. `OwnerDecides`, `OnHasDate`: the scheduler neither
overrides the owner nor loses a schedule.

Of the credentials, `LinkOnce`: no link is redeemed twice. `OneSurvivor`: of the
sessions of an older password only the one the latest change spared is alive, and
those whose issue committed while that change was between its revoke and its
commit. `LockIsFixed`: attempts made against an open lock neither lengthen nor end
it; who moves it, but for a new password, was decided before it opened, a success
as much as a failure. `NoRevival`: a role given again does not bring back
sessions.

Four things that comments say of the credentials the code does **not** keep. One is
a run of its own: `OneLinkLive`, two issues that overlap do not see each other's link,
and both stay usable (`password-authentication-handler.ts:1089-1090`: "exactly one
link is live"; `20260919140000_password_credentials.sql:555-557`: "rather than leaving
two usable ones"). The others are behaviours of the same model, without a run.

- The session and the current password are checked before, and the password is set in
  a later transaction that checks neither: of two changes from two sessions the second
  ends the first one's session and is carried out all the same (line 1635: "The session
  doing the change survives it").
- A session issued between the revoke and the commit of a change stays alive under the
  old password (line 1635 again: "every other session the person holds is revoked").
  This is the last disjunct of `OneSurvivor`.
- The count goes on after a lock has ended on its own
  (`20260919200000_reset_completed_audit.sql:236`), so that the next single failure
  opens another (lines 30-31: "a new count begins only once it has"). `FailCount` does
  so too.

One more thing was met that no document contradicts: the index of a workspace choice
is applied to the list as it is at the choice, so a grant ended meanwhile shifts it.

That a page the owner confirms from is the launch as it stands has no property: the
row version is abstracted to `Stale`, the comparison is the guard of `Reserve`, and
an update that forgot to raise the version could not be seen in the model.

*Fairness* is stated for `closes` alone: the schedule fires again and again
(every five minutes, `reconcile-publication-cleanup.ts:28`), a run that was
started goes on or dies (the queue ends it after 60 seconds), and time passes.
That a run succeeds is not assumed: attempts are limited, and that is what
closes an intent whose runs all die.

*Bounds.* `MaxGen` bounds the claims of one operation: two, so that a second
claimant meets what the first left. Two operations suffice for one to supersede
the other; three are used where the first is a finished draft. Two workers are
needed for a redelivery to meet a live one; two identities for a duplicate to
exist. `MaxTries` is a parameter of the guard and not only a bound: two attempts
let a run meet the claim it left itself, three runs let one conflict with two
others that do not conflict with each other. Two artifacts make a partial
publication possible and give two intents, two publications let one meet the
intent of another, two sweeps let one take over from another, and two attempts
distinguish the last. `MaxPublications` is a bound of the model only; it is one
where liveness is checked, since a closed row is never opened again. `BrowseForCommand` only stops reloading a page no later command can
use; `DraftAndStop` leaves publications to the run `spending`, and
`PublishAndPause` keeps the third operation of `spending` to the actions that
race. Symmetry is over operations, workers, identities and sweeps, which no
definition orders, and over the calls, forms, visitors, contents and the two
requests that issue the same kind of link in the later models; no liveness
property is checked under it. Deadlock is not
checked: a launch whose operations have all ended rests.

The later models join several starts in one run, each a part of `Bounds` in its
MC module. `financing`: an owner alone with every form and every revision, and
visitors of an approved release with two forms; two revisions let one retire the
other, three forms let a command meet the repetition of an earlier one, two
contents a changed inquiry, two tries a retry. `homeowner`: one home with its
schedule, two reports of one home, two homes with one valuation; two calls meet,
two months let a schedule come round, a budget of one is at its limit at once,
and a request is served at most twice (`lives`). `credentials`: the five mixes are
three sign-ins around the lock, the same with a reset that is committed among them,
two forgotten passwords with what is redeemed of them, two sessions with changes,
two sign-ups. The clock goes as far as a lock that lapses and opens again in the
first, an open lock in the second, a link that expires in the third and fifth, and
stands still in the fourth, where operators intervene.

Type invariants are proved in every component with theorems; only `homeowner` also
checks its own, because it holds the bounds of the budget counter.

Each property has a mutant, a definition in the module that changes the code
as a plausible mistake would and breaks the property under the run's own
configuration.

## 4. Proofs

The proofs about the publisher take `IdAssumption`, `WorkerAssumption` and `BoundAssumption` and
hold for every number of operations, workers, identities and claims.

**`PublisherProofs`**: `TypesHold`, `Spec => []TypeOK`. The argument is by rows:
each procedure writes rows of `OpRow`, `LaunchRow` and `AttemptTable`, which
lemmas state once (`ClaimIsTyped`, `MovedIsTyped`, `RowStep`, `AdvanceStep`,
`SettleIsTyped`), and `TypeStep` goes through the actions. Typing needs one fact
that is not typing: an active operation is reserved (`ActiveIsReserved`), or a
claim could take the stage "none".

**`PublisherSafety`**: the safety properties of the lineage. A step is one of
four kinds, and `StepKinds` proves that every action is: it *rests* (a page is
loaded, the clock moves), *reserves* an operation, *dispatches* (records a
write), or *moves* one active operation and the launch together (`Moves` says
which fields change, `Means` what the new stage and state say about attempts
and identities). Each invariant is then proved kind by kind instead of action by
action. None of the properties is inductive; `SafeInv` adds what they rest on:

| Part | Why it is needed |
| --- | --- |
| `Unused` | a row that was never reserved has no attempt and no processed task, or a reservation could inherit them |
| `CancelTouched` | a cancellation that is still active has something to account for, or `checkpoint` could report a clean cancellation over a recorded write |
| `ShownCancelled` | a row shown as cancelled is over, or it could still dispatch |
| `RestsQueued` | in the states that admit a new operation no claim is under way |
| `FreshLaunch` | the state "reserved" means that nothing was recorded yet |
| `OneDrafter` | only one operation ever drafts, which is why creations happen once |
| `AttemptsFit` | writes are recorded only by operations whose action calls for them |
| `PublishOnce` | no publication precedes "draft_ready" and only one operation may hold one |

The strengthening was checked by TLC before it was proved. `ClosedHolds` and
`AttemptsHold` are action properties and follow from the kinds and typing.

**`PublisherRefinement`**: `WorkersImplement`, `WorkerSpec => LineageSpec`: the
tables change as the procedures allow whatever number of workers run. A worker
presents what it holds, so the proof needs that what it holds is well formed
(`WorkInv`: the record fits the program counter, `GenBound`: its generation is
one a claim gave out); `ImplInv` joins both with the lineage's own invariant, and
every step of a worker or of the provider is a step of the lineage or leaves the
tables alone. All theorems of the lineage therefore hold of the workers as well.

The same module proves what the tables mean at the provider: `SentOnceHolds`,
`NoDuplicatesHold`, `CancelledReachedNobodyHolds`, `CancelledNeverSendsHolds`,
`DraftReadyIsWholeHolds`, `LiveWasPublishedHolds`, `DraftRecoveryIsDeadHolds`. None of
the seven is inductive. `ReachInv` joins `ImplInv` and `SafeInv` with the chain
from a row of the attempts table to an object of the account:

| Part | What it says | Why it is needed |
| --- | --- | --- |
| `RequestInv` | a request under way was sent once, by the one delivery that recorded it; what was sent is on record | a second delivery behind one record could send again: this carries `DispatchedOnce` from the table to the wire |
| `ProviderInv` | an object of a kind exists only where a creation was sent, and one of a kind only, none while a request for it is under way; a campaign past its draft was published | a late `Apply` could make a duplicate |
| `SightInv` | a delivery that saw "live" or "in review", and a launch that shows it, has a publication that was sent | an observation is older than the checkpoint that reports it |
| `IdentityInv` | identities a delivery holds for a creation, and those of the launch row, are of objects the provider made | "draft_ready" checks identities, not objects |
| `DraftInv` | where an active draft stands, which identities it knows, which creations it has not recorded; it reconciles only with an identity lost | the next creation is recorded only under its known parents, and the recovery branch needs a stage the worker never reaches |
| `FoundInv` | a child was recorded under a known parent, a publication under a known draft | the promise asks for the parents at the provider at the moment a request leaves |

Two facts about the lineage were missing and were added to `SafeInv`
(`Identities`: the identities of the launch are known parent first, all of them when
"draft_ready" is shown) and to the description of a move (`Means`). Between steps the
proofs share monotonicity lemmas: a record stays (`RecordsStay`), what left has left
(`SentStays`), an action stays (`ActionStays`), a cancellation stays
(`CancelledStays`); and a description of what a step may do to a delivery
(`AllGo`), to the provider (`RemoteSteps`) and to the launch (`LaunchSteps`).

`WorkersKeepPromise`, `WorkerSpec => PromiseKept`, and `PromiseStaysHolds` are the
refinement of `LaunchPromise`. From `ReachInv` every step is one of `Ask` (a sending:
its parents exist by `FoundInv` and `IdentityInv`, it was not asked before by
`RequestInv` and `DispatchedOnce`, and nothing was shown that forbids it because a
recorded write keeps the launch "open"), `Arrive` (an application), `Show` (a
checkpoint, a claim or a reservation), or it changes none of the three.

`ReachInv` was checked by TLC part by part as an invariant, from a fresh launch and from a
finished draft, before it was proved. A provider that gave the same identity twice,
or two objects for one request, is outside these theorems: `Apply` is its only
assumption.

**`DeliveryProofs`**: `SoleHolderHolds`, `RowsHold`, `ProcessedHolds`,
`SettledHolds`, `GuardImplements`, for any set of deliveries, runs and attempts,
from `DeliveryAssumption` and `TriesAssumption`. The inductive invariant
`GuardInv` joins `SoleHolder` and `RowsAreTrue`, which need each other, with
`OneRow` (no two rows share a key: what the unique constraints keep) and `Knows`
(what a run at each point may rely on about its own row: that it exists and is
claimed while the run holds it, that its handler has or has not succeeded).
`Knows` is where the missing owner is made good: a holder's row cannot move
under it, because whoever could move it would be a second holder.

**`CleanupProofs`**: `CleanupTyped`, `CompletionClears`, `WithdrawalCleans`,
`EveryTryIsUsed`, `LeasesFence`, `ClosedForGood`, for any number of artifacts,
attempts, sweeps and publications, from `CleanupAssumption`. The steps are
described once for each part of the state: what may become of a row
(`RowMoves`), that whatever appears is noted for every stored intent (`Noted`),
and what a sweep does to its own record (`SweepMoves`). `CleanupInv` adds to the
properties what the processes rely on between their steps: the publisher that
what it has copied lies within what it will withdraw (`WithdrawalKnows`), and a
sweep that the keys it has passed are gone unless they appeared again
(`SweepKnows`), also when another sweep took over the lease meanwhile.
`LeasesFence` and `ClosedForGood` follow from `RowMoves` and typing alone.

**`FinancingProofs`**: `FinancingTyped`, `OneRevisionInForce`,
`OwnerIsToldTheTruth`, `PendingStaysServable`, `ReceiptsAgree`,
`FinancingKeepsPromise`, for any releases, records, revisions, forms, visitors
and contents, from `FinancingAssumption`. The properties are kept together by
`FinInv`, which adds three parts: `StagesMatch` (the revision of a release counts
its transitions, so a page that shows the present revision shows the present
state, and a publication was approved), `FormsKnow` (a form names the release it
was loaded from with that release's evidence, and was carried out exactly when its
request is completed: without it a repetition could not be told from a first
attempt), and `ReceiptsMatch` (a receipt is of the inquiry that is kept, and
without a delivery row there never was one: the tombstone is what stops a retry
from being captured again). The refinement is proved from `FinInv` action by
action; its lemmas about evidence say that a revision only ages (`Ages`), hence
that `Dead` never ends.

**`HomeProofs`**: `HomesTyped`, `SchedulesHaveDates`, `BudgetHolds`,
`LookedUpOnceHolds`, `HandedOnceHolds`, `DeliveriesAreTrue`, `OwnersDecide`, for
any homes, requests, calls, limits and months, from `LimitsAssumption` and
`RequestsAssumption`. Typing is inductive only with `OnHasDate`: the scheduler's
request is made of the date of a schedule that is on. `CostInv` adds that the
counter counts a finite set of requests that have their usage event
(`BudgetInv`), and that a call about to ask the provider has its attempt on
record, has not asked and is alone in this (`AskInv`). `HandInv` says for every
report what makes the row of a delivery a fence (`HandOf`): one call at a time is
between the reservation and the outcome, nothing was handed over before it, and
the outcomes are true, in the only life of the report. `OwnersDecide` is an action
property and needs typing alone.

**`CredentialProofs`**: `CredentialsTyped`, `LinksAreSingleUse`,
`OneSessionSurvives`, `AttemptsLeaveTheLock`, `SessionsStayEnded`, for any
requests, workspaces, limits and lives, from `CredentialsAssumption`. `CredInv` adds
to the invariants what a request at each place may rely on (`JobsFit`: it has not
issued its link before; the session it was admitted by exists; the failure it is
about to count, or the success it is about to record, was decided before an open
lock opened; the password it is about to commit misses no live session but the
spared one and those issued since it looked) and how versions relate
(`GrantsMatch`: a grant in force is younger than the last one that ended, and a
session has a version). `AttemptsLeaveTheLock` and `OneSessionSurvives` rest on the
first, `SessionsStayEnded` on the second: a session is
admitted when its version is that of the grant in force, and versions are never
given twice.

## 5. Not modelled, and the plan

Every invariant and every action property of a passing run, and the four refinements,
are stated by a theorem; what only TLC shows is the liveness property
`IntentsClose`, which is out of the provers' reach (fairness). `SurvivesCrashes`,
`PendingWhenSaid` and `OneLinkLive` are false, so there is nothing to prove of them.

Hazards that no property covers yet are kept in `PROJECT.json` with the reason.
One of them is inherent: between the last check of a spending request
(`webinar-publisher-worker.ts:602`) and the request itself a pause may be
reserved, claimed and answered. Nothing in the code or its documents promises
otherwise, and the pending stop remains visible.

Order of the work that is left:

1. Proofs: an abstract promise for the lookups and handoffs of `HomeReports` and
   one for the links and sessions of `Credentials`, with their refinements; pauses
   and resumptions in `LaunchPromise`.
2. `PublisherRelay`: scans, the deadline margin and the oldest-first choice,
   with weak fairness of the schedule; leads-to properties.
3. `OutboxSweep` and `ProviderOperation` from `durable-foundation.ts`, once the
   repository has an adapter for their ports; the queue leases of the platform
   foundation.
4. Funnel publication and the ownership of domains; campaign versions, preflight
   and approval as evidence that may change under a launch; publisher
   authentication.
5. Lead intake and routing; the token refresh of the authentication library.

The larger part of the repository is presentation, schemas, generated text and
single-row read models (see the components in `PROJECT.json`): there is no order
of events in them to check, and they stay outside.

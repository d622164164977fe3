-------------------------- MODULE FinancingRelease --------------------------
(***************************************************************************)
(* Financing releases: the evidence they rest on, the owner's commands,    *)
(* the public reads and the inquiries of visitors.                         *)
(*                                                                         *)
(* Every database transaction is SERIALIZABLE and is one action, at its    *)
(* commit.  What is not one transaction is not one action: the owner's     *)
(* page is loaded, confirmed and confirmed again when no answer came; a    *)
(* visitor reads the page, is admitted, and is captured, in three          *)
(* transactions.                                                           *)
(*                                                                         *)
(* "effects" and the sets "receipts" are history that no action reads.     *)
(***************************************************************************)
EXTENDS Naturals, FiniteSets

CONSTANTS
    Releases, Records, Revisions, \* an exact piece of evidence is a record and a revision
    Forms,                        \* confirmations of the owner, each with its request id
    Requests, Target,             \* the visitors' request ids and the publication of each
    Contents, Unset, MaxTries

ASSUME FinancingAssumption ==
    /\ Target \in [Requests -> Releases]
    /\ MaxTries \in Nat
    /\ Unset \notin Releases \cup Contents \cup Revisions

VARIABLES
    standing,   \* the owner, the location and the role binding are all in force
    evidence,   \* campaign.financing_release_evidence
    sources,    \* campaign.financing_release_sources
    releases,   \* campaign.financing_releases
    operations, \* campaign.financing_release_operations: the release of a completed request
    forms,      \* what the owner's pages hold and were told
    effects,    \* how often a confirmation was carried out
    admitted,   \* campaign.financing_public_inquiry_admissions
    inquiries,  \* campaign.financing_release_inquiries
    delivery,   \* campaign.financing_release_delivery
    visits      \* what the visitors' browsers hold and were told

setup == <<standing, evidence, sources>>
owner == <<releases, operations, forms, effects>>
public == <<admitted, inquiries, delivery, visits>>
vars == <<setup, owner, public>>

EvidenceStates == {"absent", "live", "expired", "revoked"}
Sources == [Records -> Revisions]
NoSource == [r \in Records |-> Unset]

States == {"none", "prepared", "approved", "published", "rejected", "revoked"}
Release == [state : States, revision : 0..4, source : Sources \cup {NoSource}, approved : BOOLEAN]

Commands == {"prepare", "approve", "publish", "reject", "revoke"}
Answers == {"none", "done", "conflict", "refused"}
Form == [command : Commands \cup {"none"}, release : Releases \cup {Unset}, revision : 0..4,
         source : Sources \cup {NoSource}, answer : Answers]
NoForm == [command |-> "none", release |-> Unset, revision |-> 0, source |-> NoSource,
           answer |-> "none"]

Admission == [row : BOOLEAN, content : Contents \cup {Unset}]
NoAdmission == [row |-> FALSE, content |-> Unset]

\* "content" is the keyed hash of what was sent, "id" the attempt that stored the inquiry.
Inquiry == [kept : BOOLEAN, content : Contents \cup {Unset}, id : 0..MaxTries, expired : BOOLEAN]
NoInquiry == [kept |-> FALSE, content |-> Unset, id |-> 0, expired |-> FALSE]

Visit == [pc : {"away", "page", "admitted"}, content : Contents \cup {Unset}, try : 0..MaxTries,
          receipts : SUBSET (1..MaxTries), answer : {"none", "saved", "conflict", "unavailable"}]
NoVisit == [pc |-> "away", content |-> Unset, try |-> 0, receipts |-> {}, answer |-> "none"]

-----------------------------------------------------------------------------
Init ==
    /\ standing = TRUE
    /\ evidence = [r \in Records |-> [v \in Revisions |-> "absent"]]
    /\ sources = {}
    /\ releases = [x \in Releases |->
                     [state |-> "none", revision |-> 0, source |-> NoSource, approved |-> FALSE]]
    /\ operations = [f \in Forms |-> Unset]
    /\ forms = [f \in Forms |-> NoForm]
    /\ effects = [f \in Forms |-> 0]
    /\ admitted = [q \in Requests |-> NoAdmission]
    /\ inquiries = [q \in Requests |-> NoInquiry]
    /\ delivery = [q \in Requests |-> "none"]
    /\ visits = [q \in Requests |-> NoVisit]

-----------------------------------------------------------------------------
(* Evidence *)

\* Every exact revision a source binds is live.
Holds(s) == \A r \in Records : evidence[r][s[r]] = "live"

Current(x) == Holds(releases[x].source)

\* Mutant: the other revisions of the record are left as they are.
AdmitBeside(r, v) ==
    /\ evidence[r][v] = "absent"
    /\ evidence' = [evidence EXCEPT ![r][v] = "live"]
    /\ UNCHANGED <<standing, sources, owner, public>>

\* Mutant: a revision that was revoked may be admitted again.
AdmitAgain(r, v) ==
    /\ evidence[r][v] \in {"absent", "revoked"}
    /\ evidence' = [evidence EXCEPT ![r] =
         [u \in Revisions |-> CASE u = v -> "live"
                                [] u # v /\ evidence[r][u] \in {"live", "expired"} -> "revoked"
                                [] OTHER -> evidence[r][u]]]
    /\ UNCHANGED <<standing, sources, owner, public>>

\* A revision is admitted once, and retires the other revisions of its record.
AdmitEvidence(r, v) ==
    /\ evidence[r][v] = "absent"
    /\ evidence' = [evidence EXCEPT ![r] =
         [u \in Revisions |-> CASE u = v -> "live"
                                [] u # v /\ evidence[r][u] \in {"live", "expired"} -> "revoked"
                                [] OTHER -> evidence[r][u]]]
    /\ UNCHANGED <<standing, sources, owner, public>>

WithdrawEvidence(r, v) ==
    /\ standing
    /\ evidence[r][v] \in {"live", "expired"}
    /\ evidence' = [evidence EXCEPT ![r][v] = "revoked"]
    /\ UNCHANGED <<standing, sources, owner, public>>

Expire(r, v) ==
    /\ evidence[r][v] = "live"
    /\ evidence' = [evidence EXCEPT ![r][v] = "expired"]
    /\ UNCHANGED <<standing, sources, owner, public>>

SaveSource(s) ==
    /\ standing
    /\ Holds(s)
    /\ sources' = sources \cup {s}
    /\ UNCHANGED <<standing, evidence, owner, public>>

\* The owner or the location is suspended, or the binding is revoked; and restored.
StandingChanges ==
    /\ standing' = ~standing
    /\ UNCHANGED <<evidence, sources, owner, public>>

-----------------------------------------------------------------------------
(* The owner's commands *)

\* A prepared release is given a name that nothing else has.
Fresh(x) ==
    /\ releases[x].state = "none"
    /\ \A g \in Forms : forms[g].command # "none" => forms[g].release # x

Load(f, command, x, s) ==
    /\ standing
    /\ forms[f].command = "none"
    /\ IF command = "prepare" THEN Fresh(x) /\ s \in sources
                              ELSE releases[x].state # "none" /\ s = releases[x].source
    /\ forms' = [forms EXCEPT ![f] = [command |-> command, release |-> x,
                   revision |-> releases[x].revision, source |-> s, answer |-> "none"]]
    /\ UNCHANGED <<setup, releases, operations, effects, public>>

Waits(f) == forms[f].command # "none" /\ forms[f].answer = "none"

New(f) == operations[f] = Unset

\* What the page showed is what is there.
Seen(f) == releases[forms[f].release].revision = forms[f].revision

From(command) ==
    CASE command = "prepare" -> {"none"}
      [] command = "approve" -> {"prepared"}
      [] command = "publish" -> {"approved"}
      [] command = "reject" -> {"prepared"}
      [] command = "revoke" -> {"prepared", "approved", "published", "rejected", "revoked"}

To(command) ==
    CASE command = "prepare" -> "prepared"
      [] command = "approve" -> "approved"
      [] command = "publish" -> "published"
      [] command = "reject" -> "rejected"
      [] command = "revoke" -> "revoked"

\* The evidence is current, at a repetition as at the first time; a release that is to be
\* rejected or revoked needs none.
Eligible(f) ==
    \/ forms[f].command \in {"reject", "revoke"}
    \/ /\ Holds(forms[f].source)
       /\ releases[forms[f].release].state \notin {"rejected", "revoked"}

\* Mutant: the revision is compared before it is known whether the request was completed.
VerdictEarly(f) ==
    IF ~standing THEN "refused"
    ELSE IF ~Seen(f) THEN "conflict"
    ELSE IF ~Eligible(f) THEN "refused"
    ELSE IF New(f) /\ releases[forms[f].release].state \notin From(forms[f].command) THEN "conflict"
    ELSE "done"

\* In the order in which the transaction looks.
Verdict(f) ==
    IF ~standing THEN "refused"
    ELSE IF New(f) /\ ~Seen(f) THEN "conflict"
    ELSE IF ~Eligible(f) THEN "refused"
    ELSE IF New(f) /\ releases[forms[f].release].state \notin From(forms[f].command) THEN "conflict"
    ELSE "done"

\* A release that is revoked already is not revoked again.
Changes(f) == releases[forms[f].release].state # To(forms[f].command)

Saved(f) ==
    LET x == forms[f].release
        command == forms[f].command
    IN  releases' = IF ~Changes(f) THEN releases
                    ELSE [releases EXCEPT ![x] =
                           [state |-> To(command), revision |-> releases[x].revision + 1,
                            source |-> forms[f].source,
                            approved |-> releases[x].approved \/ command = "approve"]]

\* Revocation blocks what is still to be delivered.
Blocked(f) ==
    delivery' = [q \in Requests |->
        IF /\ forms[f].command = "revoke" /\ Changes(f)
           /\ Target[q] = forms[f].release /\ delivery[q] = "pending"
        THEN "blocked" ELSE delivery[q]]

\* The effect, and that the request is completed, are one transaction.
Completed(f) == operations' = [operations EXCEPT ![f] = forms[f].release]

\* An answer is received, or lost: then the same request may be sent again.
Told(f) == forms' \in {forms, [forms EXCEPT ![f].answer = Verdict(f)]}

Confirm(f) ==
    /\ Waits(f)
    /\ New(f) /\ Verdict(f) = "done"
    /\ Saved(f) /\ Blocked(f) /\ Completed(f) /\ Told(f)
    /\ effects' = [effects EXCEPT ![f] = @ + 1]
    /\ UNCHANGED <<setup, admitted, inquiries, visits>>

\* A refusal is rolled back, a repetition only reads.
Repeat(f) ==
    /\ Waits(f)
    /\ ~New(f) \/ Verdict(f) # "done"
    /\ forms' = [forms EXCEPT ![f].answer = Verdict(f)]
    /\ UNCHANGED <<setup, releases, operations, effects, public>>

-----------------------------------------------------------------------------
(* Visitors *)

Public(x) == standing /\ releases[x].state = "published" /\ releases[x].approved /\ Current(x)

\* The page is read, and with it the request id of the inquiry that may follow.
Read(q) ==
    /\ visits[q].pc = "away"
    /\ Public(Target[q])
    /\ visits' = [visits EXCEPT ![q].pc = "page"]
    /\ UNCHANGED <<setup, owner, admitted, inquiries, delivery>>

\* An inquiry is sent, perhaps again and perhaps changed, and is admitted.
Admit(q, c) ==
    /\ visits[q].pc = "page"
    /\ visits[q].try < MaxTries
    /\ Public(Target[q])
    /\ admitted' = [admitted EXCEPT ![q].row = TRUE]
    /\ visits' = [visits EXCEPT ![q] =
                     [pc |-> "admitted", content |-> c, try |-> visits[q].try + 1,
                      receipts |-> visits[q].receipts, answer |-> visits[q].answer]]
    /\ UNCHANGED <<setup, owner, inquiries, delivery>>

\* Something else was sent under this request before.
Altered(q) ==
    \/ admitted[q].content \notin {Unset, visits[q].content}
    \/ inquiries[q].kept /\ inquiries[q].content # visits[q].content

\* Mutant: what was public when the page was read is taken to be public.
FindingAsRead(q) ==
    IF Altered(q) THEN "conflict"
    ELSE IF inquiries[q].kept THEN IF inquiries[q].expired THEN "unavailable" ELSE "same"
    ELSE IF delivery[q] # "none" THEN "unavailable"
    ELSE "new"

\* What the capture finds of this request.
Finding(q) ==
    IF ~Public(Target[q]) THEN "unavailable"
    ELSE IF Altered(q) THEN "conflict"
    ELSE IF inquiries[q].kept THEN IF inquiries[q].expired THEN "unavailable" ELSE "same"
    ELSE IF delivery[q] # "none" THEN "unavailable"
    ELSE "new"

Kept(q) == [kept |-> TRUE, content |-> visits[q].content, id |-> visits[q].try, expired |-> FALSE]

Back(q, receipts, answer) ==
    visits' = [visits EXCEPT ![q] = [pc |-> "page", content |-> visits[q].content,
                 try |-> visits[q].try, receipts |-> receipts, answer |-> answer]]

\* The visitor is answered, or is not and tries again.
Replied(q, receipt) ==
    \/ Back(q, visits[q].receipts \cup {receipt}, "saved")
    \/ Back(q, visits[q].receipts, visits[q].answer)

Capture(q) ==
    /\ visits[q].pc = "admitted"
    /\ Finding(q) = "new"
    /\ inquiries' = [inquiries EXCEPT ![q] = Kept(q)]
    /\ delivery' = [delivery EXCEPT ![q] = "pending"]
    /\ admitted' = [admitted EXCEPT ![q].content = visits[q].content]
    /\ Replied(q, visits[q].try)
    /\ UNCHANGED <<setup, owner>>

Recapture(q) ==
    /\ visits[q].pc = "admitted"
    /\ Finding(q) = "same"
    /\ Replied(q, inquiries[q].id)
    /\ UNCHANGED <<setup, owner, admitted, inquiries, delivery>>

Deny(q) ==
    /\ visits[q].pc = "admitted"
    /\ Finding(q) \in {"conflict", "unavailable"}
    /\ Back(q, visits[q].receipts, Finding(q))
    /\ UNCHANGED <<setup, owner, admitted, inquiries, delivery>>

-----------------------------------------------------------------------------
(* Removal and retention *)

\* Mutant: nothing is left of an inquiry that is removed.
RemovedWhole(Q) ==
    /\ inquiries' = [q \in Requests |-> IF q \in Q THEN NoInquiry ELSE inquiries[q]]
    /\ delivery' = [q \in Requests |-> IF q \in Q THEN "none" ELSE delivery[q]]
    /\ UNCHANGED <<setup, owner, admitted, visits>>

\* The inquiries go, and what was to be delivered of them is blocked.
Removed(Q) ==
    /\ inquiries' = [q \in Requests |-> IF q \in Q THEN NoInquiry ELSE inquiries[q]]
    /\ delivery' = [q \in Requests |-> IF q \in Q /\ delivery[q] = "pending" THEN "blocked"
                                                                            ELSE delivery[q]]
    /\ UNCHANGED <<setup, owner, admitted, visits>>

RemoveInquiry(q) == standing /\ inquiries[q].kept /\ Removed({q})

Expired == {q \in Requests : inquiries[q].kept /\ inquiries[q].expired}

\* A batch is bounded, and leaves out the rows that others hold.
Purge == \E Q \in SUBSET Expired : Q # {} /\ Removed(Q)

\* Thirty days pass.
InquiryExpires(q) ==
    /\ inquiries[q].kept /\ ~inquiries[q].expired
    /\ inquiries' = [inquiries EXCEPT ![q].expired = TRUE]
    /\ UNCHANGED <<setup, owner, admitted, delivery, visits>>

-----------------------------------------------------------------------------
Setup ==
    \/ \E r \in Records, v \in Revisions :
         AdmitEvidence(r, v) \/ WithdrawEvidence(r, v) \/ Expire(r, v)
    \/ \E s \in Sources : SaveSource(s)
    \/ StandingChanges

Owner ==
    \E f \in Forms :
        \/ \E command \in Commands, x \in Releases, s \in Sources : Load(f, command, x, s)
        \/ Confirm(f) \/ Repeat(f)

Visitor ==
    \E q \in Requests :
        Read(q) \/ (\E c \in Contents : Admit(q, c)) \/ Capture(q) \/ Recapture(q) \/ Deny(q)

Retention == Purge \/ \E q \in Requests : RemoveInquiry(q) \/ InquiryExpires(q)

Next == Setup \/ Owner \/ Visitor \/ Retention

Spec == Init /\ [][Next]_vars

-----------------------------------------------------------------------------
\* Every variable is of its type.
TypeOK ==
    /\ standing \in BOOLEAN
    /\ evidence \in [Records -> [Revisions -> EvidenceStates]]
    /\ sources \subseteq Sources
    /\ releases \in [Releases -> Release]
    /\ operations \in [Forms -> Releases \cup {Unset}]
    /\ forms \in [Forms -> Form]
    /\ effects \in [Forms -> 0..1]
    /\ admitted \in [Requests -> Admission]
    /\ inquiries \in [Requests -> Inquiry]
    /\ delivery \in [Requests -> {"none", "pending", "blocked"}]
    /\ visits \in [Requests -> Visit]

\* Of the revisions of a record one at most is in force.
OneInForce ==
    \A r \in Records : \A u, v \in Revisions :
        evidence[r][u] \in {"live", "expired"} /\ evidence[r][v] \in {"live", "expired"} => u = v

\* What is to be delivered is there, and its release was neither revoked nor unpublished.
PendingIsServable ==
    \A q \in Requests :
        delivery[q] = "pending" => inquiries[q].kept /\ releases[Target[q]].state = "published"

\* All receipts of a request are of one inquiry, whatever was lost, changed, removed or retried.
OneReceipt == \A q \in Requests : \A i, j \in visits[q].receipts : i = j

\* The owner is told of a conflict only when nothing was done, and of success only when it was.
AnswersAreTrue ==
    \A f \in Forms :
        /\ forms[f].answer = "conflict" => effects[f] = 0
        /\ forms[f].answer = "done" => effects[f] = 1

-----------------------------------------------------------------------------
(* Refinement: the promise to the visitors *)

\* Evidence that was in force and is not cannot come back.
Dead(x) == \E r \in Records : evidence[r][releases[x].source[r]] \in {"expired", "revoked"}

OfferOf(x) ==
    IF releases[x].state = "none" THEN "private"
    ELSE IF releases[x].state \in {"rejected", "revoked"} \/ Dead(x) THEN "closed"
    ELSE IF releases[x].state = "published" THEN "public"
    ELSE "private"

InquiryOf(q) ==
    IF delivery[q] = "none" THEN "none"
    ELSE IF ~inquiries[q].kept THEN "gone"
    ELSE IF delivery[q] = "pending" THEN "due"
    ELSE "held"

Promise == INSTANCE FinancingPromise WITH
    offer <- [x \in Releases |-> OfferOf(x)],
    inquiry <- [q \in Requests |-> InquiryOf(q)]

PromiseKept == Promise!PromiseSpec
=============================================================================

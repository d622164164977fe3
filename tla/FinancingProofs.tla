--------------------------- MODULE FinancingProofs ---------------------------
(***************************************************************************)
(* What FinancingRelease keeps, and that it keeps its promise to visitors, *)
(* for any number of releases, pieces of evidence, confirmations and       *)
(* inquiries.                                                              *)
(***************************************************************************)
EXTENDS FinancingRelease, TLAPS

\* A release's revision counts its transitions, and a release that exists has its evidence.
StagesMatch ==
    \A x \in Releases :
        /\ releases[x].state = "none" => releases[x].revision = 0
        /\ releases[x].state = "prepared" => releases[x].revision = 1
        /\ releases[x].state \in {"approved", "rejected"} => releases[x].revision = 2
        /\ releases[x].state = "published" => releases[x].revision = 3
        /\ releases[x].state # "none" => releases[x].source \in Sources

\* A form names a release and its evidence, those of the release once it exists, and was carried
\* out exactly when its request is completed.
FormsKnow ==
    \A f \in Forms :
        /\ operations[f] = Unset <=> effects[f] = 0
        /\ forms[f].command = "none" => forms[f].answer = "none"
        /\ forms[f].command # "none" =>
             /\ forms[f].release \in Releases /\ forms[f].source \in Sources
             /\ forms[f].command # "prepare" =>
                  /\ releases[forms[f].release].state # "none"
                  /\ forms[f].source = releases[forms[f].release].source

\* A receipt is of the inquiry that is kept, and without a delivery there never was one.
ReceiptsMatch ==
    \A q \in Requests :
        /\ delivery[q] = "none" => ~inquiries[q].kept /\ visits[q].receipts = {}
        /\ inquiries[q].kept => visits[q].receipts \subseteq {inquiries[q].id} /\ inquiries[q].id # 0
        /\ visits[q].pc = "admitted" => visits[q].try # 0

FinInv ==
    /\ TypeOK /\ OneInForce /\ AnswersAreTrue /\ PendingIsServable /\ OneReceipt
    /\ StagesMatch /\ FormsKnow /\ ReceiptsMatch

-----------------------------------------------------------------------------
(* Evidence *)

\* What a step of the evidence may do to one of its revisions.
Ages(a, b) ==
    \/ a = b
    \/ a = "absent" /\ b = "live"
    \/ a = "live" /\ b \in {"expired", "revoked"}
    \/ a = "expired" /\ b = "revoked"

LEMMA EvidenceStep ==
    ASSUME FinInv,
           NEW r \in Records, NEW v \in Revisions,
           AdmitEvidence(r, v) \/ WithdrawEvidence(r, v) \/ Expire(r, v)
    PROVE  /\ evidence' \in [Records -> [Revisions -> EvidenceStates]]
           /\ \A s \in Records, u \in Revisions : Ages(evidence[s][u], evidence'[s][u])
           /\ OneInForce'
           /\ UNCHANGED <<standing, sources, owner, public>>
<1>1. evidence \in [Records -> [Revisions -> EvidenceStates]] /\ OneInForce
  BY DEF FinInv, TypeOK
<1>2. CASE AdmitEvidence(r, v)
  <2>1. \A s \in Records : s # r => evidence'[s] = evidence[s]
    BY <1>1, <1>2 DEF AdmitEvidence
  <2>2. \A u \in Revisions :
          evidence'[r][u] = IF u = v THEN "live"
                            ELSE IF evidence[r][u] \in {"live", "expired"} THEN "revoked"
                            ELSE evidence[r][u]
    BY <1>1, <1>2 DEF AdmitEvidence
  <2>3. evidence' \in [Records -> [Revisions -> EvidenceStates]]
    <3> DEFINE row == [u \in Revisions |-> CASE u = v -> "live"
                                [] u # v /\ evidence[r][u] \in {"live", "expired"} -> "revoked"
                                [] OTHER -> evidence[r][u]]
    <3>1. row \in [Revisions -> EvidenceStates]
      BY <1>1 DEF EvidenceStates
    <3>2. evidence' = [evidence EXCEPT ![r] = row]
      BY <1>2 DEF AdmitEvidence
    <3> HIDE DEF row
    <3> QED
      BY <1>1, <3>1, <3>2
  <2>4. OneInForce'
    BY <1>1, <2>1, <2>2 DEF OneInForce
  <2>5. \A s \in Records, u \in Revisions : Ages(evidence[s][u], evidence'[s][u])
    BY <1>1, <1>2, <2>1, <2>2 DEF Ages, AdmitEvidence
  <2> QED
    BY <1>2, <2>3, <2>4, <2>5 DEF AdmitEvidence
<1>3. CASE WithdrawEvidence(r, v) \/ Expire(r, v)
  <2>1. PICK b \in {"expired", "revoked"} :
          evidence' = [evidence EXCEPT ![r] = [evidence[r] EXCEPT ![v] = b]]
            /\ Ages(evidence[r][v], b) /\ evidence[r][v] \in {"live", "expired"}
    BY <1>3 DEF WithdrawEvidence, Expire, Ages
  <2>2. [evidence[r] EXCEPT ![v] = b] \in [Revisions -> EvidenceStates]
    BY <1>1 DEF EvidenceStates
  <2>3. \A s \in Records, u \in Revisions :
          evidence'[s][u] = IF s = r /\ u = v THEN b ELSE evidence[s][u]
    BY <1>1, <2>1
  <2>4. OneInForce'
    BY <1>1, <2>1, <2>3 DEF OneInForce
  <2> QED
    BY <1>1, <1>3, <2>1, <2>2, <2>3, <2>4 DEF WithdrawEvidence, Expire, Ages
<1> QED
  BY <1>2, <1>3

LEMMA EvidenceKeeps ==
    ASSUME FinInv, NEW r \in Records, NEW v \in Revisions,
           AdmitEvidence(r, v) \/ WithdrawEvidence(r, v) \/ Expire(r, v)
    PROVE  FinInv'
<1>1. /\ evidence' \in [Records -> [Revisions -> EvidenceStates]] /\ OneInForce'
      /\ UNCHANGED <<standing, sources, releases, operations, forms, effects, admitted,
                     inquiries, delivery, visits>>
  BY EvidenceStep DEF owner, public
<1> QED
  BY <1>1 DEF FinInv, TypeOK, AnswersAreTrue, PendingIsServable, OneReceipt, StagesMatch,
              FormsKnow, ReceiptsMatch

LEMMA SaveSourceKeeps == ASSUME FinInv, NEW s \in Sources, SaveSource(s) PROVE FinInv'
BY DEF SaveSource, owner, public, FinInv, TypeOK, OneInForce, AnswersAreTrue, PendingIsServable,
       OneReceipt, StagesMatch, FormsKnow, ReceiptsMatch

LEMMA StandingKeeps == ASSUME FinInv, StandingChanges PROVE FinInv'
BY DEF StandingChanges, owner, public, FinInv, TypeOK, OneInForce, AnswersAreTrue,
       PendingIsServable, OneReceipt, StagesMatch, FormsKnow, ReceiptsMatch

-----------------------------------------------------------------------------
(* The owner's commands *)

LEMMA LoadKeeps ==
    ASSUME FinInv, NEW f \in Forms, NEW command \in Commands, NEW x \in Releases, NEW s \in Sources,
           Load(f, command, x, s)
    PROVE  FinInv'
<1> DEFINE new == [command |-> command, release |-> x, revision |-> releases[x].revision,
                   source |-> s, answer |-> "none"]
<1>1. new \in Form
  BY DEF FinInv, TypeOK, Release, Form, Answers
<1>2. /\ forms' = [forms EXCEPT ![f] = new] /\ forms \in [Forms -> Form]
      /\ command # "none" /\ effects[f] \in 0..1
      /\ command # "prepare" => releases[x].state # "none" /\ s = releases[x].source
      /\ UNCHANGED <<standing, evidence, sources, releases, operations, effects, admitted,
                     inquiries, delivery, visits>>
  BY DEF Load, setup, public, FinInv, TypeOK, Commands
<1>3. /\ new.command = command /\ new.release = x /\ new.source = s /\ new.answer = "none"
  OBVIOUS
<1> HIDE DEF new
<1>4. /\ forms' \in [Forms -> Form] /\ forms'[f] = new
      /\ \A g \in Forms : g # f => forms'[g] = forms[g]
  BY <1>1, <1>2
<1>5. TypeOK'
  BY <1>2, <1>4 DEF FinInv, TypeOK
<1>6. FormsKnow'
  BY <1>2, <1>3, <1>4 DEF FinInv, FormsKnow
<1>7. AnswersAreTrue'
  BY <1>2, <1>3, <1>4 DEF FinInv, AnswersAreTrue
<1> QED
  BY <1>2, <1>5, <1>6, <1>7
     DEF FinInv, OneInForce, PendingIsServable, OneReceipt, StagesMatch, ReceiptsMatch

LEMMA VerdictFacts ==
    ASSUME NEW f
    PROVE  /\ Verdict(f) \in Answers /\ Verdict(f) # "none"
           /\ Verdict(f) = "conflict" => New(f)
           /\ Verdict(f) = "done" =>
                /\ Eligible(f)
                /\ New(f) => releases[forms[f].release].state \in From(forms[f].command)
BY DEF Verdict, Answers

\* A form that is answered keeps everything else.
LEMMA AnsweredForm ==
    ASSUME FinInv, NEW f \in Forms, NEW a \in Answers,
           forms' = [forms EXCEPT ![f].answer = a]
    PROVE  /\ forms' \in [Forms -> Form] /\ forms'[f].answer = a
           /\ \A g \in Forms :
                /\ forms'[g].command = forms[g].command /\ forms'[g].release = forms[g].release
                /\ forms'[g].source = forms[g].source
                /\ g # f => forms'[g] = forms[g]
BY ZenonT(40) DEF FinInv, TypeOK, Form

LEMMA RepeatKeeps == ASSUME FinInv, NEW f \in Forms, Repeat(f) PROVE FinInv'
<1>1. /\ forms' \in [Forms -> Form] /\ forms'[f].answer = Verdict(f)
      /\ \A g \in Forms :
           /\ forms'[g].command = forms[g].command /\ forms'[g].release = forms[g].release
           /\ forms'[g].source = forms[g].source
           /\ g # f => forms'[g] = forms[g]
  BY VerdictFacts, AnsweredForm DEF Repeat
<1>2. UNCHANGED <<standing, evidence, sources, releases, operations, effects, admitted, inquiries,
                  delivery, visits>>
  BY DEF Repeat, setup, public
<1>3. /\ Verdict(f) = "conflict" => effects[f] = 0
      /\ Verdict(f) = "done" => effects[f] = 1
  BY VerdictFacts DEF Repeat, New, FinInv, FormsKnow, TypeOK
<1>4. TypeOK'
  BY <1>1, <1>2 DEF FinInv, TypeOK
<1>5. FormsKnow'
  BY <1>1, <1>2 DEF FinInv, FormsKnow, Repeat, Waits
<1>6. AnswersAreTrue'
  BY <1>1, <1>2, <1>3 DEF FinInv, AnswersAreTrue
<1> QED
  BY <1>2, <1>4, <1>5, <1>6
     DEF FinInv, OneInForce, PendingIsServable, OneReceipt, StagesMatch, ReceiptsMatch

\* The release of a form that is carried out, after it.
Result(f) ==
    [state |-> To(forms[f].command), revision |-> releases[forms[f].release].revision + 1,
     source |-> forms[f].source,
     approved |-> releases[forms[f].release].approved \/ forms[f].command = "approve"]

\* What a command that is carried out makes of the releases: nothing, or one transition of one
\* release, which keeps its evidence unless it is prepared.
LEMMA ConfirmedRelease ==
    ASSUME FinInv, NEW f \in Forms, Confirm(f)
    PROVE  LET x == forms[f].release
               command == forms[f].command
           IN  /\ x \in Releases /\ command \in Commands /\ forms[f].source \in Sources
               /\ releases[x].state \in From(command)
               /\ command \in {"prepare", "approve", "publish"} => Holds(forms[f].source)
               /\ releases' \in [Releases -> Release]
               /\ \A y \in Releases : y # x => releases'[y] = releases[y]
               /\ releases'[x].state = To(command)
               /\ releases'[x].source = forms[f].source
               /\ command # "prepare" => releases[x].source = forms[f].source
               /\ ~Changes(f) => UNCHANGED releases
               /\ StagesMatch'
<1> DEFINE x == forms[f].release
           command == forms[f].command
<1>1. /\ x \in Releases /\ command \in Commands /\ forms[f].source \in Sources
      /\ command # "prepare" => releases[x].source = forms[f].source
  BY DEF Confirm, Waits, FinInv, TypeOK, Form, FormsKnow
<1>2. releases[x].state \in From(command) /\ Eligible(f)
  BY VerdictFacts DEF Confirm
<1>3. command \in {"prepare", "approve", "publish"} => Holds(forms[f].source)
  BY <1>2 DEF Eligible
<1>4. releases[x] \in Release /\ StagesMatch /\ releases \in [Releases -> Release]
  BY <1>1 DEF FinInv, TypeOK
<1>5. CASE ~Changes(f)
  <2>1. UNCHANGED releases
    BY <1>5 DEF Confirm, Saved
  <2>2. releases[x].state = To(command) /\ command = "revoke"
    BY <1>1, <1>2, <1>5 DEF Changes, To, From, Commands
  <2> QED
    BY <1>1, <1>2, <1>3, <1>4, <2>1, <2>2 DEF StagesMatch
<1>6. CASE Changes(f)
  <2>1. releases' = [releases EXCEPT ![x] = Result(f)]
    BY <1>6 DEF Confirm, Saved, Result
  <2>2. /\ releases[x].revision + 1 \in 0..4
        /\ To(command) = "prepared" => releases[x].revision + 1 = 1
        /\ To(command) \in {"approved", "rejected"} => releases[x].revision + 1 = 2
        /\ To(command) = "published" => releases[x].revision + 1 = 3
        /\ To(command) \in States \ {"none"}
    <3>1. CASE command = "prepare"
      BY <1>1, <1>2, <1>4, <3>1 DEF StagesMatch, From, To, States
    <3>2. CASE command = "approve"
      BY <1>1, <1>2, <1>4, <3>2 DEF StagesMatch, From, To, States
    <3>3. CASE command = "publish"
      BY <1>1, <1>2, <1>4, <3>3 DEF StagesMatch, From, To, States
    <3>4. CASE command = "reject"
      BY <1>1, <1>2, <1>4, <3>4 DEF StagesMatch, From, To, States
    <3>5. CASE command = "revoke"
      BY <1>1, <1>2, <1>4, <1>6, <3>5 DEF StagesMatch, From, To, States, Changes
    <3> QED
      BY <1>1, <3>1, <3>2, <3>3, <3>4, <3>5 DEF Commands
  <2>3. /\ Result(f) \in Release
        /\ Result(f).state = To(command) /\ Result(f).source = forms[f].source
        /\ Result(f).revision = releases[x].revision + 1
    BY <1>1, <1>4, <2>2 DEF Result, Release
  <2>4. /\ releases' \in [Releases -> Release] /\ releases'[x] = Result(f)
        /\ \A y \in Releases : y # x => releases'[y] = releases[y]
    BY <1>1, <1>4, <2>1, <2>3
  <2>5. StagesMatch'
    BY <1>1, <1>4, <2>2, <2>3, <2>4 DEF StagesMatch
  <2> QED
    BY <1>1, <1>2, <1>3, <1>6, <2>3, <2>4, <2>5
<1> QED
  BY <1>5, <1>6

\* A revocation blocks what is to be delivered of its release, and nothing else changes.
LEMMA BlockedFacts ==
    ASSUME FinInv, NEW f \in Forms, Blocked(f), NEW q \in Requests
    PROVE  /\ delivery'[q] \in {"none", "pending", "blocked"}
           /\ delivery'[q] = "none" <=> delivery[q] = "none"
           /\ delivery'[q] = "pending" => delivery[q] = "pending"
           /\ forms[f].command = "revoke" /\ Changes(f) /\ Target[q] = forms[f].release =>
                delivery'[q] # "pending"
           /\ ~(forms[f].command = "revoke" /\ Changes(f) /\ Target[q] = forms[f].release) =>
                delivery'[q] = delivery[q]
BY DEF Blocked, FinInv, TypeOK

LEMMA ConfirmKeeps == ASSUME FinInv, NEW f \in Forms, Confirm(f) PROVE FinInv'
<1>0. PICK x \in Releases : forms[f].release = x
  BY ConfirmedRelease
<1>1. PICK command \in Commands : forms[f].command = command
  BY ConfirmedRelease
<1>2. /\ releases' \in [Releases -> Release] /\ StagesMatch'
      /\ \A y \in Releases : y # x => releases'[y] = releases[y]
      /\ releases'[x].state = To(command) /\ To(command) # "none"
      /\ releases'[x].source = forms[f].source
      /\ releases[x].state \in From(command)
      /\ command # "prepare" => releases[x].source = forms[f].source
      /\ ~Changes(f) => UNCHANGED releases
  BY <1>0, <1>1, ConfirmedRelease DEF To, Commands
<1>3. /\ UNCHANGED <<standing, evidence, sources, admitted, inquiries, visits>>
      /\ operations[f] = Unset /\ operations' = [operations EXCEPT ![f] = x]
      /\ effects' = [effects EXCEPT ![f] = effects[f] + 1]
      /\ command # "none" /\ forms[f].answer = "none" /\ Blocked(f)
  BY <1>0, <1>1 DEF Confirm, Completed, New, Waits, setup
<1>4. effects[f] = 0 /\ effects' = [effects EXCEPT ![f] = 1] /\ x # Unset
  <2>1. effects[f] = 0
    BY <1>3 DEF FinInv, FormsKnow
  <2>2. x # Unset
    BY FinancingAssumption
  <2> QED
    BY <1>3, <2>1, <2>2
<1>5. /\ forms' \in [Forms -> Form] /\ forms'[f].answer \in {"none", "done"}
      /\ \A g \in Forms :
           /\ forms'[g].command = forms[g].command /\ forms'[g].release = forms[g].release
           /\ forms'[g].source = forms[g].source
           /\ g # f => forms'[g] = forms[g]
  <2>1. "done" \in Answers /\ forms \in [Forms -> Form]
    BY DEF Answers, FinInv, TypeOK
  <2>2. CASE forms' = forms
    BY <1>3, <2>1, <2>2
  <2>3. CASE forms' = [forms EXCEPT ![f].answer = "done"]
    BY <2>1, <2>3, AnsweredForm
  <2> QED
    BY <2>2, <2>3 DEF Confirm, Told
<1>6. TypeOK'
  <2>1. delivery' \in [Requests -> {"none", "pending", "blocked"}]
    BY <1>3, BlockedFacts DEF Blocked
  <2>2. operations' \in [Forms -> Releases \cup {Unset}] /\ effects' \in [Forms -> 0..1]
    BY <1>3, <1>4 DEF FinInv, TypeOK
  <2> QED
    BY <1>2, <1>3, <1>5, <2>1, <2>2 DEF FinInv, TypeOK
<1>7. FormsKnow'
  <2>1. ASSUME NEW g \in Forms PROVE (operations'[g] = Unset) <=> (effects'[g] = 0)
    BY <1>3, <1>4 DEF FinInv, FormsKnow, TypeOK
  <2>2. ASSUME NEW g \in Forms, forms[g].command # "none", forms[g].command # "prepare"
        PROVE  /\ releases'[forms[g].release].state # "none"
               /\ forms[g].source = releases'[forms[g].release].source
    <3>1. /\ forms[g].release \in Releases /\ releases[forms[g].release].state # "none"
          /\ forms[g].source = releases[forms[g].release].source
      BY <2>2 DEF FinInv, FormsKnow
    <3>2. CASE forms[g].release # x
      BY <1>2, <3>1, <3>2
    \* What exists is not prepared again, so its evidence stays.
    <3>3. CASE forms[g].release = x
      <4>1. command # "prepare"
        BY <1>2, <3>1, <3>3 DEF From
      <4> QED
        BY <1>2, <3>1, <3>3, <4>1
    <3> QED
      BY <3>2, <3>3
  <2>3. ASSUME NEW g \in Forms
        PROVE  /\ forms'[g].command = "none" => forms'[g].answer = "none"
               /\ forms'[g].command # "none" =>
                    forms'[g].release \in Releases /\ forms'[g].source \in Sources
    BY <1>1, <1>3, <1>5 DEF FinInv, FormsKnow
  <2>4. ASSUME NEW g \in Forms, forms'[g].command # "none", forms'[g].command # "prepare"
        PROVE  /\ releases'[forms'[g].release].state # "none"
               /\ forms'[g].source = releases'[forms'[g].release].source
    <3>1. forms[g].command # "none" /\ forms[g].command # "prepare"
      BY <1>5, <2>4
    <3> QED
      BY <1>5, <2>2, <3>1
  <2> QED
    BY <2>1, <2>3, <2>4 DEF FormsKnow
<1>8. AnswersAreTrue'
  BY <1>4, <1>5 DEF FinInv, AnswersAreTrue, TypeOK
<1>9. PendingIsServable'
  <2>1. ASSUME NEW q \in Requests, delivery'[q] = "pending"
        PROVE  inquiries'[q].kept /\ releases'[Target[q]].state = "published"
    <3>1. /\ delivery[q] = "pending"
          /\ ~(command = "revoke" /\ Changes(f) /\ Target[q] = x)
      BY <1>0, <1>1, <1>3, <2>1, BlockedFacts
    <3>2. inquiries[q].kept /\ releases[Target[q]].state = "published" /\ Target[q] \in Releases
      BY <3>1, FinancingAssumption DEF FinInv, PendingIsServable
    <3>3. CASE Target[q] # x
      BY <1>2, <1>3, <3>2, <3>3
    <3>4. CASE Target[q] = x /\ ~Changes(f)
      BY <1>2, <1>3, <3>2, <3>4
    <3>5. CASE Target[q] = x /\ Changes(f)
      BY <1>2, <3>1, <3>2, <3>5 DEF From, Commands
    <3> QED
      BY <3>3, <3>4, <3>5
  <2> QED
    BY <2>1 DEF PendingIsServable
<1>10. ReceiptsMatch'
  BY <1>3, BlockedFacts DEF FinInv, ReceiptsMatch
<1> QED
  BY <1>2, <1>3, <1>6, <1>7, <1>8, <1>9, <1>10 DEF FinInv, OneInForce, OneReceipt

-----------------------------------------------------------------------------
(* Visitors *)

\* What steps that only concern visitors leave of the invariant.
LEMMA VisitorFrame ==
    ASSUME FinInv, UNCHANGED <<standing, evidence, sources, releases, operations, forms, effects>>,
           admitted' \in [Requests -> Admission], inquiries' \in [Requests -> Inquiry],
           delivery' \in [Requests -> {"none", "pending", "blocked"}],
           visits' \in [Requests -> Visit],
           PendingIsServable', OneReceipt', ReceiptsMatch'
    PROVE  FinInv'
BY DEF FinInv, TypeOK, OneInForce, AnswersAreTrue, StagesMatch, FormsKnow

LEMMA ReadKeeps == ASSUME FinInv, NEW q \in Requests, Read(q) PROVE FinInv'
<1>1. /\ visits' \in [Requests -> Visit]
      /\ visits'[q].pc = "page" /\ visits'[q].receipts = visits[q].receipts
      /\ \A p \in Requests : p # q => visits'[p] = visits[p]
  BY ZenonT(40) DEF Read, FinInv, TypeOK, Visit
<1>2. UNCHANGED <<standing, evidence, sources, releases, operations, forms, effects, admitted,
                  inquiries, delivery>>
  BY DEF Read, setup, owner
<1>3. PendingIsServable' /\ OneReceipt' /\ ReceiptsMatch'
  BY <1>1, <1>2 DEF FinInv, PendingIsServable, OneReceipt, ReceiptsMatch
<1> QED
  BY <1>1, <1>2, <1>3, VisitorFrame DEF FinInv, TypeOK

LEMMA AdmitKeeps ==
    ASSUME FinInv, NEW q \in Requests, NEW c \in Contents, Admit(q, c) PROVE FinInv'
<1> DEFINE new == [pc |-> "admitted", content |-> c, try |-> visits[q].try + 1,
                   receipts |-> visits[q].receipts, answer |-> visits[q].answer]
<1>1. visits \in [Requests -> Visit] /\ visits[q].try + 1 \in 0..MaxTries /\ visits[q].try + 1 # 0
  BY FinancingAssumption DEF Admit, FinInv, TypeOK, Visit
<1>2. /\ new \in Visit /\ new.receipts = visits[q].receipts /\ new.try # 0
  BY <1>1 DEF Visit
<1>3. visits' = [visits EXCEPT ![q] = new]
  BY DEF Admit
<1> HIDE DEF new
<1>4. /\ visits' \in [Requests -> Visit] /\ visits'[q] = new
      /\ \A p \in Requests : p # q => visits'[p] = visits[p]
  BY <1>1, <1>2, <1>3
<1>5. /\ UNCHANGED <<standing, evidence, sources, releases, operations, forms, effects, inquiries,
                     delivery>>
      /\ admitted' \in [Requests -> Admission]
  BY DEF Admit, setup, owner, FinInv, TypeOK, Admission
<1>6. PendingIsServable' /\ OneReceipt' /\ ReceiptsMatch'
  BY <1>2, <1>4, <1>5 DEF FinInv, PendingIsServable, OneReceipt, ReceiptsMatch
<1> QED
  BY <1>4, <1>5, <1>6, VisitorFrame DEF FinInv, TypeOK

\* A visitor who is answered, or not, is back on the page, with a receipt more or none.
LEMMA BackFacts ==
    ASSUME FinInv, NEW q \in Requests, NEW receipts \in SUBSET (1..MaxTries),
           NEW answer \in {"none", "saved", "conflict", "unavailable"}, Back(q, receipts, answer)
    PROVE  /\ visits' \in [Requests -> Visit]
           /\ visits'[q].pc = "page" /\ visits'[q].receipts = receipts
           /\ \A p \in Requests : p # q => visits'[p] = visits[p]
<1> DEFINE new == [pc |-> "page", content |-> visits[q].content, try |-> visits[q].try,
                   receipts |-> receipts, answer |-> answer]
<1>1. new \in Visit /\ new.pc = "page" /\ new.receipts = receipts
  BY DEF FinInv, TypeOK, Visit
<1>2. visits' = [visits EXCEPT ![q] = new] /\ visits \in [Requests -> Visit]
  BY DEF Back, FinInv, TypeOK
<1> HIDE DEF new
<1> QED
  BY <1>1, <1>2

LEMMA RepliedFacts ==
    ASSUME FinInv, NEW q \in Requests, NEW receipt \in 1..MaxTries, Replied(q, receipt)
    PROVE  /\ visits' \in [Requests -> Visit]
           /\ visits'[q].pc = "page"
           /\ visits'[q].receipts \subseteq visits[q].receipts \cup {receipt}
           /\ \A p \in Requests : p # q => visits'[p] = visits[p]
<1>1. visits[q].receipts \in SUBSET (1..MaxTries)
      /\ visits[q].answer \in {"none", "saved", "conflict", "unavailable"}
  BY DEF FinInv, TypeOK, Visit
<1>2. visits[q].receipts \cup {receipt} \in SUBSET (1..MaxTries)
  BY <1>1
<1>3. CASE Back(q, visits[q].receipts \cup {receipt}, "saved")
  BY <1>2, <1>3, BackFacts
<1>4. CASE Back(q, visits[q].receipts, visits[q].answer)
  BY <1>1, <1>4, BackFacts
<1> QED
  BY <1>3, <1>4 DEF Replied

LEMMA CaptureKeeps == ASSUME FinInv, NEW q \in Requests, Capture(q) PROVE FinInv'
<1>1. /\ visits[q].try \in 1..MaxTries /\ visits[q].content \in Contents \cup {Unset}
      /\ releases[Target[q]].state = "published" /\ delivery[q] = "none"
  <2>1. visits[q].try # 0
    BY DEF Capture, FinInv, ReceiptsMatch
  <2>2. visits[q].try \in 0..MaxTries /\ visits[q].content \in Contents \cup {Unset}
    BY DEF FinInv, TypeOK, Visit
  <2>3. Public(Target[q]) /\ delivery[q] = "none"
    BY DEF Capture, Finding
  <2> QED
    BY <2>1, <2>2, <2>3, FinancingAssumption DEF Public
<1>2. visits[q].receipts = {}
  BY <1>1 DEF FinInv, ReceiptsMatch
<1>3. /\ visits' \in [Requests -> Visit] /\ visits'[q].pc = "page"
      /\ visits'[q].receipts \subseteq {visits[q].try}
      /\ \A p \in Requests : p # q => visits'[p] = visits[p]
  BY <1>1, <1>2, RepliedFacts DEF Capture
<1>4. Kept(q) \in Inquiry /\ Kept(q).kept /\ Kept(q).id = visits[q].try /\ Kept(q).id # 0
  BY <1>1 DEF Kept, Inquiry
<1>5. /\ inquiries' \in [Requests -> Inquiry] /\ inquiries'[q] = Kept(q)
      /\ delivery' \in [Requests -> {"none", "pending", "blocked"}] /\ delivery'[q] = "pending"
      /\ \A p \in Requests : p # q => inquiries'[p] = inquiries[p] /\ delivery'[p] = delivery[p]
      /\ UNCHANGED <<standing, evidence, sources, releases, operations, forms, effects>>
  BY <1>4 DEF Capture, setup, owner, FinInv, TypeOK
<1>6. admitted' \in [Requests -> Admission]
  BY <1>1 DEF Capture, FinInv, TypeOK, Admission
<1>7. PendingIsServable'
  BY <1>1, <1>4, <1>5 DEF FinInv, PendingIsServable
<1>8. OneReceipt'
  BY <1>3 DEF FinInv, OneReceipt
<1>9. ReceiptsMatch'
  BY <1>3, <1>4, <1>5 DEF FinInv, ReceiptsMatch
<1> QED
  BY <1>3, <1>5, <1>6, <1>7, <1>8, <1>9, VisitorFrame

LEMMA RecaptureKeeps == ASSUME FinInv, NEW q \in Requests, Recapture(q) PROVE FinInv'
<1>1. inquiries[q].kept
  BY DEF Recapture, Finding
<1>2. inquiries[q].id \in 1..MaxTries /\ visits[q].receipts \subseteq {inquiries[q].id}
  BY <1>1, FinancingAssumption DEF FinInv, ReceiptsMatch, TypeOK, Inquiry
<1>3. /\ visits' \in [Requests -> Visit] /\ visits'[q].pc = "page"
      /\ visits'[q].receipts \subseteq {inquiries[q].id}
      /\ \A p \in Requests : p # q => visits'[p] = visits[p]
  BY <1>2, RepliedFacts DEF Recapture
<1>4. UNCHANGED <<standing, evidence, sources, releases, operations, forms, effects, admitted,
                  inquiries, delivery>>
  BY DEF Recapture, setup, owner
<1>5. PendingIsServable' /\ OneReceipt' /\ ReceiptsMatch'
  BY <1>1, <1>3, <1>4 DEF FinInv, PendingIsServable, OneReceipt, ReceiptsMatch
<1> QED
  BY <1>3, <1>4, <1>5, VisitorFrame DEF FinInv, TypeOK

LEMMA DenyKeeps == ASSUME FinInv, NEW q \in Requests, Deny(q) PROVE FinInv'
<1>1. visits[q].receipts \in SUBSET (1..MaxTries)
      /\ Finding(q) \in {"none", "saved", "conflict", "unavailable"}
  BY DEF Deny, FinInv, TypeOK, Visit
<1>2. /\ visits' \in [Requests -> Visit] /\ visits'[q].pc = "page"
      /\ visits'[q].receipts = visits[q].receipts
      /\ \A p \in Requests : p # q => visits'[p] = visits[p]
  BY <1>1, BackFacts DEF Deny
<1>3. UNCHANGED <<standing, evidence, sources, releases, operations, forms, effects, admitted,
                  inquiries, delivery>>
  BY DEF Deny, setup, owner
<1>4. PendingIsServable' /\ OneReceipt' /\ ReceiptsMatch'
  BY <1>2, <1>3 DEF FinInv, PendingIsServable, OneReceipt, ReceiptsMatch
<1> QED
  BY <1>2, <1>3, <1>4, VisitorFrame DEF FinInv, TypeOK

-----------------------------------------------------------------------------
(* Removal and retention *)

\* What is removed leaves a delivery that is not to be made, never none.
LEMMA RemovedFacts ==
    ASSUME FinInv, NEW Q \in SUBSET Requests, Removed(Q), NEW q \in Requests
    PROVE  /\ q \in Q => ~inquiries'[q].kept /\ delivery'[q] # "pending"
           /\ q \notin Q => inquiries'[q] = inquiries[q] /\ delivery'[q] = delivery[q]
           /\ delivery'[q] = "none" <=> delivery[q] = "none"
           /\ delivery'[q] \in {"none", "pending", "blocked"} /\ inquiries'[q] \in Inquiry
BY FinancingAssumption DEF Removed, NoInquiry, Inquiry, FinInv, TypeOK

LEMMA RemovedKeeps == ASSUME FinInv, NEW Q \in SUBSET Requests, Removed(Q) PROVE FinInv'
<1>1. /\ inquiries' \in [Requests -> Inquiry]
      /\ delivery' \in [Requests -> {"none", "pending", "blocked"}]
  BY RemovedFacts DEF Removed
<1>2. UNCHANGED <<standing, evidence, sources, releases, operations, forms, effects, admitted, visits>>
  BY DEF Removed, setup, owner
<1>3. PendingIsServable' /\ OneReceipt' /\ ReceiptsMatch'
  <2>1. PendingIsServable'
    BY <1>2, RemovedFacts DEF FinInv, PendingIsServable
  <2>2. ReceiptsMatch'
    BY <1>2, RemovedFacts DEF FinInv, ReceiptsMatch
  <2> QED
    BY <1>2, <2>1, <2>2 DEF FinInv, OneReceipt
<1> QED
  BY <1>1, <1>2, <1>3, VisitorFrame DEF FinInv, TypeOK

LEMMA InquiryExpiresKeeps == ASSUME FinInv, NEW q \in Requests, InquiryExpires(q) PROVE FinInv'
<1>1. /\ inquiries' \in [Requests -> Inquiry]
      /\ \A p \in Requests :
           inquiries'[p].kept = inquiries[p].kept /\ inquiries'[p].id = inquiries[p].id
  BY ZenonT(40) DEF InquiryExpires, FinInv, TypeOK, Inquiry
<1>2. UNCHANGED <<standing, evidence, sources, releases, operations, forms, effects, admitted,
                  delivery, visits>>
  BY DEF InquiryExpires, setup, owner
<1>3. PendingIsServable' /\ OneReceipt' /\ ReceiptsMatch'
  BY <1>1, <1>2 DEF FinInv, PendingIsServable, OneReceipt, ReceiptsMatch
<1> QED
  BY <1>1, <1>2, <1>3, VisitorFrame DEF FinInv, TypeOK

-----------------------------------------------------------------------------
(* Always *)

LEMMA FinInit == Init => FinInv
<1> SUFFICES ASSUME Init PROVE FinInv
  OBVIOUS
<1>1. NoForm \in Form /\ NoForm.command = "none" /\ NoForm.answer = "none"
  BY DEF NoForm, Form, Answers
<1>2. /\ NoAdmission \in Admission /\ NoInquiry \in Inquiry /\ ~NoInquiry.kept
      /\ NoVisit \in Visit /\ NoVisit.pc = "away" /\ NoVisit.receipts = {}
  BY FinancingAssumption DEF NoAdmission, Admission, NoInquiry, Inquiry, NoVisit, Visit
<1>3. [state |-> "none", revision |-> 0, source |-> NoSource, approved |-> FALSE] \in Release
  BY DEF Release, States
<1>4. TypeOK
  BY <1>1, <1>2, <1>3 DEF Init, TypeOK, EvidenceStates
<1>5. StagesMatch /\ PendingIsServable /\ OneInForce
  BY DEF Init, StagesMatch, PendingIsServable, OneInForce
<1>6. FormsKnow /\ AnswersAreTrue
  BY <1>1 DEF Init, FormsKnow, AnswersAreTrue
<1>7. OneReceipt /\ ReceiptsMatch
  BY <1>2 DEF Init, OneReceipt, ReceiptsMatch
<1> QED
  BY <1>4, <1>5, <1>6, <1>7 DEF FinInv

LEMMA FinNext == FinInv /\ [Next]_vars => FinInv'
<1> SUFFICES ASSUME FinInv, [Next]_vars PROVE FinInv'
  OBVIOUS
<1>1. CASE Setup
  BY <1>1, EvidenceKeeps, SaveSourceKeeps, StandingKeeps DEF Setup
<1>2. CASE Owner
  BY <1>2, LoadKeeps, ConfirmKeeps, RepeatKeeps DEF Owner
<1>3. CASE Visitor
  BY <1>3, ReadKeeps, AdmitKeeps, CaptureKeeps, RecaptureKeeps, DenyKeeps DEF Visitor
<1>4. CASE Retention
  <2>1. \A q \in Requests : {q} \in SUBSET Requests
    OBVIOUS
  <2>2. \A Q \in SUBSET Expired : Q \in SUBSET Requests
    BY DEF Expired
  <2> QED
    BY <1>4, <2>1, <2>2, RemovedKeeps, InquiryExpiresKeeps DEF Retention, Purge, RemoveInquiry
<1>5. CASE UNCHANGED vars
  BY <1>5 DEF vars, setup, owner, public, FinInv, TypeOK, OneInForce, AnswersAreTrue,
              PendingIsServable, OneReceipt, StagesMatch, FormsKnow, ReceiptsMatch
<1> QED
  BY <1>1, <1>2, <1>3, <1>4, <1>5 DEF Next

LEMMA FinAlways == Spec => []FinInv
BY FinInit, FinNext, PTL DEF Spec

\* Rows, forms and visits stay typed, and a confirmation is carried out at most once.
THEOREM FinancingTyped == Spec => []TypeOK
<1>1. FinInv => TypeOK
  BY DEF FinInv
<1> QED
  BY <1>1, FinAlways, PTL

\* However evidence is admitted, withdrawn and expires, one revision of a record at most is in force.
THEOREM OneRevisionInForce == Spec => []OneInForce
<1>1. FinInv => OneInForce
  BY DEF FinInv
<1> QED
  BY <1>1, FinAlways, PTL

\* The owner is told the truth, for any number of pages, repetitions and lost answers.
THEOREM OwnerIsToldTheTruth == Spec => []AnswersAreTrue
<1>1. FinInv => AnswersAreTrue
  BY DEF FinInv
<1> QED
  BY <1>1, FinAlways, PTL

\* Nothing is to be delivered of an inquiry that is gone or of a release that is not published.
THEOREM PendingStaysServable == Spec => []PendingIsServable
<1>1. FinInv => PendingIsServable
  BY DEF FinInv
<1> QED
  BY <1>1, FinAlways, PTL

\* All receipts of a request are of one inquiry.
THEOREM ReceiptsAgree == Spec => []OneReceipt
<1>1. FinInv => OneReceipt
  BY DEF FinInv
<1> QED
  BY <1>1, FinAlways, PTL

-----------------------------------------------------------------------------
(* The promise to the visitors *)

\* Steps that touch neither a release and its evidence nor an inquiry and its delivery.
LEMMA QuietPromise ==
    ASSUME UNCHANGED <<releases, evidence, inquiries, delivery>>
    PROVE  UNCHANGED Promise!promise
<1>1. ASSUME NEW x \in Releases PROVE OfferOf(x)' = OfferOf(x)
  BY DEF OfferOf, Dead
<1>2. ASSUME NEW q \in Requests PROVE InquiryOf(q)' = InquiryOf(q)
  BY DEF InquiryOf
<1> QED
  BY <1>1, <1>2 DEF Promise!promise

\* Evidence only ages, so what it has closed stays closed.
LEMMA EvidencePromise ==
    ASSUME FinInv, NEW r \in Records, NEW v \in Revisions,
           AdmitEvidence(r, v) \/ WithdrawEvidence(r, v) \/ Expire(r, v)
    PROVE  \E X \in SUBSET Releases : Promise!Lapse(X)
<1> DEFINE X == {x \in Releases : OfferOf(x)' = "closed"}
<1>1. /\ \A s \in Records, u \in Revisions : Ages(evidence[s][u], evidence'[s][u])
      /\ UNCHANGED <<releases, inquiries, delivery>>
  BY EvidenceStep DEF owner, public
<1>2. ASSUME NEW x \in Releases PROVE OfferOf(x)' = IF x \in X THEN "closed" ELSE OfferOf(x)
  <2>1. CASE releases[x].state = "none"
    BY <1>1, <2>1 DEF OfferOf
  <2>2. CASE releases[x].state # "none"
    <3>1. \A s \in Records : releases[x].source[s] \in Revisions
      BY <2>2 DEF FinInv, StagesMatch, Sources
    <3>2. Dead(x) => Dead(x)'
      BY <1>1, <3>1 DEF Dead, Ages
    <3> QED
      BY <1>1, <2>2, <3>2 DEF OfferOf
  <2> QED
    BY <2>1, <2>2
<1>3. ASSUME NEW q \in Requests PROVE InquiryOf(q)' = InquiryOf(q)
  BY <1>1 DEF InquiryOf
<1>4. Promise!Lapse(X)
  BY <1>2, <1>3 DEF Promise!Lapse
<1> QED
  BY <1>4

\* Evidence that holds is not dead.
LEMMA HoldsAlive ==
    ASSUME NEW x \in Releases, Holds(releases[x].source)
    PROVE  ~Dead(x)
BY DEF Holds, Dead

LEMMA ConfirmPromise ==
    ASSUME FinInv, NEW f \in Forms, Confirm(f)
    PROVE  \/ \E x \in Releases : Promise!Offer(x) \/ Promise!End(x)
           \/ UNCHANGED Promise!promise
<1>0. PICK x \in Releases : forms[f].release = x
  BY ConfirmedRelease
<1>1. PICK command \in Commands : forms[f].command = command
  BY ConfirmedRelease
<1>2. /\ \A y \in Releases : y # x => releases'[y] = releases[y]
      /\ releases'[x].state = To(command)
      /\ releases'[x].source = forms[f].source
      /\ releases[x].state \in From(command)
      /\ command # "prepare" => releases[x].source = forms[f].source
      /\ command \in {"prepare", "approve", "publish"} => Holds(forms[f].source)
      /\ ~Changes(f) => UNCHANGED releases
  BY <1>0, <1>1, ConfirmedRelease
<1>3. UNCHANGED <<evidence, inquiries>> /\ Blocked(f)
  BY DEF Confirm, setup
<1>4. ASSUME NEW y \in Releases, y # x PROVE OfferOf(y)' = OfferOf(y)
  BY <1>2, <1>3, <1>4 DEF OfferOf, Dead
<1>5. ASSUME command \in {"prepare", "approve", "publish"} PROVE ~Dead(x)'
  BY <1>2, <1>3, <1>5 DEF Holds, Dead
<1>6. ASSUME ~(command = "revoke" /\ Changes(f)), NEW q \in Requests
      PROVE  InquiryOf(q)' = InquiryOf(q)
  <2>1. delivery'[q] = delivery[q]
    BY <1>1, <1>3, <1>6, BlockedFacts
  <2> QED
    BY <1>3, <2>1 DEF InquiryOf
<1>7. CASE ~Changes(f)
  <2>1. OfferOf(x)' = OfferOf(x)
    BY <1>2, <1>3, <1>7 DEF OfferOf, Dead
  <2> QED
    BY <1>4, <1>6, <1>7, <2>1 DEF Promise!promise
<1>8. CASE command = "prepare"
  <2>1. OfferOf(x)' = OfferOf(x)
    BY <1>2, <1>5, <1>8 DEF OfferOf, From, To
  <2> QED
    BY <1>4, <1>6, <1>8, <2>1 DEF Promise!promise
<1>9. CASE command = "approve"
  <2>1. ~Dead(x)
    BY <1>2, <1>9, HoldsAlive
  <2>2. OfferOf(x)' = OfferOf(x)
    BY <1>2, <1>5, <1>9, <2>1 DEF OfferOf, From, To
  <2> QED
    BY <1>4, <1>6, <1>9, <2>2 DEF Promise!promise
<1>10. CASE command = "publish"
  <2>1. ~Dead(x)
    BY <1>2, <1>10, HoldsAlive
  <2>2. OfferOf(x) = "private" /\ OfferOf(x)' = "public"
    BY <1>2, <1>5, <1>10, <2>1 DEF OfferOf, From, To
  <2>3. Promise!Offer(x)
    BY <1>4, <1>6, <1>10, <2>2 DEF Promise!Offer
  <2> QED
    BY <2>3
\* Nothing was to be delivered of a release that was not yet published.
<1>11. CASE command = "reject"
  <2>1. OfferOf(x)' = "closed"
    BY <1>2, <1>11 DEF OfferOf, To
  <2>2. ASSUME NEW q \in Requests, Target[q] = x PROVE InquiryOf(q) # "due"
    BY <1>2, <1>11, <2>2 DEF InquiryOf, From, FinInv, PendingIsServable
  <2>3. Promise!End(x)
    BY <1>4, <1>6, <1>11, <2>1, <2>2 DEF Promise!End
  <2> QED
    BY <2>3
<1>12. CASE command = "revoke" /\ Changes(f)
  <2>1. OfferOf(x)' = "closed"
    BY <1>2, <1>12 DEF OfferOf, To
  <2>2. ASSUME NEW q \in Requests
        PROVE  InquiryOf(q)' = IF Target[q] = x /\ InquiryOf(q) = "due" THEN "held" ELSE InquiryOf(q)
    <3>1. /\ delivery'[q] = "none" <=> delivery[q] = "none"
          /\ Target[q] = x => delivery'[q] # "pending"
          /\ Target[q] # x => delivery'[q] = delivery[q]
      BY <1>0, <1>1, <1>3, <1>12, BlockedFacts
    <3> QED
      BY <1>3, <3>1 DEF InquiryOf
  <2>3. Promise!End(x)
    BY <1>4, <2>1, <2>2 DEF Promise!End
  <2> QED
    BY <2>3
<1> QED
  BY <1>7, <1>8, <1>9, <1>10, <1>11, <1>12 DEF Commands

\* What is captured was public at that moment, and was never captured before.
LEMMA CapturePromise ==
    ASSUME FinInv, NEW q \in Requests, Capture(q)
    PROVE  Promise!Accept(q)
<1>1. Public(Target[q]) /\ delivery[q] = "none" /\ Target[q] \in Releases
  BY FinancingAssumption DEF Capture, Finding
<1>2. OfferOf(Target[q]) = "public"
  BY <1>1, HoldsAlive DEF Public, Current, OfferOf
<1>3. UNCHANGED <<releases, evidence>>
  BY DEF Capture, setup, owner
<1>4. ASSUME NEW x \in Releases PROVE OfferOf(x)' = OfferOf(x)
  BY <1>3 DEF OfferOf, Dead
<1>5. /\ inquiries'[q].kept /\ delivery'[q] = "pending"
      /\ \A p \in Requests : p # q => inquiries'[p] = inquiries[p] /\ delivery'[p] = delivery[p]
  BY DEF Capture, Kept, FinInv, TypeOK
<1>6. InquiryOf(q) = "none" /\ InquiryOf(q)' = "due"
  BY <1>1, <1>5 DEF InquiryOf
<1>7. ASSUME NEW p \in Requests, p # q PROVE InquiryOf(p)' = InquiryOf(p)
  BY <1>5, <1>7 DEF InquiryOf
<1> QED
  BY <1>1, <1>2, <1>4, <1>6, <1>7 DEF Promise!Accept

LEMMA RemovedPromise ==
    ASSUME FinInv, NEW Q \in SUBSET Requests, \A q \in Q : inquiries[q].kept, Removed(Q)
    PROVE  Promise!Remove(Q)
<1>1. UNCHANGED <<releases, evidence>>
  BY DEF Removed, setup, owner
<1>2. ASSUME NEW x \in Releases PROVE OfferOf(x)' = OfferOf(x)
  BY <1>1 DEF OfferOf, Dead
<1>3. ASSUME NEW q \in Q PROVE InquiryOf(q) \in {"due", "held"} /\ InquiryOf(q)' = "gone"
  <2>1. delivery[q] # "none" /\ q \in Requests
    BY <1>3 DEF FinInv, ReceiptsMatch
  <2> QED
    BY <1>3, <2>1, RemovedFacts DEF InquiryOf
<1>4. ASSUME NEW q \in Requests, q \notin Q PROVE InquiryOf(q)' = InquiryOf(q)
  BY <1>4, RemovedFacts DEF InquiryOf
<1> QED
  BY <1>2, <1>3, <1>4 DEF Promise!Remove

LEMMA InquiryExpiresPromise ==
    ASSUME FinInv, NEW q \in Requests, InquiryExpires(q)
    PROVE  UNCHANGED Promise!promise
<1>1. UNCHANGED <<releases, evidence, delivery>>
  BY DEF InquiryExpires, setup, owner
<1>2. \A p \in Requests : inquiries'[p].kept = inquiries[p].kept
  BY DEF InquiryExpires, FinInv, TypeOK, Inquiry
<1>3. ASSUME NEW x \in Releases PROVE OfferOf(x)' = OfferOf(x)
  BY <1>1 DEF OfferOf, Dead
<1>4. ASSUME NEW p \in Requests PROVE InquiryOf(p)' = InquiryOf(p)
  BY <1>1, <1>2 DEF InquiryOf
<1> QED
  BY <1>3, <1>4 DEF Promise!promise

LEMMA PromiseInit == Init => Promise!Promised
BY DEF Init, Promise!Promised, OfferOf, InquiryOf

LEMMA PromiseStep == FinInv /\ [Next]_vars => [Promise!PromiseNext]_(Promise!promise)
<1> SUFFICES ASSUME FinInv, [Next]_vars PROVE [Promise!PromiseNext]_(Promise!promise)
  OBVIOUS
<1>1. CASE Setup
  <2>1. ASSUME NEW r \in Records, NEW v \in Revisions,
               AdmitEvidence(r, v) \/ WithdrawEvidence(r, v) \/ Expire(r, v)
        PROVE  Promise!PromiseNext
    BY <2>1, EvidencePromise DEF Promise!PromiseNext
  <2>2. ASSUME NEW s \in Sources, SaveSource(s) PROVE UNCHANGED Promise!promise
    BY <2>2, QuietPromise DEF SaveSource, owner, public
  <2>3. CASE StandingChanges
    BY <2>3, QuietPromise DEF StandingChanges, owner, public
  <2> QED
    BY <1>1, <2>1, <2>2, <2>3 DEF Setup
<1>2. CASE Owner
  <2>1. PICK f \in Forms :
          \/ \E command \in Commands, x \in Releases, s \in Sources : Load(f, command, x, s)
          \/ Confirm(f) \/ Repeat(f)
    BY <1>2 DEF Owner
  <2>2. CASE Confirm(f)
    BY <2>2, ConfirmPromise DEF Promise!PromiseNext
  <2>3. CASE Repeat(f)
    BY <2>3, QuietPromise DEF Repeat, setup, public
  <2>4. ASSUME NEW command \in Commands, NEW x \in Releases, NEW s \in Sources,
               Load(f, command, x, s)
        PROVE  UNCHANGED Promise!promise
    BY <2>4, QuietPromise DEF Load, setup, public
  <2> QED
    BY <2>1, <2>2, <2>3, <2>4
<1>3. CASE Visitor
  <2>1. PICK q \in Requests :
          Read(q) \/ (\E c \in Contents : Admit(q, c)) \/ Capture(q) \/ Recapture(q) \/ Deny(q)
    BY <1>3 DEF Visitor
  <2>2. CASE Capture(q)
    BY <2>2, CapturePromise DEF Promise!PromiseNext
  <2>3. CASE Read(q) \/ (\E c \in Contents : Admit(q, c)) \/ Recapture(q) \/ Deny(q)
    BY <2>3, QuietPromise DEF Read, Admit, Recapture, Deny, setup, owner
  <2> QED
    BY <2>1, <2>2, <2>3
<1>4. CASE Retention
  <2>1. ASSUME NEW Q \in SUBSET Requests, \A q \in Q : inquiries[q].kept, Removed(Q)
        PROVE  Promise!PromiseNext
    BY <2>1, RemovedPromise DEF Promise!PromiseNext
  <2>2. Purge => Promise!PromiseNext
    <3>1. \A Q \in SUBSET Expired : Q \in SUBSET Requests /\ \A q \in Q : inquiries[q].kept
      BY DEF Expired
    <3> QED
      BY <2>1, <3>1 DEF Purge
  <2>3. ASSUME NEW q \in Requests, RemoveInquiry(q) PROVE Promise!PromiseNext
    <3>1. {q} \in SUBSET Requests /\ (\A p \in {q} : inquiries[p].kept) /\ Removed({q})
      BY <2>3 DEF RemoveInquiry
    <3> QED
      BY <2>1, <3>1
  <2> QED
    BY <1>4, <2>2, <2>3, InquiryExpiresPromise DEF Retention
<1>5. CASE UNCHANGED vars
  BY <1>5, QuietPromise DEF vars, setup, owner, public
<1> QED
  BY <1>1, <1>2, <1>3, <1>4, <1>5 DEF Next

\* For any number of releases, evidence, commands and visitors: an offer is made once and never
\* comes back, and an inquiry is accepted only while its offer is public, once.
THEOREM FinancingKeepsPromise == Spec => PromiseKept
BY PromiseInit, PromiseStep, FinAlways, PTL DEF Spec, PromiseKept, Promise!PromiseSpec
=============================================================================

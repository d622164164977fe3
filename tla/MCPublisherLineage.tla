------------------------- MODULE MCPublisherLineage -------------------------
(***************************************************************************)
(* Small instances of the publisher lineage: from a launch nothing was     *)
(* done with, and from one whose draft is complete, so that publishing,    *)
(* pausing and resuming can follow each other.                             *)
(***************************************************************************)
EXTENDS PublisherLineage, TLC

CONSTANTS FirstDraft, FirstId, FirstWorker

\* Operation FirstDraft created campaign, ad set and ad in one lease and read them back.
DraftedInit ==
    LET ids == [k \in Creations |-> FirstId]
    IN /\ launch = [state |-> "draft_ready", ids |-> ids, cancelGen |-> 0]
       /\ page = Stale
       /\ ops = [o \in Ops |-> IF o # FirstDraft THEN NoOp
                 ELSE [NoOp EXCEPT !.action = "draft", !.stage = "complete",
                           !.worker = FirstWorker, !.gen = 1,
                           !.view = [stage |-> "complete", state |-> "draft_ready", gen |-> 1]]]
       /\ attempts = [o \in Ops |-> [s \in EffectStages |->
                 IF o = FirstDraft /\ s \in Creations
                 THEN [status |-> "confirmed", gen |-> 1] ELSE NoAttempt]]
       /\ processed = {FirstDraft}

\* FirstDraft belongs to the second start; from the first one nothing reserves it.
FirstIsKept == ops[FirstDraft].action = "none" => ops'[FirstDraft].action = "none"

EitherSpec == (Init \/ DraftedInit) /\ [][Next /\ FirstIsKept]_store

\* A page is only read by a later command: once every operation is reserved, it need not change.
BrowseForCommand == page' \in {page, Stale} \/ \E o \in Ops : ~Reserved(o)
BrowseForLater == page' \in {page, Stale} \/ \E o \in Ops \ {FirstDraft} : ~Reserved(o)

Symmetry == Permutations(Ops)
LaterSymmetry == Permutations(Ops \ {FirstDraft})
=============================================================================

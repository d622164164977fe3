-------------------------- MODULE MCPublisherWorker --------------------------
(***************************************************************************)
(* Small instances of the workers and the provider, from a launch nothing  *)
(* was done with and from one whose draft is complete.                     *)
(***************************************************************************)
EXTENDS PublisherWorker, MCPublisherLineage

\* The provider holds the draft that FirstDraft created, each object by one request of
\* FirstWorker, which takes no further part.
DraftedWorkerInit ==
    /\ DraftedInit
    /\ Quiet
    /\ sent = [o \in Ops |-> [s \in EffectStages |->
                   IF o = FirstDraft /\ s \in Creations THEN 1 ELSE 0]]
    /\ remote = [made |-> [k \in Creations |-> {FirstId}], status |-> "DRAFT"]

DraftedWorkerSpec == DraftedWorkerInit /\ [][WorkerNext]_vars

\* Up to the draft: what spends money starts from a finished one.
DraftAndStop ==
    /\ BrowseForCommand
    /\ \A o \in Ops : ops'[o].action \in {"none", "draft"} \cup Stops

\* After the draft: a publication and the pause that may overtake it.
PublishAndPause ==
    /\ BrowseForCommand
    /\ \A o \in Ops : ops'[o].action \in {"none", "draft", "publish", "pause"}

WorkerSymmetry == Symmetry \cup Permutations(Ids) \cup Permutations(Workers)
LaterWorkerSymmetry == LaterSymmetry \cup Permutations(Workers)
=============================================================================

------------------------ MODULE MCPublicationCleanup ------------------------
(***************************************************************************)
(* Instances of PublicationCleanup for TLC.                                *)
(***************************************************************************)
EXTENDS PublicationCleanup, TLC

CONSTANTS s1, s2

Alike == Permutations({s1, s2})
=============================================================================

-------------------------- MODULE MCProposalReview --------------------------
(***************************************************************************)
(* Two instances of ProposalReview over the same variables: with two       *)
(* reviewers and a still disk, and with one reviewer while the user saves  *)
(* and other programs write and remove files. Proposals, reviewers and     *)
(* files are interchangeable.                                              *)
(***************************************************************************)
EXTENDS ProposalReview, TLC

CONSTANTS w1, w2, p1, p2, fileA, fileB, StillRevisions, MovingRevisions

VARIABLE busy  \* "reviewers" or "disk"

Still == INSTANCE ProposalReview
           WITH SavePaths <- {}, ForeignPaths <- {}, MaxRevision <- StillRevisions
Moving == INSTANCE ProposalReview
           WITH Reviewers <- {w1}, MaxRevision <- MovingRevisions

MCInit ==
  /\ busy \in {"reviewers", "disk"}
  /\ busy = "reviewers" => Still!Init
  /\ busy = "disk" => Moving!Init

MCNext ==
  /\ \/ busy = "reviewers" /\ Still!Next
     \/ busy = "disk" /\ Moving!Next
  /\ UNCHANGED busy

MCSpec == MCInit /\ [][MCNext]_<<vars, busy>>

Symmetry == Permutations(Reviewers) \cup Permutations(Proposals) \cup Permutations(Paths)
=============================================================================

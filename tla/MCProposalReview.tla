-------------------------- MODULE MCProposalReview --------------------------
(***************************************************************************)
(* The review of proposals, for TLC: a proposal of the client inbox that   *)
(* changes two documents, and two of projects that change one each.        *)
(***************************************************************************)
EXTENDS ProposalReview, TLC

CONSTANTS i, q1, q2, f1, f2

TargetsOnce == (i :> {f1, f2}) @@ (q1 :> {f1}) @@ (q2 :> {f2})

AnyRejected == {[requests |-> {<<i>>, <<q1>>, <<q1, q2>>}, declines |-> {"rejected"}, ownerWaits |-> TRUE]}

Symmetry == Permutations(Reviewers)
=============================================================================

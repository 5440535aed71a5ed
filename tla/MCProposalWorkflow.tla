------------------------- MODULE MCProposalWorkflow -------------------------
(***************************************************************************)
(* Instances of ProposalWorkflow for TLC.                                  *)
(***************************************************************************)
EXTENDS ProposalWorkflow, TLC

CONSTANTS p1, w1, w2

OneProposal == {p1}
TwoWorkers == {w1, w2}

AwardOnly == {Award}
DecisionOnly == {Decision}
=============================================================================

---------------------------- MODULE MCEnsCampaign ----------------------------
(* TLC instances of EnsCampaign. *)
EXTENDS EnsCampaign, TLC

\* Rows are claimed in any order and the engines run the same tick, so
\* destinations are interchangeable, and so are engines.
CampaignSymmetry == Permutations(Dest) \cup Permutations(Engine)

=============================================================================

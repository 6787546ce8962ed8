----------------------------- MODULE MCCampaign -----------------------------
(* Model values and bounds for model-checking Campaign. *)
EXTENDS Campaign, TLC

\* Every gameday has two experiments: a first, and a last that ends the campaign.
MCSteps == [g \in Gamedays |-> 2]

\* Campaign ids are interchangeable, and so are gamedays of equal length.
Symmetry == Permutations(Parents) \cup Permutations(Gamedays)
=============================================================================

-------------------------- MODULE MCCampaignData --------------------------
(* Small instances of CampaignData for TLC. *)
EXTENDS CampaignData, TLC

CONSTANTS c1, c2, j1, j2

\* Two files with the same numbers, for one campaign or for two.
BothPhones == [j \in Jobs |-> Phones]
SameCampaign == [j \in Jobs |-> c1]
EachItsOwn == (j1 :> c1) @@ (j2 :> c2)
StaffSymmetry == Permutations(Staff)

=============================================================================

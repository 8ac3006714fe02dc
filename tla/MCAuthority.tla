---------------------------- MODULE MCAuthority ----------------------------
(* Small instances of Authority for TLC. *)
EXTENDS Authority, TLC

HQ == At("organization", Organization)
TeamX == At("team", "x")

\* One campaign is owned by team x and worked by team y, one belongs to the organization.
TwoCampaigns == {[owner |-> TeamX, team |-> "y"], [owner |-> HQ, team |-> "none"]}
ChainOffers == {<<"manager", HQ>>, <<"team_captain", TeamX>>}
TeamLoans == {<<{"create_agent", "view_campaign"}, TeamX>>}
\* One capability of each kind: to run a campaign, to appoint, and one never delegated.
AskedCapabilities == {"view_campaign", "create_agent", "create_manager"}

\* No constant names a user but the founder.
StaffSymmetry == Permutations(Users \ {Founder})

=============================================================================

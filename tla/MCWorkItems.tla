---------------------------- MODULE MCWorkItems ----------------------------
(* Small instances of WorkItems for TLC. *)
EXTENDS WorkItems, TLC

CONSTANTS ada, bob, spring, autumn, p1, p2

\* Two contacts with different numbers.
TwoPhones == ("x" :> p1) @@ ("y" :> p2)

\* One number imported into two campaigns.
TwoCampaigns == ("x" :> spring) @@ ("y" :> autumn)
OnePhone == [i \in {"x", "y"} |-> p1]

\* A single contact.
SoleCampaign == "x" :> spring
SolePhone == "x" :> p1

\* Agents are interchangeable wherever no constant singles one out.
AgentSymmetry == Permutations({ada, bob})

=============================================================================

------------------------- MODULE MCWorkforceImport -------------------------
(* Small instances of WorkforceImport for TLC. *)
EXTENDS WorkforceImport, TLC

CONSTANTS up, ap, x, n, team, role, viewer, camp, p1, p2

MCUsers == {up, ap, x, n}
MCActors == {up, ap}
MCPerson == (up :> "active") @@ (ap :> "active") @@ (x :> "active") @@ (n :> "absent")
Row(action, u, o) == [action |-> action, user |-> u, to |-> o, team |-> Nobody, ok |-> TRUE]
File(type, r) == [type |-> type, rows |-> r]

\* Every kind of row.
AllFiles ==
  {File("users", <<Row("create", n, Nobody), Row("update", x, p2)>>),
   File("users", <<Row("reactivate", x, Nobody)>>),
   File("explicit_deactivations", <<Row("deactivate", x, Nobody)>>),
   File("explicit_deactivations", <<Row("deactivate", ap, Nobody)>>),
   File("team_memberships", <<Row("end", x, team), Row("add", up, team)>>),
   File("role_assignments", <<Row("end", x, role), Row("assign", ap, role)>>),
   File("role_assignments", <<Row("assign", x, viewer)>>),
   File("reporting_assignments", <<Row("set", x, ap)>>),
   File("campaign_user_assignments", <<[Row("end", x, camp) EXCEPT !.team = team],
                                       [Row("assign", up, camp) EXCEPT !.team = team]>>),
   File("campaign_user_assignments", <<Row("assign", up, camp), Row("assign", up, camp)>>)}
\* The files whose rows the requests and the other pages can fight over.
FewFiles ==
  {File("explicit_deactivations", <<Row("deactivate", x, Nobody)>>),
   File("role_assignments", <<Row("end", x, role), Row("assign", ap, role)>>),
   File("reporting_assignments", <<Row("set", x, ap)>>)}

ClientSymmetry == Permutations(Clients)

MCWorkforce ==
  [person |-> MCPerson,
   profile |-> [u \in MCUsers |-> p1],
   links |-> {Link("team_memberships", x, team, Nobody, 0),
              Link("role_assignments", x, role, Nobody, 0),
              Link("reporting_assignments", x, up, Nobody, 0),
              Link("campaign_user_assignments", x, camp, team, 0)}]
MCReach == (up :> {up, x, team, role, camp}) @@ (ap :> {up, ap, x, team, role, viewer, camp})

=============================================================================

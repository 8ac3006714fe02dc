--------------------------- MODULE WorkforceRows ---------------------------
(***************************************************************************)
(* What one row of a bulk workforce import means: how it is classified     *)
(* against the workforce when the file is parsed, what it does when the    *)
(* import is committed, and what reversing it does.  Source:               *)
(* app/workforce_imports/classify.py, the _commit_*_row and _reverse_*_row *)
(* functions of app/workforce_imports/service.py and the operations of     *)
(* app/workforce/service.py they call.                                     *)
(*                                                                         *)
(* A workforce is a record: person (absent, active or inactive), profile   *)
(* (the fields an update row changes) and links, the active memberships,   *)
(* role grants, reporting lines and campaign posts.  A link's "by" is the  *)
(* import row that made it, 0 for everything made elsewhere: it stands for *)
(* the row's committed_entity_id.  "to" is the team, role, supervisor or   *)
(* campaign; for an update row it is the new profile.                      *)
(***************************************************************************)
EXTENDS Naturals, FiniteSets

CONSTANTS
  Users,
  Nobody,      \* no supervisor, no team, a field the row type does not use
  Gated,       \* roles whose appointment is switched off (viewer_enabled)
  Capacity     \* how many posts of a campaign a team may staff

LinkTypes == {"team_memberships", "role_assignments", "reporting_assignments",
              "campaign_user_assignments"}
ImportTypes == LinkTypes \cup {"users", "explicit_deactivations"}

Links(w, kind, u) == {l \in w.links : l.kind = kind /\ l.user = u}
LinksTo(w, kind, u, o) == {l \in Links(w, kind, u) : l.to = o}
\* The link row i made, while it is active.
Own(w, i) == {l \in w.links : l.by = i}
Link(kind, u, o, t, i) == [kind |-> kind, user |-> u, to |-> o, team |-> t, by |-> i]
Supervisors(w, u) == {l.to : l \in Links(w, "reporting_assignments", u)}

-----------------------------------------------------------------------------
(* The operations of workforce and campaign services the rows go through. *)

Person(w, u, state) == [w EXCEPT !.person[u] = state]
Profile(w, u, p) == [w EXCEPT !.profile[u] = p]
Drop(w, gone) == [w EXCEPT !.links = @ \ gone]
\* add_team_membership: one that is there is returned as it is.
AddMembership(w, u, o, i) ==
  IF LinksTo(w, "team_memberships", u, o) # {} THEN w
  ELSE [w EXCEPT !.links = @ \cup {Link("team_memberships", u, o, Nobody, i)}]
\* assign_role: the same grant is superseded, not stacked.
AssignRole(w, u, o, i) ==
  [w EXCEPT !.links = (@ \ LinksTo(w, "role_assignments", u, o))
                        \cup {Link("role_assignments", u, o, Nobody, i)}]
\* Fault: the line before it is left active.
StackLine(w, u, o, i) ==
  [w EXCEPT !.links = @ \cup {Link("reporting_assignments", u, o, Nobody, i)}]
\* set_reporting_line: the primary line is superseded.
SetLine(w, u, o, i) ==
  [w EXCEPT !.links = (@ \ Links(w, "reporting_assignments", u))
                        \cup {Link("reporting_assignments", u, o, Nobody, i)}]
\* _check_staffing_capacity.
HasRoom(w, o, t) ==
  t = Nobody \/ Cardinality({l \in w.links : /\ l.kind = "campaign_user_assignments"
                                             /\ l.to = o /\ l.team = t}) < Capacity
\* assign_agent_to_campaign, unless it raises CampaignAssignmentError.
MayPost(w, u, o, t) == Links(w, "campaign_user_assignments", u) = {} /\ HasRoom(w, o, t)
Post(w, u, o, t, i) ==
  [w EXCEPT !.links = @ \cup {Link("campaign_user_assignments", u, o, t, i)}]

-----------------------------------------------------------------------------
(* Classification: row.ok says that the fields have their required form. *)

ClassifyUsersRow(w, row) ==
  CASE row.action = "create" -> IF w.person[row.user] = "absent" THEN "valid" ELSE "invalid"
    [] w.person[row.user] = "absent" -> "invalid"
    [] row.action = "reactivate" ->
         IF w.person[row.user] = "active" THEN "warning" ELSE "valid"
    [] OTHER -> "valid"

ClassifyDeactivationRow(w, row) ==
  CASE w.person[row.user] = "absent" -> "invalid"
    [] w.person[row.user] = "inactive" -> "warning"
    [] OTHER -> "valid"

\* add and end of a membership or a role: the same three cases.
ClassifyHeld(w, kind, row, adding) ==
  LET held == LinksTo(w, kind, row.user, row.to) # {} IN
  CASE w.person[row.user] = "absent" -> "invalid"
    [] adding /\ held -> "warning"
    [] ~adding /\ ~held -> "invalid"
    [] OTHER -> "valid"
ClassifyTeamMembershipRow(w, row) ==
  ClassifyHeld(w, "team_memberships", row, row.action = "add")
ClassifyRoleAssignmentRow(w, row) ==
  ClassifyHeld(w, "role_assignments", row, row.action = "assign")

ClassifyReportingAssignmentRow(w, row) ==
  CASE w.person[row.user] = "absent" \/ row.user = row.to -> "invalid"
    [] w.person[row.to] # "active" -> "invalid"
    [] row.to \in Supervisors(w, row.user) -> "warning"
    [] OTHER -> "valid"

ClassifyCampaignAssignmentRow(w, row) ==
  LET posts == Links(w, "campaign_user_assignments", row.user) IN
  CASE w.person[row.user] = "absent" -> "invalid"
    [] row.action = "assign" -> IF posts = {} THEN "valid" ELSE "invalid"
    [] OTHER -> IF \E l \in posts : l.to = row.to THEN "valid" ELSE "invalid"

Classifier(type, w, row) ==
  CASE type = "users" -> ClassifyUsersRow(w, row)
    [] type = "explicit_deactivations" -> ClassifyDeactivationRow(w, row)
    [] type = "team_memberships" -> ClassifyTeamMembershipRow(w, row)
    [] type = "role_assignments" -> ClassifyRoleAssignmentRow(w, row)
    [] type = "reporting_assignments" -> ClassifyReportingAssignmentRow(w, row)
    [] type = "campaign_user_assignments" -> ClassifyCampaignAssignmentRow(w, row)

\* The key a classifier adds to seen_identities.
SeenKey(type, row) ==
  CASE type \in {"team_memberships", "role_assignments"} -> <<row.user, row.to>>
    [] type = "campaign_user_assignments" -> <<row.user, row.to, row.action>>
    [] OTHER -> <<row.user>>

Verdict(type, w, file, i) ==
  IF \/ ~file[i].ok
     \/ \E k \in 1..(i - 1) : file[k].ok /\ SeenKey(type, file[k]) = SeenKey(type, file[i])
  THEN "invalid"
  ELSE Classifier(type, w, file[i])

Risk(type, row) ==
  IF type = "explicit_deactivations" \/ (type = "role_assignments" /\ row.action = "assign")
  THEN "high_risk" ELSE "routine"

-----------------------------------------------------------------------------
(* Commit and reversal of one row by an actor.  The outcome is done,       *)
(* skipped (a conflict; the others go on) or raised (an exception nobody   *)
(* catches: the whole transaction is rolled back).                         *)

Done(w) == [w |-> w, outcome |-> "done"]
Skip(w) == [w |-> w, outcome |-> "skipped"]
Raise(w) == [w |-> w, outcome |-> "raised"]

CommitUsersRow(w, row, i, a) ==
  CASE row.action = "create" ->
         IF w.person[row.user] # "absent" THEN Skip(w) ELSE Done(Person(w, row.user, "active"))
    [] row.action = "update" -> Done(Profile(w, row.user, row.to))
    [] row.action = "reactivate" ->
         IF w.person[row.user] = "active" THEN Skip(w) ELSE Done(Person(w, row.user, "active"))

CommitDeactivationRow(w, row, i, a) ==
  IF w.person[row.user] # "active" \/ a = row.user THEN Skip(w)
  ELSE Done(Person(w, row.user, "inactive"))

CommitTeamMembershipRow(w, row, i, a) ==
  LET current == LinksTo(w, "team_memberships", row.user, row.to) IN
  CASE (row.action = "add") = (current # {}) -> Skip(w)
    [] row.action = "add" -> Done(AddMembership(w, row.user, row.to, i))
    [] OTHER -> Done(Drop(w, current))

CommitRoleAssignmentRow(w, row, i, a) ==
  LET current == LinksTo(w, "role_assignments", row.user, row.to) IN
  CASE (row.action = "assign") = (current # {}) -> Skip(w)
    [] row.action = "assign" /\ row.to \in Gated -> Raise(w)
    [] a = row.user -> Skip(w)
    [] row.action = "assign" -> Done(AssignRole(w, row.user, row.to, i))
    [] OTHER -> Done(Drop(w, current))

CommitReportingAssignmentRow(w, row, i, a) ==
  IF w.person[row.to] # "active" \/ row.to \in Supervisors(w, row.user) THEN Skip(w)
  ELSE Done(SetLine(w, row.user, row.to, i))

CommitCampaignAssignmentRow(w, row, i, a) ==
  LET current == LinksTo(w, "campaign_user_assignments", row.user, row.to) IN
  CASE row.action = "assign" ->
         IF MayPost(w, row.user, row.to, row.team)
         THEN Done(Post(w, row.user, row.to, row.team, i)) ELSE Skip(w)
    [] current = {} -> Skip(w)
    [] OTHER -> Done(Drop(w, current))

CommitRow(type, w, row, i, a) ==
  CASE type = "users" -> CommitUsersRow(w, row, i, a)
    [] type = "explicit_deactivations" -> CommitDeactivationRow(w, row, i, a)
    [] type = "team_memberships" -> CommitTeamMembershipRow(w, row, i, a)
    [] type = "role_assignments" -> CommitRoleAssignmentRow(w, row, i, a)
    [] type = "reporting_assignments" -> CommitReportingAssignmentRow(w, row, i, a)
    [] type = "campaign_user_assignments" -> CommitCampaignAssignmentRow(w, row, i, a)

\* Fault: an update row takes none.
SnapshotOfLines(type, w, row) ==
  IF type = "reporting_assignments" /\ Supervisors(w, row.user) # {}
  THEN CHOOSE s \in Supervisors(w, row.user) : TRUE ELSE Nobody
\* pre_commit_snapshot, of the two kinds of row that take one.
Snapshot(type, w, row) ==
  CASE type = "users" /\ row.action = "update" -> w.profile[row.user]
    [] type = "reporting_assignments" /\ Supervisors(w, row.user) # {} ->
         CHOOSE s \in Supervisors(w, row.user) : TRUE
    [] OTHER -> Nobody

ReverseUserRow(w, row, i, a, before) ==
  CASE row.action \in {"create", "reactivate"} ->
         CASE w.person[row.user] # "active" -> Skip(w)
           [] a = row.user -> Raise(w)
           [] OTHER -> Done(Person(w, row.user, "inactive"))
    [] row.action = "deactivate" ->
         IF w.person[row.user] = "active" THEN Skip(w)
         ELSE Done(Person(w, row.user, "active"))
    [] row.action = "update" ->
         IF w.profile[row.user] # row.to THEN Skip(w) ELSE Done(Profile(w, row.user, before))

ReverseTeamMembershipRow(w, row, i, a, before) ==
  CASE row.action = "add" -> IF Own(w, i) = {} THEN Skip(w) ELSE Done(Drop(w, Own(w, i)))
    [] LinksTo(w, "team_memberships", row.user, row.to) # {} -> Skip(w)
    [] OTHER -> Done(AddMembership(w, row.user, row.to, 0))

\* Fault: ending a role is reversed without a look at what holds now.
ReverseRoleBlindly(w, row, i, a, before) ==
  CASE row.action = "assign" -> IF Own(w, i) = {} THEN Skip(w) ELSE Done(Drop(w, Own(w, i)))
    [] OTHER -> Done(AssignRole(w, row.user, row.to, i))
ReverseRoleAssignmentRow(w, row, i, a, before) ==
  LET held == IF row.action = "assign" THEN Own(w, i) = {}
              ELSE LinksTo(w, "role_assignments", row.user, row.to) # {} IN
  CASE held -> Skip(w)
    [] row.action # "assign" /\ row.to \in Gated -> Raise(w)
    [] a = row.user -> Raise(w)
    [] row.action = "assign" -> Done(Drop(w, Own(w, i)))
    [] OTHER -> Done(AssignRole(w, row.user, row.to, 0))

ReverseReportingAssignmentRow(w, row, i, a, before) ==
  CASE Own(w, i) = {} -> Skip(w)
    [] before = Nobody -> Done(Drop(w, Own(w, i)))
    [] OTHER -> Done(SetLine(w, row.user, before, 0))

\* The team of the restored post is the row's, not the one the post had.
ReverseCampaignAssignmentRow(w, row, i, a, before) ==
  CASE row.action = "assign" -> IF Own(w, i) = {} THEN Skip(w) ELSE Done(Drop(w, Own(w, i)))
    [] MayPost(w, row.user, row.to, row.team) -> Done(Post(w, row.user, row.to, row.team, 0))
    [] OTHER -> Skip(w)

ReverseRow(type, w, row, i, a, before) ==
  CASE type \in {"users", "explicit_deactivations"} -> ReverseUserRow(w, row, i, a, before)
    [] type = "team_memberships" -> ReverseTeamMembershipRow(w, row, i, a, before)
    [] type = "role_assignments" -> ReverseRoleAssignmentRow(w, row, i, a, before)
    [] type = "reporting_assignments" -> ReverseReportingAssignmentRow(w, row, i, a, before)
    [] type = "campaign_user_assignments" -> ReverseCampaignAssignmentRow(w, row, i, a, before)

=============================================================================

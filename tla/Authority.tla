----------------------------- MODULE Authority -----------------------------
(***************************************************************************)
(* Who may do what: roles at scopes and delegations (app/authz), the       *)
(* appointments and teams of app/workforce/service.py, and the views of    *)
(* the directory and the audit trail built from them.                      *)
(*                                                                         *)
(* A grant of authority is a record with a scope: a row of                 *)
(* role_assignments or of delegations.  A request that changes authority   *)
(* first reads and checks (Start), then writes and commits (Finish); the   *)
(* two are separate steps and nothing is locked between them.  The rows    *)
(* carry an installation, one organization (D-07), teams and campaigns;    *)
(* no code ever changes the status of a team.                              *)
(***************************************************************************)
EXTENDS Integers, Sequences, FiniteSets, SequencesExt

CONSTANTS
  Users, Founder,           \* Founder is the bootstrapped super administrator
  Organization, Teams,
  Campaigns,                \* each campaign is [owner: a scope, team: the team assigned to it]
  Requests,
  Offers,                   \* the <<role, scope>> pairs that the instance appoints to
  Loans,                    \* the <<capabilities, scope>> pairs that the instance delegates
  Asked,                    \* the capabilities that the properties ask about
  MaxRoles, MaxDelegations, MaxTime

ASSUME AuthorityAssumption ==
  /\ Founder \in Users
  /\ MaxRoles \in Nat /\ MaxDelegations \in Nat /\ MaxTime \in Nat

None == "none"

VARIABLES
  roles,         \* role_assignments rows: who, role, scope, active
  delegations,   \* delegations rows: from, to, caps, scope, start, end, revoked
  members,       \* active team_memberships
  enabled,       \* users.active
  signedIn,      \* the users with a live session
  now,
  request        \* the requests under way

vars == <<roles, delegations, members, enabled, signedIn, now, request>>

-----------------------------------------------------------------------------
(* Roles and scopes. *)

Running == {"create_campaign", "view_campaign", "manage_campaign", "pause_campaign",
            "assign_campaign_agent", "view_campaign_reports", "export_completed_campaign",
            "view_audit"}

ROLE_CAPABILITIES ==
  [super_admin  |-> {"technical_config", "reset_user_auth", "view_audit",
                     "create_manager", "manage_roles"},
   manager      |-> Running \cup {"appoint_team_leader", "appoint_team_captain", "create_agent",
                                  "manage_roles", "launch_campaign", "archive_campaign"},
   team_leader  |-> Running \cup {"appoint_team_captain", "create_agent"},
   team_captain |-> (Running \ {"create_campaign", "manage_campaign", "pause_campaign"})
                      \cup {"create_agent"},
   agent        |-> {"work_queue"},
   viewer       |-> {"view_campaign", "view_campaign_reports"}]

ALL_CAPABILITIES == UNION {ROLE_CAPABILITIES[r] : r \in DOMAIN ROLE_CAPABILITIES}

NON_DELEGABLE == {"technical_config", "reset_user_auth", "create_manager", "manage_roles"}

\* The capability that appoints into a role; nothing appoints a super administrator.
ROLE_APPOINTMENT_CAPABILITY ==
  [manager |-> "create_manager", team_leader |-> "appoint_team_leader",
   team_captain |-> "appoint_team_captain", agent |-> "create_agent", viewer |-> "manage_roles"]

Appointing == {ROLE_APPOINTMENT_CAPABILITY[r] : r \in DOMAIN ROLE_APPOINTMENT_CAPABILITY}

At(type, id) == [type |-> type, id |-> id]
Scopes == {At("installation", None), At("organization", None), At("organization", Organization)}
            \cup {At("team", t) : t \in Teams} \cup {At("campaign", c) : c \in Campaigns}

\* A request names a role that can be appointed and a place that exists: the routes
\* resolve both before the service is called.
ASSUME RequestAssumption ==
  /\ \A offer \in Offers : offer[1] \in DOMAIN ROLE_APPOINTMENT_CAPABILITY /\ offer[2] \in Scopes
  /\ \A loan \in Loans : loan[2] \in Scopes

effective_role_assignments(u) == {g \in Range(roles) : g.who = u /\ g.active}

active_delegations(u) ==
  {d \in Range(delegations) : d.to = u /\ ~d.revoked /\ d.start <= now /\ now < d.end}

RoleGrants(u, cap) ==
  {g \in effective_role_assignments(u) : cap \in ROLE_CAPABILITIES[g.role]}

\* _scope_covered_by_assignment; every team of the instance is in the one organization.
Covers(grant, scope) ==
  \/ grant.scope.type = "installation"
  \/ grant.scope = At("organization", None)
  \/ grant.scope = At("organization", Organization) /\ scope.type = "team"
  \/ grant.scope = scope

has_scope_capability_via_role(u, cap, scope) ==
  \E g \in RoleGrants(u, cap) : Covers(g, scope)

\* Fault: a delegation lends what its delegator held when it was made.
BackedOnce(d, cap) == TRUE
\* _delegation_still_backed: the delegator still owns the capability by a role.
StillBacked(d, cap) == has_scope_capability_via_role(d.from, cap, d.scope)

\* _capability_grants: of roles and of delegations held.
Grants(u, cap) ==
  RoleGrants(u, cap)
    \cup {d \in active_delegations(u) : cap \in d.caps /\ StillBacked(d, cap)}

has_assigned_capability(u, cap) == Grants(u, cap) # {}

has_scope_capability(u, cap, scope) == \E g \in Grants(u, cap) : Covers(g, scope)

\* _scope_covers with no scope given: the whole installation or an organization.
has_capability(u, cap) ==
  \E g \in Grants(u, cap) : g.scope.type \in {"installation", "organization"}

\* The bulk form resolves the organization's teams once, if any grant needs them.
scope_capabilities_matched(u, cap, requests) ==
  LET grants == Grants(u, cap)
      resolved == IF \E g \in grants : g.scope = At("organization", Organization)
                  THEN {At("team", t) : t \in Teams} ELSE {}
  IN {s \in requests : \E g \in grants :
        \/ g.scope.type = "installation" \/ g.scope = At("organization", None)
        \/ g.scope = At("organization", Organization) /\ s \in resolved
        \/ g.scope = s}

\* Fault: delegations count whether or not they are still backed.
CandidatesUnbacked(caps) ==
  {u \in Users : \E cap \in caps :
     RoleGrants(u, cap) # {} \/ \E d \in active_delegations(u) : cap \in d.caps}
users_with_any_capability(caps) ==
  {g.who : g \in {h \in Range(roles) : h.active /\ ROLE_CAPABILITIES[h.role] \cap caps # {}}}
    \cup {d.to : d \in {e \in Range(delegations) :
             /\ ~e.revoked /\ e.start <= now /\ now < e.end
             /\ \E cap \in e.caps \cap caps : StillBacked(e, cap)}}

\* campaign_scope_filter, has_campaign_capability: by its own scope or its teams.
VisibleCampaigns(u, cap) ==
  {c \in Campaigns : \E g \in Grants(u, cap) :
     \/ g.scope.type = "installation" \/ g.scope = At("organization", None)
     \/ g.scope = At("campaign", c)
     \/ g.scope.type = "team" /\ (c.owner = g.scope \/ c.team = g.scope.id)
     \/ /\ g.scope = At("organization", Organization)
        /\ c.owner = g.scope \/ c.owner.type = "team" \/ c.team \in Teams}

-----------------------------------------------------------------------------
(* The views. *)

\* visible_team_ids: from the roles that appoint, delegations left out.
VisibleTeams(u) ==
  LET scopes == {g.scope : g \in UNION {RoleGrants(u, cap) : cap \in Appointing}} IN
  IF scopes \cap {At("installation", None), At("organization", None)} # {} THEN Teams
  ELSE {t \in Teams : {At("team", t), At("organization", Organization)} \cap scopes # {}}

SeesEveryone(u) ==
  \E cap \in Appointing : \E g \in RoleGrants(u, cap) :
    g.scope \in {At("installation", None), At("organization", None)}

MembersOf(teams) == {u \in Users : \E t \in teams : <<t, u>> \in members}

list_visible_users(u) == IF SeesEveryone(u) THEN Users ELSE MembersOf(VisibleTeams(u))

\* Fault: the directory opens for whoever resets credentials, and for nobody else.
DirectoryOfResets(u) == IF has_assigned_capability(u, "reset_user_auth") THEN Users ELSE {}
\* _directory_scope of list_user_directory: who resets credentials sees everyone.
Directory(u) ==
  IF has_assigned_capability(u, "reset_user_auth") THEN Users ELSE list_visible_users(u)

\* user_in_admin_scope: the same question about one user.
user_in_admin_scope(u, target) ==
  \/ SeesEveryone(u) \/ has_assigned_capability(u, "reset_user_auth")
  \/ \E t \in VisibleTeams(u) : <<t, target>> \in members

\* can_view_admin_directory
MayOpenDirectory(u) == \E cap \in Appointing \cup {"reset_user_auth"} : has_assigned_capability(u, cap)

\* audit_visibility: whose events a user may read.
Audited(u) ==
  LET scopes == {g.scope : g \in RoleGrants(u, "view_audit")} IN
  IF scopes \cap {At("installation", None), At("organization", None)} # {} THEN Users
  ELSE {u} \cup MembersOf({t \in Teams : At("team", t) \in scopes})

can_manage_user(u, target) ==
  LET held == effective_role_assignments(target) IN
  IF held = {} THEN \E cap \in Appointing : has_assigned_capability(u, cap)
  ELSE \E g \in held : /\ g.role \in DOMAIN ROLE_APPOINTMENT_CAPABILITY
                       /\ has_scope_capability(u, ROLE_APPOINTMENT_CAPABILITY[g.role], g.scope)

-----------------------------------------------------------------------------
(* Requests. *)

Idle == [op |-> "idle"]

Acting(u) == u \in signedIn /\ enabled[u]

Start(r, work) == request[r] = Idle /\ request' = [request EXCEPT ![r] = work]
Finish(r) == request' = [request EXCEPT ![r] = Idle]

Matching(who, offer) ==
  {i \in DOMAIN roles : roles[i].active /\ roles[i].who = who
                          /\ roles[i].role = offer[1] /\ roles[i].scope = offer[2]}

\* The route asks for the appointing capability; the service reads the prior grants.
StartAppointment(r, actor, who, offer) ==
  /\ Acting(actor) /\ actor # who
  /\ has_scope_capability(actor, ROLE_APPOINTMENT_CAPABILITY[offer[1]], offer[2])
  /\ Len(roles) < MaxRoles
  /\ Start(r, [op |-> "assign", who |-> who, offer |-> offer, prior |-> Matching(who, offer)])
  /\ UNCHANGED <<roles, delegations, members, enabled, signedIn, now>>

\* Fault: the prior grants are left active.
EndedNever(rows) == roles
Ended(rows) == [i \in DOMAIN roles |-> IF i \in rows THEN [roles[i] EXCEPT !.active = FALSE] ELSE roles[i]]

\* assign_role; uq_role_assignments_active refuses a second active grant of the same.
FinishAppointment(r) ==
  LET w == request[r] IN
  /\ w.op = "assign"
  /\ IF Matching(w.who, w.offer) \subseteq w.prior
     THEN /\ roles' = Append(Ended(w.prior), [who |-> w.who, role |-> w.offer[1],
                                              scope |-> w.offer[2], active |-> TRUE])
          /\ signedIn' = signedIn \ {w.who}
     ELSE UNCHANGED <<roles, signedIn>>
  /\ Finish(r)
  /\ UNCHANGED <<delegations, members, enabled, now>>

\* The row may have ended already: nothing asks.
StartRoleEnd(r, actor, i) ==
  /\ Acting(actor) /\ actor # roles[i].who
  /\ roles[i].role \in DOMAIN ROLE_APPOINTMENT_CAPABILITY
  /\ has_scope_capability(actor, ROLE_APPOINTMENT_CAPABILITY[roles[i].role], roles[i].scope)
  /\ Start(r, [op |-> "end", row |-> i])
  /\ UNCHANGED <<roles, delegations, members, enabled, signedIn, now>>

\* Fault: delegates are left signed in.
DelegatesForgotten(u) == {}
\* invalidate_delegate_sessions_for_delegator
Delegates(u) == {v \in Users : \E d \in active_delegations(v) : d.from = u}

\* end_role_assignment
FinishRoleEnd(r) ==
  LET w == request[r] IN
  /\ w.op = "end"
  /\ roles' = Ended({w.row})
  /\ signedIn' = signedIn \ ({roles[w.row].who} \cup Delegates(roles[w.row].who))
  /\ Finish(r)
  /\ UNCHANGED <<delegations, members, enabled, now>>

\* create_delegation up to its authority check: only what the delegator owns by a role.
StartDelegation(r, actor, to, loan, start, end) ==
  /\ Acting(actor) /\ actor # to
  /\ loan[1] # {} /\ loan[1] \subseteq ALL_CAPABILITIES \ NON_DELEGABLE
  /\ start < end
  /\ \A cap \in loan[1] : has_scope_capability_via_role(actor, cap, loan[2])
  /\ Len(delegations) < MaxDelegations
  /\ Start(r, [op |-> "delegate", row |-> [from |-> actor, to |-> to, caps |-> loan[1],
                    scope |-> loan[2], start |-> start, end |-> end, revoked |-> FALSE]])
  /\ UNCHANGED <<roles, delegations, members, enabled, signedIn, now>>

FinishDelegation(r) ==
  LET w == request[r] IN
  /\ w.op = "delegate"
  /\ delegations' = Append(delegations, w.row)
  /\ signedIn' = signedIn \ {w.row.to}
  /\ Finish(r)
  /\ UNCHANGED <<roles, members, enabled, now>>

\* revoke_delegation
RevokeDelegation(actor, i) ==
  /\ Acting(actor) /\ delegations[i].from = actor
  /\ ~delegations[i].revoked
  /\ delegations' = [delegations EXCEPT ![i].revoked = TRUE]
  /\ signedIn' = signedIn \ {delegations[i].to}
  /\ UNCHANGED <<roles, members, enabled, now, request>>

\* disable_user and reactivate_user, gated by can_manage_user.
Disable(actor, u) ==
  /\ Acting(actor) /\ can_manage_user(actor, u) /\ actor # u
  /\ enabled' = [enabled EXCEPT ![u] = FALSE]
  /\ signedIn' = signedIn \ {u}
  /\ UNCHANGED <<roles, delegations, members, now, request>>

Reactivate(actor, u) ==
  /\ Acting(actor) /\ can_manage_user(actor, u)
  /\ enabled' = [enabled EXCEPT ![u] = TRUE]
  /\ UNCHANGED <<roles, delegations, members, signedIn, now, request>>

\* add_team_membership (an existing one is returned) and end_team_membership.
AddMember(actor, t, u) ==
  /\ Acting(actor) /\ has_scope_capability(actor, "appoint_team_captain", At("team", t))
  /\ members' = members \cup {<<t, u>>}
  /\ UNCHANGED <<roles, delegations, enabled, signedIn, now, request>>

EndMember(actor, t, u) ==
  /\ Acting(actor) /\ has_scope_capability(actor, "appoint_team_captain", At("team", t))
  /\ members' = members \ {<<t, u>>}
  /\ UNCHANGED <<roles, delegations, enabled, signedIn, now, request>>

SignIn(u) ==
  /\ enabled[u] /\ u \notin signedIn
  /\ signedIn' = signedIn \cup {u}
  /\ UNCHANGED <<roles, delegations, members, enabled, now, request>>

Tick ==
  /\ now < MaxTime
  /\ now' = now + 1
  /\ UNCHANGED <<roles, delegations, members, enabled, signedIn, request>>

-----------------------------------------------------------------------------
Init ==
  /\ roles = <<[who |-> Founder, role |-> "super_admin", scope |-> At("installation", None),
                active |-> TRUE]>>
  /\ delegations = <<>>
  /\ members = {}
  /\ enabled = [u \in Users |-> TRUE]
  /\ signedIn = {}
  /\ now = 0
  /\ request = [r \in Requests |-> Idle]

Grant ==
  \E r \in Requests :
    \/ \E actor, u \in Users : \E o \in Offers : StartAppointment(r, actor, u, o)
    \/ \E actor \in Users : \E i \in DOMAIN roles : StartRoleEnd(r, actor, i)
    \/ FinishAppointment(r)
    \/ FinishRoleEnd(r)

Lend ==
  \/ \E r \in Requests : \E actor, u \in Users : \E l \in Loans :
       \E start \in 0 .. MaxTime, end \in 1 .. MaxTime + 1 : StartDelegation(r, actor, u, l, start, end)
  \/ \E r \in Requests : FinishDelegation(r)
  \/ \E actor \in Users : \E i \in DOMAIN delegations : RevokeDelegation(actor, i)

Administer ==
  \E actor, u \in Users :
    \/ Disable(actor, u)
    \/ Reactivate(actor, u)
    \/ \E t \in Teams : AddMember(actor, t, u) \/ EndMember(actor, t, u)

Next == Grant \/ Lend \/ Administer \/ Tick \/ \E u \in Users : SignIn(u)

Spec == Init /\ [][Next]_vars

-----------------------------------------------------------------------------
(* Properties. *)

\* Every row and request is well formed, and at most one grant of a role at a scope to a
\* user is active (uq_role_assignments_active).
TypeOK ==
  /\ roles \in Seq([who: Users, role: DOMAIN ROLE_CAPABILITIES, scope: Scopes, active: BOOLEAN])
  /\ delegations \in Seq([from: Users, to: Users, caps: SUBSET ALL_CAPABILITIES, scope: Scopes,
                          start: Nat, end: Nat, revoked: BOOLEAN])
  /\ members \subseteq Teams \X Users
  /\ enabled \in [Users -> BOOLEAN]
  /\ signedIn \subseteq Users
  /\ now \in 0 .. MaxTime
  /\ \A i, j \in DOMAIN roles :
       roles[i].active /\ roles[j].active /\ i # j =>
         <<roles[i].who, roles[i].role, roles[i].scope>> # <<roles[j].who, roles[j].role, roles[j].scope>>

\* create_delegation, _delegation_still_backed: what a user holds is its own by a role, or
\* is lent by someone who owns it there by a role today, under a delegation that is open;
\* what may not be delegated is held by role only.  A role that ends between the check of
\* a delegation and its commit does not leave an orphan, and neither campaign_scope_filter
\* nor the unscoped check gives a delegate what nobody's role gives.
NoEscalation ==
  \A u \in Users, cap \in Asked :
    LET Owners == {v \in Users : RoleGrants(v, cap) # {}} IN
    /\ \A scope \in Scopes :
         has_scope_capability(u, cap, scope) =>
           \/ has_scope_capability_via_role(u, cap, scope)
           \/ /\ cap \notin NON_DELEGABLE
              /\ \E d \in Range(delegations) :
                   /\ d.to = u /\ cap \in d.caps /\ ~d.revoked /\ now \in d.start .. d.end - 1
                   /\ has_scope_capability_via_role(d.from, cap, scope)
    /\ \A c \in VisibleCampaigns(u, cap) : \E v \in Owners : c \in VisibleCampaigns(v, cap)
    /\ has_capability(u, cap) => \E v \in Owners : has_capability(v, cap)

\* scope_capabilities_matched, users_with_any_capability and user_in_admin_scope answer
\* for many what the single checks answer for one.
LookupsAgree ==
  \A u \in Users :
    /\ \A cap \in Asked :
         /\ scope_capabilities_matched(u, cap, Scopes)
              = {s \in Scopes : has_scope_capability(u, cap, s)}
         /\ u \in users_with_any_capability({cap}) <=> has_assigned_capability(u, cap)
    /\ Directory(u) = {v \in Users : user_in_admin_scope(u, v)}

\* end_role_assignment, revoke_delegation: a session that outlives a step has lost no
\* authority by it; only the clock takes authority from someone signed in.
LosingAuthorityEndsSessions ==
  [][now' = now =>
       \A u \in signedIn \cap signedIn' : \A cap \in Asked, scope \in Scopes :
         has_scope_capability(u, cap, scope) => has_scope_capability(u, cap, scope)']_vars

\* audit_visibility and visible_team_ids: whose events a user reads beside its own, it
\* finds in the directory, which it may open.
AuditedAreListed ==
  \A u \in Users : \A v \in Audited(u) \ {u} : MayOpenDirectory(u) /\ v \in Directory(u)

=============================================================================

----------------------- MODULE WorkforceImportProofs -----------------------
(***************************************************************************)
(* Proofs about the module WorkforceImport, for any workforce, any files,  *)
(* any people and any number of requests in flight.                        *)
(*                                                                         *)
(* A commit or a reversal handles the rows one after another.  What holds  *)
(* of the whole is proved by induction over the rows (SetInduction), from  *)
(* what one row does to the workforce (CommitRowKeeps, ReverseRowKeeps).   *)
(***************************************************************************)
EXTENDS WorkforceImport, WellFoundedInduction, SequenceTheorems, TLAPS

-----------------------------------------------------------------------------
(* Induction over the rows. *)

\* The library's induction theorem speaks of a predicate; this one of a set.
LEMMA SetInduction ==
  ASSUME NEW G, 0 \in G, \A n \in Nat : n \in G => n + 1 \in G
  PROVE  \A n \in Nat : n \in G
<1> DEFINE R == {ss \in Nat \X Nat : ss[1] < ss[2]}
           Bad == Nat \ G
<1>1. IsWellFoundedOn(R, Nat)
  BY NatLessThanWellFounded DEF OpToRel
<1> SUFFICES ASSUME Bad # {} PROVE FALSE
  OBVIOUS
<1>2. PICK x \in Bad : \A y \in Bad : ~(<<y, x>> \in R)
  <2> HIDE DEF R
  <2> QED
    BY <1>1, WFMin
<1>3. x # 0 /\ x - 1 \in Nat /\ x \in Nat /\ x - 1 < x
  OBVIOUS
<1>4. <<x - 1, x>> \in R
  BY <1>3
<1>5. x - 1 \notin Bad
  BY <1>2, <1>4
<1>6. x - 1 \in G
  BY <1>3, <1>5
<1> QED
  BY <1>3, <1>6

Before == [w |-> live, rows |-> rows, outcomes |-> <<>>, audit |-> {}]
RowNext(op, a, s, n) == IF op = "commit" THEN CommitNext(s, n) ELSE ReverseNext(a, s, n)

\* f[n] is what the first n rows, in the order given, leave.
IsRun(f, op, a, order, n) ==
  f = [m \in 0..n |-> IF m = 0 THEN Before ELSE RowNext(op, a, f[m - 1], order[m])]

\* The rows can be handled one after another, however many there are.
LEMMA RunExists ==
  ASSUME NEW op, NEW a, NEW order, NEW n \in Nat
  PROVE  \E f : IsRun(f, op, a, order, n)
<1> DEFINE G == {m \in Nat : \E f : IsRun(f, op, a, order, m)}
<1>1. 0 \in G
  <2>1. IsRun([m \in 0..0 |-> Before], op, a, order, 0)
    BY DEF IsRun
  <2> QED
    BY <2>1
<1>2. ASSUME NEW m \in Nat, m \in G PROVE m + 1 \in G
  <2>1. PICK f : IsRun(f, op, a, order, m)
    BY <1>2
  <2> DEFINE g == [k \in 0..(m + 1) |-> IF k <= m THEN f[k] ELSE RowNext(op, a, f[m], order[k])]
             e == [k \in 0..(m + 1) |-> IF k = 0 THEN Before ELSE RowNext(op, a, g[k - 1], order[k])]
  <2>2. ASSUME NEW k \in 0..(m + 1)
        PROVE  g[k] = IF k = 0 THEN Before ELSE RowNext(op, a, g[k - 1], order[k])
    BY <2>1 DEF IsRun
  <2>3. g = e
    BY <2>2
  <2>4. IsRun(g, op, a, order, m + 1)
    BY <2>3 DEF IsRun
  <2>5. \E h : IsRun(h, op, a, order, m + 1)
    BY <2>4
  <2> QED
    BY <2>5
<1> HIDE DEF G
<1>3. n \in G
  BY <1>1, <1>2, SetInduction
<1> QED
  BY <1>3 DEF G

\* So Applied is what such a run ends with.
LEMMA AppliedIsRun ==
  ASSUME NEW op, NEW a, NEW order, Len(rows) \in Nat
  PROVE  \E f : IsRun(f, op, a, order, Len(rows)) /\ Applied(op, a, order) = f[Len(rows)]
<1> DEFINE after == CHOOSE f : IsRun(f, op, a, order, Len(rows))
<1>1. IsRun(after, op, a, order, Len(rows))
  BY RunExists
<1>2. Applied(op, a, order) = after[Len(rows)]
  BY DEF Applied, IsRun, Before, RowNext
<1> QED
  BY <1>1, <1>2

-----------------------------------------------------------------------------
(* A workforce and the operations on it. *)

LinkOK(l) == l.kind \in LinkTypes /\ l.user \in Users /\ l.by \in Nat

WorldOK(w) ==
  /\ DOMAIN w = {"person", "profile", "links"}
  /\ w.person \in [Users -> {"absent", "active", "inactive"}]
  /\ DOMAIN w.profile = Users /\ \A u \in Users : w.profile[u] # Nobody
  /\ \A l \in w.links : LinkOK(l)
  /\ OnePerSlot(w.links)

\* From w to v, links are made for the user u in the slots of kind by row i, and no others.
OnlyMakes(w, v, kind, u, i) ==
  \A l \in v.links : l \in w.links \/ (l.kind = kind /\ l.user = u /\ l.by = i)

\* From w to v, no link made elsewhere is ended.
KeepsOthers(w, v) == \A l \in w.links : l.by = 0 => l \in v.links

LEMMA PersonKeeps ==
  ASSUME NEW w, WorldOK(w), NEW u \in Users, NEW state \in {"absent", "active", "inactive"}
  PROVE  WorldOK(Person(w, u, state)) /\ Person(w, u, state).links = w.links
<1> DEFINE v == Person(w, u, state)
<1>1. v.person = [w.person EXCEPT ![u] = state] /\ v.profile = w.profile /\ v.links = w.links
      /\ DOMAIN v = DOMAIN w
  BY DEF Person, WorldOK
<1> HIDE DEF v
<1>2. v.person \in [Users -> {"absent", "active", "inactive"}]
  BY <1>1 DEF WorldOK
<1>3. WorldOK(v)
  BY <1>1, <1>2 DEF WorldOK
<1> QED
  BY <1>1, <1>3 DEF v

LEMMA ProfileKeeps ==
  ASSUME NEW w, WorldOK(w), NEW u \in Users, NEW p, p # Nobody
  PROVE  WorldOK(Profile(w, u, p)) /\ Profile(w, u, p).links = w.links
<1> DEFINE v == Profile(w, u, p)
<1>1. v.profile = [w.profile EXCEPT ![u] = p] /\ v.person = w.person /\ v.links = w.links
      /\ DOMAIN v = DOMAIN w
  BY DEF Profile, WorldOK
<1> HIDE DEF v
<1>2. DOMAIN v.profile = Users /\ \A t \in Users : v.profile[t] # Nobody
  BY <1>1 DEF WorldOK
<1>3. WorldOK(v)
  BY <1>1, <1>2 DEF WorldOK
<1> QED
  BY <1>1, <1>3 DEF v

\* Links change, and nothing else.
LEMMA LinksKeep ==
  ASSUME NEW w, WorldOK(w), NEW links, \A l \in links : LinkOK(l), OnePerSlot(links)
  PROVE  /\ WorldOK([w EXCEPT !.links = links])
         /\ [w EXCEPT !.links = links].links = links
<1> DEFINE v == [w EXCEPT !.links = links]
<1>1. v.profile = w.profile /\ v.person = w.person /\ v.links = links /\ DOMAIN v = DOMAIN w
  BY DEF WorldOK
<1> HIDE DEF v
<1>2. WorldOK(v)
  BY <1>1 DEF WorldOK
<1> QED
  BY <1>1, <1>2 DEF v

LEMMA DropKeeps ==
  ASSUME NEW w, WorldOK(w), NEW gone
  PROVE  WorldOK(Drop(w, gone)) /\ Drop(w, gone).links = w.links \ gone
<1>1. Drop(w, gone) = [w EXCEPT !.links = w.links \ gone]
  BY DEF Drop
<1>2. OnePerSlot(w.links \ gone) /\ \A l \in w.links \ gone : LinkOK(l)
  BY DEF WorldOK, OnePerSlot
<1> QED
  BY <1>1, <1>2, LinksKeep

\* A link is made where its slot is free, after what was in the slot is ended.
LEMMA MadeKeeps ==
  ASSUME NEW w, WorldOK(w), NEW kind \in LinkTypes, NEW u \in Users, NEW o, NEW t, NEW i \in Nat,
         NEW gone,
         \A l \in w.links \ gone :
           ~(/\ l.kind = kind /\ l.user = u
             /\ kind \in {"team_memberships", "role_assignments"} => l.to = o),
         NEW links, links = (w.links \ gone) \cup {Link(kind, u, o, t, i)}
  PROVE  /\ WorldOK([w EXCEPT !.links = links])
         /\ [w EXCEPT !.links = links].links = links
         /\ OnlyMakes(w, [w EXCEPT !.links = links], kind, u, i)
<1> DEFINE new == Link(kind, u, o, t, i)
<1>1. new.kind = kind /\ new.user = u /\ new.to = o /\ new.by = i
  BY DEF Link
<1> HIDE DEF new
<1>2. links = (w.links \ gone) \cup {new}
  BY DEF new
<1>3. \A l \in links : LinkOK(l)
  BY <1>1, <1>2 DEF WorldOK, LinkOK
<1>4. OnePerSlot(links)
  BY <1>1, <1>2 DEF WorldOK, OnePerSlot
<1>5. /\ WorldOK([w EXCEPT !.links = links])
      /\ [w EXCEPT !.links = links].links = links
  BY <1>3, <1>4, LinksKeep
<1> QED
  BY <1>1, <1>2, <1>5 DEF OnlyMakes

LEMMA AddMembershipKeeps ==
  ASSUME NEW w, WorldOK(w), NEW u \in Users, NEW o, NEW i \in Nat
  PROVE  /\ WorldOK(AddMembership(w, u, o, i))
         /\ OnlyMakes(w, AddMembership(w, u, o, i), "team_memberships", u, i)
         /\ w.links \subseteq AddMembership(w, u, o, i).links
<1>1. CASE LinksTo(w, "team_memberships", u, o) # {}
  BY <1>1 DEF AddMembership, OnlyMakes
<1>2. CASE LinksTo(w, "team_memberships", u, o) = {}
  <2> DEFINE new == Link("team_memberships", u, o, Nobody, i)
             gone == {}
             links == (w.links \ gone) \cup {new}
  <2>1. AddMembership(w, u, o, i) = [w EXCEPT !.links = links]
    <3>1. w.links \cup {new} = links
      OBVIOUS
    <3>2. AddMembership(w, u, o, i) = [w EXCEPT !.links = w.links \cup {new}]
      BY <1>2 DEF AddMembership
    <3> QED
      BY <3>1, <3>2
  <2>2. \A l \in w.links \ gone : ~(l.kind = "team_memberships" /\ l.user = u /\ l.to = o)
    BY <1>2 DEF LinksTo, Links
  <2>3. w.links \subseteq links
    OBVIOUS
  <2>4. /\ WorldOK([w EXCEPT !.links = links])
        /\ [w EXCEPT !.links = links].links = links
        /\ OnlyMakes(w, [w EXCEPT !.links = links], "team_memberships", u, i)
    <3> HIDE DEF gone
    <3> QED
      BY <2>2, MadeKeeps DEF LinkTypes
  <2> HIDE DEF links
  <2> QED
    BY <2>1, <2>3, <2>4
<1> QED
  BY <1>1, <1>2

LEMMA AssignRoleKeeps ==
  ASSUME NEW w, WorldOK(w), NEW u \in Users, NEW o, NEW i \in Nat
  PROVE  /\ WorldOK(AssignRole(w, u, o, i))
         /\ OnlyMakes(w, AssignRole(w, u, o, i), "role_assignments", u, i)
         /\ w.links \ LinksTo(w, "role_assignments", u, o) \subseteq AssignRole(w, u, o, i).links
<1> DEFINE gone == LinksTo(w, "role_assignments", u, o)
           new == Link("role_assignments", u, o, Nobody, i)
           links == (w.links \ gone) \cup {new}
<1>1. AssignRole(w, u, o, i) = [w EXCEPT !.links = links]
  BY DEF AssignRole
<1>2. \A l \in w.links \ gone : ~(l.kind = "role_assignments" /\ l.user = u /\ l.to = o)
  BY DEF LinksTo, Links
<1>3. /\ WorldOK([w EXCEPT !.links = links])
      /\ [w EXCEPT !.links = links].links = links
      /\ OnlyMakes(w, [w EXCEPT !.links = links], "role_assignments", u, i)
  <2> HIDE DEF gone
  <2> QED
    BY <1>2, MadeKeeps DEF LinkTypes
<1> HIDE DEF new, gone
<1>4. /\ WorldOK(AssignRole(w, u, o, i))
      /\ OnlyMakes(w, AssignRole(w, u, o, i), "role_assignments", u, i)
      /\ w.links \ gone \subseteq AssignRole(w, u, o, i).links
  BY <1>1, <1>3
<1> QED
  BY <1>4 DEF gone

LEMMA SetLineKeeps ==
  ASSUME NEW w, WorldOK(w), NEW u \in Users, NEW o, NEW i \in Nat
  PROVE  /\ WorldOK(SetLine(w, u, o, i))
         /\ OnlyMakes(w, SetLine(w, u, o, i), "reporting_assignments", u, i)
         /\ w.links \ Links(w, "reporting_assignments", u) \subseteq SetLine(w, u, o, i).links
<1> DEFINE gone == Links(w, "reporting_assignments", u)
           new == Link("reporting_assignments", u, o, Nobody, i)
           links == (w.links \ gone) \cup {new}
<1>1. SetLine(w, u, o, i) = [w EXCEPT !.links = links]
  BY DEF SetLine
<1>2. \A l \in w.links \ gone : ~(l.kind = "reporting_assignments" /\ l.user = u)
  BY DEF Links
<1>3. /\ WorldOK([w EXCEPT !.links = links])
      /\ [w EXCEPT !.links = links].links = links
      /\ OnlyMakes(w, [w EXCEPT !.links = links], "reporting_assignments", u, i)
  <2> HIDE DEF gone
  <2> QED
    BY <1>2, MadeKeeps DEF LinkTypes
<1> HIDE DEF new, gone
<1>4. /\ WorldOK(SetLine(w, u, o, i))
      /\ OnlyMakes(w, SetLine(w, u, o, i), "reporting_assignments", u, i)
      /\ w.links \ gone \subseteq SetLine(w, u, o, i).links
  BY <1>1, <1>3
<1> QED
  BY <1>4 DEF gone

LEMMA PostKeeps ==
  ASSUME NEW w, WorldOK(w), NEW u \in Users, NEW o, NEW t, NEW i \in Nat, MayPost(w, u, o, t)
  PROVE  /\ WorldOK(Post(w, u, o, t, i))
         /\ OnlyMakes(w, Post(w, u, o, t, i), "campaign_user_assignments", u, i)
         /\ w.links \subseteq Post(w, u, o, t, i).links
<1> DEFINE new == Link("campaign_user_assignments", u, o, t, i)
           gone == {}
           links == (w.links \ gone) \cup {new}
<1>1. Post(w, u, o, t, i) = [w EXCEPT !.links = links]
  <2>1. w.links \cup {new} = links
    OBVIOUS
  <2>2. Post(w, u, o, t, i) = [w EXCEPT !.links = w.links \cup {new}]
    BY DEF Post
  <2> QED
    BY <2>1, <2>2
<1>2. \A l \in w.links \ gone : ~(l.kind = "campaign_user_assignments" /\ l.user = u)
  BY DEF MayPost, Links
<1>3. w.links \subseteq links
  OBVIOUS
<1>4. /\ WorldOK([w EXCEPT !.links = links])
      /\ [w EXCEPT !.links = links].links = links
      /\ OnlyMakes(w, [w EXCEPT !.links = links], "campaign_user_assignments", u, i)
  <2> HIDE DEF gone
  <2> QED
    BY <1>2, MadeKeeps DEF LinkTypes
<1> HIDE DEF links
<1> QED
  BY <1>1, <1>3, <1>4


-----------------------------------------------------------------------------
(* What one row does. *)

LEMMA Outcomes ==
  ASSUME NEW w
  PROVE  Done(w).w = w /\ Skip(w).w = w /\ Raise(w).w = w
BY DEF Done, Skip, Raise

LEMMA SameWorld ==
  ASSUME NEW w, NEW v, v.links \subseteq w.links, NEW kind, NEW u, NEW i
  PROVE  OnlyMakes(w, v, kind, u, i)
BY DEF OnlyMakes

\* A row that is committed leaves a well-formed workforce, and makes links of its own kind
\* for its own user only.
LEMMA CommitRowKeeps ==
  ASSUME NEW type \in ImportTypes, NEW w, WorldOK(w), NEW row, row.user \in Users,
         WellFormed(type, row), NEW i \in Nat, NEW a
  PROVE  /\ WorldOK(CommitRow(type, w, row, i, a).w)
         /\ OnlyMakes(w, CommitRow(type, w, row, i, a).w, type, row.user, i)
<1> DEFINE u == row.user
           v == CommitRow(type, w, row, i, a).w
           Result == WorldOK(v) /\ OnlyMakes(w, v, type, u, i)
<1>0. ASSUME v = w PROVE Result
  BY <1>0, SameWorld
<1>1. CASE type = "users"
  <2>1. row.action \in {"create", "update", "reactivate"} /\ (row.action = "update" => row.to # Nobody)
    BY <1>1 DEF WellFormed
  <2>2. v = CommitUsersRow(w, row, i, a).w
    BY <1>1 DEF CommitRow
  <2>3. v = w \/ v = Person(w, u, "active") \/ (v = Profile(w, u, row.to) /\ row.to # Nobody)
    BY <2>1, <2>2, Outcomes DEF CommitUsersRow
  <2> HIDE DEF v
  <2>4. WorldOK(v) /\ v.links = w.links
    BY <2>3, PersonKeeps, ProfileKeeps
  <2> QED
    BY <2>4, SameWorld DEF v
<1>2. CASE type = "explicit_deactivations"
  <2>1. v = CommitDeactivationRow(w, row, i, a).w
    BY <1>2 DEF CommitRow
  <2>2. v = w \/ v = Person(w, u, "inactive")
    BY <2>1, Outcomes DEF CommitDeactivationRow
  <2> HIDE DEF v
  <2>3. WorldOK(v) /\ v.links = w.links
    BY <2>2, PersonKeeps
  <2> QED
    BY <2>3, SameWorld DEF v
<1>3. CASE type = "team_memberships"
  <2> DEFINE current == LinksTo(w, "team_memberships", u, row.to)
  <2>1. v = CommitTeamMembershipRow(w, row, i, a).w
    BY <1>3 DEF CommitRow
  <2>2. v = w \/ v = AddMembership(w, u, row.to, i) \/ v = Drop(w, current)
    BY <2>1, Outcomes DEF CommitTeamMembershipRow
  <2> HIDE DEF v, current
  <2>3. WorldOK(v) /\ OnlyMakes(w, v, type, u, i)
    BY <1>3, <2>2, AddMembershipKeeps, DropKeeps, SameWorld
  <2> QED
    BY <2>3 DEF v
<1>4. CASE type = "role_assignments"
  <2> DEFINE current == LinksTo(w, "role_assignments", u, row.to)
  <2>1. v = CommitRoleAssignmentRow(w, row, i, a).w
    BY <1>4 DEF CommitRow
  <2>2. v = w \/ v = AssignRole(w, u, row.to, i) \/ v = Drop(w, current)
    BY <2>1, Outcomes DEF CommitRoleAssignmentRow
  <2> HIDE DEF v, current
  <2>3. WorldOK(v) /\ OnlyMakes(w, v, type, u, i)
    BY <1>4, <2>2, AssignRoleKeeps, DropKeeps, SameWorld
  <2> QED
    BY <2>3 DEF v
<1>5. CASE type = "reporting_assignments"
  <2>1. v = CommitReportingAssignmentRow(w, row, i, a).w
    BY <1>5 DEF CommitRow
  <2>2. v = w \/ v = SetLine(w, u, row.to, i)
    BY <2>1, Outcomes DEF CommitReportingAssignmentRow
  <2> HIDE DEF v
  <2>3. WorldOK(v) /\ OnlyMakes(w, v, type, u, i)
    BY <1>5, <2>2, SetLineKeeps, SameWorld
  <2> QED
    BY <2>3 DEF v
<1>6. CASE type = "campaign_user_assignments"
  <2> DEFINE current == LinksTo(w, "campaign_user_assignments", u, row.to)
  <2>1. v = CommitCampaignAssignmentRow(w, row, i, a).w
    BY <1>6 DEF CommitRow
  <2>2. \/ v = w \/ v = Drop(w, current)
        \/ v = Post(w, u, row.to, row.team, i) /\ MayPost(w, u, row.to, row.team)
    BY <2>1, Outcomes DEF CommitCampaignAssignmentRow
  <2> HIDE DEF v, current
  <2>3. WorldOK(v) /\ OnlyMakes(w, v, type, u, i)
    BY <1>6, <2>2, PostKeeps, DropKeeps, SameWorld
  <2> QED
    BY <2>3 DEF v
<1> QED
  BY <1>1, <1>2, <1>3, <1>4, <1>5, <1>6 DEF ImportTypes, LinkTypes

\* A row that is reversed leaves a well-formed workforce, and ends no link made elsewhere,
\* provided the links the row made are of its kind and its user's.
LEMMA ReverseRowKeeps ==
  ASSUME NEW type \in ImportTypes, NEW w, WorldOK(w), NEW row, row.user \in Users,
         WellFormed(type, row), NEW i \in Nat \ {0}, NEW a, NEW before,
         type = "users" /\ row.action = "update" => before # Nobody,
         \A l \in Own(w, i) : l.kind = type /\ l.user = row.user
  PROVE  /\ WorldOK(ReverseRow(type, w, row, i, a, before).w)
         /\ OnlyMakes(w, ReverseRow(type, w, row, i, a, before).w, type, row.user, 0)
         /\ KeepsOthers(w, ReverseRow(type, w, row, i, a, before).w)
<1> DEFINE u == row.user
           v == ReverseRow(type, w, row, i, a, before).w
           Result == WorldOK(v) /\ OnlyMakes(w, v, type, u, 0) /\ KeepsOthers(w, v)
           own == Own(w, i)
<1>0. ASSUME NEW x, x.links = w.links PROVE OnlyMakes(w, x, type, u, 0) /\ KeepsOthers(w, x)
  BY <1>0 DEF OnlyMakes, KeepsOthers
<1>1. ASSUME NEW x, WorldOK(x), x.links = w.links \ own
      PROVE  OnlyMakes(w, x, type, u, 0) /\ KeepsOthers(w, x)
  BY <1>1 DEF OnlyMakes, KeepsOthers, Own
<1>2. WorldOK(Drop(w, own)) /\ OnlyMakes(w, Drop(w, own), type, u, 0) /\ KeepsOthers(w, Drop(w, own))
  BY <1>1, DropKeeps
<1>3. CASE type \in {"users", "explicit_deactivations"}
  <2>1. /\ row.action \in {"create", "update", "reactivate", "deactivate"}
        /\ row.action = "update" => before # Nobody
    BY <1>3 DEF WellFormed
  <2>2. v = ReverseUserRow(w, row, i, a, before).w
    BY <1>3 DEF ReverseRow
  <2>3. \/ v = w \/ v = Person(w, u, "active") \/ v = Person(w, u, "inactive")
        \/ v = Profile(w, u, before) /\ before # Nobody
    BY <2>1, <2>2, Outcomes DEF ReverseUserRow
  <2> HIDE DEF v
  <2>4. WorldOK(v) /\ v.links = w.links
    BY <2>3, PersonKeeps, ProfileKeeps
  <2> QED
    BY <1>0, <2>4 DEF v
<1>4. CASE type = "team_memberships"
  <2>1. v = ReverseTeamMembershipRow(w, row, i, a, before).w
    BY <1>4 DEF ReverseRow
  <2>2. v = w \/ v = Drop(w, own) \/ v = AddMembership(w, u, row.to, 0)
    BY <2>1, Outcomes DEF ReverseTeamMembershipRow
  <2> HIDE DEF v, own
  <2>3. WorldOK(v) /\ OnlyMakes(w, v, type, u, 0) /\ KeepsOthers(w, v)
    BY <1>0, <1>2, <1>4, <2>2, AddMembershipKeeps DEF KeepsOthers
  <2> QED
    BY <2>3 DEF v
<1>5. CASE type = "role_assignments"
  <2> DEFINE held == LinksTo(w, "role_assignments", u, row.to)
  <2>1. v = ReverseRoleAssignmentRow(w, row, i, a, before).w
    BY <1>5 DEF ReverseRow
  <2>2. v = w \/ v = Drop(w, own) \/ (v = AssignRole(w, u, row.to, 0) /\ held = {})
    BY <2>1, Outcomes DEF ReverseRoleAssignmentRow
  <2>3. held = {} => w.links \subseteq AssignRole(w, u, row.to, 0).links
    BY AssignRoleKeeps
  <2> HIDE DEF v, own, held
  <2>4. WorldOK(v) /\ OnlyMakes(w, v, type, u, 0) /\ KeepsOthers(w, v)
    BY <1>0, <1>2, <1>5, <2>2, <2>3, AssignRoleKeeps DEF KeepsOthers
  <2> QED
    BY <2>4 DEF v
<1>6. CASE type = "reporting_assignments"
  <2> DEFINE lines == Links(w, "reporting_assignments", u)
  <2>1. v = ReverseReportingAssignmentRow(w, row, i, a, before).w
    BY <1>6 DEF ReverseRow
  <2>2. v = w \/ v = Drop(w, own) \/ (v = SetLine(w, u, before, 0) /\ own # {})
    BY <2>1, Outcomes DEF ReverseReportingAssignmentRow
  <2>3. ASSUME own # {}, NEW l \in lines PROVE l.by # 0
    <3>1. PICK m \in own : m \in w.links /\ m.by = i /\ m.kind = type /\ m.user = u
      BY <2>3 DEF Own
    <3>2. l \in w.links /\ l.kind = m.kind /\ l.user = m.user
      BY <1>6, <3>1 DEF Links
    <3>3. l = m
      BY <1>6, <3>1, <3>2 DEF WorldOK, OnePerSlot
    <3> QED
      BY <3>1, <3>3
  <2>4. w.links \ lines \subseteq SetLine(w, u, before, 0).links
    BY SetLineKeeps
  <2> HIDE DEF v, own, lines
  <2>5. own # {} => KeepsOthers(w, SetLine(w, u, before, 0))
    BY <2>3, <2>4 DEF KeepsOthers
  <2>6. WorldOK(v) /\ OnlyMakes(w, v, type, u, 0) /\ KeepsOthers(w, v)
    BY <1>0, <1>2, <1>6, <2>2, <2>5, SetLineKeeps
  <2> QED
    BY <2>6 DEF v
<1>7. CASE type = "campaign_user_assignments"
  <2>1. v = ReverseCampaignAssignmentRow(w, row, i, a, before).w
    BY <1>7 DEF ReverseRow
  <2>2. \/ v = w \/ v = Drop(w, own)
        \/ v = Post(w, u, row.to, row.team, 0) /\ MayPost(w, u, row.to, row.team)
    BY <2>1, Outcomes DEF ReverseCampaignAssignmentRow
  <2> HIDE DEF v, own
  <2>3. WorldOK(v) /\ OnlyMakes(w, v, type, u, 0) /\ KeepsOthers(w, v)
    BY <1>0, <1>2, <1>7, <2>2, PostKeeps DEF KeepsOthers
  <2> QED
    BY <2>3 DEF v
<1> QED
  BY <1>3, <1>4, <1>5, <1>6, <1>7 DEF ImportTypes, LinkTypes


-----------------------------------------------------------------------------
(* The inductive invariant. *)

\* A row of the import under way.
RowOK(r) ==
  /\ DOMAIN r = {"row", "verdict", "risk", "entity", "before", "reversed"}
  /\ r.verdict \in {"valid", "warning", "invalid"} /\ r.risk \in {"routine", "high_risk"}
  /\ r.entity \in BOOLEAN /\ r.reversed \in BOOLEAN
  /\ r.row.user \in Users
  /\ r.verdict = "valid" => WellFormed(job.type, r.row)
  /\ r.verdict = "valid" /\ r.risk = "high_risk" => job.high
  /\ r.entity => r.verdict = "valid"
  /\ r.reversed => r.entity
  /\ r.entity /\ job.type = "users" /\ r.row.action = "update" => r.before # Nobody

RowsOK == rows \in Seq({rows[i] : i \in DOMAIN rows}) /\ \A i \in DOMAIN rows : RowOK(rows[i])

\* What a link says of the row that made it.
OwnRow(l) == l.by \in DOMAIN rows => l.kind = job.type /\ l.user = rows[l.by].row.user

WorkforceOK == WorldOK(live) /\ \A l \in live.links : OwnRow(l)

Unparsed == {"none", "quarantined", "failed"}

\* Before it is parsed an import has no rows and no effect.
NothingBeforeParsing ==
  job.state \in Unparsed => rows = <<>> /\ trail = {} /\ \A l \in live.links : l.by = 0

JobOK ==
  /\ DOMAIN job = DOMAIN NoJob
  /\ job.type \in ImportTypes
  /\ file \in Files => file.type = job.type
  /\ decisions \in Seq([decision : {"approve", "reject"}, tier : {"standard", "high_risk"}, by : Actors])

\* A request in flight has loaded a job that was parsed.
RequestsOK ==
  /\ DOMAIN req = Clients
  /\ \A c \in Clients : req[c].op \in {"commit", "reverse"} =>
       req[c].by \in Actors /\ req[c].key \in Keys /\ job.state \notin Unparsed

\* The types of what the other parts leave out.
FieldsOK ==
  /\ job.state \in States /\ job.expires \in {"none", "ahead", "past"}
  /\ job.by \in Actors \cup {Nobody} /\ job.key \in Keys \cup {Nobody}
  /\ file \in Files \cup {Gone} /\ tries \in 0..MaxTries
  /\ sweep \in States \cup {"idle"}
  /\ Len(decisions) \in 0..MaxDecisions /\ outside \in 0..MaxOutside

IInv == FieldsOK /\ JobOK /\ RowsOK /\ WorkforceOK /\ NothingBeforeParsing /\ RequestsOK /\ TwoPersonRule

LEMMA InvariantSuffices == IInv => TypeOK /\ OneLinkPerSlot /\ TwoPersonRule
BY DEF IInv, TypeOK, FieldsOK, RowsOK, RowOK, WorkforceOK, WorldOK, LinkOK, OneLinkPerSlot

-----------------------------------------------------------------------------
(* Approvals. *)

\* The latest decision of a tier, if it approves, is the only element of Approval.
LEMMA ApprovalIsLatest ==
  ASSUME JobOK, NEW tier, NEW d \in Approval(tier)
  PROVE  /\ Approval(tier) = {d}
         /\ \E n \in DOMAIN decisions :
              /\ decisions[n] = d /\ d.decision = "approve" /\ d.tier = tier
              /\ \A m \in DOMAIN decisions : decisions[m].tier = tier => m <= n
<1> DEFINE of == {n \in DOMAIN decisions : decisions[n].tier = tier}
<1>1. PICK n \in of : /\ \A m \in of : m <= n
                      /\ decisions[n].decision = "approve" /\ decisions[n] = d
  BY DEF Approval
<1>2. of \subseteq Nat
  BY DEF JobOK
<1>3. ASSUME NEW e \in Approval(tier) PROVE e = d
  <2>1. PICK k \in of : (\A m \in of : m <= k) /\ decisions[k] = e
    BY DEF Approval
  <2> HIDE DEF of
  <2>2. k = n
    BY <1>1, <1>2, <2>1
  <2> QED
    BY <1>1, <2>1, <2>2
<1> QED
  BY <1>1, <1>3

\* Whose authority a valid row takes effect with, in a commit that passed its checks.
LEMMA RowActorApproved ==
  ASSUME JobOK, RowsOK, Approved, NEW i \in DOMAIN rows, rows[i].verdict = "valid"
  PROVE  /\ rows[i].risk = "high_risk" => RowActor(i) # job.by
         /\ Needs(job.type, rows[i].row) \subseteq reach[RowActor(i)]
         /\ LET tier == IF rows[i].risk = "high_risk" THEN "high_risk" ELSE "standard" IN
            \E n \in DOMAIN decisions :
              /\ decisions[n].tier = tier /\ decisions[n].decision = "approve"
              /\ decisions[n].by = RowActor(i)
              /\ \A m \in DOMAIN decisions : decisions[m].tier = tier => m <= n
<1>0. rows[i].risk \in {"routine", "high_risk"} /\ (rows[i].risk = "high_risk" => job.high)
  BY DEF RowsOK, RowOK
<1> DEFINE tier == IF rows[i].risk = "high_risk" THEN "high_risk" ELSE "standard"
<1>1. PICK d \in Approval(tier) :
        /\ rows[i].risk = "high_risk" => Qualified(d.by)
        /\ rows[i].risk = "routine" => Authorized(d.by, "routine")
  BY <1>0 DEF Approved
<1>2. Approval(tier) = {d}
  BY ApprovalIsLatest
<1>3. RowActor(i) = d.by
  BY <1>2 DEF RowActor
<1>4. Authorized(d.by, rows[i].risk) /\ (rows[i].risk = "high_risk" => d.by # job.by)
  BY <1>0, <1>1 DEF Qualified
<1>5. Needs(job.type, rows[i].row) \subseteq NeedsOf(rows[i].risk)
  BY DEF NeedsOf, RowsOf
<1>6. \E n \in DOMAIN decisions :
              /\ decisions[n] = d /\ d.decision = "approve" /\ d.tier = tier
              /\ \A m \in DOMAIN decisions : decisions[m].tier = tier => m <= n
  BY ApprovalIsLatest
<1> HIDE DEF tier
<1>7. \E n \in DOMAIN decisions :
              /\ decisions[n].tier = tier /\ decisions[n].decision = "approve"
              /\ decisions[n].by = RowActor(i)
              /\ \A m \in DOMAIN decisions : decisions[m].tier = tier => m <= n
  BY <1>3, <1>6
<1> QED
  BY <1>3, <1>4, <1>5, <1>7 DEF Authorized, tier

-----------------------------------------------------------------------------
(* What the rows of a commit or a reversal leave behind, together. *)

\* The rows stay the rows they were but for what they record of their effect.
RowsLike(new) ==
  /\ DOMAIN new = DOMAIN rows /\ new = [i \in DOMAIN rows |-> new[i]]
  /\ \A i \in DOMAIN rows :
       /\ RowOK(new[i]) /\ new[i].row = rows[i].row /\ new[i].verdict = rows[i].verdict
       /\ rows[i].entity => new[i].entity

\* A commit's audit events.
CommitEvent(e) ==
  /\ e.event = "commit" /\ e.row \in DOMAIN rows /\ rows[e.row].verdict = "valid"
  /\ e.high <=> rows[e.row].risk = "high_risk"
  /\ e.by = RowActor(e.row)

CommitOK(s) ==
  /\ WorldOK(s.w) /\ \A l \in s.w.links : OwnRow(l)
  /\ RowsLike(s.rows)
  /\ \A e \in s.audit : CommitEvent(e)

ReverseEvent(a, e) ==
  /\ e.event = "reverse" /\ e.row \in DOMAIN rows /\ rows[e.row].verdict = "valid"
  /\ e.high <=> rows[e.row].risk = "high_risk"
  /\ e.by = a

ReverseOK(a, s) ==
  /\ WorldOK(s.w) /\ \A l \in s.w.links : OwnRow(l)
  /\ KeepsOthers(live, s.w)
  /\ RowsLike(s.rows)
  /\ \A e \in s.audit : ReverseEvent(a, e)
  /\ (\A i \in DOMAIN rows : ~ToReverse(rows[i])) => s.w = live

LEMMA RowsAreNumbered ==
  ASSUME RowsOK
  PROVE  Len(rows) \in Nat /\ DOMAIN rows = 1..Len(rows)
BY DEF RowsOK

\* Whatever the order, its members are rows.
LEMMA OrdersRows ==
  ASSUME NEW n \in DOMAIN rows
  PROVE  /\ ByNumber[n] = n
         /\ \A order \in Orders : order[n] \in DOMAIN rows
BY DEF ByNumber, Orders, Bijection, Injection

LEMMA BeforeOK ==
  ASSUME RowsOK, WorkforceOK, NEW a
  PROVE  CommitOK(Before) /\ ReverseOK(a, Before)
<1>1. Before.w = live /\ Before.rows = rows /\ Before.audit = {}
  BY DEF Before
<1>2. RowsLike(rows)
  BY DEF RowsLike, RowsOK
<1> QED
  BY <1>1, <1>2 DEF CommitOK, ReverseOK, WorkforceOK, KeepsOthers

LEMMA CommitNextOK ==
  ASSUME JobOK, RowsOK, NEW i \in DOMAIN rows, NEW s, CommitOK(s)
  PROVE  CommitOK(CommitNext(s, i))
<1> DEFINE r == rows[i]
           o == CommitRow(job.type, s.w, r.row, i, RowActor(i))
           before == Snapshot(job.type, s.w, r.row)
           new == [s.rows EXCEPT ![i].entity = TRUE, ![i].before = before]
           event == [event |-> "commit", row |-> i, high |-> r.risk = "high_risk", by |-> RowActor(i)]
           t == CommitNext(s, i)
<1>1. CASE r.verdict # "valid"
  BY <1>1 DEF CommitNext
<1>2. CASE r.verdict = "valid"
  <2>0. RowOK(r) /\ WellFormed(job.type, r.row) /\ i \in Nat /\ i # 0
    BY <1>2, RowsAreNumbered DEF RowsOK, RowOK
  <2>1. /\ t.w = o.w
        /\ t.rows = IF o.outcome # "done" THEN s.rows ELSE new
        /\ t.audit = IF o.outcome # "done" THEN s.audit ELSE s.audit \cup {event}
    BY <1>2 DEF CommitNext
  <2>2. WorldOK(o.w) /\ OnlyMakes(s.w, o.w, job.type, r.row.user, i)
    BY <2>0, CommitRowKeeps DEF CommitOK, JobOK, RowOK
  <2>3. \A l \in o.w.links : OwnRow(l)
    <3> HIDE DEF o
    <3> QED
      BY <2>2 DEF CommitOK, OnlyMakes, OwnRow
  <2>4. RowsLike(new)
    <3>1. RowsLike(s.rows)
      BY DEF CommitOK
    <3>2. job.type = "users" /\ r.row.action = "update" => before # Nobody
      BY <2>0 DEF Snapshot, CommitOK, WorldOK, RowOK
    <3> HIDE DEF before
    <3>3. DOMAIN new = DOMAIN rows /\ \A k \in DOMAIN rows : k # i => new[k] = s.rows[k]
      BY <3>1 DEF RowsLike
    <3>9. new = [k \in DOMAIN rows |-> new[k]]
      BY <3>1 DEF RowsLike
    <3>4. RowOK(s.rows[i]) /\ s.rows[i].row = r.row /\ s.rows[i].verdict = "valid"
      BY <1>2, <3>1 DEF RowsLike
    <3>5. new[i] = [s.rows[i] EXCEPT !.entity = TRUE, !.before = before]
      BY <3>1 DEF RowsLike
    <3> HIDE DEF new
    <3>6. /\ new[i].entity = TRUE /\ new[i].before = before
          /\ new[i].row = r.row /\ new[i].verdict = "valid"
          /\ new[i].risk = s.rows[i].risk /\ new[i].reversed = s.rows[i].reversed
          /\ DOMAIN new[i] = DOMAIN s.rows[i]
      BY <3>4, <3>5 DEF RowOK
    <3>7. RowOK(new[i])
      BY <2>0, <3>2, <3>4, <3>6 DEF RowOK
    <3>8. new[i].verdict = r.verdict
      BY <1>2, <3>6
    <3> QED
      BY <3>1, <3>3, <3>6, <3>7, <3>8, <3>9 DEF RowsLike
  <2>5. CommitEvent(event)
    BY <1>2 DEF CommitEvent
  <2> HIDE DEF t, o, new, event
  <2>6. CommitOK(t)
    BY <2>1, <2>2, <2>3, <2>4, <2>5 DEF CommitOK
  <2> QED
    BY <2>6 DEF t
<1> QED
  BY <1>1, <1>2


LEMMA ReverseNextOK ==
  ASSUME JobOK, RowsOK, NEW i \in DOMAIN rows, NEW a, NEW s, ReverseOK(a, s)
  PROVE  ReverseOK(a, ReverseNext(a, s, i))
<1> DEFINE r == rows[i]
           o == ReverseRow(job.type, s.w, r.row, i, a, r.before)
           new == [s.rows EXCEPT ![i].reversed = TRUE]
           event == [event |-> "reverse", row |-> i, high |-> r.risk = "high_risk", by |-> a]
           t == ReverseNext(a, s, i)
<1>1. CASE ~ToReverse(r)
  BY <1>1 DEF ReverseNext
<1>2. CASE ToReverse(r)
  <2>0. /\ RowOK(r) /\ r.entity /\ r.verdict = "valid" /\ WellFormed(job.type, r.row)
        /\ i \in Nat \ {0}
        /\ job.type = "users" /\ r.row.action = "update" => r.before # Nobody
    BY <1>2, RowsAreNumbered DEF RowsOK, RowOK, ToReverse
  <2>1. /\ t.w = o.w
        /\ t.rows = IF o.outcome # "done" THEN s.rows ELSE new
        /\ t.audit = IF o.outcome # "done" THEN s.audit ELSE s.audit \cup {event}
    BY <1>2 DEF ReverseNext
  <2>2. \A l \in Own(s.w, i) : l.kind = job.type /\ l.user = r.row.user
    BY DEF Own, ReverseOK, OwnRow
  <2>3. WorldOK(o.w) /\ OnlyMakes(s.w, o.w, job.type, r.row.user, 0) /\ KeepsOthers(s.w, o.w)
    BY <2>0, <2>2, ReverseRowKeeps DEF ReverseOK, JobOK, RowOK
  <2>4. 0 \notin DOMAIN rows
    BY RowsAreNumbered
  <2>5. (\A l \in o.w.links : OwnRow(l)) /\ KeepsOthers(live, o.w)
    <3> HIDE DEF o
    <3> QED
      BY <2>3, <2>4 DEF ReverseOK, OnlyMakes, OwnRow, KeepsOthers
  <2>6. RowsLike(new)
    <3>1. RowsLike(s.rows)
      BY DEF ReverseOK
    <3>2. DOMAIN new = DOMAIN rows /\ \A k \in DOMAIN rows : k # i => new[k] = s.rows[k]
      BY <3>1 DEF RowsLike
    <3>8. new = [k \in DOMAIN rows |-> new[k]]
      BY <3>1 DEF RowsLike
    <3>3. RowOK(s.rows[i]) /\ s.rows[i].row = r.row /\ s.rows[i].verdict = r.verdict /\ s.rows[i].entity
      BY <2>0, <3>1 DEF RowsLike
    <3>4. new[i] = [s.rows[i] EXCEPT !.reversed = TRUE]
      BY <3>1 DEF RowsLike
    <3> HIDE DEF new
    <3>5. /\ new[i].entity = s.rows[i].entity /\ new[i].before = s.rows[i].before
          /\ new[i].row = r.row /\ new[i].verdict = r.verdict
          /\ new[i].risk = s.rows[i].risk /\ new[i].reversed = TRUE
          /\ DOMAIN new[i] = DOMAIN s.rows[i]
      BY <3>3, <3>4 DEF RowOK
    <3>6. RowOK(new[i])
      BY <3>3, <3>5 DEF RowOK
    <3>7. new[i].entity
      BY <3>3, <3>5
    <3> QED
      BY <3>1, <3>2, <3>5, <3>6, <3>7, <3>8 DEF RowsLike
  <2>7. ReverseEvent(a, event)
    BY <2>0 DEF ReverseEvent
  <2> HIDE DEF t, o, new, event
  <2>8. ReverseOK(a, t)
    BY <1>2, <2>1, <2>3, <2>5, <2>6, <2>7 DEF ReverseOK
  <2> QED
    BY <2>8 DEF t
<1> QED
  BY <1>1, <1>2


\* A whole commit, a whole reversal.
LEMMA CommitApplied ==
  ASSUME JobOK, RowsOK, WorkforceOK, NEW a
  PROVE  CommitOK(Applied("commit", a, ByNumber))
<1>1. Len(rows) \in Nat /\ DOMAIN rows = 1..Len(rows)
  BY RowsAreNumbered
<1>2. PICK f : IsRun(f, "commit", a, ByNumber, Len(rows)) /\ Applied("commit", a, ByNumber) = f[Len(rows)]
  BY <1>1, AppliedIsRun
<1> DEFINE G == {n \in Nat : n <= Len(rows) => CommitOK(f[n])}
<1>3. 0 \in G
  <2>1. f[0] = Before
    BY <1>1, <1>2 DEF IsRun
  <2> QED
    BY <2>1, BeforeOK
<1>4. ASSUME NEW n \in Nat, n \in G PROVE n + 1 \in G
  <2> SUFFICES ASSUME n + 1 <= Len(rows) PROVE CommitOK(f[n + 1])
    OBVIOUS
  <2>1. CommitOK(f[n]) /\ n + 1 \in DOMAIN rows
    BY <1>1, <1>4
  <2>2. f[n + 1] = CommitNext(f[n], n + 1)
    BY <1>1, <1>2, <2>1, OrdersRows DEF IsRun, RowNext
  <2> QED
    BY <2>1, <2>2, CommitNextOK
<1> HIDE DEF G
<1>5. Len(rows) \in G
  BY <1>1, <1>3, <1>4, SetInduction
<1> QED
  BY <1>2, <1>1, <1>5 DEF G

LEMMA ReverseApplied ==
  ASSUME JobOK, RowsOK, WorkforceOK, NEW a, NEW order \in Orders
  PROVE  ReverseOK(a, Applied("reverse", a, order))
<1>1. Len(rows) \in Nat /\ DOMAIN rows = 1..Len(rows)
  BY RowsAreNumbered
<1>2. PICK f : IsRun(f, "reverse", a, order, Len(rows)) /\ Applied("reverse", a, order) = f[Len(rows)]
  BY <1>1, AppliedIsRun
<1> DEFINE G == {n \in Nat : n <= Len(rows) => ReverseOK(a, f[n])}
<1>3. 0 \in G
  <2>1. f[0] = Before
    BY <1>1, <1>2 DEF IsRun
  <2> QED
    BY <2>1, BeforeOK
<1>4. ASSUME NEW n \in Nat, n \in G PROVE n + 1 \in G
  <2> SUFFICES ASSUME n + 1 <= Len(rows) PROVE ReverseOK(a, f[n + 1])
    OBVIOUS
  <2>1. ReverseOK(a, f[n]) /\ n + 1 \in DOMAIN rows /\ order[n + 1] \in DOMAIN rows
    BY <1>1, <1>4, OrdersRows
  <2>2. f[n + 1] = ReverseNext(a, f[n], order[n + 1])
    BY <1>1, <1>2 DEF IsRun, RowNext
  <2> QED
    BY <2>1, <2>2, ReverseNextOK
<1> HIDE DEF G
<1>5. Len(rows) \in G
  BY <1>1, <1>3, <1>4, SetInduction
<1> QED
  BY <1>2, <1>1, <1>5 DEF G


-----------------------------------------------------------------------------
(* Every action keeps the inductive invariant. *)

\* Rows and links speak of a job whose type and risk are what they were.
LEMMA RowsStay ==
  ASSUME RowsOK, RowsLike(rows'), job'.type = job.type, job'.high = job.high
  PROVE  RowsOK'
<1>1. rows' \in [1..Len(rows) -> {rows'[i] : i \in DOMAIN rows'}] /\ Len(rows) \in Nat
  BY RowsAreNumbered DEF RowsLike
<1>2. rows' \in Seq({rows'[i] : i \in DOMAIN rows'})
  BY <1>1
<1>3. ASSUME NEW i \in DOMAIN rows' PROVE RowOK(rows[i])'
  <2>1. RowOK(rows'[i])
    BY DEF RowsLike
  <2> QED
    BY <2>1 DEF RowOK
<1> QED
  BY <1>2, <1>3 DEF RowsOK

LEMMA LinksStay ==
  ASSUME WorldOK(live'), \A l \in live'.links : OwnRow(l), RowsLike(rows'), job'.type = job.type
  PROVE  WorkforceOK'
<1>1. \A l \in live'.links : OwnRow(l)'
  BY DEF OwnRow, RowsLike
<1> QED
  BY <1>1 DEF WorkforceOK, WorldOK

LEMMA SameRows == RowsOK => RowsLike(rows)
BY DEF RowsOK, RowsLike

\* Actions that write neither the workforce nor the rows nor the trail.
LEMMA Quiet ==
  ASSUME IInv, UNCHANGED <<live, rows, trail>>,
         job'.type = job.type, job'.high = job.high, job'.by = job.by,
         job'.state \in Unparsed => job.state \in Unparsed,
         FieldsOK', JobOK', RequestsOK'
  PROVE  IInv'
<1>1. RowsLike(rows')
  BY SameRows DEF IInv
<1>2. RowsOK' /\ WorkforceOK'
  BY <1>1, RowsStay, LinksStay DEF IInv, WorkforceOK
<1>3. NothingBeforeParsing' /\ TwoPersonRule'
  BY DEF IInv, NothingBeforeParsing, TwoPersonRule
<1> QED
  BY <1>2, <1>3 DEF IInv

LEMMA RequestsStay ==
  ASSUME RequestsOK, job'.state \in Unparsed => job.state \in Unparsed,
         UNCHANGED req \/ \E c \in Clients : Answered(c)
  PROVE  RequestsOK'
<1>1. Idle.op = "idle"
  BY DEF Idle
<1>2. DOMAIN req' = Clients /\ \A c \in Clients : req'[c] = req[c] \/ req'[c] = Idle
  BY DEF RequestsOK, Answered
<1> QED
  BY <1>1, <1>2 DEF RequestsOK

LEMMA InitInv == Init => IInv
<1> SUFFICES ASSUME Init PROVE IInv
  OBVIOUS
<1>1. FieldsOK
  BY ImportAssumption DEF Init, FieldsOK, NoJob, States
<1>2. JobOK
  <2>1. Gone \notin Files
    BY ImportAssumption DEF Gone
  <2> QED
    BY <2>1 DEF Init, JobOK, NoJob, ImportTypes
<1>3. RowsOK
  BY DEF Init, RowsOK
<1>4. WorkforceOK
  BY WorkforceAssumption DEF Init, WorkforceOK, WorldOK, LinkOK, OwnRow
<1>5. NothingBeforeParsing /\ TwoPersonRule
  BY WorkforceAssumption DEF Init, NothingBeforeParsing, TwoPersonRule
<1>6. RequestsOK
  BY DEF Init, RequestsOK, Idle
<1> QED
  BY <1>1, <1>2, <1>3, <1>4, <1>5, <1>6 DEF IInv

LEMMA UploadInv ==
  ASSUME IInv, NEW a \in Actors, NEW f \in Files, Upload(a, f)
  PROVE  IInv'
<1>1. /\ job.state = "none" /\ file' = f
      /\ job' = [NoJob EXCEPT !.state = "quarantined", !.by = a, !.type = f.type, !.expires = "ahead"]
      /\ UNCHANGED <<rows, decisions, live, reach, req, sweep, trail, outside>>
  BY DEF Upload
<1>2. /\ job'.state = "quarantined" /\ job'.by = a /\ job'.type = f.type /\ job'.expires = "ahead"
      /\ job'.key = Nobody /\ DOMAIN job' = DOMAIN NoJob
  BY <1>1 DEF NoJob
<1>3. rows = <<>> /\ trail = {} /\ \A l \in live.links : l.by = 0
  BY <1>1 DEF IInv, NothingBeforeParsing, Unparsed
<1>4. FieldsOK'
  <2>1. tries' \in 0..MaxTries
    BY ImportAssumption DEF Upload
  <2> QED
    BY <1>1, <1>2, <2>1 DEF IInv, FieldsOK, States
<1>5. JobOK'
  BY <1>1, <1>2, ImportAssumption DEF IInv, JobOK
<1>6. RowsOK' /\ NothingBeforeParsing' /\ TwoPersonRule'
  BY <1>1, <1>3 DEF RowsOK, NothingBeforeParsing, TwoPersonRule
<1>7. WorkforceOK'
  BY <1>1, <1>3 DEF IInv, WorkforceOK, WorldOK, OwnRow
<1>8. RequestsOK'
  BY <1>1 DEF IInv, RequestsOK, Unparsed
<1> QED
  BY <1>4, <1>5, <1>6, <1>7, <1>8 DEF IInv

\* What the parser says of a row.
LEMMA VerdictType ==
  ASSUME NEW f \in Files, NEW i \in DOMAIN f.rows, NEW w
  PROVE  /\ Verdict(f.type, w, f.rows, i) \in {"valid", "warning", "invalid"}
         /\ Verdict(f.type, w, f.rows, i) = "valid" => WellFormed(f.type, f.rows[i])
<1>1. ASSUME NEW row PROVE Classifier(f.type, w, row) \in {"valid", "warning", "invalid"}
  <2>1. f.type \in ImportTypes
    BY ImportAssumption
  <2>2. CASE f.type = "users"
    BY <2>2 DEF Classifier, ClassifyUsersRow
  <2>3. CASE f.type = "explicit_deactivations"
    BY <2>3 DEF Classifier, ClassifyDeactivationRow
  <2>4. CASE f.type = "team_memberships"
    BY <2>4 DEF Classifier, ClassifyTeamMembershipRow, ClassifyHeld
  <2>5. CASE f.type = "role_assignments"
    BY <2>5 DEF Classifier, ClassifyRoleAssignmentRow, ClassifyHeld
  <2>6. CASE f.type = "reporting_assignments"
    BY <2>6 DEF Classifier, ClassifyReportingAssignmentRow
  <2>7. CASE f.type = "campaign_user_assignments"
    BY <2>7 DEF Classifier, ClassifyCampaignAssignmentRow
  <2> QED
    BY <2>1, <2>2, <2>3, <2>4, <2>5, <2>6, <2>7 DEF ImportTypes, LinkTypes
<1>2. CASE ~f.rows[i].ok
  BY <1>2 DEF Verdict
<1>3. CASE f.rows[i].ok
  BY <1>1, <1>3, FilesAssumption DEF Verdict
<1> QED
  BY <1>2, <1>3

LEMMA ParseInv ==
  ASSUME IInv, Parse
  PROVE  IInv'
<1> DEFINE parsed == ParsedRows(file)
           with(v) == {i \in DOMAIN parsed : parsed[i].verdict = v}
<1>1. /\ job.state = "quarantined" /\ file # Gone /\ rows' = parsed /\ tries' = 0
      /\ UNCHANGED <<decisions, file, live, reach, req, sweep, trail, outside>>
      /\ job' = [job EXCEPT
                   !.state = "parsed", !.deny = with("invalid") # {},
                   !.needs = UNION {Needs(job.type, parsed[i].row) : i \in DOMAIN parsed},
                   !.invalid = with("invalid") # {}, !.warning = with("warning") # {},
                   !.high = \E i \in with("valid") : parsed[i].risk = "high_risk"]
  BY DEF Parse
<1>2. file \in Files /\ file.type = job.type /\ job.type \in ImportTypes
  BY <1>1 DEF IInv, JobOK, FieldsOK
<1>3. /\ job'.state = "parsed" /\ job'.by = job.by /\ job'.type = job.type
      /\ job'.expires = job.expires /\ job'.key = job.key /\ DOMAIN job' = DOMAIN NoJob
      /\ job'.high <=> \E i \in with("valid") : parsed[i].risk = "high_risk"
  <2> HIDE DEF parsed
  <2> QED
    BY <1>1 DEF IInv, JobOK, NoJob
<1>4. trail = {} /\ \A l \in live.links : l.by = 0
  BY <1>1 DEF IInv, NothingBeforeParsing, Unparsed
<1>5. /\ file.rows \in Seq({file.rows[i] : i \in DOMAIN file.rows})
      /\ \A i \in DOMAIN file.rows : file.rows[i].user \in Users
  BY <1>2, FilesAssumption
<1>6. DOMAIN file.rows = 1..Len(file.rows) /\ Len(file.rows) \in Nat
  BY <1>5
<1>7. DOMAIN parsed = DOMAIN file.rows /\ parsed = [i \in DOMAIN file.rows |-> parsed[i]]
  BY DEF ParsedRows
<1>8. ASSUME NEW i \in DOMAIN file.rows
      PROVE  LET v == Verdict(file.type, live, file.rows, i) IN
             parsed[i] = [row |-> file.rows[i], verdict |-> v,
                          risk |-> IF v = "invalid" THEN "routine" ELSE Risk(file.type, file.rows[i]),
                          entity |-> FALSE, before |-> Nobody, reversed |-> FALSE]
  BY DEF ParsedRows
<1>9. ASSUME NEW i \in DOMAIN file.rows
      PROVE  /\ DOMAIN parsed[i] = {"row", "verdict", "risk", "entity", "before", "reversed"}
             /\ parsed[i].verdict \in {"valid", "warning", "invalid"}
             /\ parsed[i].risk \in {"routine", "high_risk"}
             /\ parsed[i].entity = FALSE /\ parsed[i].reversed = FALSE
             /\ parsed[i].row = file.rows[i]
             /\ parsed[i].verdict = "valid" => WellFormed(job.type, parsed[i].row)
  <2> DEFINE v == Verdict(file.type, live, file.rows, i)
  <2>1. v \in {"valid", "warning", "invalid"} /\ (v = "valid" => WellFormed(file.type, file.rows[i]))
    BY <1>2, VerdictType
  <2>2. Risk(file.type, file.rows[i]) \in {"routine", "high_risk"}
    BY DEF Risk
  <2> HIDE DEF v
  <2>3. parsed[i] = [row |-> file.rows[i], verdict |-> v,
                          risk |-> IF v = "invalid" THEN "routine" ELSE Risk(file.type, file.rows[i]),
                          entity |-> FALSE, before |-> Nobody, reversed |-> FALSE]
    BY <1>8 DEF v
  <2> HIDE DEF parsed
  <2> QED
    BY <1>2, <2>1, <2>2, <2>3
<1> HIDE DEF parsed
<1>10. RowsOK'
  <2>1. ASSUME NEW i \in DOMAIN rows' PROVE RowOK(rows[i])'
    <3> DEFINE r == parsed[i]
    <3>1. i \in DOMAIN file.rows /\ r = rows'[i]
      BY <1>1, <1>7
    <3>2. /\ DOMAIN r = {"row", "verdict", "risk", "entity", "before", "reversed"}
          /\ r.verdict \in {"valid", "warning", "invalid"} /\ r.risk \in {"routine", "high_risk"}
          /\ r.entity = FALSE /\ r.reversed = FALSE /\ r.row.user \in Users
      BY <1>5, <1>9, <3>1
    <3>3. r.verdict = "valid" => WellFormed(job'.type, r.row)
      BY <1>3, <1>9, <3>1
    <3>4. r.verdict = "valid" /\ r.risk = "high_risk" => job'.high
      BY <1>3, <1>7, <3>1
    <3> HIDE DEF r
    <3> QED
      BY <3>1, <3>2, <3>3, <3>4 DEF RowOK, WellFormed
  <2>2. rows' \in Seq({rows'[i] : i \in DOMAIN rows'})
    BY <1>1, <1>6, <1>7
  <2> QED
    BY <2>1, <2>2 DEF RowsOK
<1>11. WorkforceOK'
  <2>1. 0 \notin DOMAIN rows'
    BY <1>1, <1>6, <1>7
  <2> QED
    BY <1>1, <1>4, <2>1 DEF IInv, WorkforceOK, WorldOK, OwnRow
<1>12. FieldsOK'
  BY <1>1, <1>3, ImportAssumption DEF IInv, FieldsOK, States
<1>13. JobOK'
  BY <1>1, <1>3 DEF IInv, JobOK
<1>14. NothingBeforeParsing' /\ TwoPersonRule'
  BY <1>1, <1>3, <1>4 DEF NothingBeforeParsing, TwoPersonRule, Unparsed
<1>15. RequestsOK'
  BY <1>1, <1>3, RequestsStay DEF IInv, Unparsed
<1> QED
  BY <1>10, <1>11, <1>12, <1>13, <1>14, <1>15 DEF IInv


\* A step that leaves the job's row alone, apart from the state and the expiry of a parsed one.
LEMMA QuietStepInv ==
  ASSUME IInv,
         \/ ParseRefused \/ ParseRaises \/ ParseLate \/ Expire \/ SweepSelect \/ SweepFails
         \/ \E a \in Actors : OtherReach(a)
         \/ \E c \in Clients : Replay(c) \/ Abandon(c)
         \/ \E a \in Actors, d \in {"approve", "reject"}, t \in {"standard", "high_risk"} :
              Decide(a, d, t)
  PROVE  IInv'
<1>0. Gone \notin Files
  BY ImportAssumption DEF Gone
<1>1. CASE ParseRefused
  <2>1. /\ job'.state = "failed" /\ DOMAIN job' = DOMAIN job /\ job.state = "quarantined"
        /\ job'.type = job.type /\ job'.high = job.high /\ job'.by = job.by
        /\ job'.expires = job.expires /\ job'.key = job.key
    BY <1>1 DEF ParseRefused, IInv, JobOK, NoJob
  <2>2. UNCHANGED <<rows, decisions, file, live, reach, req, sweep, trail, outside>> /\ tries' = 0
    BY <1>1 DEF ParseRefused
  <2>3. FieldsOK' /\ JobOK'
    BY <2>1, <2>2, ImportAssumption DEF IInv, FieldsOK, JobOK, States
  <2>4. ASSUME NEW c \in Clients, req[c].op \in {"commit", "reverse"} PROVE FALSE
    BY <2>1, <2>4 DEF IInv, RequestsOK, Unparsed
  <2>5. RequestsOK'
    BY <2>2, <2>4 DEF IInv, RequestsOK
  <2> QED
    BY <2>1, <2>2, <2>3, <2>5, Quiet DEF Unparsed
<1>2. CASE ParseRaises \/ ParseLate
  <2>1. UNCHANGED <<job, rows, decisions, file, live, reach, req, sweep, trail, outside>>
    BY <1>2 DEF ParseRaises, ParseLate
  <2>2. tries' \in 0..MaxTries
    BY <1>2, ImportAssumption DEF ParseRaises, ParseLate, IInv, FieldsOK
  <2>3. FieldsOK' /\ JobOK'
    BY <2>1, <2>2 DEF IInv, FieldsOK, JobOK
  <2> QED
    BY <2>1, <2>3, Quiet, RequestsStay DEF IInv
<1>3. CASE Expire
  <2>1. /\ job'.expires = "past" /\ DOMAIN job' = DOMAIN job /\ job'.state = job.state
        /\ job'.type = job.type /\ job'.high = job.high /\ job'.by = job.by
        /\ job'.key = job.key
    BY <1>3 DEF Expire, IInv, JobOK, NoJob
  <2>2. UNCHANGED <<rows, decisions, file, tries, live, reach, req, sweep, trail, outside>>
    BY <1>3 DEF Expire
  <2>3. FieldsOK' /\ JobOK'
    BY <2>1, <2>2 DEF IInv, FieldsOK, JobOK
  <2> QED
    BY <2>1, <2>2, <2>3, Quiet, RequestsStay DEF IInv
<1>4. CASE SweepSelect
  <2>1. /\ UNCHANGED <<job, rows, decisions, file, tries, live, reach, req, trail, outside>>
        /\ sweep' = job.state
    BY <1>4 DEF SweepSelect
  <2>2. FieldsOK' /\ JobOK'
    BY <2>1 DEF IInv, FieldsOK, JobOK
  <2> QED
    BY <2>1, <2>2, Quiet, RequestsStay DEF IInv
<1>5. CASE SweepFails
  <2>1. /\ UNCHANGED <<job, rows, decisions, tries, live, reach, req, trail, outside>>
        /\ sweep' = "idle" /\ file' = Gone
    BY <1>5 DEF SweepFails
  <2>2. FieldsOK' /\ JobOK'
    BY <1>0, <2>1 DEF IInv, FieldsOK, JobOK
  <2> QED
    BY <2>1, <2>2, Quiet, RequestsStay DEF IInv
<1>6. CASE \E a \in Actors : OtherReach(a)
  <2>1. /\ UNCHANGED <<job, rows, decisions, file, tries, live, req, sweep, trail>>
        /\ outside' = outside + 1 /\ outside < MaxOutside
    BY <1>6 DEF OtherReach
  <2>2. outside' \in 0..MaxOutside
    BY <2>1, ImportAssumption DEF IInv, FieldsOK
  <2>3. FieldsOK' /\ JobOK'
    BY <2>1, <2>2 DEF IInv, FieldsOK, JobOK
  <2> QED
    BY <2>1, <2>3, Quiet, RequestsStay DEF IInv
<1>7. CASE \E c \in Clients : Replay(c) \/ Abandon(c)
  <2>1. /\ UNCHANGED <<job, rows, decisions, tries, live, reach, sweep, trail, outside>>
        /\ file' \in {file, Gone} /\ \E c \in Clients : Answered(c)
    BY <1>7 DEF Replay, Abandon, SourceCleaned
  <2>2. FieldsOK' /\ JobOK'
    BY <1>0, <2>1 DEF IInv, FieldsOK, JobOK
  <2> QED
    BY <2>1, <2>2, Quiet, RequestsStay DEF IInv
<1>8. CASE \E a \in Actors, d \in {"approve", "reject"}, t \in {"standard", "high_risk"} :
              Decide(a, d, t)
  <2>1. PICK a \in Actors, d \in {"approve", "reject"}, t \in {"standard", "high_risk"} :
          /\ decisions' = Append(decisions, [decision |-> d, tier |-> t, by |-> a])
          /\ Len(decisions) < MaxDecisions
          /\ UNCHANGED <<job, rows, file, tries, live, reach, req, sweep, trail, outside>>
    BY <1>8 DEF Decide
  <2> DEFINE D == [decision : {"approve", "reject"}, tier : {"standard", "high_risk"}, by : Actors]
             e == [decision |-> d, tier |-> t, by |-> a]
  <2>2. e \in D /\ decisions \in Seq(D)
    BY DEF IInv, JobOK
  <2> HIDE DEF D, e
  <2>3. decisions' \in Seq(D) /\ Len(decisions') = Len(decisions) + 1 /\ Len(decisions) \in Nat
    BY <2>1, <2>2 DEF e
  <2>4. Len(decisions') \in 0..MaxDecisions
    BY <2>1, <2>3, ImportAssumption
  <2>5. FieldsOK' /\ JobOK'
    BY <2>1, <2>3, <2>4 DEF IInv, FieldsOK, JobOK, D
  <2> QED
    BY <2>1, <2>5, Quiet, RequestsStay DEF IInv
<1> QED
  BY <1>1, <1>2, <1>3, <1>4, <1>5, <1>6, <1>7, <1>8

LEMMA LoadInv ==
  ASSUME IInv, NEW c \in Clients, NEW a \in Actors, NEW op \in {"commit", "reverse"},
         NEW k \in Keys, Load(c, a, op, k)
  PROVE  IInv'
<1>1. /\ req' = [req EXCEPT ![c] = [op |-> op, by |-> a, key |-> k, seen |-> job]]
      /\ UNCHANGED <<job, rows, decisions, file, tries, live, reach, sweep, trail, outside>>
      /\ job.state \notin Unparsed
  BY DEF Load, Unparsed
<1>2. FieldsOK' /\ JobOK'
  BY <1>1 DEF IInv, FieldsOK, JobOK
<1>3. /\ DOMAIN req' = Clients
      /\ req'[c].by = a /\ req'[c].key = k
      /\ \A b \in Clients : b # c => req'[b] = req[b]
  BY <1>1 DEF IInv, RequestsOK
<1>4. RequestsOK'
  BY <1>1, <1>3 DEF IInv, RequestsOK
<1> QED
  BY <1>1, <1>2, <1>4, Quiet

LEMMA SweepRetireInv ==
  ASSUME IInv, SweepRetire
  PROVE  IInv'
<1>1. /\ file' = Gone /\ sweep' = "idle" /\ job' = Retire /\ rows' \in {rows, <<>>}
      /\ UNCHANGED <<decisions, tries, live, reach, req, trail, outside>>
  BY DEF SweepRetire
<1>2. /\ DOMAIN job' = DOMAIN job /\ job'.type = job.type /\ job'.high = job.high
      /\ job'.by = job.by /\ job'.key = job.key
      /\ job'.expires \in {job.expires, "none"} /\ job'.state \in {job.state, "expired"}
  BY <1>1 DEF Retire, IInv, JobOK, NoJob
<1>3. Gone \notin Files
  BY ImportAssumption DEF Gone
<1>4. FieldsOK' /\ JobOK'
  BY <1>1, <1>2, <1>3 DEF IInv, FieldsOK, JobOK, States
<1>5. RowsOK'
  <2>1. CASE rows' = rows
    BY <1>2, <2>1, SameRows, RowsStay DEF IInv
  <2>2. CASE rows' = <<>>
    BY <2>2 DEF RowsOK
  <2> QED
    BY <1>1, <2>1, <2>2
<1>6. WorkforceOK'
  BY <1>1, <1>2 DEF IInv, WorkforceOK, WorldOK, OwnRow
<1>7. NothingBeforeParsing' /\ TwoPersonRule'
  BY <1>1, <1>2 DEF IInv, NothingBeforeParsing, TwoPersonRule, Unparsed
<1>8. RequestsOK'
  BY <1>1, <1>2, RequestsStay DEF IInv, Unparsed
<1> QED
  BY <1>4, <1>5, <1>6, <1>7, <1>8 DEF IInv

\* A change made by another page.
LEMMA ElsewhereInv ==
  ASSUME IInv, NEW w, Elsewhere(w), WorldOK(w), NEW kind, NEW u, OnlyMakes(live, w, kind, u, 0)
  PROVE  IInv'
<1>1. /\ live' = w /\ outside' = outside + 1 /\ outside < MaxOutside
      /\ UNCHANGED <<job, rows, decisions, file, tries, reach, req, sweep, trail>>
  BY DEF Elsewhere
<1>2. outside' \in 0..MaxOutside
  BY <1>1, ImportAssumption DEF IInv, FieldsOK
<1>3. FieldsOK' /\ JobOK'
  BY <1>1, <1>2 DEF IInv, FieldsOK, JobOK
<1>4. RowsOK'
  BY <1>1, SameRows, RowsStay DEF IInv
<1>5. 0 \notin DOMAIN rows
  BY RowsAreNumbered DEF IInv
<1>6. WorkforceOK'
  <2>1. \A l \in live'.links : OwnRow(l)'
    BY <1>1, <1>5 DEF IInv, WorkforceOK, OnlyMakes, OwnRow
  <2> QED
    BY <1>1, <2>1 DEF WorkforceOK, WorldOK
<1>7. NothingBeforeParsing' /\ TwoPersonRule'
  BY <1>1 DEF IInv, NothingBeforeParsing, TwoPersonRule, OnlyMakes
<1>8. RequestsOK'
  BY <1>1, RequestsStay DEF IInv
<1> QED
  BY <1>3, <1>4, <1>6, <1>7, <1>8 DEF IInv

LEMMA OthersInv ==
  ASSUME IInv, Others
  PROVE  IInv'
<1>1. WorldOK(live)
  BY DEF IInv, WorkforceOK
<1>2. Spoken \subseteq Users
  BY ImportAssumption DEF Spoken, IInv, FieldsOK, RowsOK, RowOK
<1>3. ASSUME NEW u \in Spoken, OtherUserChange(u) PROVE IInv'
  <2>1. PICK state \in {"active", "inactive"} : Elsewhere(Person(live, u, state))
    BY <1>3 DEF OtherUserChange
  <2>2. WorldOK(Person(live, u, state)) /\ Person(live, u, state).links = live.links
    BY <1>1, <1>2, PersonKeeps
  <2>3. OnlyMakes(live, Person(live, u, state), "users", u, 0)
    BY <2>2, SameWorld
  <2> QED
    BY <2>1, <2>2, <2>3, ElsewhereInv
<1>4. ASSUME NEW l \in live.links, OtherLinkEnd(l) PROVE IInv'
  <2> DEFINE gone == {l}
  <2>1. Elsewhere(Drop(live, gone))
    BY <1>4 DEF OtherLinkEnd
  <2> HIDE DEF gone
  <2>2. WorldOK(Drop(live, gone)) /\ Drop(live, gone).links = live.links \ gone
    BY <1>1, DropKeeps
  <2>3. OnlyMakes(live, Drop(live, gone), "users", l, 0)
    BY <2>2, SameWorld
  <2> QED
    BY <2>1, <2>2, <2>3, ElsewhereInv
<1>5. ASSUME NEW u \in Spoken, NEW o \in SpokenTo, OtherLinkMade(job.type, u, o) PROVE IInv'
  <2>0. u \in Users /\ 0 \in Nat
    BY <1>2
  <2>1. CASE Elsewhere(AddMembership(live, u, o, 0))
    BY <1>1, <2>0, <2>1, AddMembershipKeeps, ElsewhereInv
  <2>2. CASE Elsewhere(AssignRole(live, u, o, 0))
    BY <1>1, <2>0, <2>2, AssignRoleKeeps, ElsewhereInv
  <2>3. CASE Elsewhere(SetLine(live, u, o, 0))
    BY <1>1, <2>0, <2>3, SetLineKeeps, ElsewhereInv
  <2>4. CASE MayPost(live, u, o, Nobody) /\ Elsewhere(Post(live, u, o, Nobody, 0))
    BY <1>1, <2>0, <2>4, PostKeeps, ElsewhereInv
  <2> QED
    BY <1>5, <2>1, <2>2, <2>3, <2>4 DEF OtherLinkMade
<1>6. ASSUME NEW a \in Actors, OtherReach(a) PROVE IInv'
  BY <1>6, QuietStepInv
<1> QED
  BY <1>3, <1>4, <1>5, <1>6 DEF Others

LEMMA CommitJobInv ==
  ASSUME IInv, NEW c \in Clients, CommitJob(c)
  PROVE  IInv'
<1> DEFINE s == Applied("commit", req[c].by, ByNumber)
<1>1. CommitOK(s)
  BY CommitApplied DEF IInv
<1>2. /\ live' = s.w /\ rows' = s.rows /\ trail' = trail \cup s.audit
      /\ job' = [job EXCEPT !.state = "committed", !.key = req[c].key]
      /\ file' \in {file, Gone} /\ Answered(c) /\ Approved
      /\ req[c].op = "commit"
      /\ UNCHANGED <<decisions, tries, reach, sweep, outside>>
  BY DEF CommitJob, SourceCleaned
<1> HIDE DEF s
<1>3. /\ DOMAIN job' = DOMAIN job /\ job'.type = job.type /\ job'.high = job.high
      /\ job'.by = job.by /\ job'.key = req[c].key /\ job'.expires = job.expires
      /\ job'.state = "committed"
  BY <1>2 DEF IInv, JobOK, NoJob
<1>4. Gone \notin Files
  BY ImportAssumption DEF Gone
<1>5. req[c].key \in Keys
  BY <1>2 DEF IInv, RequestsOK
<1>6. FieldsOK' /\ JobOK'
  BY <1>2, <1>3, <1>4, <1>5 DEF IInv, FieldsOK, JobOK, States
<1>7. RowsLike(rows') /\ WorldOK(live') /\ \A l \in live'.links : OwnRow(l)
  BY <1>1, <1>2 DEF CommitOK
<1>8. RowsOK' /\ WorkforceOK'
  BY <1>3, <1>7, RowsStay, LinksStay DEF IInv
<1>9. NothingBeforeParsing'
  BY <1>3 DEF NothingBeforeParsing, Unparsed
<1>10. TwoPersonRule'
  <2>1. ASSUME NEW e \in s.audit, e.high PROVE e.by # job.by
    <3>1. CommitEvent(e)
      BY <1>1 DEF CommitOK
    <3> QED
      BY <1>2, <2>1, <3>1, RowActorApproved DEF CommitEvent, IInv
  <2> QED
    BY <1>2, <1>3, <2>1 DEF IInv, TwoPersonRule
<1>11. RequestsOK'
  BY <1>2, <1>3, RequestsStay DEF IInv, Unparsed
<1> QED
  BY <1>6, <1>8, <1>9, <1>10, <1>11 DEF IInv

\* Whatever order the database returned the rows in.
LEMMA ReversalIsOK ==
  ASSUME IInv, NEW c \in Clients, ReverseJob(c)
  PROVE  \E s : /\ ReverseOK(req[c].by, s)
                /\ live' = s.w /\ rows' = s.rows /\ trail' = trail \cup s.audit
<1> DEFINE a == req[c].by
<1>1. PICK order \in Orders :
        /\ live' = Applied("reverse", a, order).w /\ rows' = Applied("reverse", a, order).rows
        /\ trail' = trail \cup Applied("reverse", a, order).audit
  BY DEF ReverseJob
<1>2. ReverseOK(a, Applied("reverse", a, order))
  BY ReverseApplied DEF IInv
<1> QED
  BY <1>1, <1>2

LEMMA ReverseJobInv ==
  ASSUME IInv, NEW c \in Clients, ReverseJob(c)
  PROVE  IInv'
<1> DEFINE a == req[c].by
<1>0. PICK s : /\ ReverseOK(a, s)
               /\ live' = s.w /\ rows' = s.rows /\ trail' = trail \cup s.audit
  BY ReversalIsOK
<1>1. ReverseOK(a, s)
  BY <1>0
<1>2. /\ live' = s.w /\ rows' = s.rows /\ trail' = trail \cup s.audit
      /\ job' = [job EXCEPT !.reversed = TRUE]
      /\ Answered(c) /\ (job.high => Qualified(a)) /\ req[c].op = "reverse"
      /\ UNCHANGED <<decisions, file, tries, reach, sweep, outside>>
  BY <1>0 DEF ReverseJob
<1> HIDE DEF a
<1>3. /\ DOMAIN job' = DOMAIN job /\ job'.type = job.type /\ job'.high = job.high
      /\ job'.by = job.by /\ job'.key = job.key /\ job'.expires = job.expires
      /\ job'.state = job.state /\ job.state \notin Unparsed
  BY <1>2 DEF IInv, JobOK, NoJob, RequestsOK
<1>4. FieldsOK' /\ JobOK'
  BY <1>2, <1>3 DEF IInv, FieldsOK, JobOK
<1>5. RowsLike(rows') /\ WorldOK(live') /\ \A l \in live'.links : OwnRow(l)
  BY <1>1, <1>2 DEF ReverseOK
<1>6. RowsOK' /\ WorkforceOK'
  BY <1>3, <1>5, RowsStay, LinksStay DEF IInv
<1>7. NothingBeforeParsing'
  BY <1>3 DEF NothingBeforeParsing
<1>8. TwoPersonRule'
  <2>1. ASSUME NEW e \in s.audit, e.high PROVE e.by # job.by
    <3>1. ReverseEvent(a, e)
      BY <1>1 DEF ReverseOK
    <3>2. job.high
      BY <2>1, <3>1 DEF ReverseEvent, IInv, RowsOK, RowOK
    <3> QED
      BY <1>2, <3>1, <3>2 DEF ReverseEvent, Qualified
  <2> QED
    BY <1>2, <1>3, <2>1 DEF IInv, TwoPersonRule
<1>9. RequestsOK'
  BY <1>2, <1>3, RequestsStay DEF IInv
<1> QED
  BY <1>4, <1>6, <1>7, <1>8, <1>9 DEF IInv

LEMMA NextInv == IInv /\ [Next]_vars => IInv'
<1> SUFFICES ASSUME IInv, [Next]_vars PROVE IInv'
  OBVIOUS
<1>1. ASSUME NEW a \in Actors, NEW f \in Files, Upload(a, f) PROVE IInv'
  BY <1>1, UploadInv
<1>2. CASE Tasks
  BY <1>2, ParseInv, QuietStepInv DEF Tasks
<1>3. ASSUME NEW c \in Clients, Replay(c) \/ CommitJob(c) \/ ReverseJob(c) \/ Abandon(c) PROVE IInv'
  BY <1>3, QuietStepInv, CommitJobInv, ReverseJobInv
<1>4. CASE Expire \/ Sweep \/ SweepFails
  BY <1>4, QuietStepInv, SweepRetireInv DEF Sweep
<1>5. CASE Others
  BY <1>5, OthersInv
<1>6. ASSUME NEW a \in Actors, NEW d \in {"approve", "reject"}, NEW t \in {"standard", "high_risk"},
             Decide(a, d, t)
      PROVE  IInv'
  BY <1>6, QuietStepInv
<1>7. ASSUME NEW c \in Clients, NEW a \in Actors, NEW op \in {"commit", "reverse"}, NEW k \in Keys,
             Load(c, a, op, k)
      PROVE  IInv'
  BY <1>7, LoadInv
<1>8. CASE UNCHANGED vars
  <2>1. FieldsOK' /\ JobOK'
    BY <1>8 DEF vars, IInv, FieldsOK, JobOK
  <2> QED
    BY <1>8, <2>1, Quiet, RequestsStay DEF vars, IInv
<1> QED
  BY <1>1, <1>2, <1>3, <1>4, <1>5, <1>6, <1>7, <1>8 DEF Next

LEMMA Invariance == Spec => []IInv
<1>1. Init => IInv
  BY InitInv
<1>2. IInv /\ [Next]_vars => IInv'
  BY NextInv
<1> QED
  BY <1>1, <1>2, PTL DEF Spec


-----------------------------------------------------------------------------
(* What the invariant gives. *)

\* Every variable keeps its type, and a row that took effect keeps what its reversal needs.
THEOREM Typing == Spec => []TypeOK
BY Invariance, InvariantSuffices, PTL

\* Whatever is approved, rejected, changed elsewhere and sent by whom: what a high-risk
\* row did was done on the authority of someone other than the uploader.
THEOREM SecondPerson == Spec => []TwoPersonRule
BY Invariance, InvariantSuffices, PTL

\* No import, reversal or page gives a user two links in one slot.
THEOREM OneLink == Spec => []OneLinkPerSlot
BY Invariance, InvariantSuffices, PTL

\* Only a commit and a reversal write audit events of rows.
LEMMA TrailStays ==
  ASSUME [Next]_vars, \A c \in Clients : ~CommitJob(c) /\ ~ReverseJob(c)
  PROVE  trail' = trail
BY DEF Next, vars, Upload, Tasks, Parse, ParseRefused, ParseRaises, ParseLate, Decide, Load,
       Replay, Abandon, Expire, Sweep, SweepSelect, SweepRetire, SweepFails, Others,
       OtherUserChange, OtherLinkEnd, OtherLinkMade, OtherReach, Elsewhere

\* What a commit and a reversal that passed their checks write.
LEMMA CommitTrail ==
  ASSUME IInv, NEW c \in Clients, CommitJob(c), NEW e \in trail' \ trail
  PROVE  CommitEvent(e) /\ Approved
<1> DEFINE s == Applied("commit", req[c].by, ByNumber)
<1>1. CommitOK(s)
  BY CommitApplied DEF IInv
<1>2. trail' = trail \cup s.audit /\ Approved
  BY DEF CommitJob
<1> QED
  BY <1>1, <1>2 DEF CommitOK

LEMMA ReverseTrail ==
  ASSUME IInv, NEW c \in Clients, ReverseJob(c), NEW e \in trail' \ trail
  PROVE  ReverseEvent(req[c].by, e)
<1>1. PICK s : ReverseOK(req[c].by, s) /\ trail' = trail \cup s.audit
  BY ReversalIsOK
<1> QED
  BY <1>1 DEF ReverseOK

LEMMA EffectsStep ==
  IInv /\ [Next]_vars =>
    \A e \in trail' \ trail : Needs(job.type, rows[e.row].row) \subseteq reach[e.by]
<1> SUFFICES ASSUME IInv, [Next]_vars, NEW e \in trail' \ trail
             PROVE  Needs(job.type, rows[e.row].row) \subseteq reach[e.by]
  OBVIOUS
<1>1. PICK c \in Clients : CommitJob(c) \/ ReverseJob(c)
  BY TrailStays
<1>2. CASE CommitJob(c)
  BY <1>2, CommitTrail, RowActorApproved DEF CommitEvent, IInv
<1>3. CASE ReverseJob(c)
  <2> DEFINE a == req[c].by
             i == e.row
  <2>1. i \in DOMAIN rows /\ rows[i].verdict = "valid" /\ e.by = a
    BY <1>3, ReverseTrail DEF ReverseEvent
  <2>2. RowOK(rows[i])
    BY <2>1 DEF IInv, RowsOK
  <2>3. Authorized(a, "routine") /\ (job.high => Authorized(a, "high_risk"))
    BY <1>3 DEF ReverseJob, Qualified
  <2>4. Authorized(a, rows[i].risk)
    BY <2>1, <2>2, <2>3 DEF RowOK
  <2>5. Needs(job.type, rows[i].row) \subseteq NeedsOf(rows[i].risk)
    BY <2>1 DEF NeedsOf, RowsOf
  <2> QED
    BY <2>1, <2>4, <2>5 DEF Authorized
<1> QED
  BY <1>1, <1>2, <1>3

\* Every row that a commit or a reversal puts into effect is within the authority, at
\* that moment, of the one it is recorded for.
THEOREM EffectsAuthorized == Spec => EffectsAreAuthorized
BY Invariance, EffectsStep, PTL DEF Spec, EffectsAreAuthorized

LEMMA RejectedStep ==
  IInv /\ [Next]_vars =>
    \A e \in trail' \ trail :
       e.event = "commit" =>
         LET tier == IF e.high THEN "high_risk" ELSE "standard"
             of == {n \in DOMAIN decisions : decisions[n].tier = tier}
         IN of # {} /\ \A n \in of : (\A m \in of : m <= n) =>
                decisions[n].decision = "approve" /\ decisions[n].by = e.by
<1> SUFFICES ASSUME IInv, [Next]_vars, NEW e \in trail' \ trail, e.event = "commit"
             PROVE  LET tier == IF e.high THEN "high_risk" ELSE "standard"
                        of == {n \in DOMAIN decisions : decisions[n].tier = tier}
                    IN of # {} /\ \A n \in of : (\A m \in of : m <= n) =>
                           decisions[n].decision = "approve" /\ decisions[n].by = e.by
  OBVIOUS
<1> DEFINE tier == IF e.high THEN "high_risk" ELSE "standard"
           of == {n \in DOMAIN decisions : decisions[n].tier = tier}
<1>1. PICK c \in Clients : CommitJob(c) \/ ReverseJob(c)
  BY TrailStays
<1>2. CommitJob(c)
  BY <1>1, ReverseTrail DEF ReverseEvent
<1>3. CommitEvent(e) /\ Approved
  BY <1>2, CommitTrail
<1>4. \E n \in DOMAIN decisions :
        /\ decisions[n].tier = tier /\ decisions[n].decision = "approve"
        /\ decisions[n].by = e.by
        /\ \A m \in DOMAIN decisions : decisions[m].tier = tier => m <= n
  BY <1>3, RowActorApproved DEF CommitEvent, IInv
<1> HIDE DEF tier
<1>5. PICK k \in of : /\ decisions[k].decision = "approve" /\ decisions[k].by = e.by
                      /\ \A m \in of : m <= k
  BY <1>4
<1>6. of \subseteq Nat
  BY DEF IInv, JobOK
<1>7. ASSUME NEW n \in of, \A m \in of : m <= n PROVE n = k
  <2> HIDE DEF of
  <2> QED
    BY <1>5, <1>6, <1>7
<1>8. of # {} /\ \A n \in of : (\A m \in of : m <= n) =>
                decisions[n].decision = "approve" /\ decisions[n].by = e.by
  BY <1>5, <1>7
<1> QED
  BY <1>8 DEF tier

\* A row is committed only where the latest decision of its tier, read at the commit,
\* approves, and on the authority of the one who took it.
THEOREM RejectedOut == Spec => RejectedStaysOut
BY Invariance, RejectedStep, PTL DEF Spec, RejectedStaysOut

LEMMA ReversalStep ==
  IInv /\ [Next]_vars =>
    ((\E e \in trail' \ trail : e.event = "reverse") =>
       \A l \in live.links : l.by = 0 => l \in live'.links)
<1> SUFFICES ASSUME IInv, [Next]_vars, NEW e \in trail' \ trail, e.event = "reverse"
             PROVE  \A l \in live.links : l.by = 0 => l \in live'.links
  OBVIOUS
<1>1. PICK c \in Clients : CommitJob(c) \/ ReverseJob(c)
  BY TrailStays
<1>2. ReverseJob(c)
  BY <1>1, CommitTrail DEF CommitEvent
<1>3. PICK s : ReverseOK(req[c].by, s) /\ live' = s.w
  BY <1>2, ReversalIsOK
<1> QED
  BY <1>3 DEF ReverseOK, KeepsOthers

\* A reversal ends none of the links that were made elsewhere, the ones granted anew in
\* the place of a row's own included.
THEOREM OthersKept == Spec => ReversalKeepsOthers
BY Invariance, ReversalStep, PTL DEF Spec, ReversalKeepsOthers

LEMMA SecondReversalStep ==
  IInv /\ [Next]_vars =>
    ((\E c \in Clients : ReverseJob(c)) /\ (\A i \in DOMAIN rows : rows[i].entity => rows[i].reversed)
       => live' = live)
<1> SUFFICES ASSUME IInv, NEW c \in Clients, ReverseJob(c),
                    \A i \in DOMAIN rows : rows[i].entity => rows[i].reversed
             PROVE  live' = live
  OBVIOUS
<1>1. PICK s : ReverseOK(req[c].by, s) /\ live' = s.w
  BY ReversalIsOK
<1>2. \A i \in DOMAIN rows : ~ToReverse(rows[i])
  BY DEF ToReverse
<1> QED
  BY <1>1, <1>2 DEF ReverseOK

\* A second reversal of an import whose rows are all reversed changes nobody.
THEOREM OnceReversed == Spec => ReversedOnce
BY Invariance, SecondReversalStep, PTL DEF Spec, ReversedOnce

=============================================================================

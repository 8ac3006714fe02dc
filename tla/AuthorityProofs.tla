-------------------------- MODULE AuthorityProofs --------------------------
(***************************************************************************)
(* Proofs about the module Authority, for any users, teams, campaigns,     *)
(* appointments and loans.                                                 *)
(*                                                                         *)
(* What a user may do is read off the rows each time it is asked, so most  *)
(* of what can go wrong lies in how a grant covers a scope: the lemmas     *)
(* about Covers carry NoEscalation and LookupsAgree.  What a state needs   *)
(* beyond its types is small: a delegation lends nothing that may not be   *)
(* lent, and the rows a request read before it writes are still the rows   *)
(* of the same grant, ended or not.                                        *)
(***************************************************************************)
EXTENDS Authority, SequenceTheorems, TLAPS

RoleRow == [who : Users, role : DOMAIN ROLE_CAPABILITIES, scope : Scopes, active : BOOLEAN]
Loan == [from : Users, to : Users, caps : SUBSET ALL_CAPABILITIES, scope : Scopes,
         start : Nat, end : Nat, revoked : BOOLEAN]

OneActive(rows) ==
  \A i, j \in DOMAIN rows :
    rows[i].active /\ rows[j].active /\ i # j =>
      <<rows[i].who, rows[i].role, rows[i].scope>> # <<rows[j].who, rows[j].role, rows[j].scope>>

\* The row i is a grant of that role there to that user, ended or not.
IsGrant(i, who, offer) ==
  /\ i \in DOMAIN roles
  /\ roles[i].who = who /\ roles[i].role = offer[1] /\ roles[i].scope = offer[2]

Lendable(d) == d.caps \cap NON_DELEGABLE = {}

\* What the requests under way have read still says what it said.
ReadsHold ==
  /\ DOMAIN request = Requests
  /\ \A r \in Requests :
       /\ request[r].op = "assign" =>
            /\ request[r].who \in Users /\ request[r].offer \in Offers
            /\ \A i \in request[r].prior : IsGrant(i, request[r].who, request[r].offer)
       /\ request[r].op = "delegate" => request[r].row \in Loan /\ Lendable(request[r].row)

LentIsLendable == \A i \in DOMAIN delegations : Lendable(delegations[i])

IInv == TypeOK /\ LentIsLendable /\ ReadsHold

-----------------------------------------------------------------------------
(* Rows. *)

LEMMA RoleNames ==
  /\ DOMAIN ROLE_CAPABILITIES = {"super_admin", "manager", "team_leader", "team_captain",
                                 "agent", "viewer"}
  /\ DOMAIN ROLE_APPOINTMENT_CAPABILITY \subseteq DOMAIN ROLE_CAPABILITIES
BY DEF ROLE_CAPABILITIES, ROLE_APPOINTMENT_CAPABILITY

LEMMA RangeType == ASSUME NEW S, NEW s \in Seq(S) PROVE Range(s) \subseteq S
BY DEF Range

\* What Ended leaves: the same rows, the named ones ended.
LEMMA EndedRows ==
  ASSUME TypeOK, NEW gone
  PROVE  /\ Ended(gone) \in Seq(RoleRow)
         /\ DOMAIN Ended(gone) = DOMAIN roles /\ Len(Ended(gone)) = Len(roles)
         /\ \A i \in DOMAIN roles :
              /\ Ended(gone)[i].who = roles[i].who
              /\ Ended(gone)[i].role = roles[i].role
              /\ Ended(gone)[i].scope = roles[i].scope
              /\ Ended(gone)[i].active = (roles[i].active /\ i \notin gone)
              /\ i \notin gone => Ended(gone)[i] = roles[i]
         /\ OneActive(Ended(gone))
<1>1. roles \in Seq(RoleRow) /\ OneActive(roles) /\ DOMAIN roles = 1..Len(roles) /\ Len(roles) \in Nat
  BY DEF TypeOK, RoleRow, OneActive
<1>2. \A i \in DOMAIN roles : roles[i] \in RoleRow
  BY <1>1
<1>3. ASSUME NEW i \in DOMAIN roles
      PROVE  /\ Ended(gone)[i] \in RoleRow
             /\ Ended(gone)[i].who = roles[i].who
             /\ Ended(gone)[i].role = roles[i].role
             /\ Ended(gone)[i].scope = roles[i].scope
             /\ Ended(gone)[i].active = (roles[i].active /\ i \notin gone)
             /\ i \notin gone => Ended(gone)[i] = roles[i]
  <2>1. roles[i] \in RoleRow
    BY <1>2
  <2>2. CASE i \in gone
    <3>1. Ended(gone)[i] = [roles[i] EXCEPT !.active = FALSE]
      BY <2>2 DEF Ended
    <3> QED
      BY <2>1, <2>2, <3>1 DEF RoleRow
  <2>3. CASE i \notin gone
    BY <2>1, <2>3 DEF Ended, RoleRow
  <2> QED
    BY <2>2, <2>3
<1>4. DOMAIN Ended(gone) = DOMAIN roles
  BY DEF Ended
<1>5. Ended(gone) \in Seq(RoleRow) /\ Len(Ended(gone)) = Len(roles)
  <2>1. Ended(gone) \in [1..Len(roles) -> RoleRow]
    BY <1>1, <1>3 DEF Ended
  <2> QED
    BY <1>1, <2>1
<1>6. OneActive(Ended(gone))
  <2> SUFFICES ASSUME NEW i \in DOMAIN roles, NEW j \in DOMAIN roles, i # j,
                      Ended(gone)[i].active, Ended(gone)[j].active
               PROVE  <<Ended(gone)[i].who, Ended(gone)[i].role, Ended(gone)[i].scope>>
                        # <<Ended(gone)[j].who, Ended(gone)[j].role, Ended(gone)[j].scope>>
    BY <1>4 DEF OneActive
  <2>1. roles[i].active /\ roles[j].active
    BY <1>3
  <2>2. <<roles[i].who, roles[i].role, roles[i].scope>> # <<roles[j].who, roles[j].role, roles[j].scope>>
    BY <1>1, <2>1 DEF OneActive
  <2> QED
    BY <1>3, <2>2
<1> QED
  BY <1>3, <1>4, <1>5, <1>6

\* What an appointment writes.
LEMMA AppointedRows ==
  ASSUME TypeOK, NEW gone, NEW who \in Users, NEW offer \in Offers,
         Matching(who, offer) \subseteq gone,
         NEW new, new = [who |-> who, role |-> offer[1], scope |-> offer[2], active |-> TRUE]
  PROVE  /\ Append(Ended(gone), new) \in Seq(RoleRow)
         /\ OneActive(Append(Ended(gone), new))
         /\ DOMAIN Append(Ended(gone), new) = DOMAIN roles \cup {Len(roles) + 1}
         /\ Append(Ended(gone), new)[Len(roles) + 1] = new
         /\ \A i \in DOMAIN roles : Append(Ended(gone), new)[i] = Ended(gone)[i]
<1> DEFINE E == Ended(gone)
           A == Append(E, new)
<1>1. /\ E \in Seq(RoleRow) /\ DOMAIN E = DOMAIN roles /\ Len(E) = Len(roles) /\ OneActive(E)
      /\ \A i \in DOMAIN roles :
              /\ E[i].who = roles[i].who
              /\ E[i].role = roles[i].role
              /\ E[i].scope = roles[i].scope
              /\ E[i].active = (roles[i].active /\ i \notin gone)
  BY EndedRows
<1>2. new \in RoleRow
  BY RequestAssumption, RoleNames DEF RoleRow
<1>3. roles \in Seq(RoleRow) /\ DOMAIN roles = 1..Len(roles) /\ Len(roles) \in Nat
  BY DEF TypeOK, RoleRow
<1>4. \A i \in DOMAIN roles : ~(/\ E[i].active /\ E[i].who = who
                                /\ E[i].role = offer[1] /\ E[i].scope = offer[2])
  BY <1>1 DEF Matching
<1> HIDE DEF E
<1>5. /\ A \in Seq(RoleRow) /\ DOMAIN A = DOMAIN roles \cup {Len(roles) + 1}
      /\ A[Len(roles) + 1] = new /\ \A i \in DOMAIN roles : A[i] = E[i]
  BY <1>1, <1>2, <1>3
<1> HIDE DEF A
<1>6. /\ new.who = who /\ new.role = offer[1] /\ new.scope = offer[2]
      /\ Len(roles) + 1 \notin DOMAIN roles
  BY <1>3
<1>7. OneActive(A)
  <2> SUFFICES ASSUME NEW i \in DOMAIN A, NEW j \in DOMAIN A, A[i].active, A[j].active, i # j
               PROVE  <<A[i].who, A[i].role, A[i].scope>> # <<A[j].who, A[j].role, A[j].scope>>
    BY DEF OneActive
  <2>1. CASE i \in DOMAIN roles /\ j \in DOMAIN roles
    BY <1>1, <1>5, <2>1 DEF OneActive
  <2>2. CASE i \in DOMAIN roles /\ j = Len(roles) + 1
    BY <1>4, <1>5, <1>6, <2>2
  <2>3. CASE j \in DOMAIN roles /\ i = Len(roles) + 1
    BY <1>4, <1>5, <1>6, <2>3
  <2> QED
    BY <1>5, <2>1, <2>2, <2>3
<1> QED
  BY <1>5, <1>7 DEF A, E

-----------------------------------------------------------------------------
(* The inductive invariant. *)

\* No row of role_assignments vanishes or becomes a grant of something else.
RowsKept ==
  \A i \in DOMAIN roles :
    /\ i \in DOMAIN roles'
    /\ roles'[i].who = roles[i].who
    /\ roles'[i].role = roles[i].role /\ roles'[i].scope = roles[i].scope

LEMMA ReadsKept ==
  ASSUME ReadsHold, RowsKept,
         UNCHANGED request \/ \E r \in Requests : Finish(r)
  PROVE  ReadsHold'
<1>1. DOMAIN request' = Requests
  BY DEF ReadsHold, Finish
<1>2. ASSUME NEW q \in Requests PROVE request'[q] = request[q] \/ request'[q] = Idle
  BY DEF ReadsHold, Finish
<1>3. Idle.op = "idle"
  BY DEF Idle
<1>4. ASSUME NEW q \in Requests
      PROVE  /\ request'[q].op = "assign" =>
                  /\ request'[q].who \in Users /\ request'[q].offer \in Offers
                  /\ \A i \in request'[q].prior : IsGrant(i, request[q].who, request[q].offer)'
             /\ request'[q].op = "delegate" =>
                  request'[q].row \in Loan /\ Lendable(request'[q].row)
  <2>1. CASE request'[q] = Idle
    BY <1>3, <2>1
  <2>2. CASE request'[q] = request[q]
    BY <2>2 DEF ReadsHold, IsGrant, RowsKept
  <2> QED
    BY <1>2, <2>1, <2>2
<1> QED
  BY <1>1, <1>4 DEF ReadsHold, Lendable, IsGrant

LEMMA StartReads ==
  ASSUME ReadsHold, UNCHANGED roles, NEW r \in Requests, NEW w, Start(r, w),
         w.op = "assign" => /\ w.who \in Users /\ w.offer \in Offers
                            /\ \A i \in w.prior : IsGrant(i, w.who, w.offer),
         w.op = "delegate" => w.row \in Loan /\ Lendable(w.row)
  PROVE  ReadsHold'
<1>1. DOMAIN request' = Requests
  BY DEF ReadsHold, Start
<1>2. request'[r] = w /\ \A q \in Requests : q # r => request'[q] = request[q]
  BY DEF ReadsHold, Start
<1>3. ASSUME NEW q \in Requests
      PROVE  /\ request'[q].op = "assign" =>
                  /\ request'[q].who \in Users /\ request'[q].offer \in Offers
                  /\ \A i \in request'[q].prior : IsGrant(i, request'[q].who, request'[q].offer)
             /\ request'[q].op = "delegate" =>
                  request'[q].row \in Loan /\ Lendable(request'[q].row)
  <2>1. CASE q = r
    BY <1>2, <2>1
  <2>2. CASE q # r
    BY <1>2, <2>2 DEF ReadsHold
  <2> QED
    BY <2>1, <2>2
<1>4. \A i, who, offer : IsGrant(i, who, offer) = IsGrant(i, who, offer)'
  BY DEF IsGrant
<1> QED
  BY <1>1, <1>3 DEF ReadsHold, Lendable, IsGrant

LEMMA UntouchedRows == ASSUME UNCHANGED roles PROVE RowsKept
BY DEF RowsKept

\* What the actions that write rows keep.
LEMMA FinishAppointmentInv ==
  ASSUME IInv, NEW r \in Requests, FinishAppointment(r)
  PROVE  IInv'
<1> DEFINE w == request[r]
           new == [who |-> w.who, role |-> w.offer[1], scope |-> w.offer[2], active |-> TRUE]
<1>1. /\ w.op = "assign" /\ w.who \in Users /\ w.offer \in Offers
      /\ Finish(r) /\ UNCHANGED <<delegations, members, enabled, now>>
  BY DEF FinishAppointment, IInv, ReadsHold
<1>2. signedIn' \subseteq signedIn
  BY DEF FinishAppointment
<1>3. roles' \in Seq(RoleRow) /\ OneActive(roles') /\ RowsKept
  <2>1. CASE Matching(w.who, w.offer) \subseteq w.prior
    <3>1. roles' = Append(Ended(w.prior), new)
      BY <2>1 DEF FinishAppointment
    <3>2. /\ roles' \in Seq(RoleRow) /\ OneActive(roles')
          /\ DOMAIN roles' = DOMAIN roles \cup {Len(roles) + 1}
          /\ \A i \in DOMAIN roles : roles'[i] = Ended(w.prior)[i]
      BY <1>1, <2>1, <3>1, AppointedRows DEF IInv
    <3>3. \A i \in DOMAIN roles : /\ Ended(w.prior)[i].who = roles[i].who
                                  /\ Ended(w.prior)[i].role = roles[i].role
                                  /\ Ended(w.prior)[i].scope = roles[i].scope
      BY EndedRows DEF IInv
    <3> QED
      BY <3>2, <3>3 DEF RowsKept
  <2>2. CASE ~(Matching(w.who, w.offer) \subseteq w.prior)
    <3>1. roles' = roles
      BY <2>2 DEF FinishAppointment
    <3>2. roles \in Seq(RoleRow) /\ OneActive(roles)
      BY DEF IInv, TypeOK, RoleRow, OneActive
    <3> QED
      BY <3>1, <3>2, UntouchedRows
  <2> QED
    BY <2>1, <2>2
<1>4. ReadsHold'
  BY <1>1, <1>3, ReadsKept DEF IInv
<1>5. TypeOK'
  BY <1>1, <1>2, <1>3 DEF IInv, TypeOK, RoleRow, OneActive
<1> QED
  BY <1>1, <1>4, <1>5 DEF IInv, LentIsLendable

LEMMA FinishRoleEndInv ==
  ASSUME IInv, NEW r \in Requests, FinishRoleEnd(r)
  PROVE  IInv'
<1>1. /\ roles' = Ended({request[r].row}) /\ signedIn' \subseteq signedIn
      /\ Finish(r) /\ UNCHANGED <<delegations, members, enabled, now>>
  BY DEF FinishRoleEnd
<1>2. roles' \in Seq(RoleRow) /\ OneActive(roles') /\ RowsKept
  BY <1>1, EndedRows DEF IInv, RowsKept
<1>3. ReadsHold'
  BY <1>1, <1>2, ReadsKept DEF IInv
<1>4. TypeOK'
  BY <1>1, <1>2 DEF IInv, TypeOK, RoleRow, OneActive
<1> QED
  BY <1>1, <1>3, <1>4 DEF IInv, LentIsLendable

LEMMA FinishDelegationInv ==
  ASSUME IInv, NEW r \in Requests, FinishDelegation(r)
  PROVE  IInv'
<1> DEFINE d == request[r].row
<1>1. /\ delegations' = Append(delegations, d) /\ signedIn' \subseteq signedIn
      /\ Finish(r) /\ UNCHANGED <<roles, members, enabled, now>>
  BY DEF FinishDelegation
<1>2. d \in Loan /\ Lendable(d)
  BY DEF FinishDelegation, IInv, ReadsHold
<1>3. delegations \in Seq(Loan)
  BY DEF IInv, TypeOK, Loan
<1>4. /\ delegations' \in Seq(Loan) /\ DOMAIN delegations' = DOMAIN delegations \cup {Len(delegations) + 1}
      /\ delegations'[Len(delegations) + 1] = d
      /\ \A i \in DOMAIN delegations : delegations'[i] = delegations[i]
  <2> HIDE DEF d
  <2> QED
    BY <1>1, <1>2, <1>3
<1>5. LentIsLendable'
  BY <1>2, <1>4 DEF IInv, LentIsLendable, Lendable
<1>6. ReadsHold'
  BY <1>1, UntouchedRows, ReadsKept DEF IInv
<1>7. TypeOK'
  BY <1>1, <1>4 DEF IInv, TypeOK, Loan
<1> QED
  BY <1>5, <1>6, <1>7 DEF IInv

LEMMA RevokeDelegationInv ==
  ASSUME IInv, NEW actor \in Users, NEW i \in DOMAIN delegations, RevokeDelegation(actor, i)
  PROVE  IInv'
<1>1. /\ delegations' = [delegations EXCEPT ![i].revoked = TRUE] /\ signedIn' \subseteq signedIn
      /\ UNCHANGED <<roles, members, enabled, now, request>>
  BY DEF RevokeDelegation
<1>2. delegations \in Seq(Loan)
  BY DEF IInv, TypeOK, Loan
<1>3. delegations[i] \in Loan
  BY <1>2
<1> DEFINE d == [delegations[i] EXCEPT !.revoked = TRUE]
<1>4. d \in Loan /\ d.caps = delegations[i].caps
  BY <1>3 DEF Loan
<1>5. delegations' = [delegations EXCEPT ![i] = d]
  BY <1>1
<1> HIDE DEF d
<1>6. delegations' \in Seq(Loan)
  BY <1>2, <1>4, <1>5, ExceptSeq
<1>7. \A j \in DOMAIN delegations' : j \in DOMAIN delegations /\ delegations'[j].caps = delegations[j].caps
  BY <1>2, <1>4, <1>5
<1>8. LentIsLendable'
  BY <1>7 DEF IInv, LentIsLendable, Lendable
<1>9. ReadsHold'
  BY <1>1, UntouchedRows, ReadsKept DEF IInv
<1>10. TypeOK'
  BY <1>1, <1>6 DEF IInv, TypeOK, Loan
<1> QED
  BY <1>8, <1>9, <1>10 DEF IInv

\* What the actions that only read and start keep.
LEMMA StartsInv ==
  ASSUME IInv, NEW r \in Requests, NEW actor \in Users,
         \/ \E u \in Users, o \in Offers : StartAppointment(r, actor, u, o)
         \/ \E i \in DOMAIN roles : StartRoleEnd(r, actor, i)
         \/ \E u \in Users, l \in Loans, start \in 0 .. MaxTime, end \in 1 .. MaxTime + 1 :
              StartDelegation(r, actor, u, l, start, end)
  PROVE  IInv'
<1>1. UNCHANGED <<roles, delegations, members, enabled, signedIn, now>>
  BY DEF StartAppointment, StartRoleEnd, StartDelegation
<1>2. ReadsHold'
  <2>1. ASSUME NEW u \in Users, NEW o \in Offers, StartAppointment(r, actor, u, o) PROVE ReadsHold'
    <3> DEFINE w == [op |-> "assign", who |-> u, offer |-> o, prior |-> Matching(u, o)]
    <3>1. /\ Start(r, w) /\ w.op = "assign" /\ w.who = u /\ w.offer = o /\ w.prior = Matching(u, o)
      BY <2>1 DEF StartAppointment
    <3>2. \A i \in w.prior : IsGrant(i, w.who, w.offer)
      BY <3>1 DEF Matching, IsGrant
    <3> HIDE DEF w
    <3> QED
      BY <1>1, <3>1, <3>2, StartReads DEF IInv
  <2>2. ASSUME NEW i \in DOMAIN roles, StartRoleEnd(r, actor, i) PROVE ReadsHold'
    <3> DEFINE w == [op |-> "end", row |-> i]
    <3>1. Start(r, w) /\ w.op = "end"
      BY <2>2 DEF StartRoleEnd
    <3> HIDE DEF w
    <3> QED
      BY <1>1, <3>1, StartReads DEF IInv
  <2>3. ASSUME NEW u \in Users, NEW l \in Loans, NEW start \in 0 .. MaxTime,
               NEW end \in 1 .. MaxTime + 1, StartDelegation(r, actor, u, l, start, end)
        PROVE  ReadsHold'
    <3> DEFINE d == [from |-> actor, to |-> u, caps |-> l[1], scope |-> l[2],
                     start |-> start, end |-> end, revoked |-> FALSE]
               w == [op |-> "delegate", row |-> d]
    <3>1. Start(r, w) /\ w.op = "delegate" /\ w.row = d
      BY <2>3 DEF StartDelegation
    <3>2. l[1] \in SUBSET ALL_CAPABILITIES /\ l[1] \cap NON_DELEGABLE = {} /\ l[2] \in Scopes
      BY <2>3, RequestAssumption DEF StartDelegation
    <3>3. start \in Nat /\ end \in Nat
      BY AuthorityAssumption
    <3>4. d \in Loan /\ Lendable(d)
      BY <3>2, <3>3 DEF Loan, Lendable
    <3> HIDE DEF w, d
    <3> QED
      BY <1>1, <3>1, <3>4, StartReads DEF IInv
  <2> QED
    BY <2>1, <2>2, <2>3
<1>3. TypeOK'
  BY <1>1 DEF IInv, TypeOK
<1> QED
  BY <1>1, <1>2, <1>3 DEF IInv, LentIsLendable

LEMMA InitInv == Init => IInv
<1> SUFFICES ASSUME Init PROVE IInv
  OBVIOUS
<1> DEFINE first == [who |-> Founder, role |-> "super_admin", scope |-> At("installation", None),
                     active |-> TRUE]
<1>1. first \in RoleRow
  BY AuthorityAssumption, RoleNames DEF RoleRow, Scopes
<1>2. roles = <<first>> /\ delegations = <<>>
  BY DEF Init
<1> HIDE DEF first
<1>3. roles \in Seq(RoleRow) /\ DOMAIN roles = {1} /\ delegations \in Seq(Loan) /\ DOMAIN delegations = {}
  BY <1>1, <1>2
<1>4. TypeOK
  BY <1>3, AuthorityAssumption DEF Init, TypeOK, RoleRow, Loan
<1>5. ReadsHold
  BY DEF Init, ReadsHold, Idle
<1> QED
  BY <1>3, <1>4, <1>5 DEF IInv, LentIsLendable

LEMMA NextInv == IInv /\ [Next]_vars => IInv'
<1> SUFFICES ASSUME IInv, [Next]_vars PROVE IInv'
  OBVIOUS
<1>1. CASE Grant
  BY <1>1, StartsInv, FinishAppointmentInv, FinishRoleEndInv DEF Grant
<1>2. CASE Lend
  BY <1>2, StartsInv, FinishDelegationInv, RevokeDelegationInv DEF Lend
<1>3. ASSUME UNCHANGED <<roles, delegations, request>>,
             members' \subseteq Teams \X Users, enabled' \in [Users -> BOOLEAN],
             signedIn' \subseteq Users, now' \in 0 .. MaxTime
      PROVE  IInv'
  <2>1. ReadsHold'
    BY <1>3, UntouchedRows, ReadsKept DEF IInv
  <2>2. TypeOK'
    BY <1>3 DEF IInv, TypeOK
  <2> QED
    BY <1>3, <2>1, <2>2 DEF IInv, LentIsLendable
<1>4. CASE Administer
  <2>1. /\ members \subseteq Teams \X Users /\ enabled \in [Users -> BOOLEAN]
        /\ signedIn \subseteq Users /\ now \in 0 .. MaxTime
    BY DEF IInv, TypeOK
  <2>2. ASSUME NEW actor \in Users, NEW u \in Users, Disable(actor, u) \/ Reactivate(actor, u)
        PROVE  IInv'
    BY <1>3, <2>1, <2>2 DEF Disable, Reactivate
  <2>3. ASSUME NEW actor \in Users, NEW u \in Users, NEW t \in Teams,
               AddMember(actor, t, u) \/ EndMember(actor, t, u)
        PROVE  IInv'
    BY <1>3, <2>1, <2>3 DEF AddMember, EndMember
  <2> QED
    BY <1>4, <2>2, <2>3 DEF Administer
<1>5. CASE Tick
  BY <1>3, <1>5, AuthorityAssumption DEF IInv, TypeOK, Tick
<1>6. CASE \E u \in Users : SignIn(u)
  BY <1>3, <1>6 DEF IInv, TypeOK, SignIn
<1>7. CASE UNCHANGED vars
  BY <1>3, <1>7 DEF IInv, TypeOK, vars
<1> QED
  BY <1>1, <1>2, <1>4, <1>5, <1>6, <1>7 DEF Next

LEMMA Invariance == Spec => []IInv
BY InitInv, NextInv, PTL DEF Spec

\* Typing: rows and requests keep their form, and no two active rows grant the same role
\* there to the same user, however appointments of several requests interleave.
THEOREM Typing == Spec => []TypeOK
BY Invariance, PTL DEF IInv


-----------------------------------------------------------------------------
(* How a grant covers a scope. *)

\* Authority passes on: what covers the scope of a grant covers what that grant covers.
LEMMA CoversTransitive ==
  ASSUME NEW g, NEW d, NEW scope, Covers(g, d.scope), Covers(d, scope)
  PROVE  Covers(g, scope)
BY DEF Covers, At

\* A grant held through a delegation is backed by a role that covers the delegation's scope.
LEMMA GrantsAreBacked ==
  ASSUME TypeOK, LentIsLendable, NEW u \in Users, NEW cap, NEW g \in Grants(u, cap),
         g \notin RoleGrants(u, cap)
  PROVE  /\ g \in Range(delegations) /\ g.to = u /\ cap \in g.caps /\ cap \notin NON_DELEGABLE
         /\ ~g.revoked /\ g.start <= now /\ now < g.end
         /\ g.from \in Users /\ g.scope \in Scopes /\ g.start \in Nat /\ g.end \in Nat
         /\ \E h \in RoleGrants(g.from, cap) : Covers(h, g.scope)
<1>1. /\ g \in active_delegations(u) /\ cap \in g.caps /\ StillBacked(g, cap)
  BY DEF Grants
<1>2. g \in Range(delegations) /\ g.to = u /\ ~g.revoked /\ g.start <= now /\ now < g.end
  BY <1>1 DEF active_delegations
<1>3. PICK i \in DOMAIN delegations : g = delegations[i]
  BY <1>2 DEF Range
<1>4. delegations \in Seq(Loan)
  BY DEF TypeOK, Loan
<1>5. g \in Loan /\ Lendable(g)
  BY <1>3, <1>4 DEF LentIsLendable
<1>6. g.from \in Users /\ g.scope \in Scopes /\ cap \notin NON_DELEGABLE /\ g.start \in Nat /\ g.end \in Nat
  BY <1>1, <1>5 DEF Loan, Lendable
<1>7. \E h \in RoleGrants(g.from, cap) : Covers(h, g.scope)
  BY <1>1 DEF StillBacked, has_scope_capability_via_role
<1> QED
  BY <1>1, <1>2, <1>6, <1>7

\* The kinds of scope, told apart.
LEMMA ScopeKinds ==
  ASSUME NEW scope \in Scopes
  PROVE  /\ scope.type = "team" => scope.id \in Teams /\ scope = At("team", scope.id)
         /\ scope.type = "campaign" => scope.id \in Campaigns /\ scope = At("campaign", scope.id)
         /\ scope.type = "installation" => scope = At("installation", None)
         /\ scope.type = "organization" => scope = At("organization", None)
                                           \/ scope = At("organization", Organization)
         /\ scope.type \in {"installation", "organization", "team", "campaign"}
BY DEF Scopes, At

\* What a grant at a scope lets its holder see of the campaigns, a grant covering that
\* scope lets its holder see.
Sees(g, c) ==
  \/ g.scope.type = "installation" \/ g.scope = At("organization", None)
  \/ g.scope = At("campaign", c)
  \/ g.scope.type = "team" /\ (c.owner = g.scope \/ c.team = g.scope.id)
  \/ /\ g.scope = At("organization", Organization)
     /\ c.owner = g.scope \/ c.owner.type = "team" \/ c.team \in Teams

LEMMA VisibleBySight ==
  ASSUME NEW u, NEW cap, NEW c
  PROVE  c \in VisibleCampaigns(u, cap) <=> c \in Campaigns /\ \E g \in Grants(u, cap) : Sees(g, c)
BY DEF VisibleCampaigns, Sees

LEMMA SightTransitive ==
  ASSUME NEW g, NEW d, d.scope \in Scopes, NEW c, Covers(g, d.scope), Sees(d, c)
  PROVE  Sees(g, c)
<1>1. CASE g.scope = d.scope
  BY <1>1 DEF Sees
<1>2. CASE g.scope.type = "installation" \/ g.scope = At("organization", None)
  BY <1>2 DEF Sees
<1>3. CASE g.scope = At("organization", Organization) /\ d.scope.type = "team"
  <2>1. d.scope.id \in Teams /\ d.scope = At("team", d.scope.id)
    BY <1>3, ScopeKinds
  <2>2. c.owner = d.scope \/ c.team = d.scope.id
    BY <1>3, <2>1 DEF Sees, At
  <2>3. c.owner.type = "team" \/ c.team \in Teams
    BY <1>3, <2>1, <2>2
  <2> QED
    BY <1>3, <2>3 DEF Sees
<1> QED
  BY <1>1, <1>2, <1>3 DEF Covers

\* NoEscalation: delegations pass on only what their delegator owns by a role where it is
\* used, and never what may not be delegated.
LEMMA NoEscalationOf == TypeOK /\ LentIsLendable => NoEscalation
<1> SUFFICES ASSUME TypeOK, LentIsLendable, NEW u \in Users, NEW cap \in Asked
             PROVE
    LET Owners == {v \in Users : RoleGrants(v, cap) # {}} IN
    /\ \A scope \in Scopes :
         has_scope_capability(u, cap, scope) =>
           \/ has_scope_capability_via_role(u, cap, scope)
           \/ /\ cap \notin NON_DELEGABLE
              /\ \E d \in Range(delegations) :
                   /\ d.to = u /\ cap \in d.caps /\ ~d.revoked /\ now \in d.start .. d.end - 1
                   /\ has_scope_capability_via_role(d.from, cap, scope)
    /\ \A c \in VisibleCampaigns(u, cap) : \E v \in Owners : c \in VisibleCampaigns(v, cap)
    /\ has_capability(u, cap) => \E v \in Owners : has_capability(v, cap)
  BY DEF NoEscalation
<1> DEFINE Owners == {v \in Users : RoleGrants(v, cap) # {}}
<1>0. now \in Nat /\ \A v : RoleGrants(v, cap) \subseteq Grants(v, cap)
  BY DEF TypeOK, Grants
<1>1. ASSUME NEW scope \in Scopes, has_scope_capability(u, cap, scope),
             ~has_scope_capability_via_role(u, cap, scope)
      PROVE  /\ cap \notin NON_DELEGABLE
             /\ \E d \in Range(delegations) :
                  /\ d.to = u /\ cap \in d.caps /\ ~d.revoked /\ now \in d.start .. d.end - 1
                  /\ has_scope_capability_via_role(d.from, cap, scope)
  <2>1. PICK d \in Grants(u, cap) : Covers(d, scope)
    BY <1>1 DEF has_scope_capability
  <2>2. d \notin RoleGrants(u, cap)
    BY <1>1, <2>1 DEF has_scope_capability_via_role
  <2>3. PICK h \in RoleGrants(d.from, cap) : Covers(h, d.scope)
    BY <2>2, GrantsAreBacked
  <2>4. has_scope_capability_via_role(d.from, cap, scope)
    BY <2>1, <2>3, CoversTransitive DEF has_scope_capability_via_role
  <2>5. /\ d \in Range(delegations) /\ d.to = u /\ cap \in d.caps /\ cap \notin NON_DELEGABLE
        /\ ~d.revoked /\ d.start <= now /\ now < d.end /\ d.start \in Nat /\ d.end \in Nat
    BY <2>2, GrantsAreBacked
  <2>6. now \in d.start .. d.end - 1
    BY <1>0, <2>5
  <2> QED
    BY <2>4, <2>5, <2>6
<1>2. ASSUME NEW c \in VisibleCampaigns(u, cap)
      PROVE  \E v \in Owners : c \in VisibleCampaigns(v, cap)
  <2>1. PICK d \in Grants(u, cap) : Sees(d, c)
    BY <1>2, VisibleBySight
  <2>2. CASE d \in RoleGrants(u, cap)
    BY <1>2, <2>2
  <2>3. CASE d \notin RoleGrants(u, cap)
    <3>1. PICK h \in RoleGrants(d.from, cap) : Covers(h, d.scope)
      BY <2>3, GrantsAreBacked
    <3>2. d.from \in Users /\ d.scope \in Scopes
      BY <2>3, GrantsAreBacked
    <3>3. Sees(h, c)
      BY <2>1, <3>1, <3>2, SightTransitive
    <3>4. c \in VisibleCampaigns(d.from, cap)
      BY <1>0, <1>2, <3>1, <3>3, VisibleBySight
    <3> QED
      BY <3>1, <3>2, <3>4
  <2> QED
    BY <2>2, <2>3
<1>3. ASSUME has_capability(u, cap) PROVE \E v \in Owners : has_capability(v, cap)
  <2>1. PICK d \in Grants(u, cap) : d.scope.type \in {"installation", "organization"}
    BY <1>3 DEF has_capability
  <2>2. CASE d \in RoleGrants(u, cap)
    BY <1>3, <2>2
  <2>3. CASE d \notin RoleGrants(u, cap)
    <3>1. PICK h \in RoleGrants(d.from, cap) : Covers(h, d.scope)
      BY <2>3, GrantsAreBacked
    <3>2. d.from \in Users
      BY <2>3, GrantsAreBacked
    <3>3. h.scope.type \in {"installation", "organization"}
      BY <2>1, <3>1 DEF Covers, At
    <3> QED
      BY <1>0, <3>1, <3>2, <3>3 DEF has_capability
  <2> QED
    BY <2>2, <2>3
<1> QED
  BY <1>1, <1>2, <1>3


THEOREM Escalation == Spec => []NoEscalation
BY Invariance, NoEscalationOf, PTL DEF IInv

-----------------------------------------------------------------------------
(* The lookups for many and the lookups for one. *)

LEMMA BulkCovers ==
  ASSUME NEW u, NEW cap
  PROVE  scope_capabilities_matched(u, cap, Scopes) = {s \in Scopes : has_scope_capability(u, cap, s)}
<1> DEFINE grants == Grants(u, cap)
           resolved == IF \E g \in grants : g.scope = At("organization", Organization)
                       THEN {At("team", t) : t \in Teams} ELSE {}
<1>1. ASSUME NEW s \in Scopes, NEW g \in grants
      PROVE  (\/ g.scope.type = "installation" \/ g.scope = At("organization", None)
              \/ g.scope = At("organization", Organization) /\ s \in resolved
              \/ g.scope = s) <=> Covers(g, s)
  <2>1. CASE g.scope = At("organization", Organization)
    <3>1. s \in resolved <=> s.type = "team"
      <4>1. resolved = {At("team", t) : t \in Teams}
        BY <2>1
      <4>2. \A t \in Teams : At("team", t).type = "team"
        BY DEF At
      <4> HIDE DEF resolved
      <4> QED
        BY <4>1, <4>2, ScopeKinds
    <3> QED
      BY <2>1, <3>1 DEF Covers
  <2>2. CASE g.scope # At("organization", Organization)
    BY <2>2 DEF Covers
  <2> QED
    BY <2>1, <2>2
<1>2. scope_capabilities_matched(u, cap, Scopes) =
        {s \in Scopes : \E g \in grants :
           \/ g.scope.type = "installation" \/ g.scope = At("organization", None)
           \/ g.scope = At("organization", Organization) /\ s \in resolved
           \/ g.scope = s}
  BY DEF scope_capabilities_matched
<1>3. \A s \in Scopes : has_scope_capability(u, cap, s) <=> \E g \in grants : Covers(g, s)
  BY DEF has_scope_capability
<1> HIDE DEF grants, resolved
<1> QED
  BY <1>1, <1>2, <1>3

LEMMA AnyCapability ==
  ASSUME NEW u, NEW cap
  PROVE  u \in users_with_any_capability({cap}) <=> has_assigned_capability(u, cap)
<1> DEFINE byRole == {g.who : g \in {h \in Range(roles) : h.active /\ ROLE_CAPABILITIES[h.role] \cap {cap} # {}}}
           byLoan == {d.to : d \in {e \in Range(delegations) :
                        /\ ~e.revoked /\ e.start <= now /\ now < e.end
                        /\ \E c \in e.caps \cap {cap} : StillBacked(e, c)}}
<1>1. u \in byRole <=> RoleGrants(u, cap) # {}
  BY DEF RoleGrants, effective_role_assignments
<1>2. u \in byLoan <=> {d \in active_delegations(u) : cap \in d.caps /\ StillBacked(d, cap)} # {}
  BY DEF active_delegations
<1>3. users_with_any_capability({cap}) = byRole \cup byLoan
  BY DEF users_with_any_capability
<1> HIDE DEF byRole, byLoan
<1> QED
  BY <1>1, <1>2, <1>3 DEF has_assigned_capability, Grants

LEMMA DirectoryOfOne ==
  ASSUME NEW u
  PROVE  Directory(u) = {v \in Users : user_in_admin_scope(u, v)}
BY DEF Directory, user_in_admin_scope, list_visible_users, MembersOf

\* LookupsAgree: scope_capabilities_matched, users_with_any_capability and the directory
\* list answer for many what has_scope_capability and user_in_admin_scope answer for one.
THEOREM Lookups == Spec => []LookupsAgree
<1>1. LookupsAgree
  BY BulkCovers, AnyCapability, DirectoryOfOne DEF LookupsAgree
<1> QED
  BY <1>1, PTL

\* Whoever reads the audit trail by a role either resets credentials or appoints.
LEMMA Auditors ==
  ASSUME NEW r \in DOMAIN ROLE_CAPABILITIES, "view_audit" \in ROLE_CAPABILITIES[r]
  PROVE  \/ "reset_user_auth" \in ROLE_CAPABILITIES[r]
         \/ \E cap \in Appointing : cap \in ROLE_CAPABILITIES[r]
<1>1. {"create_agent"} \subseteq Appointing
  BY DEF Appointing, ROLE_APPOINTMENT_CAPABILITY
<1>2. CASE r = "super_admin"
  BY <1>2 DEF ROLE_CAPABILITIES
<1>3. CASE r \in {"manager", "team_leader", "team_captain"}
  BY <1>1, <1>3 DEF ROLE_CAPABILITIES
<1>4. CASE r \in {"agent", "viewer"}
  BY <1>4 DEF ROLE_CAPABILITIES
<1> QED
  BY <1>2, <1>3, <1>4, RoleNames

LEMMA AuditedAreListedOf == TypeOK => AuditedAreListed
<1> SUFFICES ASSUME TypeOK, NEW u \in Users, NEW v \in Audited(u) \ {u}
             PROVE  MayOpenDirectory(u) /\ v \in Directory(u)
  BY DEF AuditedAreListed
<1> DEFINE wide == {At("installation", None), At("organization", None)}
           scopes == {g.scope : g \in RoleGrants(u, "view_audit")}
           teams == {t \in Teams : At("team", t) \in scopes}
<1>1. v \in Users /\ \E g \in RoleGrants(u, "view_audit") :
                        g.scope \in wide \/ \E t \in Teams : g.scope = At("team", t) /\ <<t, v>> \in members
  <2>1. CASE scopes \cap wide # {}
    BY <2>1 DEF Audited
  <2>2. CASE scopes \cap wide = {}
    <3>1. v \in MembersOf(teams)
      BY <2>2 DEF Audited
    <3> QED
      BY <3>1 DEF MembersOf
  <2> QED
    BY <2>1, <2>2
<1>2. PICK g \in RoleGrants(u, "view_audit") :
        g.scope \in wide \/ \E t \in Teams : g.scope = At("team", t) /\ <<t, v>> \in members
  BY <1>1
<1>3. g \in effective_role_assignments(u) /\ g.role \in DOMAIN ROLE_CAPABILITIES
      /\ "view_audit" \in ROLE_CAPABILITIES[g.role]
  BY <1>2, RangeType DEF RoleGrants, effective_role_assignments, TypeOK
<1>4. CASE "reset_user_auth" \in ROLE_CAPABILITIES[g.role]
  <2>1. has_assigned_capability(u, "reset_user_auth")
    BY <1>3, <1>4 DEF has_assigned_capability, Grants, RoleGrants
  <2> QED
    BY <1>1, <2>1 DEF MayOpenDirectory, Directory
<1>5. ASSUME NEW cap \in Appointing, cap \in ROLE_CAPABILITIES[g.role]
      PROVE  MayOpenDirectory(u) /\ v \in Directory(u)
  <2>1. g \in RoleGrants(u, cap)
    BY <1>3, <1>5 DEF RoleGrants
  <2>2. MayOpenDirectory(u)
    BY <2>1 DEF MayOpenDirectory, has_assigned_capability, Grants
  <2>3. CASE SeesEveryone(u)
    BY <1>1, <2>2, <2>3 DEF Directory, list_visible_users
  <2>4. CASE ~SeesEveryone(u)
    <3> DEFINE seen == {h.scope : h \in UNION {RoleGrants(u, c) : c \in Appointing}}
    <3>1. seen \cap wide = {}
      BY <2>4 DEF SeesEveryone
    <3>2. g.scope \in seen
      BY <2>1
    <3>3. PICK t \in Teams : g.scope = At("team", t) /\ <<t, v>> \in members
      BY <1>2, <3>1, <3>2
    <3>4. t \in VisibleTeams(u)
      BY <3>1, <3>2, <3>3 DEF VisibleTeams
    <3>5. v \in list_visible_users(u)
      BY <1>1, <2>4, <3>3, <3>4 DEF list_visible_users, MembersOf
    <3> QED
      BY <1>1, <2>2, <3>5 DEF Directory
  <2> QED
    BY <2>3, <2>4
<1> QED
  BY <1>3, <1>4, <1>5, Auditors

\* AuditedAreListed: audit_visibility shows nobody's events to a user who would not find
\* that person in the directory.
THEOREM AuditTrail == Spec => []AuditedAreListed
BY Invariance, AuditedAreListedOf, PTL DEF IInv

-----------------------------------------------------------------------------
(* Sessions. *)

\* What a step takes from nobody but those it signs out.
StaysSignedInWith ==
  \A u \in signedIn \cap signedIn' : \A cap \in Asked, scope \in Scopes :
    has_scope_capability(u, cap, scope) => has_scope_capability(u, cap, scope)'

\* Grants of roles that a step keeps carry the delegations they back.
LEMMA GrantsKept ==
  ASSUME TypeOK, UNCHANGED now, NEW u, NEW cap,
         RoleGrants(u, cap) \subseteq RoleGrants(u, cap)',
         active_delegations(u) \subseteq active_delegations(u)',
         \A d \in active_delegations(u) : RoleGrants(d.from, cap) \subseteq (RoleGrants(d.from, cap))'
  PROVE  \A scope : has_scope_capability(u, cap, scope) => has_scope_capability(u, cap, scope)'
<1>1. ASSUME NEW d \in active_delegations(u), StillBacked(d, cap) PROVE StillBacked(d, cap)'
  BY <1>1 DEF StillBacked, has_scope_capability_via_role, Covers
<1>2. Grants(u, cap) \subseteq Grants(u, cap)'
  BY <1>1 DEF Grants
<1> QED
  BY <1>2 DEF has_scope_capability, Covers

LEMMA RolesAndLoansKept ==
  ASSUME TypeOK, UNCHANGED now, \A u, cap : RoleGrants(u, cap) \subseteq RoleGrants(u, cap)',
         \A u \in signedIn \cap signedIn' : active_delegations(u) \subseteq active_delegations(u)'
  PROVE  StaysSignedInWith
BY GrantsKept DEF StaysSignedInWith

LEMMA SessionStep == IInv /\ [Next]_vars => (now' = now => StaysSignedInWith)
<1> SUFFICES ASSUME IInv, [Next]_vars, now' = now PROVE StaysSignedInWith
  OBVIOUS
<1>0. TypeOK /\ roles \in Seq(RoleRow) /\ delegations \in Seq(Loan)
  BY DEF IInv, TypeOK, RoleRow, Loan
<1>1. ASSUME UNCHANGED <<roles, delegations>> PROVE StaysSignedInWith
  BY <1>0, <1>1, RolesAndLoansKept
     DEF RoleGrants, effective_role_assignments, active_delegations
<1>2. ASSUME NEW r \in Requests, FinishAppointment(r) PROVE StaysSignedInWith
  <2> DEFINE w == request[r]
             new == [who |-> w.who, role |-> w.offer[1], scope |-> w.offer[2], active |-> TRUE]
  <2>1. w.op = "assign" /\ w.who \in Users /\ w.offer \in Offers
        /\ \A i \in w.prior : IsGrant(i, w.who, w.offer)
    BY <1>2 DEF FinishAppointment, IInv, ReadsHold
  <2>2. CASE ~(Matching(w.who, w.offer) \subseteq w.prior)
    BY <1>1, <1>2, <2>2 DEF FinishAppointment
  <2>3. CASE Matching(w.who, w.offer) \subseteq w.prior
    <3>1. roles' = Append(Ended(w.prior), new) /\ UNCHANGED delegations
      BY <1>2, <2>3 DEF FinishAppointment
    <3>2. /\ DOMAIN roles' = DOMAIN roles \cup {Len(roles) + 1} /\ roles'[Len(roles) + 1] = new
          /\ \A i \in DOMAIN roles : roles'[i] = Ended(w.prior)[i]
      <4> DEFINE E == Ended(w.prior)
      <4>1. E \in Seq(RoleRow) /\ DOMAIN E = DOMAIN roles /\ Len(E) = Len(roles)
        BY <1>0, EndedRows
      <4>2. roles' = Append(E, new)
        BY <3>1
      <4> HIDE DEF new, w, E
      <4>3. /\ DOMAIN roles' = DOMAIN roles \cup {Len(roles) + 1} /\ roles'[Len(roles) + 1] = new
            /\ \A i \in DOMAIN roles : roles'[i] = E[i]
        BY <1>0, <4>1, <4>2
      <4> QED
        BY <4>3 DEF E
    <3>3. \A i \in DOMAIN roles : i \notin w.prior => Ended(w.prior)[i] = roles[i]
      BY <1>0, EndedRows
    <3>4. \A i \in DOMAIN roles : i \in w.prior /\ roles[i].active => roles[i] = new
      <4> TAKE i \in DOMAIN roles
      <4>1. roles[i] \in RoleRow
        BY <1>0
      <4> QED
        BY <2>1, <4>1 DEF IsGrant, RoleRow
    <3>5. ASSUME NEW i \in DOMAIN roles, roles[i].active PROVE roles[i] \in Range(roles')
      <4> HIDE DEF new, w
      <4>1. CASE i \in w.prior
        BY <3>2, <3>4, <3>5, <4>1 DEF Range
      <4>2. CASE i \notin w.prior
        BY <3>2, <3>3, <4>2 DEF Range
      <4> QED
        BY <4>1, <4>2
    <3>6. \A u, cap : RoleGrants(u, cap) \subseteq RoleGrants(u, cap)'
      BY <3>5 DEF RoleGrants, effective_role_assignments, Range
    <3> QED
      BY <1>0, <3>1, <3>6, RolesAndLoansKept DEF active_delegations
  <2> QED
    BY <2>2, <2>3
<1>3. ASSUME NEW r \in Requests, FinishRoleEnd(r) PROVE StaysSignedInWith
  <2> DEFINE n == request[r].row
  <2>1. /\ roles' = Ended({n}) /\ UNCHANGED delegations
        /\ signedIn' = signedIn \ ({roles[n].who} \cup Delegates(roles[n].who))
    BY <1>3 DEF FinishRoleEnd
  <2>2. /\ DOMAIN roles' = DOMAIN roles
        /\ \A i \in DOMAIN roles : i # n => roles'[i] = roles[i]
    BY <1>0, <2>1, EndedRows
  <2> HIDE DEF n
  <2>3. ASSUME NEW u, u # roles[n].who, NEW cap PROVE RoleGrants(u, cap) \subseteq RoleGrants(u, cap)'
    BY <2>2, <2>3 DEF RoleGrants, effective_role_assignments, Range
  <2>4. ASSUME NEW u \in signedIn \cap signedIn', NEW cap, NEW scope, has_scope_capability(u, cap, scope)
        PROVE  has_scope_capability(u, cap, scope)'
    <3>1. u # roles[n].who /\ u \in Users /\ u \notin Delegates(roles[n].who)
      BY <1>0, <2>1 DEF TypeOK
    <3>2. \A d \in active_delegations(u) : d.from # roles[n].who
      BY <3>1 DEF Delegates
    <3>3. active_delegations(u) \subseteq active_delegations(u)'
      BY <2>1 DEF active_delegations
    <3> QED
      BY <1>0, <2>3, <2>4, <3>1, <3>2, <3>3, GrantsKept
  <2> QED
    BY <2>4 DEF StaysSignedInWith
<1>4. ASSUME NEW r \in Requests, FinishDelegation(r) PROVE StaysSignedInWith
  <2> DEFINE d == request[r].row
  <2>1. delegations' = Append(delegations, d) /\ UNCHANGED roles /\ d \in Loan
    BY <1>4 DEF FinishDelegation, IInv, ReadsHold
  <2> HIDE DEF d
  <2>2. /\ DOMAIN delegations \subseteq DOMAIN delegations'
        /\ \A i \in DOMAIN delegations : delegations'[i] = delegations[i]
    BY <1>0, <2>1
  <2>3. \A u : active_delegations(u) \subseteq active_delegations(u)'
    BY <2>2 DEF active_delegations, Range
  <2> QED
    BY <1>0, <2>1, <2>3, RolesAndLoansKept DEF RoleGrants, effective_role_assignments
<1>5. ASSUME NEW actor \in Users, NEW i \in DOMAIN delegations, RevokeDelegation(actor, i)
      PROVE  StaysSignedInWith
  <2>1. /\ delegations' = [delegations EXCEPT ![i].revoked = TRUE] /\ UNCHANGED roles
        /\ signedIn' = signedIn \ {delegations[i].to}
    BY <1>5 DEF RevokeDelegation
  <2>2. /\ DOMAIN delegations' = DOMAIN delegations
        /\ \A j \in DOMAIN delegations : j # i => delegations'[j] = delegations[j]
    BY <1>0, <2>1
  <2>3. ASSUME NEW u \in signedIn \cap signedIn' PROVE active_delegations(u) \subseteq active_delegations(u)'
    BY <2>1, <2>2 DEF active_delegations, Range
  <2> QED
    BY <1>0, <2>1, <2>3, RolesAndLoansKept DEF RoleGrants, effective_role_assignments
<1>6. CASE Grant
  BY <1>1, <1>2, <1>3, <1>6 DEF Grant, StartAppointment, StartRoleEnd
<1>7. CASE Lend
  BY <1>1, <1>4, <1>5, <1>7 DEF Lend, StartDelegation
<1>8. CASE Administer
  BY <1>1, <1>8 DEF Administer, Disable, Reactivate, AddMember, EndMember
<1>9. CASE Tick \/ \E u \in Users : SignIn(u)
  BY <1>1, <1>9 DEF Tick, SignIn
<1>10. CASE UNCHANGED vars
  BY <1>1, <1>10 DEF vars
<1> QED
  BY <1>6, <1>7, <1>8, <1>9, <1>10 DEF Next

\* LosingAuthorityEndsSessions: assign_role, end_role_assignment, create_delegation and
\* revoke_delegation end the session of everyone, delegates included, from whom they take.
THEOREM Sessions == Spec => LosingAuthorityEndsSessions
<1>1. (now' = now => StaysSignedInWith) =>
        (now' = now =>
           \A u \in signedIn \cap signedIn' : \A cap \in Asked, scope \in Scopes :
             has_scope_capability(u, cap, scope) => has_scope_capability(u, cap, scope)')
  BY DEF StaysSignedInWith
<1> QED
  BY <1>1, Invariance, SessionStep, PTL DEF Spec, LosingAuthorityEndsSessions

=============================================================================

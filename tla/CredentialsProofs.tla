------------------------- MODULE CredentialsProofs -------------------------
(***************************************************************************)
(* Activation codes, passwords and sessions, for any number of accounts,   *)
(* requests, codes and sessions.                                           *)
(*                                                                         *)
(* A request edits a copy that may be stale; what keeps the codes right is *)
(* that every request which changes them holds the users row and has read  *)
(* behind that lock which codes are outstanding (ReadBehindLock).  So the  *)
(* newest code is the only one not used up (OnlyNewest), and whoever has   *)
(* no password has it (SomeCodeLeft).  A flush writes the edited columns   *)
(* only: the columns a request does not mean to change are the stored      *)
(* ones, however old the copy (FlushAccount, FlushSession).                *)
(***************************************************************************)
EXTENDS Credentials, FiniteSetTheorems, SequenceTheorems, TLAPS

SessionOps == {"reauthenticate", "begin_totp", "complete_totp"}

\* A request that works in a session has a copy of a session that exists.
SessionsLoaded ==
  \A r \in Requests : request[r] # Idle /\ request[r].op \in SessionOps =>
    request[r].session \in DOMAIN sessions /\ request[r].copy \in Session

TInv == TypeOK /\ SessionsLoaded

-----------------------------------------------------------------------------
(* Rows. *)

\* A flush writes the columns whose value the request has changed in its copy.
LEMMA FlushAccount ==
  ASSUME NEW stored \in Accounts, NEW loaded \in Accounts, NEW changed \in Accounts
  PROVE  /\ Flush(stored, loaded, changed) \in Accounts
         /\ \A c \in {"password", "secret", "enrolled", "active"} :
              Flush(stored, loaded, changed)[c]
                = IF changed[c] # loaded[c] THEN changed[c] ELSE stored[c]
  BY DEF Flush, Accounts

LEMMA FlushSession ==
  ASSUME NEW stored \in Session, NEW loaded \in Session, NEW changed \in Session
  PROVE  /\ Flush(stored, loaded, changed) \in Session
         /\ \A c \in {"user", "password", "satisfied", "fresh", "live"} :
              Flush(stored, loaded, changed)[c]
                = IF changed[c] # loaded[c] THEN changed[c] ELSE stored[c]
  BY DEF Flush, Session

LEMMA IdleIsNoWork ==
  ASSUME NEW w \in Work
  PROVE  w # Idle /\ w.phase \in {"started", "locked"} /\ w.phase # "idle"
  BY DEF Work, Idle

LEMMA InitTyped == Init => TInv
<1> SUFFICES ASSUME Init PROVE TInv
  OBVIOUS
<1>1. users \in [Users -> Accounts] /\ secrets \in [Users -> Nat]
  BY DEF Init, Accounts, Null
<1>2. codes \in [Users -> Seq({"unused", "used", "expired"})]
  <2>1. <<>> \in Seq({"unused", "used", "expired"})
    OBVIOUS
  <2>2. <<"unused">> \in Seq({"unused", "used", "expired"})
    OBVIOUS
  <2> QED
    BY <2>1, <2>2 DEF Init
<1>3. sessions \in Seq(Session)
  BY DEF Init
<1>4. lock \in [Users -> Requests \cup {Free}] /\ request \in [Requests -> {Idle} \cup Work]
  BY DEF Init
<1>5. \A r \in Requests, u \in Users :
        lock[u] = r <=> request[r].phase = "locked" /\ request[r].user = u
  BY BoundsAssumption DEF Init, Idle
<1> QED
  BY <1>1, <1>2, <1>3, <1>4, <1>5 DEF Init, TInv, TypeOK, SessionsLoaded

\* What a request may begin with.
LEMMA StartTyped ==
  ASSUME TInv, NEW r \in Requests, NEW op \in Ops, NEW u \in Users, NEW s \in Nat, NEW c \in Nat,
         s = Null \/ s \in DOMAIN sessions,
         op \in SessionOps => s # Null,
         Start(r, op, u, s, c)
  PROVE  TInv'
<1> DEFINE w == [phase |-> "started", op |-> op, user |-> u, row |-> users[u], session |-> s,
                 copy |-> IF s = Null THEN Idle ELSE sessions[s], code |-> c, prior |-> {}]
<1>1. request[r] = Idle /\ request' = [request EXCEPT ![r] = w]
      /\ UNCHANGED <<users, codes, secrets, sessions, lock>>
  BY DEF Start
<1>2. s # Null => sessions[s] \in Session
  BY DEF TInv, TypeOK
<1>3. w \in Work /\ (op \in SessionOps => w.copy \in Session) /\ w.phase = "started" /\ w.session = s /\ w.op = op
  BY <1>2 DEF TInv, TypeOK, Work
<1>4. request' \in [Requests -> {Idle} \cup Work] /\ request'[r] = w
      /\ \A q \in Requests \ {r} : request'[q] = request[q]
  BY <1>1, <1>3 DEF TInv, TypeOK
<1> HIDE DEF w
<1>5. \A q \in Requests, v \in Users :
        lock'[v] = q <=> request'[q].phase = "locked" /\ request'[q].user = v
  <2> SUFFICES ASSUME NEW q \in Requests, NEW v \in Users
               PROVE  lock'[v] = q <=> request'[q].phase = "locked" /\ request'[q].user = v
    OBVIOUS
  <2>1. CASE q = r
    BY <1>1, <1>3, <1>4, <2>1 DEF TInv, TypeOK, Idle
  <2>2. CASE q # r
    BY <1>1, <1>4, <2>2 DEF TInv, TypeOK
  <2> QED
    BY <2>1, <2>2
<1>6. TypeOK'
  BY <1>1, <1>4, <1>5 DEF TInv, TypeOK
<1>7. SessionsLoaded'
  BY <1>1, <1>3, <1>4 DEF TInv, SessionsLoaded, Null
<1> QED
  BY <1>6, <1>7 DEF TInv

\* A step that ends a request, whatever it writes.
LEMMA CommitTyped ==
  ASSUME TInv, NEW r \in Requests, request[r] # Idle, Commit(r),
         users' \in [Users -> Accounts],
         codes' \in [Users -> Seq({"unused", "used", "expired"})],
         secrets' \in [Users -> Nat],
         sessions' \in Seq(Session), DOMAIN sessions \subseteq DOMAIN sessions'
  PROVE  TInv'
<1>1. /\ request' \in [Requests -> {Idle} \cup Work] /\ request'[r] = Idle
      /\ \A q \in Requests \ {r} : request'[q] = request[q]
  BY DEF TInv, TypeOK, Commit
<1>2. /\ lock' \in [Users -> Requests \cup {Free}]
      /\ \A u \in Users : lock'[u] = IF lock[u] = r THEN Free ELSE lock[u]
  BY DEF TInv, TypeOK, Commit
<1>3. \A q \in Requests, v \in Users :
        lock'[v] = q <=> request'[q].phase = "locked" /\ request'[q].user = v
  <2> SUFFICES ASSUME NEW q \in Requests, NEW v \in Users
               PROVE  lock'[v] = q <=> request'[q].phase = "locked" /\ request'[q].user = v
    OBVIOUS
  <2>1. CASE q = r
    <3>1. request'[q].phase # "locked"
      BY <1>1, <2>1 DEF Idle
    <3>2. lock'[v] # q
      BY <1>2, <2>1, BoundsAssumption
    <3> QED
      BY <3>1, <3>2
  <2>2. CASE q # r
    <3>1. request'[q] = request[q]
      BY <1>1, <2>2
    <3>2. lock'[v] = q <=> lock[v] = q
      BY <1>2, <2>2, BoundsAssumption
    <3>3. lock[v] = q <=> request[q].phase = "locked" /\ request[q].user = v
      BY DEF TInv, TypeOK
    <3> QED
      BY <3>1, <3>2, <3>3
  <2> QED
    BY <2>1, <2>2
<1>4. TypeOK'
  BY <1>1, <1>2, <1>3 DEF TypeOK
<1>5. SessionsLoaded'
  BY <1>1 DEF TInv, SessionsLoaded
<1> QED
  BY <1>4, <1>5 DEF TInv

\* A step outside every request.
LEMMA AsideTyped ==
  ASSUME TInv, UNCHANGED <<users, secrets, lock, request>>,
         codes' \in [Users -> Seq({"unused", "used", "expired"})],
         sessions' \in Seq(Session), DOMAIN sessions \subseteq DOMAIN sessions'
  PROVE  TInv'
<1>1. TypeOK'
  BY DEF TInv, TypeOK
<1>2. SessionsLoaded'
  BY DEF TInv, SessionsLoaded
<1> QED
  BY <1>1, <1>2 DEF TInv

-----------------------------------------------------------------------------
(* What the requests write. *)

LEMMA RequestFields ==
  ASSUME TInv, NEW r \in Requests, request[r] # Idle
  PROVE  /\ request[r] \in Work
         /\ request[r].user \in Users /\ request[r].row \in Accounts /\ request[r].op \in Ops
         /\ request[r].code \in Nat /\ request[r].prior \subseteq Nat
         /\ request[r].op \in SessionOps =>
              request[r].session \in DOMAIN sessions /\ request[r].copy \in Session
  BY DEF TInv, TypeOK, SessionsLoaded, Work

\* The users row after a request has written an edited copy of it.
LEMMA WriteTyped ==
  ASSUME TInv, NEW r \in Requests, request[r] # Idle, NEW row \in Accounts, Write(r, row)
  PROVE  /\ users' \in [Users -> Accounts]
         /\ \A u \in Users \ {request[r].user} : users'[u] = users[u]
         /\ LET u == request[r].user IN
            \A c \in {"password", "secret", "enrolled", "active"} :
              users'[u][c] = IF row[c] # request[r].row[c] THEN row[c] ELSE users[u][c]
<1> DEFINE u == request[r].user
<1>1. u \in Users /\ request[r].row \in Accounts /\ users[u] \in Accounts
  BY RequestFields DEF TInv, TypeOK
<1>2. users' = [users EXCEPT ![u] = Flush(users[u], request[r].row, row)]
  BY DEF Write
<1>3. Flush(users[u], request[r].row, row) \in Accounts
      /\ \A c \in {"password", "secret", "enrolled", "active"} :
           Flush(users[u], request[r].row, row)[c]
             = IF row[c] # request[r].row[c] THEN row[c] ELSE users[u][c]
  BY <1>1, FlushAccount
<1>4. users \in [Users -> Accounts]
  BY DEF TInv, TypeOK
<1> QED
  BY <1>1, <1>2, <1>3, <1>4

LEMMA RevokedSessions ==
  ASSUME TInv, NEW u \in Users
  PROVE  /\ Revoked(u) \in Seq(Session) /\ Len(Revoked(u)) = Len(sessions)
         /\ \A s \in DOMAIN sessions :
              Revoked(u)[s].live => sessions[s].live /\ Revoked(u)[s] = sessions[s]
<1>1. sessions \in Seq(Session) /\ Len(sessions) \in Nat /\ DOMAIN sessions = 1 .. Len(sessions)
  BY DEF TInv, TypeOK
<1>2. \A s \in DOMAIN sessions : sessions[s] \in Session
  BY <1>1
<1>3. \A s \in DOMAIN sessions : [sessions[s] EXCEPT !.live = FALSE] \in Session
                                 /\ ~[sessions[s] EXCEPT !.live = FALSE].live
  BY <1>2 DEF Session
<1>4. Revoked(u) \in [1 .. Len(sessions) -> Session]
  BY <1>1, <1>2, <1>3 DEF Revoked
<1>5. Revoked(u) \in Seq(Session) /\ Len(Revoked(u)) = Len(sessions)
  BY <1>1, <1>4
<1> QED
  BY <1>1, <1>3, <1>5 DEF Revoked

\* A code joins the codes of an account at the end.
LEMMA IssuedCodes ==
  ASSUME TInv, NEW r \in Requests, request[r] # Idle
  PROVE  LET w == request[r]
             u == w.user
         IN /\ Issued(w) \in Seq({"unused", "used", "expired"})
            /\ Len(Issued(w)) = Len(codes[u]) + 1
            /\ Issued(w)[Len(codes[u]) + 1] = "unused"
            /\ \A i \in DOMAIN codes[u] :
                 Issued(w)[i] = IF i \in w.prior THEN "used" ELSE codes[u][i]
<1> DEFINE w == request[r]
           States == {"unused", "used", "expired"}
           old == codes[w.user]
           spent == [i \in DOMAIN old |-> IF i \in w.prior THEN "used" ELSE old[i]]
<1>1. old \in Seq(States) /\ Len(old) \in Nat /\ DOMAIN old = 1 .. Len(old)
  BY RequestFields DEF TInv, TypeOK
<1>2. spent \in [1 .. Len(old) -> States]
  BY <1>1
<1>3. spent \in Seq(States) /\ Len(spent) = Len(old)
  BY <1>1, <1>2
<1>4. Issued(w) = Append(spent, "unused")
  BY DEF Issued
<1> HIDE DEF States, old, w
<1>5. "unused" \in States
  BY DEF States
<1> QED
  BY <1>1, <1>3, <1>4, <1>5 DEF States, old, w

-----------------------------------------------------------------------------
(* What a step keeps: the actions that change neither codes nor passwords. *)

KeepsCodes ==
  \A u \in Users : Outstanding(u)' = Outstanding(u) /\ Len(codes'[u]) = Len(codes[u])

KeepsPasswords == \A u \in Users : users'[u].password = users[u].password

\* No session revives, and an account is enabled by a reactivation only.
UndoesNothing ==
  /\ \A s \in DOMAIN sessions : ~sessions[s].live => ~sessions'[s].live
  /\ \A u \in Users : ~users[u].active /\ users'[u].active =>
       \E r \in Requests : request[r] # Idle /\ request[r].op = "reactivate" /\ request'[r] = Idle

TakesNoLock == \A q \in Requests : request'[q] = request[q] \/ request'[q].phase # "locked"

Quiet == KeepsCodes /\ KeepsPasswords /\ UndoesNothing /\ TakesNoLock

\* A request ends.
LEMMA CommitEnds ==
  ASSUME TInv, NEW r \in Requests, Commit(r)
  PROVE  /\ TakesNoLock /\ request'[r] = Idle
         /\ \A q \in Requests \ {r} : request'[q] = request[q]
<1>1. request'[r] = Idle /\ \A q \in Requests \ {r} : request'[q] = request[q]
  BY DEF Commit, TInv, TypeOK
<1> QED
  BY <1>1 DEF TakesNoLock, Idle

\* A request begins.
LEMMA StartQuiet ==
  ASSUME TInv, NEW r \in Requests, NEW op, NEW u, NEW s, NEW c, Start(r, op, u, s, c)
  PROVE  Quiet
<1>1. UNCHANGED <<users, codes, secrets, sessions, lock>>
  BY DEF Start
<1>2. request'[r].phase = "started" /\ \A q \in Requests \ {r} : request'[q] = request[q]
  BY DEF Start, TInv, TypeOK
<1>3. KeepsCodes /\ KeepsPasswords /\ UndoesNothing
  BY <1>1 DEF KeepsCodes, KeepsPasswords, UndoesNothing, Outstanding
<1>4. TakesNoLock
  BY <1>2 DEF TakesNoLock
<1> QED
  BY <1>3, <1>4 DEF Quiet

\* Every way a request begins.
LEMMA StartsStep ==
  ASSUME TInv, NEW r \in Requests, Starts(r)
  PROVE  TInv' /\ Quiet
<1>1. CASE \E u \in Users : \/ StartLogin(r, u) \/ StartIssue(r, u) \/ StartPasswordReset(r, u)
                            \/ StartMfaReset(r, u) \/ StartDisable(r, u) \/ StartReactivation(r, u)
  <2>1. PICK u \in Users, op \in Ops \ SessionOps : Start(r, op, u, Null, Null)
    BY <1>1 DEF StartLogin, StartIssue, StartPasswordReset, StartMfaReset, StartDisable,
                StartReactivation, Ops, LockingOps, SessionOps
  <2> QED
    BY <2>1, StartTyped, StartQuiet DEF Null
<1>2. CASE \E u \in Users : \E c \in DOMAIN codes[u] : StartActivation(r, u, c)
  <2>1. PICK u \in Users : \E c \in DOMAIN codes[u] : StartActivation(r, u, c)
    BY <1>2
  <2>2. PICK c \in DOMAIN codes[u] : StartActivation(r, u, c)
    BY <2>1
  <2>3. c \in Nat
    BY DEF TInv, TypeOK
  <2>4. Start(r, "activate", u, Null, c) /\ "activate" \in Ops /\ "activate" \notin SessionOps
    BY <2>2 DEF StartActivation, Ops, LockingOps, SessionOps
  <2> QED
    BY <2>3, <2>4, StartTyped, StartQuiet DEF Null
<1>3. CASE \E s \in DOMAIN sessions : \/ StartReauthentication(r, s) \/ StartEnrollment(r, s)
                                      \/ StartVerification(r, s)
  <2>1. PICK s \in DOMAIN sessions : \/ StartReauthentication(r, s) \/ StartEnrollment(r, s)
                                      \/ StartVerification(r, s)
    BY <1>3
  <2>2. s \in Nat /\ s # Null /\ sessions[s].user \in Users
    <3>1. sessions \in Seq(Session)
      BY DEF TInv, TypeOK
    <3>2. s \in 1 .. Len(sessions) /\ sessions[s] \in Session
      BY <3>1
    <3> QED
      BY <3>2 DEF Session, Null
  <2>3. PICK op \in SessionOps : Start(r, op, sessions[s].user, s, Null)
    BY <2>1 DEF StartReauthentication, StartEnrollment, StartVerification, SessionOps
  <2> QED
    BY <2>2, <2>3, StartTyped, StartQuiet DEF Null, SessionOps, Ops, LockingOps
<1> QED
  BY <1>1, <1>2, <1>3 DEF Starts

\* A request that is let in behind its lock.
LEMMA LockStep ==
  ASSUME TInv, NEW r \in Requests, Lock(r)
  PROVE  /\ TInv' /\ KeepsCodes /\ KeepsPasswords /\ UndoesNothing
         /\ \A q \in Requests \ {r} : request'[q] = request[q]
         /\ request'[r].user = request[r].user /\ request'[r].op = request[r].op
         /\ request'[r].code = request[r].code
         /\ request'[r].prior = Outstanding(request[r].user)
         /\ Eligible(request[r])
<1> DEFINE w == request[r]
           v == [w EXCEPT !.phase = "locked", !.prior = Outstanding(w.user)]
<1>1. w.phase = "started" /\ Eligible(w) /\ lock[w.user] = Free /\ lock' = [lock EXCEPT ![w.user] = r]
      /\ request' = [request EXCEPT ![r] = v] /\ UNCHANGED <<users, codes, secrets, sessions>>
  BY DEF Lock, TakeLock
<1>2. w # Idle
  BY <1>1 DEF Idle
<1>3. w \in Work /\ w.user \in Users
  BY <1>2, RequestFields
<1>4. Outstanding(w.user) \in SUBSET Nat
  BY <1>3 DEF Outstanding, TInv, TypeOK
<1>5. /\ v \in Work /\ v.phase = "locked" /\ v.user = w.user /\ v.op = w.op /\ v.code = w.code
      /\ v.prior = Outstanding(w.user) /\ v.session = w.session /\ v.copy = w.copy
  BY <1>3, <1>4 DEF Work
<1> HIDE DEF v
<1>6. /\ request' \in [Requests -> {Idle} \cup Work] /\ request'[r] = v
      /\ \A q \in Requests \ {r} : request'[q] = request[q]
  BY <1>1, <1>5 DEF TInv, TypeOK
<1>7. \A q \in Requests, u \in Users :
        lock'[u] = q <=> request'[q].phase = "locked" /\ request'[q].user = u
  <2> SUFFICES ASSUME NEW q \in Requests, NEW u \in Users
               PROVE  lock'[u] = q <=> request'[q].phase = "locked" /\ request'[q].user = u
    OBVIOUS
  <2>1. lock[u] = q <=> request[q].phase = "locked" /\ request[q].user = u
    BY DEF TInv, TypeOK
  <2>2. lock'[u] = IF u = w.user THEN r ELSE lock[u]
    BY <1>1 DEF TInv, TypeOK
  <2>3. CASE q = r
    BY <1>1, <1>5, <1>6, <2>1, <2>2, <2>3
  <2>4. CASE q # r
    BY <1>1, <1>6, <2>1, <2>2, <2>4, BoundsAssumption
  <2> QED
    BY <2>3, <2>4
<1>8. TypeOK'
  BY <1>1, <1>6, <1>7 DEF TInv, TypeOK
<1>9. SessionsLoaded'
  BY <1>1, <1>2, <1>5, <1>6 DEF TInv, SessionsLoaded
<1>10. KeepsCodes /\ KeepsPasswords /\ UndoesNothing
  BY <1>1 DEF KeepsCodes, KeepsPasswords, UndoesNothing, Outstanding
<1> QED
  BY <1>1, <1>5, <1>6, <1>8, <1>9, <1>10 DEF TInv

\* A refused request leaves no trace.
LEMMA RefuseStep ==
  ASSUME TInv, NEW r \in Requests, Refuse(r)
  PROVE  TInv' /\ Quiet
<1>1. request[r].phase = "started" /\ request' = [request EXCEPT ![r] = Idle]
      /\ UNCHANGED <<users, codes, secrets, sessions, lock>>
  BY DEF Refuse
<1>2. request' \in [Requests -> {Idle} \cup Work] /\ request'[r] = Idle
      /\ \A q \in Requests \ {r} : request'[q] = request[q]
  BY <1>1 DEF TInv, TypeOK
<1>3. \A q \in Requests, u \in Users :
        lock'[u] = q <=> request'[q].phase = "locked" /\ request'[q].user = u
  BY <1>1, <1>2 DEF TInv, TypeOK, Idle
<1>4. TypeOK'
  BY <1>1, <1>2, <1>3 DEF TInv, TypeOK
<1>5. SessionsLoaded'
  BY <1>1, <1>2 DEF TInv, SessionsLoaded
<1>6. Quiet
  BY <1>1, <1>2 DEF Quiet, KeepsCodes, KeepsPasswords, UndoesNothing, TakesNoLock, Outstanding, Idle
<1> QED
  BY <1>4, <1>5, <1>6 DEF TInv

-----------------------------------------------------------------------------
(* The requests that finish without touching codes. *)

\* A request that writes the users row without its password, or no users row at all.
LEMMA FinishQuiet ==
  ASSUME TInv, NEW r \in Requests, request[r] # Idle, Commit(r),
         UNCHANGED codes,
         secrets' \in [Users -> Nat],
         sessions' \in Seq(Session), DOMAIN sessions \subseteq DOMAIN sessions',
         \A s \in DOMAIN sessions : ~sessions[s].live => ~sessions'[s].live,
         \/ UNCHANGED users
         \/ \E row \in Accounts :
              /\ Write(r, row)
              /\ row.password = request[r].row.password
              /\ row.active => row.active = request[r].row.active \/ request[r].op = "reactivate"
  PROVE  TInv' /\ Quiet
<1> DEFINE w == request[r]
<1>1. w \in Work /\ w.row \in Accounts
  BY RequestFields
<1>2. TakesNoLock /\ request'[r] = Idle
  BY CommitEnds
<1>3. users' \in [Users -> Accounts] /\ KeepsPasswords
      /\ \A u \in Users : ~users[u].active /\ users'[u].active => w.op = "reactivate"
  <2>1. CASE UNCHANGED users
    BY <2>1 DEF TInv, TypeOK, KeepsPasswords
  <2>2. CASE ~UNCHANGED users
    <3>1. PICK row \in Accounts : /\ Write(r, row)
                                  /\ row.password = w.row.password
                                  /\ row.active => row.active = w.row.active \/ w.op = "reactivate"
      BY <2>2
    <3>2. /\ users' \in [Users -> Accounts]
          /\ \A u \in Users \ {w.user} : users'[u] = users[u]
          /\ \A c \in {"password", "secret", "enrolled", "active"} :
               users'[w.user][c] = IF row[c] # w.row[c] THEN row[c] ELSE users[w.user][c]
      BY <3>1, WriteTyped
    <3>3. users'[w.user].password = users[w.user].password
      BY <3>1, <3>2
    <3>4. users'[w.user].active = IF row.active # w.row.active THEN row.active ELSE users[w.user].active
      BY <3>2
    <3> QED
      BY <3>1, <3>2, <3>3, <3>4 DEF KeepsPasswords
  <2> QED
    BY <2>1, <2>2
<1>4. TInv'
  BY <1>3, CommitTyped DEF TInv, TypeOK
<1>5. KeepsCodes
  BY DEF KeepsCodes, Outstanding
<1>6. UndoesNothing
  BY <1>2, <1>3 DEF UndoesNothing
<1> QED
  BY <1>2, <1>3, <1>4, <1>5, <1>6 DEF Quiet

\* A session row that joins the others at the end.
LEMMA SessionAppended ==
  ASSUME NEW rows \in Seq(Session), NEW row \in Session
  PROVE  /\ Append(rows, row) \in Seq(Session) /\ DOMAIN rows \subseteq DOMAIN Append(rows, row)
         /\ \A s \in DOMAIN rows : Append(rows, row)[s] = rows[s]
  OBVIOUS

LEMMA LoginStep ==
  ASSUME TInv, NEW r \in Requests, FinishLogin(r)
  PROVE  TInv' /\ Quiet
<1> DEFINE w == request[r]
           row == [user |-> w.user, password |-> w.row.password, satisfied |-> w.row.enrolled,
                   fresh |-> w.row.enrolled, live |-> TRUE]
<1>1. request[r] # Idle /\ sessions' = Append(sessions, row) /\ Commit(r)
      /\ UNCHANGED <<users, codes, secrets>>
  BY DEF FinishLogin, Proceeds
<1>2. row \in Session
  BY <1>1, RequestFields DEF Session, Accounts
<1>3. sessions \in Seq(Session) /\ secrets \in [Users -> Nat]
  BY DEF TInv, TypeOK
<1> HIDE DEF row
<1> QED
  BY <1>1, <1>2, <1>3, SessionAppended, FinishQuiet

\* One session row replaced by one that is live only if it was.
LEMMA SessionReplaced ==
  ASSUME TInv, NEW s \in DOMAIN sessions, NEW row \in Session, row.live => sessions[s].live,
         sessions' = [sessions EXCEPT ![s] = row]
  PROVE  /\ sessions' \in Seq(Session) /\ DOMAIN sessions' = DOMAIN sessions
         /\ \A i \in DOMAIN sessions : ~sessions[i].live => ~sessions'[i].live
  BY DEF TInv, TypeOK

LEMMA ReauthenticationStep ==
  ASSUME TInv, NEW r \in Requests, FinishReauthentication(r)
  PROVE  TInv' /\ Quiet
<1> DEFINE w == request[r]
           edited == [w.copy EXCEPT !.satisfied = w.row.enrolled]
           flushed == Flush(sessions[w.session], w.copy, edited)
           row == [flushed EXCEPT !.fresh = TRUE]
<1>1. request[r] # Idle /\ w.op = "reauthenticate"
      /\ sessions' = [sessions EXCEPT ![w.session] = row] /\ Commit(r)
      /\ UNCHANGED <<users, codes, secrets>>
  BY DEF FinishReauthentication, Proceeds
<1>2. w.session \in DOMAIN sessions /\ w.copy \in Session /\ w.row \in Accounts
  BY <1>1, RequestFields DEF SessionOps
<1>3. edited \in Session /\ edited.live = w.copy.live
  BY <1>2 DEF Session, Accounts
<1>4. sessions[w.session] \in Session
  BY <1>2 DEF TInv, TypeOK
<1> HIDE DEF edited
<1>5. flushed \in Session /\ flushed.live = sessions[w.session].live
  BY <1>2, <1>3, <1>4, FlushSession
<1> HIDE DEF flushed
<1>6. row \in Session /\ row.live = sessions[w.session].live
  BY <1>5 DEF Session
<1> HIDE DEF row
<1>7. /\ sessions' \in Seq(Session) /\ DOMAIN sessions' = DOMAIN sessions
      /\ \A i \in DOMAIN sessions : ~sessions[i].live => ~sessions'[i].live
  BY <1>1, <1>2, <1>6, SessionReplaced
<1> QED
  BY <1>1, <1>7, FinishQuiet DEF TInv, TypeOK

\* What the copy of an account still says after one of its columns is edited.
LEMMA EditedAccount ==
  ASSUME NEW row \in Accounts, NEW n \in Nat
  PROVE  /\ [row EXCEPT !.secret = n] \in Accounts
         /\ [row EXCEPT !.secret = n].password = row.password
         /\ [row EXCEPT !.secret = n].active = row.active
         /\ \A b \in BOOLEAN :
              /\ [row EXCEPT !.enrolled = b] \in Accounts
              /\ [row EXCEPT !.enrolled = b].password = row.password
              /\ [row EXCEPT !.enrolled = b].active = row.active
              /\ [row EXCEPT !.active = b] \in Accounts
              /\ [row EXCEPT !.active = b].password = row.password
              /\ [row EXCEPT !.active = b].active = b
  BY DEF Accounts

LEMMA EnrollmentStep ==
  ASSUME TInv, NEW r \in Requests, FinishEnrollment(r)
  PROVE  TInv' /\ Quiet
<1> DEFINE w == request[r]
           edited == [w.copy EXCEPT !.satisfied = FALSE]
           row == Flush(sessions[w.session], w.copy, edited)
           account == [w.row EXCEPT !.secret = secrets'[w.user]]
<1>1. /\ request[r] # Idle /\ w.op = "begin_totp"
      /\ secrets' = [secrets EXCEPT ![w.user] = @ + 1]
      /\ Write(r, account)
      /\ sessions' = [sessions EXCEPT ![w.session] = row]
      /\ Commit(r) /\ UNCHANGED codes
  BY DEF FinishEnrollment, Proceeds
<1>2. w.user \in Users /\ w.session \in DOMAIN sessions /\ w.copy \in Session /\ w.row \in Accounts
  BY <1>1, RequestFields DEF SessionOps
<1>3. secrets' \in [Users -> Nat]
  BY <1>1, <1>2 DEF TInv, TypeOK
<1>4. account \in Accounts /\ account.password = w.row.password /\ account.active = w.row.active
  BY <1>2, <1>3, EditedAccount
<1>5. edited \in Session /\ edited.live = w.copy.live
  BY <1>2 DEF Session
<1>6. sessions[w.session] \in Session
  BY <1>2 DEF TInv, TypeOK
<1> HIDE DEF edited, account
<1>7. row \in Session /\ row.live = sessions[w.session].live
  BY <1>2, <1>5, <1>6, FlushSession
<1> HIDE DEF row
<1>8. /\ sessions' \in Seq(Session) /\ DOMAIN sessions' = DOMAIN sessions
      /\ \A i \in DOMAIN sessions : ~sessions[i].live => ~sessions'[i].live
  BY <1>1, <1>2, <1>7, SessionReplaced
<1> QED
  BY <1>1, <1>3, <1>4, <1>8, FinishQuiet

\* Every session of the user ends, and one may be opened.
LEMMA SessionsRevoked ==
  ASSUME TInv, NEW u \in Users,
         \/ sessions' = Revoked(u)
         \/ \E row \in Session : sessions' = Append(Revoked(u), row)
  PROVE  /\ sessions' \in Seq(Session) /\ DOMAIN sessions \subseteq DOMAIN sessions'
         /\ \A i \in DOMAIN sessions : ~sessions[i].live => ~sessions'[i].live
<1>1. /\ Revoked(u) \in Seq(Session) /\ Len(Revoked(u)) = Len(sessions)
      /\ \A i \in DOMAIN sessions : ~sessions[i].live => ~Revoked(u)[i].live
  BY RevokedSessions
<1>2. DOMAIN Revoked(u) = DOMAIN sessions
  BY <1>1 DEF TInv, TypeOK
<1>3. CASE sessions' = Revoked(u)
  BY <1>1, <1>2, <1>3
<1>4. CASE \E row \in Session : sessions' = Append(Revoked(u), row)
  <2> DEFINE rows == Revoked(u)
  <2>1. PICK row \in Session : sessions' = Append(rows, row)
    BY <1>4
  <2> HIDE DEF rows
  <2>2. /\ sessions' \in Seq(Session) /\ DOMAIN rows \subseteq DOMAIN sessions'
        /\ \A s \in DOMAIN rows : sessions'[s] = rows[s]
    BY <1>1, <2>1, SessionAppended DEF rows
  <2> QED
    BY <1>1, <1>2, <2>2 DEF rows
<1> QED
  BY <1>3, <1>4

LEMMA VerificationStep ==
  ASSUME TInv, NEW r \in Requests, FinishVerification(r)
  PROVE  TInv' /\ Quiet
<1> DEFINE w == request[r]
           row == [user |-> w.user, password |-> sessions[w.session].password,
                   satisfied |-> TRUE, fresh |-> TRUE, live |-> TRUE]
           account == [w.row EXCEPT !.enrolled = TRUE]
<1>1. /\ request[r] # Idle /\ w.op = "complete_totp"
      /\ Write(r, account)
      /\ sessions' = Append(Revoked(w.user), row)
      /\ Commit(r) /\ UNCHANGED <<codes, secrets>>
  BY DEF FinishVerification, Proceeds
<1>2. w.user \in Users /\ w.session \in DOMAIN sessions /\ w.row \in Accounts
  BY <1>1, RequestFields DEF SessionOps
<1>3. account \in Accounts /\ account.password = w.row.password /\ account.active = w.row.active
  BY <1>2, EditedAccount
<1>4. sessions[w.session] \in Session
  BY <1>2 DEF TInv, TypeOK
<1>5. row \in Session
  BY <1>2, <1>4 DEF Session
<1> HIDE DEF row, account
<1>6. /\ sessions' \in Seq(Session) /\ DOMAIN sessions \subseteq DOMAIN sessions'
      /\ \A i \in DOMAIN sessions : ~sessions[i].live => ~sessions'[i].live
  BY <1>1, <1>2, <1>5, SessionsRevoked
<1> QED
  BY <1>1, <1>3, <1>6, FinishQuiet DEF TInv, TypeOK

LEMMA MfaResetStep ==
  ASSUME TInv, NEW r \in Requests, FinishMfaReset(r)
  PROVE  TInv' /\ Quiet
<1> DEFINE w == request[r]
           account == [w.row EXCEPT !.secret = Null, !.enrolled = FALSE]
<1>1. /\ request[r] # Idle /\ w.user \in Users /\ w.row \in Accounts
      /\ Write(r, account) /\ sessions' = Revoked(w.user)
      /\ Commit(r) /\ UNCHANGED <<codes, secrets>>
  BY RequestFields DEF FinishMfaReset, Proceeds
<1>2. account \in Accounts /\ account.password = w.row.password /\ account.active = w.row.active
  BY <1>1 DEF Accounts, Null
<1> HIDE DEF account
<1> QED
  BY <1>1, <1>2, SessionsRevoked, FinishQuiet DEF TInv, TypeOK

LEMMA DisableStep ==
  ASSUME TInv, NEW r \in Requests, FinishDisable(r)
  PROVE  TInv' /\ Quiet
<1> DEFINE w == request[r]
           account == [w.row EXCEPT !.active = FALSE]
<1>1. /\ request[r] # Idle /\ w.user \in Users /\ w.row \in Accounts
      /\ Write(r, account) /\ sessions' = Revoked(w.user)
      /\ Commit(r) /\ UNCHANGED <<codes, secrets>>
  BY RequestFields DEF FinishDisable, Proceeds
<1>2. account \in Accounts /\ account.password = w.row.password /\ ~account.active
  BY <1>1, EditedAccount
<1> HIDE DEF account
<1> QED
  BY <1>1, <1>2, SessionsRevoked, FinishQuiet DEF TInv, TypeOK

LEMMA ReactivationStep ==
  ASSUME TInv, NEW r \in Requests, FinishReactivation(r)
  PROVE  TInv' /\ Quiet
<1> DEFINE w == request[r]
           account == [w.row EXCEPT !.active = TRUE]
<1>1. /\ request[r] # Idle /\ w.op = "reactivate" /\ w.row \in Accounts
      /\ Write(r, account) /\ Commit(r) /\ UNCHANGED <<codes, secrets, sessions>>
  BY RequestFields DEF FinishReactivation, Proceeds
<1>2. account \in Accounts /\ account.password = w.row.password
  BY <1>1, EditedAccount
<1> HIDE DEF account
<1> QED
  BY <1>1, <1>2, FinishQuiet DEF TInv, TypeOK

\* Sessions ending, a step-up window passing and a code expiring.
LEMMA AsideStep ==
  ASSUME TInv, \/ \E s \in DOMAIN sessions : EndSession(s) \/ StepUpLapses(s)
               \/ \E u \in Users : \E c \in DOMAIN codes[u] : CodeExpires(u, c)
  PROVE  TInv' /\ Quiet
<1>1. CASE \E s \in DOMAIN sessions : EndSession(s) \/ StepUpLapses(s)
  <2>1. PICK s \in DOMAIN sessions : EndSession(s) \/ StepUpLapses(s)
    BY <1>1
  <2>2. sessions[s] \in Session
    BY DEF TInv, TypeOK
  <2>3. \E row \in Session : (row.live => sessions[s].live) /\ sessions' = [sessions EXCEPT ![s] = row]
    <3>1. CASE EndSession(s)
      <4>1. [sessions[s] EXCEPT !.live = FALSE] \in Session /\ ~[sessions[s] EXCEPT !.live = FALSE].live
        BY <2>2 DEF Session
      <4> QED
        BY <3>1, <4>1 DEF EndSession
    <3>2. CASE StepUpLapses(s)
      <4>1. [sessions[s] EXCEPT !.fresh = FALSE] \in Session
            /\ [sessions[s] EXCEPT !.fresh = FALSE].live = sessions[s].live
        BY <2>2 DEF Session
      <4> QED
        BY <3>2, <4>1 DEF StepUpLapses
    <3> QED
      BY <2>1, <3>1, <3>2
  <2>4. /\ sessions' \in Seq(Session) /\ DOMAIN sessions' = DOMAIN sessions
        /\ \A i \in DOMAIN sessions : ~sessions[i].live => ~sessions'[i].live
    BY <2>3, SessionReplaced
  <2>5. UNCHANGED <<users, codes, secrets, lock, request>>
    BY <2>1 DEF EndSession, StepUpLapses
  <2>6. TInv'
    BY <2>4, <2>5, AsideTyped DEF TInv, TypeOK
  <2> QED
    BY <2>4, <2>5, <2>6 DEF Quiet, KeepsCodes, KeepsPasswords, UndoesNothing, TakesNoLock, Outstanding
<1>2. CASE \E u \in Users : \E c \in DOMAIN codes[u] : CodeExpires(u, c)
  <2>1. PICK u \in Users : \E c \in DOMAIN codes[u] : CodeExpires(u, c)
    BY <1>2
  <2>2. PICK c \in DOMAIN codes[u] : CodeExpires(u, c)
    BY <2>1
  <2>3. /\ codes[u][c] = "unused" /\ codes' = [codes EXCEPT ![u] = [@ EXCEPT ![c] = "expired"]]
        /\ UNCHANGED <<users, secrets, sessions, lock, request>>
    BY <2>2 DEF CodeExpires, Usable
  <2>4. codes \in [Users -> Seq({"unused", "used", "expired"})]
    BY DEF TInv, TypeOK
  <2>5. /\ codes' \in [Users -> Seq({"unused", "used", "expired"})]
        /\ \A v \in Users : DOMAIN codes'[v] = DOMAIN codes[v] /\ Len(codes'[v]) = Len(codes[v])
    BY <2>3, <2>4
  <2>6. \A v \in Users : \A i \in DOMAIN codes[v] : codes'[v][i] # "used" <=> codes[v][i] # "used"
    BY <2>3, <2>4
  <2>7. KeepsCodes
    BY <2>5, <2>6 DEF KeepsCodes, Outstanding
  <2>8. TInv'
    BY <2>3, <2>5, AsideTyped DEF TInv, TypeOK
  <2> QED
    BY <2>3, <2>7, <2>8 DEF Quiet, KeepsPasswords, UndoesNothing, TakesNoLock
<1> QED
  BY <1>1, <1>2

-----------------------------------------------------------------------------
(* The steps that change codes or passwords: they hold the users row. *)

\* A request that holds a users row shares it with none, and knows what it read behind it.
ReadBehindLock ==
  \A r \in Requests : request[r].phase = "locked" =>
    /\ Outstanding(request[r].user) \subseteq request[r].prior
    /\ request[r].op = "activate" => request[r].code \in Outstanding(request[r].user)

\* Whatever is not used up is the newest code.
OnlyNewest == \A u \in Users : Outstanding(u) \subseteq {Len(codes[u])}

\* Without a password, one of the codes ever issued is left.
SomeCodeLeft ==
  \A u \in Users : codes[u] # <<>> /\ users[u].password = Null => Outstanding(u) # {}

IInv == TInv /\ ReadBehindLock /\ OnlyNewest /\ SomeCodeLeft

\* A password that a step sets is the newest code's, not used before.
SetByNewest ==
  \A u \in Users : users'[u].password \notin {users[u].password, Null}
    => users'[u].password \in Outstanding(u) /\ users'[u].password = Len(codes[u])

LEMMA CodesAreSequences ==
  ASSUME TInv, NEW u \in Users
  PROVE  /\ codes[u] \in Seq({"unused", "used", "expired"}) /\ Len(codes[u]) \in Nat
         /\ DOMAIN codes[u] = 1 .. Len(codes[u])
         /\ codes[u] # <<>> <=> Len(codes[u]) # 0
  BY DEF TInv, TypeOK

LEMMA QuietSafe ==
  ASSUME IInv, TInv', Quiet
  PROVE  IInv' /\ SetByNewest
<1>1. \A u \in Users : Outstanding(u)' = Outstanding(u) /\ Len(codes'[u]) = Len(codes[u])
  BY DEF Quiet, KeepsCodes
<1>2. \A u \in Users : codes'[u] # <<>> <=> codes[u] # <<>>
  BY <1>1, CodesAreSequences, IInv DEF IInv, TInv, TypeOK
<1>3. OnlyNewest'
  BY <1>1 DEF IInv, OnlyNewest
<1>4. SomeCodeLeft'
  BY <1>1, <1>2 DEF IInv, SomeCodeLeft, Quiet, KeepsPasswords
<1>5. ReadBehindLock'
  <2> SUFFICES ASSUME NEW r \in Requests, request'[r].phase = "locked"
               PROVE  (/\ Outstanding(request[r].user) \subseteq request[r].prior
                       /\ request[r].op = "activate" => request[r].code \in Outstanding(request[r].user))'
    BY DEF ReadBehindLock
  <2>1. request'[r] = request[r]
    BY DEF Quiet, TakesNoLock
  <2>2. request[r].user \in Users
    BY <2>1, IdleIsNoWork, RequestFields DEF IInv, Idle
  <2>3. Outstanding(request[r].user)' = Outstanding(request[r].user)
    BY <1>1, <2>1, <2>2 DEF Outstanding
  <2> QED
    BY <2>1, <2>3 DEF IInv, ReadBehindLock
<1> QED
  BY <1>3, <1>4, <1>5 DEF IInv, SetByNewest, Quiet, KeepsPasswords

LEMMA LockSafe ==
  ASSUME IInv, NEW r \in Requests, Lock(r)
  PROVE  IInv' /\ SetByNewest
<1>1. /\ TInv' /\ KeepsCodes /\ KeepsPasswords
      /\ \A q \in Requests \ {r} : request'[q] = request[q]
      /\ request'[r].user = request[r].user /\ request'[r].op = request[r].op
      /\ request'[r].code = request[r].code
      /\ request'[r].prior = Outstanding(request[r].user)
      /\ Eligible(request[r])
  BY LockStep DEF IInv
<1>2. \A u \in Users : Outstanding(u)' = Outstanding(u) /\ Len(codes'[u]) = Len(codes[u])
  BY <1>1 DEF KeepsCodes
<1>3. \A u \in Users : codes'[u] # <<>> <=> codes[u] # <<>>
  BY <1>1, <1>2, CodesAreSequences DEF IInv, TInv, TypeOK
<1>4. OnlyNewest' /\ SomeCodeLeft'
  BY <1>1, <1>2, <1>3 DEF IInv, OnlyNewest, SomeCodeLeft, KeepsPasswords
<1>5. ReadBehindLock'
  <2> SUFFICES ASSUME NEW q \in Requests, request'[q].phase = "locked"
               PROVE  (/\ Outstanding(request[q].user) \subseteq request[q].prior
                       /\ request[q].op = "activate" => request[q].code \in Outstanding(request[q].user))'
    BY DEF ReadBehindLock
  <2>1. request'[q].user = request[q].user /\ request'[q].user \in Users
    <3>1. request'[q].user = request[q].user
      BY <1>1
    <3>2. request'[q] \in Work
      BY <1>1 DEF TInv, TypeOK, Idle
    <3> QED
      BY <3>1, <3>2 DEF Work
  <2>2. Outstanding(request[q].user)' = Outstanding(request[q].user)
    BY <1>2, <2>1 DEF Outstanding
  <2>3. CASE q = r
    BY <1>1, <2>2, <2>3 DEF Eligible
  <2>4. CASE q # r
    BY <1>1, <2>2, <2>4 DEF IInv, ReadBehindLock
  <2> QED
    BY <2>3, <2>4
<1> QED
  BY <1>1, <1>4, <1>5 DEF IInv, SetByNewest, KeepsPasswords

\* The holder of a users row changes the codes and the password of that user alone.
LEMMA HolderSafe ==
  ASSUME IInv, TInv', NEW r \in Requests, NEW u \in Users,
         request[r].phase = "locked", request[r].user = u, Commit(r),
         \A v \in Users \ {u} : codes'[v] = codes[v] /\ users'[v].password = users[v].password,
         Outstanding(u)' \subseteq {Len(codes'[u])},
         codes'[u] # <<>> /\ users'[u].password = Null => Outstanding(u)' # {}
  PROVE  IInv'
<1>1. \A v \in Users \ {u} : Outstanding(v)' = Outstanding(v)
  BY DEF Outstanding
<1>2. OnlyNewest'
  BY <1>1 DEF IInv, OnlyNewest
<1>3. SomeCodeLeft'
  BY <1>1 DEF IInv, SomeCodeLeft
<1>4. ReadBehindLock'
  <2> SUFFICES ASSUME NEW q \in Requests, request'[q].phase = "locked"
               PROVE  (/\ Outstanding(request[q].user) \subseteq request[q].prior
                       /\ request[q].op = "activate" => request[q].code \in Outstanding(request[q].user))'
    BY DEF ReadBehindLock
  <2>1. q # r /\ request'[q] = request[q]
    BY CommitEnds DEF IInv, Idle
  <2>2. request[q].user \in Users
    BY <2>1, IdleIsNoWork, RequestFields DEF IInv, Idle
  <2>3. lock[u] = r /\ lock[request[q].user] = q
    BY <2>1, <2>2 DEF IInv, TInv, TypeOK
  <2>4. Outstanding(request[q].user)' = Outstanding(request[q].user)
    BY <2>1, <2>2, <2>3 DEF Outstanding
  <2> QED
    BY <2>1, <2>4 DEF IInv, ReadBehindLock
<1> QED
  BY <1>2, <1>3, <1>4 DEF IInv

\* After a code is issued, it is the only one outstanding.
LEMMA IssueLeavesOne ==
  ASSUME IInv, NEW r \in Requests, request[r].phase = "locked",
         codes' = [codes EXCEPT ![request[r].user] = Issued(request[r])]
  PROVE  LET u == request[r].user
         IN /\ u \in Users
            /\ codes' \in [Users -> Seq({"unused", "used", "expired"})]
            /\ Len(codes'[u]) = Len(codes[u]) + 1
            /\ {i \in DOMAIN codes'[u] : codes'[u][i] # "used"} = {Len(codes'[u])}
<1> DEFINE w == request[r]
           u == w.user
           new == Issued(w)
<1>1. w # Idle
  BY DEF Idle
<1>2. u \in Users
  BY <1>1, RequestFields DEF IInv
<1>3. /\ new \in Seq({"unused", "used", "expired"})
      /\ Len(new) = Len(codes[u]) + 1
      /\ new[Len(codes[u]) + 1] = "unused"
      /\ \A i \in DOMAIN codes[u] :
           new[i] = IF i \in w.prior THEN "used" ELSE codes[u][i]
  BY <1>1, IssuedCodes DEF IInv
<1> HIDE DEF new
<1>4. DOMAIN codes[u] = 1 .. Len(codes[u]) /\ Len(codes[u]) \in Nat
  BY <1>2, CodesAreSequences DEF IInv
<1>5. \A i \in DOMAIN codes[u] : new[i] = "used"
  <2> SUFFICES ASSUME NEW i \in DOMAIN codes[u], i \notin w.prior PROVE codes[u][i] = "used"
    BY <1>3
  <2> QED
    BY DEF IInv, ReadBehindLock, Outstanding
<1>6. DOMAIN new = 1 .. Len(codes[u]) + 1
  BY <1>3, <1>4
<1>7. {i \in DOMAIN new : new[i] # "used"} = {Len(new)}
  BY <1>3, <1>4, <1>5, <1>6
<1>8. codes'[u] = new /\ codes' \in [Users -> Seq({"unused", "used", "expired"})]
  BY <1>2, <1>3 DEF new, IInv, TInv, TypeOK
<1> QED
  BY <1>2, <1>3, <1>7, <1>8

\* issue_code by an administrator.
LEMMA IssueStep ==
  ASSUME IInv, NEW r \in Requests, FinishIssue(r)
  PROVE  IInv' /\ SetByNewest /\ UndoesNothing
<1>1. /\ request[r] # Idle /\ request[r].phase = "locked" /\ Commit(r)
      /\ codes' = [codes EXCEPT ![request[r].user] = Issued(request[r])]
      /\ UNCHANGED <<users, secrets, sessions>>
  BY DEF FinishIssue, Proceeds, LockingOps
<1>2. PICK u \in Users : u = request[r].user
  BY <1>1, RequestFields DEF IInv
<1>3. /\ codes' \in [Users -> Seq({"unused", "used", "expired"})]
      /\ Len(codes'[u]) = Len(codes[u]) + 1
      /\ Outstanding(u)' = {Len(codes'[u])}
  BY <1>1, <1>2, IssueLeavesOne DEF Outstanding
<1>4. TInv'
  BY <1>1, <1>3, CommitTyped DEF IInv, TInv, TypeOK
<1>5. \A v \in Users \ {u} : codes'[v] = codes[v] /\ users'[v].password = users[v].password
  BY <1>1, <1>2 DEF IInv, TInv, TypeOK
<1>6. IInv'
  BY <1>1, <1>2, <1>3, <1>4, <1>5, HolderSafe
<1> QED
  BY <1>1, <1>6 DEF SetByNewest, UndoesNothing

LEMMA PasswordResetStep ==
  ASSUME IInv, NEW r \in Requests, FinishPasswordReset(r)
  PROVE  IInv' /\ SetByNewest /\ UndoesNothing
<1> DEFINE w == request[r]
           account == [w.row EXCEPT !.password = Null]
<1>1. /\ w # Idle /\ w.phase = "locked" /\ Commit(r) /\ Write(r, account)
      /\ sessions' = Revoked(w.user)
      /\ codes' = [codes EXCEPT ![w.user] = Issued(w)] /\ UNCHANGED secrets
  BY DEF FinishPasswordReset, Proceeds, LockingOps, ResetCodes
<1>2. PICK u \in Users : u = w.user
  BY <1>1, RequestFields DEF IInv
<1>3. w.row \in Accounts
  BY <1>1, RequestFields DEF IInv
<1>4. account \in Accounts /\ account.password = Null /\ account.active = w.row.active
  BY <1>3 DEF Accounts, Null
<1> HIDE DEF account
<1>5. /\ users' \in [Users -> Accounts]
      /\ \A v \in Users \ {u} : users'[v] = users[v]
      /\ \A c \in {"password", "secret", "enrolled", "active"} :
           users'[u][c] = IF account[c] # w.row[c] THEN account[c] ELSE users[u][c]
  BY <1>1, <1>2, <1>4, WriteTyped DEF IInv
<1>6. users'[u].password \in {Null, users[u].password} /\ users'[u].active = users[u].active
  BY <1>4, <1>5
<1>7. /\ sessions' \in Seq(Session) /\ DOMAIN sessions \subseteq DOMAIN sessions'
      /\ \A i \in DOMAIN sessions : ~sessions[i].live => ~sessions'[i].live
  BY <1>1, <1>2, SessionsRevoked DEF IInv
<1>8. /\ codes' \in [Users -> Seq({"unused", "used", "expired"})]
      /\ Len(codes'[u]) = Len(codes[u]) + 1
      /\ Outstanding(u)' = {Len(codes'[u])}
  BY <1>1, <1>2, IssueLeavesOne DEF Outstanding
<1>9. TInv'
  BY <1>1, <1>5, <1>7, <1>8, CommitTyped DEF IInv, TInv, TypeOK
<1>10. \A v \in Users \ {u} : codes'[v] = codes[v] /\ users'[v].password = users[v].password
  BY <1>1, <1>2, <1>5 DEF IInv, TInv, TypeOK
<1>11. IInv'
  BY <1>1, <1>2, <1>8, <1>9, <1>10, HolderSafe
<1> QED
  BY <1>5, <1>6, <1>7, <1>11 DEF SetByNewest, UndoesNothing

LEMMA ActivationStep ==
  ASSUME IInv, NEW r \in Requests, FinishActivation(r)
  PROVE  IInv' /\ SetByNewest /\ UndoesNothing
<1> DEFINE w == request[r]
<1>1. /\ w # Idle /\ w.phase = "locked" /\ w.op = "activate" /\ Commit(r)
      /\ codes' = [codes EXCEPT ![w.user] = [@ EXCEPT ![w.code] = "used"]]
      /\ users' = [users EXCEPT ![w.user] = [@ EXCEPT !.password = w.code]]
      /\ sessions' = Revoked(w.user) /\ UNCHANGED secrets
  BY DEF FinishActivation, Proceeds, LockingOps
<1>2. PICK u \in Users : u = w.user
  BY <1>1, RequestFields DEF IInv
<1>3. w.code \in Outstanding(u) /\ Outstanding(u) \subseteq {Len(codes[u])}
  BY <1>1, <1>2 DEF IInv, ReadBehindLock, OnlyNewest
<1>4. /\ codes[u] \in Seq({"unused", "used", "expired"}) /\ Len(codes[u]) \in Nat
      /\ DOMAIN codes[u] = 1 .. Len(codes[u])
  BY CodesAreSequences DEF IInv
<1>5. w.code = Len(codes[u]) /\ w.code \in Nat /\ w.code # Null
  BY <1>3, <1>4 DEF Outstanding, Null
<1>6. users[u] \in Accounts
  BY DEF IInv, TInv, TypeOK
<1>7. [users[u] EXCEPT !.password = w.code] \in Accounts
      /\ [users[u] EXCEPT !.password = w.code].password = w.code
      /\ [users[u] EXCEPT !.password = w.code].active = users[u].active
  BY <1>5, <1>6 DEF Accounts
<1>8. /\ users' \in [Users -> Accounts]
      /\ users'[u].password = w.code /\ users'[u].active = users[u].active
      /\ \A v \in Users \ {u} : users'[v] = users[v]
  BY <1>1, <1>2, <1>7 DEF IInv, TInv, TypeOK
<1>9. /\ codes'[u] = [codes[u] EXCEPT ![w.code] = "used"]
      /\ \A v \in Users \ {u} : codes'[v] = codes[v]
      /\ codes' \in [Users -> Seq({"unused", "used", "expired"})]
      /\ Len(codes'[u]) = Len(codes[u]) /\ DOMAIN codes'[u] = DOMAIN codes[u]
  <2> DEFINE new == [codes[u] EXCEPT ![w.code] = "used"]
  <2>1. new \in Seq({"unused", "used", "expired"}) /\ Len(new) = Len(codes[u])
        /\ DOMAIN new = DOMAIN codes[u]
    <3>1. w.code \in 1 .. Len(codes[u])
      BY <1>3, <1>4 DEF Outstanding
    <3> QED
      BY <1>4, <3>1, ExceptSeq
  <2>2. codes' = [codes EXCEPT ![u] = new]
    BY <1>1, <1>2
  <2>3. codes \in [Users -> Seq({"unused", "used", "expired"})]
    BY DEF IInv, TInv, TypeOK
  <2> HIDE DEF new
  <2>4. codes'[u] = new /\ \A v \in Users \ {u} : codes'[v] = codes[v]
    BY <2>2, <2>3
  <2>5. codes' \in [Users -> Seq({"unused", "used", "expired"})]
    BY <2>1, <2>2, <2>3
  <2> QED
    BY <2>1, <2>4, <2>5 DEF new
<1>10. Outstanding(u)' = {}
  <2> SUFFICES ASSUME NEW i \in DOMAIN codes'[u] PROVE codes'[u][i] = "used"
    BY DEF Outstanding
  <2>1. CASE i = w.code
    BY <1>4, <1>9, <2>1
  <2>2. CASE i # w.code
    BY <1>3, <1>5, <1>9, <2>2 DEF Outstanding
  <2> QED
    BY <2>1, <2>2
<1>11. /\ sessions' \in Seq(Session) /\ DOMAIN sessions \subseteq DOMAIN sessions'
       /\ \A i \in DOMAIN sessions : ~sessions[i].live => ~sessions'[i].live
  BY <1>1, <1>2, SessionsRevoked DEF IInv
<1>12. TInv'
  BY <1>1, <1>8, <1>9, <1>11, CommitTyped DEF IInv, TInv, TypeOK
<1>13. IInv'
  BY <1>1, <1>2, <1>5, <1>8, <1>9, <1>10, <1>12, HolderSafe
<1>14. SetByNewest
  BY <1>3, <1>5, <1>8 DEF SetByNewest
<1>15. UndoesNothing
  BY <1>8, <1>11 DEF UndoesNothing
<1> QED
  BY <1>13, <1>14, <1>15

-----------------------------------------------------------------------------
(* The theorems. *)

LEMMA InitHolds == Init => IInv
<1> SUFFICES ASSUME Init PROVE IInv
  OBVIOUS
<1>1. TInv
  BY InitTyped
<1>2. \A u \in Users : codes[u] = <<>> \/ codes[u] = <<"unused">>
  BY DEF Init
<1>4. OnlyNewest /\ SomeCodeLeft
  <2> SUFFICES ASSUME NEW u \in Users
               PROVE  Outstanding(u) \subseteq {Len(codes[u])} /\ (codes[u] # <<>> => Outstanding(u) # {})
    BY DEF OnlyNewest, SomeCodeLeft
  <2>1. CASE codes[u] = <<>>
    BY <2>1 DEF Outstanding
  <2>2. CASE codes[u] = <<"unused">>
    <3>1. DOMAIN codes[u] = {1} /\ codes[u][1] = "unused" /\ Len(codes[u]) = 1
      BY <2>2
    <3> QED
      BY <3>1 DEF Outstanding
  <2> QED
    BY <1>2, <2>1, <2>2
<1>5. ReadBehindLock
  BY DEF Init, ReadBehindLock, Idle
<1> QED
  BY <1>1, <1>4, <1>5 DEF IInv

LEMMA StepHolds == IInv /\ [Next]_vars => IInv' /\ SetByNewest /\ UndoesNothing
<1> SUFFICES ASSUME IInv, [Next]_vars PROVE IInv' /\ SetByNewest /\ UndoesNothing
  OBVIOUS
<1> USE DEF IInv
<1>1. ASSUME NEW r \in Requests, Starts(r) PROVE TInv' /\ Quiet
  BY <1>1, StartsStep
<1>2. ASSUME NEW r \in Requests, Lock(r) PROVE IInv' /\ SetByNewest /\ UndoesNothing
  BY <1>2, LockSafe, LockStep
<1>3. ASSUME NEW r \in Requests, Refuse(r) PROVE TInv' /\ Quiet
  BY <1>3, RefuseStep
<1>4. ASSUME NEW r \in Requests,
             \/ FinishLogin(r) \/ FinishReauthentication(r) \/ FinishEnrollment(r)
             \/ FinishVerification(r) \/ FinishMfaReset(r) \/ FinishDisable(r)
             \/ FinishReactivation(r)
      PROVE  TInv' /\ Quiet
  BY <1>4, LoginStep, ReauthenticationStep, EnrollmentStep, VerificationStep, MfaResetStep,
     DisableStep, ReactivationStep
<1>5. ASSUME NEW r \in Requests, FinishPasswordReset(r) \/ FinishIssue(r) \/ FinishActivation(r)
      PROVE  IInv' /\ SetByNewest /\ UndoesNothing
  BY <1>5, PasswordResetStep, IssueStep, ActivationStep
<1>6. ASSUME \/ \E s \in DOMAIN sessions : EndSession(s) \/ StepUpLapses(s)
             \/ \E u \in Users : \E c \in DOMAIN codes[u] : CodeExpires(u, c)
      PROVE  TInv' /\ Quiet
  BY <1>6, AsideStep
<1>7. ASSUME UNCHANGED vars PROVE TInv' /\ Quiet
  BY <1>7 DEF vars, TInv, TypeOK, SessionsLoaded, Quiet, KeepsCodes, KeepsPasswords,
              UndoesNothing, TakesNoLock, Outstanding
<1>8. ASSUME TInv', Quiet PROVE IInv' /\ SetByNewest /\ UndoesNothing
  BY <1>8, QuietSafe DEF Quiet
<1> QED
  BY <1>1, <1>2, <1>3, <1>4, <1>5, <1>6, <1>7, <1>8 DEF Next, Finishes

LEMMA Invariance == Spec => []IInv
  BY InitHolds, StepHolds, PTL DEF Spec

\* Typing: every users row, session and request is well formed, and a users row is locked
\* by exactly the request that has passed _lock_user.
THEOREM Typing == Spec => []TypeOK
<1>1. IInv => TypeOK
  BY DEF IInv, TInv
<1> QED
  BY <1>1, Invariance, PTL

\* OneCode: issue_activation_token leaves one code outstanding, in whatever order the
\* issues, resets and activations of any number of requests commit.
THEOREM OneCode == Spec => []OneUsableCode
<1>1. IInv => OneUsableCode
  <2> SUFFICES ASSUME IInv, NEW u \in Users PROVE Cardinality(Outstanding(u)) <= 1
    BY DEF OneUsableCode
  <2>1. Outstanding(u) \subseteq {Len(codes[u])}
    BY DEF IInv, OnlyNewest
  <2>2. IsFiniteSet({Len(codes[u])}) /\ Cardinality({Len(codes[u])}) = 1
    BY FS_Singleton
  <2>3. Cardinality(Outstanding(u)) <= Cardinality({Len(codes[u])})
    BY <2>1, <2>2, FS_Subset
  <2> QED
    BY <2>2, <2>3
<1> QED
  BY <1>1, Invariance, PTL

\* PasswordOrCodeHolds: reset_password, issue_or_replace_activation_code and
\* activate_user_password never leave an account that was given a code with neither a
\* password nor a code.
THEOREM PasswordOrCodeHolds == Spec => []PasswordOrCode
<1>1. IInv => PasswordOrCode
  <2> SUFFICES ASSUME IInv, NEW u \in Users, codes[u] # <<>>
               PROVE  ActivationState(u) # "activation_not_issued"
    BY DEF PasswordOrCode
  <2>1. users[u].active \in BOOLEAN
    BY DEF IInv, TInv, TypeOK, Accounts
  <2>2. users[u].password = Null => Outstanding(u) # {}
    BY DEF IInv, SomeCodeLeft
  <2> QED
    BY <2>1, <2>2 DEF ActivationState
<1> QED
  BY <1>1, Invariance, PTL

\* CurrentCodes: consume_activation_token sets a password by the newest code, which is still
\* outstanding when it commits.
THEOREM CurrentCodes == Spec => OnlyCurrentCodeActivates
<1>1. SetByNewest => \A u \in Users : users'[u].password \notin {users[u].password, Null}
                       => /\ users'[u].password \in Outstanding(u)
                          /\ users'[u].password = Len(codes[u])
  BY DEF SetByNewest
<1> QED
  BY <1>1, Invariance, StepHolds, PTL DEF Spec, OnlyCurrentCodeActivates

\* StaleCopies: a flush from a stale copy revives no session that revoke_all_for_user or
\* logout ended and enables no account that disable_user disabled.
THEOREM StaleCopies == Spec => StaleCopiesUndoNothing
<1>1. UndoesNothing =>
        /\ \A s \in DOMAIN sessions : ~sessions[s].live => ~sessions'[s].live
        /\ \A u \in Users : ~users[u].active /\ users'[u].active =>
             \E r \in Requests : request[r] # Idle /\ request[r].op = "reactivate" /\ request'[r] = Idle
  BY DEF UndoesNothing
<1> QED
  BY <1>1, Invariance, StepHolds, PTL DEF Spec, StaleCopiesUndoNothing

=============================================================================

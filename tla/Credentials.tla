---------------------------- MODULE Credentials ----------------------------
(***************************************************************************)
(* Sign-in, activation, second factor and credential administration:       *)
(* app/auth, with the routes in app/web and app/api that run it and the    *)
(* account switch in app/workforce/service.py.                             *)
(*                                                                         *)
(* A request is a transaction in up to three steps.  Start reads what the  *)
(* route reads before any lock and keeps the copies its session keeps;     *)
(* Lock takes the users row FOR UPDATE and makes the reads that follow it; *)
(* Finish writes what the copies say has changed (UnitOfWork) and commits. *)
(* A refused request rolls back: it ends without a trace.                  *)
(***************************************************************************)
EXTENDS Integers, Sequences, FiniteSets, UnitOfWork

CONSTANTS
  Users, Requests,
  Free,                                \* no request holds the row lock
  MaxCodes, MaxSecrets, MaxSessions    \* bounds of the instance

ASSUME BoundsAssumption ==
  /\ MaxCodes \in Nat
  /\ MaxSecrets \in Nat
  /\ MaxSessions \in Nat
  /\ Free \notin Requests

Null == 0

VARIABLES
  users,      \* users rows: password (the code that set it), secret, enrolled, active
  codes,      \* activation_tokens of a user, oldest first: unused, used or expired
  secrets,    \* how many TOTP secrets were ever generated for a user
  sessions,   \* sessions rows, oldest first
  lock,       \* who holds the users row FOR UPDATE
  request     \* the requests under way

vars == <<users, codes, secrets, sessions, lock, request>>

Accounts == [password: Nat, secret: Nat, enrolled: BOOLEAN, active: BOOLEAN]
Session == [user: Users, password: Nat, satisfied: BOOLEAN, fresh: BOOLEAN, live: BOOLEAN]

LockingOps == {"begin_totp", "complete_totp", "activate",
               "reset_password", "reset_mfa", "issue_code"}
Ops == LockingOps \cup {"login", "reauthenticate", "disable", "reactivate"}

Idle == [phase |-> "idle"]

\* A request with the copy of the users row and of its own session it has loaded.
Work == [phase: {"started", "locked"}, op: Ops, user: Users, row: Accounts,
         session: Nat, copy: Session \cup {Idle}, code: Nat, prior: SUBSET Nat]

Usable(u) == {i \in DOMAIN codes[u] : codes[u][i] = "unused"}

\* used_at IS NULL: whether or not it has expired.
Outstanding(u) == {i \in DOMAIN codes[u] : codes[u][i] # "used"}

\* _activation_state_expression: what the directory shows of an account.
ActivationState(u) ==
  CASE ~users[u].active -> "disabled"
    [] users[u].active /\ users[u].password # Null ->
         IF users[u].enrolled THEN "ready" ELSE "mfa_setup_required"
    [] users[u].active /\ users[u].password = Null ->
         IF Outstanding(u) = {} THEN "activation_not_issued"
         ELSE IF Usable(u) # {} THEN "activation_code_active" ELSE "activation_code_expired"

-----------------------------------------------------------------------------
(* Starting a request. *)

Start(r, op, u, s, c) ==
  /\ request[r] = Idle
  /\ request' = [request EXCEPT ![r] =
       [phase |-> "started", op |-> op, user |-> u, row |-> users[u], session |-> s,
        copy |-> IF s = Null THEN Idle ELSE sessions[s], code |-> c, prior |-> {}]]
  /\ UNCHANGED <<users, codes, secrets, sessions, lock>>

\* authenticate with the right password and, if the copy is enrolled, a code for its secret.
Authenticates(row) ==
  /\ row.active
  /\ row.password # Null
  /\ row.enrolled => row.secret # Null

\* get_current_session and get_authenticated_user.
SignedIn(s) == sessions[s].live /\ users[sessions[s].user].active

StartLogin(r, u) ==
  /\ Len(sessions) < MaxSessions
  /\ Authenticates(users[u])
  /\ Start(r, "login", u, Null, Null)

StartReauthentication(r, s) ==
  /\ SignedIn(s)
  /\ Authenticates(users[sessions[s].user])
  /\ Start(r, "reauthenticate", sessions[s].user, s, Null)

\* The page refuses an enrolled user and asks for a recent confirmation of the password.
StartEnrollment(r, s) ==
  /\ SignedIn(s)
  /\ sessions[s].fresh
  /\ ~users[sessions[s].user].enrolled
  /\ secrets[sessions[s].user] < MaxSecrets
  /\ Start(r, "begin_totp", sessions[s].user, s, Null)

StartVerification(r, s) ==
  /\ SignedIn(s)
  /\ sessions[s].fresh
  /\ Len(sessions) < MaxSessions
  /\ Start(r, "complete_totp", sessions[s].user, s, Null)

\* The first look at the code, before any lock.
StartActivation(r, u, c) ==
  /\ c \in Usable(u)
  /\ Start(r, "activate", u, Null, c)

\* A page of the user administration loads the target and asks for a recent confirmation.
StartIssue(r, u) == Len(codes[u]) < MaxCodes /\ Start(r, "issue_code", u, Null, Null)
StartPasswordReset(r, u) == Len(codes[u]) < MaxCodes /\ Start(r, "reset_password", u, Null, Null)
StartMfaReset(r, u) == Start(r, "reset_mfa", u, Null, Null)
StartDisable(r, u) == Start(r, "disable", u, Null, Null)
StartReactivation(r, u) == Start(r, "reactivate", u, Null, Null)

-----------------------------------------------------------------------------
(* The lock and the checks behind it.  They look at the session's copy; an *)
(* activation, which has loaded no row, looks at its code again by the     *)
(* clock of its start.                                                     *)

\* Fault: an activation does not look at its code again.
EligibleAtStart(w) == w.op \in {"activate", "reset_password", "reset_mfa", "issue_code"} \/ ~w.row.enrolled

Eligible(w) ==
  CASE w.op = "begin_totp"     -> w.row.active /\ ~w.row.enrolled
    [] w.op = "complete_totp"  -> w.row.active /\ ~w.row.enrolled /\ w.row.secret # Null
    [] w.op = "issue_code"     -> w.row.active /\ w.row.password = Null
    [] w.op = "activate"       -> w.code \in Outstanding(w.user)
    [] OTHER                   -> w.row.active

\* Fault: the row is read without FOR UPDATE.
NoLock(r, u) == UNCHANGED lock
TakeLock(r, u) == lock[u] = Free /\ lock' = [lock EXCEPT ![u] = r]

\* _lock_user, and the reads of activation_tokens that follow it.
Lock(r) ==
  LET w == request[r] IN
  /\ w.phase = "started"
  /\ w.op \in LockingOps
  /\ Eligible(w)
  /\ TakeLock(r, w.user)
  /\ request' = [request EXCEPT ![r].phase = "locked", ![r].prior = Outstanding(w.user)]
  /\ UNCHANGED <<users, codes, secrets, sessions>>

\* TotpEnrollmentError, AccountNotEligible, or an activation code used up meanwhile.
Refuse(r) ==
  LET w == request[r] IN
  /\ w.phase = "started"
  /\ w.op \in LockingOps
  /\ lock[w.user] = Free
  /\ ~Eligible(w)
  /\ request' = [request EXCEPT ![r] = Idle]
  /\ UNCHANGED <<users, codes, secrets, sessions, lock>>

-----------------------------------------------------------------------------
(* Finishing a request: the flush and the commit. *)

\* The request holds its lock, or takes none and is let through by whoever does.
Proceeds(r, op) ==
  /\ request[r] # Idle
  /\ request[r].op = op
  /\ IF op \in LockingOps THEN request[r].phase = "locked" ELSE lock[request[r].user] = Free

Commit(r) ==
  /\ request' = [request EXCEPT ![r] = Idle]
  /\ lock' = [u \in Users |-> IF lock[u] = r THEN Free ELSE lock[u]]

\* The users row after the request has edited its copy into `row`.
Write(r, row) ==
  LET w == request[r] IN
  users' = [users EXCEPT ![w.user] = Flush(@, w.row, row)]

\* revoke_all_for_user.
Revoked(u) == [s \in DOMAIN sessions |->
                 IF sessions[s].user = u THEN [sessions[s] EXCEPT !.live = FALSE] ELSE sessions[s]]

\* Fault: older codes stay valid beside the new one.
IssuedBeside(w) == Append(codes[w.user], "unused")
\* issue_activation_token: older codes not yet used, read under the lock, are used up.
Issued(w) ==
  Append([i \in DOMAIN codes[w.user] |-> IF i \in w.prior THEN "used" ELSE codes[w.user][i]],
         "unused")

\* create_session at sign-in: without the second factor it is for enrollment only.
FinishLogin(r) ==
  LET w == request[r] IN
  /\ Proceeds(r, "login")
  /\ sessions' = Append(sessions, [user |-> w.user, password |-> w.row.password,
                                   satisfied |-> w.row.enrolled, fresh |-> w.row.enrolled,
                                   live |-> TRUE])
  /\ Commit(r)
  /\ UNCHANGED <<users, codes, secrets>>

FinishReauthentication(r) ==
  LET w == request[r] IN
  /\ Proceeds(r, "reauthenticate")
  /\ sessions' = [sessions EXCEPT ![w.session] =
                    [Flush(@, w.copy, [w.copy EXCEPT !.satisfied = w.row.enrolled])
                       EXCEPT !.fresh = TRUE]]
  /\ Commit(r)
  /\ UNCHANGED <<users, codes, secrets>>

\* begin_totp_enrollment: a new secret, and a session that is for enrollment only.
FinishEnrollment(r) ==
  LET w == request[r] IN
  /\ Proceeds(r, "begin_totp")
  /\ secrets' = [secrets EXCEPT ![w.user] = @ + 1]
  /\ Write(r, [w.row EXCEPT !.secret = secrets'[w.user]])
  /\ sessions' = [sessions EXCEPT ![w.session] =
                    Flush(@, w.copy, [w.copy EXCEPT !.satisfied = FALSE])]
  /\ Commit(r)
  /\ UNCHANGED codes

\* complete_totp_enrollment: the code is checked against the secret of the copy.
FinishVerification(r) ==
  LET w == request[r] IN
  /\ Proceeds(r, "complete_totp")
  /\ Write(r, [w.row EXCEPT !.enrolled = TRUE])
  /\ sessions' = Append(Revoked(w.user),
                        [user |-> w.user, password |-> sessions[w.session].password,
                         satisfied |-> TRUE, fresh |-> TRUE, live |-> TRUE])
  /\ Commit(r)
  /\ UNCHANGED <<codes, secrets>>

\* Fault: the reset takes the password and issues no code.
ResetWithoutCode(w) == codes[w.user]
ResetCodes(w) == Issued(w)

FinishPasswordReset(r) ==
  LET w == request[r] IN
  /\ Proceeds(r, "reset_password")
  /\ Write(r, [w.row EXCEPT !.password = Null])
  /\ sessions' = Revoked(w.user)
  /\ codes' = [codes EXCEPT ![w.user] = ResetCodes(w)]
  /\ Commit(r)
  /\ UNCHANGED secrets

FinishMfaReset(r) ==
  LET w == request[r] IN
  /\ Proceeds(r, "reset_mfa")
  /\ Write(r, [w.row EXCEPT !.secret = Null, !.enrolled = FALSE])
  /\ sessions' = Revoked(w.user)
  /\ Commit(r)
  /\ UNCHANGED <<codes, secrets>>

FinishIssue(r) ==
  LET w == request[r] IN
  /\ Proceeds(r, "issue_code")
  /\ codes' = [codes EXCEPT ![w.user] = Issued(w)]
  /\ Commit(r)
  /\ UNCHANGED <<users, secrets, sessions>>

\* activate_user_password: the users row is loaded after the lock, so the copy is current.
FinishActivation(r) ==
  LET w == request[r] IN
  /\ Proceeds(r, "activate")
  /\ codes' = [codes EXCEPT ![w.user][w.code] = "used"]
  /\ users' = [users EXCEPT ![w.user].password = w.code]
  /\ sessions' = Revoked(w.user)
  /\ Commit(r)
  /\ UNCHANGED secrets

\* disable_user and reactivate_user take no lock but their own UPDATE.
FinishDisable(r) ==
  LET w == request[r] IN
  /\ Proceeds(r, "disable")
  /\ Write(r, [w.row EXCEPT !.active = FALSE])
  /\ sessions' = Revoked(w.user)
  /\ Commit(r)
  /\ UNCHANGED <<codes, secrets>>

FinishReactivation(r) ==
  LET w == request[r] IN
  /\ Proceeds(r, "reactivate")
  /\ Write(r, [w.row EXCEPT !.active = TRUE])
  /\ Commit(r)
  /\ UNCHANGED <<codes, secrets, sessions>>

-----------------------------------------------------------------------------
(* Sessions ending by themselves, and time. *)

\* logout, and the sign-in page meeting the session of a disabled account.
EndSession(s) ==
  /\ sessions[s].live
  /\ sessions' = [sessions EXCEPT ![s].live = FALSE]
  /\ UNCHANGED <<users, codes, secrets, lock, request>>

\* The step-up window of a session passes.
StepUpLapses(s) ==
  /\ sessions[s].fresh
  /\ sessions' = [sessions EXCEPT ![s].fresh = FALSE]
  /\ UNCHANGED <<users, codes, secrets, lock, request>>

\* Twenty-four hours after its issue an unused code expires.
CodeExpires(u, c) ==
  /\ c \in Usable(u)
  /\ codes' = [codes EXCEPT ![u][c] = "expired"]
  /\ UNCHANGED <<users, secrets, sessions, lock, request>>

-----------------------------------------------------------------------------
\* create_user with and without an activation code.
Init ==
  /\ users = [u \in Users |->
                [password |-> Null, secret |-> Null, enrolled |-> FALSE, active |-> TRUE]]
  /\ codes \in [Users -> {<<>>, <<"unused">>}]
  /\ secrets = [u \in Users |-> 0]
  /\ sessions = <<>>
  /\ lock = [u \in Users |-> Free]
  /\ request = [r \in Requests |-> Idle]

Starts(r) ==
  \/ \E u \in Users : \/ StartLogin(r, u)
                      \/ StartIssue(r, u)
                      \/ StartPasswordReset(r, u)
                      \/ StartMfaReset(r, u)
                      \/ StartDisable(r, u)
                      \/ StartReactivation(r, u)
                      \/ \E c \in DOMAIN codes[u] : StartActivation(r, u, c)
  \/ \E s \in DOMAIN sessions : \/ StartReauthentication(r, s)
                                \/ StartEnrollment(r, s)
                                \/ StartVerification(r, s)

Finishes(r) ==
  \/ FinishLogin(r)          \/ FinishReauthentication(r)
  \/ FinishEnrollment(r)     \/ FinishVerification(r)
  \/ FinishPasswordReset(r)  \/ FinishMfaReset(r)
  \/ FinishIssue(r)          \/ FinishActivation(r)
  \/ FinishDisable(r)        \/ FinishReactivation(r)

Next ==
  \/ \E r \in Requests : Starts(r) \/ Lock(r) \/ Refuse(r) \/ Finishes(r)
  \/ \E s \in DOMAIN sessions : EndSession(s) \/ StepUpLapses(s)
  \/ \E u \in Users : \E c \in DOMAIN codes[u] : CodeExpires(u, c)

Spec == Init /\ [][Next]_vars

-----------------------------------------------------------------------------
(* Properties. *)

\* Every row and every request is well formed, and the row lock is held by exactly the
\* request that has passed _lock_user.
TypeOK ==
  /\ users \in [Users -> Accounts]
  /\ codes \in [Users -> Seq({"unused", "used", "expired"})]
  /\ secrets \in [Users -> Nat]
  /\ sessions \in Seq(Session)
  /\ lock \in [Users -> Requests \cup {Free}]
  /\ request \in [Requests -> {Idle} \cup Work]
  /\ \A r \in Requests, u \in Users :
       lock[u] = r <=> request[r].phase = "locked" /\ request[r].user = u

\* issue_activation_token: "Issue one opaque token and invalidate every prior unused
\* token", also when two administrators issue at the same moment.
OneUsableCode == \A u \in Users : Cardinality(Outstanding(u)) <= 1

\* consume_activation_token: a code that a newer one has replaced or that has been used
\* never sets a password, however long its request was under way.
OnlyCurrentCodeActivates ==
  [][\A u \in Users : users'[u].password \notin {users[u].password, Null}
        => /\ users'[u].password \in Outstanding(u)
           /\ users'[u].password = Len(codes[u])]_vars

\* reset_password, issue_or_replace_activation_code and activate_user_password: an enabled
\* account that was ever given a code has a password or a code to be used or replaced, so
\* no interleaving of resets and activations leaves it with neither. (The second factor is
\* another matter: MfaResetClears.)
PasswordOrCode ==
  \A u \in Users : codes[u] # <<>> => ActivationState(u) # "activation_not_issued"

\* disable_user, revoke_session, revoke_all_for_user: no request that loaded the account or
\* the session before enables the one or revives the other when it writes its own columns.
StaleCopiesUndoNothing ==
  [][/\ \A s \in DOMAIN sessions : ~sessions[s].live => ~sessions'[s].live
     /\ \A u \in Users : ~users[u].active /\ users'[u].active =>
          \E r \in Requests : request[r] # Idle /\ request[r].op = "reactivate" /\ request'[r] = Idle]_vars

-----------------------------------------------------------------------------
(* What the documents say and the code does not do. *)

\* The docstring of reset_mfa: it "Clears TOTP enrollment", and "the target must re-enroll
\* before completing another sign-in", so an account whose secret a reset has taken is
\* not enrolled. But a reset that loaded the account before its enrollment was completed
\* finds the copy not enrolled and writes only the secret. Then authenticate refuses every
\* sign-in, while ActivationState says "ready".
MfaResetClears ==
  [][\A r \in Requests :
       LET w == request[r] IN
       /\ w # Idle /\ request'[r] = Idle /\ w.phase = "locked" /\ w.op = "reset_mfa"
       /\ users'[w.user].secret = Null
       => ~users'[w.user].enrolled]_vars

=============================================================================

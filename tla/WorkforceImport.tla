-------------------------- MODULE WorkforceImport --------------------------
(***************************************************************************)
(* One bulk workforce import, from upload to reversal:                     *)
(* app/workforce_imports/service.py, its tasks and its routes.             *)
(*                                                                         *)
(* The file is parsed by a task, decided on by people in two tiers,        *)
(* committed and perhaps reversed by requests, and retired by an hourly    *)
(* sweep.  The commit and reversal routes load the job before the service  *)
(* locks it, and a lock does not refresh a loaded object (UnitOfWork): a   *)
(* request works on the job as it was loaded.  Rows and decisions are read *)
(* under the lock.  The sweep, too, works on the jobs it selected, without *)
(* a lock.                                                                 *)
(*                                                                         *)
(* reach[a] is the set of users, teams, roles and campaigns a holds        *)
(* authority over, as the module Authority resolves it; it changes at any  *)
(* time.  Notifications are left out.                                      *)
(***************************************************************************)
EXTENDS WorkforceRows, Sequences, Functions

CONSTANTS
  Actors,        \* users who may open the import pages
  Clients,       \* requests in flight
  Keys,          \* idempotency keys
  Files,         \* what may be uploaded: [type, rows]
  Workforce,     \* the workforce before the upload
  Reach,         \* authority before the upload
  MaxDecisions, MaxTries, MaxOutside    \* bounds

ASSUME ImportAssumption ==
  /\ Actors \subseteq Users
  /\ MaxDecisions \in Nat /\ MaxTries \in Nat /\ MaxOutside \in Nat
  /\ \A f \in Files : f.type \in ImportTypes /\ f.rows # <<>>

\* A row of the required form names an action of its type, and an update a profile.
WellFormed(type, row) ==
  /\ type = "users" => row.action \in {"create", "update", "reactivate"}
  /\ type = "explicit_deactivations" => row.action = "deactivate"
  /\ type = "users" /\ row.action = "update" => row.to # Nobody

ASSUME FilesAssumption ==
  \A f \in Files :
    /\ f.rows \in Seq({f.rows[i] : i \in DOMAIN f.rows})
    /\ \A i \in DOMAIN f.rows :
         f.rows[i].user \in Users /\ (f.rows[i].ok => WellFormed(f.type, f.rows[i]))

\* A slot is a team or a role of a user, or a user's one reporting line or post.
OnePerSlot(links) ==
  \A l, m \in links :
    /\ l.kind = m.kind /\ l.user = m.user
    /\ l.kind \in {"team_memberships", "role_assignments"} => l.to = m.to
    => l = m

\* The workforce was made elsewhere, under the unique indexes of its tables.
ASSUME WorkforceAssumption ==
  /\ DOMAIN Workforce = {"person", "profile", "links"}
  /\ Workforce.person \in [Users -> {"absent", "active", "inactive"}]
  /\ DOMAIN Workforce.profile = Users /\ \A u \in Users : Workforce.profile[u] # Nobody
  /\ \A l \in Workforce.links : l.kind \in LinkTypes /\ l.user \in Users /\ l.by = 0
  /\ OnePerSlot(Workforce.links)

VARIABLES
  job,        \* the job's row
  rows,       \* its import rows; <<>> before parsing and after retirement
  decisions,  \* its decisions, the n-th has decision_version n
  file,       \* the file in quarantine, Gone when it is deleted
  tries,      \* parse task runs left, retries included
  live,       \* the workforce
  reach,
  req,        \* requests that have loaded the job and not yet locked it
  sweep,      \* the state of the job when the sweep selected it, or "idle"
  trail,      \* audit events of rows committed and reversed
  outside     \* changes made elsewhere, counted

vars == <<job, rows, decisions, file, tries, live, reach, req, sweep, trail, outside>>

Gone == [type |-> "none", rows |-> <<>>]
NoJob == [state |-> "none", by |-> Nobody, type |-> "users", deny |-> FALSE, needs |-> {},
          invalid |-> FALSE, warning |-> FALSE, high |-> FALSE, key |-> Nobody,
          reversed |-> FALSE, expires |-> "none"]
Idle == [op |-> "idle", by |-> Nobody, key |-> Nobody, seen |-> NoJob]

Init ==
  /\ job = NoJob
  /\ rows = <<>> /\ decisions = <<>>
  /\ file = Gone /\ tries = 0
  /\ live = Workforce
  /\ reach = Reach
  /\ req = [c \in Clients |-> Idle]
  /\ sweep = "idle"
  /\ trail = {}
  /\ outside = 0

-----------------------------------------------------------------------------
(* Who may do what. *)

\* A page or an API call of someone signed in who holds some import capability.
Acting(a) == live.person[a] = "active" /\ reach[a] # {}

\* _row_requirement of a row that is valid or has only a warning.
Needs(type, row) ==
  CASE type = "users" /\ row.action = "create" -> {}
    [] type \in LinkTypes \ {"reporting_assignments"} -> {row.to}
    [] OTHER -> {row.user}

RowsOf(risk) == {i \in DOMAIN rows : rows[i].verdict = "valid" /\ rows[i].risk = risk}
NeedsOf(risk) == UNION {Needs(job.type, rows[i].row) : i \in RowsOf(risk)}

\* can_access_job, from the footprint the parser stored.
CanAccess(a) == a = job.by \/ (~job.deny /\ job.needs \subseteq reach[a])

\* _assert_rows_authorized.
Authorized(a, risk) == NeedsOf(risk) \subseteq reach[a]

\* Fault: the uploader may be the second person.
QualifiedAnyone(a) == Authorized(a, "high_risk")
\* _assert_qualified_high_risk_approver.
Qualified(a) == a # job.by /\ Authorized(a, "high_risk")

-----------------------------------------------------------------------------
(* Upload and parsing. *)

\* create_import_job, and the parse task queued after its commit, if the broker answers.
Upload(a, f) ==
  /\ job.state = "none"
  /\ Acting(a)
  /\ job' = [NoJob EXCEPT !.state = "quarantined", !.by = a, !.type = f.type, !.expires = "ahead"]
  /\ file' = f
  /\ tries' \in {0, MaxTries}
  /\ UNCHANGED <<rows, decisions, live, reach, req, sweep, trail, outside>>

ParsedRows(f) ==
  [i \in DOMAIN f.rows |->
     LET v == Verdict(f.type, live, f.rows, i) IN
     [row |-> f.rows[i], verdict |-> v,
      risk |-> IF v = "invalid" THEN "routine" ELSE Risk(f.type, f.rows[i]),
      entity |-> FALSE, before |-> Nobody, reversed |-> FALSE]]

\* parse_job of a file that reads well: one transaction under the job's lock.
Parse ==
  /\ tries > 0 /\ job.state = "quarantined" /\ file # Gone
  /\ LET parsed == ParsedRows(file)
         with(v) == {i \in DOMAIN parsed : parsed[i].verdict = v} IN
     /\ rows' = parsed
     /\ job' = [job EXCEPT
          !.state = "parsed",
          !.deny = with("invalid") # {},
          !.needs = UNION {Needs(job.type, parsed[i].row) : i \in DOMAIN parsed},
          !.invalid = with("invalid") # {},
          !.warning = with("warning") # {},
          !.high = \E i \in with("valid") : parsed[i].risk = "high_risk"]
  /\ tries' = 0
  /\ UNCHANGED <<decisions, file, live, reach, req, sweep, trail, outside>>

\* A header or a size the parser refuses.  (Batches of rows it had written by then stay
\* until the sweep; nothing decides on the rows of a failed job.)
ParseRefused ==
  /\ tries > 0 /\ job.state = "quarantined" /\ file # Gone
  /\ job' = [job EXCEPT !.state = "failed"]
  /\ tries' = 0
  /\ UNCHANGED <<rows, decisions, file, live, reach, req, sweep, trail, outside>>

\* Any other exception, the missing file's included: the task is tried again.
ParseRaises ==
  /\ tries > 0 /\ job.state = "quarantined"
  /\ tries' = tries - 1
  /\ UNCHANGED <<job, rows, decisions, file, live, reach, req, sweep, trail, outside>>

\* The job is no longer quarantined when the task runs.
ParseLate ==
  /\ tries > 0 /\ job.state # "quarantined"
  /\ tries' = 0
  /\ UNCHANGED <<job, rows, decisions, file, live, reach, req, sweep, trail, outside>>

-----------------------------------------------------------------------------
(* Decisions. *)

\* Fault: any approval of the tier counts, the latest decision or not.
AnyApproval(tier) ==
  {d \in Range(decisions) : d.tier = tier /\ d.decision = "approve"}
\* _latest_decision, when it approves: the set of it, or the empty set.
Approval(tier) ==
  LET of == {n \in DOMAIN decisions : decisions[n].tier = tier} IN
  {decisions[n] : n \in {n \in of : /\ \A m \in of : m <= n
                                    /\ decisions[n].decision = "approve"}}

\* record_decision: the job is read under its lock.
Decide(a, d, tier) ==
  /\ Acting(a) /\ CanAccess(a)
  /\ job.state = "parsed"
  /\ Len(decisions) < MaxDecisions
  /\ tier = "high_risk" => job.high
  /\ d = "approve" =>
       /\ IF tier = "high_risk" THEN Qualified(a) ELSE Authorized(a, "routine")
       /\ ~job.invalid      \* warnings are acknowledged in the request
  /\ decisions' = Append(decisions, [decision |-> d, tier |-> tier, by |-> a])
  /\ UNCHANGED <<job, rows, file, tries, live, reach, req, sweep, trail, outside>>

-----------------------------------------------------------------------------
(* Commit and reversal. *)

\* A route loads the job, for anyone with some import capability.  A request that would
\* be refused on what it loads (the wrong state, another decision version, another key)
\* changes nothing and is left out; access to the job is tested when it is locked.
Load(c, a, op, k) ==
  /\ req[c] = Idle
  /\ Acting(a)
  /\ \/ op = "commit" /\ job.state = "parsed"
     \/ op = "commit" /\ job.state = "committed" /\ job.key = k
     \/ op = "reverse" /\ job.state = "committed" /\ ~job.reversed
  /\ req' = [req EXCEPT ![c] = [op |-> op, by |-> a, key |-> k, seen |-> job]]
  /\ UNCHANGED <<job, rows, decisions, file, tries, live, reach, sweep, trail, outside>>

Answered(c) == req' = [req EXCEPT ![c] = Idle]
\* cleanup_committed_source, whose failure is only logged.
SourceCleaned == file' \in {file, Gone}

\* The key of the import already committed: the stored result is returned.
Replay(c) ==
  /\ req[c].op = "commit" /\ req[c].seen.state = "committed"
  /\ CanAccess(req[c].by)
  /\ SourceCleaned
  /\ Answered(c)
  /\ UNCHANGED <<job, rows, decisions, tries, live, reach, sweep, trail, outside>>

\* Fault: what was verified when deciding is trusted.
ApprovedOnce ==
  /\ Approval("standard") # {}
  /\ job.high => Approval("high_risk") # {}
\* The approvals a commit acts on, verified again.
Approved ==
  /\ \E d \in Approval("standard") : Authorized(d.by, "routine")
  /\ job.high => \E d \in Approval("high_risk") : Qualified(d.by)
\* Whose authority a row takes effect with.
RowActor(i) ==
  LET tier == IF rows[i].risk = "high_risk" THEN "high_risk" ELSE "standard" IN
  (CHOOSE d \in Approval(tier) : TRUE).by

CommitNext(s, i) ==
  LET r == rows[i]
      o == CommitRow(job.type, s.w, r.row, i, RowActor(i)) IN
  IF r.verdict # "valid" THEN s ELSE
  [w |-> o.w,
   rows |-> IF o.outcome # "done" THEN s.rows ELSE
            [s.rows EXCEPT ![i].entity = TRUE, ![i].before = Snapshot(job.type, s.w, r.row)],
   outcomes |-> Append(s.outcomes, o.outcome),
   audit |-> IF o.outcome # "done" THEN s.audit ELSE
             s.audit \cup {[event |-> "commit", row |-> i, high |-> r.risk = "high_risk",
                            by |-> RowActor(i)]}]

\* Fault: rows reversed before are reversed again.
CommittedRow(r) == r.entity
\* The rows a reversal looks at.
ToReverse(r) == r.entity /\ ~r.reversed

ReverseNext(a, s, i) ==
  LET r == rows[i]
      o == ReverseRow(job.type, s.w, r.row, i, a, r.before) IN
  IF ~ToReverse(r) THEN s ELSE
  [w |-> o.w,
   rows |-> IF o.outcome # "done" THEN s.rows ELSE [s.rows EXCEPT ![i].reversed = TRUE],
   outcomes |-> Append(s.outcomes, o.outcome),
   audit |-> IF o.outcome # "done" THEN s.audit ELSE
             s.audit \cup {[event |-> "reverse", row |-> i, high |-> r.risk = "high_risk",
                            by |-> a]}]

\* A commit takes the rows by their numbers; the query of a reversal names no order.
ByNumber == [i \in DOMAIN rows |-> i]
Orders == Bijection(DOMAIN rows, DOMAIN rows)

\* One row after another, each on what the ones before it left.
Applied(op, a, order) ==
  LET after[n \in 0..Len(rows)] ==
        IF n = 0 THEN [w |-> live, rows |-> rows, outcomes |-> <<>>, audit |-> {}]
        ELSE IF op = "commit" THEN CommitNext(after[n - 1], order[n])
        ELSE ReverseNext(a, after[n - 1], order[n])
  IN after[Len(rows)]
Raised(s) == \E n \in DOMAIN s.outcomes : s.outcomes[n] = "raised"

\* commit_job of a request that loaded the job before it was committed.
CommitJob(c) ==
  LET s == Applied("commit", req[c].by, ByNumber) IN
  /\ req[c].op = "commit" /\ req[c].seen.state = "parsed"
  /\ CanAccess(req[c].by)
  /\ ~job.invalid
  /\ Approved
  /\ ~Raised(s)
  /\ live' = s.w /\ rows' = s.rows /\ trail' = trail \cup s.audit
  /\ job' = [job EXCEPT !.state = "committed", !.key = req[c].key]
  /\ SourceCleaned
  /\ Answered(c)
  /\ UNCHANGED <<decisions, tries, reach, sweep, outside>>

\* reverse_job of a request that loaded the job committed and not reversed.
ReverseJob(c) ==
  \E order \in Orders :
  LET a == req[c].by
      s == Applied("reverse", a, order) IN
  /\ req[c].op = "reverse"
  /\ CanAccess(a)
  /\ job.high => Qualified(a)
  /\ Authorized(a, "routine")
  /\ ~Raised(s)
  /\ live' = s.w /\ rows' = s.rows /\ trail' = trail \cup s.audit
  /\ job' = [job EXCEPT !.reversed = TRUE]
  /\ Answered(c)
  /\ UNCHANGED <<decisions, file, tries, reach, sweep, outside>>

\* Any refusal, and a request whose transaction is rolled back.
Abandon(c) ==
  /\ req[c] # Idle
  /\ Answered(c)
  /\ UNCHANGED <<job, rows, decisions, file, tries, live, reach, sweep, trail, outside>>

-----------------------------------------------------------------------------
(* The hourly sweep: cleanup_expired_jobs. *)

Expire ==
  /\ job.expires = "ahead"
  /\ job' = [job EXCEPT !.expires = "past"]
  /\ UNCHANGED <<rows, decisions, file, tries, live, reach, req, sweep, trail, outside>>

SweepSelect ==
  /\ sweep = "idle" /\ job.expires = "past"
  /\ job.state = "expired" => file # Gone \/ rows # <<>>     \* or nothing is left to do
  /\ sweep' = job.state
  /\ UNCHANGED <<job, rows, decisions, file, tries, live, reach, req, trail, outside>>

\* Fault: an expired job, too, leaves the sweep's selection.
RetireOnce == [job EXCEPT !.state = IF sweep = "committed" THEN @ ELSE "expired", !.expires = "none"]
\* A committed job leaves the selection; any other one is expired.
Retire == IF sweep = "committed" THEN [job EXCEPT !.expires = "none"]
          ELSE [job EXCEPT !.state = IF sweep = "expired" THEN @ ELSE "expired"]

\* The rows of a parse that was not over yet when the sweep deleted rows remain.
SweepRetire ==
  /\ sweep # "idle"
  /\ file' = Gone
  /\ job' = Retire
  /\ rows' \in IF sweep = "committed" THEN {rows}
               ELSE {<<>>} \cup (IF sweep = "quarantined" THEN {rows} ELSE {})
  /\ sweep' = "idle"
  /\ UNCHANGED <<decisions, tries, live, reach, req, trail, outside>>

\* The file is deleted and the transaction then fails.
SweepFails ==
  /\ sweep # "idle"
  /\ file' = Gone
  /\ sweep' = "idle"
  /\ UNCHANGED <<job, rows, decisions, tries, live, reach, req, trail, outside>>

-----------------------------------------------------------------------------
(* What the other pages do meanwhile. *)

Elsewhere(w) ==
  /\ outside < MaxOutside /\ job.by # Nobody
  /\ live' = w /\ live' # live
  /\ outside' = outside + 1
  /\ UNCHANGED <<job, rows, decisions, file, tries, reach, req, sweep, trail>>

OtherUserChange(u) ==
  /\ live.person[u] # "absent"
  /\ Elsewhere(Person(live, u, IF live.person[u] = "active" THEN "inactive" ELSE "active"))
OtherLinkEnd(l) == Elsewhere(Drop(live, {l}))
OtherLinkMade(kind, u, o) ==
  /\ live.person[u] # "absent"
  /\ \/ kind = "team_memberships" /\ Elsewhere(AddMembership(live, u, o, 0))
     \/ kind = "role_assignments" /\ Elsewhere(AssignRole(live, u, o, 0))
     \/ kind = "reporting_assignments" /\ u # o /\ Elsewhere(SetLine(live, u, o, 0))
     \/ /\ kind = "campaign_user_assignments" /\ MayPost(live, u, o, Nobody)
        /\ Elsewhere(Post(live, u, o, Nobody, 0))

OtherReach(a) ==
  /\ outside < MaxOutside /\ job.by # Nobody
  /\ reach' = [reach EXCEPT ![a] = IF @ = {} THEN Reach[a] ELSE {}]
  /\ outside' = outside + 1
  /\ UNCHANGED <<job, rows, decisions, file, tries, live, req, sweep, trail>>

\* The users and things the uploaded file speaks of.
Spoken == ({job.by} \ {Nobody}) \cup {rows[i].row.user : i \in DOMAIN rows}
SpokenTo == {rows[i].row.to : i \in DOMAIN rows}

-----------------------------------------------------------------------------
Others ==
  \/ \E u \in Spoken : OtherUserChange(u)
  \/ \E l \in live.links : l.user \in Spoken /\ OtherLinkEnd(l)
  \/ \E u \in Spoken, o \in SpokenTo :
       job.type \in LinkTypes /\ OtherLinkMade(job.type, u, o)
  \/ \E a \in Actors : OtherReach(a)

Tasks == Parse \/ ParseRefused \/ ParseRaises \/ ParseLate
Sweep == SweepSelect \/ SweepRetire

Next ==
  \/ \E a \in Actors, f \in Files : Upload(a, f)
  \/ Tasks
  \/ \E a \in Actors, d \in {"approve", "reject"}, t \in {"standard", "high_risk"} : Decide(a, d, t)
  \/ \E c \in Clients, a \in Actors, op \in {"commit", "reverse"}, k \in Keys : Load(c, a, op, k)
  \/ \E c \in Clients : Replay(c) \/ CommitJob(c) \/ ReverseJob(c) \/ Abandon(c)
  \/ Expire \/ Sweep \/ SweepFails
  \/ Others

Spec == Init /\ [][Next]_vars

\* The clock runs and the sweep is run again every hour; that it succeeds
\* every time it could is not assumed.
Fairness == WF_vars(Expire) /\ WF_vars(SweepSelect) /\ SF_vars(SweepRetire)
FairSpec == Spec /\ Fairness

-----------------------------------------------------------------------------
(* Properties. *)

States == {"none", "quarantined", "failed", "parsed", "committed", "expired"}

\* Every variable has its type; a row that took effect knows what it replaced
\* (pre_commit_snapshot) where its reversal needs it.
TypeOK ==
  /\ job.state \in States /\ job.expires \in {"none", "ahead", "past"}
  /\ job.by \in Actors \cup {Nobody} /\ job.key \in Keys \cup {Nobody}
  /\ \A i \in DOMAIN rows :
       /\ rows[i].verdict \in {"valid", "warning", "invalid"}
       /\ rows[i].reversed => rows[i].entity
       /\ rows[i].entity /\ job.type = "users" /\ rows[i].row.action = "update"
            => rows[i].before # Nobody
  /\ live.person \in [Users -> {"absent", "active", "inactive"}]
  /\ \A l \in live.links : l.kind \in LinkTypes /\ l.user \in Users /\ l.by \in Nat
  /\ file \in Files \cup {Gone} /\ tries \in 0..MaxTries
  /\ sweep \in States \cup {"idle"}
  /\ Len(decisions) \in 0..MaxDecisions /\ outside \in 0..MaxOutside

\* "The two-person high-risk rule" of the module's docstring: what a high-risk
\* row did, in a commit or in a reversal, was done on the authority of someone
\* other than the uploader, whoever sent the request and whatever happened since.
TwoPersonRule ==
  \A e \in trail : e.high => e.by # job.by

\* A row takes effect on the authority of someone who holds it at that moment,
\* not of someone who held it when deciding ("a file cannot grant the uploader
\* more authority").
EffectsAreAuthorized ==
  [][\A e \in trail' \ trail :
       Needs(job.type, rows[e.row].row) \subseteq reach[e.by]]_vars

\* A rejection recorded after an approval stops the commit, though the request
\* loaded the job before it and though the approval is still stored.
RejectedStaysOut ==
  [][\A e \in trail' \ trail :
       e.event = "commit" =>
         LET tier == IF e.high THEN "high_risk" ELSE "standard"
             of == {n \in DOMAIN decisions : decisions[n].tier = tier}
         IN of # {} /\ \A n \in of : (\A m \in of : m <= n) =>
                decisions[n].decision = "approve" /\ decisions[n].by = e.by]_vars

\* One active membership of a team, one grant of a role, one primary reporting
\* line and one primary post per user, whatever imports, reversals and pages do.
OneLinkPerSlot == OnePerSlot(live.links)

\* A reversal ends nothing that the import did not make: what was granted anew
\* since the commit stays.
ReversalKeepsOthers ==
  [][(\E e \in trail' \ trail : e.event = "reverse") =>
       \A l \in live.links : l.by = 0 => l \in live'.links]_vars

\* Of two reversals that both loaded the job before either was done the second
\* changes nothing where the first left nothing to do, though others have
\* changed the same users since.
ReversedOnce ==
  [][(\E c \in Clients : ReverseJob(c)) /\ (\A i \in DOMAIN rows : rows[i].entity => rows[i].reversed)
       => live' = live]_vars

\* An import whose time is over is committed, or its rows and its file are gone
\* in the end, whichever of the parser and the sweep came first and however
\* often the sweep failed.
UploadsRetire ==
  (job.expires = "past") ~>
    (job.state = "committed" \/ (job.state = "expired" /\ rows = <<>> /\ file = Gone))

=============================================================================

---------------------------- MODULE CampaignData ----------------------------
(***************************************************************************)
(* The contact data of campaigns, from the uploaded file to its removal:   *)
(* app/imports/service.py, app/campaigns/retention.py, the lifecycle in    *)
(* app/campaigns/service.py, their routes and tasks.                       *)
(*                                                                         *)
(* A commit locks the job, the campaign and then one phone number after    *)
(* another, and shows its rows when it ends.  Working a number or          *)
(* suppressing it (the module WorkItems) takes the lock of that number.    *)
(* Lifecycle requests, the completion task, deletion, decisions and the    *)
(* sweep of old jobs lock nothing: each acts on the row it has loaded.     *)
(* The database contributes foreign keys, and that an UPDATE waits for a   *)
(* lock on its row.                                                        *)
(*                                                                         *)
(* Feature flags and capabilities only refuse requests and are left out.   *)
(***************************************************************************)
EXTENDS Integers, FiniteSets, Sequences

CONSTANTS
  Campaigns,
  Phones,        \* fingerprints: numbers, for their order
  Jobs,          \* uploads
  For, File,     \* [Jobs -> Campaigns], [Jobs -> SUBSET Phones]
  Staff,         \* requests in flight
  Worker,        \* the task worker
  Requests,      \* what staff ask for in this instance
  MaxDecisions   \* per job

ASSUME DataAssumption ==
  /\ Phones \subseteq Nat /\ IsFiniteSet(Phones) /\ MaxDecisions \in Nat
  /\ For \in [Jobs -> Campaigns] /\ File \in [Jobs -> SUBSET Phones]
  /\ Worker \notin Staff

VARIABLES
  campaign,   \* [Campaigns -> [status, countdown]]
  roster,     \* campaign contacts: [Campaigns -> [Phones -> how far the number is]]
  contacts,   \* phones with a row in contacts
  dnc,        \* phones with an active suppression entry
  job,        \* [Jobs -> [state, version, rows, expires]]
  decisions,  \* [Jobs -> what was decided, in the order it was recorded]
  tx          \* [Staff \cup {Worker} -> the transaction under way]

vars == <<campaign, roster, contacts, dnc, job, decisions, tx>>

\* A cancellation acts as a rejection does.
Verdicts == {"approve", "reject"}
Clients == Staff \cup {Worker}
Idle == [op |-> "idle"]
NoJob == [state |-> "none", version |-> 0, rows |-> {}, expires |-> "none"]

Init ==
  /\ campaign = [c \in Campaigns |-> [status |-> "draft", countdown |-> "none"]]
  /\ roster = [c \in Campaigns |-> [p \in Phones |-> "absent"]]
  /\ contacts = {} /\ dnc = {}
  /\ job = [j \in Jobs |-> NoJob]
  /\ decisions = [j \in Jobs |-> <<>>]
  /\ tx = [a \in Clients |-> Idle]

Listed(c) == {p \in Phones : roster[c][p] # "absent"}
Become(a, t) == tx' = [tx EXCEPT ![a] = t]
Ended(a) == Become(a, Idle)

\* Row and advisory locks held by commits.
Committing == {a \in Clients : tx[a].op = "commit" /\ tx[a].began}
JobLocked(j) == \E a \in Committing : tx[a].on = j
CampaignLocked(c) == \E a \in Committing : For[tx[a].on] = c
\* Fault: no phone lock is taken.
NoHolder(p) == {}
\* Who has the phone's advisory lock.
Holders(p) == {a \in Committing : p \in tx[a].locked}
\* Contact rows a deletion has deleted and not committed yet.
BeingDeleted == UNION {tx[a].orphans : a \in {a \in Clients : tx[a].op = "delete" /\ tx[a].began}}

-----------------------------------------------------------------------------
(* Uploads and decisions. *)

\* create_import_job.
Upload(j) ==
  /\ "import" \in Requests
  /\ job[j].state = "none"
  /\ job' = [job EXCEPT ![j].state = "quarantined", ![j].expires = "ahead"]
  /\ UNCHANGED <<campaign, roster, contacts, dnc, decisions, tx>>

\* parse_job: rows of numbers that are in the campaign already are marked as duplicates.
Parse(j) ==
  /\ job[j].state = "quarantined"
  /\ job' = [job EXCEPT ![j].state = "parsed", ![j].rows = File[j] \ Listed(For[j])]
  /\ UNCHANGED <<campaign, roster, contacts, dnc, decisions, tx>>
ParseFails(j) ==
  /\ job[j].state = "quarantined"
  /\ job' = [job EXCEPT ![j].state = "failed"]
  /\ UNCHANGED <<campaign, roster, contacts, dnc, decisions, tx>>

\* decide_import loads the job, in whatever state it is, and record_decision counts its
\* version up from there: a file can be decided before it is parsed.
LoadForDecision(a, j, d) ==
  /\ tx[a] = Idle /\ "import" \in Requests
  /\ job[j].state # "none"
  /\ Len(decisions[j]) < MaxDecisions
  /\ Become(a, [op |-> "decide", on |-> j, decision |-> d, version |-> job[j].version])
  /\ UNCHANGED <<campaign, roster, contacts, dnc, job, decisions>>
RecordDecision(a) ==
  /\ tx[a].op = "decide"
  /\ LET j == tx[a].on
         v == tx[a].version + 1 IN
     /\ ~JobLocked(j) /\ Len(decisions[j]) < MaxDecisions
     /\ job' = [job EXCEPT ![j].version = v]
     /\ decisions' = [decisions EXCEPT ![j] = Append(@, [version |-> v, decision |-> tx[a].decision])]
  /\ Ended(a)
  /\ UNCHANGED <<campaign, roster, contacts, dnc>>

-----------------------------------------------------------------------------
(* commit_job. *)

\* The route loads the job; one that is not parsed is refused or replayed.
LoadForCommit(a, j) ==
  /\ tx[a] = Idle /\ "import" \in Requests
  /\ job[j].state = "parsed"
  /\ Become(a, [op |-> "commit", on |-> j, version |-> job[j].version, began |-> FALSE,
                told |-> Len(decisions[j]), todo |-> {}, locked |-> {}, added |-> {}, barred |-> {}])
  /\ UNCHANGED <<campaign, roster, contacts, dnc, job, decisions>>

OfVersion(j, v) == {n \in DOMAIN decisions[j] : decisions[j][n].version = v}
\* Fault: any approval of the version counts.
EverApproved(j, v) == \E n \in OfVersion(j, v) : decisions[j][n].decision = "approve"
\* _latest_decision, when it approves.
Approved(j, v) ==
  \E n \in OfVersion(j, v) :
    /\ \A m \in OfVersion(j, v) : m <= n
    /\ decisions[j][n].decision = "approve"

\* The job and the campaign are locked; the job's version is the one loaded.
BeginCommit(a) ==
  /\ tx[a].op = "commit" /\ ~tx[a].began
  /\ LET j == tx[a].on IN
     /\ ~CampaignLocked(For[j])
     /\ Approved(j, tx[a].version)
     /\ Become(a, [tx[a] EXCEPT !.began = TRUE, !.todo = job[j].rows])
  /\ UNCHANGED <<campaign, roster, contacts, dnc, job, decisions>>

\* Fault: rows are taken as they come.
AnyRow(a) == tx[a].todo
\* ORDER BY phone_fingerprint.
NextRow(a) == {p \in tx[a].todo : \A q \in tx[a].todo : p <= q}

\* Fault: the duplicates are those found when parsing.
NeverImported(c, p) == FALSE
\* The number is in the campaign by now: the row is skipped.
AlreadyInCampaign(c, p) == p \in contacts /\ roster[c][p] # "absent"

CommitRow(a, p) ==
  /\ a \in Committing /\ p \in NextRow(a)
  /\ Holders(p) \subseteq {a}
  /\ LET skip == AlreadyInCampaign(For[tx[a].on], p) IN
     /\ ~skip => p \notin BeingDeleted    \* the foreign key waits
     /\ Become(a, [tx[a] EXCEPT !.todo = @ \ {p}, !.locked = @ \cup {p},
                     !.added = IF skip THEN @ ELSE @ \cup {p},
                     !.barred = IF skip \/ p \notin dnc THEN @ ELSE @ \cup {p}])
  /\ UNCHANGED <<campaign, roster, contacts, dnc, job, decisions>>

EndCommit(a) ==
  /\ a \in Committing /\ tx[a].todo = {}
  /\ LET j == tx[a].on
         c == For[j] IN
     /\ roster' = [roster EXCEPT ![c] = [p \in Phones |->
          CASE p \in tx[a].barred -> "suppressed"
            [] p \in tx[a].added \ tx[a].barred -> "open"
            [] OTHER -> @[p]]]
     /\ contacts' = contacts \cup tx[a].added
     /\ job' = [job EXCEPT ![j].state = "committed"]
  /\ Ended(a)
  /\ UNCHANGED <<campaign, dnc, decisions>>

\* Any refusal or error rolls the transaction back.  The purge does not
\* fail while it waits for a lock.
Rollback(a) ==
  /\ tx[a] # Idle
  /\ a = Worker /\ tx[a].op = "delete" => tx[a].began /\ ~CampaignLocked(tx[a].on)
  /\ Ended(a)
  /\ UNCHANGED <<campaign, roster, contacts, dnc, job, decisions>>

-----------------------------------------------------------------------------
(* Calls (the module WorkItems), seen from here. *)

Workable(c, p) ==
  /\ campaign[c].status # "draft" /\ roster[c][p] = "open"
  /\ Holders(p) = {} /\ p \notin BeingDeleted

\* A final outcome.
Work(c, p) ==
  /\ Workable(c, p)
  /\ roster' = [roster EXCEPT ![c][p] = "completed"]
  /\ UNCHANGED <<campaign, contacts, dnc, job, decisions, tx>>

\* _suppress_contact_everywhere closes the work items there are.
Suppress(c, p) ==
  /\ Workable(c, p)
  /\ dnc' = dnc \cup {p}
  /\ roster' = [b \in Campaigns |-> [roster[b] EXCEPT ![p] = IF @ = "open" THEN "completed" ELSE @]]
  /\ UNCHANGED <<campaign, contacts, job, decisions, tx>>

-----------------------------------------------------------------------------
(* The campaign's lifecycle. *)

From(action) == CASE action = "launch" -> {"draft"}
                  [] action = "pause" -> {"active"}
                  [] action = "archive" -> {"draft", "active", "paused"}
To(action) == CASE action = "launch" -> "active"
                [] action = "pause" -> "paused"
                [] action = "archive" -> "archived"

LoadForLifecycle(a, c, action) ==
  /\ tx[a] = Idle /\ action \in Requests
  /\ campaign[c].status \in From(action)
  /\ action = "launch" => Listed(c) # {}
  /\ Become(a, [op |-> "lifecycle", on |-> c, to |-> To(action)])
  /\ UNCHANGED <<campaign, roster, contacts, dnc, job, decisions>>
ChangeLifecycle(a) ==
  /\ tx[a].op = "lifecycle" /\ ~CampaignLocked(tx[a].on)
  /\ campaign' = [campaign EXCEPT ![tx[a].on].status = tx[a].to]
  /\ Ended(a)
  /\ UNCHANGED <<roster, contacts, dnc, job, decisions>>

\* campaign_is_complete.  (One campaign of the task's loop.)
Complete(c) ==
  /\ campaign[c].status = "active"
  /\ Listed(c) # {}
  /\ \A p \in Listed(c) : roster[c][p] = "completed"
DetectComplete(c) ==
  /\ tx[Worker] = Idle /\ Complete(c)
  /\ Become(Worker, [op |-> "detect", on |-> c])
  /\ UNCHANGED <<campaign, roster, contacts, dnc, job, decisions>>
MarkCompleted ==
  /\ tx[Worker].op = "detect" /\ ~CampaignLocked(tx[Worker].on)
  /\ campaign' = [campaign EXCEPT ![tx[Worker].on] = [status |-> "completed", countdown |-> "running"]]
  /\ Ended(Worker)
  /\ UNCHANGED <<roster, contacts, dnc, job, decisions>>

\* 60 days pass.
CountdownEnds(c) ==
  /\ campaign[c].countdown = "running"
  /\ campaign' = [campaign EXCEPT ![c].countdown = "over"]
  /\ UNCHANGED <<roster, contacts, dnc, job, decisions, tx>>

-----------------------------------------------------------------------------
(* delete_completed_campaign_data, asked for by a page or by the purge. *)

Deletion(a, c) ==
  /\ tx[a] = Idle /\ campaign[c].status = "completed"
  /\ Become(a, [op |-> "delete", on |-> c, began |-> FALSE, numbers |-> {}, orphans |-> {}])
  /\ UNCHANGED <<campaign, roster, contacts, dnc, job, decisions>>
\* Nothing changes when there is nothing to delete.
AskDeletion(a, c) == "delete" \in Requests /\ Listed(c) # {} /\ Deletion(a, c)

\* Fault: the purge takes what has still to count down.
NotYet(c) == campaign[c].countdown = "running"
\* The purge's selection.
Due(c) == campaign[c].countdown = "over"
Purge(c) == Due(c) /\ Deletion(Worker, c)

\* Fault: the numbers other campaigns have are deleted as well.
NumbersOf(c) == Listed(c) \cap contacts
\* Every number of the campaign leaves it, and contacts no other campaign refers
\* to, as far as this transaction sees, leave the database.
Orphans(c) == {p \in Listed(c) \cap contacts : \A b \in Campaigns \ {c} : roster[b][p] = "absent"}
DeleteRows(a) ==
  /\ tx[a].op = "delete" /\ ~tx[a].began
  /\ LET c == tx[a].on IN
     /\ Listed(c) \cap BeingDeleted = {}     \* the other deletion's row locks
     /\ \A b \in Committing : Orphans(c) \cap tx[b].added = {}
     /\ Become(a, [tx[a] EXCEPT !.began = TRUE, !.numbers = Listed(c), !.orphans = Orphans(c)])
  /\ UNCHANGED <<campaign, roster, contacts, dnc, job, decisions>>

EndDeletion(a) ==
  /\ tx[a].op = "delete" /\ tx[a].began
  /\ LET c == tx[a].on IN
     /\ ~CampaignLocked(c)
     /\ roster' = [roster EXCEPT ![c] = [p \in Phones |-> IF p \in tx[a].numbers THEN "absent" ELSE @[p]]]
     /\ contacts' = contacts \ tx[a].orphans
     /\ campaign' = [campaign EXCEPT ![c].countdown = "none"]
  /\ Ended(a)
  /\ UNCHANGED <<dnc, job, decisions>>

-----------------------------------------------------------------------------
(* cleanup_expired_jobs. *)

JobExpires(j) ==
  /\ job[j].expires = "ahead"
  /\ job' = [job EXCEPT ![j].expires = "past"]
  /\ UNCHANGED <<campaign, roster, contacts, dnc, decisions, tx>>

SelectExpired(j) ==
  /\ tx[Worker] = Idle /\ job[j].expires = "past"
  /\ job[j].state = "expired" => job[j].rows # {}     \* or nothing is left to do
  /\ Become(Worker, [op |-> "sweep", on |-> j, seen |-> job[j].state])
  /\ UNCHANGED <<campaign, roster, contacts, dnc, job, decisions>>
\* The state is written when it differs from the one selected.
RetireJob ==
  /\ tx[Worker].op = "sweep"
  /\ LET j == tx[Worker].on IN
     /\ ~JobLocked(j)
     /\ job' = IF tx[Worker].seen = "committed" THEN [job EXCEPT ![j].expires = "none"]
               ELSE [job EXCEPT ![j].rows = {},
                       ![j].state = IF tx[Worker].seen = "expired" THEN @ ELSE "expired"]
  /\ Ended(Worker)
  /\ UNCHANGED <<campaign, roster, contacts, dnc, decisions>>

-----------------------------------------------------------------------------
Request(a) ==
  \/ \E j \in Jobs, d \in Verdicts : LoadForDecision(a, j, d)
  \/ \E j \in Jobs : LoadForCommit(a, j)
  \/ \E c \in Campaigns, x \in {"launch", "pause", "archive"} : LoadForLifecycle(a, c, x)
  \/ \E c \in Campaigns : AskDeletion(a, c)

\* The next step of a transaction under way.
Proceed(a) ==
  \/ RecordDecision(a) \/ BeginCommit(a) \/ EndCommit(a)
  \/ \E p \in Phones : CommitRow(a, p)
  \/ ChangeLifecycle(a) \/ DeleteRows(a) \/ EndDeletion(a)

Tasks ==
  \/ \E j \in Jobs : Parse(j) \/ ParseFails(j) \/ JobExpires(j) \/ SelectExpired(j)
  \/ \E c \in Campaigns : DetectComplete(c) \/ CountdownEnds(c) \/ Purge(c)
  \/ MarkCompleted \/ RetireJob

Next ==
  \/ \E j \in Jobs : Upload(j)
  \/ \E a \in Staff : Request(a)
  \/ \E a \in Clients : Proceed(a) \/ Rollback(a)
  \/ \E c \in Campaigns, p \in Phones : Work(c, p) \/ Suppress(c, p)
  \/ Tasks

Spec == Init /\ [][Next]_vars

\* The clock runs, transactions end, and the purge is run every hour: it is
\* selected again after whatever failed, and succeeds if it could ever again.
Fairness ==
  /\ \A c \in Campaigns : WF_vars(CountdownEnds(c)) /\ SF_vars(Purge(c))
  /\ \A a \in Staff : WF_vars(Proceed(a) \/ Rollback(a))
  /\ SF_vars(MarkCompleted) /\ SF_vars(RetireJob)     \* a row lock is granted in the order asked for
  /\ SF_vars(DeleteRows(Worker)) /\ SF_vars(EndDeletion(Worker))
FairSpec == Spec /\ Fairness

-----------------------------------------------------------------------------
(* Properties. *)

JobStates == {"none", "quarantined", "parsed", "failed", "committed", "expired"}
JobRow == [state : JobStates, version : Nat, rows : SUBSET Phones, expires : {"none", "ahead", "past"}]
CampaignRow == [status : {"draft", "active", "paused", "archived", "completed"},
                countdown : {"none", "running", "over"}]
Decision == [version : Nat, decision : Verdicts]
Commits == [op : {"commit"}, on : Jobs, version : Nat, began : BOOLEAN, told : Nat,
            todo : SUBSET Phones, locked : SUBSET Phones, added : SUBSET Phones, barred : SUBSET Phones]
Deletions == [op : {"delete"}, on : Campaigns, began : BOOLEAN,
              numbers : SUBSET Phones, orphans : SUBSET Phones]
Transactions ==
  {Idle} \cup Commits \cup Deletions
    \cup [op : {"decide"}, on : Jobs, decision : Verdicts, version : Nat]
    \cup [op : {"lifecycle"}, on : Campaigns, to : {"active", "paused", "archived"}]
    \cup [op : {"detect"}, on : Campaigns]
    \cup [op : {"sweep"}, on : Jobs, seen : JobStates]

\* Every variable has its type, and a campaign contact has its contact row,
\* through concurrent deletions and imports of the same number.
TypeOK ==
  /\ campaign \in [Campaigns -> CampaignRow]
  /\ roster \in [Campaigns -> [Phones -> {"absent", "open", "completed", "suppressed"}]]
  /\ \A c \in Campaigns : Listed(c) \subseteq contacts
  /\ contacts \subseteq Phones /\ dnc \subseteq Phones
  /\ job \in [Jobs -> JobRow]
  /\ decisions \in [Jobs -> Seq(Decision)]
  /\ tx \in [Clients -> Transactions]

\* lock_phone_fingerprint "serialize[s] import, suppression, and leasing
\* decisions": a commit that read the suppression list before a suppression and
\* shows its rows after it queues nothing the suppression should have closed.
SuppressedNeverQueued ==
  \A c \in Campaigns, p \in dnc : roster[c][p] # "open"

\* Commits take phone locks in fingerprint order, so they never wait for each
\* other, whatever campaigns and files they are for.
WaitsFor(a, b) == \E p \in NextRow(a) : b \in Holders(p) \ {a}
ImportsNeverDeadlock ==
  \A a, b \in Committing : ~(WaitsFor(a, b) /\ WaitsFor(b, a))

\* The last decision known when the commit was requested, or a later one, is the
\* approval it acts on: two people deciding at once, who then share a version,
\* do not hide a rejection behind an older approval.
RejectionHolds ==
  [][\A a \in Committing' \ Committing :
       \E n \in DOMAIN decisions[tx[a].on] :
         n >= tx[a].told /\ decisions[tx[a].on][n].decision = "approve"]_vars

\* classify_row, called again by commit_job: a number that has its final outcome in a
\* campaign is not queued there again by a commit that began before or after it.
OutcomeIsFinal ==
  [][\A c \in Campaigns, p \in Phones :
       roster[c][p] \in {"completed", "suppressed"} => roster'[c][p] # "open"]_vars

\* ADR-020's hard backstop: a countdown ends in the removal of the data, unless
\* a lifecycle request that loaded the campaign earlier overwrote its state.
BackstopHolds ==
  \A c \in Campaigns :
    (campaign[c].countdown # "none") ~> (campaign[c].countdown = "none" \/ campaign[c].status # "completed")

=============================================================================

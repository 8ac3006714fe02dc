# CipherContact in TLA+

CipherContact is a calling platform: agents of a call centre are shown one contact
at a time, call it, and record an outcome; managers staff campaigns, import
contacts and staff lists, and review exhausted contacts.  It is a FastAPI application
with synchronous SQLAlchemy sessions over PostgreSQL (READ COMMITTED), and a Celery
worker with a periodic schedule.  This directory holds a TLA+ model of its core,
checked by TLC and proved about with TLAPS.  Paths below are relative to the
repository root.

## 1. Inventory

| Component | State it keeps | Operations | Talks to | What is hard |
|---|---|---|---|---|
| Work queue (`app/work`) | `work_items`: state, assigned agent, due time, attempts, ceiling, skips, lease (owner, id, expiry, reason) | `lease_next`, `renew_lease`, `complete_work_item`, `skip_work_item`, `reclaim_expired_leases`, `reclaim_leases_for_user`, `release_campaign_work_for_agent`, three review decisions | contacts, suppressions, assignments, campaigns, flags, settings | leases expire at any moment; many paths set or clear the same columns; agents, managers, reviewers and sweeps act on one row |
| Call attempts (`app/work`, `app/models/work.py`) | immutable `call_attempts`, unique per agent and idempotency key | written by `complete_work_item`; replayed | work queue, gamification, reports | duplicated and late requests; a redial returns a new lease |
| Do-not-call (`app/work`) | `suppression_entries` | created only by an explicit-DNC completion | every campaign holding the number, imports | one request closes rows other people are working on |
| Staffing (`app/campaigns`) | `campaign_user_assignments`, team assignments | assign, end, transfer, capacity check | work queue (release) | ended and renewed assignments; two managers at once |
| Campaign lifecycle (`app/campaigns`) | `campaigns.status` | create, update, launch, pause, archive | imports, dispositions, work queue | status read and written without a lock |
| Completion and retention (`app/campaigns/retention.py`) | `completed_at`, purge date | hourly detection, deletion, purge | campaign contacts, imports | a task racing imports and completions; deletion in several statements |
| Import pipeline (`app/imports`) | `import_jobs`, rows, decisions, source files | create, parse, decide, commit, clean up | contacts, suppressions, campaigns | versions, phone locks, a clean-up racing a commit |
| Workforce imports (`app/workforce_imports`) | import jobs, rows, decisions in two tiers, reversal data | parse, decide, commit, reverse, clean up | workforce, staffing, credentials, authorization | stale authority; reversing rows whose subject has changed since |
| Workforce (`app/workforce`) | users, teams, roles, reporting lines | create, disable, reactivate, assign, end | sessions, work queue, authorization | privilege changes against live sessions |
| Authentication (`app/auth`) | password, TOTP, activation codes, sessions, rate limits | login, enrol, activate, reset, revoke | workforce | one-time codes, lock-outs, resets racing logins |
| Authorization (`app/authz`) | roles, delegations | capability checks, bulk lookups, delegations | everything | a delegation whose backing role has ended; several queries for one question |
| Bootstrap (`app/ops`) | the first administrator, a file with its activation code | one command | credentials | two operators; a file written before the commit |
| Feature flags (`app/flags`) | one row per flag | `set_flag` | most services | a flag turned off while work is under way |
| Dispositions (`app/campaigns/standard_dispositions.py`) | a campaign's outcome table | install, validate, update retry policy | completion | the table decides what completion does |
| Gamification (`app/gamification`) | achievements, preferences | hourly reconciliation | call attempts | idempotent recomputation |
| Notifications, audit, reports, export | append-only or read-only | | | little: nothing reads them to decide |
| Locks and sessions (`app/db_locks.py`, `app/db.py`) | advisory locks; the copies a session keeps | lock, try-lock, flush | everything | lock order; rows passed over; a lock that does not refresh a copy |
| Web, API, worker | none of their own | routing, schedule | all | one request is one transaction |

What makes each of the main components correct:

* **Work queue** - an agent holds one contact; a contact has one holder; a lease id
  is live on one row and pays for one call; nobody's live lease is taken without a
  reason; what is offered is due, callable, in a running campaign and (for
  callbacks) its owner's; what expires comes back; what is closed stays closed;
  nothing waits for somebody who cannot come.
* **Call attempts** - attempt counters equal the recorded attempts, keys are unique,
  a replay returns what was first decided.
* **Do-not-call** - after the commit no open item of the number exists anywhere, no
  import makes one, and closed ones are not rewritten.
* **Staffing** - work is offered to staffed agents only; leaving gives work back.
* **Imports, completion, retention** - the latest decision counts; commits never wait for
  each other; a finished number is not queued again; a completed campaign's data goes in
  the end, and nothing another campaign needs goes with it.
* **Workforce imports** - two people for high-risk rows; authority held when the row takes
  effect; a rejection stays; a reversal undoes the import and nothing else; uploads go.
* **Authentication** - one code works, and only the newest; whatever is reset, a password or
  a code is left; what was revoked is not written back; a second factor is reset whole.
* **Authorization** - nobody holds what no role backs; all lookups answer alike; who loses
  authority loses the session that relied on it.
* **Bootstrap** - one first administrator, whose code survives every other run.

`PROJECT.json` lists the hazards with their source lines and the properties that
cover them.

## 2. Modules

| Module | Content |
|---|---|
| `WorkItems` | the work queue with everything that writes to its rows, one action per transaction |
| `ContactDisclosure` | the abstract promise: who is shown which contact |
| `CampaignData` | contact imports, completion, retention and the campaign lifecycle, cut at reads, locks and commits |
| `UnitOfWork` | what a database session's flush does to a row |
| `Credentials` | codes, passwords, second factors and sessions of accounts; uses `UnitOfWork` |
| `Authority` | roles, delegations, teams, every check and bulk lookup |
| `WorkforceRows` | one import row as a function of the workforce: classify, commit, reverse |
| `WorkforceImport` | the life of one import; extends `WorkforceRows` |
| `Bootstrap` | the bootstrap command |
| `WorkItemsProofs`, `WorkItemsLedger`, `WorkItemsRefinement` | theorems about `WorkItems` |
| `CampaignDataProofs`, `CredentialsProofs`, `AuthorityProofs`, `WorkforceImportProofs`, `BootstrapProofs` | theorems about the others |
| `MCWorkItems`, `MCCampaignData`, `MCCredentials`, `MCAuthority`, `MCWorkforceImport`, `MCBootstrap` | instances for TLC |

Left of the plan: an abstract specification of `CampaignData` (who is in which queue)
and of `Credentials` (one way in), with their refinements proved; the disposition table
as functions.

The operators commented "Fault:" are not part of a specification.  Each is a
plausible mistake in the operator below it; replacing that operator by it makes TLC
report the property `PROJECT.json` names.

## 3. `WorkItems`

State.  `work` holds the `work_items` columns that decide anything, `contact` the
`campaign_contacts` row of each item, `callAttempts` the attempts in insertion
order, `issued` every lease handed out (the position in this sequence is the lease
id, so ids are fresh as UUIDs are), `suppressed` the phones with a suppression,
`campaignStatus`, `assignments` and `ended` the staffing rows, `activeUsers` and
`flags` the rows the guards read, `now` the clock.  `late` is no column: it is the disabled
agents with requests under way that were let in before.

| Action | Code |
|---|---|
| `LeaseNext` = `LeaseCallback`, `LeaseRetry`, `LeaseFresh` | `lease_next` with its three candidate queries in their order |
| `RenewLease` | `renew_lease` |
| `CompleteClosing`, `CompleteReview`, `CompleteRequeue`, `CompleteRetry`, `CompleteRedial`, `CompleteCallback`, `CompleteDnc` | the branches of `complete_work_item` |
| `SkipWorkItem` | `skip_work_item` |
| `ReclaimExpiredLeases` | `reclaim_expired_leases`, run by the worker |
| `MayAct` | `get_authenticated_user`, which every request of an agent passes |
| `DisableUser`, `ReactivateUser` | `app/workforce/service.py` with `reclaim_leases_for_user` |
| `EndUserAssignment`, `TransferAgent`, `AssignAgent` | `app/campaigns/service.py` with `release_campaign_work_for_agent` |
| `RescheduleReviewItem`, `IncreaseReviewItemAttempts`, `CloseReviewItem` | the review decisions |
| `PauseCampaign`, `ArchiveCampaign`, `SetFlag` | as far as work items see them |
| `Tick` | the clock |

An action is one committed transaction.  A refused request rolls back, a replayed
completion and a resumed lease return what is stored: all three are stuttering
steps.  What is abstracted:

* Requests come with any lease id the agent has ever been given for the item, and any
  idempotency key: this covers repeated, late and stale-tab requests.
* The order of candidates by priority and creation time is left open (any queued
  item may come first); the order by due time, which properties are about, is kept.
* `busy` is the set of items another open transaction has locked: the queue queries
  pass over a phone whose try-lock fails, the sweeps over rows with `SKIP LOCKED`.
  It is empty unless `Contention` is set.
* `_lock_lease_candidate` would suppress an item whose number has a suppression.  A
  do-not-call transaction closes every open item of the number while it holds the
  number's lock, so no such item exists and only the guard `Callable` remains;
  `SuppressionIsFinal` is what this argument needs, and it is proved.
* `lease_next` reads the clock once, before its locks; the model reads it at commit.
* `created_at` of an attempt is taken when the request starts, but a request on an item
  needs a lease that only the previous completion's commit makes available, so the
  order by `created_at` on one item is the insertion order.
* Notes, durations, `version`, audit rows, rate limiting and the masked lists decide
  nothing here.  Draft campaigns, launch, import and the status `completed` belong to
  `CampaignData`: `Init` is launched campaigns over fresh contacts and any staffing
  `assign_agent_to_campaign` can have built.
* An agent has at most one active assignment row per campaign and type.
* A request reads the account (`get_authenticated_user`) before any lock, and no service
  reads it again.  An agent who is disabled therefore stays in `late`, and `MayAct`, until
  a request of theirs has ended with a lease they did not know of (`Grant`, the redial) or
  the account is enabled again (a second such request would change something only after
  the account is disabled a second time); a request let in and then refused or abandoned
  changes nothing.
* Everything else a transaction decides by is read behind the lock that its writers take,
  or else can be read as of the commit.  Leasing locks the assignment row it relies on
  (`FOR UPDATE`, `_active_primary_assignment`, `_active_assignment_for_campaign`), so
  ending that row waits, and then finds the new lease; the work item's state, due time and
  lease are read again under its lock, suppressions under the number's.  The campaign's
  status and the flags are read without a lock: a lease that commits after a pause it did
  not see is, for every other transaction, a lease just before the pause.

## 4. `ContactDisclosure`

Three variables: who is shown a contact, which contacts are closed, which phones are
barred.  A contact is disclosed only if it is open, its phone is not barred, nobody
else is shown it and the agent is shown nothing else; barring a phone closes all its
contacts at once.  `WorkItems` defines the mapping (`Disclosure`): the holder is
`lease_owner_id`, closed are the terminal states.  A redial, a renewal and every
change among waiting states is a stutter; a sweep is one withdrawal of many contacts.

## 5. `CampaignData`

State.  `campaign` (status, countdown), `roster` (how far each number is in each campaign:
absent, open, completed, or suppressed at import), `contacts` (the shared contact rows),
`dnc`, `job` and `decisions` (import jobs), and `tx`: for each person and for the worker,
the transaction under way.

A transaction is cut where it reads, waits for a lock, or commits:

| Actions | Code |
|---|---|
| `Upload`, `Parse`, `ParseFails` | `create_import_job`, `parse_job` |
| `LoadForDecision`, `RecordDecision` | the route that loads a job, `record_decision` |
| `LoadForCommit`, `BeginCommit`, `CommitRow`, `EndCommit` | `commit_job`: the load, the locks on job and campaign, one phone after another in fingerprint order, the commit |
| `LoadForLifecycle`, `ChangeLifecycle` | launch, pause, archive |
| `Work`, `Suppress` | a final outcome and a do-not-call request of `WorkItems`, as far as `campaign_contacts` sees them |
| `DetectComplete`, `MarkCompleted`, `CountdownEnds` | the hourly detection and the 60 days |
| `AskDeletion`, `Purge`, `DeleteRows`, `EndDeletion` | `delete_completed_campaign_data`, asked for by a person or by the purge |
| `JobExpires`, `SelectExpired`, `RetireJob` | `cleanup_expired_jobs` |
| `Rollback` | any refusal or error |

What the database contributes is modelled where it decides: a foreign key makes a row
that refers to a contact wait for a deletion of that contact (`BeingDeleted`) and a
deletion wait for an uncommitted reference; an `UPDATE` waits for a lock on its row; no
transaction sees another's uncommitted rows.  A commit works on the job as loaded,
because a locking read does not refresh an object the session has (`UnitOfWork`).
Decisions are recorded in any state of a job, as both routes do: one recorded before the
parse, or after the commit, counts as a version and is read by a later commit.  "Latest" is
by the order of recording; the code orders by a `created_at` taken in Python just before the
row is inserted, and two requests that overlap there, which only the update of the job
row separates, may have it the other way round.
Row validation and file formats are abstracted to the set of numbers a file contains;
the work item of a campaign contact is the `roster` entry; capabilities and flags only
refuse requests.

## 6. `Credentials` and `UnitOfWork`

A request is `Start` (what the route reads before any lock, and the copies its session
keeps), `Lock` (the `users` row, `FOR UPDATE`, and what is read after it) and `Finish`
(what is written, and the commit).  Requests: issuing a code, activation, login,
re-authentication, enrollment and its verification, password and second-factor reset,
disabling, reactivation.  `Flush` of `UnitOfWork` says what a write of an edited copy does
to the stored row: only changed columns are written, so a stale copy overwrites nothing
it did not mean to change - and fails to write a column whose stale value already is the
new one.  Codes are numbered per user in the order of issue and a password is named by the
code that set it, which is all the properties tell apart.  Time is one action each for a
code that expires and for a step-up that lapses.

## 7. `Authority`

`roles` and `delegations` are sequences of rows, as in the tables.  The capability matrix,
the scope cover relation, `has_scope_capability`, `has_capability`,
`scope_capabilities_matched`, `users_with_any_capability`, `user_in_admin_scope`,
`campaign_scope_filter` and the audit visibility are operators over them, translated query
by query: where the code answers one question with several queries, so does the model,
and `LookupsAgree` and `AuditedAreListed` compare them.  A request that appoints, lends or
ends a role checks in one step and writes in another, with no lock in between, as the
routes do.  Members, accounts and the clock change at any time.

## 8. `WorkforceRows` and `WorkforceImport`

`WorkforceRows` holds the pure part: for each of the six import types the verdict of
`classify.py` on a row, the effect of its commit on the workforce, the snapshot taken
before, and the effect of its reversal.  A link's `by` records the import row that made it
(`committed_entity_id`).  `WorkforceImport` is the life of one job around it: `Upload`,
the parse task with its retries (`Parse`, `ParseRefused`, `ParseRaises`, `Abandon`,
`ParseLate`), decisions in two tiers, `Load` and `CommitJob` or `ReverseJob` of clients
that have loaded the job and not yet locked it, `Replay`, the sweep (`SweepSelect`,
`SweepRetire`, `SweepFails`), and what other pages do to users, links and authority
(`OtherUserChange`, `OtherLinkMade`, `OtherLinkEnd`, `OtherReach`).  A commit or reversal
under the job lock is one step: rows and decisions are read after the lock and the
operations it calls are in the same transaction.  A commit takes the rows by number
(`ByNumber`); the query of a reversal has no `ORDER BY`, so `ReverseJob` takes them in
any order (`Orders`).

`Load` asks for no authority: the route of the API looks the job up by its id alone, and
the authority is tested by the operation.  Three details are left out.  A parse that is
refused may leave batches of 500 rows already written in a failed job; the model leaves
none, and the sweep deletes them with the job in either case.  The authority of the one who
commits (`Reach`) is constant within the commit's transaction, so a role that the file
itself ends does not withdraw authority from the rows after it.  And no team is
deactivated: no service does that, so the commit's `unknown_team` skip is not reached.

## 9. `Bootstrap`

A run of the command takes the advisory lock, refuses if there is an administrator,
inserts one, writes the code to a file that may be created only once, and commits.  It may
fail at any step, clean up, be killed, or commit and never learn of it.

## 10. Runs

| Run | Instance | Shows |
|---|---|---|
| `dnc` | one number in 2 campaigns, every outcome, 2 keys, reviewers | `TypeOK`, `SuppressionIsFinal`, `ContactFollowsWork`, `LeaseUsedOnce`, `AttemptLedger`, `WaitingItemsAreDue`, `CeilingRespected`, `ClosedStaysClosed`, `DisclosureSpec` |
| `staffing` | 2 numbers in 2 campaigns; one agent moves, one is disabled with requests under way, a campaign stops, callbacks are switched off, rows are locked; fair clock and sweep | `LeaseIdentity`, `OneContactPerAgent`, `GrantJustified`, `LiveLeaseKept`, `ExpiredLeaseReclaimed` |
| `orphan`, `disabled` | one contact, two agents | `NoOrphanedCallback` and `HolderIsEnabled` violated: see section 11 |
| `contacts` | 2 campaigns import the same 2 numbers; 2 people and the worker | `TypeOK`, `SuppressedNeverQueued`, `ImportsNeverDeadlock`, `OutcomeIsFinal` |
| `backstop` | 1 campaign, 1 number, 2 people with every request, 2 decisions | `BackstopHolds`, `RejectionHolds` |
| `codes` | 1 account, 2 requests at a time, 2 codes, 2 sessions | `TypeOK`, `OneUsableCode`, `PasswordOrCode`, `OnlyCurrentCodeActivates`, `StaleCopiesUndoNothing` |
| `reenroll` | 1 account, 2 requests, 1 code | `MfaResetClears` violated: see section 11 |
| `grants` | 3 users, a chain of appointments, a loan, 1 request | `TypeOK`, `NoEscalation`, `LookupsAgree`, `AuditedAreListed`, `LosingAuthorityEndsSessions` |
| `imports` | files two people can fight over, 2 clients, 1 change elsewhere | `TwoPersonRule`, `OneLinkPerSlot`, `EffectsAreAuthorized`, `RejectedStaysOut`, `ReversalKeepsOthers`, `ReversedOnce` |
| `retire` | every kind of file, 1 client, a failing sweep | `TypeOK`, `UploadsRetire` |
| `operators` | 3 operators, 3 runs each | `OneFirstAdministrator`, `CodeKept` |

All but `codes` and `reenroll` set `CHECK_DEADLOCK FALSE`: clocks, leases, uploads and
tries are bounded, so these instances run out of steps.

Bounds.  In `WorkItems` the clock runs to 3 or 4 ticks and a lease lasts 1 or 2, so a lease
can be held, renewed, be at its expiry instant, be past it, and be followed by another;
two or three leases allow a first call, a redial or retry and a second agent's turn; two
attempts are the ceiling and two skips the review limit, so both limits are met and
passed.  Two agents and two contacts are the smallest numbers for which exclusiveness,
sharing and the do-not-call cascade mean anything.  `RoomForLease` and the clock guards in
`RenewLease` and `CompleteRetry` cut behaviours off at the bounds, nothing else does.
In `CampaignData` two campaigns that share two numbers are what lock order, shared contact
rows and concurrent deletions need; `MaxDecisions` of 2 lets two people share a version.
In `Credentials` two codes are one that is used or replaced and one that replaces it, two
sessions the one that enrolls and the one enrollment opens; no property relates two
accounts.  In `Authority` three users are an owner, a delegate and the one
appointed; one delegation runs out within the clock's one tick.  In `WorkforceImport` a
file has two rows at most, which is what slots taken twice in one file need; one change
elsewhere falls at any point, and two decisions are an approval and its rejection or the
two tiers.  In `Bootstrap` three operators with three runs each exceed what any behaviour
of interest uses.  Symmetry is declared only over sets no other constant singles out, and
never in a run with a liveness property.

Fairness.

* `WorkItems`: time passes and `ReclaimExpiredLeases({})` - a sweep that finds every
  expired row unlocked - is not put off for ever.  The schedule in `app/worker.py` starts
  a sweep every two minutes, a row lock lasts no longer than a request, and the task is
  redelivered if its worker dies (`task_acks_late`).  No agent, reviewer or manager is
  assumed to do anything.
* `CampaignData`: the clock runs, transactions end, and the tasks' steps are strongly
  fair: PostgreSQL grants a row lock in the order in which it was asked for, and the
  hourly schedule selects again what a failed run left.  A deletion by the purge does not
  fail while it waits for a lock.  People need do nothing.
* `WorkforceImport`: the retention date passes, the sweep is started every hour, and does
  not fail every time for ever.  Parser and people need do nothing.

## 11. Where code and documents disagree

Three disagreements have a run.

`orphan`: a callback that its agent leases and skips (or requeues) returns to
the shared queue with `assigned_agent_id` still set.  Somebody else leases it; the first
agent leaves the campaign, which releases only what that agent holds or waits for; the
lease expires, and the sweep, going by `assigned_agent_id`, turns the item into a callback
of an agent who is gone.  `lease_next` will never offer it.

`disabled`: "disabling a user immediately revokes active sessions and leases" (plan v0.3,
6.4; `disable_user`).  A request for a contact that was let in before is answered with a
lease after: `reclaim_leases_for_user` found none yet, and `lease_next` does not read the
account again.  The disabled agent's lease lasts until it expires.

`reenroll`: `reset_mfa` "clears TOTP enrollment".  If it has loaded the account while an
enrollment is under way and the enrollment commits first, its copy already says "not
enrolled"; the flush writes the secret only, and the account is left enrolled without one.
`authenticate` then refuses every sign-in, while the directory shows the account as ready;
another reset repairs it.

The others follow from the models and are stated here without a run.

Work queue:

* For the same reason a callback answered with Hung Up and left to expire returns to its
  agent, where the phase 4D plan (6.3) says the shared queue.
* A Hung Up in a paused campaign issues a new lease, though pausing is to prevent new
  leases (plan v0.3, 11.14) and to release the renewed hold (phase 4D plan, 13.3).
* Ending an assignment that is already over is accepted and releases the work of an agent
  who has been assigned to the campaign again.

Contacts and campaigns:

* `delete_completed_campaign_data` removes "any Contact left with no other campaign
  referencing it".  Two deletions at once of campaigns that share a number each still see
  the other's row, and the contact stays for good.
* A campaign is found complete while an import is about to commit; its open contacts are
  purged after 60 days without a call.
* A contact suppressed at import has no `completed_at`, so its campaign never completes.
* Launch, pause or archive of a copy loaded earlier overwrites "completed": the countdown
  stays, the purge no longer selects the campaign.  `BackstopHolds` leaves this out.
* A doubly requested commit runs twice: the second changes no row and overwrites
  `committed_result`.  The clean-up may mark as expired a job that committed after it was
  selected.

Workforce imports:

* Two commits that have both loaded the job before either is done both run, and the second
  result replaces the first, also under the same key, where plan v0.3, 11.2 step 13, says
  "Repeating the same import idempotency key returns the original result."
* The clean-up may mark as expired an import that committed after it was selected; a
  commit loaded before the clean-up then commits no rows.
* Whether a link was changed since is decided by comparing values, so one that was ended
  and made again the same way looks untouched.
* Reversing the end of a post restores the team named in the row, not the team the post
  had; reversing a reporting line restores a supervisor who may since be disabled.

Credentials:

* A code may be issued to an account that is activated at the same moment ("Not for an
  already-activated account"): the check reads the copy loaded before the lock.
* `reset_mfa` of a copy loaded before an enrollment was begun leaves the new enrollment in
  place, and `begin_totp` of a copy loaded before an enrollment replaces its secret: `Flush` writes
  what differs from the copy.
* A sign-in under way while all sessions of the account are revoked survives.

Authority:

* "Coverage must mirror the authorization core" (`visible_team_ids`), which delegated
  appointing capabilities do not: the directory reads role assignments only.
* Reporting lines may form a circle, in imports as on the pages.

Bootstrap:

* After a lost commit answer the command removes the file and reports that "bootstrap
  failed before a credential could be issued", though the administrator exists; a code
  has to be issued by hand.

## 12. Proofs

Every safety invariant and every action property that a passing run checks is also a
theorem of its specification, proved for every value of the constants that satisfies the
modules' named assumptions.

| Module | Theorem | Statement |
|---|---|---|
| `WorkItemsProofs` | `Typing` | `Spec => []TypeOK` |
| | `Safety` | `Spec => []SafeInv`, `SafeInv == LeaseIdentity /\ OneContactPerAgent /\ SuppressionIsFinal` |
| | `LeaseIdentityHolds`, `OneContactPerAgentHolds`, `SuppressionIsFinalHolds` | its three parts |
| `WorkItemsLedger` | `LeaseUsedOnceHolds`, `AttemptLedgerHolds`, `ContactFollowsWorkHolds`, `WaitingItemsAreDueHolds` | the invariants they name |
| | `ClosedStaysClosedHolds`, `LiveLeaseKeptHolds`, `GrantJustifiedHolds` | the action properties they name |
| | `CeilingRespectedHolds` | `Spec => []CeilingRespected` |
| `WorkItemsRefinement` | `Refinement` | `Spec => DisclosureSpec` |
| `CampaignDataProofs` | `Typing` | `Spec => []TypeOK` |
| | `SuppressionHolds`, `NoDeadlock` | `Spec => []SuppressedNeverQueued`, `Spec => []ImportsNeverDeadlock` |
| | `OutcomesAreFinal`, `RejectionIsHeard` | `Spec => OutcomeIsFinal`, `Spec => RejectionHolds` |
| `CredentialsProofs` | `Typing`, `OneCode`, `PasswordOrCodeHolds` | `Spec => []TypeOK`, `[]OneUsableCode`, `[]PasswordOrCode` |
| | `CurrentCodes`, `StaleCopies` | `Spec => OnlyCurrentCodeActivates`, `StaleCopiesUndoNothing` |
| `AuthorityProofs` | `Typing`, `Escalation`, `Lookups`, `AuditTrail` | `Spec => []TypeOK`, `[]NoEscalation`, `[]LookupsAgree`, `[]AuditedAreListed` |
| | `Sessions` | `Spec => LosingAuthorityEndsSessions` |
| `WorkforceImportProofs` | `Typing`, `SecondPerson`, `OneLink` | `Spec => []TypeOK`, `[]TwoPersonRule`, `[]OneLinkPerSlot` |
| | `EffectsAuthorized`, `RejectedOut`, `OthersKept`, `OnceReversed` | `Spec => EffectsAreAuthorized`, `RejectedStaysOut`, `ReversalKeepsOthers`, `ReversedOnce` |
| `BootstrapProofs` | `Typing`, `OneAdministrator`, `CodeStays` | `Spec => []TypeOK`, `[]OneFirstAdministrator`, `Spec => CodeKept` |

### Assumptions

The bounds are natural numbers, and the parts of an instance fit together: the founder is
a user, an importer is a user, an offered role can be appointed and its place exists.  Two
say more.  `FilesAssumption` of `WorkforceImport`: the rows of a file form a sequence, and a
row that passes the checks of its form (`ok`) names an action of its type and, for an update,
a profile; this is the row validation that the model does not repeat cell by cell.
`WorkforceAssumption`: the workforce before the upload satisfies the partial unique
indexes that migrations 0001, 0002 and 0008 create.  TLC evaluates each of these in the runs
of the module.

### The work queue

`WorkItemsProofs` first proves `TypeOK` inductive: one lemma per group of actions, resting on
lemmas that each row operator (`Released`, `Returned`, `Counted`, `LeasedTo`) keeps the
row type.  Then it proves `SafeInv` inductive relative to `TypeOK`.  No part is inductive
alone.  `CompleteRedial` gives a lease without looking for another one, so
`OneContactPerAgent` is kept only because the agent's present lease, being on this
row, is its only one.  A completion may rewrite its row only because a leased row is
open, and the do-not-call cascade only leaves other rows alone because those it skips
are already closed - cleared of their leases, which is `LeaseIdentity`.  The proof
sorts the actions into four shapes (`RowClearedSafe`, `RowLeasedSafe`, `RowsSweptSafe`,
`UntouchedSafe`), and the do-not-call cascade on its own.

`WorkItemsLedger` adds `LedgerInv`, what the queue remembers: `LeaseUsedOnce`,
`AttemptLedger`, `ContactFollowsWork` and `WaitingItemsAreDue`, inductive together with
`SafeInv`.  A step writes a row in one of two ways.  Most writes are quiet (`QuietRow`): they
count no attempt, close nothing, and leave on the row the lease it had, none, or the next one
to be issued; `QuietLedger` carries the invariant over all of them at once.  A completion
adds one attempt and gives up the lease it was made under; `AttemptAdded` and
`RecordedLedger` show that this lease had paid for nothing before, which is `LeaseUsedOnce`
together with `LeaseIdentity`, and that the count grows by one, which is a lemma about the
cardinality of `AttemptsOn`.  `ContactFollowsWork` needs the order of attempts: a completed
contact is credited with the last of them because the item, being closed, gets no other.
The three action properties are proved from the same case analysis (`StepOK`), one row at a
time.  `CeilingRespected` is inductive given these: the position of an attempt among those
of its item never changes (`BeforeBounded`), an attempt that keeps its item going is
recorded while the count is below the ceiling, and a reviewer moves a ceiling only to
above the count, which is at least the position (`CeilingSteps`, `CeilingKept`).

`WorkItemsRefinement` maps every action to a disclosure, a withdrawal, a closure, a bar
or a stutter.  `SafeInv` supplies the guards of the abstract actions: that the agent is
shown nothing else, that a row being completed is open, and that closing the cascade's
rows closes every contact of the phone.

### Contacts and campaigns

`CampaignDataProofs` proves inductive the conjunction of `TypeOK`, `SuppressedNeverQueued`
and five facts about transactions under way.  `OneCommit`: at most one commit holds a
campaign, so two commits never add to one roster.  `NothingBeforeLocks`: a commit has
decided only about numbers it has locked, so a suppression, which needs the lock, comes
before or after.  `LocksAscend`: what it has locked lies below what it has to do, which is
the whole of deadlock freedom.  `CommitsAreCurrent`: a number it is adding is not in the
campaign yet, and is barred if it is suppressed - which the end of the commit needs for
`SuppressedNeverQueued` and `OutcomeIsFinal`.  `OrphansStayUnused`: no campaign comes to use
a contact that a deletion has deleted, which typing needs, because it says that every
campaign contact has its contact.  Transactions touch one entry of `tx`, and the lemmas
`QuietStep`, `IdleStep` and `OutsideStep` carry the invariant over the steps that change
nothing else of it.

`RejectionIsHeard` is not a matter of versions being unique: `record_decision` counts from
the copy it has loaded, so two people may record the same version.  What is inductive is
that the last decision recorded carries the version the job then shows (`LastHasVersion`),
and that a commit's copy shows the version of the last decision it was told of
(`ToldHasVersion`).  An approval found by version is therefore that decision or one recorded
later.

### Accounts

`CredentialsProofs` splits the steps in two.  Those that hold no `users` row, or hold it and
write neither codes nor passwords, are `Quiet`.  Issuing, resetting and activating are left,
and for them the invariant is `ReadBehindLock` (a request that holds a row knows every
outstanding code of the account, and one that activates holds an outstanding code),
`OnlyNewest` (what is outstanding is the newest code) and `SomeCodeLeft` (an account that
was given a code and has no password has an outstanding one).  The last two are
`OneUsableCode` and `PasswordOrCode`; neither is inductive without the first, because
what a request writes is what it read.  `FlushAccount` and `FlushSession` say what a
stale copy can do to a stored row, which is all that `StaleCopies` and typing need.

`AuthorityProofs` needs little beyond typing for its invariant: what was lent can be lent
(`LentIsLendable`), and what requests under way have read still means what it did
(`ReadsHold`).  The work is in the operators.  `Escalation` rests on the transitivity of the
cover relation and of visibility (`CoversTransitive`, `SightTransitive`): a delegation
covered by a role, and a place covered by the delegation.  `Lookups` and `AuditTrail` compare
queries, for arbitrary rows.  `Sessions` shows for each step that what it takes it takes from
users whose sessions it ends: ending a role in particular ends the sessions of the user
and of all the user's delegates.

### Workforce imports

`WorkforceImportProofs` follows a commit or reversal through the rows of its file.  The
effect of the whole file is a recursive function of the number of rows done (`Applied`), and
a fact about all rows is proved by `SetInduction`, which says of a set of naturals with 0 and
with every successor that it is all of them: a property of data is turned into a set and
the induction is about the set's least missing element.  `CommitOK` and `ReverseOK` are
what holds after each row: the workforce is well-formed with one link per slot, each link
made by a row is that row's, the rows written so far have what their reversal will need, and
the audit events so far name somebody with the authority.  `CommitRowKeeps` and
`ReverseRowKeeps` are the two row lemmas, over the six import types.  Rows are committed by
number; a reversal takes them in any order (`Orders`), and the proof makes no use of one.

The invariant (`IInv`) adds to typing: what a link says of the row that made it
(`WorkforceOK`), that an import not yet parsed has done nothing (`NothingBeforeParsing`),
and that a request in flight is about a parsed one (`RequestsOK`).  `ApprovalIsLatest` and
`RowActorApproved` connect rows and decisions: the one a row takes effect for is the one
who made the latest decision of its tier.

### Bootstrap

`BootstrapProofs` strengthens by `OnlyHolderInserts` (a run past its check holds the lock)
and `AtMostOne` (administrators committed or about to be are one at most).  `CodeStays`
follows: a run that would remove or replace the file would have to be past its check.

### Only model-checked

`ExpiredLeaseReclaimed`, `BackstopHolds` and `UploadsRetire` are liveness properties under
fairness, which the prover cannot reason about (`ENABLED`).  What `orphan`, `disabled` and
`reenroll` show are counterexamples that TLC finds.

## 13. Not modelled

* Dispositions (`app/campaigns/standard_dispositions.py`): a table per campaign; `WorkItems`
  takes its seven kinds of outcome as the alternatives of a completion.
* Team assignments of campaigns and their capacities beyond the room a team has for a
  post; creating and editing campaigns; names, addresses and search in the directory.
* Parsing of cells, phone and e-mail validation: a file is the rows it contains.
* Gamification, notifications, audit records, reports and export: nothing reads them back
  to decide.
* Rate limits, cryptography, password policy, TOTP arithmetic, tokens.
* Routing, templates and middleware: each request is a transaction of a service.

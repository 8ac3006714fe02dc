------------------------------ MODULE WorkItems ------------------------------
(***************************************************************************)
(* The work queue of CipherContact: app/work/service.py, and the writes to *)
(* the same rows made when a user is disabled (app/workforce/service.py),  *)
(* when a campaign assignment ends or moves and when a campaign is paused  *)
(* or archived (app/campaigns/service.py).                                 *)
(*                                                                         *)
(* One action is one committed transaction.  A request the code refuses    *)
(* (LeaseConflict, FeatureDisabledError, LeaseRateLimited, IntegrityError) *)
(* rolls back and is a stuttering step, so refusals appear as guards.  A   *)
(* replayed completion and a resumed lease return stored data and change   *)
(* nothing: they too are stuttering steps.                                 *)
(***************************************************************************)
EXTENDS Integers, Sequences, FiniteSets

CONSTANTS
  Agents, Campaigns, Phones, Items,
  NoAgent,               \* the NULL of a user column
  CampaignOf, PhoneOf,   \* Items -> Campaigns, Items -> Phones (CampaignContact)
  AssignmentTypes,       \* "primary", "secondary", "callback_only"
  Keys,                  \* idempotency keys a client draws for its completions
  LeaseDuration, RetryDelay, DefaultMaxAttempts, MaxSkipsBeforeReview,
  \* Bounds of the instance: which rows administrators touch, and how far counters run.
  Dispositions, Movable, Disablable, Stoppable, Toggles, Contention,
  MaxTime, MaxLeases, MaxAttemptCeiling

Outcomes == {"explicit_dnc", "callback", "complete", "review", "requeue",
             "retry_wait", "immediate_redial"}
FlagNames == {"shared_pool_enabled", "callbacks_enabled"}

ASSUME ConstantsAssumption ==
  /\ NoAgent \notin Agents
  /\ CampaignOf \in [Items -> Campaigns]
  /\ PhoneOf \in [Items -> Phones]
  /\ Dispositions \subseteq Outcomes
  /\ Toggles \subseteq FlagNames
  /\ Movable \subseteq Agents
  /\ Disablable \subseteq Agents
  /\ Stoppable \subseteq Campaigns
  /\ Contention \in BOOLEAN
  /\ AssignmentTypes \subseteq {"primary", "secondary", "callback_only"}

ASSUME NumbersAssumption ==
  /\ LeaseDuration \in Nat \ {0}
  /\ RetryDelay \in Nat \ {0}
  /\ DefaultMaxAttempts \in Nat \ {0}
  /\ MaxSkipsBeforeReview \in Nat \ {0}
  /\ MaxTime \in Nat
  /\ MaxLeases \in Nat
  /\ MaxAttemptCeiling \in Nat

\* uq_campaign_contacts_campaign_contact: a contact is in a campaign once.
ASSUME OneContactPerCampaign ==
  \A i, j \in Items : CampaignOf[i] = CampaignOf[j] /\ PhoneOf[i] = PhoneOf[j] => i = j

VARIABLES
  now,            \* the database server's and the workers' clock
  work,           \* WorkItem rows
  contact,        \* CampaignContact rows, one per work item
  callAttempts,   \* CallAttempt rows in insertion order
  issued,         \* every lease handed to an agent: lease id -> agent and item
  suppressed,     \* phones with an active SuppressionEntry
  campaignStatus, \* Campaign.status
  assignments,    \* active CampaignUserAssignment rows of role "agent"
  ended,          \* ended CampaignUserAssignment rows
  activeUsers,    \* agents whose User.active is true
  flags,          \* feature flags that are on
  late            \* disabled agents with requests under way that were let in before

rows == <<work, contact, callAttempts, issued>>
admin == <<campaignStatus, assignments, ended, activeUsers, flags>>
vars == <<now, rows, suppressed, admin, late>>

NoTime == -1
NoLease == 0
Times == 0..MaxTime
States == {"queued", "leased", "callback_wait", "retry_wait", "review",
           "completed", "suppressed"}
Terminal == {"completed", "suppressed"}
LeaseReasons == {"normal", "scheduled_callback", "delayed_retry", "immediate_redial"}
NoReason == "none"
NoCode == "none"

WorkItem ==
  [state    : States,
   assigned : Agents \cup {NoAgent},   \* assigned_agent_id
   due      : Times \cup {NoTime},     \* due_at
   attempts : Nat,                     \* attempt_count
   ceiling  : Nat,                     \* max_attempts
   skips    : Nat,                     \* skip_count
   owner    : Agents \cup {NoAgent},   \* lease_owner_id
   lease    : Nat,                     \* lease_id
   expires  : Times \cup {NoTime},     \* lease_expires_at
   reason   : LeaseReasons \cup {NoReason}]

CampaignContact ==
  [status : {"queued", "completed", "suppressed"},
   closed : BOOLEAN,                   \* completed_at is set
   by     : Agents \cup {NoAgent},     \* completed_by_agent_id
   code   : Outcomes \cup {NoCode}]    \* final_disposition_code

CallAttempt ==
  [item   : Items,
   agent  : Agents,
   key    : Keys,                      \* idempotency_key
   lease  : Nat,                       \* the lease the request presented
   source : LeaseReasons \cup {NoReason}, \* source_lease_reason
   code   : Outcomes,                  \* semantic_outcome
   result : States,                    \* resulting_work_item_state
   redial : Nat]                       \* resulting_lease_id

Lease == [agent : Agents, item : Items]
Assignment == [user : Agents, campaign : Campaigns, type : AssignmentTypes]

-----------------------------------------------------------------------------
(* Initial states: the campaigns are launched over freshly imported contacts. *)

FreshItem ==
  [state |-> "queued", assigned |-> NoAgent, due |-> NoTime, attempts |-> 0,
   ceiling |-> DefaultMaxAttempts, skips |-> 0, owner |-> NoAgent,
   lease |-> NoLease, expires |-> NoTime, reason |-> NoReason]

FreshContact ==
  [status |-> "queued", closed |-> FALSE, by |-> NoAgent, code |-> NoCode]

Primary(a) == {s \in assignments : s.user = a /\ s.type = "primary"}

\* Any staffing a manager can have built with assign_agent_to_campaign.
InitialStaffing(S) ==
  /\ S \subseteq Assignment
  /\ \A s, t \in S : s.user = t.user /\ s.type = "primary" /\ t.type = "primary" => s = t

Init ==
  /\ now = 0
  /\ work = [i \in Items |-> FreshItem]
  /\ contact = [i \in Items |-> FreshContact]
  /\ callAttempts = <<>>
  /\ issued = <<>>
  /\ suppressed = {}
  /\ campaignStatus = [c \in Campaigns |-> "active"]
  /\ assignments \in {S \in SUBSET Assignment : InitialStaffing(S)}
  /\ ended = {}
  /\ activeUsers = Agents
  /\ flags = FlagNames
  /\ late = {}

-----------------------------------------------------------------------------
(* Reading the rows *)

Leased(i) == work[i].state = "leased"
Holds(a, i) == Leased(i) /\ work[i].owner = a
Staffed(a, c) == \E s \in assignments : s.user = a /\ s.campaign = c
Running(i) == campaignStatus[CampaignOf[i]] = "active"
Callable(i) == PhoneOf[i] \notin suppressed
LeasesSeen(a, i) == {l \in DOMAIN issued : issued[l] = [agent |-> a, item |-> i]}

\* Rows whose phone lock or row lock another open transaction may be keeping:
\* pg_try_advisory_xact_lock and SKIP LOCKED pass them over.
MayBeBusy(S) == IF Contention THEN SUBSET S ELSE {{}}

\* Fault: the request's lease id is not compared.
HoldsLiveAnyLease(a, i, l) == Leased(i) /\ work[i].owner = a /\ work[i].expires > now

\* _load_leased_item, and the same tests in renew_lease
HoldsLive(a, i, l) ==
  /\ Leased(i)
  /\ work[i].owner = a
  /\ work[i].lease = l
  /\ work[i].expires > now

\* Fault: a callback follows its agent out of the campaign.
DueCallbacksAnywhere(a) ==
  {i \in Items : /\ work[i].state = "callback_wait"
                 /\ work[i].assigned = a
                 /\ work[i].due <= now
                 /\ Running(i) /\ Callable(i)}

DueCallbacks(a) ==
  {i \in Items : /\ work[i].state = "callback_wait"
                 /\ work[i].assigned = a
                 /\ work[i].due <= now
                 /\ Running(i) /\ Staffed(a, CampaignOf[i]) /\ Callable(i)}

DueRetries(c) ==
  {i \in Items : /\ CampaignOf[i] = c
                 /\ work[i].state = "retry_wait"
                 /\ work[i].due <= now
                 /\ Callable(i)}

Queue(c) ==
  {i \in Items : CampaignOf[i] = c /\ work[i].state = "queued" /\ Callable(i)}

Earliest(S) == {i \in S : \A j \in S : work[i].due <= work[j].due}

-----------------------------------------------------------------------------
(* Writing the rows *)

\* Fault: the lease id survives the release.
ReleasedKeepingId(w) == [w EXCEPT !.owner = NoAgent, !.expires = NoTime]

\* Fault: the holder survives the release.
ReleasedKeepingOwner(w) == [w EXCEPT !.lease = NoLease, !.expires = NoTime]

\* The three assignments every path uses to give a lease up.
Released(w) ==
  [w EXCEPT !.owner = NoAgent, !.lease = NoLease, !.expires = NoTime]

\* Fault: a state name nothing else uses.
ReturnedMisnamed(w) ==
  [Released(w) EXCEPT
     !.state = IF w.assigned # NoAgent THEN "callback" ELSE "queued"]

\* reclaim_expired_leases, reclaim_leases_for_user: due_at is left alone.
Returned(w) ==
  [Released(w) EXCEPT
     !.state = IF w.assigned # NoAgent THEN "callback_wait" ELSE "queued"]

\* release_campaign_work_for_agent
Shared(w) ==
  [Released(w) EXCEPT !.state = "queued", !.assigned = NoAgent, !.due = NoTime]

NextLease == Len(issued) + 1
RoomForLease == Len(issued) < MaxLeases /\ now + LeaseDuration <= MaxTime

LeasedTo(w, a, reason) ==
  [w EXCEPT !.state = "leased", !.owner = a, !.lease = NextLease,
            !.expires = now + LeaseDuration, !.reason = reason]

Tick ==
  /\ now < MaxTime
  /\ now' = now + 1
  /\ UNCHANGED <<rows, suppressed, admin, late>>

-----------------------------------------------------------------------------
(* lease_next *)

\* get_authenticated_user: the account is read when a request comes in, before any
\* lock, and no service reads it again. A request that is let in and then refused or
\* abandoned changes nothing, so it need not be told from one that never ends.
MayAct(a) == a \in activeUsers \cup late

\* Fault: only leases where the agent is still staffed are looked at, with no index
\* behind it.
MayLeaseElsewhere(a) ==
  /\ MayAct(a)
  /\ "shared_pool_enabled" \in flags
  /\ \A i \in Items : ~(Holds(a, i) /\ Staffed(a, CampaignOf[i]))
  /\ RoomForLease

\* An agent that holds a row in state "leased" is given nothing new: a live
\* lease in a running campaign is resumed, and otherwise (expired and not yet
\* reclaimed, or in a stopped campaign) the flush violates
\* uq_work_items_one_active_lease.
MayLease(a) ==
  /\ MayAct(a)
  /\ "shared_pool_enabled" \in flags
  /\ \A i \in Items : ~Holds(a, i)
  /\ RoomForLease

\* No request let in before the account was disabled can know the new lease.
Grant(a, i, reason) ==
  /\ work' = [work EXCEPT ![i] = LeasedTo(@, a, reason)]
  /\ issued' = Append(issued, [agent |-> a, item |-> i])
  /\ late' = late \ {a}
  /\ UNCHANGED <<now, contact, callAttempts, suppressed, admin>>

LeaseCallback(a, busy) ==
  /\ MayLease(a)
  /\ \E i \in Earliest(DueCallbacks(a) \ busy) : Grant(a, i, "scheduled_callback")

LeaseRetry(a, busy) ==
  /\ MayLease(a)
  /\ DueCallbacks(a) \subseteq busy
  /\ \E s \in Primary(a) :
       /\ campaignStatus[s.campaign] = "active"
       /\ \E i \in Earliest(DueRetries(s.campaign) \ busy) : Grant(a, i, "delayed_retry")

LeaseFresh(a, busy) ==
  /\ MayLease(a)
  /\ DueCallbacks(a) \subseteq busy
  /\ \E s \in Primary(a) :
       /\ campaignStatus[s.campaign] = "active"
       /\ DueRetries(s.campaign) \subseteq busy
       /\ \E i \in Queue(s.campaign) \ busy : Grant(a, i, "normal")

LeaseNext(a) ==
  \E busy \in MayBeBusy(Items) :
    LeaseCallback(a, busy) \/ LeaseRetry(a, busy) \/ LeaseFresh(a, busy)

RenewLease(a, i, l) ==
  /\ MayAct(a)
  /\ HoldsLive(a, i, l)
  /\ now + LeaseDuration <= MaxTime
  /\ work' = [work EXCEPT ![i] = [@ EXCEPT !.expires = now + LeaseDuration]]
  /\ UNCHANGED <<now, contact, callAttempts, issued, suppressed, admin, late>>

-----------------------------------------------------------------------------
(* complete_work_item *)

\* Fault: the idempotency key is not looked up.
MayCompleteAnyKey(a, i, l, k) == MayAct(a) /\ HoldsLive(a, i, l)

MayComplete(a, i, l, k) ==
  /\ MayAct(a)
  /\ \A n \in DOMAIN callAttempts :
       ~(callAttempts[n].agent = a /\ callAttempts[n].key = k)
  /\ HoldsLive(a, i, l)

Attempt(a, i, l, k, outcome, result, redial) ==
  [item |-> i, agent |-> a, key |-> k, lease |-> l,
   source |-> work[i].reason, code |-> outcome, result |-> result, redial |-> redial]

Counted(w) == [Released(w) EXCEPT !.attempts = @ + 1]
\* Fault: one call more than the ceiling allows.
AboveCeiling(w) == w.attempts + 1 > w.ceiling

AtCeiling(w) == w.attempts + 1 >= w.ceiling

\* The row and the attempt of a completion that closes nothing else.
Recorded(a, i, l, k, outcome, row) ==
  /\ work' = [work EXCEPT ![i] = row]
  /\ callAttempts' =
       Append(callAttempts, Attempt(a, i, l, k, outcome, row.state, row.lease))
  /\ UNCHANGED <<now, suppressed, admin>>

ToReview(w) == [Counted(w) EXCEPT !.state = "review"]

CompleteClosing(a, i, l, k) ==
  /\ MayComplete(a, i, l, k)
  /\ Recorded(a, i, l, k, "complete", [Counted(work[i]) EXCEPT !.state = "completed"])
  /\ contact' = [contact EXCEPT ![i] =
       [status |-> "completed", closed |-> TRUE, by |-> a, code |-> "complete"]]
  /\ UNCHANGED <<issued, late>>

CompleteReview(a, i, l, k) ==
  /\ MayComplete(a, i, l, k)
  /\ Recorded(a, i, l, k, "review", ToReview(work[i]))
  /\ UNCHANGED <<contact, issued, late>>

\* assigned_agent_id and due_at of a requeued item are left alone.
CompleteRequeue(a, i, l, k) ==
  /\ MayComplete(a, i, l, k)
  /\ Recorded(a, i, l, k, "requeue",
       IF AtCeiling(work[i]) THEN ToReview(work[i])
       ELSE [Counted(work[i]) EXCEPT !.state = "queued"])
  /\ UNCHANGED <<contact, issued, late>>

CompleteRetry(a, i, l, k) ==
  /\ MayComplete(a, i, l, k)
  /\ now + RetryDelay <= MaxTime
  /\ Recorded(a, i, l, k, "retry_wait",
       IF AtCeiling(work[i]) THEN ToReview(work[i])
       ELSE [Counted(work[i]) EXCEPT !.state = "retry_wait",
               !.due = now + RetryDelay, !.assigned = NoAgent])
  /\ UNCHANGED <<contact, issued, late>>

\* Neither the campaign's status nor shared_pool_enabled is consulted.
CompleteRedial(a, i, l, k) ==
  /\ MayComplete(a, i, l, k)
  /\ \/ /\ AtCeiling(work[i])
        /\ Recorded(a, i, l, k, "immediate_redial", ToReview(work[i]))
        /\ UNCHANGED <<issued, late>>
     \/ /\ ~AtCeiling(work[i])
        /\ RoomForLease
        /\ Recorded(a, i, l, k, "immediate_redial",
             LeasedTo(Counted(work[i]), a, "immediate_redial"))
        /\ issued' = Append(issued, [agent |-> a, item |-> i])
        /\ late' = late \ {a}
  /\ UNCHANGED contact

\* The attempt ceiling is not consulted.
CompleteCallback(a, i, l, k, at) ==
  /\ MayComplete(a, i, l, k)
  /\ "callbacks_enabled" \in flags
  /\ at > now
  /\ Recorded(a, i, l, k, "callback",
       [Counted(work[i]) EXCEPT !.state = "callback_wait", !.due = at, !.assigned = a])
  /\ UNCHANGED <<contact, issued, late>>

\* Fault: pending callbacks are forgotten.
OpenForButCallbacks(p) ==
  {j \in Items : PhoneOf[j] = p /\ work[j].state \notin Terminal \cup {"callback_wait"}}

\* Fault: completed items are swept too.
OpenForOrCompleted(p) ==
  {j \in Items : PhoneOf[j] = p /\ work[j].state # "suppressed"}

\* _suppress_contact_everywhere: every open item of the phone, in every campaign.
OpenFor(p) == {j \in Items : PhoneOf[j] = p /\ work[j].state \notin Terminal}

CompleteDnc(a, i, l, k) ==
  /\ MayComplete(a, i, l, k)
  /\ suppressed' = suppressed \cup {PhoneOf[i]}
  /\ work' = [j \in Items |->
       IF j \notin OpenFor(PhoneOf[i]) THEN work[j]
       ELSE [Released(work[j]) EXCEPT !.state = "suppressed",
               !.attempts = IF j = i THEN @ + 1 ELSE @]]
  /\ contact' = [j \in Items |->
       IF j \notin OpenFor(PhoneOf[i]) THEN contact[j]
       ELSE [status |-> "suppressed", closed |-> TRUE, by |-> a, code |-> "explicit_dnc"]]
  /\ callAttempts' =
       Append(callAttempts, Attempt(a, i, l, k, "explicit_dnc", "suppressed", NoLease))
  /\ UNCHANGED <<now, issued, admin, late>>

CompleteAs(d, a, i, l, k) ==
  \/ d = "complete" /\ CompleteClosing(a, i, l, k)
  \/ d = "review" /\ CompleteReview(a, i, l, k)
  \/ d = "requeue" /\ CompleteRequeue(a, i, l, k)
  \/ d = "retry_wait" /\ CompleteRetry(a, i, l, k)
  \/ d = "immediate_redial" /\ CompleteRedial(a, i, l, k)
  \/ d = "callback" /\ \E at \in Times : CompleteCallback(a, i, l, k, at)
  \/ d = "explicit_dnc" /\ CompleteDnc(a, i, l, k)

-----------------------------------------------------------------------------
(* skip_work_item: assigned_agent_id and due_at are left alone. *)

SkipWorkItem(a, i, l) ==
  /\ MayAct(a)
  /\ HoldsLive(a, i, l)
  /\ work' = [work EXCEPT ![i] =
       [Released(work[i]) EXCEPT !.skips = @ + 1,
          !.state = IF work[i].skips + 1 >= MaxSkipsBeforeReview
                    THEN "review" ELSE "queued"]]
  /\ UNCHANGED <<now, contact, callAttempts, issued, suppressed, admin, late>>

-----------------------------------------------------------------------------
(* The sweeps, each of which passes over rows another transaction has locked *)

\* Fault: the sweep looks a lease length ahead.
ExpiringSoon == {i \in Items : Leased(i) /\ work[i].expires < now + LeaseDuration}

\* Fault: the sweep forgets callbacks.
ExpiredShared == {i \in Items : /\ Leased(i) /\ work[i].expires < now
                              /\ work[i].assigned = NoAgent}

Expired == {i \in Items : Leased(i) /\ work[i].expires < now}

Reclaim(S) == [i \in Items |-> IF i \in S THEN Returned(work[i]) ELSE work[i]]

ReclaimExpiredLeases(busy) ==
  /\ Expired \ busy # {}
  /\ work' = Reclaim(Expired \ busy)
  /\ UNCHANGED <<now, contact, callAttempts, issued, suppressed, admin, late>>

\* disable_user, again if asked again; the agent's callbacks stay assigned to it, and
\* a request of the agent that has passed get_authenticated_user goes on.
DisableUser(a, busy) ==
  /\ a \in Disablable
  /\ activeUsers' = activeUsers \ {a}
  /\ late' = late \cup ({a} \cap activeUsers)
  /\ work' = Reclaim({i \in Items : Holds(a, i)} \ busy)
  /\ UNCHANGED <<now, contact, callAttempts, issued, suppressed,
                 campaignStatus, assignments, ended, flags>>

ReactivateUser(a) ==
  /\ a \in Disablable \ activeUsers
  /\ activeUsers' = activeUsers \cup {a}
  /\ late' = late \ {a}
  /\ UNCHANGED <<now, rows, suppressed, campaignStatus, assignments, ended, flags>>

\* The rows release_campaign_work_for_agent selects.
HeldIn(a, c) ==
  {i \in Items : /\ CampaignOf[i] = c
                 /\ \/ Holds(a, i)
                    \/ work[i].state = "callback_wait" /\ work[i].assigned = a}

ReleaseCampaignWork(a, c, busy) ==
  work' = [i \in Items |-> IF i \in HeldIn(a, c) \ busy THEN Shared(work[i]) ELSE work[i]]

\* The status of the row is not tested: a row can be ended again, and its agent's
\* work is released again even if another row staffs the agent by now.
EndUserAssignment(s, busy) ==
  /\ s \in assignments \cup ended
  /\ s.user \in Movable
  /\ \/ s \in assignments /\ assignments' = assignments \ {s}
     \/ s \in ended /\ UNCHANGED assignments
  /\ ended' = ended \cup {s}
  /\ ReleaseCampaignWork(s.user, s.campaign, busy)
  /\ UNCHANGED <<now, contact, callAttempts, issued, suppressed,
                 campaignStatus, activeUsers, flags, late>>

TransferAgent(s, c, busy) ==
  /\ s \in Primary(s.user)
  /\ s.user \in Movable
  /\ c # s.campaign
  /\ campaignStatus[c] = "active"
  /\ assignments' = (assignments \ {s}) \cup {[s EXCEPT !.campaign = c]}
  /\ ended' = ended \cup {s}
  /\ ReleaseCampaignWork(s.user, s.campaign, busy)
  /\ UNCHANGED <<now, contact, callAttempts, issued, suppressed,
                 campaignStatus, activeUsers, flags, late>>

AssignAgent(s) ==
  /\ s \notin assignments
  /\ s.user \in Movable
  /\ s.type = "primary" => Primary(s.user) = {}
  /\ assignments' = assignments \cup {s}
  /\ UNCHANGED <<now, rows, suppressed, campaignStatus, ended, activeUsers, flags,
                 late>>

-----------------------------------------------------------------------------
(* Review decisions: reschedule, allow more attempts, close *)

\* Fault: the item stays assigned to its callback agent.
RescheduleKeepingOwner(i, at) ==
  /\ work[i].state = "review"
  /\ at > now
  /\ work' = [work EXCEPT ![i] = [@ EXCEPT !.state = "retry_wait", !.due = at]]
  /\ UNCHANGED <<now, contact, callAttempts, issued, suppressed, admin, late>>

RescheduleReviewItem(i, at) ==
  /\ work[i].state = "review"
  /\ at > now
  /\ work' = [work EXCEPT ![i] = [@ EXCEPT
       !.state = "retry_wait", !.due = at, !.assigned = NoAgent]]
  /\ UNCHANGED <<now, contact, callAttempts, issued, suppressed, admin, late>>

\* The new ceiling must exceed the attempts made, not the old ceiling.
IncreaseReviewItemAttempts(i, ceiling) ==
  /\ work[i].state = "review"
  /\ ceiling > work[i].attempts
  /\ work' = [work EXCEPT ![i] = [@ EXCEPT
       !.state = "retry_wait", !.due = now, !.ceiling = ceiling, !.assigned = NoAgent]]
  /\ UNCHANGED <<now, contact, callAttempts, issued, suppressed, admin, late>>

AttemptsOn(i) == {n \in DOMAIN callAttempts : callAttempts[n].item = i}
\* Fault: the attempts are read in the wrong order.
IsFirstAttemptOn(i, n) == n \in AttemptsOn(i) /\ \A m \in AttemptsOn(i) : m >= n

IsLastAttemptOn(i, n) == n \in AttemptsOn(i) /\ \A m \in AttemptsOn(i) : m <= n

\* An item skipped into review with no attempt at all cannot be closed.
CloseReviewItem(i) ==
  /\ work[i].state = "review"
  /\ \E n \in AttemptsOn(i) :
       /\ IsLastAttemptOn(i, n)
       /\ contact' = [contact EXCEPT ![i] =
            [status |-> "completed", closed |-> TRUE,
             by |-> callAttempts[n].agent, code |-> callAttempts[n].code]]
  /\ work' = [work EXCEPT ![i] = [@ EXCEPT !.state = "completed"]]
  /\ UNCHANGED <<now, callAttempts, issued, suppressed, admin, late>>

-----------------------------------------------------------------------------
(* Campaign status and feature flags, as far as work items see them *)

PauseCampaign(c) ==
  /\ c \in Stoppable
  /\ campaignStatus[c] = "active"
  /\ campaignStatus' = [campaignStatus EXCEPT ![c] = "paused"]
  /\ UNCHANGED <<now, rows, suppressed, assignments, ended, activeUsers, flags, late>>

ArchiveCampaign(c) ==
  /\ c \in Stoppable
  /\ campaignStatus[c] \in {"active", "paused"}
  /\ campaignStatus' = [campaignStatus EXCEPT ![c] = "archived"]
  /\ UNCHANGED <<now, rows, suppressed, assignments, ended, activeUsers, flags, late>>

SetFlag(f) ==
  /\ flags' = IF f \in flags THEN flags \ {f} ELSE flags \cup {f}
  /\ UNCHANGED <<now, rows, suppressed, campaignStatus, assignments, ended,
                 activeUsers, late>>

-----------------------------------------------------------------------------
AgentStep(a, i) ==
  \E l \in LeasesSeen(a, i) :
    \/ RenewLease(a, i, l)
    \/ SkipWorkItem(a, i, l)
    \/ \E k \in Keys, d \in Dispositions : CompleteAs(d, a, i, l, k)

ReviewStep(i) ==
  \/ \E at \in Times : RescheduleReviewItem(i, at)
  \/ \E n \in 1..MaxAttemptCeiling : IncreaseReviewItemAttempts(i, n)
  \/ CloseReviewItem(i)

Sweep == \E busy \in MayBeBusy(Items) : ReclaimExpiredLeases(busy)

StaffingStep ==
  \/ \E a \in Agents : ReactivateUser(a)
  \/ \E s \in Assignment : AssignAgent(s)
  \/ \E busy \in MayBeBusy(Items) :
       \/ \E a \in Agents : DisableUser(a, busy)
       \/ \E s \in Assignment :
            EndUserAssignment(s, busy) \/ \E c \in Campaigns : TransferAgent(s, c, busy)

CampaignStep ==
  \/ \E c \in Campaigns : PauseCampaign(c) \/ ArchiveCampaign(c)
  \/ \E f \in Toggles : SetFlag(f)

Next ==
  \/ Tick
  \/ \E a \in Agents : LeaseNext(a)
  \/ \E a \in Agents, i \in Items : AgentStep(a, i)
  \/ \E i \in Items : ReviewStep(i)
  \/ Sweep
  \/ StaffingStep
  \/ CampaignStep

Spec == Init /\ [][Next]_vars

\* Celery beat runs the sweep every two minutes, and a row lock lasts no longer
\* than a request: sooner or later a sweep finds every expired row unlocked.
Fairness == WF_vars(Tick) /\ WF_vars(ReclaimExpiredLeases({}))
FairSpec == Spec /\ Fairness

-----------------------------------------------------------------------------
(* Safety *)

\* Every row keeps its column types, and no clock or lease counter leaves its bound.
TypeOK ==
  /\ now \in Times
  /\ work \in [Items -> WorkItem]
  /\ contact \in [Items -> CampaignContact]
  /\ callAttempts \in Seq(CallAttempt)
  /\ issued \in Seq(Lease)
  /\ suppressed \subseteq Phones
  /\ campaignStatus \in [Campaigns -> {"active", "paused", "archived"}]
  /\ assignments \subseteq Assignment
  /\ ended \subseteq Assignment
  /\ activeUsers \subseteq Agents
  /\ flags \subseteq FlagNames
  /\ late \subseteq Agents

\* A leased row carries exactly the lease that was handed to its owner for that
\* contact, and a row in any other state carries none: each of the six paths
\* that give a lease up (complete, skip, both reclaims, release, DNC) must clear
\* all three columns, and no lease id is ever live on two rows.
LeaseIdentity ==
  \A i \in Items :
    IF Leased(i)
    THEN /\ work[i].owner \in Agents
         /\ work[i].lease \in DOMAIN issued
         /\ issued[work[i].lease] = [agent |-> work[i].owner, item |-> i]
         /\ work[i].expires \in Times
    ELSE work[i].owner = NoAgent /\ work[i].lease = NoLease /\ work[i].expires = NoTime

\* Invariant 3 of the plan, one contact at a time: no interleaving of leasing,
\* redialling, reclaiming and transferring lets one agent hold two contacts.
OneContactPerAgent ==
  \A a \in Agents, i, j \in Items : Holds(a, i) /\ Holds(a, j) => i = j

\* Invariant 7, global DNC: from the commit that suppresses a phone on, no work
\* item of that phone is open in any campaign, whoever was holding it; and a
\* suppressed item always has a suppression behind it.
SuppressionIsFinal ==
  \A i \in Items :
    /\ PhoneOf[i] \in suppressed => work[i].state \in Terminal
    /\ work[i].state = "suppressed" => PhoneOf[i] \in suppressed

\* The campaign contact follows its work item through every terminal path
\* (completion, DNC sweep, review closure), which is what campaign completion
\* and retention count; and a completed contact is credited to the agent and
\* outcome of the last call made on it, never to the reviewer who closed it.
ContactFollowsWork ==
  \A i \in Items :
    /\ contact[i].closed <=> work[i].state \in Terminal
    /\ contact[i].status = IF work[i].state \in Terminal THEN work[i].state ELSE "queued"
    /\ work[i].state = "completed" =>
         \E n \in AttemptsOn(i) :
           /\ \A m \in AttemptsOn(i) : m <= n
           /\ contact[i].by = callAttempts[n].agent
           /\ contact[i].code = callAttempts[n].code

\* A lease pays for at most one call: no two attempts were made under the same
\* lease, none under a lease that is still live, and each under a lease handed
\* to that agent for that contact. A double-clicked or retried submission, or
\* one from a tab opened before a redial, never counts as a second call.
LeaseUsedOnce ==
  \A n \in DOMAIN callAttempts :
    /\ callAttempts[n].lease \in DOMAIN issued
    /\ issued[callAttempts[n].lease] =
         [agent |-> callAttempts[n].agent, item |-> callAttempts[n].item]
    /\ \A i \in Items : work[i].lease # callAttempts[n].lease
    /\ \A m \in DOMAIN callAttempts :
         callAttempts[m].lease = callAttempts[n].lease => m = n

\* Invariant 6, idempotent completion: attempt_count is the number of CallAttempt
\* rows of the item, one row per agent and key, and an attempt that renewed the
\* hold recorded the lease that was renewed, which a replay hands out again.
AttemptLedger ==
  /\ \A i \in Items : work[i].attempts = Cardinality(AttemptsOn(i))
  /\ \A n \in DOMAIN callAttempts :
       LET t == callAttempts[n] IN
         /\ \A m \in DOMAIN callAttempts :
              callAttempts[m].agent = t.agent /\ callAttempts[m].key = t.key => m = n
         /\ t.result = "leased" => /\ t.redial \in DOMAIN issued
                                   /\ t.redial > t.lease
                                   /\ issued[t.redial] = [agent |-> t.agent, item |-> t.item]

\* A shared retry belongs to nobody and a pending callback to somebody, and both
\* have a due time, whatever path led there (completion, reclaim of an item that
\* was skipped, requeued or redialled in between, reviewer decision).
WaitingItemsAreDue ==
  \A i \in Items :
    /\ work[i].state = "retry_wait" => work[i].assigned = NoAgent /\ work[i].due # NoTime
    /\ work[i].assigned # NoAgent => work[i].due # NoTime
    /\ work[i].state = "callback_wait" => work[i].assigned # NoAgent

\* The attempt ceiling stops automatic calling: an attempt that put its item back
\* into the shared queue, made it a retry or redialled it was below the ceiling the
\* item has, however often the ceiling was reached, the item skipped, and the ceiling
\* moved by a reviewer in between.
CeilingRespected ==
  \A n \in DOMAIN callAttempts :
    callAttempts[n].result \in {"queued", "retry_wait", "leased"} =>
      Cardinality({m \in AttemptsOn(callAttempts[n].item) : m <= n})
        < work[callAttempts[n].item].ceiling

-----------------------------------------------------------------------------
(* Steps *)

\* A closed contact is never reopened, relabelled or credited to someone else:
\* not by a later DNC on the same phone, a late sweep or a reviewer.
ClosedStaysClosed ==
  [][\A i \in Items : work[i].state \in Terminal => UNCHANGED <<work[i], contact[i]>>]_vars

Spent(i) == work'[i].attempts > work[i].attempts \/ work'[i].skips > work[i].skips

\* A live lease is taken from its holder only for a reason: the holder completed
\* or skipped, was disabled or has lost an assignment on the campaign, or the
\* phone was suppressed. No sweep, reviewer or other agent may end it early.
LiveLeaseKept ==
  [][\A i \in Items :
       Leased(i) /\ work[i].expires > now /\ work'[i].lease # work[i].lease
       => \/ Spent(i)
          \/ work[i].owner \notin activeUsers'
          \/ \E s \in ended' : s.user = work[i].owner /\ s.campaign = CampaignOf[i]
          \/ PhoneOf[i] \in suppressed']_vars

NewLease(i) == work'[i].lease # work[i].lease /\ work'[i].lease # NoLease

\* A contact is put before an agent only when it is due, not suppressed, in a
\* running campaign the agent is staffed on, and, if a callback is pending, only
\* before its owner; and only before an agent whose account is enabled, or was when
\* the request came in. (Redialling renews a hold the agent has, whatever the
\* campaign's status.)
GrantJustified ==
  [][\A i \in Items : NewLease(i) /\ ~Leased(i) =>
       /\ work[i].state \in {"queued", "callback_wait", "retry_wait"}
       /\ work[i].state # "queued" => work[i].due <= now
       /\ work[i].state = "callback_wait" => work'[i].owner = work[i].assigned
       /\ Callable(i) /\ Running(i)
       /\ MayAct(work'[i].owner)
       /\ Staffed(work'[i].owner, CampaignOf[i])]_vars

-----------------------------------------------------------------------------
(* The abstract promise: a contact is disclosed while its work item is leased. *)

Disclosure == INSTANCE ContactDisclosure WITH
  holder <- [i \in Items |-> work[i].owner],
  closed <- {i \in Items : work[i].state \in Terminal},
  barred <- suppressed

\* Leasing, redialling, sweeping, transferring and the DNC cascade of WorkItems
\* are steps of ContactDisclosure or disclose nothing new.
DisclosureSpec == Disclosure!Spec

-----------------------------------------------------------------------------
(* Liveness *)

\* The sweep (reclaim_expired_leases_task) leaves no expired lease behind, so the
\* contact can be called again and the agent is no longer blocked by
\* uq_work_items_one_active_lease.
ExpiredLeaseReclaimed ==
  \A i \in Items, l \in 1..MaxLeases :
    (work[i].lease = l /\ work[i].expires < now) ~> (work[i].lease # l)

-----------------------------------------------------------------------------
(* What the documents say and the code does not do *)

\* Plan v0.3, 11.12: callbacks "are never silently orphaned"; the docstring of
\* release_campaign_work_for_agent names the state to avoid: a callback of an
\* agent with no active assignment on the campaign, which nobody can lease.
NoOrphanedCallback ==
  \A i \in Items :
    work[i].state = "callback_wait" => Staffed(work[i].assigned, CampaignOf[i])

\* The docstring of disable_user (plan v0.3, 6.4): disabling a user "immediately
\* revokes active sessions and leases", so that no disabled user holds a contact. A
\* request for a contact that was let in before the account was disabled is answered
\* with a lease after it.
HolderIsEnabled ==
  \A i \in Items : Leased(i) => work[i].owner \in activeUsers

=============================================================================

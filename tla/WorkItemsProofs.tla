--------------------------- MODULE WorkItemsProofs ---------------------------
(***************************************************************************)
(* Theorems about WorkItems for every value of its constants.              *)
(***************************************************************************)
EXTENDS WorkItems, TLAPS

-----------------------------------------------------------------------------
(* The row operators keep the row type. *)

\* Giving a lease up leaves a well-formed row.
LEMMA ReleasedType ==
  ASSUME NEW w \in WorkItem
  PROVE  Released(w) \in WorkItem
BY DEF Released, WorkItem, NoLease

\* So do the two ways a sweep returns a row and the release of a leaver's work.
LEMMA ReturnedType ==
  ASSUME NEW w \in WorkItem
  PROVE  Returned(w) \in WorkItem /\ Shared(w) \in WorkItem
BY ReleasedType DEF Returned, Shared, WorkItem, States

\* Counting an attempt releases the lease and adds one.
LEMMA CountedType ==
  ASSUME NEW w \in WorkItem
  PROVE  Counted(w) \in WorkItem /\ ToReview(w) \in WorkItem
<1>1. Counted(w) \in WorkItem
  BY ReleasedType DEF Counted, WorkItem
<1>2. ToReview(w) \in WorkItem
  BY <1>1 DEF ToReview, WorkItem, States
<1> QED
  BY <1>1, <1>2

\* A lease is granted only when its expiry fits the clock.
LEMMA LeasedToType ==
  ASSUME TypeOK, RoomForLease,
         NEW w \in WorkItem, NEW a \in Agents, NEW r \in LeaseReasons
  PROVE  LeasedTo(w, a, r) \in WorkItem
<1>1. now + LeaseDuration \in Times
  BY NumbersAssumption DEF TypeOK, RoomForLease, Times
<1>2. NextLease \in Nat
  BY DEF NextLease, TypeOK
<1> QED
  BY <1>1, <1>2 DEF LeasedTo, WorkItem, States

\* A completion presents a lease that was issued, so the attempt is well formed.
LEMMA AttemptType ==
  ASSUME TypeOK, NEW a \in Agents, NEW i \in Items, NEW l \in LeasesSeen(a, i),
         NEW k \in Keys, NEW o \in Outcomes, NEW r \in States, NEW n \in Nat
  PROVE  Attempt(a, i, l, k, o, r, n) \in CallAttempt
BY DEF Attempt, CallAttempt, TypeOK, WorkItem, LeasesSeen

-----------------------------------------------------------------------------
(* Type correctness, one lemma per group of actions *)

\* Launched campaigns over freshly imported contacts are well typed.
LEMMA InitType == Init => TypeOK
BY ConstantsAssumption, NumbersAssumption
   DEF Init, TypeOK, WorkItem, FreshItem, CampaignContact, FreshContact, States, Times,
       NoLease, FlagNames

\* Handing a lease out (the assignments at the end of lease_next) keeps the types.
LEMMA GrantType ==
  ASSUME TypeOK, NEW a \in Agents, NEW i \in Items, NEW r \in LeaseReasons,
         RoomForLease, Grant(a, i, r)
  PROVE  TypeOK'
<1>1. LeasedTo(work[i], a, r) \in WorkItem
  BY LeasedToType DEF TypeOK
<1>2. work' \in [Items -> WorkItem]
  BY <1>1 DEF Grant, TypeOK
<1>3. issued' \in Seq(Lease)
  BY DEF Grant, TypeOK, Lease
<1> QED
  BY <1>2, <1>3 DEF Grant, TypeOK, admin

\* lease_next hands out a lease whichever of its three candidates it finds.
LEMMA LeaseNextType ==
  ASSUME TypeOK, NEW a \in Agents, LeaseNext(a)
  PROVE  TypeOK'
<1>1. PICK busy \in MayBeBusy(Items) :
        LeaseCallback(a, busy) \/ LeaseRetry(a, busy) \/ LeaseFresh(a, busy)
  BY DEF LeaseNext
<1>2. RoomForLease
  BY <1>1 DEF LeaseCallback, LeaseRetry, LeaseFresh, MayLease
<1>3. PICK i \in Items, r \in LeaseReasons : Grant(a, i, r)
  BY <1>1 DEF LeaseCallback, LeaseRetry, LeaseFresh, Earliest, DueCallbacks, DueRetries,
              Queue, LeaseReasons
<1> QED
  BY <1>2, <1>3, GrantType

\* A completion that records one row and one attempt.
LEMMA RecordedType ==
  ASSUME TypeOK, NEW a \in Agents, NEW i \in Items, NEW l \in LeasesSeen(a, i),
         NEW k \in Keys, NEW o \in Outcomes, NEW row \in WorkItem,
         Recorded(a, i, l, k, o, row),
         contact' \in [Items -> CampaignContact], issued' \in Seq(Lease), late' \subseteq Agents
  PROVE  TypeOK'
<1>1. work' \in [Items -> WorkItem]
  BY DEF Recorded, TypeOK
<1>2. Attempt(a, i, l, k, o, row.state, row.lease) \in CallAttempt
  BY AttemptType DEF WorkItem
<1>3. callAttempts' \in Seq(CallAttempt)
  BY <1>2 DEF Recorded, TypeOK
<1> QED
  BY <1>1, <1>3 DEF Recorded, TypeOK, admin

\* complete_work_item keeps the types in each of its seven outcome branches.
LEMMA CompleteType ==
  ASSUME TypeOK, NEW a \in Agents, NEW i \in Items, NEW l \in LeasesSeen(a, i),
         NEW k \in Keys, NEW d \in Dispositions, CompleteAs(d, a, i, l, k)
  PROVE  TypeOK'
<1> DEFINE w == work[i]
<1>0. w \in WorkItem /\ Counted(w) \in WorkItem /\ ToReview(w) \in WorkItem
  BY CountedType DEF TypeOK
<1>1. CASE CompleteClosing(a, i, l, k)
  <2>1. [Counted(w) EXCEPT !.state = "completed"] \in WorkItem
    BY <1>0 DEF WorkItem, States
  <2>2. contact' \in [Items -> CampaignContact]
    BY <1>1 DEF CompleteClosing, TypeOK, CampaignContact, Outcomes
  <2> QED
    BY <1>1, <2>1, <2>2, RecordedType DEF CompleteClosing, TypeOK, Outcomes
<1>2. CASE CompleteReview(a, i, l, k)
  BY <1>2, <1>0, RecordedType DEF CompleteReview, TypeOK, Outcomes
<1>3. CASE CompleteRequeue(a, i, l, k)
  <2>1. [Counted(w) EXCEPT !.state = "queued"] \in WorkItem
    BY <1>0 DEF WorkItem, States
  <2> QED
    BY <1>3, <1>0, <2>1, RecordedType DEF CompleteRequeue, TypeOK, Outcomes
<1>4. CASE CompleteRetry(a, i, l, k)
  <2>1. now + RetryDelay \in Times
    BY <1>4, NumbersAssumption DEF CompleteRetry, TypeOK, Times
  <2>2. [Counted(w) EXCEPT !.state = "retry_wait", !.due = now + RetryDelay,
           !.assigned = NoAgent] \in WorkItem
    BY <1>0, <2>1 DEF WorkItem, States
  <2> QED
    BY <1>4, <1>0, <2>2, RecordedType DEF CompleteRetry, TypeOK, Outcomes
<1>5. CASE CompleteRedial(a, i, l, k)
  <2>1. CASE AtCeiling(w)
    BY <1>5, <2>1, <1>0, RecordedType DEF CompleteRedial, TypeOK, Outcomes
  <2>2. CASE ~AtCeiling(w)
    <3>1. LeasedTo(Counted(w), a, "immediate_redial") \in WorkItem
      BY <1>5, <2>2, <1>0, LeasedToType DEF CompleteRedial, LeaseReasons
    <3>2. issued' = Append(issued, [agent |-> a, item |-> i])
      BY <1>5, <2>2 DEF CompleteRedial
    <3>3. issued' \in Seq(Lease)
      BY <3>2 DEF TypeOK, Lease
    <3> QED
      BY <1>5, <2>2, <3>1, <3>3, RecordedType DEF CompleteRedial, TypeOK, Outcomes
  <2> QED
    BY <2>1, <2>2
<1>6. CASE \E at \in Times : CompleteCallback(a, i, l, k, at)
  <2>1. PICK at \in Times : CompleteCallback(a, i, l, k, at)
    BY <1>6
  <2>2. [Counted(w) EXCEPT !.state = "callback_wait", !.due = at, !.assigned = a] \in WorkItem
    BY <1>0 DEF WorkItem, States
  <2> QED
    BY <2>1, <2>2, RecordedType DEF CompleteCallback, TypeOK, Outcomes
<1>7. CASE CompleteDnc(a, i, l, k)
  <2>1. \A j \in Items :
          [Released(work[j]) EXCEPT !.state = "suppressed",
             !.attempts = IF j = i THEN @ + 1 ELSE @] \in WorkItem
    <3> TAKE j \in Items
    <3>1. Released(work[j]) \in WorkItem
      BY ReleasedType DEF TypeOK
    <3>2. Released(work[j]).attempts + 1 \in Nat
      BY <3>1 DEF WorkItem
    <3> QED
      BY <3>1, <3>2 DEF WorkItem, States
  <2>2. work' \in [Items -> WorkItem]
    BY <1>7, <2>1 DEF CompleteDnc, TypeOK
  <2>3. contact' \in [Items -> CampaignContact]
    BY <1>7 DEF CompleteDnc, TypeOK, CampaignContact, Outcomes
  <2>4. Attempt(a, i, l, k, "explicit_dnc", "suppressed", NoLease) \in CallAttempt
    <3>1. "explicit_dnc" \in Outcomes /\ "suppressed" \in States /\ NoLease \in Nat
      BY DEF Outcomes, States, NoLease
    <3> QED
      BY <3>1, AttemptType
  <2>5. callAttempts' \in Seq(CallAttempt)
    <3>1. callAttempts' =
            Append(callAttempts, Attempt(a, i, l, k, "explicit_dnc", "suppressed", NoLease))
      BY <1>7 DEF CompleteDnc
    <3> QED
      BY <2>4, <3>1 DEF TypeOK
  <2>6. suppressed' \subseteq Phones
    BY <1>7, ConstantsAssumption DEF CompleteDnc, TypeOK
  <2> QED
    BY <1>7, <2>2, <2>3, <2>5, <2>6 DEF CompleteDnc, TypeOK, admin
<1> QED
  BY <1>1, <1>2, <1>3, <1>4, <1>5, <1>6, <1>7 DEF CompleteAs

\* So do renew_lease and skip_work_item.
LEMMA HolderStepType ==
  ASSUME TypeOK, NEW a \in Agents, NEW i \in Items, NEW l \in LeasesSeen(a, i),
         RenewLease(a, i, l) \/ SkipWorkItem(a, i, l)
  PROVE  TypeOK'
<1>1. CASE RenewLease(a, i, l)
  <2>1. now + LeaseDuration \in Times
    BY <1>1, NumbersAssumption DEF RenewLease, TypeOK, Times
  <2>2. [work[i] EXCEPT !.expires = now + LeaseDuration] \in WorkItem
    BY <2>1 DEF TypeOK, WorkItem
  <2>3. work' \in [Items -> WorkItem]
    BY <1>1, <2>2 DEF RenewLease, TypeOK
  <2> QED
    BY <1>1, <2>3 DEF RenewLease, TypeOK, admin
<1>2. CASE SkipWorkItem(a, i, l)
  <2>1. Released(work[i]) \in WorkItem
    BY ReleasedType DEF TypeOK
  <2>2. Released(work[i]).skips + 1 \in Nat
    BY <2>1 DEF WorkItem
  <2> DEFINE st == IF work[i].skips + 1 >= MaxSkipsBeforeReview THEN "review" ELSE "queued"
             row == [Released(work[i]) EXCEPT !.skips = @ + 1, !.state = st]
  <2>3. work' = [work EXCEPT ![i] = row]
    BY <1>2 DEF SkipWorkItem
  <2>4. st \in States
    BY DEF States
  <2> HIDE DEF st
  <2>5. row \in WorkItem
    BY <2>1, <2>2, <2>4 DEF WorkItem
  <2> HIDE DEF row
  <2>6. work' \in [Items -> WorkItem]
    BY <2>3, <2>5 DEF TypeOK
  <2> QED
    BY <1>2, <2>6 DEF SkipWorkItem, TypeOK, admin
<1> QED
  BY <1>1, <1>2

\* So do the three review decisions; closing credits the agent of a stored attempt.
LEMMA ReviewStepType ==
  ASSUME TypeOK, NEW i \in Items, ReviewStep(i)
  PROVE  TypeOK'
<1>1. CASE \E at \in Times : RescheduleReviewItem(i, at)
  <2>1. PICK at \in Times : RescheduleReviewItem(i, at)
    BY <1>1
  <2>2. [work[i] EXCEPT !.state = "retry_wait", !.due = at, !.assigned = NoAgent] \in WorkItem
    BY DEF TypeOK, WorkItem, States
  <2>3. work' \in [Items -> WorkItem]
    BY <2>1, <2>2 DEF RescheduleReviewItem, TypeOK
  <2> QED
    BY <2>1, <2>3 DEF RescheduleReviewItem, TypeOK, admin
<1>2. CASE \E n \in 1..MaxAttemptCeiling : IncreaseReviewItemAttempts(i, n)
  <2>1. PICK n \in 1..MaxAttemptCeiling : IncreaseReviewItemAttempts(i, n)
    BY <1>2
  <2>2. [work[i] EXCEPT !.state = "retry_wait", !.due = now, !.ceiling = n,
           !.assigned = NoAgent] \in WorkItem
    <3>1. n \in Nat /\ now \in Times \cup {NoTime}
      BY NumbersAssumption DEF TypeOK
    <3> QED
      BY <3>1 DEF TypeOK, WorkItem, States
  <2>3. work' \in [Items -> WorkItem]
    BY <2>1, <2>2 DEF IncreaseReviewItemAttempts, TypeOK
  <2> QED
    BY <2>1, <2>3 DEF IncreaseReviewItemAttempts, TypeOK, admin
<1>3. CASE CloseReviewItem(i)
  <2>1. [work[i] EXCEPT !.state = "completed"] \in WorkItem
    BY DEF TypeOK, WorkItem, States
  <2>2. work' \in [Items -> WorkItem]
    BY <1>3, <2>1 DEF CloseReviewItem, TypeOK
  <2>3. PICK n \in AttemptsOn(i) :
          contact' = [contact EXCEPT ![i] =
            [status |-> "completed", closed |-> TRUE,
             by |-> callAttempts[n].agent, code |-> callAttempts[n].code]]
    BY <1>3 DEF CloseReviewItem
  <2>4. callAttempts[n] \in CallAttempt
    BY DEF AttemptsOn, TypeOK
  <2>5. contact' \in [Items -> CampaignContact]
    BY <2>3, <2>4 DEF TypeOK, CampaignContact, CallAttempt
  <2> QED
    BY <1>3, <2>2, <2>5 DEF CloseReviewItem, TypeOK, admin
<1> QED
  BY <1>1, <1>2, <1>3 DEF ReviewStep

\* Every sweep writes the rows through Returned or Shared.
LEMMA SweptType ==
  ASSUME TypeOK, NEW S,
         \/ work' = Reclaim(S)
         \/ work' = [i \in Items |-> IF i \in S THEN Shared(work[i]) ELSE work[i]]
  PROVE  work' \in [Items -> WorkItem]
<1>1. \A i \in Items : Returned(work[i]) \in WorkItem /\ Shared(work[i]) \in WorkItem
  BY ReturnedType DEF TypeOK
<1> QED
  BY <1>1 DEF Reclaim, TypeOK

\* So does reclaim_expired_leases.
LEMMA SweepType ==
  ASSUME TypeOK, Sweep
  PROVE  TypeOK'
<1>1. work' \in [Items -> WorkItem]
  BY SweptType DEF Sweep, ReclaimExpiredLeases
<1> QED
  BY <1>1 DEF Sweep, ReclaimExpiredLeases, TypeOK, admin

\* So do disabling a user and ending, moving and making assignments.
LEMMA StaffingStepType ==
  ASSUME TypeOK, StaffingStep
  PROVE  TypeOK'
<1>1. CASE \E a \in Agents : ReactivateUser(a)
  BY <1>1, ConstantsAssumption DEF ReactivateUser, TypeOK, rows
<1>2. CASE \E s \in Assignment : AssignAgent(s)
  BY <1>2 DEF AssignAgent, TypeOK, rows
<1>3. ASSUME NEW busy, NEW a \in Agents, DisableUser(a, busy)
      PROVE  TypeOK'
  <2>1. work' \in [Items -> WorkItem]
    BY <1>3, SweptType DEF DisableUser
  <2> QED
    BY <1>3, <2>1 DEF DisableUser, TypeOK
<1>4. ASSUME NEW busy, NEW s \in Assignment, EndUserAssignment(s, busy)
      PROVE  TypeOK'
  <2>1. work' \in [Items -> WorkItem]
    BY <1>4, SweptType DEF EndUserAssignment, ReleaseCampaignWork
  <2> QED
    BY <1>4, <2>1 DEF EndUserAssignment, TypeOK
<1>5. ASSUME NEW busy, NEW s \in Assignment, NEW c \in Campaigns, TransferAgent(s, c, busy)
      PROVE  TypeOK'
  <2>1. work' \in [Items -> WorkItem]
    BY <1>5, SweptType DEF TransferAgent, ReleaseCampaignWork
  <2>2. assignments' \subseteq Assignment
    BY <1>5 DEF TransferAgent, TypeOK, Assignment
  <2> QED
    BY <1>5, <2>1, <2>2 DEF TransferAgent, TypeOK
<1> QED
  BY <1>1, <1>2, <1>3, <1>4, <1>5 DEF StaffingStep

\* Pausing, archiving and switching a flag keep the types.
LEMMA CampaignStepType ==
  ASSUME TypeOK, CampaignStep
  PROVE  TypeOK'
<1>1. CASE \E c \in Campaigns : PauseCampaign(c) \/ ArchiveCampaign(c)
  BY <1>1 DEF PauseCampaign, ArchiveCampaign, TypeOK, rows
<1>2. CASE \E f \in Toggles : SetFlag(f)
  BY <1>2, ConstantsAssumption DEF SetFlag, TypeOK, rows
<1> QED
  BY <1>1, <1>2 DEF CampaignStep

\* Every transaction of app/work/service.py, and every administrative write to
\* the same rows, keeps every column inside its domain: in particular every
\* state a row can be given is one the queries know.
THEOREM Typing == Spec => []TypeOK
<1>1. Init => TypeOK
  BY InitType
<1>2. TypeOK /\ [Next]_vars => TypeOK'
  <2> SUFFICES ASSUME TypeOK, [Next]_vars PROVE TypeOK'
    OBVIOUS
  <2>1. CASE Tick
    BY <2>1, NumbersAssumption DEF Tick, TypeOK, Times, rows, admin
  <2>2. CASE \E a \in Agents : LeaseNext(a)
    BY <2>2, LeaseNextType
  <2>3. CASE \E a \in Agents, i \in Items : AgentStep(a, i)
    BY <2>3, HolderStepType, CompleteType DEF AgentStep
  <2>4. CASE \E i \in Items : ReviewStep(i)
    BY <2>4, ReviewStepType
  <2>5. CASE Sweep
    BY <2>5, SweepType
  <2>6. CASE StaffingStep
    BY <2>6, StaffingStepType
  <2>7. CASE CampaignStep
    BY <2>7, CampaignStepType
  <2>8. CASE UNCHANGED vars
    BY <2>8 DEF vars, rows, admin, TypeOK
  <2> QED
    BY <2>1, <2>2, <2>3, <2>4, <2>5, <2>6, <2>7, <2>8 DEF Next
<1> QED
  BY <1>1, <1>2, PTL DEF Spec

-----------------------------------------------------------------------------
(***************************************************************************)
(* Who may hold which contact.  The inductive invariant is SafeInv with    *)
(* TypeOK.  Its three parts lean on each other: a redial gives an agent a  *)
(* lease without asking whether it holds another contact, so               *)
(* OneContactPerAgent has to say that it does not; a request is only known *)
(* to touch an open item because a leased row is open, so                  *)
(* SuppressionIsFinal needs the states LeaseIdentity relates to the lease  *)
(* columns.                                                                *)
(***************************************************************************)

SafeInv == LeaseIdentity /\ OneContactPerAgent /\ SuppressionIsFinal

-----------------------------------------------------------------------------
(* The four shapes of a step, as far as leases and suppressions go *)

Cleared(w) == w.owner = NoAgent /\ w.lease = NoLease /\ w.expires = NoTime

\* One row gives its lease up, or never had one, and stays or becomes not leased.
LEMMA RowClearedSafe ==
  ASSUME TypeOK, SafeInv, NEW i \in Items, NEW row \in WorkItem,
         work' = [work EXCEPT ![i] = row],
         Cleared(row), row.state \notin {"leased", "suppressed"},
         work[i].state \notin Terminal,
         UNCHANGED <<issued, suppressed>>
  PROVE  SafeInv'
<1>1. work'[i] = row /\ \A j \in Items : j # i => work'[j] = work[j]
  BY DEF TypeOK
<1>2. LeaseIdentity'
  BY <1>1 DEF SafeInv, LeaseIdentity, Leased, Cleared
<1>3. OneContactPerAgent'
  BY <1>1 DEF SafeInv, OneContactPerAgent, Holds, Leased
<1>4. SuppressionIsFinal'
  BY <1>1 DEF SafeInv, SuppressionIsFinal
<1> QED
  BY <1>2, <1>3, <1>4 DEF SafeInv

\* One open row is leased to an agent that holds no other row.
LEMMA RowLeasedSafe ==
  ASSUME TypeOK, SafeInv, RoomForLease,
         NEW i \in Items, NEW a \in Agents, NEW w \in WorkItem, NEW r \in LeaseReasons,
         work' = [work EXCEPT ![i] = LeasedTo(w, a, r)],
         issued' = Append(issued, [agent |-> a, item |-> i]),
         \A j \in Items : Holds(a, j) => j = i,
         work[i].state \notin Terminal,
         UNCHANGED suppressed
  PROVE  SafeInv'
<1>1. /\ work'[i].state = "leased" /\ work'[i].owner = a
      /\ work'[i].lease = Len(issued) + 1 /\ work'[i].expires = now + LeaseDuration
  BY DEF TypeOK, LeasedTo, WorkItem, NextLease
<1>2. \A j \in Items : j # i => work'[j] = work[j]
  BY DEF TypeOK
<1>3. /\ Len(issued) + 1 \in DOMAIN issued' /\ issued'[Len(issued) + 1] = [agent |-> a, item |-> i]
      /\ \A l \in DOMAIN issued : l \in DOMAIN issued' /\ issued'[l] = issued[l]
  BY DEF TypeOK, Lease
<1>4. LeaseIdentity'
  <2>1. now + LeaseDuration \in Times
    BY NumbersAssumption DEF TypeOK, RoomForLease, Times
  <2> QED
    BY <1>1, <1>2, <1>3, <2>1 DEF SafeInv, LeaseIdentity, Leased
<1>5. OneContactPerAgent'
  BY <1>1, <1>2 DEF SafeInv, OneContactPerAgent, Holds, Leased
<1>6. SuppressionIsFinal'
  BY <1>1, <1>2 DEF SafeInv, SuppressionIsFinal, Terminal
<1> QED
  BY <1>4, <1>5, <1>6 DEF SafeInv

\* A sweep takes the leases of a set of open rows back.
LEMMA RowsSweptSafe ==
  ASSUME TypeOK, SafeInv, NEW S,
         work' \in [Items -> WorkItem],
         \A i \in Items \cap S : /\ Cleared(work'[i])
                                 /\ work'[i].state \in {"queued", "callback_wait"}
                                 /\ work[i].state \notin Terminal,
         \A i \in Items \ S : work'[i] = work[i],
         UNCHANGED <<issued, suppressed>>
  PROVE  SafeInv'
<1>1. LeaseIdentity'
  BY DEF SafeInv, LeaseIdentity, Leased, Cleared
<1>2. OneContactPerAgent'
  BY DEF SafeInv, OneContactPerAgent, Holds, Leased
<1>3. SuppressionIsFinal'
  BY DEF SafeInv, SuppressionIsFinal
<1> QED
  BY <1>1, <1>2, <1>3 DEF SafeInv

\* A transaction that writes no work item, lease or suppression changes nothing here.
LEMMA UntouchedSafe ==
  ASSUME SafeInv, UNCHANGED <<work, issued, suppressed>>
  PROVE  SafeInv'
BY DEF SafeInv, LeaseIdentity, OneContactPerAgent, SuppressionIsFinal, Holds, Leased

-----------------------------------------------------------------------------
(* Every action has one of the shapes *)

\* lease_next refuses an agent that holds a row, and its candidates are never closed.
LEMMA LeaseNextSafe ==
  ASSUME TypeOK, SafeInv, NEW a \in Agents, LeaseNext(a)
  PROVE  SafeInv'
<1>1. PICK busy \in MayBeBusy(Items) :
        LeaseCallback(a, busy) \/ LeaseRetry(a, busy) \/ LeaseFresh(a, busy)
  BY DEF LeaseNext
<1>2. MayLease(a)
  BY <1>1 DEF LeaseCallback, LeaseRetry, LeaseFresh
<1>3. PICK i \in Items, r \in LeaseReasons :
        Grant(a, i, r) /\ work[i].state \in {"queued", "callback_wait", "retry_wait"}
  BY <1>1 DEF LeaseCallback, LeaseRetry, LeaseFresh, Earliest, DueCallbacks, DueRetries,
              Queue, LeaseReasons
<1> QED
  BY <1>2, <1>3, RowLeasedSafe DEF Grant, MayLease, TypeOK, Terminal

\* A held row is open, is its agent's only one, and every completion but a DNC
\* rewrites it alone.
LEMMA HeldRow ==
  ASSUME SafeInv, NEW a \in Agents, NEW i \in Items, NEW l, HoldsLive(a, i, l)
  PROVE  /\ work[i].state \notin Terminal
         /\ Holds(a, i)
         /\ \A j \in Items : Holds(a, j) => j = i
BY DEF SafeInv, OneContactPerAgent, HoldsLive, Holds, Leased, Terminal

\* Every way of giving a lease up clears owner, lease id and expiry together.
LEMMA CountedCleared ==
  ASSUME NEW w \in WorkItem
  PROVE  /\ Cleared(Released(w)) /\ Cleared(Counted(w)) /\ Cleared(ToReview(w))
         /\ Cleared(Returned(w)) /\ Cleared(Shared(w))
         /\ ToReview(w).state = "review" /\ Shared(w).state = "queued"
         /\ Returned(w).state \in {"queued", "callback_wait"}
BY DEF Cleared, Released, Counted, ToReview, Returned, Shared, WorkItem

\* A completion that records one row closes or requeues the contact the agent held.
LEMMA RecordedSafe ==
  ASSUME TypeOK, SafeInv, NEW a \in Agents, NEW i \in Items, NEW l \in LeasesSeen(a, i),
         NEW k \in Keys, NEW d \in Outcomes, NEW st \in States \ {"leased", "suppressed"},
         NEW row \in WorkItem, Cleared(row), row.state = st,
         MayComplete(a, i, l, k), Recorded(a, i, l, k, d, row), UNCHANGED issued
  PROVE  SafeInv'
BY HeldRow, RowClearedSafe DEF MayComplete, Recorded

\* complete_work_item, branch by branch: a redial renews the only contact the agent
\* holds, and a DNC closes every open row of the phone with the suppression.
LEMMA CompleteSafe ==
  ASSUME TypeOK, SafeInv, NEW a \in Agents, NEW i \in Items, NEW l \in LeasesSeen(a, i),
         NEW k \in Keys, NEW d \in Dispositions, CompleteAs(d, a, i, l, k)
  PROVE  SafeInv'
<1> DEFINE w == work[i]
<1>0. w \in WorkItem /\ Counted(w) \in WorkItem /\ ToReview(w) \in WorkItem
  BY CountedType DEF TypeOK
<1>c. Cleared(Counted(w)) /\ Cleared(ToReview(w)) /\ ToReview(w).state = "review"
  BY <1>0, CountedCleared
<1>r. \A o \in Outcomes : MayComplete(a, i, l, k) /\ Recorded(a, i, l, k, o, ToReview(w))
                         /\ UNCHANGED issued => SafeInv'
  BY <1>0, <1>c, RecordedSafe DEF States
<1>1. CASE CompleteClosing(a, i, l, k)
  <2> DEFINE row == [Counted(w) EXCEPT !.state = "completed"]
  <2>1. row \in WorkItem /\ Cleared(row) /\ row.state = "completed"
    BY <1>0, <1>c DEF WorkItem, States, Cleared
  <2> QED
    BY <1>1, <2>1, RecordedSafe DEF CompleteClosing, Outcomes, States
<1>2. CASE CompleteReview(a, i, l, k)
  BY <1>2, <1>r DEF CompleteReview, Outcomes
<1>3. CASE CompleteRequeue(a, i, l, k)
  <2> DEFINE row == [Counted(w) EXCEPT !.state = "queued"]
  <2>1. row \in WorkItem /\ Cleared(row) /\ row.state = "queued"
    BY <1>0, <1>c DEF WorkItem, States, Cleared
  <2> QED
    BY <1>3, <1>r, <2>1, RecordedSafe DEF CompleteRequeue, Outcomes, States
<1>4. CASE CompleteRetry(a, i, l, k)
  <2> DEFINE row == [Counted(w) EXCEPT !.state = "retry_wait", !.due = now + RetryDelay,
                       !.assigned = NoAgent]
  <2>1. now + RetryDelay \in Times
    BY <1>4, NumbersAssumption DEF CompleteRetry, TypeOK, Times
  <2>2. row \in WorkItem /\ Cleared(row) /\ row.state = "retry_wait"
    BY <1>0, <1>c, <2>1 DEF WorkItem, States, Cleared
  <2> QED
    BY <1>4, <1>r, <2>2, RecordedSafe DEF CompleteRetry, Outcomes, States
<1>5. CASE CompleteRedial(a, i, l, k)
  <2>1. CASE AtCeiling(w)
    BY <1>5, <2>1, <1>r DEF CompleteRedial, Outcomes
  <2>2. CASE ~AtCeiling(w)
    <3>1. HoldsLive(a, i, l)
      BY <1>5 DEF CompleteRedial, MayComplete
    <3>2. /\ RoomForLease
          /\ issued' = Append(issued, [agent |-> a, item |-> i])
          /\ work' = [work EXCEPT ![i] = LeasedTo(Counted(w), a, "immediate_redial")]
          /\ suppressed' = suppressed
      BY <1>5, <2>2 DEF CompleteRedial, Recorded
    <3> QED
      BY <3>1, <3>2, <1>0, HeldRow, RowLeasedSafe DEF LeaseReasons
  <2> QED
    BY <2>1, <2>2
<1>6. CASE \E at \in Times : CompleteCallback(a, i, l, k, at)
  <2>1. PICK at \in Times : CompleteCallback(a, i, l, k, at)
    BY <1>6
  <2> DEFINE row == [Counted(w) EXCEPT !.state = "callback_wait", !.due = at, !.assigned = a]
  <2>2. row \in WorkItem /\ Cleared(row) /\ row.state = "callback_wait"
    BY <1>0, <1>c DEF WorkItem, States, Cleared
  <2> QED
    BY <2>1, <2>2, RecordedSafe DEF CompleteCallback, Outcomes, States
<1>7. CASE CompleteDnc(a, i, l, k)
  <2>1. \A j \in Items :
          IF j \in OpenFor(PhoneOf[i])
          THEN Cleared(work'[j]) /\ work'[j].state = "suppressed"
          ELSE work'[j] = work[j]
    <3> TAKE j \in Items
    <3>1. Released(work[j]) \in WorkItem /\ Cleared(Released(work[j]))
      BY ReleasedType, CountedCleared DEF TypeOK
    <3> QED
      BY <1>7, <3>1 DEF CompleteDnc, Cleared, WorkItem
  <2>2. issued' = issued /\ suppressed' = suppressed \cup {PhoneOf[i]}
    BY <1>7 DEF CompleteDnc
  <2>3. LeaseIdentity'
    BY <2>1, <2>2 DEF SafeInv, LeaseIdentity, Leased, Cleared
  <2>4. OneContactPerAgent'
    BY <2>1 DEF SafeInv, OneContactPerAgent, Holds, Leased
  <2>5. SuppressionIsFinal'
    BY <2>1, <2>2 DEF SafeInv, SuppressionIsFinal, OpenFor, Terminal
  <2> QED
    BY <2>3, <2>4, <2>5 DEF SafeInv
<1> QED
  BY <1>1, <1>2, <1>3, <1>4, <1>5, <1>6, <1>7 DEF CompleteAs

\* renew_lease moves the expiry only; skip_work_item gives the contact back.
LEMMA HolderStepSafe ==
  ASSUME TypeOK, SafeInv, NEW a \in Agents, NEW i \in Items, NEW l \in LeasesSeen(a, i),
         RenewLease(a, i, l) \/ SkipWorkItem(a, i, l)
  PROVE  SafeInv'
<1>1. CASE RenewLease(a, i, l)
  <2>1. now + LeaseDuration \in Times
    BY <1>1, NumbersAssumption DEF RenewLease, TypeOK, Times
  <2>2. /\ work'[i].state = work[i].state /\ work'[i].owner = work[i].owner
        /\ work'[i].lease = work[i].lease /\ work'[i].expires = now + LeaseDuration
        /\ \A j \in Items : j # i => work'[j] = work[j]
        /\ issued' = issued /\ suppressed' = suppressed
    BY <1>1 DEF RenewLease, TypeOK, WorkItem
  <2>3. Leased(i)
    BY <1>1 DEF RenewLease, HoldsLive
  <2>4. LeaseIdentity'
    BY <2>1, <2>2, <2>3 DEF SafeInv, LeaseIdentity, Leased
  <2>5. OneContactPerAgent'
    BY <2>2 DEF SafeInv, OneContactPerAgent, Holds, Leased
  <2>6. SuppressionIsFinal'
    BY <2>2 DEF SafeInv, SuppressionIsFinal
  <2> QED
    BY <2>4, <2>5, <2>6 DEF SafeInv
<1>2. CASE SkipWorkItem(a, i, l)
  <2>1. Released(work[i]) \in WorkItem /\ Cleared(Released(work[i]))
    BY ReleasedType, CountedCleared DEF TypeOK
  <2>2. PICK st \in {"review", "queued"} :
          work' = [work EXCEPT ![i] =
                     [Released(work[i]) EXCEPT !.skips = @ + 1, !.state = st]]
    BY <1>2 DEF SkipWorkItem
  <2> DEFINE row == [Released(work[i]) EXCEPT !.skips = @ + 1, !.state = st]
  <2>3. Released(work[i]).skips + 1 \in Nat
    BY <2>1 DEF WorkItem
  <2>4. row \in WorkItem /\ Cleared(row) /\ row.state = st
    BY <2>1, <2>3 DEF WorkItem, States, Cleared
  <2>5. HoldsLive(a, i, l) /\ UNCHANGED <<issued, suppressed>>
    BY <1>2 DEF SkipWorkItem
  <2> QED
    BY <2>2, <2>4, <2>5, HeldRow, RowClearedSafe
<1> QED
  BY <1>1, <1>2

\* An item under review carries no lease, so a reviewer's decision clears nothing.
LEMMA ReviewStepSafe ==
  ASSUME TypeOK, SafeInv, NEW i \in Items, ReviewStep(i)
  PROVE  SafeInv'
<1>1. PICK row :
        /\ work' = [work EXCEPT ![i] = row]
        /\ row.owner = work[i].owner /\ row.lease = work[i].lease
        /\ row.expires = work[i].expires /\ row.state \in {"retry_wait", "completed"}
        /\ work[i].state = "review" /\ UNCHANGED <<issued, suppressed>>
  <2>0. work[i] \in WorkItem
    BY DEF TypeOK
  <2>1. CASE \E at \in Times : RescheduleReviewItem(i, at)
    BY <2>1, <2>0 DEF RescheduleReviewItem, WorkItem
  <2>2. CASE \E n \in 1..MaxAttemptCeiling : IncreaseReviewItemAttempts(i, n)
    BY <2>2, <2>0 DEF IncreaseReviewItemAttempts, WorkItem
  <2>3. CASE CloseReviewItem(i)
    BY <2>3, <2>0 DEF CloseReviewItem, WorkItem
  <2> QED
    BY <2>1, <2>2, <2>3 DEF ReviewStep
<1>2. TypeOK'
  BY ReviewStepType
<1>3. row \in WorkItem
  BY <1>1, <1>2 DEF TypeOK
<1>4. Cleared(row)
  BY <1>1 DEF SafeInv, LeaseIdentity, Leased, Cleared
<1> QED
  BY <1>1, <1>3, <1>4, RowClearedSafe DEF Terminal

\* The sweep and the two releases write rows that are leased or waiting, so none is closed.
LEMMA SweptSafe ==
  ASSUME TypeOK, SafeInv, NEW S,
         \A i \in Items \cap S : work[i].state \in {"leased", "callback_wait"},
         \/ work' = Reclaim(S)
         \/ work' = [i \in Items |-> IF i \in S THEN Shared(work[i]) ELSE work[i]],
         UNCHANGED <<issued, suppressed>>
  PROVE  SafeInv'
<1>1. \A i \in Items :
        /\ Cleared(Returned(work[i])) /\ Returned(work[i]).state \in {"queued", "callback_wait"}
        /\ Cleared(Shared(work[i])) /\ Shared(work[i]).state = "queued"
  BY CountedCleared DEF TypeOK
<1>2. work' \in [Items -> WorkItem]
  BY SweptType
<1>3. \A i \in Items \cap S : Cleared(work'[i]) /\ work'[i].state \in {"queued", "callback_wait"}
  BY <1>1 DEF Reclaim
<1>4. \A i \in Items \ S : work'[i] = work[i]
  BY DEF Reclaim
<1> QED
  BY <1>2, <1>3, <1>4, RowsSweptSafe DEF Terminal

\* reclaim_expired_leases is such a sweep.
LEMMA SweepSafe ==
  ASSUME TypeOK, SafeInv, Sweep
  PROVE  SafeInv'
<1>1. PICK busy \in MayBeBusy(Items) : ReclaimExpiredLeases(busy)
  BY DEF Sweep
<1>2. \A i \in Expired : work[i].state \in {"leased", "callback_wait"}
  BY DEF Expired, Leased
<1>3. work' = Reclaim(Expired \ busy) /\ UNCHANGED <<issued, suppressed>>
  BY <1>1 DEF ReclaimExpiredLeases
<1> QED
  BY <1>2, <1>3, SweptSafe

\* So are disable_user, end_user_assignment and transfer_agent, whatever rows are locked.
LEMMA StaffingStepSafe ==
  ASSUME TypeOK, SafeInv, StaffingStep
  PROVE  SafeInv'
<1>1. ASSUME NEW a \in Agents, ReactivateUser(a)
      PROVE  SafeInv'
  BY <1>1, UntouchedSafe DEF ReactivateUser, rows
<1>2. ASSUME NEW s \in Assignment, AssignAgent(s)
      PROVE  SafeInv'
  BY <1>2, UntouchedSafe DEF AssignAgent, rows
<1>3. ASSUME NEW busy, NEW a \in Agents, DisableUser(a, busy)
      PROVE  SafeInv'
  <2> DEFINE S == {i \in Items : Holds(a, i)} \ busy
  <2>1. \A i \in Items \cap S : work[i].state \in {"leased", "callback_wait"}
    BY DEF Holds, Leased
  <2>2. work' = Reclaim(S) /\ UNCHANGED <<issued, suppressed>>
    BY <1>3 DEF DisableUser
  <2> HIDE DEF S
  <2> QED
    BY <2>1, <2>2, SweptSafe
<1>4. ASSUME NEW busy, NEW a, NEW c, ReleaseCampaignWork(a, c, busy),
             UNCHANGED <<issued, suppressed>>
      PROVE  SafeInv'
  <2> DEFINE S == HeldIn(a, c) \ busy
  <2>1. \A i \in Items \cap S : work[i].state \in {"leased", "callback_wait"}
    BY DEF HeldIn, Holds, Leased
  <2>2. work' = [i \in Items |-> IF i \in S THEN Shared(work[i]) ELSE work[i]]
    BY <1>4 DEF ReleaseCampaignWork
  <2> HIDE DEF S
  <2> QED
    BY <1>4, <2>1, <2>2, SweptSafe
<1>5. ASSUME NEW busy, NEW s \in Assignment, EndUserAssignment(s, busy)
      PROVE  SafeInv'
  BY <1>5, <1>4 DEF EndUserAssignment
<1>6. ASSUME NEW busy, NEW s \in Assignment, NEW c \in Campaigns, TransferAgent(s, c, busy)
      PROVE  SafeInv'
  BY <1>6, <1>4 DEF TransferAgent
<1> QED
  BY <1>1, <1>2, <1>3, <1>5, <1>6 DEF StaffingStep

-----------------------------------------------------------------------------
(* The invariant *)

\* One-contact exposure, lease identity and DNC finality together, under any
\* interleaving of agents, reviewers, sweeps, staffing changes and row locks.
THEOREM Safety == Spec => []SafeInv
<1>1. Init => SafeInv
  BY DEF Init, FreshItem, SafeInv, LeaseIdentity, OneContactPerAgent, SuppressionIsFinal,
         Holds, Leased
<1>2. TypeOK /\ SafeInv /\ [Next]_vars => SafeInv'
  <2> SUFFICES ASSUME TypeOK, SafeInv, [Next]_vars PROVE SafeInv'
    OBVIOUS
  <2>1. CASE Tick
    BY <2>1, UntouchedSafe DEF Tick, rows
  <2>2. CASE \E a \in Agents : LeaseNext(a)
    BY <2>2, LeaseNextSafe
  <2>3. CASE \E a \in Agents, i \in Items : AgentStep(a, i)
    BY <2>3, HolderStepSafe, CompleteSafe DEF AgentStep
  <2>4. CASE \E i \in Items : ReviewStep(i)
    BY <2>4, ReviewStepSafe
  <2>5. CASE Sweep
    BY <2>5, SweepSafe
  <2>6. CASE StaffingStep
    BY <2>6, StaffingStepSafe
  <2>7. CASE CampaignStep
    BY <2>7, UntouchedSafe DEF CampaignStep, PauseCampaign, ArchiveCampaign, SetFlag, rows
  <2>8. CASE UNCHANGED vars
    BY <2>8, UntouchedSafe DEF vars, rows
  <2> QED
    BY <2>1, <2>2, <2>3, <2>4, <2>5, <2>6, <2>7, <2>8 DEF Next
<1> QED
  BY <1>1, <1>2, Typing, PTL DEF Spec

\* A leased row always carries the lease its owner was given for that contact,
\* whichever of the lease-taking and lease-losing paths last wrote it.
THEOREM LeaseIdentityHolds == Spec => []LeaseIdentity
BY Safety, PTL DEF SafeInv

\* No agent is ever shown two contacts (plan invariant 3), for any number of
\* agents, contacts and campaigns and however sweeps and redials interleave.
THEOREM OneContactPerAgentHolds == Spec => []OneContactPerAgent
BY Safety, PTL DEF SafeInv

\* A phone that asked not to be called has no open work item anywhere (plan
\* invariant 7), and keeps none.
THEOREM SuppressionIsFinalHolds == Spec => []SuppressionIsFinal
BY Safety, PTL DEF SafeInv

=============================================================================

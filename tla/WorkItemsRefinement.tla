------------------------- MODULE WorkItemsRefinement -------------------------
(***************************************************************************)
(* WorkItems implements ContactDisclosure: the initial states map to the   *)
(* initial state, and every transaction to one disclosure, withdrawal,     *)
(* closure or bar, or to a stutter.                                        *)
(***************************************************************************)
EXTENDS WorkItemsProofs

holder == [i \in Items |-> work[i].owner]
closed == {i \in Items : work[i].state \in Terminal}

\* What a transaction does to one row: the abstract state follows from it.
LEMMA RowMaps ==
  ASSUME TypeOK, NEW i \in Items, NEW row \in WorkItem, work' = [work EXCEPT ![i] = row]
  PROVE  /\ holder' = [holder EXCEPT ![i] = row.owner]
         /\ closed' = IF row.state \in Terminal THEN closed \cup {i} ELSE closed \ {i}
BY DEF holder, closed, TypeOK

\* A row that only gives its lease up is a withdrawal of that contact.
LEMMA RowWithdrawn ==
  ASSUME TypeOK, NEW i \in Items, NEW row \in WorkItem, work' = [work EXCEPT ![i] = row],
         row.owner = NoAgent, row.state \notin Terminal, work[i].state \notin Terminal,
         UNCHANGED suppressed
  PROVE  Disclosure!Withdraw({i})
<1>1. holder' = [holder EXCEPT ![i] = NoAgent] /\ closed' = closed
  BY RowMaps DEF closed
<1> QED
  BY <1>1 DEF Disclosure!Withdraw, holder, closed

\* A row that ends in "completed" is a closure.
LEMMA RowClosed ==
  ASSUME TypeOK, NEW i \in Items, NEW row \in WorkItem, work' = [work EXCEPT ![i] = row],
         row.owner = NoAgent, row.state \in Terminal, work[i].state \notin Terminal,
         UNCHANGED suppressed
  PROVE  Disclosure!Close(i)
<1>1. holder' = [holder EXCEPT ![i] = NoAgent] /\ closed' = closed \cup {i} /\ i \notin closed
  BY RowMaps DEF closed
<1> QED
  BY <1>1 DEF Disclosure!Close, holder, closed

\* A sweep withdraws exactly the contacts whose rows it writes.
LEMMA SweptWithdrawn ==
  ASSUME TypeOK, NEW S,
         \A i \in Items \cap S : work[i].state \in {"leased", "callback_wait"},
         \/ work' = Reclaim(S)
         \/ work' = [i \in Items |-> IF i \in S THEN Shared(work[i]) ELSE work[i]],
         UNCHANGED suppressed
  PROVE  Disclosure!Withdraw(Items \cap S)
<1>1. \A i \in Items :
        /\ Returned(work[i]).owner = NoAgent /\ Returned(work[i]).state \notin Terminal
        /\ Shared(work[i]).owner = NoAgent /\ Shared(work[i]).state \notin Terminal
  BY CountedCleared DEF TypeOK, Cleared, Terminal
<1>2. \A i \in Items :
        IF i \in S THEN work'[i].owner = NoAgent /\ work'[i].state \notin Terminal
                   ELSE work'[i] = work[i]
  BY <1>1 DEF Reclaim
<1>3. \A i \in Items : work'[i].state \in Terminal <=> work[i].state \in Terminal
  BY <1>2 DEF Terminal
<1> QED
  BY <1>2, <1>3 DEF Disclosure!Withdraw

-----------------------------------------------------------------------------
(* Action by action *)

Mapped == Disclosure!Next \/ UNCHANGED Disclosure!dvars

\* lease_next discloses one open, callable contact to an agent that has none.
LEMMA LeaseNextMaps ==
  ASSUME TypeOK, SafeInv, NEW a \in Agents, LeaseNext(a)
  PROVE  Mapped
<1>1. PICK busy \in MayBeBusy(Items) :
        LeaseCallback(a, busy) \/ LeaseRetry(a, busy) \/ LeaseFresh(a, busy)
  BY DEF LeaseNext
<1>2. MayLease(a)
  BY <1>1 DEF LeaseCallback, LeaseRetry, LeaseFresh
<1>3. PICK i \in Items, r \in LeaseReasons :
        /\ Grant(a, i, r) /\ Callable(i)
        /\ work[i].state \in {"queued", "callback_wait", "retry_wait"}
  BY <1>1 DEF LeaseCallback, LeaseRetry, LeaseFresh, Earliest, DueCallbacks, DueRetries,
              Queue, LeaseReasons
<1>4. LeasedTo(work[i], a, r) \in WorkItem
  BY <1>2, LeasedToType DEF MayLease, TypeOK
<1>5. /\ LeasedTo(work[i], a, r).owner = a /\ LeasedTo(work[i], a, r).state = "leased"
      /\ work[i].owner = NoAgent
      /\ \A j \in Items : work[j].owner # a
  BY <1>2, <1>3, ConstantsAssumption
     DEF LeasedTo, TypeOK, WorkItem, SafeInv, LeaseIdentity, MayLease, Holds, Leased
<1>6. i \notin closed
  BY <1>3 DEF closed, Terminal
<1>7. holder' = [holder EXCEPT ![i] = a] /\ closed' = closed
  <2> DEFINE row == LeasedTo(work[i], a, r)
  <2>1. work' = [work EXCEPT ![i] = row] /\ row.owner = a /\ row.state \notin Terminal
    BY <1>3, <1>5 DEF Grant, Terminal
  <2>2. row \in WorkItem
    BY <1>4
  <2> HIDE DEF row
  <2>3. /\ holder' = [holder EXCEPT ![i] = row.owner]
        /\ closed' = IF row.state \in Terminal THEN closed \cup {i} ELSE closed \ {i}
    BY <2>1, <2>2, RowMaps
  <2> QED
    BY <2>1, <2>3, <1>6
<1>8. Disclosure!Disclose(a, i)
  BY <1>3, <1>5, <1>6, <1>7 DEF Disclosure!Disclose, holder, closed, Grant, Callable
<1> QED
  BY <1>8 DEF Mapped, Disclosure!Next

\* A completion that records one row closes that contact or withdraws it.
LEMMA RecordedMaps ==
  ASSUME TypeOK, SafeInv, NEW a \in Agents, NEW i \in Items, NEW l, NEW k, NEW o,
         NEW row \in WorkItem, Cleared(row), row.state # "suppressed",
         MayComplete(a, i, l, k), Recorded(a, i, l, k, o, row)
  PROVE  Mapped
<1>1. work[i].state \notin Terminal
  BY HeldRow DEF MayComplete
<1>2. CASE row.state \in Terminal
  BY <1>1, <1>2, RowClosed DEF Recorded, Cleared, Mapped, Disclosure!Next
<1>3. CASE row.state \notin Terminal
  <2>1. Disclosure!Withdraw({i})
    BY <1>1, <1>3, RowWithdrawn DEF Recorded, Cleared
  <2> QED
    BY <2>1 DEF Mapped, Disclosure!Next
<1> QED
  BY <1>2, <1>3

\* An explicit DNC bars the number and closes every contact that has it.
LEMMA DncMaps ==
  ASSUME TypeOK, SafeInv, NEW a \in Agents, NEW i \in Items, NEW l, NEW k,
         CompleteDnc(a, i, l, k)
  PROVE  Mapped
<1> DEFINE same == {j \in Items : PhoneOf[j] = PhoneOf[i]}
<1>1. work[i].owner = a
  BY DEF CompleteDnc, MayComplete, HoldsLive
<1>2. \A j \in Items :
        IF j \in OpenFor(PhoneOf[i])
        THEN work'[j].owner = NoAgent /\ work'[j].state = "suppressed"
        ELSE work'[j] = work[j]
  <2> TAKE j \in Items
  <2>1. Released(work[j]) \in WorkItem /\ Cleared(Released(work[j]))
    BY ReleasedType, CountedCleared DEF TypeOK
  <2> QED
    BY <2>1 DEF CompleteDnc, Cleared, WorkItem
<1>3. \A j \in same : work'[j].owner = NoAgent /\ work'[j].state \in Terminal
  BY <1>2 DEF OpenFor, SafeInv, LeaseIdentity, Leased, Terminal
<1>4. \A j \in Items \ same : work'[j] = work[j]
  BY <1>2 DEF OpenFor
<1>5. closed' = closed \cup same
  BY <1>3, <1>4 DEF closed
<1>6. holder' = [j \in Items |-> IF j \in same THEN NoAgent ELSE holder[j]]
  BY <1>3, <1>4 DEF holder
<1>7. holder[i] # NoAgent
  BY <1>1, ConstantsAssumption DEF holder
<1>8. Disclosure!Bar(i)
  BY <1>5, <1>6, <1>7 DEF Disclosure!Bar, CompleteDnc, holder, closed
<1> QED
  BY <1>8 DEF Mapped, Disclosure!Next

\* complete_work_item, branch by branch; a redial leaves the disclosure as it is.
LEMMA CompleteMaps ==
  ASSUME TypeOK, SafeInv, NEW a \in Agents, NEW i \in Items, NEW l \in LeasesSeen(a, i),
         NEW k \in Keys, NEW d \in Dispositions, CompleteAs(d, a, i, l, k)
  PROVE  Mapped
<1> DEFINE w == work[i]
<1>0. w \in WorkItem /\ Counted(w) \in WorkItem /\ ToReview(w) \in WorkItem
  BY CountedType DEF TypeOK
<1>c. Cleared(Counted(w)) /\ Cleared(ToReview(w)) /\ ToReview(w).state = "review"
  BY <1>0, CountedCleared
<1>r. \A o : MayComplete(a, i, l, k) /\ Recorded(a, i, l, k, o, ToReview(w)) => Mapped
  BY <1>0, <1>c, RecordedMaps
<1>1. CASE CompleteClosing(a, i, l, k)
  <2> DEFINE row == [Counted(w) EXCEPT !.state = "completed"]
  <2>1. row \in WorkItem /\ Cleared(row) /\ row.state = "completed"
    BY <1>0, <1>c DEF WorkItem, States, Cleared
  <2> QED
    BY <1>1, <2>1, RecordedMaps DEF CompleteClosing
<1>2. CASE CompleteReview(a, i, l, k)
  BY <1>2, <1>r DEF CompleteReview
<1>3. CASE CompleteRequeue(a, i, l, k)
  <2> DEFINE row == [Counted(w) EXCEPT !.state = "queued"]
  <2>1. row \in WorkItem /\ Cleared(row) /\ row.state = "queued"
    BY <1>0, <1>c DEF WorkItem, States, Cleared
  <2> QED
    BY <1>3, <1>r, <2>1, RecordedMaps DEF CompleteRequeue
<1>4. CASE CompleteRetry(a, i, l, k)
  <2> DEFINE row == [Counted(w) EXCEPT !.state = "retry_wait", !.due = now + RetryDelay,
                       !.assigned = NoAgent]
  <2>1. now + RetryDelay \in Times
    BY <1>4, NumbersAssumption DEF CompleteRetry, TypeOK, Times
  <2>2. row \in WorkItem /\ Cleared(row) /\ row.state = "retry_wait"
    BY <1>0, <1>c, <2>1 DEF WorkItem, States, Cleared
  <2> QED
    BY <1>4, <1>r, <2>2, RecordedMaps DEF CompleteRetry
<1>5. CASE CompleteRedial(a, i, l, k)
  <2>1. CASE AtCeiling(w)
    BY <1>5, <2>1, <1>r DEF CompleteRedial
  <2>2. CASE ~AtCeiling(w)
    <3> DEFINE row == LeasedTo(Counted(w), a, "immediate_redial")
    <3>1. /\ RoomForLease /\ HoldsLive(a, i, l) /\ work' = [work EXCEPT ![i] = row]
          /\ UNCHANGED suppressed
      BY <1>5, <2>2 DEF CompleteRedial, MayComplete, Recorded
    <3>2. row \in WorkItem /\ row.owner = a /\ row.state = "leased"
      BY <3>1, <1>0, LeasedToType DEF LeaseReasons, LeasedTo, WorkItem
    <3>3. w.owner = a /\ w.state = "leased"
      BY <3>1 DEF HoldsLive, Leased
    <3>4. holder' = holder /\ closed' = closed
      BY <3>1, <3>2, <3>3, RowMaps DEF holder, closed, Terminal
    <3> QED
      BY <3>1, <3>4 DEF Mapped, Disclosure!dvars, holder, closed
  <2> QED
    BY <2>1, <2>2
<1>6. CASE \E at \in Times : CompleteCallback(a, i, l, k, at)
  <2>1. PICK at \in Times : CompleteCallback(a, i, l, k, at)
    BY <1>6
  <2> DEFINE row == [Counted(w) EXCEPT !.state = "callback_wait", !.due = at, !.assigned = a]
  <2>2. row \in WorkItem /\ Cleared(row) /\ row.state = "callback_wait"
    BY <1>0, <1>c DEF WorkItem, States, Cleared
  <2> QED
    BY <2>1, <2>2, RecordedMaps DEF CompleteCallback
<1>7. CASE CompleteDnc(a, i, l, k)
  BY <1>7, DncMaps
<1> QED
  BY <1>1, <1>2, <1>3, <1>4, <1>5, <1>6, <1>7 DEF CompleteAs

\* renew_lease discloses nothing new; skip_work_item withdraws the contact.
LEMMA HolderStepMaps ==
  ASSUME TypeOK, SafeInv, TypeOK', NEW a \in Agents, NEW i \in Items, NEW l \in LeasesSeen(a, i),
         RenewLease(a, i, l) \/ SkipWorkItem(a, i, l)
  PROVE  Mapped
<1>1. CASE RenewLease(a, i, l)
  <2>1. \A j \in Items : work'[j].owner = work[j].owner /\ work'[j].state = work[j].state
    BY <1>1 DEF RenewLease, TypeOK, WorkItem
  <2>2. holder' = holder /\ closed' = closed /\ suppressed' = suppressed
    BY <1>1, <2>1 DEF RenewLease, holder, closed
  <2> QED
    BY <2>2 DEF Mapped, Disclosure!dvars, holder, closed
<1>2. CASE SkipWorkItem(a, i, l)
  <2>1. work[i].state \notin Terminal
    BY <1>2, HeldRow DEF SkipWorkItem
  <2>2. Released(work[i]) \in WorkItem /\ Cleared(Released(work[i]))
    BY ReleasedType, CountedCleared DEF TypeOK
  <2>3. PICK st \in {"review", "queued"} :
          work' = [work EXCEPT ![i] =
                     [Released(work[i]) EXCEPT !.skips = @ + 1, !.state = st]]
    BY <1>2 DEF SkipWorkItem
  <2> DEFINE row == [Released(work[i]) EXCEPT !.skips = @ + 1, !.state = st]
  <2>4. row.owner = NoAgent /\ row.state = st
    BY <2>2 DEF WorkItem, Cleared
  <2>5. row \in WorkItem
    BY <2>3 DEF TypeOK
  <2>6. Disclosure!Withdraw({i})
    BY <1>2, <2>1, <2>3, <2>4, <2>5, RowWithdrawn DEF SkipWorkItem, Terminal
  <2> QED
    BY <2>6 DEF Mapped, Disclosure!Next
<1> QED
  BY <1>1, <1>2

\* A reviewer closes the contact or leaves it with nobody.
LEMMA ReviewStepMaps ==
  ASSUME TypeOK, SafeInv, TypeOK', NEW i \in Items, ReviewStep(i)
  PROVE  Mapped
<1>0. work[i] \in WorkItem
  BY DEF TypeOK
<1>1. PICK row :
        /\ work' = [work EXCEPT ![i] = row]
        /\ row.owner = work[i].owner /\ row.state \in {"retry_wait", "completed"}
        /\ work[i].state = "review" /\ suppressed' = suppressed
  <2>1. CASE \E at \in Times : RescheduleReviewItem(i, at)
    BY <2>1, <1>0 DEF RescheduleReviewItem, WorkItem
  <2>2. CASE \E n \in 1..MaxAttemptCeiling : IncreaseReviewItemAttempts(i, n)
    BY <2>2, <1>0 DEF IncreaseReviewItemAttempts, WorkItem
  <2>3. CASE CloseReviewItem(i)
    BY <2>3, <1>0 DEF CloseReviewItem, WorkItem
  <2> QED
    BY <2>1, <2>2, <2>3 DEF ReviewStep
<1>2. row \in WorkItem
  BY <1>1 DEF TypeOK
<1>3. row.owner = NoAgent /\ work[i].state \notin Terminal
  BY <1>1 DEF SafeInv, LeaseIdentity, Leased, Terminal
<1>4. CASE row.state \in Terminal
  BY <1>1, <1>2, <1>3, <1>4, RowClosed DEF Mapped, Disclosure!Next
<1>5. CASE row.state \notin Terminal
  <2>1. Disclosure!Withdraw({i})
    BY <1>1, <1>2, <1>3, <1>5, RowWithdrawn
  <2> QED
    BY <2>1 DEF Mapped, Disclosure!Next
<1> QED
  BY <1>4, <1>5

\* The sweep, disabling a user and releasing a leaver's work withdraw a set of contacts.
LEMMA SweptMaps ==
  ASSUME TypeOK, NEW S,
         \A i \in Items \cap S : work[i].state \in {"leased", "callback_wait"},
         \/ work' = Reclaim(S)
         \/ work' = [i \in Items |-> IF i \in S THEN Shared(work[i]) ELSE work[i]],
         UNCHANGED suppressed
  PROVE  Mapped
<1>1. Disclosure!Withdraw(Items \cap S)
  BY SweptWithdrawn
<1>2. Items \cap S \in SUBSET Items
  OBVIOUS
<1> QED
  BY <1>1, <1>2 DEF Mapped, Disclosure!Next

\* reclaim_expired_leases withdraws the expired contacts it finds unlocked.
LEMMA SweepMaps ==
  ASSUME TypeOK, Sweep
  PROVE  Mapped
<1>1. PICK busy \in MayBeBusy(Items) : ReclaimExpiredLeases(busy)
  BY DEF Sweep
<1> DEFINE S == Expired \ busy
<1>2. \A i \in Items \cap S : work[i].state \in {"leased", "callback_wait"}
  BY DEF Expired, Leased
<1>3. work' = Reclaim(S) /\ UNCHANGED suppressed
  BY <1>1 DEF ReclaimExpiredLeases
<1> HIDE DEF S
<1> QED
  BY <1>2, <1>3, SweptMaps

\* A transaction that writes no work item and no suppression is a stutter.
LEMMA UntouchedMaps ==
  ASSUME UNCHANGED <<work, suppressed>>
  PROVE  Mapped
BY DEF Mapped, Disclosure!dvars

\* Disabling a user and ending or moving an assignment withdraw that user's contacts.
LEMMA StaffingStepMaps ==
  ASSUME TypeOK, StaffingStep
  PROVE  Mapped
<1>1. ASSUME NEW a \in Agents, ReactivateUser(a)
      PROVE  Mapped
  BY <1>1, UntouchedMaps DEF ReactivateUser, rows
<1>2. ASSUME NEW s \in Assignment, AssignAgent(s)
      PROVE  Mapped
  BY <1>2, UntouchedMaps DEF AssignAgent, rows
<1>3. ASSUME NEW busy, NEW a \in Agents, DisableUser(a, busy)
      PROVE  Mapped
  <2> DEFINE S == {i \in Items : Holds(a, i)} \ busy
  <2>1. \A i \in Items \cap S : work[i].state \in {"leased", "callback_wait"}
    BY DEF Holds, Leased
  <2>2. work' = Reclaim(S) /\ UNCHANGED suppressed
    BY <1>3 DEF DisableUser
  <2> HIDE DEF S
  <2> QED
    BY <2>1, <2>2, SweptMaps
<1>4. ASSUME NEW busy, NEW a, NEW c, ReleaseCampaignWork(a, c, busy), UNCHANGED suppressed
      PROVE  Mapped
  <2> DEFINE S == HeldIn(a, c) \ busy
  <2>1. \A i \in Items \cap S : work[i].state \in {"leased", "callback_wait"}
    BY DEF HeldIn, Holds, Leased
  <2>2. work' = [i \in Items |-> IF i \in S THEN Shared(work[i]) ELSE work[i]]
    BY <1>4 DEF ReleaseCampaignWork
  <2> HIDE DEF S
  <2> QED
    BY <1>4, <2>1, <2>2, SweptMaps
<1>5. ASSUME NEW busy, NEW s \in Assignment, EndUserAssignment(s, busy)
      PROVE  Mapped
  BY <1>5, <1>4 DEF EndUserAssignment
<1>6. ASSUME NEW busy, NEW s \in Assignment, NEW c \in Campaigns, TransferAgent(s, c, busy)
      PROVE  Mapped
  BY <1>6, <1>4 DEF TransferAgent
<1> QED
  BY <1>1, <1>2, <1>3, <1>5, <1>6 DEF StaffingStep

-----------------------------------------------------------------------------
(* The refinement *)

\* The work queue keeps the promise of ContactDisclosure: whatever agents,
\* reviewers, sweeps and managers do to the rows, a contact is shown to one agent
\* at a time, an agent is shown one contact at a time, and nobody is shown a
\* closed contact or a number on the do-not-call list.
THEOREM Refinement == Spec => DisclosureSpec
<1>1. Init => Disclosure!Init
  BY DEF Init, FreshItem, Terminal, Disclosure!Init
<1>2. TypeOK /\ TypeOK' /\ SafeInv /\ [Next]_vars => [Disclosure!Next]_(Disclosure!dvars)
  <2> SUFFICES ASSUME TypeOK, TypeOK', SafeInv, [Next]_vars PROVE Mapped
    BY DEF Mapped
  <2>1. CASE Tick
    BY <2>1, UntouchedMaps DEF Tick, rows
  <2>2. CASE \E a \in Agents : LeaseNext(a)
    BY <2>2, LeaseNextMaps
  <2>3. CASE \E a \in Agents, i \in Items : AgentStep(a, i)
    BY <2>3, HolderStepMaps, CompleteMaps DEF AgentStep
  <2>4. CASE \E i \in Items : ReviewStep(i)
    BY <2>4, ReviewStepMaps
  <2>5. CASE Sweep
    BY <2>5, SweepMaps
  <2>6. CASE StaffingStep
    BY <2>6, StaffingStepMaps
  <2>7. CASE CampaignStep
    BY <2>7, UntouchedMaps DEF CampaignStep, PauseCampaign, ArchiveCampaign, SetFlag, rows
  <2>8. CASE UNCHANGED vars
    BY <2>8, UntouchedMaps DEF vars, rows
  <2> QED
    BY <2>1, <2>2, <2>3, <2>4, <2>5, <2>6, <2>7, <2>8 DEF Next
<1> QED
  BY <1>1, <1>2, Typing, Safety, PTL DEF Spec, DisclosureSpec, Disclosure!Spec

=============================================================================

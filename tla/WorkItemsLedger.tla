-------------------------- MODULE WorkItemsLedger --------------------------
(***************************************************************************)
(* What the queue remembers: which lease paid for which call, how many     *)
(* calls were made on a contact, and how its campaign contact was closed;  *)
(* proved for every value of the constants.                                *)
(*                                                                         *)
(* A step writes rows in one of two ways.  A completion adds one attempt   *)
(* and gives up, or replaces, the one lease it was made under; whatever    *)
(* else writes a row (QuietRow) counts no attempt, closes nothing and      *)
(* brings no lease back: a row's lease is the one it had, none, or the     *)
(* next one to be issued.  LeaseIdentity is what makes the lease presented *)
(* with a completion the lease of that row and of no other.                *)
(***************************************************************************)
EXTENDS WorkItemsProofs, FiniteSetTheorems

\* WaitingItemsAreDue, of one row.
RowDue(w) ==
  /\ w.state = "retry_wait" => w.assigned = NoAgent /\ w.due # NoTime
  /\ w.assigned # NoAgent => w.due # NoTime
  /\ w.state = "callback_wait" => w.assigned # NoAgent

LedgerInv == LeaseUsedOnce /\ AttemptLedger /\ ContactFollowsWork /\ WaitingItemsAreDue

\* The row v that something other than a completion or a closure leaves of w.
QuietRow(w, v) ==
  /\ v.attempts = w.attempts
  /\ v.lease \in {w.lease, NoLease, NextLease}
  /\ w.state \in Terminal => v = w
  /\ v.state \in Terminal => w.state \in Terminal
  /\ RowDue(w) => RowDue(v)

\* A lease is issued, or none is.
MayIssue == issued' = issued \/ \E g \in Lease : issued' = Append(issued, g)

-----------------------------------------------------------------------------
(* Rows. *)

LEMMA DueRows == WaitingItemsAreDue <=> \A i \in Items : RowDue(work[i])
  BY DEF WaitingItemsAreDue, RowDue

\* Giving a lease up, returning, sharing and leasing are quiet, whatever the row was.
LEMMA QuietWrites ==
  ASSUME NEW w \in WorkItem, w.state \notin Terminal, NEW a \in Agents, NEW r \in LeaseReasons
  PROVE  /\ QuietRow(w, w)
         /\ QuietRow(w, Returned(w))
         /\ QuietRow(w, Shared(w))
         /\ QuietRow(w, LeasedTo(w, a, r))
<1>1. QuietRow(w, w)
  BY DEF QuietRow
<1>2. /\ Returned(w).state = IF w.assigned # NoAgent THEN "callback_wait" ELSE "queued"
      /\ Returned(w).assigned = w.assigned /\ Returned(w).due = w.due
      /\ Returned(w).attempts = w.attempts /\ Returned(w).lease = NoLease
  BY DEF Returned, Released, WorkItem
<1>3. QuietRow(w, Returned(w))
  BY <1>2 DEF QuietRow, RowDue, Terminal
<1>4. /\ Shared(w).state = "queued" /\ Shared(w).assigned = NoAgent
      /\ Shared(w).attempts = w.attempts /\ Shared(w).lease = NoLease
  BY DEF Shared, Released, WorkItem
<1>5. QuietRow(w, Shared(w))
  BY <1>4 DEF QuietRow, RowDue, Terminal
<1>6. /\ LeasedTo(w, a, r).state = "leased" /\ LeasedTo(w, a, r).assigned = w.assigned
      /\ LeasedTo(w, a, r).due = w.due /\ LeasedTo(w, a, r).attempts = w.attempts
      /\ LeasedTo(w, a, r).lease = NextLease
  BY DEF LeasedTo, WorkItem
<1>7. QuietRow(w, LeasedTo(w, a, r))
  BY <1>6 DEF QuietRow, RowDue, Terminal
<1> QED
  BY <1>1, <1>3, <1>5, <1>7

\* The leases issued before keep their number.
LEMMA IssuedGrows ==
  ASSUME TypeOK, MayIssue
  PROVE  /\ \A l \in DOMAIN issued : l \in DOMAIN issued' /\ issued'[l] = issued[l] /\ l # NextLease
         /\ NoLease \notin DOMAIN issued
<1>1. issued \in Seq(Lease) /\ Len(issued) \in Nat /\ DOMAIN issued = 1 .. Len(issued)
  BY DEF TypeOK
<1>2. NextLease \notin DOMAIN issued /\ NoLease \notin DOMAIN issued
  BY <1>1 DEF NextLease, NoLease
<1>3. CASE issued' = issued
  BY <1>2, <1>3
<1>4. CASE \E g \in Lease : issued' = Append(issued, g)
  BY <1>1, <1>2, <1>4
<1> QED
  BY <1>2, <1>3, <1>4 DEF MayIssue

\* A step that writes rows quietly keeps the ledger.
LEMMA QuietLedger ==
  ASSUME TypeOK, LedgerInv, MayIssue,
         \A i \in Items : QuietRow(work[i], work'[i]),
         UNCHANGED <<callAttempts, contact>>
  PROVE  LedgerInv'
<1>1. LeaseUsedOnce'
  BY IssuedGrows DEF LedgerInv, LeaseUsedOnce, QuietRow
<1>2. AttemptLedger'
  BY IssuedGrows DEF LedgerInv, AttemptLedger, QuietRow, AttemptsOn
<1>3. \A i \in Items : work'[i].state \in Terminal \/ work[i].state \in Terminal => work'[i] = work[i]
  BY DEF QuietRow
<1>4. ContactFollowsWork'
  BY <1>3 DEF LedgerInv, ContactFollowsWork, AttemptsOn, Terminal
<1>5. WaitingItemsAreDue'
  BY DueRows DEF LedgerInv, QuietRow, WaitingItemsAreDue, RowDue
<1> QED
  BY <1>1, <1>2, <1>4, <1>5 DEF LedgerInv

-----------------------------------------------------------------------------
(* Completions. *)

\* The attempt goes to the end of the attempts, and on the item's own list only.
LEMMA AttemptsGrow ==
  ASSUME TypeOK, NEW t \in CallAttempt, callAttempts' = Append(callAttempts, t)
  PROVE  LET n == Len(callAttempts) + 1
         IN /\ n \notin DOMAIN callAttempts /\ DOMAIN callAttempts' = DOMAIN callAttempts \cup {n}
            /\ callAttempts'[n] = t
            /\ \A m \in DOMAIN callAttempts : callAttempts'[m] = callAttempts[m] /\ m < n
            /\ \A j \in Items : /\ AttemptsOn(j)' = AttemptsOn(j) \cup (IF j = t.item THEN {n} ELSE {})
                                /\ n \notin AttemptsOn(j) /\ AttemptsOn(j) \subseteq DOMAIN callAttempts
                                /\ IsFiniteSet(AttemptsOn(j))
<1> DEFINE n == Len(callAttempts) + 1
<1>1. callAttempts \in Seq(CallAttempt) /\ Len(callAttempts) \in Nat
      /\ DOMAIN callAttempts = 1 .. Len(callAttempts)
  BY DEF TypeOK
<1>2. /\ n \notin DOMAIN callAttempts /\ DOMAIN callAttempts' = DOMAIN callAttempts \cup {n}
      /\ callAttempts'[n] = t
      /\ \A m \in DOMAIN callAttempts : callAttempts'[m] = callAttempts[m] /\ m < n
  BY <1>1
<1>3. IsFiniteSet(DOMAIN callAttempts)
  BY <1>1, FS_Interval
<1>4. ASSUME NEW j \in Items
      PROVE  AttemptsOn(j) \subseteq DOMAIN callAttempts /\ IsFiniteSet(AttemptsOn(j))
  <2>1. AttemptsOn(j) \subseteq DOMAIN callAttempts
    BY DEF AttemptsOn
  <2> QED
    BY <1>3, <2>1, FS_Subset
<1> HIDE DEF n
<1>5. \A j \in Items : AttemptsOn(j)' = AttemptsOn(j) \cup (IF j = t.item THEN {n} ELSE {})
  BY <1>2 DEF AttemptsOn
<1> QED
  BY <1>2, <1>4, <1>5 DEF n

\* The lease presented with a completion is the row's, and no other row's.
LEMMA PresentedLease ==
  ASSUME TypeOK, SafeInv, NEW a \in Agents, NEW i \in Items, NEW l \in LeasesSeen(a, i),
         NEW k \in Keys, MayComplete(a, i, l, k)
  PROVE  /\ l \in DOMAIN issued /\ issued[l] = [agent |-> a, item |-> i]
         /\ work[i].lease = l
         /\ \A j \in Items : j # i => work[j].lease # l
<1>1. l \in DOMAIN issued /\ issued[l] = [agent |-> a, item |-> i] /\ work[i].lease = l
  BY DEF LeasesSeen, MayComplete, HoldsLive
<1>2. NoLease \notin DOMAIN issued
  BY DEF NoLease, TypeOK
<1>3. ASSUME NEW j \in Items, j # i, work[j].lease = l PROVE FALSE
  <2>1. Leased(j)
    BY <1>1, <1>2, <1>3 DEF SafeInv, LeaseIdentity
  <2>2. issued[l] = [agent |-> work[j].owner, item |-> j]
    BY <1>3, <2>1 DEF SafeInv, LeaseIdentity
  <2> QED
    BY <1>1, <1>3, <2>2
<1> QED
  BY <1>1, <1>3

\* A completion adds one attempt to the item's count, under a lease that no row keeps.
LEMMA AttemptAdded ==
  ASSUME TypeOK, SafeInv, LedgerInv, MayIssue,
         NEW a \in Agents, NEW i \in Items, NEW l \in LeasesSeen(a, i), NEW k \in Keys,
         NEW o \in Outcomes, NEW result \in States, NEW redial \in Nat,
         MayComplete(a, i, l, k),
         callAttempts' = Append(callAttempts, Attempt(a, i, l, k, o, result, redial)),
         result = "leased" =>
           redial = NextLease /\ issued' = Append(issued, [agent |-> a, item |-> i]),
         \A j \in Items : work'[j].lease \in {work[j].lease, NoLease, NextLease},
         work'[i].lease # l,
         work'[i].attempts = work[i].attempts + 1,
         \A j \in Items : j # i => work'[j].attempts = work[j].attempts
  PROVE  LeaseUsedOnce' /\ AttemptLedger'
<1> DEFINE t == Attempt(a, i, l, k, o, result, redial)
           n == Len(callAttempts) + 1
<1>1. t \in CallAttempt
  BY AttemptType
<1>2. /\ t.item = i /\ t.agent = a /\ t.key = k /\ t.lease = l /\ t.result = result /\ t.redial = redial
  BY DEF Attempt
<1> HIDE DEF t
<1>3. /\ n \notin DOMAIN callAttempts /\ DOMAIN callAttempts' = DOMAIN callAttempts \cup {n}
      /\ callAttempts'[n] = t
      /\ \A m \in DOMAIN callAttempts : callAttempts'[m] = callAttempts[m] /\ m < n
      /\ \A j \in Items : /\ AttemptsOn(j)' = AttemptsOn(j) \cup (IF j = t.item THEN {n} ELSE {})
                          /\ n \notin AttemptsOn(j) /\ AttemptsOn(j) \subseteq DOMAIN callAttempts
                          /\ IsFiniteSet(AttemptsOn(j))
  BY <1>1, AttemptsGrow DEF t
<1> HIDE DEF n
<1>4. /\ l \in DOMAIN issued /\ issued[l] = [agent |-> a, item |-> i]
      /\ work[i].lease = l
      /\ \A j \in Items : j # i => work[j].lease # l
  BY PresentedLease
<1>5. /\ \A x \in DOMAIN issued : x \in DOMAIN issued' /\ issued'[x] = issued[x] /\ x # NextLease
      /\ NoLease \notin DOMAIN issued
  BY IssuedGrows
<1>6. \A m \in DOMAIN callAttempts : callAttempts[m].lease # l
  BY <1>4 DEF LedgerInv, LeaseUsedOnce
<1>7. \A m \in DOMAIN callAttempts : ~(callAttempts[m].agent = a /\ callAttempts[m].key = k)
  BY DEF MayComplete
<1>8. \A j \in Items : work'[j].lease # l
  BY <1>4, <1>5
<1>9. ASSUME NEW m \in DOMAIN callAttempts'
      PROVE  /\ callAttempts'[m].lease \in DOMAIN issued'
             /\ issued'[callAttempts'[m].lease]
                  = [agent |-> callAttempts'[m].agent, item |-> callAttempts'[m].item]
             /\ \A j \in Items : work'[j].lease # callAttempts'[m].lease
             /\ \A x \in DOMAIN callAttempts' :
                  callAttempts'[x].lease = callAttempts'[m].lease => x = m
  <2>1. CASE m = n
    BY <1>2, <1>3, <1>4, <1>5, <1>6, <1>8, <2>1
  <2>2. CASE m # n
    <3>1. m \in DOMAIN callAttempts /\ callAttempts'[m] = callAttempts[m]
      BY <1>3, <2>2
    <3>2. /\ callAttempts[m].lease \in DOMAIN issued
          /\ issued[callAttempts[m].lease]
               = [agent |-> callAttempts[m].agent, item |-> callAttempts[m].item]
          /\ \A j \in Items : work[j].lease # callAttempts[m].lease
          /\ \A x \in DOMAIN callAttempts : callAttempts[x].lease = callAttempts[m].lease => x = m
      BY <3>1 DEF LedgerInv, LeaseUsedOnce
    <3>3. \A x \in DOMAIN callAttempts' : callAttempts'[x].lease = callAttempts[m].lease => x = m
      BY <1>2, <1>3, <1>6, <3>1, <3>2
    <3>4. \A j \in Items : work'[j].lease # callAttempts[m].lease
      BY <1>5, <3>2
    <3> QED
      BY <1>5, <3>1, <3>2, <3>3, <3>4
  <2> QED
    BY <2>1, <2>2
<1>10. LeaseUsedOnce'
  BY <1>9 DEF LeaseUsedOnce
<1>11. ASSUME NEW j \in Items PROVE work'[j].attempts = Cardinality(AttemptsOn(j)')
  <2>1. work[j].attempts = Cardinality(AttemptsOn(j))
    BY DEF LedgerInv, AttemptLedger
  <2>2. CASE j = i
    <3>1. AttemptsOn(j)' = AttemptsOn(j) \cup {n} /\ n \notin AttemptsOn(j) /\ IsFiniteSet(AttemptsOn(j))
      BY <1>2, <1>3, <2>2
    <3>2. Cardinality(AttemptsOn(j) \cup {n}) = Cardinality(AttemptsOn(j)) + 1
      BY <3>1, FS_AddElement
    <3> QED
      BY <2>1, <2>2, <3>1, <3>2
  <2>3. CASE j # i
    <3>1. AttemptsOn(j)' = AttemptsOn(j) \cup {}
      BY <1>2, <1>3, <2>3
    <3>2. AttemptsOn(j) \cup {} = AttemptsOn(j)
      OBVIOUS
    <3> QED
      BY <2>1, <2>3, <3>1, <3>2
  <2> QED
    BY <2>2, <2>3
<1>12. ASSUME NEW m \in DOMAIN callAttempts'
       PROVE  /\ \A x \in DOMAIN callAttempts' :
                   callAttempts'[x].agent = callAttempts'[m].agent
                     /\ callAttempts'[x].key = callAttempts'[m].key => x = m
              /\ callAttempts'[m].result = "leased" =>
                   /\ callAttempts'[m].redial \in DOMAIN issued'
                   /\ callAttempts'[m].redial > callAttempts'[m].lease
                   /\ issued'[callAttempts'[m].redial]
                        = [agent |-> callAttempts'[m].agent, item |-> callAttempts'[m].item]
  <2>1. CASE m = n
    <3>1. CASE result = "leased"
      <4>1. [agent |-> a, item |-> i] \in Lease
        BY DEF Lease
      <4>2. /\ NextLease \in DOMAIN issued' /\ issued'[NextLease] = [agent |-> a, item |-> i]
            /\ NextLease > l
        BY <1>4, <3>1, <4>1 DEF NextLease, TypeOK
      <4> QED
        BY <1>2, <1>3, <1>7, <2>1, <3>1, <4>2
    <3> QED
      BY <1>2, <1>3, <1>7, <2>1, <3>1
  <2>2. CASE m # n
    <3>1. m \in DOMAIN callAttempts /\ callAttempts'[m] = callAttempts[m]
      BY <1>3, <2>2
    <3> QED
      BY <1>2, <1>3, <1>5, <1>7, <3>1 DEF LedgerInv, AttemptLedger
  <2> QED
    BY <2>1, <2>2
<1>13. AttemptLedger'
  BY <1>11, <1>12 DEF AttemptLedger
<1> QED
  BY <1>10, <1>13

\* A completion that writes one row, and its contact when it closes the row.
Completion(a, i, l, k, o, row) ==
  /\ MayComplete(a, i, l, k) /\ Recorded(a, i, l, k, o, row) /\ MayIssue
  /\ row.attempts = work[i].attempts + 1
  /\ row.lease \in {NoLease, NextLease}
  /\ row.state = "leased" =>
       row.lease = NextLease /\ issued' = Append(issued, [agent |-> a, item |-> i])
  /\ RowDue(work[i]) => RowDue(row)
  /\ \/ row.state \notin Terminal /\ UNCHANGED contact
     \/ /\ row.state = "completed"
        /\ contact' = [contact EXCEPT ![i] =
             [status |-> "completed", closed |-> TRUE, by |-> a, code |-> o]]

LEMMA RecordedLedger ==
  ASSUME TypeOK, SafeInv, LedgerInv,
         NEW a \in Agents, NEW i \in Items, NEW l \in LeasesSeen(a, i), NEW k \in Keys,
         NEW o \in Outcomes, NEW row \in WorkItem, Completion(a, i, l, k, o, row)
  PROVE  LedgerInv'
<1> USE DEF Completion
<1> DEFINE t == Attempt(a, i, l, k, o, row.state, row.lease)
           n == Len(callAttempts) + 1
<1>1. /\ row.state \in States /\ row.lease \in Nat
      /\ work'[i] = row /\ \A j \in Items : j # i => work'[j] = work[j]
      /\ callAttempts' = Append(callAttempts, t)
  BY DEF Recorded, TypeOK, WorkItem
<1>2. l \in DOMAIN issued /\ l # NoLease /\ l # NextLease
  BY PresentedLease, IssuedGrows
<1>3. LeaseUsedOnce' /\ AttemptLedger'
  BY <1>1, <1>2, AttemptAdded
<1>4. WaitingItemsAreDue'
  <2> SUFFICES ASSUME NEW j \in Items PROVE RowDue(work'[j])
    BY DEF WaitingItemsAreDue, RowDue
  <2> QED
    BY <1>1, DueRows DEF LedgerInv
<1>5. work[i].state \notin Terminal
  BY HeldRow DEF MayComplete
<1>6. t \in CallAttempt /\ t.item = i /\ t.agent = a /\ t.code = o
  BY <1>1, AttemptType DEF Attempt
<1> HIDE DEF t
<1>7. /\ DOMAIN callAttempts' = DOMAIN callAttempts \cup {n}
      /\ callAttempts'[n] = t
      /\ \A m \in DOMAIN callAttempts : callAttempts'[m] = callAttempts[m] /\ m < n
      /\ \A j \in Items : AttemptsOn(j)' = AttemptsOn(j) \cup (IF j = t.item THEN {n} ELSE {})
                          /\ AttemptsOn(j) \subseteq DOMAIN callAttempts
  BY <1>1, <1>6, AttemptsGrow
<1>8. n \in Nat
  BY DEF TypeOK
<1> HIDE DEF n
<1>9. ASSUME NEW j \in Items
      PROVE  /\ contact'[j].closed <=> work'[j].state \in Terminal
             /\ contact'[j].status = IF work'[j].state \in Terminal THEN work'[j].state ELSE "queued"
             /\ work'[j].state = "completed" =>
                  \E x \in AttemptsOn(j)' :
                    /\ \A m \in AttemptsOn(j)' : m <= x
                    /\ contact'[j].by = callAttempts'[x].agent
                    /\ contact'[j].code = callAttempts'[x].code
  <2>1. CASE j # i
    <3>1. contact'[j] = contact[j] /\ work'[j] = work[j]
      BY <1>1, <2>1 DEF TypeOK
    <3>2. AttemptsOn(j)' = AttemptsOn(j) \cup {} /\ AttemptsOn(j) \cup {} = AttemptsOn(j)
      BY <1>6, <1>7, <2>1
    <3>3. \A m \in AttemptsOn(j) : callAttempts'[m] = callAttempts[m]
      BY <1>7
    <3> QED
      BY <3>1, <3>2, <3>3 DEF LedgerInv, ContactFollowsWork
  <2>2. CASE j = i /\ row.state \notin Terminal
    <3>1. contact'[j] = contact[j]
      BY <2>2 DEF Terminal
    <3> QED
      BY <1>1, <1>5, <2>2, <3>1 DEF LedgerInv, ContactFollowsWork, Terminal
  <2>3. CASE j = i /\ row.state \in Terminal
    <3>1. row.state = "completed"
          /\ contact'[i] = [status |-> "completed", closed |-> TRUE, by |-> a, code |-> o]
      BY <2>3 DEF TypeOK
    <3>2. n \in AttemptsOn(j)' /\ \A m \in AttemptsOn(j)' : m <= n
      <4>1. AttemptsOn(j)' = AttemptsOn(j) \cup {n}
        BY <1>6, <1>7, <2>3
      <4>2. \A m \in AttemptsOn(j) : m < n /\ m \in Nat
        BY <1>7 DEF TypeOK
      <4> QED
        BY <1>8, <4>1, <4>2
    <3> QED
      BY <1>1, <1>6, <1>7, <2>3, <3>1, <3>2 DEF Terminal
  <2> QED
    BY <2>1, <2>2, <2>3
<1>10. ContactFollowsWork'
  BY <1>9 DEF ContactFollowsWork
<1> QED
  BY <1>3, <1>4, <1>10 DEF LedgerInv

\* What counting an attempt does to a row, before its state is set.
LEMMA CountedRow ==
  ASSUME NEW w \in WorkItem
  PROVE  /\ Counted(w) \in WorkItem /\ Counted(w).attempts = w.attempts + 1
         /\ Counted(w).lease = NoLease
         /\ Counted(w).assigned = w.assigned /\ Counted(w).due = w.due
         /\ ToReview(w) \in WorkItem /\ ToReview(w).attempts = w.attempts + 1
         /\ ToReview(w).lease = NoLease /\ ToReview(w).state = "review"
         /\ ToReview(w).assigned = w.assigned /\ ToReview(w).due = w.due
<1>1. Counted(w) \in WorkItem /\ ToReview(w) \in WorkItem
  BY CountedType
<1>2. /\ Counted(w).attempts = w.attempts + 1 /\ Counted(w).lease = NoLease
      /\ Counted(w).assigned = w.assigned /\ Counted(w).due = w.due
  BY DEF Counted, Released, WorkItem
<1>3. /\ ToReview(w).attempts = Counted(w).attempts /\ ToReview(w).lease = Counted(w).lease
      /\ ToReview(w).assigned = Counted(w).assigned /\ ToReview(w).due = Counted(w).due
      /\ ToReview(w).state = "review"
  BY <1>1 DEF ToReview, WorkItem
<1> QED
  BY <1>1, <1>2, <1>3

\* complete_work_item with an outcome that does not suppress.
LEMMA CompleteWritesOne ==
  ASSUME TypeOK, NEW a \in Agents, NEW i \in Items, NEW l \in LeasesSeen(a, i),
         NEW k \in Keys, NEW d \in Dispositions, CompleteAs(d, a, i, l, k), d # "explicit_dnc"
  PROVE  \E o \in Outcomes, row \in WorkItem : Completion(a, i, l, k, o, row)
<1> DEFINE Shaped == \E o \in Outcomes, row \in WorkItem : Completion(a, i, l, k, o, row)
<1> SUFFICES Shaped
  OBVIOUS
<1> DEFINE w == work[i]
           counted == Counted(w)
<1>0. w \in WorkItem
  BY DEF TypeOK
<1>a. /\ counted \in WorkItem /\ counted.attempts = w.attempts + 1 /\ counted.lease = NoLease
      /\ counted.assigned = w.assigned /\ counted.due = w.due
      /\ ToReview(w) \in WorkItem /\ ToReview(w).attempts = w.attempts + 1
      /\ ToReview(w).lease = NoLease /\ ToReview(w).state = "review"
      /\ ToReview(w).assigned = w.assigned /\ ToReview(w).due = w.due
  BY <1>0, CountedRow
<1>r. ASSUME NEW o \in Outcomes, MayComplete(a, i, l, k), Recorded(a, i, l, k, o, ToReview(w)),
             UNCHANGED <<contact, issued>>
      PROVE  Shaped
  BY <1>a, <1>r DEF Completion, RowDue, Terminal, MayIssue
<1>q. ASSUME NEW o \in Outcomes, NEW row \in WorkItem,
             MayComplete(a, i, l, k), Recorded(a, i, l, k, o, row), UNCHANGED <<contact, issued>>,
             row.attempts = w.attempts + 1, row.lease = NoLease,
             row.state \notin {"leased", "completed", "suppressed"},
             RowDue(w) => RowDue(row)
      PROVE  Shaped
  BY <1>q DEF Completion, Terminal, MayIssue
<1>s. ASSUME NEW o \in Outcomes, NEW row \in WorkItem, Completion(a, i, l, k, o, row) PROVE Shaped
  BY <1>s
<1> HIDE DEF counted, Shaped
<1>1. CASE CompleteClosing(a, i, l, k)
  <2> DEFINE row == [counted EXCEPT !.state = "completed"]
  <2>1. /\ row \in WorkItem /\ row.state = "completed" /\ row.attempts = w.attempts + 1
        /\ row.lease = NoLease /\ row.assigned = w.assigned /\ row.due = w.due
    BY <1>a DEF WorkItem, States
  <2>2. /\ MayComplete(a, i, l, k) /\ Recorded(a, i, l, k, "complete", row) /\ UNCHANGED issued
        /\ contact' = [contact EXCEPT ![i] =
             [status |-> "completed", closed |-> TRUE, by |-> a, code |-> "complete"]]
    BY <1>1 DEF CompleteClosing, counted
  <2> HIDE DEF row
  <2>3. RowDue(w) => RowDue(row)
    BY <2>1 DEF RowDue
  <2> QED
    BY <2>1, <2>2, <2>3, <1>s DEF Completion, Outcomes, MayIssue
<1>2. CASE CompleteReview(a, i, l, k)
  BY <1>2, <1>r DEF CompleteReview, Outcomes
<1>3. CASE CompleteRequeue(a, i, l, k)
  <2>1. CASE AtCeiling(w)
    BY <1>3, <2>1, <1>r DEF CompleteRequeue, Outcomes
  <2>2. CASE ~AtCeiling(w)
    <3> DEFINE row == [counted EXCEPT !.state = "queued"]
    <3>1. /\ row \in WorkItem /\ row.state = "queued" /\ row.attempts = w.attempts + 1
          /\ row.lease = NoLease /\ row.assigned = w.assigned /\ row.due = w.due
      BY <1>a DEF WorkItem, States
    <3>2. /\ MayComplete(a, i, l, k) /\ Recorded(a, i, l, k, "requeue", row)
          /\ UNCHANGED <<contact, issued>>
      BY <1>3, <2>2 DEF CompleteRequeue, counted
    <3> HIDE DEF row
    <3>3. RowDue(w) => RowDue(row)
      BY <3>1 DEF RowDue
    <3> QED
      BY <1>q, <3>1, <3>2, <3>3 DEF Outcomes
  <2> QED
    BY <2>1, <2>2
<1>4. CASE CompleteRetry(a, i, l, k)
  <2>1. CASE AtCeiling(w)
    BY <1>4, <2>1, <1>r DEF CompleteRetry, Outcomes
  <2>2. CASE ~AtCeiling(w)
    <3> DEFINE row == [counted EXCEPT !.state = "retry_wait", !.due = now + RetryDelay,
                         !.assigned = NoAgent]
    <3>0. now + RetryDelay \in Times /\ now + RetryDelay # NoTime
      BY <1>4, NumbersAssumption DEF CompleteRetry, TypeOK, Times, NoTime
    <3>1. /\ row \in WorkItem /\ row.state = "retry_wait" /\ row.attempts = w.attempts + 1
          /\ row.lease = NoLease /\ row.assigned = NoAgent /\ row.due # NoTime
      BY <1>a, <3>0 DEF WorkItem, States
    <3>2. /\ MayComplete(a, i, l, k) /\ Recorded(a, i, l, k, "retry_wait", row)
          /\ UNCHANGED <<contact, issued>>
      BY <1>4, <2>2 DEF CompleteRetry, counted
    <3> HIDE DEF row
    <3>3. RowDue(row)
      BY <3>1 DEF RowDue
    <3> QED
      BY <1>q, <3>1, <3>2, <3>3 DEF Outcomes
  <2> QED
    BY <2>1, <2>2
<1>5. CASE CompleteRedial(a, i, l, k)
  <2>1. CASE AtCeiling(w)
    BY <1>5, <2>1, <1>r DEF CompleteRedial, Outcomes
  <2>2. CASE ~AtCeiling(w)
    <3> DEFINE row == LeasedTo(counted, a, "immediate_redial")
    <3>1. /\ RoomForLease /\ MayComplete(a, i, l, k)
          /\ Recorded(a, i, l, k, "immediate_redial", row)
          /\ issued' = Append(issued, [agent |-> a, item |-> i]) /\ UNCHANGED contact
      BY <1>5, <2>2 DEF CompleteRedial, counted
    <3>2. row \in WorkItem
      BY <1>a, <3>1, LeasedToType DEF LeaseReasons
    <3>3. /\ row.state = "leased" /\ row.attempts = w.attempts + 1 /\ row.lease = NextLease
          /\ row.assigned = w.assigned /\ row.due = w.due
      BY <1>a DEF LeasedTo, WorkItem
    <3> HIDE DEF row
    <3>4. RowDue(w) => RowDue(row)
      BY <3>3 DEF RowDue
    <3>5. MayIssue
      BY <3>1 DEF MayIssue, Lease
    <3> QED
      BY <3>1, <3>2, <3>3, <3>4, <3>5, <1>s DEF Completion, Outcomes, Terminal
  <2> QED
    BY <2>1, <2>2
<1>6. CASE \E at \in Times : CompleteCallback(a, i, l, k, at)
  <2>1. PICK at \in Times : CompleteCallback(a, i, l, k, at)
    BY <1>6
  <2> DEFINE row == [counted EXCEPT !.state = "callback_wait", !.due = at, !.assigned = a]
  <2>2. at # NoTime
    BY NumbersAssumption DEF Times, NoTime
  <2>3. /\ row \in WorkItem /\ row.state = "callback_wait" /\ row.attempts = w.attempts + 1
        /\ row.lease = NoLease /\ row.assigned = a /\ row.due # NoTime
    BY <1>a, <2>2 DEF WorkItem, States
  <2>4. /\ MayComplete(a, i, l, k) /\ Recorded(a, i, l, k, "callback", row)
        /\ UNCHANGED <<contact, issued>>
    BY <2>1 DEF CompleteCallback, counted
  <2> HIDE DEF row
  <2>5. RowDue(row)
    BY <2>3, ConstantsAssumption DEF RowDue
  <2> QED
    BY <1>q, <2>3, <2>4, <2>5 DEF Outcomes
<1> QED
  BY <1>1, <1>2, <1>3, <1>4, <1>5, <1>6 DEF CompleteAs

\* A DNC outcome closes every open row of the phone, and counts a call on one of them.
LEMMA DncLedger ==
  ASSUME TypeOK, SafeInv, LedgerInv, NEW a \in Agents, NEW i \in Items, NEW l \in LeasesSeen(a, i),
         NEW k \in Keys, CompleteDnc(a, i, l, k)
  PROVE  LedgerInv'
<1> DEFINE t == Attempt(a, i, l, k, "explicit_dnc", "suppressed", NoLease)
           n == Len(callAttempts) + 1
           Open == OpenFor(PhoneOf[i])
<1>1. /\ MayComplete(a, i, l, k) /\ callAttempts' = Append(callAttempts, t) /\ issued' = issued
  BY DEF CompleteDnc
<1>2. work[i].state \notin Terminal /\ i \in Open
  BY <1>1, HeldRow DEF MayComplete, OpenFor
<1>3. ASSUME NEW j \in Items
      PROVE  /\ j \notin Open => work'[j] = work[j] /\ contact'[j] = contact[j]
             /\ j \in Open => /\ work'[j].state = "suppressed" /\ work'[j].lease = NoLease
                              /\ work'[j].attempts = work[j].attempts + (IF j = i THEN 1 ELSE 0)
                              /\ work'[j].assigned = work[j].assigned /\ work'[j].due = work[j].due
                              /\ contact'[j] = [status |-> "suppressed", closed |-> TRUE, by |-> a,
                                                code |-> "explicit_dnc"]
  <2>1. work[j] \in WorkItem
    BY DEF TypeOK
  <2>2. /\ Released(work[j]) \in WorkItem /\ Released(work[j]).lease = NoLease
        /\ Released(work[j]).attempts = work[j].attempts
        /\ Released(work[j]).assigned = work[j].assigned /\ Released(work[j]).due = work[j].due
    BY <2>1, ReleasedType DEF Released, WorkItem
  <2>3. j \notin Open => work'[j] = work[j] /\ contact'[j] = contact[j]
    BY DEF CompleteDnc
  <2>4. j \in Open => work'[j] = [Released(work[j]) EXCEPT !.state = "suppressed",
                                    !.attempts = IF j = i THEN @ + 1 ELSE @]
    BY DEF CompleteDnc
  <2>5. j \in Open => contact'[j] = [status |-> "suppressed", closed |-> TRUE, by |-> a,
                                     code |-> "explicit_dnc"]
    BY DEF CompleteDnc
  <2>6. /\ work[j].attempts \in Nat /\ work[j].attempts + 0 = work[j].attempts
    BY <2>1 DEF WorkItem
  <2> DEFINE given == Released(work[j])
  <2> HIDE DEF Open, given
  <2>7. CASE j \in Open
    <3>1. /\ work'[j].state = "suppressed" /\ work'[j].lease = given.lease
          /\ work'[j].attempts = (IF j = i THEN given.attempts + 1 ELSE given.attempts)
          /\ work'[j].assigned = given.assigned /\ work'[j].due = given.due
      BY <2>2, <2>4, <2>7 DEF WorkItem, given
    <3> QED
      BY <2>2, <2>5, <2>6, <2>7, <3>1 DEF given
  <2> QED
    BY <2>3, <2>7
<1> HIDE DEF Open
<1>4. l # NoLease
  BY <1>1, PresentedLease, IssuedGrows DEF MayIssue
<1>5. \A j \in Items : work'[j].lease \in {work[j].lease, NoLease, NextLease}
  BY <1>3
<1>6. work'[i].lease # l /\ work'[i].attempts = work[i].attempts + 1
  BY <1>2, <1>3, <1>4
<1>7. \A j \in Items : j # i => work'[j].attempts = work[j].attempts
  <2> SUFFICES ASSUME NEW j \in Items, j # i PROVE work'[j].attempts = work[j].attempts
    OBVIOUS
  <2>1. work[j].attempts \in Nat
    BY DEF TypeOK, WorkItem
  <2> QED
    BY <1>3, <2>1
<1>8. LeaseUsedOnce' /\ AttemptLedger'
  <2>1. "explicit_dnc" \in Outcomes /\ "suppressed" \in States /\ NoLease \in Nat /\ MayIssue
    BY <1>1 DEF Outcomes, States, NoLease, MayIssue
  <2> QED
    BY <1>1, <1>5, <1>6, <1>7, <2>1, AttemptAdded
<1>9. t \in CallAttempt /\ t.item = i
  <2>1. "explicit_dnc" \in Outcomes /\ "suppressed" \in States /\ NoLease \in Nat
    BY DEF Outcomes, States, NoLease
  <2> QED
    BY <2>1, AttemptType DEF Attempt
<1> HIDE DEF t
<1>10. /\ \A m \in DOMAIN callAttempts : callAttempts'[m] = callAttempts[m]
       /\ \A j \in Items : /\ AttemptsOn(j)' = AttemptsOn(j) \cup (IF j = t.item THEN {n} ELSE {})
                           /\ AttemptsOn(j) \subseteq DOMAIN callAttempts
  BY <1>1, <1>9, AttemptsGrow
<1> HIDE DEF n
<1>11. ASSUME NEW j \in Items
       PROVE  /\ contact'[j].closed <=> work'[j].state \in Terminal
              /\ contact'[j].status = IF work'[j].state \in Terminal THEN work'[j].state ELSE "queued"
              /\ work'[j].state = "completed" =>
                   \E x \in AttemptsOn(j)' :
                     /\ \A m \in AttemptsOn(j)' : m <= x
                     /\ contact'[j].by = callAttempts'[x].agent
                     /\ contact'[j].code = callAttempts'[x].code
  <2>1. CASE j \in Open
    BY <1>3, <2>1 DEF Terminal
  <2>2. CASE j \notin Open
    <3>1. contact'[j] = contact[j] /\ work'[j] = work[j] /\ j # i
      BY <1>2, <1>3, <2>2
    <3>2. AttemptsOn(j)' = AttemptsOn(j) \cup {} /\ AttemptsOn(j) \cup {} = AttemptsOn(j)
      BY <1>9, <1>10, <3>1
    <3>3. \A m \in AttemptsOn(j) : callAttempts'[m] = callAttempts[m]
      BY <1>10
    <3> QED
      BY <3>1, <3>2, <3>3 DEF LedgerInv, ContactFollowsWork
  <2> QED
    BY <2>1, <2>2
<1>12. ContactFollowsWork'
  BY <1>11 DEF ContactFollowsWork
<1>13. WaitingItemsAreDue'
  <2> SUFFICES ASSUME NEW j \in Items PROVE RowDue(work'[j])
    BY DEF WaitingItemsAreDue, RowDue
  <2> QED
    BY <1>3, DueRows DEF LedgerInv, RowDue
<1> QED
  BY <1>8, <1>12, <1>13 DEF LedgerInv

-----------------------------------------------------------------------------
(* What a step may do to a closed row, to a live lease and to a free row. *)

ClosedStays(i) ==
  work[i].state \in Terminal => work'[i] = work[i] /\ contact'[i] = contact[i]

Kept(i) ==
  Leased(i) /\ work[i].expires > now /\ work'[i].lease # work[i].lease
  => \/ Spent(i)
     \/ work[i].owner \notin activeUsers'
     \/ \E s \in ended' : s.user = work[i].owner /\ s.campaign = CampaignOf[i]
     \/ PhoneOf[i] \in suppressed'

Justified(i) ==
  NewLease(i) /\ ~Leased(i) =>
    /\ work[i].state \in {"queued", "callback_wait", "retry_wait"}
    /\ work[i].state # "queued" => work[i].due <= now
    /\ work[i].state = "callback_wait" => work'[i].owner = work[i].assigned
    /\ Callable(i) /\ Running(i)
    /\ MayAct(work'[i].owner)
    /\ Staffed(work'[i].owner, CampaignOf[i])

StepOK == \A i \in Items : ClosedStays(i) /\ Kept(i) /\ Justified(i)

\* A step that writes no row.
LEMMA NoRowStep ==
  ASSUME TypeOK, LedgerInv, UNCHANGED rows
  PROVE  LedgerInv' /\ StepOK
<1>1. \A i \in Items : QuietRow(work[i], work'[i])
  BY DEF rows, QuietRow
<1>2. LedgerInv'
  BY <1>1, QuietLedger DEF rows, MayIssue
<1>3. StepOK
  BY DEF StepOK, ClosedStays, Kept, Justified, NewLease, rows
<1> QED
  BY <1>2, <1>3

\* One row that is not closed, written quietly and without a new lease.
LEMMA OneRowStep ==
  ASSUME TypeOK, LedgerInv, NEW i \in Items, NEW row,
         work' = [work EXCEPT ![i] = row], QuietRow(work[i], row),
         row.lease \in {work[i].lease, NoLease}, Kept(i),
         UNCHANGED <<callAttempts, contact, issued>>
  PROVE  LedgerInv' /\ StepOK
<1>1. work'[i] = row /\ \A j \in Items : j # i => work'[j] = work[j]
  BY DEF TypeOK
<1>2. \A j \in Items : QuietRow(work[j], work'[j])
  BY <1>1 DEF QuietRow
<1>3. LedgerInv'
  BY <1>2, QuietLedger DEF MayIssue
<1>4. ASSUME NEW j \in Items PROVE ClosedStays(j) /\ Kept(j) /\ Justified(j)
  BY <1>1, <1>2 DEF ClosedStays, Kept, Justified, NewLease, QuietRow
<1> QED
  BY <1>3, <1>4 DEF StepOK

\* lease_next: the candidate is free, due, callable, and in a campaign the agent works.
LEMMA LeaseNextStep ==
  ASSUME TypeOK, SafeInv, LedgerInv, NEW a \in Agents, LeaseNext(a)
  PROVE  LedgerInv' /\ StepOK
<1>1. PICK busy \in MayBeBusy(Items) :
        LeaseCallback(a, busy) \/ LeaseRetry(a, busy) \/ LeaseFresh(a, busy)
  BY DEF LeaseNext
<1>2. MayLease(a) /\ MayAct(a)
  BY <1>1 DEF LeaseCallback, LeaseRetry, LeaseFresh, MayLease
<1>3. PICK i \in Items, r \in LeaseReasons :
        /\ Grant(a, i, r)
        /\ work[i].state \in {"queued", "callback_wait", "retry_wait"}
        /\ work[i].state # "queued" => work[i].due <= now
        /\ work[i].state = "callback_wait" => work[i].assigned = a
        /\ Callable(i) /\ Running(i) /\ Staffed(a, CampaignOf[i])
  <2>1. CASE LeaseCallback(a, busy)
    BY <2>1 DEF LeaseCallback, Earliest, DueCallbacks, LeaseReasons
  <2>2. CASE LeaseRetry(a, busy)
    <3>1. PICK s \in Primary(a) : /\ campaignStatus[s.campaign] = "active"
                                  /\ \E i \in Earliest(DueRetries(s.campaign) \ busy) :
                                       Grant(a, i, "delayed_retry")
      BY <2>2 DEF LeaseRetry
    <3>2. s \in assignments /\ s.user = a
      BY DEF Primary
    <3> QED
      BY <3>1, <3>2 DEF Earliest, DueRetries, LeaseReasons, Running, Staffed
  <2>3. CASE LeaseFresh(a, busy)
    <3>1. PICK s \in Primary(a) : /\ campaignStatus[s.campaign] = "active"
                                  /\ \E i \in Queue(s.campaign) \ busy : Grant(a, i, "normal")
      BY <2>3 DEF LeaseFresh
    <3>2. s \in assignments /\ s.user = a
      BY DEF Primary
    <3> QED
      BY <3>1, <3>2 DEF Queue, LeaseReasons, Running, Staffed
  <2> QED
    BY <1>1, <2>1, <2>2, <2>3
<1>4. work[i] \in WorkItem /\ work[i].state \notin Terminal /\ ~Leased(i)
  BY <1>3 DEF TypeOK, Terminal, Leased
<1>5. QuietRow(work[i], LeasedTo(work[i], a, r))
  BY <1>4, QuietWrites
<1>6. /\ work'[i] = LeasedTo(work[i], a, r) /\ \A j \in Items : j # i => work'[j] = work[j]
      /\ issued' = Append(issued, [agent |-> a, item |-> i]) /\ UNCHANGED <<callAttempts, contact>>
  BY <1>3 DEF Grant, TypeOK
<1>7. MayIssue
  BY <1>6 DEF MayIssue, Lease
<1>8. \A j \in Items : QuietRow(work[j], work'[j])
  BY <1>5, <1>6 DEF QuietRow
<1>9. LedgerInv'
  BY <1>6, <1>7, <1>8, QuietLedger
<1>10. work'[i].owner = a
  BY <1>4, <1>6 DEF LeasedTo, WorkItem
<1>11. ASSUME NEW j \in Items PROVE ClosedStays(j) /\ Kept(j) /\ Justified(j)
  <2>1. CASE j = i
    BY <1>2, <1>3, <1>4, <1>10, <2>1 DEF ClosedStays, Kept, Justified
  <2>2. CASE j # i
    BY <1>6, <2>2 DEF ClosedStays, Kept, Justified, NewLease
  <2> QED
    BY <2>1, <2>2
<1> QED
  BY <1>9, <1>11 DEF StepOK

\* renew_lease and skip_work_item.
LEMMA HolderStep ==
  ASSUME TypeOK, SafeInv, LedgerInv, NEW a \in Agents, NEW i \in Items, NEW l \in LeasesSeen(a, i),
         RenewLease(a, i, l) \/ SkipWorkItem(a, i, l)
  PROVE  LedgerInv' /\ StepOK
<1>0. work[i] \in WorkItem
  BY DEF TypeOK
<1>1. HoldsLive(a, i, l) /\ work[i].state \notin Terminal
  BY HeldRow DEF RenewLease, SkipWorkItem
<1>2. CASE RenewLease(a, i, l)
  <2> DEFINE row == [work[i] EXCEPT !.expires = now + LeaseDuration]
  <2>1. work' = [work EXCEPT ![i] = row] /\ UNCHANGED <<callAttempts, contact, issued>>
    BY <1>2 DEF RenewLease
  <2>2. /\ row.state = work[i].state /\ row.attempts = work[i].attempts /\ row.lease = work[i].lease
        /\ row.assigned = work[i].assigned /\ row.due = work[i].due
    BY <1>0 DEF WorkItem
  <2> HIDE DEF row
  <2>3. QuietRow(work[i], row)
    BY <1>1, <2>2 DEF QuietRow, RowDue
  <2>4. work'[i] = row
    BY <2>1 DEF TypeOK
  <2>5. Kept(i)
    BY <2>2, <2>4 DEF Kept
  <2> QED
    BY <2>1, <2>2, <2>3, <2>5, OneRowStep
<1>3. CASE SkipWorkItem(a, i, l)
  <2>1. PICK st \in {"review", "queued"} :
          work' = [work EXCEPT ![i] = [Released(work[i]) EXCEPT !.skips = @ + 1, !.state = st]]
    BY <1>3 DEF SkipWorkItem
  <2> DEFINE given == Released(work[i])
             row == [given EXCEPT !.skips = @ + 1, !.state = st]
  <2>2. /\ given \in WorkItem /\ given.lease = NoLease /\ given.attempts = work[i].attempts
        /\ given.skips = work[i].skips
        /\ given.assigned = work[i].assigned /\ given.due = work[i].due
    BY <1>0, ReleasedType DEF Released, WorkItem
  <2> HIDE DEF given
  <2>3. /\ row.state = st /\ row.lease = NoLease /\ row.attempts = work[i].attempts
        /\ row.skips = work[i].skips + 1
        /\ row.assigned = work[i].assigned /\ row.due = work[i].due
    BY <2>2 DEF WorkItem
  <2>4. work' = [work EXCEPT ![i] = row] /\ UNCHANGED <<callAttempts, contact, issued>>
    BY <1>3, <2>1 DEF SkipWorkItem, given
  <2> HIDE DEF row
  <2>5. QuietRow(work[i], row)
    BY <1>1, <2>3 DEF QuietRow, RowDue, Terminal
  <2>6. work'[i] = row
    BY <2>4 DEF TypeOK
  <2>7. Kept(i)
    <3>1. work[i].skips \in Nat
      BY <1>0 DEF WorkItem
    <3>2. work'[i].skips > work[i].skips
      BY <2>3, <2>6, <3>1
    <3> QED
      BY <3>2 DEF Kept, Spent
  <2> QED
    BY <2>3, <2>4, <2>5, <2>7, OneRowStep
<1> QED
  BY <1>2, <1>3

\* The three review decisions; a closure credits the last attempt.
LEMMA ReviewLedger ==
  ASSUME TypeOK, SafeInv, LedgerInv, NEW i \in Items, ReviewStep(i)
  PROVE  LedgerInv' /\ StepOK
<1>0. /\ work[i] \in WorkItem /\ work[i].state = "review" /\ work[i].state \notin Terminal /\ ~Leased(i)
      /\ now # NoTime
  <2>1. work[i] \in WorkItem
    BY DEF TypeOK
  <2>2. work[i].state = "review"
    BY DEF ReviewStep, RescheduleReviewItem, IncreaseReviewItemAttempts, CloseReviewItem
  <2>3. now # NoTime
    BY NumbersAssumption DEF TypeOK, Times, NoTime
  <2> QED
    BY <2>1, <2>2, <2>3 DEF Terminal, Leased
<1>k. Kept(i)
  BY <1>0 DEF Kept
<1>1. CASE \E at \in Times : RescheduleReviewItem(i, at)
  <2>1. PICK at \in Times : RescheduleReviewItem(i, at)
    BY <1>1
  <2> DEFINE row == [work[i] EXCEPT !.state = "retry_wait", !.due = at, !.assigned = NoAgent]
  <2>2. at # NoTime
    BY NumbersAssumption DEF Times, NoTime
  <2>3. /\ row.state = "retry_wait" /\ row.attempts = work[i].attempts /\ row.lease = work[i].lease
        /\ row.assigned = NoAgent /\ row.due = at
    BY <1>0 DEF WorkItem
  <2>4. work' = [work EXCEPT ![i] = row] /\ UNCHANGED <<callAttempts, contact, issued>>
    BY <2>1 DEF RescheduleReviewItem
  <2> HIDE DEF row
  <2>5. QuietRow(work[i], row)
    BY <1>0, <2>2, <2>3 DEF QuietRow, RowDue, Terminal
  <2> QED
    BY <1>k, <2>3, <2>4, <2>5, OneRowStep
<1>2. CASE \E n \in 1..MaxAttemptCeiling : IncreaseReviewItemAttempts(i, n)
  <2>1. PICK n \in 1..MaxAttemptCeiling : IncreaseReviewItemAttempts(i, n)
    BY <1>2
  <2> DEFINE row == [work[i] EXCEPT !.state = "retry_wait", !.due = now, !.ceiling = n,
                       !.assigned = NoAgent]
  <2>3. /\ row.state = "retry_wait" /\ row.attempts = work[i].attempts /\ row.lease = work[i].lease
        /\ row.assigned = NoAgent /\ row.due = now
    BY <1>0 DEF WorkItem
  <2>4. work' = [work EXCEPT ![i] = row] /\ UNCHANGED <<callAttempts, contact, issued>>
    BY <2>1 DEF IncreaseReviewItemAttempts
  <2> HIDE DEF row
  <2>5. QuietRow(work[i], row)
    BY <1>0, <2>3 DEF QuietRow, RowDue, Terminal
  <2> QED
    BY <1>k, <2>3, <2>4, <2>5, OneRowStep
<1>3. CASE CloseReviewItem(i)
  <2> DEFINE row == [work[i] EXCEPT !.state = "completed"]
  <2>1. PICK n \in AttemptsOn(i) :
          /\ IsLastAttemptOn(i, n)
          /\ contact' = [contact EXCEPT ![i] =
               [status |-> "completed", closed |-> TRUE,
                by |-> callAttempts[n].agent, code |-> callAttempts[n].code]]
    BY <1>3 DEF CloseReviewItem
  <2>2. work' = [work EXCEPT ![i] = row] /\ UNCHANGED <<callAttempts, issued>>
    BY <1>3 DEF CloseReviewItem
  <2>3. /\ row.state = "completed" /\ row.attempts = work[i].attempts /\ row.lease = work[i].lease
        /\ row.assigned = work[i].assigned /\ row.due = work[i].due
    BY <1>0 DEF WorkItem
  <2> HIDE DEF row
  <2>4. /\ work'[i] = row /\ \A j \in Items : j # i => work'[j] = work[j] /\ contact'[j] = contact[j]
        /\ contact'[i] = [status |-> "completed", closed |-> TRUE,
                          by |-> callAttempts[n].agent, code |-> callAttempts[n].code]
    BY <2>1, <2>2 DEF TypeOK
  <2>5. LeaseUsedOnce'
    BY <2>2, <2>3, <2>4 DEF LedgerInv, LeaseUsedOnce
  <2>6. AttemptLedger'
    BY <2>2, <2>3, <2>4 DEF LedgerInv, AttemptLedger, AttemptsOn
  <2>7. ASSUME NEW j \in Items
        PROVE  /\ contact'[j].closed <=> work'[j].state \in Terminal
               /\ contact'[j].status = IF work'[j].state \in Terminal THEN work'[j].state ELSE "queued"
               /\ work'[j].state = "completed" =>
                    \E x \in AttemptsOn(j) :
                      /\ \A m \in AttemptsOn(j) : m <= x
                      /\ contact'[j].by = callAttempts[x].agent
                      /\ contact'[j].code = callAttempts[x].code
    <3>1. CASE j = i
      BY <2>1, <2>3, <2>4, <3>1 DEF IsLastAttemptOn, Terminal
    <3>2. CASE j # i
      BY <2>4, <3>2 DEF LedgerInv, ContactFollowsWork
    <3> QED
      BY <3>1, <3>2
  <2>8. ContactFollowsWork'
    BY <2>2, <2>7 DEF ContactFollowsWork, AttemptsOn
  <2>9. WaitingItemsAreDue'
    BY <2>3, <2>4 DEF LedgerInv, WaitingItemsAreDue
  <2>10. ASSUME NEW j \in Items PROVE ClosedStays(j) /\ Kept(j) /\ Justified(j)
    <3>1. CASE j = i
      BY <1>0, <1>k, <2>3, <2>4, <3>1 DEF ClosedStays, Justified, NewLease
    <3>2. CASE j # i
      BY <2>4, <3>2 DEF ClosedStays, Kept, Justified, NewLease
    <3> QED
      BY <3>1, <3>2
  <2> QED
    BY <2>5, <2>6, <2>8, <2>9, <2>10 DEF LedgerInv, StepOK
<1> QED
  BY <1>1, <1>2, <1>3 DEF ReviewStep

\* A sweep or a release: open rows of S are returned to the queue or shared.
LEMMA SweptRows ==
  ASSUME TypeOK, LedgerInv, NEW S,
         \A i \in Items \cap S : work[i].state \notin Terminal /\ Kept(i),
         \/ work' = Reclaim(S)
         \/ work' = [i \in Items |-> IF i \in S THEN Shared(work[i]) ELSE work[i]],
         UNCHANGED <<callAttempts, contact, issued>>
  PROVE  LedgerInv' /\ StepOK
<1>1. ASSUME NEW i \in Items
      PROVE  /\ i \notin S => work'[i] = work[i]
             /\ i \in S => work'[i] \in {Returned(work[i]), Shared(work[i])}
  BY DEF Reclaim
<1>2. ASSUME NEW i \in Items
      PROVE  QuietRow(work[i], work'[i]) /\ work'[i].lease \in {work[i].lease, NoLease}
  <2>1. work[i] \in WorkItem
    BY DEF TypeOK
  <2>2. CASE i \notin S
    BY <1>1, <2>2 DEF QuietRow
  <2>3. CASE i \in S
    <3>1. work[i].state \notin Terminal
      BY <2>3
    <3>2. QuietRow(work[i], Returned(work[i])) /\ QuietRow(work[i], Shared(work[i]))
      <4>1. CASE Agents = {}
        <5>1. /\ Returned(work[i]).state \in {"queued", "callback_wait"}
              /\ Returned(work[i]).assigned = work[i].assigned /\ Returned(work[i]).due = work[i].due
              /\ Returned(work[i]).attempts = work[i].attempts /\ Returned(work[i]).lease = NoLease
              /\ Returned(work[i]).state = "callback_wait" => work[i].assigned # NoAgent
          BY <2>1 DEF Returned, Released, WorkItem
        <5>2. /\ Shared(work[i]).state = "queued" /\ Shared(work[i]).assigned = NoAgent
              /\ Shared(work[i]).attempts = work[i].attempts /\ Shared(work[i]).lease = NoLease
          BY <2>1 DEF Shared, Released, WorkItem
        <5> QED
          BY <3>1, <5>1, <5>2 DEF QuietRow, RowDue, Terminal
      <4>2. CASE Agents # {}
        BY <2>1, <3>1, <4>2, QuietWrites DEF LeaseReasons
      <4> QED
        BY <4>1, <4>2
    <3>3. Returned(work[i]).lease = NoLease /\ Shared(work[i]).lease = NoLease
      BY <2>1 DEF Returned, Shared, Released, WorkItem
    <3> QED
      BY <1>1, <2>3, <3>2, <3>3
  <2> QED
    BY <2>2, <2>3
<1>3. LedgerInv'
  BY <1>2, QuietLedger DEF MayIssue
<1>4. ASSUME NEW i \in Items PROVE ClosedStays(i) /\ Kept(i) /\ Justified(i)
  <2>1. ClosedStays(i) /\ Justified(i)
    BY <1>2 DEF ClosedStays, Justified, NewLease, QuietRow
  <2>2. CASE i \in S
    BY <2>1, <2>2
  <2>3. CASE i \notin S
    BY <1>1, <2>1, <2>3 DEF Kept
  <2> QED
    BY <2>2, <2>3
<1> QED
  BY <1>3, <1>4 DEF StepOK

\* reclaim_expired_leases takes leases that have run out.
LEMMA SweepLedger ==
  ASSUME TypeOK, LedgerInv, Sweep
  PROVE  LedgerInv' /\ StepOK
<1>1. PICK busy \in MayBeBusy(Items) : ReclaimExpiredLeases(busy)
  BY DEF Sweep
<1> DEFINE S == Expired \ busy
<1>2. work' = Reclaim(S) /\ UNCHANGED <<callAttempts, contact, issued>>
  BY <1>1 DEF ReclaimExpiredLeases
<1>3. \A i \in Items \cap S : Leased(i) /\ work[i].expires < now
  BY DEF Expired
<1> HIDE DEF S
<1>4. ASSUME NEW i \in Items \cap S PROVE work[i].state \notin Terminal /\ Kept(i)
  <2>1. work[i].expires \in Int /\ now \in Int
    BY NumbersAssumption DEF TypeOK, WorkItem, Times, NoTime
  <2> QED
    BY <1>3, <2>1 DEF Leased, Terminal, Kept
<1> QED
  BY <1>2, <1>4, SweptRows

\* disable_user, end_user_assignment and transfer_agent take the leases of the one who leaves.
LEMMA StaffingLedger ==
  ASSUME TypeOK, LedgerInv, StaffingStep
  PROVE  LedgerInv' /\ StepOK
<1>1. ASSUME NEW a \in Agents, ReactivateUser(a) PROVE LedgerInv' /\ StepOK
  BY <1>1, NoRowStep DEF ReactivateUser
<1>2. ASSUME NEW s \in Assignment, AssignAgent(s) PROVE LedgerInv' /\ StepOK
  BY <1>2, NoRowStep DEF AssignAgent
<1>3. ASSUME NEW busy, NEW a \in Agents, DisableUser(a, busy) PROVE LedgerInv' /\ StepOK
  <2> DEFINE S == {i \in Items : Holds(a, i)} \ busy
  <2>1. /\ work' = Reclaim(S) /\ UNCHANGED <<callAttempts, contact, issued>>
        /\ a \notin activeUsers'
    BY <1>3 DEF DisableUser
  <2>2. \A i \in Items \cap S : work[i].state = "leased" /\ work[i].owner = a
    BY DEF Holds, Leased
  <2> HIDE DEF S
  <2>3. \A i \in Items \cap S : work[i].state \notin Terminal /\ Kept(i)
    BY <2>1, <2>2 DEF Kept, Terminal
  <2> QED
    BY <2>1, <2>3, SweptRows
<1>4. ASSUME NEW busy, NEW s \in Assignment, ReleaseCampaignWork(s.user, s.campaign, busy),
             s \in ended', UNCHANGED <<callAttempts, contact, issued>>
      PROVE  LedgerInv' /\ StepOK
  <2> DEFINE S == HeldIn(s.user, s.campaign) \ busy
  <2>1. work' = [i \in Items |-> IF i \in S THEN Shared(work[i]) ELSE work[i]]
    BY <1>4 DEF ReleaseCampaignWork
  <2>2. \A i \in Items \cap S :
          /\ CampaignOf[i] = s.campaign /\ work[i].state \in {"leased", "callback_wait"}
          /\ work[i].state = "leased" => work[i].owner = s.user
    BY DEF HeldIn, Holds, Leased
  <2> HIDE DEF S
  <2>3. \A i \in Items \cap S : work[i].state \notin Terminal /\ Kept(i)
    BY <1>4, <2>2 DEF Kept, Terminal, Leased
  <2> QED
    BY <1>4, <2>1, <2>3, SweptRows
<1>5. ASSUME NEW busy, NEW s \in Assignment, EndUserAssignment(s, busy) PROVE LedgerInv' /\ StepOK
  <2>1. ReleaseCampaignWork(s.user, s.campaign, busy) /\ s \in ended'
        /\ UNCHANGED <<callAttempts, contact, issued>>
    BY <1>5 DEF EndUserAssignment
  <2> QED
    BY <1>4, <2>1
<1>6. ASSUME NEW busy, NEW s \in Assignment, NEW c \in Campaigns, TransferAgent(s, c, busy)
      PROVE  LedgerInv' /\ StepOK
  <2>1. ReleaseCampaignWork(s.user, s.campaign, busy) /\ s \in ended'
        /\ UNCHANGED <<callAttempts, contact, issued>>
    BY <1>6 DEF TransferAgent
  <2> QED
    BY <1>4, <2>1
<1> QED
  BY <1>1, <1>2, <1>3, <1>5, <1>6 DEF StaffingStep

\* complete_work_item: the row is leased and open, and its own count goes up.
LEMMA CompleteLedger ==
  ASSUME TypeOK, SafeInv, LedgerInv, NEW a \in Agents, NEW i \in Items, NEW l \in LeasesSeen(a, i),
         NEW k \in Keys, NEW d \in Dispositions, CompleteAs(d, a, i, l, k)
  PROVE  LedgerInv' /\ StepOK
<1>0. /\ MayComplete(a, i, l, k) /\ work[i].state \notin Terminal /\ Leased(i)
      /\ work[i].attempts \in Nat
  <2>1. MayComplete(a, i, l, k)
    BY DEF CompleteAs, CompleteClosing, CompleteReview, CompleteRequeue, CompleteRetry,
           CompleteRedial, CompleteCallback, CompleteDnc
  <2> QED
    BY <2>1, HeldRow DEF MayComplete, HoldsLive, TypeOK, WorkItem
<1>1. CASE d # "explicit_dnc"
  <2>1. PICK o \in Outcomes, row \in WorkItem : Completion(a, i, l, k, o, row)
    BY <1>1, CompleteWritesOne
  <2>2. LedgerInv'
    BY <2>1, RecordedLedger
  <2>3. /\ work'[i] = row /\ row.attempts = work[i].attempts + 1
        /\ \A j \in Items : j # i => work'[j] = work[j] /\ contact'[j] = contact[j]
    BY <2>1 DEF Completion, Recorded, TypeOK
  <2>4. Spent(i)
    BY <1>0, <2>3 DEF Spent
  <2>5. ASSUME NEW j \in Items PROVE ClosedStays(j) /\ Kept(j) /\ Justified(j)
    <3>1. CASE j = i
      BY <1>0, <2>4, <3>1 DEF ClosedStays, Kept, Justified
    <3>2. CASE j # i
      BY <2>3, <3>2 DEF ClosedStays, Kept, Justified, NewLease
    <3> QED
      BY <3>1, <3>2
  <2> QED
    BY <2>2, <2>5 DEF StepOK
<1>2. CASE d = "explicit_dnc"
  <2>1. CompleteDnc(a, i, l, k)
    BY <1>2 DEF CompleteAs
  <2>2. LedgerInv'
    BY <2>1, DncLedger
  <2>3. \A j \in Items : j \notin OpenFor(PhoneOf[i]) => work'[j] = work[j] /\ contact'[j] = contact[j]
    BY <2>1 DEF CompleteDnc
  <2>4. \A j \in Items : j \in OpenFor(PhoneOf[i]) =>
          /\ work[j].state \notin Terminal /\ PhoneOf[j] \in suppressed' /\ work'[j].lease = NoLease
    <3> SUFFICES ASSUME NEW j \in Items, j \in OpenFor(PhoneOf[i])
                 PROVE  /\ work[j].state \notin Terminal /\ PhoneOf[j] \in suppressed'
                        /\ work'[j].lease = NoLease
      OBVIOUS
    <3>1. work[j].state \notin Terminal /\ PhoneOf[j] \in suppressed'
      BY <2>1 DEF CompleteDnc, OpenFor
    <3>2. Released(work[j]) \in WorkItem /\ Released(work[j]).lease = NoLease
      BY ReleasedType DEF TypeOK, Released, WorkItem
    <3>3. work'[j] = [Released(work[j]) EXCEPT !.state = "suppressed",
                        !.attempts = IF j = i THEN @ + 1 ELSE @]
      BY <2>1 DEF CompleteDnc
    <3>4. work'[j].lease = NoLease
      BY <3>2, <3>3 DEF WorkItem
    <3> QED
      BY <3>1, <3>4
  <2>5. ASSUME NEW j \in Items PROVE ClosedStays(j) /\ Kept(j) /\ Justified(j)
    <3>1. CASE j \in OpenFor(PhoneOf[i])
      BY <2>4, <3>1 DEF ClosedStays, Kept, Justified, NewLease
    <3>2. CASE j \notin OpenFor(PhoneOf[i])
      BY <2>3, <3>2 DEF ClosedStays, Kept, Justified, NewLease
    <3> QED
      BY <3>1, <3>2
  <2> QED
    BY <2>2, <2>5 DEF StepOK
<1> QED
  BY <1>1, <1>2

-----------------------------------------------------------------------------
(* The theorems. *)

LEMMA LedgerInit == Init => LedgerInv
<1> SUFFICES ASSUME Init PROVE LedgerInv
  OBVIOUS
<1>1. callAttempts = <<>> /\ DOMAIN callAttempts = {} /\ \A i \in Items : AttemptsOn(i) = {}
  BY DEF Init, AttemptsOn
<1>2. \A i \in Items : /\ work[i] = FreshItem /\ contact[i] = FreshContact
  BY DEF Init
<1>3. LeaseUsedOnce
  BY <1>1 DEF LeaseUsedOnce
<1>4. AttemptLedger
  <2>1. \A i \in Items : work[i].attempts = 0 /\ Cardinality(AttemptsOn(i)) = 0
    <3>1. Cardinality({}) = 0
      BY FS_EmptySet
    <3>2. TAKE i \in Items
    <3>3. work[i].attempts = 0
      BY <1>2 DEF FreshItem
    <3>4. AttemptsOn(i) = {}
      BY <1>1
    <3>5. Cardinality(AttemptsOn(i)) = 0
      BY <3>1, <3>4
    <3> QED
      BY <3>3, <3>5
  <2> QED
    BY <1>1, <2>1 DEF AttemptLedger
<1>5. ContactFollowsWork
  BY <1>2 DEF ContactFollowsWork, FreshItem, FreshContact, Terminal
<1>6. WaitingItemsAreDue
  BY <1>2 DEF WaitingItemsAreDue, FreshItem
<1> QED
  BY <1>3, <1>4, <1>5, <1>6 DEF LedgerInv

LEMMA LedgerStep == TypeOK /\ SafeInv /\ LedgerInv /\ [Next]_vars => LedgerInv' /\ StepOK
<1> SUFFICES ASSUME TypeOK, SafeInv, LedgerInv, [Next]_vars PROVE LedgerInv' /\ StepOK
  OBVIOUS
<1>1. CASE Tick
  BY <1>1, NoRowStep DEF Tick
<1>2. CASE \E a \in Agents : LeaseNext(a)
  BY <1>2, LeaseNextStep
<1>3. CASE \E a \in Agents, i \in Items : AgentStep(a, i)
  BY <1>3, HolderStep, CompleteLedger DEF AgentStep
<1>4. CASE \E i \in Items : ReviewStep(i)
  BY <1>4, ReviewLedger
<1>5. CASE Sweep
  BY <1>5, SweepLedger
<1>6. CASE StaffingStep
  BY <1>6, StaffingLedger
<1>7. CASE CampaignStep
  BY <1>7, NoRowStep DEF CampaignStep, PauseCampaign, ArchiveCampaign, SetFlag
<1>8. CASE UNCHANGED vars
  BY <1>8, NoRowStep DEF vars
<1> QED
  BY <1>1, <1>2, <1>3, <1>4, <1>5, <1>6, <1>7, <1>8 DEF Next

LEMMA Ledger == Spec => []LedgerInv /\ [][StepOK]_vars
  BY LedgerInit, LedgerStep, Typing, Safety, PTL DEF Spec

\* LeaseUsedOnceHolds: complete_work_item takes a lease in payment for one call and never
\* again, however submissions, redials, sweeps and new leases interleave.
THEOREM LeaseUsedOnceHolds == Spec => []LeaseUsedOnce
BY Ledger, PTL DEF LedgerInv

\* AttemptLedgerHolds: attempt_count counts the CallAttempt rows, one per agent and key, and
\* a redial's row names the lease a replay has to hand out again.
THEOREM AttemptLedgerHolds == Spec => []AttemptLedger
BY Ledger, PTL DEF LedgerInv

\* ContactFollowsWorkHolds: the campaign contact is closed with its work item and credits the
\* last call, through completion, the DNC cascade and close_review_item.
THEOREM ContactFollowsWorkHolds == Spec => []ContactFollowsWork
BY Ledger, PTL DEF LedgerInv

\* WaitingItemsAreDueHolds: every path that leaves an item waiting gives it a due time, a
\* callback an agent and a shared retry none.
THEOREM WaitingItemsAreDueHolds == Spec => []WaitingItemsAreDue
BY Ledger, PTL DEF LedgerInv

\* ClosedStaysClosedHolds: no DNC, sweep, release or reviewer writes a closed item again.
THEOREM ClosedStaysClosedHolds == Spec => ClosedStaysClosed
<1>1. StepOK => \A i \in Items : work[i].state \in Terminal => UNCHANGED <<work[i], contact[i]>>
  BY DEF StepOK, ClosedStays
<1> QED
  BY <1>1, Ledger, PTL DEF ClosedStaysClosed

\* LiveLeaseKeptHolds: sweeps, reviewers and other agents end no lease before its time.
THEOREM LiveLeaseKeptHolds == Spec => LiveLeaseKept
<1>1. StepOK => \A i \in Items :
        Leased(i) /\ work[i].expires > now /\ work'[i].lease # work[i].lease
        => \/ Spent(i)
           \/ work[i].owner \notin activeUsers'
           \/ \E s \in ended' : s.user = work[i].owner /\ s.campaign = CampaignOf[i]
           \/ PhoneOf[i] \in suppressed'
  BY DEF StepOK, Kept
<1> QED
  BY <1>1, Ledger, PTL DEF LiveLeaseKept

\* GrantJustifiedHolds: lease_next hands out nothing that is not due, callable, in a running
\* campaign and for that agent.
THEOREM GrantJustifiedHolds == Spec => GrantJustified
<1>1. StepOK => \A i \in Items : NewLease(i) /\ ~Leased(i) =>
        /\ work[i].state \in {"queued", "callback_wait", "retry_wait"}
        /\ work[i].state # "queued" => work[i].due <= now
        /\ work[i].state = "callback_wait" => work'[i].owner = work[i].assigned
        /\ Callable(i) /\ Running(i)
        /\ MayAct(work'[i].owner)
        /\ Staffed(work'[i].owner, CampaignOf[i])
  BY DEF StepOK, Justified
<1> QED
  BY <1>1, Ledger, PTL DEF GrantJustified

-----------------------------------------------------------------------------
(* The attempt ceiling.  An attempt that keeps its item going is recorded while *)
(* the item's count, this attempt included, is below its ceiling; and a ceiling *)
(* that moves, moves to above the count.                                       *)

Going == {"queued", "retry_wait", "leased"}
Before(n) == {m \in AttemptsOn(callAttempts[n].item) : m <= n}

\* What a step may do to a row's ceiling.
CeilingMoves(i) == work'[i].ceiling = work[i].ceiling \/ work'[i].ceiling > work[i].attempts

\* The attempt t is recorded, and no ceiling moves.
CallsOn(t) ==
  /\ callAttempts' = Append(callAttempts, t)
  /\ t.result \in Going => work[t.item].attempts + 1 < work[t.item].ceiling
  /\ \A i \in Items : work'[i].ceiling = work[i].ceiling

CeilingStep ==
  /\ \A i \in Items : CeilingMoves(i)
  /\ callAttempts' = callAttempts \/ \E t \in CallAttempt : CallsOn(t)

\* No path but a reviewer's decision writes the ceiling of a row.
LEMMA CeilingWrites ==
  ASSUME NEW w \in WorkItem, NEW a, NEW r
  PROVE  /\ Released(w).ceiling = w.ceiling /\ Returned(w).ceiling = w.ceiling
         /\ Shared(w).ceiling = w.ceiling /\ LeasedTo(w, a, r).ceiling = w.ceiling
         /\ Counted(w).ceiling = w.ceiling /\ ToReview(w).ceiling = w.ceiling
BY DEF Released, Returned, Shared, LeasedTo, Counted, ToReview, WorkItem

\* A step that records no attempt and leaves every ceiling alone.
LEMMA CeilingQuiet ==
  ASSUME callAttempts' = callAttempts, \A i \in Items : work'[i].ceiling = work[i].ceiling
  PROVE  CeilingStep
BY DEF CeilingStep, CeilingMoves

\* One row written, and its ceiling kept.
LEMMA CeilingOneRow ==
  ASSUME TypeOK, NEW i \in Items, NEW row, work' = [work EXCEPT ![i] = row],
         row.ceiling = work[i].ceiling
  PROVE  \A j \in Items : work'[j].ceiling = work[j].ceiling
BY DEF TypeOK

\* lease_next, renew_lease and skip_work_item.
LEMMA CeilingLease ==
  ASSUME TypeOK, NEW a \in Agents,
         \/ LeaseNext(a)
         \/ \E i \in Items : \E l \in LeasesSeen(a, i) :
              RenewLease(a, i, l) \/ SkipWorkItem(a, i, l)
  PROVE  CeilingStep
<1>1. CASE LeaseNext(a)
  <2>1. PICK i \in Items, r \in LeaseReasons : Grant(a, i, r)
    BY <1>1 DEF LeaseNext, LeaseCallback, LeaseRetry, LeaseFresh, Earliest, DueCallbacks,
                DueRetries, Queue, LeaseReasons
  <2>2. work[i] \in WorkItem
    BY DEF TypeOK
  <2>3. LeasedTo(work[i], a, r).ceiling = work[i].ceiling
    BY <2>2, CeilingWrites
  <2>4. work' = [work EXCEPT ![i] = LeasedTo(work[i], a, r)] /\ callAttempts' = callAttempts
    BY <2>1 DEF Grant
  <2> QED
    BY <2>3, <2>4, CeilingOneRow, CeilingQuiet
<1>2. ASSUME NEW i \in Items, NEW l \in LeasesSeen(a, i), RenewLease(a, i, l) PROVE CeilingStep
  <2> DEFINE row == [work[i] EXCEPT !.expires = now + LeaseDuration]
  <2>1. work' = [work EXCEPT ![i] = row] /\ callAttempts' = callAttempts
    BY <1>2 DEF RenewLease
  <2>2. row.ceiling = work[i].ceiling
    BY DEF TypeOK, WorkItem
  <2> HIDE DEF row
  <2> QED
    BY <2>1, <2>2, CeilingOneRow, CeilingQuiet
<1>3. ASSUME NEW i \in Items, NEW l \in LeasesSeen(a, i), SkipWorkItem(a, i, l) PROVE CeilingStep
  <2> DEFINE given == Released(work[i])
             row == [given EXCEPT !.skips = @ + 1,
                       !.state = IF work[i].skips + 1 >= MaxSkipsBeforeReview
                                 THEN "review" ELSE "queued"]
  <2>1. work' = [work EXCEPT ![i] = row] /\ callAttempts' = callAttempts
    BY <1>3 DEF SkipWorkItem
  <2>2. work[i] \in WorkItem
    BY DEF TypeOK
  <2>3. given \in WorkItem /\ given.ceiling = work[i].ceiling
    BY <2>2, ReleasedType, CeilingWrites
  <2> HIDE DEF given
  <2>4. row.ceiling = work[i].ceiling
    BY <2>3 DEF WorkItem
  <2> HIDE DEF row
  <2> QED
    BY <2>1, <2>4, CeilingOneRow, CeilingQuiet
<1> QED
  BY <1>1, <1>2, <1>3

\* A completion recorded on one row, which goes on only below the ceiling.
LEMMA CeilingRecorded ==
  ASSUME TypeOK, NEW a \in Agents, NEW i \in Items, NEW l \in LeasesSeen(a, i), NEW k \in Keys,
         NEW o \in Outcomes, NEW row \in WorkItem, Recorded(a, i, l, k, o, row),
         row.ceiling = work[i].ceiling, row.state \in Going => ~AtCeiling(work[i])
  PROVE  CeilingStep
<1> DEFINE t == Attempt(a, i, l, k, o, row.state, row.lease)
<1>1. work' = [work EXCEPT ![i] = row] /\ callAttempts' = Append(callAttempts, t)
  BY DEF Recorded
<1>2. t \in CallAttempt /\ t.item = i /\ t.result = row.state
  BY AttemptType DEF Attempt, WorkItem
<1> HIDE DEF t
<1>3. \A j \in Items : work'[j].ceiling = work[j].ceiling
  BY <1>1, CeilingOneRow
<1>4. t.result \in Going => work[i].attempts + 1 < work[i].ceiling
  BY <1>2 DEF AtCeiling, TypeOK, WorkItem
<1> QED
  BY <1>1, <1>2, <1>3, <1>4 DEF CeilingStep, CeilingMoves, CallsOn

\* complete_work_item, whatever the outcome.
LEMMA CeilingComplete ==
  ASSUME TypeOK, NEW a \in Agents, NEW i \in Items, NEW l \in LeasesSeen(a, i), NEW k \in Keys,
         NEW d \in Dispositions, CompleteAs(d, a, i, l, k)
  PROVE  CeilingStep
<1> DEFINE w == work[i]
           counted == Counted(w)
<1>0. w \in WorkItem
  BY DEF TypeOK
<1>a. /\ counted \in WorkItem /\ counted.ceiling = w.ceiling
      /\ ToReview(w) \in WorkItem /\ ToReview(w).ceiling = w.ceiling /\ ToReview(w).state = "review"
  BY <1>0, CountedRow, CeilingWrites
<1>r. ASSUME NEW o \in Outcomes, Recorded(a, i, l, k, o, ToReview(w)) PROVE CeilingStep
  BY <1>a, <1>r, CeilingRecorded DEF Going
<1> HIDE DEF counted
<1>1. CASE CompleteClosing(a, i, l, k)
  <2> DEFINE row == [counted EXCEPT !.state = "completed"]
  <2>1. row \in WorkItem /\ row.state = "completed" /\ row.ceiling = w.ceiling
    BY <1>a DEF WorkItem, States
  <2>2. Recorded(a, i, l, k, "complete", row)
    BY <1>1 DEF CompleteClosing, counted
  <2> HIDE DEF row
  <2> QED
    BY <2>1, <2>2, CeilingRecorded DEF Outcomes, Going
<1>2. CASE CompleteReview(a, i, l, k)
  BY <1>2, <1>r DEF CompleteReview, Outcomes
<1>3. CASE CompleteRequeue(a, i, l, k)
  <2>1. CASE AtCeiling(w)
    BY <1>3, <2>1, <1>r DEF CompleteRequeue, Outcomes
  <2>2. CASE ~AtCeiling(w)
    <3> DEFINE row == [counted EXCEPT !.state = "queued"]
    <3>1. row \in WorkItem /\ row.ceiling = w.ceiling
      BY <1>a DEF WorkItem, States
    <3>2. Recorded(a, i, l, k, "requeue", row)
      BY <1>3, <2>2 DEF CompleteRequeue, counted
    <3> HIDE DEF row
    <3> QED
      BY <2>2, <3>1, <3>2, CeilingRecorded DEF Outcomes
  <2> QED
    BY <2>1, <2>2
<1>4. CASE CompleteRetry(a, i, l, k)
  <2>1. CASE AtCeiling(w)
    BY <1>4, <2>1, <1>r DEF CompleteRetry, Outcomes
  <2>2. CASE ~AtCeiling(w)
    <3> DEFINE row == [counted EXCEPT !.state = "retry_wait", !.due = now + RetryDelay,
                         !.assigned = NoAgent]
    <3>0. now + RetryDelay \in Times
      BY <1>4, NumbersAssumption DEF CompleteRetry, TypeOK, Times
    <3>1. row \in WorkItem /\ row.ceiling = w.ceiling
      BY <1>a, <3>0 DEF WorkItem, States
    <3>2. Recorded(a, i, l, k, "retry_wait", row)
      BY <1>4, <2>2 DEF CompleteRetry, counted
    <3> HIDE DEF row
    <3> QED
      BY <2>2, <3>1, <3>2, CeilingRecorded DEF Outcomes
  <2> QED
    BY <2>1, <2>2
<1>5. CASE CompleteRedial(a, i, l, k)
  <2>1. CASE AtCeiling(w)
    BY <1>5, <2>1, <1>r DEF CompleteRedial, Outcomes
  <2>2. CASE ~AtCeiling(w)
    <3> DEFINE row == LeasedTo(counted, a, "immediate_redial")
    <3>1. RoomForLease /\ Recorded(a, i, l, k, "immediate_redial", row)
      BY <1>5, <2>2 DEF CompleteRedial, counted
    <3>2. row \in WorkItem /\ row.ceiling = w.ceiling
      BY <1>a, <3>1, LeasedToType, CeilingWrites DEF LeaseReasons
    <3> HIDE DEF row
    <3> QED
      BY <2>2, <3>1, <3>2, CeilingRecorded DEF Outcomes
  <2> QED
    BY <2>1, <2>2
<1>6. CASE \E at \in Times : CompleteCallback(a, i, l, k, at)
  <2>1. PICK at \in Times : CompleteCallback(a, i, l, k, at)
    BY <1>6
  <2> DEFINE row == [counted EXCEPT !.state = "callback_wait", !.due = at, !.assigned = a]
  <2>2. row \in WorkItem /\ row.state = "callback_wait" /\ row.ceiling = w.ceiling
    BY <1>a DEF WorkItem, States
  <2>3. Recorded(a, i, l, k, "callback", row)
    BY <2>1 DEF CompleteCallback, counted
  <2> HIDE DEF row
  <2> QED
    BY <2>2, <2>3, CeilingRecorded DEF Outcomes, Going
<1>7. CASE CompleteDnc(a, i, l, k)
  <2> DEFINE t == Attempt(a, i, l, k, "explicit_dnc", "suppressed", NoLease)
  <2>1. t \in CallAttempt /\ t.result = "suppressed" /\ callAttempts' = Append(callAttempts, t)
    <3>1. "explicit_dnc" \in Outcomes /\ "suppressed" \in States /\ NoLease \in Nat
      BY DEF Outcomes, States, NoLease
    <3> QED
      BY <1>7, <3>1, AttemptType DEF CompleteDnc, Attempt
  <2> HIDE DEF t
  <2>2. ASSUME NEW j \in Items PROVE work'[j].ceiling = work[j].ceiling
    <3> DEFINE given == Released(work[j])
    <3>1. given \in WorkItem /\ given.ceiling = work[j].ceiling
      BY ReleasedType, CeilingWrites DEF TypeOK
    <3>2. work'[j] = IF j \notin OpenFor(PhoneOf[i]) THEN work[j]
                     ELSE [given EXCEPT !.state = "suppressed",
                             !.attempts = IF j = i THEN @ + 1 ELSE @]
      BY <1>7 DEF CompleteDnc
    <3> HIDE DEF given
    <3> QED
      BY <3>1, <3>2 DEF WorkItem
  <2> QED
    BY <2>1, <2>2 DEF CeilingStep, CeilingMoves, CallsOn, Going
<1> QED
  BY <1>1, <1>2, <1>3, <1>4, <1>5, <1>6, <1>7 DEF CompleteAs

\* The review decisions: a new ceiling exceeds the attempts made.
LEMMA CeilingReview ==
  ASSUME TypeOK, NEW i \in Items, ReviewStep(i)
  PROVE  CeilingStep
<1>1. PICK row : /\ work' = [work EXCEPT ![i] = row] /\ callAttempts' = callAttempts
                 /\ row.ceiling = work[i].ceiling \/ row.ceiling > work[i].attempts
  <2>0. work[i] \in WorkItem
    BY DEF TypeOK
  <2>1. ASSUME NEW at \in Times, RescheduleReviewItem(i, at)
        PROVE  \E row : /\ work' = [work EXCEPT ![i] = row] /\ callAttempts' = callAttempts
                        /\ row.ceiling = work[i].ceiling
    <3> DEFINE row == [work[i] EXCEPT !.state = "retry_wait", !.due = at, !.assigned = NoAgent]
    <3>1. work' = [work EXCEPT ![i] = row] /\ callAttempts' = callAttempts
      BY <2>1 DEF RescheduleReviewItem
    <3>2. row.ceiling = work[i].ceiling
      BY <2>0 DEF WorkItem
    <3> HIDE DEF row
    <3> QED
      BY <3>1, <3>2
  <2>2. ASSUME NEW n \in 1..MaxAttemptCeiling, IncreaseReviewItemAttempts(i, n)
        PROVE  \E row : /\ work' = [work EXCEPT ![i] = row] /\ callAttempts' = callAttempts
                        /\ row.ceiling > work[i].attempts
    <3> DEFINE row == [work[i] EXCEPT !.state = "retry_wait", !.due = now, !.ceiling = n,
                         !.assigned = NoAgent]
    <3>1. work' = [work EXCEPT ![i] = row] /\ callAttempts' = callAttempts /\ n > work[i].attempts
      BY <2>2 DEF IncreaseReviewItemAttempts
    <3>2. row.ceiling = n
      BY <2>0 DEF WorkItem
    <3> HIDE DEF row
    <3> QED
      BY <3>1, <3>2
  <2>3. ASSUME CloseReviewItem(i)
        PROVE  \E row : /\ work' = [work EXCEPT ![i] = row] /\ callAttempts' = callAttempts
                        /\ row.ceiling = work[i].ceiling
    <3> DEFINE row == [work[i] EXCEPT !.state = "completed"]
    <3>1. work' = [work EXCEPT ![i] = row] /\ callAttempts' = callAttempts
      BY <2>3 DEF CloseReviewItem
    <3>2. row.ceiling = work[i].ceiling
      BY <2>0 DEF WorkItem
    <3> HIDE DEF row
    <3> QED
      BY <3>1, <3>2
  <2> QED
    BY <2>1, <2>2, <2>3 DEF ReviewStep
<1>2. ASSUME NEW j \in Items PROVE CeilingMoves(j)
  BY <1>1 DEF TypeOK, CeilingMoves
<1> QED
  BY <1>1, <1>2 DEF CeilingStep

\* The sweeps and releases, which write rows without touching a ceiling.
LEMMA CeilingSwept ==
  ASSUME TypeOK, callAttempts' = callAttempts, NEW S,
         \/ work' = Reclaim(S)
         \/ work' = [i \in Items |-> IF i \in S THEN Shared(work[i]) ELSE work[i]]
  PROVE  CeilingStep
<1>1. ASSUME NEW i \in Items PROVE work'[i].ceiling = work[i].ceiling
  <2>1. Returned(work[i]).ceiling = work[i].ceiling /\ Shared(work[i]).ceiling = work[i].ceiling
    BY CeilingWrites DEF TypeOK
  <2>2. work'[i] \in {work[i], Returned(work[i]), Shared(work[i])}
    BY DEF Reclaim
  <2> QED
    BY <2>1, <2>2
<1> QED
  BY <1>1, CeilingQuiet

LEMMA CeilingSteps == TypeOK /\ [Next]_vars => CeilingStep
<1> SUFFICES ASSUME TypeOK, [Next]_vars PROVE CeilingStep
  OBVIOUS
<1>0. ASSUME UNCHANGED rows PROVE CeilingStep
  BY <1>0, CeilingQuiet DEF rows
<1>1. CASE Tick
  BY <1>0, <1>1 DEF Tick
<1>2. CASE \E a \in Agents : LeaseNext(a)
  BY <1>2, CeilingLease
<1>3. CASE \E a \in Agents, i \in Items : AgentStep(a, i)
  BY <1>3, CeilingLease, CeilingComplete DEF AgentStep
<1>4. CASE \E i \in Items : ReviewStep(i)
  BY <1>4, CeilingReview
<1>5. CASE Sweep
  BY <1>5, CeilingSwept DEF Sweep, ReclaimExpiredLeases
<1>6. CASE StaffingStep
  <2>1. ASSUME NEW a \in Agents, ReactivateUser(a) PROVE CeilingStep
    BY <1>0, <2>1 DEF ReactivateUser
  <2>2. ASSUME NEW s \in Assignment, AssignAgent(s) PROVE CeilingStep
    BY <1>0, <2>2 DEF AssignAgent
  <2>3. ASSUME NEW busy, NEW a \in Agents, DisableUser(a, busy) PROVE CeilingStep
    BY <2>3, CeilingSwept DEF DisableUser
  <2>4. ASSUME NEW busy, NEW s \in Assignment, EndUserAssignment(s, busy) PROVE CeilingStep
    BY <2>4, CeilingSwept DEF EndUserAssignment, ReleaseCampaignWork
  <2>5. ASSUME NEW busy, NEW s \in Assignment, NEW c \in Campaigns, TransferAgent(s, c, busy)
        PROVE  CeilingStep
    BY <2>5, CeilingSwept DEF TransferAgent, ReleaseCampaignWork
  <2> QED
    BY <1>6, <2>1, <2>2, <2>3, <2>4, <2>5 DEF StaffingStep
<1>7. CASE CampaignStep
  BY <1>0, <1>7 DEF CampaignStep, PauseCampaign, ArchiveCampaign, SetFlag
<1>8. CASE UNCHANGED vars
  BY <1>0, <1>8 DEF vars
<1> QED
  BY <1>1, <1>2, <1>3, <1>4, <1>5, <1>6, <1>7, <1>8 DEF Next

\* The attempts up to one of an item are no more than all of them.
LEMMA BeforeBounded ==
  ASSUME TypeOK, AttemptLedger, NEW n \in DOMAIN callAttempts
  PROVE  /\ Before(n) \subseteq AttemptsOn(callAttempts[n].item) /\ callAttempts[n].item \in Items
         /\ Cardinality(Before(n)) \in Nat
         /\ Cardinality(Before(n)) <= work[callAttempts[n].item].attempts
<1> DEFINE i == callAttempts[n].item
<1>1. callAttempts \in Seq(CallAttempt) /\ DOMAIN callAttempts = 1 .. Len(callAttempts)
      /\ callAttempts[n] \in CallAttempt
  BY DEF TypeOK
<1>2. i \in Items
  BY <1>1 DEF CallAttempt
<1>3. IsFiniteSet(AttemptsOn(i))
  <2>1. IsFiniteSet(DOMAIN callAttempts)
    BY <1>1, FS_Interval
  <2>2. AttemptsOn(i) \subseteq DOMAIN callAttempts
    BY DEF AttemptsOn
  <2> QED
    BY <2>1, <2>2, FS_Subset
<1>4. Before(n) \subseteq AttemptsOn(i)
  BY DEF Before
<1>5. /\ Cardinality(Before(n)) \in Nat
      /\ Cardinality(Before(n)) <= Cardinality(AttemptsOn(i))
  BY <1>3, <1>4, FS_Subset, FS_CardinalityType
<1> QED
  BY <1>2, <1>4, <1>5 DEF AttemptLedger

LEMMA CeilingKept ==
  ASSUME TypeOK, TypeOK', AttemptLedger, CeilingRespected, CeilingStep
  PROVE  CeilingRespected'
<1>0. /\ \A n \in DOMAIN callAttempts : callAttempts[n].result \in Going
           => Cardinality(Before(n)) < work[callAttempts[n].item].ceiling
      /\ (\A n \in DOMAIN callAttempts' : callAttempts'[n].result \in Going
           => Cardinality(Before(n)') < work'[callAttempts'[n].item].ceiling)
         => CeilingRespected'
  BY DEF CeilingRespected, Before, Going
<1>1. \A i \in Items : /\ work[i].ceiling \in Nat /\ work'[i].ceiling \in Nat
                       /\ work[i].attempts \in Nat
  BY DEF TypeOK, WorkItem
<1>2. CASE callAttempts' = callAttempts
  <2> SUFFICES ASSUME NEW n \in DOMAIN callAttempts, callAttempts[n].result \in Going
               PROVE  Cardinality(Before(n)) < work'[callAttempts[n].item].ceiling
    BY <1>0, <1>2 DEF Before, AttemptsOn
  <2>1. /\ callAttempts[n].item \in Items /\ Cardinality(Before(n)) \in Nat
        /\ Cardinality(Before(n)) <= work[callAttempts[n].item].attempts
    BY BeforeBounded
  <2>2. CeilingMoves(callAttempts[n].item)
    BY <2>1 DEF CeilingStep
  <2> QED
    BY <1>0, <1>1, <2>1, <2>2 DEF CeilingMoves
<1>3. ASSUME NEW t \in CallAttempt, CallsOn(t) PROVE CeilingRespected'
  <2> DEFINE e == Len(callAttempts) + 1
  <2>1. /\ e \notin DOMAIN callAttempts /\ DOMAIN callAttempts' = DOMAIN callAttempts \cup {e}
        /\ callAttempts'[e] = t
        /\ \A m \in DOMAIN callAttempts : callAttempts'[m] = callAttempts[m] /\ m < e
        /\ \A j \in Items : /\ AttemptsOn(j)' = AttemptsOn(j) \cup (IF j = t.item THEN {e} ELSE {})
                            /\ e \notin AttemptsOn(j) /\ AttemptsOn(j) \subseteq DOMAIN callAttempts
                            /\ IsFiniteSet(AttemptsOn(j))
    BY <1>3, AttemptsGrow DEF CallsOn
  <2>2. t.item \in Items /\ e \in Nat /\ DOMAIN callAttempts \subseteq Nat
    BY DEF CallAttempt, TypeOK
  <2> HIDE DEF e
  <2>3. ASSUME NEW n \in DOMAIN callAttempts', callAttempts'[n].result \in Going
        PROVE  Cardinality(Before(n)') < work'[callAttempts'[n].item].ceiling
    <3>1. CASE n = e
      <4>1. callAttempts'[n] = t
        BY <2>1, <3>1
      <4>2. Before(n)' \subseteq AttemptsOn(t.item) \cup {e}
        <5>1. Before(n)' \subseteq AttemptsOn(t.item)'
          BY <4>1 DEF Before, AttemptsOn
        <5> QED
          BY <2>1, <2>2, <5>1
      <4>3. /\ IsFiniteSet(AttemptsOn(t.item) \cup {e})
            /\ Cardinality(AttemptsOn(t.item) \cup {e}) = Cardinality(AttemptsOn(t.item)) + 1
        BY <2>1, <2>2, FS_AddElement
      <4>4. /\ Cardinality(Before(n)') \in Nat
            /\ Cardinality(Before(n)') <= Cardinality(AttemptsOn(t.item) \cup {e})
        BY <4>2, <4>3, FS_Subset, FS_CardinalityType
      <4>5. Cardinality(AttemptsOn(t.item)) = work[t.item].attempts
        BY <2>2 DEF AttemptLedger
      <4>6. work[t.item].attempts + 1 < work[t.item].ceiling
            /\ work'[t.item].ceiling = work[t.item].ceiling
        BY <1>3, <2>2, <2>3, <4>1 DEF CallsOn
      <4> QED
        BY <1>1, <2>2, <4>1, <4>3, <4>4, <4>5, <4>6
    <3>2. CASE n # e
      <4>1. n \in DOMAIN callAttempts /\ callAttempts'[n] = callAttempts[n]
        BY <2>1, <3>2
      <4>2. callAttempts[n].item \in Items /\ n \in Nat /\ n < e
        BY <2>1, <2>2, <4>1, BeforeBounded
      <4>3. Before(n)' = Before(n)
        <5>1. \A m \in Nat : m <= n => m # e
          BY <2>2, <4>2
        <5>2. Before(n)' = {m \in AttemptsOn(callAttempts[n].item)' : m <= n}
          BY <4>1 DEF Before, AttemptsOn
        <5>3. AttemptsOn(callAttempts[n].item) \subseteq Nat
          BY <2>1, <2>2, <4>2
        <5> QED
          BY <2>1, <2>2, <4>2, <5>1, <5>2, <5>3 DEF Before
      <4>4. work'[callAttempts[n].item].ceiling = work[callAttempts[n].item].ceiling
        BY <1>3, <4>2 DEF CallsOn
      <4> QED
        BY <1>0, <2>3, <4>1, <4>3, <4>4
    <3> QED
      BY <3>1, <3>2
  <2> QED
    BY <1>0, <2>3
<1> QED
  BY <1>2, <1>3 DEF CeilingStep

\* CeilingRespectedHolds: the ceiling tests of complete_work_item stop automatic calling,
\* whatever reviewers, skips and sweeps do to the item in between.
THEOREM CeilingRespectedHolds == Spec => []CeilingRespected
<1>1. Init => CeilingRespected
  BY DEF Init, CeilingRespected
<1>2. TypeOK /\ TypeOK' /\ AttemptLedger /\ CeilingRespected /\ [Next]_vars => CeilingRespected'
  BY CeilingSteps, CeilingKept
<1> QED
  BY <1>1, <1>2, Typing, AttemptLedgerHolds, PTL DEF Spec

=============================================================================

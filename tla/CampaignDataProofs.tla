------------------------- MODULE CampaignDataProofs -------------------------
(***************************************************************************)
(* What imports, suppressions and deletions do to the contact data of      *)
(* campaigns, for any number of campaigns, uploads, numbers and requests.  *)
(*                                                                         *)
(* The data changes at the end of a commit or of a deletion by what that   *)
(* transaction has collected before, so the invariant has to say what a    *)
(* collection is still worth when it is written: nothing that a commit     *)
(* adds has been suppressed or imported meanwhile, since the commit holds  *)
(* the number's lock and its campaign's (CommitsAreCurrent), and nothing   *)
(* that a deletion removes has found another user (OrphansStayUnused).     *)
(***************************************************************************)
EXTENDS CampaignData, TLAPS

Deleting == {a \in Clients : tx[a].op = "delete" /\ tx[a].began}

\* At most one commit runs on a campaign.
OneCommit ==
  \A a, b \in Committing : For[tx[a].on] = For[tx[b].on] => a = b

\* A request that has loaded the job and not begun has collected nothing.
NothingBeforeLocks ==
  \A a \in Clients : tx[a].op = "commit" /\ ~tx[a].began =>
    tx[a].locked = {} /\ tx[a].added = {} /\ tx[a].barred = {}

\* The locks are taken upwards, and cover what is added.
LocksAscend ==
  \A a \in Committing :
    /\ tx[a].barred \subseteq tx[a].added /\ tx[a].added \subseteq tx[a].locked
    /\ \A p \in tx[a].locked, q \in tx[a].todo : p < q

CommitsAreCurrent ==
  \A a \in Committing : \A p \in tx[a].added :
    /\ p \in dnc => p \in tx[a].barred
    /\ roster[For[tx[a].on]][p] = "absent"

OrphansStayUnused ==
  \A a \in Deleting : \A p \in tx[a].orphans :
    /\ p \in tx[a].numbers
    /\ \A b \in Campaigns \ {tx[a].on} : roster[b][p] = "absent"
    /\ \A b \in Committing : p \notin tx[b].added

IInv ==
  /\ TypeOK
  /\ OneCommit
  /\ NothingBeforeLocks
  /\ LocksAscend
  /\ CommitsAreCurrent
  /\ OrphansStayUnused
  /\ SuppressedNeverQueued

-----------------------------------------------------------------------------
(* What the kind of a transaction says of its fields. *)

LEMMA CommitFields ==
  ASSUME NEW t \in Transactions, t.op = "commit"
  PROVE  t \in Commits
  BY DEF Transactions, Idle, Deletions, Commits

LEMMA DeletionFields ==
  ASSUME NEW t \in Transactions, t.op = "delete"
  PROVE  t \in Deletions
  BY DEF Transactions, Idle, Deletions, Commits

LEMMA DecisionFields ==
  ASSUME NEW t \in Transactions, t.op = "decide"
  PROVE  t \in [op : {"decide"}, on : Jobs, decision : Verdicts, version : Nat]
  BY DEF Transactions, Idle, Deletions, Commits

LEMMA LifecycleFields ==
  ASSUME NEW t \in Transactions, t.op = "lifecycle"
  PROVE  t \in [op : {"lifecycle"}, on : Campaigns, to : {"active", "paused", "archived"}]
  BY DEF Transactions, Idle, Deletions, Commits

LEMMA TaskFields ==
  ASSUME NEW t \in Transactions
  PROVE  /\ t.op = "detect" => t.on \in Campaigns
         /\ t.op = "sweep" => t.on \in Jobs /\ t.seen \in JobStates
  BY DEF Transactions, Idle, Deletions, Commits

-----------------------------------------------------------------------------
(* Steps that leave the contact data alone. *)

\* A transaction that neither commits rows nor deletes any may come and go.
LEMMA QuietStep ==
  ASSUME IInv, NEW a \in Clients, NEW t \in Transactions,
         t.op = "commit" => ~t.began /\ t.locked = {} /\ t.added = {} /\ t.barred = {},
         ~(t.op = "delete" /\ t.began),
         Become(a, t), UNCHANGED <<roster, contacts, dnc>>,
         campaign' \in [Campaigns -> CampaignRow],
         job' \in [Jobs -> JobRow],
         decisions' \in [Jobs -> Seq(Decision)]
  PROVE  IInv'
<1>1. tx' \in [Clients -> Transactions] /\ tx'[a] = t /\ \A b \in Clients \ {a} : tx'[b] = tx[b]
  BY DEF IInv, TypeOK, Become
<1>2. TypeOK'
  BY <1>1 DEF IInv, TypeOK, Listed
<1>3. Committing' = Committing \ {a} /\ Deleting' = Deleting \ {a}
  BY <1>1 DEF Committing, Deleting
<1>4. \A b \in Committing' \cup Deleting' : tx'[b] = tx[b]
  BY <1>1, <1>3 DEF Committing, Deleting
<1>5. Committing' \subseteq Committing /\ Deleting' \subseteq Deleting
  BY <1>3
<1>6. OneCommit' /\ LocksAscend'
  BY <1>4, <1>5 DEF IInv, OneCommit, LocksAscend
<1>9. NothingBeforeLocks'
  BY <1>1 DEF IInv, NothingBeforeLocks
<1>7. CommitsAreCurrent'
  BY <1>4, <1>5 DEF IInv, CommitsAreCurrent
<1>8. OrphansStayUnused'
  BY <1>4, <1>5 DEF IInv, OrphansStayUnused
<1> QED
  BY <1>2, <1>6, <1>7, <1>8, <1>9 DEF IInv, SuppressedNeverQueued

\* A step outside every transaction that keeps the data.
LEMMA OutsideStep ==
  ASSUME IInv, UNCHANGED <<roster, contacts, dnc, tx>>,
         campaign' \in [Campaigns -> CampaignRow],
         job' \in [Jobs -> JobRow],
         decisions' \in [Jobs -> Seq(Decision)]
  PROVE  IInv'
<1>1. TypeOK'
  BY DEF IInv, TypeOK, Listed
<1>2. Committing' = Committing /\ Deleting' = Deleting
  BY DEF Committing, Deleting
<1>3. OneCommit' /\ NothingBeforeLocks' /\ LocksAscend'
  BY <1>2 DEF IInv, OneCommit, NothingBeforeLocks, LocksAscend
<1>4. CommitsAreCurrent'
  BY <1>2 DEF IInv, CommitsAreCurrent
<1>5. OrphansStayUnused'
  BY <1>2 DEF IInv, OrphansStayUnused
<1> QED
  BY <1>1, <1>3, <1>4, <1>5 DEF IInv, SuppressedNeverQueued

LEMMA IdleStep ==
  ASSUME IInv, NEW a \in Clients, Ended(a), UNCHANGED <<roster, contacts, dnc>>,
         campaign' \in [Campaigns -> CampaignRow],
         job' \in [Jobs -> JobRow],
         decisions' \in [Jobs -> Seq(Decision)]
  PROVE  IInv'
<1>1. Idle \in Transactions /\ Idle.op = "idle"
  BY DEF Idle, Transactions
<1> QED
  BY <1>1, QuietStep DEF Ended

LEMMA UploadHolds ==
  ASSUME IInv, NEW j \in Jobs, Upload(j) \/ Parse(j) \/ ParseFails(j) \/ JobExpires(j)
  PROVE  IInv'
<1>1. File[j] \in SUBSET Phones
  BY DataAssumption
<1> job \in [Jobs -> JobRow]
  BY DEF IInv, TypeOK
<1>2. job' \in [Jobs -> JobRow]
  <2>1. CASE Upload(j)
    BY <2>1 DEF Upload, JobRow, JobStates
  <2>2. CASE Parse(j)
    BY <1>1, <2>2 DEF Parse, JobRow, JobStates
  <2>3. CASE ParseFails(j)
    BY <2>3 DEF ParseFails, JobRow, JobStates
  <2>4. CASE JobExpires(j)
    BY <2>4 DEF JobExpires, JobRow, JobStates
  <2> QED
    BY <2>1, <2>2, <2>3, <2>4
<1>3. UNCHANGED <<roster, contacts, dnc, tx, campaign, decisions>>
  BY DEF Upload, Parse, ParseFails, JobExpires
<1> QED
  BY <1>2, <1>3, OutsideStep DEF IInv, TypeOK

LEMMA CountdownHolds ==
  ASSUME IInv, NEW c \in Campaigns, CountdownEnds(c)
  PROVE  IInv'
  BY OutsideStep DEF CountdownEnds, IInv, TypeOK, CampaignRow

LEMMA DecisionHolds ==
  ASSUME IInv, NEW a \in Clients,
         (\E j \in Jobs, d \in Verdicts : LoadForDecision(a, j, d)) \/ RecordDecision(a)
  PROVE  IInv'
<1>1. ASSUME NEW j \in Jobs, NEW d \in Verdicts, LoadForDecision(a, j, d) PROVE IInv'
  <2> DEFINE t == [op |-> "decide", on |-> j, decision |-> d, version |-> job[j].version]
  <2>1. t \in Transactions /\ t.op = "decide"
    BY DEF IInv, TypeOK, JobRow, Transactions
  <2> QED
    BY <1>1, <2>1, QuietStep DEF LoadForDecision, IInv, TypeOK
<1>2. CASE RecordDecision(a)
  <2>1. tx[a] \in [op : {"decide"}, on : Jobs, decision : Verdicts, version : Nat]
    BY <1>2, DecisionFields DEF RecordDecision, IInv, TypeOK
  <2> DEFINE j == tx[a].on
             d == [version |-> tx[a].version + 1, decision |-> tx[a].decision]
  <2>2. j \in Jobs /\ d \in Decision
    BY <2>1 DEF Decision
  <2>3. decisions' = [decisions EXCEPT ![j] = Append(@, d)]
    BY <1>2 DEF RecordDecision
  <2>4. decisions[j] \in Seq(Decision)
    BY <2>2 DEF IInv, TypeOK
  <2>5. Append(decisions[j], d) \in Seq(Decision)
    BY <2>2, <2>4
  <2>6. decisions' \in [Jobs -> Seq(Decision)]
    BY <2>3, <2>5 DEF IInv, TypeOK
  <2>7. job' \in [Jobs -> JobRow]
    <3>1. job' = [job EXCEPT ![j].version = tx[a].version + 1]
      BY <1>2 DEF RecordDecision
    <3>2. job \in [Jobs -> JobRow] /\ tx[a].version + 1 \in Nat
      BY <2>1 DEF IInv, TypeOK
    <3> QED
      BY <2>2, <3>1, <3>2 DEF JobRow
  <2> QED
    BY <1>2, <2>6, <2>7, IdleStep DEF RecordDecision, IInv, TypeOK
<1> QED
  BY <1>1, <1>2

LEMMA LifecycleHolds ==
  ASSUME IInv, NEW a \in Clients,
         \/ \E c \in Campaigns, x \in {"launch", "pause", "archive"} : LoadForLifecycle(a, c, x)
         \/ ChangeLifecycle(a)
  PROVE  IInv'
<1>1. ASSUME NEW c \in Campaigns, NEW x \in {"launch", "pause", "archive"}, LoadForLifecycle(a, c, x)
      PROVE  IInv'
  <2> DEFINE t == [op |-> "lifecycle", on |-> c, to |-> To(x)]
  <2>1. t \in Transactions /\ t.op = "lifecycle"
    BY DEF Transactions, To
  <2> QED
    BY <1>1, <2>1, QuietStep DEF LoadForLifecycle, IInv, TypeOK
<1>2. CASE ChangeLifecycle(a)
  <2>1. tx[a] \in [op : {"lifecycle"}, on : Campaigns, to : {"active", "paused", "archived"}]
    BY <1>2, LifecycleFields DEF ChangeLifecycle, IInv, TypeOK
  <2> QED
    BY <1>2, <2>1, IdleStep DEF ChangeLifecycle, IInv, TypeOK, CampaignRow
<1> QED
  BY <1>1, <1>2

LEMMA TasksHold ==
  ASSUME IInv,
         \/ \E c \in Campaigns : DetectComplete(c) \/ Purge(c)
         \/ \E j \in Jobs : SelectExpired(j)
         \/ MarkCompleted \/ RetireJob
  PROVE  IInv'
<1> Worker \in Clients
  BY DEF Clients
<1>1. ASSUME NEW c \in Campaigns, DetectComplete(c) PROVE IInv'
  <2> DEFINE t == [op |-> "detect", on |-> c]
  <2>1. t \in Transactions /\ t.op = "detect"
    BY DEF Transactions
  <2> QED
    BY <1>1, <2>1, QuietStep DEF DetectComplete, IInv, TypeOK
<1>2. ASSUME NEW j \in Jobs, SelectExpired(j) PROVE IInv'
  <2> DEFINE t == [op |-> "sweep", on |-> j, seen |-> job[j].state]
  <2>1. t \in Transactions /\ t.op = "sweep"
    BY DEF Transactions, IInv, TypeOK, JobRow
  <2> QED
    BY <1>2, <2>1, QuietStep DEF SelectExpired, IInv, TypeOK
<1>3. CASE MarkCompleted
  <2>1. tx[Worker].on \in Campaigns
    BY <1>3, TaskFields DEF MarkCompleted, IInv, TypeOK
  <2> QED
    BY <1>3, <2>1, IdleStep DEF MarkCompleted, IInv, TypeOK, CampaignRow
<1>4. CASE RetireJob
  <2>1. job' \in [Jobs -> JobRow]
    <3>1. tx[Worker].on \in Jobs /\ job \in [Jobs -> JobRow]
      BY <1>4, TaskFields DEF RetireJob, IInv, TypeOK
    <3> QED
      BY <1>4, <3>1 DEF RetireJob, JobRow, JobStates
  <2> QED
    BY <1>4, <2>1, IdleStep DEF RetireJob, IInv, TypeOK
<1>5. ASSUME NEW c \in Campaigns, Purge(c) PROVE IInv'
  <2> DEFINE t == [op |-> "delete", on |-> c, began |-> FALSE, numbers |-> {}, orphans |-> {}]
  <2>1. t \in Transactions /\ t.op = "delete" /\ ~t.began
    BY DEF Transactions, Deletions
  <2> QED
    BY <1>5, <2>1, QuietStep DEF Purge, Deletion, IInv, TypeOK
<1> QED
  BY <1>1, <1>2, <1>3, <1>4, <1>5

LEMMA LoadingHolds ==
  ASSUME IInv, NEW a \in Clients,
         \/ \E j \in Jobs : LoadForCommit(a, j)
         \/ \E c \in Campaigns : AskDeletion(a, c)
         \/ Rollback(a)
  PROVE  IInv'
<1>1. ASSUME NEW j \in Jobs, LoadForCommit(a, j) PROVE IInv'
  <2> DEFINE t == [op |-> "commit", on |-> j, version |-> job[j].version, began |-> FALSE,
                   told |-> Len(decisions[j]), todo |-> {}, locked |-> {}, added |-> {}, barred |-> {}]
  <2>1. decisions[j] \in Seq(Decision) /\ job[j] \in JobRow
    BY DEF IInv, TypeOK
  <2>2. Len(decisions[j]) \in Nat /\ job[j].version \in Nat
    BY <2>1 DEF JobRow
  <2>3. t \in Commits
    BY <2>2 DEF Commits
  <2>4. t \in Transactions /\ t.op = "commit" /\ ~t.began
    BY <2>3 DEF Transactions
  <2>5. t.locked = {} /\ t.added = {} /\ t.barred = {}
    OBVIOUS
  <2>6. Become(a, t) /\ UNCHANGED <<campaign, roster, contacts, dnc, job, decisions>>
    BY <1>1 DEF LoadForCommit
  <2> HIDE DEF t
  <2> QED
    BY <2>4, <2>5, <2>6, QuietStep DEF IInv, TypeOK
<1>2. ASSUME NEW c \in Campaigns, AskDeletion(a, c) PROVE IInv'
  <2> DEFINE t == [op |-> "delete", on |-> c, began |-> FALSE, numbers |-> {}, orphans |-> {}]
  <2>1. t \in Transactions /\ t.op = "delete" /\ ~t.began
    BY DEF Transactions, Deletions
  <2> QED
    BY <1>2, <2>1, QuietStep DEF AskDeletion, Deletion, IInv, TypeOK
<1>3. CASE Rollback(a)
  BY <1>3, IdleStep DEF Rollback, IInv, TypeOK
<1> QED
  BY <1>1, <1>2, <1>3

-----------------------------------------------------------------------------
(* Steps of a commit. *)

LEMMA BeginHolds ==
  ASSUME IInv, NEW a \in Clients, BeginCommit(a)
  PROVE  IInv'
<1> DEFINE j == tx[a].on
           t == [tx[a] EXCEPT !.began = TRUE, !.todo = job[j].rows]
<1>1. tx[a] \in Commits /\ ~tx[a].began
  BY CommitFields DEF BeginCommit, IInv, TypeOK
<1>2. j \in Jobs /\ job[j].rows \subseteq Phones
  BY <1>1 DEF Commits, IInv, TypeOK, JobRow
<1>3. t \in Commits /\ t.op = "commit" /\ t.began /\ t.on = j
  BY <1>1, <1>2 DEF Commits
<1>4. t.locked = {} /\ t.added = {} /\ t.barred = {}
  BY <1>1 DEF Commits, IInv, NothingBeforeLocks
<1>5. t \in Transactions
  BY <1>3 DEF Transactions
<1>6. Become(a, t) /\ UNCHANGED <<campaign, roster, contacts, dnc, job, decisions>> /\ ~CampaignLocked(For[j])
  BY DEF BeginCommit
<1>7. a \notin Committing /\ a \notin Deleting
  BY <1>1 DEF Committing, Deleting, Commits
<1> HIDE DEF t, j
<1>8. tx' \in [Clients -> Transactions] /\ tx'[a] = t /\ \A b \in Clients \ {a} : tx'[b] = tx[b]
  BY <1>5, <1>6 DEF IInv, TypeOK, Become
<1>9. Committing' = Committing \cup {a} /\ Deleting' = Deleting
  BY <1>3, <1>7, <1>8 DEF Committing, Deleting
<1>10. \A b \in Committing \cup Deleting : tx'[b] = tx[b]
  BY <1>7, <1>8 DEF Committing, Deleting
<1>11. TypeOK'
  BY <1>6, <1>8 DEF IInv, TypeOK, Listed
<1>12. OneCommit'
  BY <1>3, <1>6, <1>8, <1>9, <1>10 DEF IInv, OneCommit, CampaignLocked
<1>13. NothingBeforeLocks'
  BY <1>3, <1>8 DEF IInv, NothingBeforeLocks
<1>14. LocksAscend'
  BY <1>4, <1>8, <1>9, <1>10 DEF IInv, LocksAscend
<1>15. CommitsAreCurrent'
  BY <1>4, <1>6, <1>8, <1>9, <1>10 DEF IInv, CommitsAreCurrent
<1>16. OrphansStayUnused'
  BY <1>4, <1>6, <1>8, <1>9, <1>10 DEF IInv, OrphansStayUnused
<1> QED
  BY <1>6, <1>11, <1>12, <1>13, <1>14, <1>15, <1>16 DEF IInv, SuppressedNeverQueued

LEMMA RowHolds ==
  ASSUME IInv, NEW a \in Clients, NEW p \in Phones, CommitRow(a, p)
  PROVE  IInv'
<1> DEFINE j == tx[a].on
           c == For[j]
           skip == AlreadyInCampaign(c, p)
           t == [tx[a] EXCEPT !.todo = @ \ {p}, !.locked = @ \cup {p},
                   !.added = IF skip THEN @ ELSE @ \cup {p},
                   !.barred = IF skip \/ p \notin dnc THEN @ ELSE @ \cup {p}]
<1>1. a \in Committing /\ tx[a] \in Commits /\ tx[a].began
  BY CommitFields DEF CommitRow, Committing, IInv, TypeOK
<1>2. p \in tx[a].todo /\ \A q \in tx[a].todo : p <= q
  BY DEF CommitRow, NextRow
<1>3. t \in Commits /\ t.op = "commit" /\ t.began /\ t.on = j
  BY <1>1 DEF Commits
<1>4. t.todo = tx[a].todo \ {p} /\ t.locked = tx[a].locked \cup {p}
  BY <1>1 DEF Commits
<1>5. /\ t.added \subseteq tx[a].added \cup {p} /\ tx[a].added \subseteq t.added
      /\ tx[a].barred \subseteq t.barred /\ t.barred \subseteq tx[a].barred \cup {p}
      /\ p \in t.barred => p \in tx[a].barred \/ p \in t.added
      /\ p \in t.added => p \in tx[a].added \/ (~skip /\ (p \in dnc => p \in t.barred))
  BY <1>1 DEF Commits
<1>6. Become(a, t) /\ UNCHANGED <<campaign, roster, contacts, dnc, job, decisions>>
  BY DEF CommitRow
<1>7. ~skip => p \notin BeingDeleted
  BY DEF CommitRow
<1>8. c \in Campaigns
  BY <1>1, DataAssumption DEF Commits
<1>9. ~skip => roster[c][p] = "absent"
  BY <1>8 DEF AlreadyInCampaign, IInv, TypeOK, Listed
<1>10. t \in Transactions
  BY <1>3 DEF Transactions
<1>11. tx[a].barred \subseteq tx[a].added /\ tx[a].added \subseteq tx[a].locked
  BY <1>1 DEF IInv, LocksAscend
<1>12. t.barred \subseteq t.added /\ t.added \subseteq t.locked
  BY <1>4, <1>5, <1>11
<1>13. \A x \in t.locked, y \in t.todo : x < y
  <2> SUFFICES ASSUME NEW x \in t.locked, NEW y \in t.todo PROVE x < y
    OBVIOUS
  <2>1. x \in Nat /\ y \in Nat /\ p \in Nat
    BY <1>3, DataAssumption DEF Commits
  <2>2. y \in tx[a].todo /\ y # p /\ (x \in tx[a].locked \/ x = p)
    BY <1>4
  <2>3. x \in tx[a].locked => x < y
    BY <1>1, <2>2 DEF IInv, LocksAscend
  <2> QED
    BY <1>2, <2>1, <2>2, <2>3
<1>14. \A x \in t.added : (x \in dnc => x \in t.barred) /\ roster[c][x] = "absent"
  BY <1>1, <1>5, <1>9 DEF IInv, CommitsAreCurrent
<1>15. \A d \in Deleting : \A x \in tx[d].orphans : x \notin t.added
  <2>1. \A d \in Deleting : tx[d].orphans \subseteq BeingDeleted
    BY DEF Deleting, BeingDeleted
  <2> QED
    BY <1>1, <1>5, <1>7, <2>1 DEF IInv, OrphansStayUnused
<1>16. a \notin Deleting
  BY <1>1 DEF Deleting, Commits
<1> HIDE DEF t, c, skip
<1>17. tx' \in [Clients -> Transactions] /\ tx'[a] = t /\ \A b \in Clients \ {a} : tx'[b] = tx[b]
  BY <1>6, <1>10 DEF IInv, TypeOK, Become
<1>18. Committing' = Committing /\ Deleting' = Deleting
  BY <1>1, <1>3, <1>16, <1>17 DEF Committing, Deleting
<1>19. \A b \in Committing \cup Deleting : b \in Clients
  BY DEF Committing, Deleting
<1>20. TypeOK'
  BY <1>6, <1>17 DEF IInv, TypeOK, Listed
<1>21. OneCommit'
  BY <1>3, <1>17, <1>18, <1>19 DEF IInv, OneCommit
<1>22. NothingBeforeLocks'
  BY <1>3, <1>17 DEF IInv, NothingBeforeLocks
<1>23. LocksAscend'
  BY <1>12, <1>13, <1>17, <1>18, <1>19 DEF IInv, LocksAscend
<1>24. CommitsAreCurrent'
  <2>1. For[t.on] = c
    BY <1>3 DEF c
  <2> QED
    BY <1>6, <1>14, <1>17, <1>18, <1>19, <2>1 DEF IInv, CommitsAreCurrent
<1>25. OrphansStayUnused'
  BY <1>6, <1>15, <1>16, <1>17, <1>18, <1>19 DEF IInv, OrphansStayUnused
<1> QED
  BY <1>6, <1>20, <1>21, <1>22, <1>23, <1>24, <1>25 DEF IInv, SuppressedNeverQueued

LEMMA EndCommitHolds ==
  ASSUME IInv, NEW a \in Clients, EndCommit(a)
  PROVE  IInv'
<1> DEFINE c == For[tx[a].on]
           added == tx[a].added
           barred == tx[a].barred
<1>1. a \in Committing /\ tx[a] \in Commits
  BY CommitFields DEF EndCommit, Committing, IInv, TypeOK
<1>2. c \in Campaigns /\ tx[a].on \in Jobs /\ added \subseteq Phones /\ barred \subseteq added
  BY <1>1, DataAssumption DEF Commits, IInv, LocksAscend
<1>3. Idle \in Transactions /\ Idle.op = "idle"
  BY DEF Idle, Transactions
<1>4. tx' \in [Clients -> Transactions] /\ tx'[a] = Idle /\ \A b \in Clients \ {a} : tx'[b] = tx[b]
  BY <1>3 DEF EndCommit, Ended, Become, IInv, TypeOK
<1>5. a \notin Deleting
  BY <1>1 DEF Deleting, Commits
<1>6. Committing' = Committing \ {a} /\ Deleting' = Deleting
  BY <1>3, <1>4, <1>5 DEF Committing, Deleting
<1>7. \A b \in Committing' \cup Deleting : b \in Clients \ {a} /\ tx'[b] = tx[b]
  BY <1>4, <1>5, <1>6 DEF Committing, Deleting
<1>8. dnc' = dnc /\ campaign' = campaign /\ decisions' = decisions /\ contacts' = contacts \cup added
  BY DEF EndCommit
<1>9. roster' = [roster EXCEPT ![c] = [p \in Phones |->
        CASE p \in barred -> "suppressed" [] p \in added \ barred -> "open" [] OTHER -> @[p]]]
  BY DEF EndCommit
<1>10. \A b \in Campaigns \ {c} : roster'[b] = roster[b]
  BY <1>9 DEF IInv, TypeOK
<1>11. \A p \in Phones : roster'[c][p] = IF p \in barred THEN "suppressed"
         ELSE IF p \in added THEN "open" ELSE roster[c][p]
  BY <1>2, <1>9 DEF IInv, TypeOK
<1>12. roster' \in [Campaigns -> [Phones -> {"absent", "open", "completed", "suppressed"}]]
  BY <1>2, <1>9 DEF IInv, TypeOK
<1>13. job' \in [Jobs -> JobRow]
  BY <1>2 DEF EndCommit, IInv, TypeOK, JobRow, JobStates
<1> HIDE DEF c, added, barred
<1>14. TypeOK'
  <2>1. \A b \in Campaigns : Listed(b)' \subseteq contacts'
    BY <1>2, <1>8, <1>10, <1>11 DEF Listed, IInv, TypeOK
  <2> QED
    BY <1>2, <1>4, <1>8, <1>12, <1>13, <2>1 DEF IInv, TypeOK
<1>15. OneCommit' /\ LocksAscend'
  BY <1>6, <1>7 DEF IInv, OneCommit, LocksAscend
<1>16. NothingBeforeLocks'
  BY <1>3, <1>4 DEF IInv, NothingBeforeLocks
<1>17. \A b \in Committing' : For[tx[b].on] \in Campaigns \ {c}
  <2> SUFFICES ASSUME NEW b \in Committing' PROVE For[tx[b].on] \in Campaigns \ {c}
    OBVIOUS
  <2>1. b \in Committing /\ b # a /\ tx[b] \in Commits
    BY <1>6, CommitFields DEF Committing, IInv, TypeOK
  <2>2. For[tx[b].on] \in Campaigns
    BY <2>1, DataAssumption DEF Commits
  <2> QED
    BY <1>1, <2>1, <2>2 DEF IInv, OneCommit, c
<1>18. CommitsAreCurrent'
  BY <1>6, <1>7, <1>8, <1>10, <1>17 DEF IInv, CommitsAreCurrent
<1>19. OrphansStayUnused'
  <2> SUFFICES ASSUME NEW d \in Deleting, NEW p \in tx[d].orphans
               PROVE  /\ p \in tx[d].numbers
                      /\ \A b \in Campaigns \ {tx[d].on} : roster'[b][p] = "absent"
                      /\ \A b \in Committing' : p \notin tx'[b].added
    BY <1>6, <1>7 DEF OrphansStayUnused
  <2>1. p \in Phones
    BY DeletionFields DEF Deleting, Deletions, IInv, TypeOK
  <2>2. p \notin added
    BY <1>1 DEF IInv, OrphansStayUnused, added
  <2>3. \A b \in Campaigns : roster'[b][p] = roster[b][p]
    BY <1>2, <1>10, <1>11, <2>1, <2>2
  <2> QED
    BY <1>6, <1>7, <2>3 DEF IInv, OrphansStayUnused
<1>20. SuppressedNeverQueued'
  <2> SUFFICES ASSUME NEW b \in Campaigns, NEW p \in dnc PROVE roster'[b][p] # "open"
    BY <1>8 DEF SuppressedNeverQueued
  <2>1. p \in Phones /\ roster[b][p] # "open"
    BY DEF IInv, TypeOK, SuppressedNeverQueued
  <2>2. p \in added => p \in barred
    BY <1>1 DEF IInv, CommitsAreCurrent, added, barred
  <2> QED
    BY <1>10, <1>11, <2>1, <2>2
<1> QED
  BY <1>14, <1>15, <1>16, <1>18, <1>19, <1>20 DEF IInv

-----------------------------------------------------------------------------
(* Calls. *)

\* A call changes what is open, and closes it.
LEMMA CallHolds ==
  ASSUME IInv, NEW c \in Campaigns, NEW p \in Phones, Work(c, p) \/ Suppress(c, p)
  PROVE  IInv'
<1>1. UNCHANGED <<campaign, contacts, job, decisions, tx>>
  BY DEF Work, Suppress
<1>2. roster' \in [Campaigns -> [Phones -> {"absent", "open", "completed", "suppressed"}]]
  <2>1. CASE Work(c, p)
    BY <2>1 DEF Work, IInv, TypeOK
  <2>2. CASE Suppress(c, p)
    BY <2>2 DEF Suppress, IInv, TypeOK
  <2> QED
    BY <2>1, <2>2
<1>3. \A b \in Campaigns, q \in Phones :
        roster'[b][q] = roster[b][q] \/ (roster[b][q] = "open" /\ roster'[b][q] = "completed")
  <2>1. CASE Work(c, p)
    BY <2>1 DEF Work, Workable, IInv, TypeOK
  <2>2. CASE Suppress(c, p)
    BY <2>2 DEF Suppress, IInv, TypeOK
  <2> QED
    BY <2>1, <2>2
<1>4. dnc' = dnc \/ (dnc' = dnc \cup {p} /\ Holders(p) = {} /\ \A b \in Campaigns : roster'[b][p] # "open")
  <2>1. CASE Work(c, p)
    BY <2>1 DEF Work
  <2>2. CASE Suppress(c, p)
    <3>1. \A b \in Campaigns : roster'[b][p] # "open"
      BY <2>2 DEF Suppress, IInv, TypeOK
    <3> QED
      BY <2>2, <3>1 DEF Suppress, Workable
  <2> QED
    BY <2>1, <2>2
<1>5. Committing' = Committing /\ Deleting' = Deleting
  BY <1>1 DEF Committing, Deleting
<1>6. TypeOK'
  <2>1. \A b \in Campaigns : Listed(b)' \subseteq contacts'
    BY <1>1, <1>3 DEF Listed, IInv, TypeOK
  <2> QED
    BY <1>1, <1>2, <1>4, <2>1 DEF IInv, TypeOK
<1>7. OneCommit' /\ NothingBeforeLocks' /\ LocksAscend'
  BY <1>1, <1>5 DEF IInv, OneCommit, NothingBeforeLocks, LocksAscend
<1>8. CommitsAreCurrent'
  <2> SUFFICES ASSUME NEW a \in Committing, NEW q \in tx[a].added
               PROVE  (q \in dnc' => q \in tx[a].barred) /\ roster'[For[tx[a].on]][q] = "absent"
    BY <1>1, <1>5 DEF CommitsAreCurrent
  <2>1. tx[a] \in Commits
    BY CommitFields DEF Committing, IInv, TypeOK
  <2>2. q \in Phones /\ For[tx[a].on] \in Campaigns
    BY <2>1, DataAssumption DEF Commits
  <2>3. q \in tx[a].locked
    BY DEF IInv, LocksAscend
  <2>4. q = p => Holders(p) # {}
    BY <2>3 DEF Holders
  <2> QED
    BY <1>3, <1>4, <2>2, <2>4 DEF IInv, CommitsAreCurrent
<1>9. OrphansStayUnused'
  <2> SUFFICES ASSUME NEW d \in Deleting, NEW q \in tx[d].orphans
               PROVE  \A b \in Campaigns \ {tx[d].on} : roster'[b][q] = "absent"
    BY <1>1, <1>5 DEF IInv, OrphansStayUnused
  <2>1. q \in Phones
    BY DeletionFields DEF Deleting, Deletions, IInv, TypeOK
  <2> QED
    BY <1>3, <2>1 DEF IInv, OrphansStayUnused
<1>10. SuppressedNeverQueued'
  BY <1>3, <1>4 DEF IInv, TypeOK, SuppressedNeverQueued
<1> QED
  BY <1>6, <1>7, <1>8, <1>9, <1>10 DEF IInv

-----------------------------------------------------------------------------
(* Deletions. *)

LEMMA DeleteRowsHolds ==
  ASSUME IInv, NEW a \in Clients, DeleteRows(a)
  PROVE  IInv'
<1> DEFINE c == tx[a].on
           t == [tx[a] EXCEPT !.began = TRUE, !.numbers = Listed(c), !.orphans = Orphans(c)]
<1>1. tx[a] \in Deletions /\ ~tx[a].began /\ tx[a].op = "delete"
  BY DeletionFields DEF DeleteRows, IInv, TypeOK
<1>2. c \in Campaigns /\ Listed(c) \subseteq Phones /\ Orphans(c) \subseteq Listed(c)
  BY <1>1 DEF Deletions, Listed, Orphans
<1>3. t \in Deletions /\ t.op = "delete" /\ t.began /\ t.on = c /\ t.numbers = Listed(c) /\ t.orphans = Orphans(c)
  BY <1>1, <1>2 DEF Deletions
<1>4. t \in Transactions
  BY <1>3 DEF Transactions
<1>5. /\ Become(a, t) /\ UNCHANGED <<campaign, roster, contacts, dnc, job, decisions>>
      /\ \A b \in Committing : Orphans(c) \cap tx[b].added = {}
  BY DEF DeleteRows
<1>6. a \notin Committing /\ a \notin Deleting
  BY <1>1 DEF Committing, Deleting
<1> HIDE DEF t, c
<1>7. tx' \in [Clients -> Transactions] /\ tx'[a] = t /\ \A b \in Clients \ {a} : tx'[b] = tx[b]
  BY <1>4, <1>5 DEF IInv, TypeOK, Become
<1>8. Committing' = Committing /\ Deleting' = Deleting \cup {a}
  BY <1>3, <1>6, <1>7 DEF Committing, Deleting
<1>9. \A b \in Committing \cup Deleting : tx'[b] = tx[b]
  BY <1>6, <1>7 DEF Committing, Deleting
<1>10. TypeOK'
  BY <1>5, <1>7 DEF IInv, TypeOK, Listed
<1>11. OneCommit' /\ LocksAscend'
  BY <1>8, <1>9 DEF IInv, OneCommit, LocksAscend
<1>12. NothingBeforeLocks'
  BY <1>3, <1>7 DEF IInv, NothingBeforeLocks
<1>13. CommitsAreCurrent'
  BY <1>5, <1>8, <1>9 DEF IInv, CommitsAreCurrent
<1>14. OrphansStayUnused'
  <2>1. \A p \in Orphans(c) : \A b \in Campaigns \ {c} : roster[b][p] = "absent"
    BY DEF Orphans
  <2> QED
    BY <1>2, <1>3, <1>5, <1>7, <1>8, <1>9, <2>1 DEF IInv, OrphansStayUnused
<1> QED
  BY <1>5, <1>10, <1>11, <1>12, <1>13, <1>14 DEF IInv, SuppressedNeverQueued

LEMMA EndDeletionHolds ==
  ASSUME IInv, NEW a \in Clients, EndDeletion(a)
  PROVE  IInv'
<1> DEFINE c == tx[a].on
           numbers == tx[a].numbers
           orphans == tx[a].orphans
<1>1. a \in Deleting /\ tx[a] \in Deletions /\ tx[a].op = "delete"
  BY DeletionFields DEF EndDeletion, Deleting, IInv, TypeOK
<1>2. c \in Campaigns /\ orphans \subseteq Phones
  BY <1>1 DEF Deletions
<1>3. /\ orphans \subseteq numbers
      /\ \A p \in orphans : \A b \in Campaigns \ {c} : roster[b][p] = "absent"
  BY <1>1 DEF IInv, OrphansStayUnused
<1>4. Idle \in Transactions /\ Idle.op = "idle"
  BY DEF Idle, Transactions
<1>5. tx' \in [Clients -> Transactions] /\ tx'[a] = Idle /\ \A b \in Clients \ {a} : tx'[b] = tx[b]
  BY <1>4 DEF EndDeletion, Ended, Become, IInv, TypeOK
<1>6. Committing' = Committing /\ Deleting' = Deleting \ {a}
  BY <1>1, <1>4, <1>5 DEF Committing, Deleting
<1>7. \A b \in Committing \cup Deleting' : b \in Clients /\ tx'[b] = tx[b]
  BY <1>1, <1>5, <1>6 DEF Committing, Deleting
<1>8. UNCHANGED <<dnc, job, decisions>> /\ contacts' = contacts \ orphans /\ ~CampaignLocked(c)
  BY DEF EndDeletion
<1>9. campaign' \in [Campaigns -> CampaignRow]
  BY <1>2 DEF EndDeletion, IInv, TypeOK, CampaignRow
<1>10. roster' = [roster EXCEPT ![c] = [p \in Phones |-> IF p \in numbers THEN "absent" ELSE @[p]]]
  BY DEF EndDeletion
<1>11. \A b \in Campaigns \ {c} : roster'[b] = roster[b]
  BY <1>10 DEF IInv, TypeOK
<1>12. \A p \in Phones : roster'[c][p] = IF p \in numbers THEN "absent" ELSE roster[c][p]
  BY <1>2, <1>10 DEF IInv, TypeOK
<1>13. roster' \in [Campaigns -> [Phones -> {"absent", "open", "completed", "suppressed"}]]
  BY <1>2, <1>10 DEF IInv, TypeOK
<1> HIDE DEF c, numbers, orphans
<1>14. TypeOK'
  <2>1. \A b \in Campaigns : Listed(b)' \subseteq contacts'
    BY <1>3, <1>8, <1>11, <1>12 DEF Listed, IInv, TypeOK
  <2> QED
    BY <1>5, <1>8, <1>9, <1>13, <2>1 DEF IInv, TypeOK
<1>15. OneCommit' /\ LocksAscend'
  BY <1>6, <1>7 DEF IInv, OneCommit, LocksAscend
<1>16. NothingBeforeLocks'
  BY <1>4, <1>5 DEF IInv, NothingBeforeLocks
<1>17. \A b \in Committing : For[tx[b].on] \in Campaigns \ {c}
  <2> SUFFICES ASSUME NEW b \in Committing PROVE For[tx[b].on] \in Campaigns \ {c}
    OBVIOUS
  <2>1. tx[b] \in Commits
    BY CommitFields DEF Committing, IInv, TypeOK
  <2>2. For[tx[b].on] \in Campaigns
    BY <2>1, DataAssumption DEF Commits
  <2> QED
    BY <1>8, <2>2 DEF CampaignLocked
<1>18. CommitsAreCurrent'
  BY <1>6, <1>7, <1>8, <1>11, <1>17 DEF IInv, CommitsAreCurrent
<1>19. OrphansStayUnused'
  <2> SUFFICES ASSUME NEW d \in Deleting', NEW p \in tx[d].orphans
               PROVE  \A b \in Campaigns \ {tx[d].on} : roster'[b][p] = "absent"
    BY <1>6, <1>7 DEF IInv, OrphansStayUnused
  <2>1. p \in Phones /\ d \in Deleting
    BY <1>6, DeletionFields DEF Deleting, Deletions, IInv, TypeOK
  <2> QED
    BY <1>11, <1>12, <2>1 DEF IInv, OrphansStayUnused
<1>20. SuppressedNeverQueued'
  BY <1>8, <1>11, <1>12 DEF IInv, TypeOK, SuppressedNeverQueued
<1> QED
  BY <1>9, <1>14, <1>15, <1>16, <1>18, <1>19, <1>20 DEF IInv

-----------------------------------------------------------------------------
LEMMA InitHolds == Init => IInv
<1> SUFFICES ASSUME Init PROVE IInv
  OBVIOUS
<1>1. tx \in [Clients -> Transactions] /\ \A a \in Clients : tx[a].op = "idle"
  BY DEF Init, Transactions, Idle
<1>2. Committing = {} /\ Deleting = {}
  BY <1>1 DEF Committing, Deleting
<1>3. TypeOK
  <2>1. decisions \in [Jobs -> Seq(Decision)]
    BY DEF Init
  <2>2. \A c \in Campaigns : Listed(c) = {}
    BY DEF Init, Listed
  <2> QED
    BY <1>1, <2>1, <2>2 DEF Init, TypeOK, CampaignRow, JobRow, JobStates, NoJob
<1>4. SuppressedNeverQueued
  BY DEF Init, SuppressedNeverQueued
<1> QED
  BY <1>1, <1>2, <1>3, <1>4
  DEF IInv, OneCommit, NothingBeforeLocks, LocksAscend, CommitsAreCurrent, OrphansStayUnused

LEMMA StepHolds == IInv /\ [Next]_vars => IInv'
<1> SUFFICES ASSUME IInv, [Next]_vars PROVE IInv'
  OBVIOUS
<1> Worker \in Clients /\ Staff \subseteq Clients
  BY DEF Clients
<1>1. CASE UNCHANGED vars
  BY <1>1, OutsideStep DEF vars, IInv, TypeOK
<1>2. CASE \E j \in Jobs : Upload(j)
  BY <1>2, UploadHolds
<1>3. ASSUME NEW a \in Staff, Request(a) PROVE IInv'
  BY <1>3, DecisionHolds, LoadingHolds, LifecycleHolds DEF Request
<1>4. ASSUME NEW a \in Clients, Proceed(a) \/ Rollback(a) PROVE IInv'
  BY <1>4, DecisionHolds, LoadingHolds, BeginHolds, RowHolds, EndCommitHolds, LifecycleHolds,
     DeleteRowsHolds, EndDeletionHolds DEF Proceed
<1>5. CASE \E c \in Campaigns, p \in Phones : Work(c, p) \/ Suppress(c, p)
  BY <1>5, CallHolds
<1>6. CASE Tasks
  BY <1>6, UploadHolds, CountdownHolds, TasksHold DEF Tasks
<1> QED
  BY <1>1, <1>2, <1>3, <1>4, <1>5, <1>6 DEF Next

LEMMA Invariance == Spec => []IInv
  BY InitHolds, StepHolds, PTL DEF Spec

-----------------------------------------------------------------------------
\* A campaign contact keeps its contact row, whatever imports and deletions of the same
\* number run at the same time (delete_completed_campaign_data, commit_job).
THEOREM Typing == Spec => []TypeOK
<1>1. IInv => TypeOK
  BY DEF IInv
<1> QED
  BY Invariance, <1>1, PTL

\* lock_phone_fingerprint serializes import and suppression: no number is suppressed and
\* queued, for any number of files and of suppressions under way.
THEOREM SuppressionHolds == Spec => []SuppressedNeverQueued
<1>1. IInv => SuppressedNeverQueued
  BY DEF IInv
<1> QED
  BY Invariance, <1>1, PTL

\* commit_job's order of the phone locks: no two commits wait for each other.
THEOREM NoDeadlock == Spec => []ImportsNeverDeadlock
<1>1. IInv => ImportsNeverDeadlock
  <2> SUFFICES ASSUME IInv, NEW a \in Committing, NEW b \in Committing,
                      NEW p \in NextRow(a), b \in Holders(p),
                      NEW q \in NextRow(b), a \in Holders(q)
               PROVE  FALSE
    BY DEF ImportsNeverDeadlock, WaitsFor
  <2>1. q < p /\ p < q
    BY DEF IInv, LocksAscend, NextRow, Holders
  <2>2. p \in Nat /\ q \in Nat
    <3>1. tx[a] \in Commits /\ tx[b] \in Commits
      BY CommitFields DEF Committing, IInv, TypeOK
    <3> QED
      BY <3>1, DataAssumption DEF Commits, NextRow
  <2> QED
    BY <2>1, <2>2
<1> QED
  BY Invariance, <1>1, PTL

\* Only a commit queues a number, and it adds none its campaign had.
LEMMA FinalStep ==
  ASSUME IInv, Next, NEW c \in Campaigns, NEW p \in Phones, roster[c][p] \in {"completed", "suppressed"}
  PROVE  roster'[c][p] # "open"
<1>1. CASE roster' = roster
  BY <1>1
<1>2. ASSUME NEW a \in Clients, EndCommit(a) PROVE roster'[c][p] # "open"
  <2>1. a \in Committing /\ tx[a].on \in Jobs
    BY <1>2, CommitFields DEF EndCommit, Committing, IInv, TypeOK, Commits
  <2>2. For[tx[a].on] \in Campaigns
    BY <2>1, DataAssumption
  <2>3. c = For[tx[a].on] => p \notin tx[a].added
    BY <2>1 DEF IInv, CommitsAreCurrent
  <2> QED
    BY <1>2, <2>2, <2>3 DEF EndCommit, IInv, TypeOK
<1>3. ASSUME NEW b \in Campaigns, NEW q \in Phones, Work(b, q) \/ Suppress(b, q)
      PROVE  roster'[c][p] # "open"
  <2>1. CASE Work(b, q)
    BY <2>1 DEF Work, IInv, TypeOK
  <2>2. CASE Suppress(b, q)
    BY <2>2 DEF Suppress, IInv, TypeOK
  <2> QED
    BY <1>3, <2>1, <2>2
<1>4. ASSUME NEW a \in Clients, EndDeletion(a) PROVE roster'[c][p] # "open"
  <2>1. tx[a].on \in Campaigns
    BY <1>4, DeletionFields DEF EndDeletion, Deletions, IInv, TypeOK
  <2> QED
    BY <1>4, <2>1 DEF EndDeletion, IInv, TypeOK
<1>5. ASSUME NEW a \in Clients,
             Rollback(a) \/ RecordDecision(a) \/ BeginCommit(a) \/ ChangeLifecycle(a) \/ DeleteRows(a)
             \/ \E q \in Phones : CommitRow(a, q)
      PROVE  roster' = roster
  BY <1>5 DEF Rollback, RecordDecision, BeginCommit, ChangeLifecycle, DeleteRows, CommitRow
<1>6. ASSUME NEW a \in Clients, Request(a) PROVE roster' = roster
  BY <1>6 DEF Request, LoadForDecision, LoadForCommit, LoadForLifecycle, AskDeletion, Deletion
<1>7. (Tasks \/ \E j \in Jobs : Upload(j)) => roster' = roster
  BY DEF Tasks, Upload, Parse, ParseFails, JobExpires, SelectExpired, DetectComplete, CountdownEnds,
         Purge, Deletion, MarkCompleted, RetireJob
<1> Staff \subseteq Clients
  BY DEF Clients
<1> QED
  BY <1>1, <1>2, <1>3, <1>4, <1>5, <1>6, <1>7 DEF Next, Proceed

\* classify_row and the unique campaign contact: what has its final outcome in a campaign
\* is queued there again by no commit, whatever file it is for and however old its parse.
THEOREM OutcomesAreFinal == Spec => OutcomeIsFinal
<1>1. IInv /\ [Next]_vars =>
        [\A c \in Campaigns, p \in Phones :
           roster[c][p] \in {"completed", "suppressed"} => roster'[c][p] # "open"]_vars
  BY FinalStep
<1> QED
  BY Invariance, <1>1, PTL DEF Spec, OutcomeIsFinal


-----------------------------------------------------------------------------
(* Decisions and the version a request was told of.                        *)
(*                                                                         *)
(* record_decision counts a job's version up from the copy it has loaded,  *)
(* so versions are neither unique nor ascending; but the last decision     *)
(* recorded always carries the version that the job shows then.            *)

LastHasVersion ==
  \A j \in Jobs : decisions[j] # <<>> => decisions[j][Len(decisions[j])].version = job[j].version

\* What a commit was told of is still there, under the version it was told.
ToldHasVersion ==
  \A a \in Clients : tx[a].op = "commit" /\ tx[a].told > 0 =>
    /\ tx[a].told \in DOMAIN decisions[tx[a].on]
    /\ decisions[tx[a].on][tx[a].told].version = tx[a].version

Versions == LastHasVersion /\ ToldHasVersion

\* A step that records no decision and loads no job for a commit.
LEMMA VersionsStay ==
  ASSUME IInv, Versions, UNCHANGED decisions,
         \A j \in Jobs : job'[j].version = job[j].version,
         \A a \in Clients : tx'[a].op = "commit" =>
           /\ tx[a].op = "commit" /\ tx'[a].on = tx[a].on
           /\ tx'[a].told = tx[a].told /\ tx'[a].version = tx[a].version
  PROVE  Versions'
<1>1. LastHasVersion'
  BY DEF Versions, LastHasVersion
<1>2. ToldHasVersion'
  BY DEF Versions, ToldHasVersion
<1> QED
  BY <1>1, <1>2 DEF Versions

LEMMA SameTransactions ==
  ASSUME IInv, Versions, UNCHANGED <<decisions, tx>>,
         \A j \in Jobs : job'[j].version = job[j].version
  PROVE  Versions'
BY VersionsStay

\* One transaction goes on as another kind, or as the same commit.
LEMMA OneTransaction ==
  ASSUME IInv, Versions, UNCHANGED decisions, NEW a \in Clients, NEW t, Become(a, t),
         t.op = "commit" => /\ tx[a].op = "commit" /\ t.on = tx[a].on
                            /\ t.told = tx[a].told /\ t.version = tx[a].version,
         \A j \in Jobs : job'[j].version = job[j].version
  PROVE  Versions'
<1>1. tx'[a] = t /\ \A b \in Clients \ {a} : tx'[b] = tx[b]
  BY DEF Become, IInv, TypeOK
<1> QED
  BY <1>1, VersionsStay

LEMMA JobVersions ==
  ASSUME IInv
  PROVE  /\ \A j \in Jobs : (Upload(j) \/ Parse(j) \/ ParseFails(j) \/ JobExpires(j)) =>
              \A k \in Jobs : job'[k].version = job[k].version
         /\ RetireJob => \A k \in Jobs : job'[k].version = job[k].version
         /\ \A a \in Clients : EndCommit(a) => \A k \in Jobs : job'[k].version = job[k].version
<1>1. job \in [Jobs -> JobRow]
  BY DEF IInv, TypeOK
<1>2. ASSUME NEW j \in Jobs, Upload(j) \/ Parse(j) \/ ParseFails(j) \/ JobExpires(j)
      PROVE  \A k \in Jobs : job'[k].version = job[k].version
  BY <1>1, <1>2 DEF Upload, Parse, ParseFails, JobExpires, JobRow
<1>3. RetireJob => \A k \in Jobs : job'[k].version = job[k].version
  BY <1>1 DEF RetireJob, JobRow
<1>4. ASSUME NEW a \in Clients, EndCommit(a) PROVE \A k \in Jobs : job'[k].version = job[k].version
  BY <1>1, <1>4 DEF EndCommit, JobRow
<1> QED
  BY <1>2, <1>3, <1>4

LEMMA IdleIsIdle == Idle.op = "idle"
BY DEF Idle

\* A transaction that begins and is no commit.
OtherRequest(a) ==
  \/ \E j \in Jobs, d \in Verdicts : LoadForDecision(a, j, d)
  \/ \E c \in Campaigns, x \in {"launch", "pause", "archive"} : LoadForLifecycle(a, c, x)
  \/ \E c \in Campaigns : Deletion(a, c)
  \/ a = Worker /\ \E j \in Jobs : SelectExpired(j)
  \/ a = Worker /\ \E c \in Campaigns : DetectComplete(c)

LEMMA RequestBecomes ==
  ASSUME NEW a \in Clients, OtherRequest(a)
  PROVE  /\ UNCHANGED <<decisions, job>>
         /\ \E t : Become(a, t) /\ t.op # "commit"
<1> DEFINE Begun == UNCHANGED <<decisions, job>> /\ \E t : Become(a, t) /\ t.op # "commit"
<1>0. ASSUME NEW t, Become(a, t), t.op # "commit", UNCHANGED <<decisions, job>> PROVE Begun
  BY <1>0
<1> HIDE DEF Begun
<1>1. ASSUME NEW j \in Jobs, NEW d \in Verdicts, LoadForDecision(a, j, d) PROVE Begun
  BY <1>0, <1>1 DEF LoadForDecision
<1>2. ASSUME NEW c \in Campaigns, NEW x \in {"launch", "pause", "archive"}, LoadForLifecycle(a, c, x)
      PROVE  Begun
  BY <1>0, <1>2 DEF LoadForLifecycle
<1>3. ASSUME NEW c \in Campaigns, Deletion(a, c) PROVE Begun
  BY <1>0, <1>3 DEF Deletion
<1>4. ASSUME a = Worker, NEW j \in Jobs, SelectExpired(j) PROVE Begun
  BY <1>0, <1>4 DEF SelectExpired
<1>5. ASSUME a = Worker, NEW c \in Campaigns, DetectComplete(c) PROVE Begun
  BY <1>0, <1>5 DEF DetectComplete
<1> QED
  BY <1>1, <1>2, <1>3, <1>4, <1>5 DEF OtherRequest, Begun

LEMMA RecordVersions ==
  ASSUME IInv, Versions, NEW a \in Clients, RecordDecision(a)
  PROVE  Versions'
<1> DEFINE j == tx[a].on
           v == tx[a].version + 1
           d == [version |-> v, decision |-> tx[a].decision]
<1>1. tx[a] \in [op : {"decide"}, on : Jobs, decision : Verdicts, version : Nat]
  BY DecisionFields DEF RecordDecision, IInv, TypeOK
<1>2. j \in Jobs /\ decisions \in [Jobs -> Seq(Decision)] /\ d \in Decision
  <2>1. decisions \in [Jobs -> Seq(Decision)]
    BY DEF IInv, TypeOK
  <2>2. j \in Jobs /\ d \in Decision
    BY <1>1 DEF Decision
  <2> QED
    BY <2>1, <2>2
<1>3. /\ job' = [job EXCEPT ![j].version = v]
      /\ decisions' = [decisions EXCEPT ![j] = Append(@, d)]
      /\ Ended(a)
  BY DEF RecordDecision
<1>4. d.version = v
  OBVIOUS
<1> HIDE DEF j, v, d
<1>5. job'[j].version = v /\ \A k \in Jobs \ {j} : job'[k].version = job[k].version
  BY <1>2, <1>3 DEF IInv, TypeOK, JobRow
<1>6. /\ decisions'[j] = Append(decisions[j], d)
      /\ \A k \in Jobs \ {j} : decisions'[k] = decisions[k]
  BY <1>2, <1>3
<1>7. decisions[j] \in Seq(Decision)
  BY <1>2
<1>8. /\ Len(decisions'[j]) = Len(decisions[j]) + 1 /\ decisions'[j][Len(decisions'[j])] = d
      /\ DOMAIN decisions[j] \subseteq DOMAIN decisions'[j]
      /\ \A n \in DOMAIN decisions[j] : decisions'[j][n] = decisions[j][n]
  BY <1>2, <1>6, <1>7
<1>9. LastHasVersion'
  BY <1>4, <1>5, <1>6, <1>8 DEF Versions, LastHasVersion
<1>10. tx'[a] = Idle /\ \A b \in Clients \ {a} : tx'[b] = tx[b]
  BY <1>3 DEF Ended, Become, IInv, TypeOK
<1>11. ASSUME NEW b \in Clients, tx'[b].op = "commit", tx'[b].told > 0
       PROVE  /\ tx'[b].told \in DOMAIN decisions'[tx'[b].on]
              /\ decisions'[tx'[b].on][tx'[b].told].version = tx'[b].version
  <2>1. b # a /\ tx'[b] = tx[b]
    BY <1>10, <1>11, IdleIsIdle
  <2>2. tx[b] \in Commits
    BY <1>11, <2>1, CommitFields DEF IInv, TypeOK
  <2>3. tx[b].on \in Jobs
    BY <2>2 DEF Commits
  <2>4. /\ tx[b].told \in DOMAIN decisions[tx[b].on]
        /\ decisions[tx[b].on][tx[b].told].version = tx[b].version
    BY <1>11, <2>1 DEF Versions, ToldHasVersion
  <2> QED
    BY <1>6, <1>8, <2>1, <2>3, <2>4
<1>12. ToldHasVersion'
  BY <1>11 DEF ToldHasVersion
<1> QED
  BY <1>9, <1>12 DEF Versions

LEMMA LoadVersions ==
  ASSUME IInv, Versions, NEW a \in Clients, NEW j \in Jobs, LoadForCommit(a, j)
  PROVE  Versions'
<1> DEFINE t == [op |-> "commit", on |-> j, version |-> job[j].version, began |-> FALSE,
                 told |-> Len(decisions[j]), todo |-> {}, locked |-> {}, added |-> {}, barred |-> {}]
<1>1. Become(a, t) /\ UNCHANGED <<decisions, job>>
  BY DEF LoadForCommit
<1>2. t.on = j /\ t.told = Len(decisions[j]) /\ t.version = job[j].version
  OBVIOUS
<1> HIDE DEF t
<1>3. tx'[a] = t /\ \A b \in Clients \ {a} : tx'[b] = tx[b]
  BY <1>1 DEF Become, IInv, TypeOK
<1>4. decisions[j] \in Seq(Decision)
  BY DEF IInv, TypeOK
<1>5. t.told > 0 => t.told \in DOMAIN decisions[j] /\ decisions[j] # <<>>
  BY <1>2, <1>4
<1>6. ToldHasVersion'
  BY <1>1, <1>2, <1>3, <1>5 DEF Versions, ToldHasVersion, LastHasVersion
<1>7. LastHasVersion'
  BY <1>1 DEF Versions, LastHasVersion
<1> QED
  BY <1>6, <1>7 DEF Versions

LEMMA VersionsStep == IInv /\ Versions /\ [Next]_vars => Versions'
<1> SUFFICES ASSUME IInv, Versions, [Next]_vars PROVE Versions'
  OBVIOUS
<1> Staff \subseteq Clients /\ Worker \in Clients
  BY DEF Clients
<1>1. CASE UNCHANGED vars
  BY <1>1, SameTransactions DEF vars
<1>2. ASSUME NEW j \in Jobs, Upload(j) \/ Parse(j) \/ ParseFails(j) \/ JobExpires(j) PROVE Versions'
  <2>1. UNCHANGED <<decisions, tx>>
    BY <1>2 DEF Upload, Parse, ParseFails, JobExpires
  <2> QED
    BY <1>2, <2>1, JobVersions, SameTransactions
<1>3. ASSUME NEW c \in Campaigns, NEW p \in Phones, Work(c, p) \/ Suppress(c, p) PROVE Versions'
  <2>1. UNCHANGED <<decisions, tx, job>>
    BY <1>3 DEF Work, Suppress
  <2> QED
    BY <2>1, SameTransactions
<1>4. ASSUME NEW c \in Campaigns, CountdownEnds(c) PROVE Versions'
  <2>1. UNCHANGED <<decisions, tx, job>>
    BY <1>4 DEF CountdownEnds
  <2> QED
    BY <2>1, SameTransactions
<1>5. ASSUME NEW a \in Clients,
             OtherRequest(a)
      PROVE  Versions'
  <2>1. PICK t : Become(a, t) /\ t.op # "commit"
    BY <1>5, RequestBecomes
  <2>2. UNCHANGED <<decisions, job>>
    BY <1>5, RequestBecomes
  <2> QED
    BY <2>1, <2>2, OneTransaction
<1>6. ASSUME NEW a \in Clients,
             \/ Rollback(a) \/ EndCommit(a) \/ ChangeLifecycle(a) \/ EndDeletion(a)
             \/ a = Worker /\ (MarkCompleted \/ RetireJob)
      PROVE  Versions'
  <2>1. Become(a, Idle) /\ UNCHANGED decisions
    BY <1>6 DEF Rollback, EndCommit, ChangeLifecycle, EndDeletion, MarkCompleted, RetireJob, Ended
  <2>2. \A k \in Jobs : job'[k].version = job[k].version
    <3>1. CASE EndCommit(a) \/ RetireJob
      BY <3>1, JobVersions
    <3>2. CASE ~EndCommit(a) /\ ~RetireJob
      BY <1>6, <3>2 DEF Rollback, ChangeLifecycle, EndDeletion, MarkCompleted
    <3> QED
      BY <3>1, <3>2
  <2> QED
    BY <2>1, <2>2, IdleIsIdle, OneTransaction
<1>7. ASSUME NEW a \in Clients, NEW t, Become(a, t), UNCHANGED <<decisions, job>>,
             tx[a].op = "commit", t.on = tx[a].on, t.told = tx[a].told, t.version = tx[a].version
      PROVE  Versions'
  BY <1>7, OneTransaction
<1>8. ASSUME NEW a \in Clients, BeginCommit(a) \/ \E p \in Phones : CommitRow(a, p) PROVE Versions'
  <2>1. tx[a] \in Commits /\ tx[a].op = "commit"
    BY <1>8, CommitFields DEF BeginCommit, CommitRow, Committing, IInv, TypeOK
  <2>2. UNCHANGED <<decisions, job>>
    BY <1>8 DEF BeginCommit, CommitRow
  <2>3. CASE BeginCommit(a)
    <3> DEFINE t == [tx[a] EXCEPT !.began = TRUE, !.todo = job[tx[a].on].rows]
    <3>1. Become(a, t)
      BY <2>3 DEF BeginCommit
    <3>2. t.on = tx[a].on /\ t.told = tx[a].told /\ t.version = tx[a].version
      BY <2>1 DEF Commits
    <3> HIDE DEF t
    <3> QED
      BY <1>7, <2>1, <2>2, <3>1, <3>2
  <2>4. ASSUME NEW p \in Phones, CommitRow(a, p) PROVE Versions'
    <3> DEFINE skip == AlreadyInCampaign(For[tx[a].on], p)
               t == [tx[a] EXCEPT !.todo = @ \ {p}, !.locked = @ \cup {p},
                       !.added = IF skip THEN @ ELSE @ \cup {p},
                       !.barred = IF skip \/ p \notin dnc THEN @ ELSE @ \cup {p}]
    <3>1. Become(a, t)
      BY <2>4 DEF CommitRow
    <3>2. t.on = tx[a].on /\ t.told = tx[a].told /\ t.version = tx[a].version
      BY <2>1 DEF Commits
    <3> HIDE DEF t
    <3> QED
      BY <1>7, <2>1, <2>2, <3>1, <3>2
  <2> QED
    BY <1>8, <2>3, <2>4
<1>9. ASSUME NEW a \in Clients, DeleteRows(a) PROVE Versions'
  <2> DEFINE t == [tx[a] EXCEPT !.began = TRUE, !.numbers = Listed(tx[a].on), !.orphans = Orphans(tx[a].on)]
  <2>1. tx[a] \in Deletions
    BY <1>9, DeletionFields DEF DeleteRows, IInv, TypeOK
  <2>2. t.op = "delete"
    BY <2>1 DEF Deletions
  <2>3. Become(a, t) /\ UNCHANGED <<decisions, job>>
    BY <1>9 DEF DeleteRows
  <2> HIDE DEF t
  <2> QED
    BY <2>2, <2>3, OneTransaction
<1>10. CASE \E a \in Staff : Request(a)
  BY <1>5, <1>10, LoadVersions DEF Request, AskDeletion, OtherRequest
<1>11. CASE Tasks
  BY <1>2, <1>4, <1>5, <1>6, <1>11 DEF Tasks, Purge, OtherRequest
<1>12. CASE \E a \in Clients : Proceed(a) \/ Rollback(a)
  BY <1>6, <1>8, <1>9, <1>12, RecordVersions DEF Proceed
<1> QED
  BY <1>1, <1>2, <1>3, <1>10, <1>11, <1>12 DEF Next

\* Only its beginning makes a commit one of those under way.
LEMMA RejectionStep ==
  IInv /\ Versions /\ [Next]_vars =>
    \A a \in Committing' \ Committing :
       \E n \in DOMAIN decisions[tx[a].on] :
         n >= tx[a].told /\ decisions[tx[a].on][n].decision = "approve"
<1> SUFFICES ASSUME IInv, Versions, [Next]_vars, NEW a \in Committing' \ Committing
             PROVE  \E n \in DOMAIN decisions[tx[a].on] :
                      n >= tx[a].told /\ decisions[tx[a].on][n].decision = "approve"
  OBVIOUS
<1>1. a \in Clients /\ tx'[a].op = "commit" /\ tx'[a].began /\ ~(tx[a].op = "commit" /\ tx[a].began)
  BY DEF Committing
<1> Staff \subseteq Clients /\ Worker \in Clients
  BY DEF Clients
<1>2. BeginCommit(a)
  <2> SUFFICES ASSUME ~BeginCommit(a) PROVE FALSE
    OBVIOUS
  <2>1. tx' # tx
    BY <1>1
  <2>2. ASSUME NEW b \in Clients, NEW t, Become(b, t), t.op # "commit" \/ ~t.began PROVE FALSE
    <3>1. tx'[b] = t /\ \A x \in Clients \ {b} : tx'[x] = tx[x]
      BY <2>2 DEF Become, IInv, TypeOK
    <3> QED
      BY <1>1, <2>2, <3>1
  <2>3. ASSUME NEW b \in Clients, Ended(b) PROVE FALSE
    BY <2>2, <2>3, IdleIsIdle DEF Ended
  <2>4. ASSUME NEW b \in Clients, NEW j \in Jobs, LoadForCommit(b, j) PROVE FALSE
    <3> DEFINE t == [op |-> "commit", on |-> j, version |-> job[j].version, began |-> FALSE,
                     told |-> Len(decisions[j]), todo |-> {}, locked |-> {}, added |-> {}, barred |-> {}]
    <3>1. Become(b, t) /\ ~t.began
      BY <2>4 DEF LoadForCommit
    <3> HIDE DEF t
    <3> QED
      BY <2>2, <3>1
  <2>5. ASSUME NEW b \in Clients, OtherRequest(b)
        PROVE  FALSE
    <3>1. PICK t : Become(b, t) /\ t.op # "commit"
      BY <2>5, RequestBecomes
    <3> QED
      BY <2>2, <3>1
  <2>6. ASSUME NEW b \in Clients, BeginCommit(b) PROVE FALSE
    <3>1. b # a
      BY <2>6
    <3>2. tx'[a] = tx[a]
      BY <1>1, <2>6, <3>1 DEF BeginCommit, Become, IInv, TypeOK
    <3> QED
      BY <1>1, <3>2
  <2>7. ASSUME NEW b \in Clients, NEW p \in Phones, CommitRow(b, p) PROVE FALSE
    <3>1. b \in Committing
      BY <2>7 DEF CommitRow
    <3>2. b # a
      BY <3>1
    <3>3. tx'[a] = tx[a]
      BY <1>1, <2>7, <3>2 DEF CommitRow, Become, IInv, TypeOK
    <3> QED
      BY <1>1, <3>3
  <2>8. ASSUME NEW b \in Clients, DeleteRows(b) PROVE FALSE
    <3> DEFINE t == [tx[b] EXCEPT !.began = TRUE, !.numbers = Listed(tx[b].on), !.orphans = Orphans(tx[b].on)]
    <3>1. tx[b] \in Deletions
      BY <2>8, DeletionFields DEF DeleteRows, IInv, TypeOK
    <3>2. t.op # "commit"
      BY <3>1 DEF Deletions
    <3>3. Become(b, t)
      BY <2>8 DEF DeleteRows
    <3> HIDE DEF t
    <3> QED
      BY <2>2, <3>2, <3>3
  <2>9. ASSUME NEW b \in Clients, Request(b) PROVE FALSE
    BY <2>4, <2>5, <2>9 DEF Request, AskDeletion, OtherRequest
  <2>10. ASSUME NEW b \in Clients, Proceed(b) \/ Rollback(b) PROVE FALSE
    BY <2>3, <2>6, <2>7, <2>8, <2>10
    DEF Proceed, RecordDecision, EndCommit, ChangeLifecycle, EndDeletion, Rollback
  <2>11. CASE Tasks
    <3>1. ~\E j \in Jobs : Parse(j) \/ ParseFails(j) \/ JobExpires(j)
      BY <2>1 DEF Parse, ParseFails, JobExpires
    <3>2. ~\E c \in Campaigns : CountdownEnds(c)
      BY <2>1 DEF CountdownEnds
    <3>3. ~MarkCompleted /\ ~RetireJob
      BY <2>3 DEF MarkCompleted, RetireJob
    <3> QED
      BY <2>5, <2>11, <3>1, <3>2, <3>3 DEF Tasks, Purge, OtherRequest
  <2>12. ~\E j \in Jobs : Upload(j)
    BY <2>1 DEF Upload
  <2>13. ~\E c \in Campaigns, p \in Phones : Work(c, p) \/ Suppress(c, p)
    BY <2>1 DEF Work, Suppress
  <2> QED
    BY <2>1, <2>9, <2>10, <2>11, <2>12, <2>13 DEF Next, vars
<1> DEFINE j == tx[a].on
           v == tx[a].version
           of == OfVersion(j, v)
<1>3. tx[a] \in Commits
  BY <1>1, <1>2, CommitFields DEF BeginCommit, IInv, TypeOK
<1>4. j \in Jobs /\ tx[a].told \in Nat /\ decisions[j] \in Seq(Decision)
  BY <1>3 DEF Commits, IInv, TypeOK
<1>5. PICK n \in of : (\A m \in of : m <= n) /\ decisions[j][n].decision = "approve"
  BY <1>2 DEF BeginCommit, Approved
<1>6. n \in DOMAIN decisions[j] /\ n \in Nat
  BY <1>4, <1>5 DEF OfVersion
<1>7. n >= tx[a].told
  <2>1. CASE tx[a].told = 0
    BY <1>6, <2>1
  <2>2. CASE tx[a].told > 0
    <3>1. tx[a].told \in of
      BY <1>1, <1>2, <2>2 DEF Versions, ToldHasVersion, OfVersion, BeginCommit
    <3> HIDE DEF of
    <3> QED
      BY <1>4, <1>5, <1>6, <3>1
  <2> QED
    BY <1>4, <2>1, <2>2
<1> QED
  BY <1>5, <1>6, <1>7

LEMMA InitVersions == Init => Versions
<1> SUFFICES ASSUME Init PROVE Versions
  OBVIOUS
<1> QED
  BY IdleIsIdle DEF Init, Versions, LastHasVersion, ToldHasVersion

\* decide_import and commit_job: though two decisions may share a version, a commit that was
\* told of a rejection begins only on an approval recorded after it.
THEOREM RejectionIsHeard == Spec => RejectionHolds
BY Invariance, InitVersions, VersionsStep, RejectionStep, PTL DEF Spec, RejectionHolds

=============================================================================

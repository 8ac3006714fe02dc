-------------------------- MODULE BootstrapProofs --------------------------
(***************************************************************************)
(* One administrator at most, for any number of operators and of runs.     *)
(*                                                                         *)
(* A run that has looked for an administrator and found none holds the     *)
(* advisory lock until it ends, so no other run can commit one meanwhile:  *)
(* that is OnlyHolderInserts, which OneFirstAdministrator alone does not   *)
(* say and every step needs.                                               *)
(***************************************************************************)
EXTENDS Bootstrap, FiniteSetTheorems, TLAPS

InsideLock == {"locked", "inserted", "written"}

OnlyHolderInserts ==
  \A o \in Operators : step[o] \in {"inserted", "written"} => administrators = {}

AtMostOne == \A o, p \in administrators : o = p

IInv == TypeOK /\ OnlyHolderInserts /\ AtMostOne

\* The empty database of Init satisfies all of it.
LEMMA InitHolds == Init => IInv
  BY BootstrapAssumption DEF Init, IInv, TypeOK, OnlyHolderInserts, AtMostOne

\* Two runs are never past the lock at the same time.
LEMMA Exclusive ==
  ASSUME TypeOK, NEW o \in Operators, NEW p \in Operators,
         step[o] \in InsideLock, step[p] \in InsideLock
  PROVE  o = p
  BY DEF TypeOK, InsideLock

\* What the end of a run does to lock and step keeps TypeOK's pairing of the two.
LEMMA EndKeepsTyping ==
  ASSUME TypeOK, NEW o \in Operators, Unlock(o), To(o, "idle"), UNCHANGED runs,
         administrators' \subseteq Operators, file' \in Operators \cup {Nobody}
  PROVE  TypeOK'
<1>1. step' \in [Operators -> {"idle", "asked", "locked", "inserted", "written"}]
  BY DEF TypeOK, To
<1>2. lock' \in Operators \cup {Nobody}
  BY DEF TypeOK, Unlock
<1>3. ASSUME NEW p \in Operators
      PROVE  step'[p] \in InsideLock <=> lock' = p
  BY BootstrapAssumption DEF TypeOK, To, Unlock, InsideLock
<1> QED
  BY <1>1, <1>2, <1>3 DEF TypeOK, InsideLock

\* Every step keeps the typing, the exclusion and the count: one case for each action of a run.
LEMMA StepHolds == IInv /\ [Next]_vars => IInv'
<1> SUFFICES ASSUME IInv, [Next]_vars PROVE IInv'
  OBVIOUS
<1> USE DEF IInv
<1>1. CASE UNCHANGED vars
  BY <1>1 DEF vars, TypeOK, OnlyHolderInserts, AtMostOne
<1>2. ASSUME NEW o \in Operators, Run(o) PROVE IInv'
  <2>1. TypeOK'
    BY <1>2, BootstrapAssumption DEF Run, To, TypeOK
  <2> QED
    BY <1>2, <2>1 DEF Run, To, TypeOK, OnlyHolderInserts, AtMostOne
<1>3. ASSUME NEW o \in Operators, Lock(o) PROVE IInv'
  <2>1. TypeOK'
    BY <1>3, BootstrapAssumption DEF Lock, TakeLock, To, TypeOK
  <2> QED
    BY <1>3, <2>1 DEF Lock, TakeLock, To, TypeOK, OnlyHolderInserts, AtMostOne
<1>4. ASSUME NEW o \in Operators, Insert(o) PROVE IInv'
  <2>1. TypeOK'
    BY <1>4, BootstrapAssumption DEF Insert, To, TypeOK
  <2> QED
    BY <1>4, <2>1 DEF Insert, To, TypeOK, OnlyHolderInserts, AtMostOne
<1>5. ASSUME NEW o \in Operators, WriteCode(o) PROVE IInv'
  <2>1. TypeOK'
    BY <1>5, BootstrapAssumption DEF WriteCode, To, TypeOK
  <2> QED
    BY <1>5, <2>1 DEF WriteCode, To, TypeOK, OnlyHolderInserts, AtMostOne
<1>6. ASSUME NEW o \in Operators, Refuse(o) \/ CodeNotWritten(o) \/ Fail(o) \/ Crash(o)
      PROVE  IInv'
  <2>1. TypeOK'
    BY <1>6, EndKeepsTyping DEF Refuse, CodeNotWritten, Fail, Crash, Cleaned, TypeOK
  <2> QED
    BY <1>6, <2>1 DEF Refuse, CodeNotWritten, Fail, Crash, To, TypeOK, OnlyHolderInserts, AtMostOne
<1>7. ASSUME NEW o \in Operators, Commit(o) \/ CommitUnanswered(o) PROVE IInv'
  <2>1. administrators = {} /\ administrators' = {o}
    BY <1>7 DEF Commit, CommitUnanswered, OnlyHolderInserts
  <2>2. TypeOK'
    BY <1>7, <2>1, EndKeepsTyping DEF Commit, CommitUnanswered, Cleaned, TypeOK
  <2>3. OnlyHolderInserts'
    <3> SUFFICES ASSUME NEW p \in Operators, step'[p] \in {"inserted", "written"} PROVE FALSE
      BY DEF OnlyHolderInserts
    <3>1. p # o /\ step[p] = step'[p]
      BY <1>7 DEF Commit, CommitUnanswered, To, TypeOK
    <3>2. step[o] \in InsideLock /\ step[p] \in InsideLock
      BY <1>7, <3>1 DEF Commit, CommitUnanswered, InsideLock
    <3> QED
      BY <3>1, <3>2, Exclusive
  <2> QED
    BY <2>1, <2>2, <2>3 DEF AtMostOne
<1> QED
  BY <1>1, <1>2, <1>3, <1>4, <1>5, <1>6, <1>7 DEF Next

\* A run past the advisory lock holds it, and no two do, however runs fail, are killed or
\* lose the answer to their commit.
THEOREM Typing == Spec => []TypeOK
<1>1. IInv => TypeOK
  BY DEF IInv
<1> QED
  BY InitHolds, StepHolds, <1>1, PTL DEF Spec

\* bootstrap_super_admin: "Create exactly the first active Super Admin", for any number
\* of operators who run the command at the same time, again and again.
THEOREM OneAdministrator == Spec => []OneFirstAdministrator
<1>1. IInv => OneFirstAdministrator
  <2> SUFFICES ASSUME IInv PROVE Cardinality(administrators) <= 1
    BY DEF OneFirstAdministrator
  <2>1. CASE administrators = {}
    BY <2>1, FS_EmptySet
  <2>2. CASE \E o : administrators = {o}
    BY <2>2, FS_Singleton
  <2> QED
    BY <2>1, <2>2 DEF IInv, AtMostOne
<1> QED
  BY InitHolds, StepHolds, <1>1, PTL DEF Spec


\* bootstrap_super_admin writes the code to a file of its own before it commits: whoever is
\* refused, fails, is killed or loses the answer later leaves the administrator's code there.
THEOREM CodeStays == Spec => CodeKept
<1> DEFINE Kept == \A o \in administrators : file = o => file' = o
<1>1. IInv /\ [Next]_vars => Kept
  <2> SUFFICES ASSUME IInv, [Next]_vars, NEW o \in administrators, file = o PROVE file' = o
    OBVIOUS
  <2>1. o # Nobody /\ \A p \in Operators : step[p] # "written"
    BY BootstrapAssumption DEF IInv, OnlyHolderInserts, TypeOK
  <2> QED
    BY <2>1 DEF Next, vars, Run, Lock, Insert, Refuse, WriteCode, CodeNotWritten, Commit, Fail, Crash,
                CommitUnanswered, Cleaned
<1>2. Spec => []IInv
  BY InitHolds, StepHolds, PTL DEF Spec
<1> QED
  BY <1>1, <1>2, PTL DEF Spec, CodeKept

=============================================================================

----------------------------- MODULE Bootstrap -----------------------------
(***************************************************************************)
(* Creating the first administrator: app/ops/bootstrap_super_admin.py.     *)
(*                                                                         *)
(* Operators run the command, perhaps at the same time, perhaps again.     *)
(* A run is one transaction under an advisory lock.  The activation code   *)
(* goes to a file that may be created only once, and the file is written   *)
(* before the transaction commits.                                         *)
(***************************************************************************)
EXTENDS Naturals, FiniteSets

CONSTANTS
  Operators,
  Nobody,         \* no run holds the lock, no code is in the file
  MaxRuns         \* how often one operator may run the command

ASSUME BootstrapAssumption ==
  /\ Nobody \notin Operators
  /\ MaxRuns \in Nat

VARIABLES
  administrators,   \* the committed administrators, by the operator who made them
  file,             \* whose administrator's code the file holds
  lock,             \* lock_initial_super_admin
  step,             \* where a run is
  runs

vars == <<administrators, file, lock, step, runs>>

Init ==
  /\ administrators = {}
  /\ file = Nobody
  /\ lock = Nobody
  /\ step = [o \in Operators |-> "idle"]
  /\ runs = [o \in Operators |-> 0]

To(o, s) == step' = [step EXCEPT ![o] = s]
Unlock(o) == lock' = IF lock = o THEN Nobody ELSE lock

Run(o) ==
  /\ step[o] = "idle" /\ runs[o] < MaxRuns
  /\ runs' = [runs EXCEPT ![o] = @ + 1]
  /\ To(o, "asked")
  /\ UNCHANGED <<administrators, file, lock>>

\* Fault: the lock is left out.
LockNothing(o) == UNCHANGED lock
\* pg_advisory_xact_lock: held to the end of the transaction.
TakeLock(o) == lock = Nobody /\ lock' = o

Lock(o) ==
  /\ step[o] = "asked"
  /\ TakeLock(o)
  /\ To(o, "locked")
  /\ UNCHANGED <<administrators, file, runs>>

\* The user, the role and the code are inserted, not yet committed.
Insert(o) ==
  /\ step[o] = "locked"
  /\ administrators = {}
  /\ To(o, "inserted")
  /\ UNCHANGED <<administrators, file, lock, runs>>

\* BootstrapAlreadyInitialized.
Refuse(o) ==
  /\ step[o] = "locked"
  /\ administrators # {}
  /\ Unlock(o)
  /\ To(o, "idle")
  /\ UNCHANGED <<administrators, file, runs>>

\* O_CREAT with O_EXCL.
WriteCode(o) ==
  /\ step[o] = "inserted"
  /\ file = Nobody
  /\ file' = o
  /\ To(o, "written")
  /\ UNCHANGED <<administrators, lock, runs>>

\* TokenFileError: the file exists, or could not be written and is removed again.
CodeNotWritten(o) ==
  /\ step[o] = "inserted"
  /\ Unlock(o)
  /\ To(o, "idle")
  /\ UNCHANGED <<administrators, file, runs>>

Commit(o) ==
  /\ step[o] = "written"
  /\ administrators' = administrators \cup {o}
  /\ Unlock(o)
  /\ To(o, "idle")
  /\ UNCHANGED <<file, runs>>

\* Fault: the file is removed whether or not this run has written it.
CleanedAlways(o) == Nobody
Cleaned(o) == IF step[o] = "written" THEN Nobody ELSE file

\* A database error: roll back, and remove the file if this run has written it.
Fail(o) ==
  /\ step[o] \in {"locked", "inserted", "written"}
  /\ file' = Cleaned(o)
  /\ Unlock(o)
  /\ To(o, "idle")
  /\ UNCHANGED <<administrators, runs>>

\* The process is killed: the database rolls back, the file stays.
Crash(o) ==
  /\ step[o] # "idle"
  /\ Unlock(o)
  /\ To(o, "idle")
  /\ UNCHANGED <<administrators, file, runs>>

\* The database has committed, the command sees a broken connection.
CommitUnanswered(o) ==
  /\ step[o] = "written"
  /\ administrators' = administrators \cup {o}
  /\ file' = Cleaned(o)
  /\ Unlock(o)
  /\ To(o, "idle")
  /\ UNCHANGED runs

Next ==
  \E o \in Operators :
    \/ Run(o) \/ Lock(o) \/ Insert(o) \/ Refuse(o) \/ WriteCode(o) \/ CodeNotWritten(o)
    \/ Commit(o) \/ Fail(o) \/ Crash(o) \/ CommitUnanswered(o)

Spec == Init /\ [][Next]_vars

-----------------------------------------------------------------------------
(* Properties. *)

\* Every variable is well formed, and a run past the lock holds it.
TypeOK ==
  /\ administrators \subseteq Operators
  /\ file \in Operators \cup {Nobody}
  /\ runs \in [Operators -> 0 .. MaxRuns]
  /\ step \in [Operators -> {"idle", "asked", "locked", "inserted", "written"}]
  /\ lock \in Operators \cup {Nobody}
  /\ \A o \in Operators : step[o] \in {"locked", "inserted", "written"} <=> lock = o

\* bootstrap_super_admin: "Create exactly the first active Super Admin", with operators
\* racing an empty database, failing and running again.
OneFirstAdministrator == Cardinality(administrators) <= 1

\* The administrator's code stays in its file: no run that is refused, fails, is
\* killed or loses its answer later removes or overwrites what an earlier run wrote.
CodeKept == [][\A o \in administrators : file = o => file' = o]_vars

=============================================================================

----------------------------- MODULE UnitOfWork -----------------------------
(***************************************************************************)
(* What a SQLAlchemy session does to one row (app/db.py).                  *)
(*                                                                         *)
(* A session keeps the first copy of a row it loads: a later SELECT, even  *)
(* one FOR UPDATE, returns the same object with the values first read,     *)
(* because no query of this program asks to populate existing objects and  *)
(* sessions are created with expire_on_commit=False.  A flush writes only  *)
(* the columns whose value differs from the copy: a column set to the      *)
(* value it already had in a stale copy is not written.                    *)
(***************************************************************************)

\* Fault: every column of the copy is written back.
FlushWhole(stored, loaded, changed) == changed

\* The stored row after a flush of `changed`, an edited copy of `loaded`.
Flush(stored, loaded, changed) ==
  [c \in DOMAIN stored |-> IF changed[c] # loaded[c] THEN changed[c] ELSE stored[c]]

=============================================================================

--------------------------- MODULE MCCredentials ---------------------------
(* Small instances of Credentials for TLC. *)
EXTENDS Credentials, TLC

\* Requests are interchangeable.
RequestSymmetry == Permutations(Requests)

=============================================================================

------------------------------ MODULE MCLogin ------------------------------
(* Instances of Login for TLC. *)
EXTENDS Login, TLC

\* Neither requests nor passwords are told apart by anything but equality.
Symmetry == Permutations(Logins) \cup Permutations(Passwords)
=============================================================================

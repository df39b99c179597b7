---------------------------- MODULE MCUserSessions ----------------------------
(***************************************************************************)
(* Model checking of UserSessions: the ORM threads are interchangeable.      *)
(***************************************************************************)
EXTENDS UserSessions, TLC

Symmetry == Permutations(Workers)

=============================================================================

--------------------------- MODULE MCIdentityAccess ---------------------------
(***************************************************************************)
(* Model checking of IdentityAccess: recipients, custodians and workers are  *)
(* each interchangeable.                                                     *)
(***************************************************************************)
EXTENDS IdentityAccess, TLC

Symmetry == Permutations(Recipients) \cup Permutations(Custodians) \cup Permutations(Workers)

=============================================================================

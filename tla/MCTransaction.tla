---------------------------- MODULE MCTransaction ----------------------------
(***************************************************************************)
(* Model checking of Transaction.                                            *)
(***************************************************************************)
EXTENDS Transaction

=============================================================================

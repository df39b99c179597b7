---------------------------- MODULE MCRedaction ----------------------------
(* Two answers and a comment of three letters each. *)
EXTENDS Redaction, TLC

CONSTANTS w1, w2, r1, r2

Symmetry == Permutations({w1, w2}) \cup Permutations({r1, r2})
MCSelections == {<<Range_(0, 2)>>, <<Range_(0, 0), Range_(2, 2)>>, <<Range_(1, 1)>>, <<Range_(1, 2)>>}
=============================================================================

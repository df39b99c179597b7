----------------------------- MODULE MCTenants -----------------------------
(* The root and one more tenant: in use, or signed up and waiting. *)
EXTENDS Tenants, TLC

CONSTANTS w1, w2, r1, r2

Symmetry == Permutations({w1, w2}) \cup Permutations({r1, r2})

With(two) == [t \in Tids |-> IF t = 1 THEN [NoTenant EXCEPT !.active = TRUE, !.done = 1]
                             ELSE IF t = 2 THEN two ELSE NoTenant]
MCSeeds ==
    {With([NoTenant EXCEPT !.active = TRUE, !.sub = "a", !.host = "a", !.done = 1]),
     With([NoTenant EXCEPT !.sub = "a", !.signup = "a", !.token = TRUE])}
=============================================================================

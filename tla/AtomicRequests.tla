---------------------------- MODULE AtomicRequests ----------------------------
(***************************************************************************)
(* What a handler may rely on when it calls a function decorated with        *)
(* @transact: its work is kept as a whole and once, or not at all; an answer *)
(* tells which; a refused login leaves its audit entry and nothing else.      *)
(***************************************************************************)

CONSTANT Requests

VARIABLES
    outcome,    \* what the caller of each request knows
    kept        \* the effects that are in the database

Work(q) == <<q, "work">>
Audit(q) == <<q, "audit">>

Effects == {Work(q) : q \in Requests} \cup {Audit(q) : q \in Requests}

Init ==
    /\ outcome = [q \in Requests |-> "idle"]
    /\ kept = {}

Becomes(q, answer) == outcome' = [outcome EXCEPT ![q] = answer]

Ask(q) ==
    /\ outcome[q] = "idle"
    /\ Becomes(q, "waiting")
    /\ UNCHANGED kept

\* The work of a request and its refusal exclude each other, and neither happens twice.
Keep(q, e) ==
    /\ outcome[q] = "waiting"
    /\ {Work(q), Audit(q)} \cap kept = {}
    /\ e \in {Work(q), Audit(q)}
    /\ kept' = kept \cup {e}
    /\ UNCHANGED outcome

Answer(q) ==
    /\ outcome[q] = "waiting"
    /\ \/ Work(q) \in kept /\ Becomes(q, "done")
       \/ Audit(q) \in kept /\ Becomes(q, "refused")
       \/ {Work(q), Audit(q)} \cap kept = {} /\ Becomes(q, "failed")
    /\ UNCHANGED kept

\* The process stops: nobody will be told, but what was kept stays.
Stop ==
    /\ outcome' = [q \in Requests |-> IF outcome[q] = "waiting" THEN "lost" ELSE outcome[q]]
    /\ UNCHANGED kept

Next ==
    \/ \E q \in Requests : Ask(q) \/ Answer(q) \/ \E e \in Effects : Keep(q, e)
    \/ Stop

Spec == Init /\ [][Next]_<<outcome, kept>>

=============================================================================

------------------------------- MODULE MCUpkeep -------------------------------
(***************************************************************************)
(* Model checking of ReportLifecycle, Certificates and Upgrade, what the    *)
(* program does by itself from one day, or one release, to the next: part   *)
(* says which is under way, and the others keep still.                      *)
(*                                                                         *)
(* The report has a status of the administrator's, a substatus with a       *)
(* retention of its own and one without.  There are the root and another    *)
(* tenant, with a name each and one to spare.  Of the two tables to upgrade *)
(* one is in every schema, and the other goes with the last and may change  *)
(* its count before.                                                        *)
(***************************************************************************)
EXTENDS ReportLifecycle, TLC

CONSTANTS Tenants, Root, Hosts, Local, Home, Keys, Kinds, Life, Renewal, Notice, Days, MaxChanges,
          Tables, First, Target, Lifetime, Unchecked, MaxRows, MaxStops

VARIABLES part,
          rows, memory, snimap, day, job, order, changes, exposed, left, renamed, told, since, cut,
          script, was, db, torn, tmp, pc, work, counts, todo, stops

MCOwner == [s \in SubStatuses |-> "closed"]
MCSubTTL == [s \in SubStatuses |-> IF s = "archived" THEN 5 ELSE 0]
MCHome == [t \in Tenants |-> IF t = Root THEN "r" ELSE "a"]
MCKinds == {[t \in Tenants |-> IF t \in S THEN "acme" ELSE "plain"] : S \in {{}, {Root}, Tenants \ {Root}}}
MCLifetime == [t \in Tables |-> IF t = "a" THEN 1 .. 9 ELSE {2, 3}]
MCUnchecked == {<<2, "b">>}

Symmetry == Permutations(Workers)

Tls == INSTANCE Certificates WITH db <- rows, Horizon <- Days, MaxOps <- MaxChanges, ops <- changes
Starting == INSTANCE Upgrade

ASSUME UpkeepAssumption == Tls!CertificatesAssumption /\ Starting!UpgradeAssumption

tls == <<rows, memory, snimap, day, job, order, changes, exposed, left, renamed, told, since, cut>>
starting == <<script, was, db, torn, tmp, pc, work, counts, todo, stops>>
allVars == <<part, vars, tls, starting>>

\* What a script does to a table that is not migrated makes no difference.
MCInit ==
    /\ part \in {"lifecycle", "tls", "starting"}
    /\ part # "tls" => rows = [t \in Tenants |-> Tls!FirstRow(t, "plain")]
    /\ part # "starting" => /\ was = Starting!NoDatabase
                            /\ script = [v \in Starting!Versions |-> [t \in Tables |-> "copies"]]
    /\ Init /\ Tls!Init /\ Starting!Init
    /\ \A v \in Starting!Versions, t \in Tables : t \notin Starting!Migrated(v) => script[v][t] = "copies"

MCNext ==
    \/ part = "lifecycle" /\ Next /\ UNCHANGED <<part, tls, starting>>
    \/ part = "tls" /\ Tls!Next /\ UNCHANGED <<part, vars, starting>>
    \/ part = "starting" /\ Starting!Next /\ UNCHANGED <<part, vars, tls>>

\* The fairness of each component, while it is the one under way.
MCFairness ==
    /\ WF_vars(part = "lifecycle" /\ SweepBegin)
    /\ SF_vars(part = "lifecycle" /\ SweepCommit)
    /\ WF_starting(part = "starting" /\ Starting!Run)

MCSpec == MCInit /\ [][MCNext]_allVars /\ MCFairness

\* Certificates: tenants are served as they are configured, and no certificate ends
\* without a warning.
CertificatesServed == part = "tls" => Tls!ServedAsConfigured /\ Tls!NeverEndsUnannounced

\* Upgrade: the database is the old one or the whole of the new one.
UpgradedAsAWhole == part = "starting" => Starting!UpgradedAsAWhole

\* Upgrade: the program comes up in the end.
ComesUp == part = "starting" => Starting!ComesUp

=============================================================================

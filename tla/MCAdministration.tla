--------------------------- MODULE MCAdministration ---------------------------
(***************************************************************************)
(* Model checking of Forms and of Accounts, what administrators change, one *)
(* at a time: part says which, and the other keeps still.                   *)
(*                                                                         *)
(* Forms has two tenants.  The root has the identity template (1) and a     *)
(* group (2) with a choice (3) and a voice question (4) shown on its first  *)
(* option; the other tenant a questionnaire with a choice (5), a group (6)  *)
(* with a question (7) shown on it and, in some cases, a reference (8).     *)
(* Accounts has an administrator of the root tenant and one of another.     *)
(***************************************************************************)
EXTENDS Accounts, Sequences, TLC

CONSTANTS ra, ta, Tenants, Fields, Options, Questionnaires, Identity, MaxNesting, MaxDepth, Seeds,
          MaxEdits

VARIABLES part, db, editing, fresh, edits, crossed, moved

Symmetry == Permutations(Workers) \cup Permutations(Passwords)

Editor == INSTANCE Forms WITH MaxOps <- MaxEdits, ops <- edits, busy <- editing, raced <- crossed

ASSUME AdministrationAssumption == Editor!FormsAssumption

Question(t, i, q, g, m, v) == [tid |-> t, inst |-> i, form |-> q, group |-> g, tmpl |-> m, voice |-> v]
WithRest(qs) ==
    [n \in Fields |-> IF n \in DOMAIN qs THEN qs[n] ELSE Question(0, "none", 0, 0, 0, FALSE)]

Templates == <<Question(1, "template", 0, 0, 0, FALSE), Question(1, "template", 0, 0, 0, FALSE),
               Question(1, "instance", 0, 2, 0, FALSE), Question(1, "instance", 0, 2, 0, TRUE)>>
Mine == <<Question(2, "instance", 1, 0, 0, FALSE), Question(2, "instance", 1, 0, 0, FALSE),
          Question(2, "instance", 0, 6, 0, FALSE)>>
Seed(refs) ==
    LET qs == Templates \o Mine \o refs IN
    [field |-> WithRest(qs),
     option |-> [o \in Options |-> IF o = 1 THEN 3 ELSE IF o = 2 THEN 5 ELSE 0],
     trigger |-> {<<1, 4>>, <<2, 7>>},
     form |-> [q \in Questionnaires |-> IF q = 1 THEN 2 ELSE 0],
     context |-> [t \in Tenants |-> [main |-> IF t = 2 THEN 1 ELSE 0, extra |-> 0]]]

MCSeeds == {Seed(<<>>), Seed(<<Question(2, "reference", 1, 0, 2, FALSE)>>),
            Seed(<<Question(2, "reference", 0, 7, 2, FALSE)>>)}

MCHome == (ra :> 1) @@ (ta :> 2)

forms == <<db, editing, fresh, edits, crossed, moved>>
allVars == <<part, vars, forms>>

MCInit ==
    /\ part \in {"forms", "accounts"}
    /\ Editor!Init /\ Init
    /\ part # "forms" => db = CHOOSE d \in Seeds : TRUE
    /\ part # "accounts" => ~enc[Root]

MCNext ==
    \/ part = "forms" /\ Editor!Next /\ UNCHANGED <<part, vars>>
    \/ part = "accounts" /\ Next /\ UNCHANGED <<part, forms>>

MCSpec == MCInit /\ [][MCNext]_allVars

\* Forms: groups nest, the identity is asked once, tenants use their own rows, and
\* where a question asks for a recording the microphone may be used.
FormsSound == part = "forms" => Editor!QuestionnairesSound /\ Editor!VoiceIsGranted

\* Forms: a copy of a questionnaire looks the same.
CopyLooksTheSame == Editor!CopyLooksTheSame

=============================================================================

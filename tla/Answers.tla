------------------------------- MODULE Answers -------------------------------
(***************************************************************************)
(* The answers to a questionnaire, and what is decided by them.            *)
(*                                                                         *)
(* The options chosen in earlier fields show or hide later ones.  The      *)
(* client clears the answers of what it hides after every edit; the server *)
(* does so again, on whatever it is sent, before it lets answers stop a    *)
(* report, choose its recipients or give it a score.                       *)
(*                                                                         *)
(* A field is a number, in the order of the traversal (a group before its  *)
(* children); an option is a pair of its field and a number; the answers   *)
(* are the set of the options chosen.  Texts and dates decide nothing and  *)
(* are left out, and so are the second and later entries of a field.       *)
(***************************************************************************)
EXTENDS Naturals, FiniteSets, FiniteSetsExt

CONSTANTS N,            \* the number of fields
          Parent,       \* the group of each field, or 0
          Identity,     \* the fields that ask for the identity
          Single,       \* fields with one answer at most; groups have none
          Options,      \* the options the questionnaire defines
          Unknown,      \* options it does not
          Blocks,       \* options that stop the submission
          Recipients,
          Contexts,     \* their recipients, those always chosen (mandatory), whether
                        \* all are at first (all) and may be changed (selection)
          Sends,        \* the recipients each option chooses
          Points, Multiplier, Medium, High,
          Triggers      \* the triggers a field may be given

Fields == 1 .. N

\* A group comes before the fields in it, and the fields a field depends on come before
\* it; the mandatory receivers are receivers of the context.
AnswersAssumption ==
    /\ N \in Nat
    /\ \A f \in Fields : Parent[f] \in 0 .. f - 1
    /\ \A o \in Options : o[1] \in Fields
    /\ Options \cap Unknown = {}
    /\ \A f \in Fields : \A ts \in Triggers[f] : \A t \in ts : t.option[1] \in 1 .. f - 1
    /\ \A c \in Contexts : c.mandatory \subseteq c.receivers

\* The triggers of each field: options of earlier ones, each enough by itself or
\* not.
Forms == {t \in [Fields -> UNION {Triggers[f] : f \in Fields}] :
            \A f \in Fields : t[f] \in Triggers[f]}

VARIABLES form, context, identity, answers, selected,
          report    \* what was sent and what the server made of it

vars == <<form, context, identity, answers, selected, report>>

OptionsOf(f) == {o \in Options : o[1] = f}

\* A field and what is inside of it.
Inside(f) == {g \in Fields : g = f \/ Parent[g] = f \/ (Parent[g] # 0 /\ Parent[Parent[g]] = f)}

\* is_field_triggered: on are the fields above that are enabled.
Met(triggers, ans) ==
    \/ triggers = {}
    \/ \E t \in triggers : t.option \in ans /\ t.sufficient
    \/ \A t \in triggers : t.option \in ans

Triggered(f, ans, on) ==
    /\ Parent[f] = 0 \/ Parent[f] \in on
    /\ f \in Identity => identity
    /\ Met(form[f], ans)

\* A field that is not triggered loses its answers, and those inside of it, before the
\* next one is looked at.
Visited(f, before) ==
    IF Triggered(f, before.ans, before.on)
    THEN [before EXCEPT !.on = @ \cup {f}]
    ELSE [before EXCEPT !.ans = {o \in @ : o[1] \notin Inside(f)}]

\* One traversal
Pass(ans) ==
    LET walk[f \in 0 .. N] ==
          IF f = 0 THEN [ans |-> ans, on |-> {}] ELSE Visited(f, walk[f - 1])
    IN walk[N]

\* Mutant: the answers of a hidden field are left where they are.
AsSent(ans) == ans

\* db_clear_disabled_answers of the server.
Reconciled(ans) == Pass(ans).ans

\* evaluate_receivers_override: the last field that chooses any.
Override(ans) ==
    LET choosing == {f \in Fields : \E o \in ans : o[1] = f /\ Sends[o] # {}}
    IN IF choosing = {} THEN {}
       ELSE UNION {Sends[o] : o \in {x \in ans : x[1] = Max(choosing)}}

Blocked(ans) == ans \cap Blocks # {}

Score(ans) ==
    LET score == MapThenSumSet(LAMBDA o : Points[o], ans)
                 * FoldSet(LAMBDA o, m : m * Multiplier[o], 1, ans)
    IN IF score < Medium THEN 0 ELSE IF score < High THEN 1 ELSE 2

\* db_validate_submission_receivers.
Default(c) == IF c.all THEN c.receivers ELSE c.mandatory

Allowed(c, ans, requested) ==
    IF Override(ans) # {} THEN requested = Override(ans)
    ELSE IF c.selection THEN c.mandatory \subseteq requested /\ requested \subseteq c.receivers
    ELSE requested = Default(c)

\* db_validate_submission_answers and what follows it.
Accepts(c, sent, requested) ==
    /\ sent \cap Unknown = {}
    /\ LET counted == Reconciled(sent) IN ~Blocked(counted) /\ Allowed(c, counted, requested)
    /\ requested # {}

-----------------------------------------------------------------------------
NoReport == [client |-> "none"]

Init ==
    /\ form \in Forms /\ context \in Contexts
    /\ identity = FALSE
    /\ answers = {}
    /\ selected = Default(context)
    /\ report = NoReport

\* The whistleblower ticks or clears an option of a field on show.
Edit(o) ==
    /\ report = NoReport /\ o \in Options
    /\ o[1] \in Pass(answers).on
    /\ LET others == IF o[1] \in Single THEN answers \ OptionsOf(o[1]) ELSE answers \ {o}
       IN answers' = Pass(IF o \in answers THEN answers \ {o} ELSE others \cup {o}).ans
    /\ UNCHANGED <<form, context, identity, selected, report>>

\* The identity is given or withheld; the fields are looked at again when the
\* report is sent.
ProvideIdentity ==
    /\ report = NoReport
    /\ identity' = ~identity
    /\ UNCHANGED <<form, context, answers, selected, report>>

Select(r) ==
    /\ report = NoReport /\ context.selection
    /\ r \in context.receivers \ context.mandatory
    /\ selected' = IF r \in selected THEN selected \ {r} ELSE selected \cup {r}
    /\ UNCHANGED <<form, context, identity, answers, report>>

Send(client, sent, requested) ==
    /\ report = NoReport
    /\ report' = [client |-> client, sent |-> sent, receivers |-> requested,
                  accepted |-> Accepts(context, sent, requested),
                  score |-> Score(Reconciled(sent \cap Options))]
    /\ UNCHANGED <<form, context, identity, answers, selected>>

\* completeSubmission and submit of the client.
Complete ==
    LET sent == Pass(answers).ans
        requested == IF Override(sent) # {} THEN Override(sent) ELSE selected
    IN ~Blocked(sent) /\ requested # {} /\ Send("official", sent, requested)

\* Any other client: answers to fields it was never shown, options that are not.  It
\* need not have touched the official one before.
SendAny ==
    /\ report = NoReport /\ answers = {} /\ selected = Default(context)
    /\ \E sent \in SUBSET Options, unknown \in SUBSET Unknown, requested \in SUBSET Recipients :
         /\ \A f \in Single : Cardinality(sent \cap OptionsOf(f)) <= 1
         /\ Send("other", sent \cup unknown, requested)

Next ==
    \/ \E o \in Options : Edit(o)
    \/ ProvideIdentity
    \/ \E r \in Recipients : Select(r)
    \/ Complete
    \/ SendAny

Spec == Init /\ [][Next]_vars

-----------------------------------------------------------------------------
(* Properties *)

\* What a questionnaire shows is a set of fields that agrees with itself: a
\* field is in it exactly if its group is and what triggers it was chosen in
\* fields that are in it.
Visible(on, ans) ==
    LET seen == {o \in ans : o[1] \in on}
    IN \A f \in Fields : f \in on <=>
         /\ Parent[f] \in on \cup {0}
         /\ f \in Identity => identity
         /\ Met(form[f], seen)

\* The server decides by the answers a whistleblower could be shown, and there is
\* only one such set: no client gets a hidden answer to count.
OnlyVisibleCounts ==
    report # NoReport /\ report.sent \cap Unknown = {} =>
        \A on \in SUBSET Fields : Visible(on, report.sent) =>
            LET seen == {o \in report.sent : o[1] \in on}
            IN /\ report.score = Score(seen)
               /\ report.accepted => ~Blocked(seen) /\ Allowed(context, seen, report.receivers)

\* What the client lets a whistleblower send the server takes, whatever was
\* ticked and cleared before.
OfficialClientAccepted == report # NoReport /\ report.client = "official" => report.accepted
=============================================================================

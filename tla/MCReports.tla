------------------------------ MODULE MCReports ------------------------------
(***************************************************************************)
(* Model checking of ReportAccess, of Answers and of Downloads, one at a    *)
(* time: part says which, and the others keep still.                        *)
(*                                                                         *)
(* In ReportAccess the recipients differ in privileges, so that only the    *)
(* workers and the files are interchangeable.  The questionnaires of        *)
(* Answers have a checkbox, a group with a checkbox inside, and a choice    *)
(* that several earlier options may show; the first two fields ask for no   *)
(* identity.  The downloads are of one file stored before and of one that   *)
(* is being written; the workers stand for the downloads.                   *)
(***************************************************************************)
EXTENDS ReportAccess, TLC

CONSTANTS N, Parent, Identity, Single, Options, Unknown, Blocks, Sends, Contexts,
          Points, Multiplier, Triggers, Addressees, Medium, High, x, y,
          Stored, Old, Frames, MaxFaults, None

VARIABLES part,
          form, context, identity, answers, selected, outcome,
          file, writer, written, cut, down, lock, queue, faults

Symmetry == Permutations(Workers) \cup Permutations(Files)

MCParent == <<0, 0, 2, 0>>
MCOptions == {<<1, 1>>, <<1, 2>>, <<3, 1>>, <<3, 2>>, <<4, 1>>, <<4, 2>>}
MCUnknown == {<<4, 9>>}
MCBlocks == {<<3, 2>>}
MCSends == [o \in MCOptions |->
    CASE o = <<1, 2>> -> {x} [] o = <<3, 1>> -> {y} [] o = <<4, 2>> -> {x, y} [] OTHER -> {}]
MCContexts == {[all |-> FALSE, selection |-> FALSE, receivers |-> {x}, mandatory |-> {x}],
               [all |-> TRUE, selection |-> TRUE, receivers |-> {x, y}, mandatory |-> {x}],
               [all |-> FALSE, selection |-> TRUE, receivers |-> {x, y}, mandatory |-> {}]}
MCPoints == [o \in MCOptions |-> IF o \in {<<1, 1>>, <<4, 1>>} THEN 2 ELSE 0]
MCMultiplier == [o \in MCOptions |-> IF o = <<3, 1>> THEN 2 ELSE 1]

Single1(os) == {{}} \cup {{[option |-> o, sufficient |-> TRUE]} : o \in os}
Pairs(os) == {{[option |-> o, sufficient |-> b], [option |-> q, sufficient |-> FALSE]} :
                o, q \in os, b \in BOOLEAN}
MCTriggers == <<{{}}, Single1({<<1, 1>>}), Single1({<<1, 1>>, <<1, 2>>}),
                Single1({<<3, 1>>}) \cup Pairs({<<1, 2>>, <<3, 1>>})>>

Asking == INSTANCE Answers WITH report <- outcome, Recipients <- Addressees

Reading == INSTANCE Downloads WITH
    Files <- Stored, Downloads <- Workers, row <- file

ASSUME ReportsAssumption == Reading!DownloadsAssumption /\ Asking!AnswersAssumption

asking == <<form, context, identity, answers, selected, outcome>>
reading == <<file, writer, written, cut, down, lock, queue, faults>>
allVars == <<part, vars, asking, reading>>

MCInit ==
    /\ part \in {"access", "asking", "downloads"}
    /\ Init /\ Asking!Init /\ Reading!Init
    /\ part # "access" => keyed = [r \in Recipients |-> TRUE]
    /\ part # "asking" => /\ form = CHOOSE f \in Asking!Forms : TRUE
                          /\ context = CHOOSE c \in Contexts : TRUE

MCNext ==
    \/ part = "access" /\ Next /\ UNCHANGED <<part, asking, reading>>
    \/ part = "asking" /\ Asking!Next /\ UNCHANGED <<part, vars, reading>>
    \/ part = "downloads" /\ Reading!Next /\ UNCHANGED <<part, vars, asking>>

MCSpec == MCInit /\ [][MCNext]_allVars

\* Answers: what the server decides by is what a whistleblower could be shown, and
\* what the official client lets through the server accepts.
AnswersAgree == part = "asking" => Asking!OnlyVisibleCounts /\ Asking!OfficialClientAccepted

\* Downloads: the heavy downloads of a user take turns.
OneAtATime == part = "downloads" => Reading!OneAtATime

\* Downloads: what was complete when it was opened is downloaded whole.
ServedWhole == part = "downloads" => Reading!ServedWhole

=============================================================================

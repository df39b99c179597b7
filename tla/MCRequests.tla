------------------------------ MODULE MCRequests ------------------------------
(***************************************************************************)
(* Model checking of Submission, IdentityAccess, Redaction and Notification, *)
(* the requests on a report and what they write, one at a time: part says   *)
(* which, and the others keep still.  Recipients, custodians and workers    *)
(* are each interchangeable; the same values are the sessions, receipts and *)
(* schemas of Submission, the rows of Redaction and the comments of         *)
(* Notification.                                                            *)
(***************************************************************************)
EXTENDS IdentityAccess, TLC

CONSTANTS Sessions, Receipts, Forms, Files, None, Retries, MaxCalls, MaxStored,
          Answers, Comments, Positions, Rows, Selections, MaxOps,
          News, Whistleblower, MaxTime

VARIABLES part,
          role, held, counter, reports, archive, lock, txs, calls, stored, freed, orphans,
          clear, row, busy, redacted, ops, stale,
          now, rtip, comment, job, mailed, overlap, failed

Symmetry == Permutations(Recipients) \cup Permutations(Custodians) \cup Permutations(Workers)

Filing == INSTANCE Submission WITH tx <- txs
Redact == INSTANCE Redaction
Notify == INSTANCE Notification WITH Comments <- News

ASSUME RequestsAssumption == Filing!SubmissionAssumption /\ Redact!RedactionAssumption

MCSelections == {<<[start |-> 0, end |-> 2]>>,
                 <<[start |-> 0, end |-> 0], [start |-> 2, end |-> 2]>>,
                 <<[start |-> 1, end |-> 1]>>, <<[start |-> 1, end |-> 2]>>}

filing == <<role, held, counter, reports, archive, freed, orphans, lock, txs, calls, stored>>
redaction == <<clear, row, busy, redacted, ops, stale>>
notification == <<now, rtip, comment, job, mailed, overlap, failed>>
allVars == <<part, vars, filing, redaction, notification>>

MCInit ==
    /\ part \in {"identity", "filing", "redaction", "notification"}
    /\ Init /\ Filing!Init /\ Redact!Init /\ Notify!Init
    /\ part # "filing" => role = [s \in Sessions |-> "whistleblower"]
    /\ part # "identity" =>
         account = [c \in Custodians |-> "enabled"] /\ keyed = [c \in Custodians |-> TRUE]

MCNext ==
    \/ part = "identity" /\ Next /\ UNCHANGED <<part, filing, redaction, notification>>
    \/ part = "filing" /\ Filing!Next /\ UNCHANGED <<part, vars, redaction, notification>>
    \/ part = "redaction" /\ Redact!Next /\ UNCHANGED <<part, vars, filing, notification>>
    \/ part = "notification" /\ Notify!Next /\ UNCHANGED <<part, vars, filing, redaction>>

MCSpec == MCInit /\ [][MCNext]_allVars

\* Submission: numbers follow each other, but for those given back.
NumbersInOrder == Filing!NumbersInOrder

\* Submission: what is stored is what was submitted, however often it was run, and
\* the schema it refers to outlives the daily cleaning.
FiledWhole == part = "filing" => Filing!SchemaKept /\ Filing!StoredAsSubmitted

\* Redaction: where no request wrote over another, a redaction is never undone and the
\* rows say what is lost and what is left.
RedactionsAreKept == part = "redaction" => Redact!RedactionsAreKept

\* Notification: nobody misses a comment, but while the job is at work or fails.
NobodyMissesNews == part = "notification" => Notify!NobodyMissesNews

=============================================================================

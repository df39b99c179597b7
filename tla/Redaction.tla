------------------------------ MODULE Redaction ------------------------------
(***************************************************************************)
(* Masking and redaction of a report.  A masking hides ranges of an answer *)
(* or a comment from recipients without the permission and from the        *)
(* whistleblower; a redaction destroys ranges that are masked.  The answers *)
(* of a questionnaire are stored together.                                 *)
(*                                                                         *)
(* A redaction reads the report in one transaction and writes what it made *)
(* of it in another.                                                       *)
(***************************************************************************)
EXTENDS Ranges, FiniteSets

CONSTANTS Answers,      \* of the one questionnaire
          Comments,
          Positions,    \* of what each of them says
          Rows,         \* identifiers of maskings, chosen by the clients
          Selections,   \* what a client may select: lists of ranges
          Workers,
          MaxOps        \* bounds the model

VARIABLES
    clear,      \* what is left of each answer and comment
    row,        \* the maskings
    busy,       \* the request of each worker
    redacted,   \* what each answer and comment lost in a redaction that was committed
    ops,        \* bounds the model
    stale       \* whether a request wrote what another had changed since it was read

vars == <<clear, row, busy, redacted, ops, stale>>

\* The selections of the client come sorted.
RedactionAssumption == \A s \in Selections : s \in Lists /\ Sorted(s)

Pieces == Answers \cup Comments
NoRow == [of |-> "none", temporary |-> << >>, permanent |-> << >>]
Unoccupied == [op |-> "idle"]
There(r) == row[r] # NoRow

\* What is read and written together with a piece.
Stored(p) == IF p \in Answers THEN Answers ELSE {p}

Init ==
    /\ clear = [p \in Pieces |-> Positions]
    /\ row = [r \in Rows |-> NoRow]
    /\ busy = [w \in Workers |-> Unoccupied]
    /\ redacted = [p \in Pieces |-> {}]
    /\ ops = 0
    /\ stale = FALSE

Begin(w, request) ==
    /\ busy[w] = Unoccupied /\ ops < MaxOps
    /\ busy' = [busy EXCEPT ![w] = request]
    /\ ops' = ops + 1
    /\ UNCHANGED <<clear, row, redacted, stale>>

Done(w) == busy' = [busy EXCEPT ![w] = Unoccupied]

\* create_redaction.  Nothing keeps two maskings off the same piece.
Create(w) ==
    /\ busy[w] = Unoccupied /\ ops < MaxOps
    /\ \E r \in Rows, p \in Pieces, s \in Selections :
         /\ ~There(r)
         /\ row' = [row EXCEPT ![r] = [of |-> p, temporary |-> s, permanent |-> << >>]]
    /\ ops' = ops + 1
    /\ UNCHANGED <<clear, busy, redacted, stale>>

\* update_redaction, to mask more or less: the row is read before the lock is held.
MaskBegin(w) ==
    \E r \in Rows, s \in Selections \cup {<< >>} :
      There(r) /\ Begin(w, [op |-> "mask", row |-> r, was |-> row[r], new |-> Left(s, row[r].permanent)])

\* A row that is gone meanwhile is an error.
MaskCommit(w) ==
    LET b == busy[w] IN
    /\ b.op = "mask"
    /\ row' = IF ~There(b.row) THEN row
              ELSE IF b.new = << >> /\ b.was.permanent = << >> THEN [row EXCEPT ![b.row] = NoRow]
              ELSE [row EXCEPT ![b.row].temporary = IF b.new = b.was.temporary THEN @ ELSE b.new]
    /\ stale' = (stale \/ row[b.row] # b.was)
    /\ Done(w)
    /\ UNCHANGED <<clear, redacted, ops>>

\* RTipRedactionCollection.put reads the report, with what the redactor may see.
RedactBegin(w) ==
    \E r \in Rows, s \in Selections :
      /\ There(r)
      /\ Within(row[r].temporary, s)
      /\ Begin(w, [op |-> "redact", row |-> r, was |-> row[r], clear |-> clear, new |-> s])

\* Mutant: the ranges redacted before are forgotten.
MutPermanent(b) == b.new

Permanent(b) == Merged(b.was.permanent, b.new)

\* What is stored with the piece is written as it was read.
RedactCommit(w) ==
    LET b == busy[w]
        p == b.was.of
        written(q) == IF q = p THEN Masked(b.clear[q], Permanent(b)) ELSE b.clear[q]
    IN
    /\ b.op = "redact"
    /\ There(b.row)
    /\ row' = [row EXCEPT ![b.row] =
                 [of |-> @.of, temporary |-> Left(b.was.temporary, b.new), permanent |-> Permanent(b)]]
    /\ clear' = [q \in Pieces |-> IF q \in Stored(p) THEN written(q) ELSE clear[q]]
    /\ redacted' = [redacted EXCEPT ![p] = @ \cup Covered(b.new)]
    /\ stale' = (stale \/ row[b.row] # b.was \/ \E q \in Stored(p) : clear[q] # b.clear[q])
    /\ Done(w)
    /\ UNCHANGED ops

\* A row that is gone, or the session that ends.
Abandon(w) ==
    /\ busy[w].op = "redact"
    /\ Done(w)
    /\ UNCHANGED <<clear, row, redacted, ops, stale>>

\* The text in which a masked piece is shown to those without the permission.
Shown(p) == {i \in clear[p] : \A r \in Rows : row[r].of = p => i \notin Covered(row[r].temporary)}

Next == \E w \in Workers :
          \/ Create(w) \/ MaskBegin(w) \/ MaskCommit(w)
          \/ RedactBegin(w) \/ RedactCommit(w) \/ Abandon(w)

Spec == Init /\ [][Next]_vars

-----------------------------------------------------------------------------
\* What was redacted never comes back, for anybody.
NothingComesBack == \A p \in Pieces : redacted[p] \cap clear[p] = {}

\* While no request wrote over another, what was redacted does not come back,
\* nothing else is lost, and the ranges of the rows say what is lost and what is left
\* to redact, also where a piece is masked twice, and more or less in between.
RedactionsAreKept ==
    stale \/ \A p \in Pieces :
      /\ clear[p] = Positions \ redacted[p]
      /\ \A r \in Rows : Covered(row[r].temporary) \cap Covered(row[r].permanent) = {}
      /\ redacted[p] = UNION {Covered(row[r].permanent) : r \in {r \in Rows : row[r].of = p}}
=============================================================================

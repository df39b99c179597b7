------------------------------ MODULE Submission ------------------------------
(***************************************************************************)
(* How a report is numbered, filed under the schema it was answered on     *)
(* and stored, by transactions of several whistleblowers that read outside *)
(* of any lock, wait for each other, and are run again from their start    *)
(* when the lock is not obtained.                                          *)
(*                                                                         *)
(* A transaction reads in autocommit until its first write; from then on   *)
(* it holds the only write lock of the database (orm.py; see Transaction). *)
(* The request it works on, and the session with the files uploaded for    *)
(* the report, are objects in memory: what a try changes in them is not    *)
(* rolled back.  Whistleblowers submit reports, recipients insert them.    *)
(***************************************************************************)
EXTENDS Integers, FiniteSets

CONSTANTS
    Sessions,      \* sessions of whistleblowers and recipients
    Files,         \* files they upload
    Receipts,      \* receipts they choose
    Forms,         \* schemas the administrator puts in force, by their hash
    None,
    Retries,       \* _ORM_TRANSACTION_RETRIES
    MaxCalls,      \* bound: requests
    MaxStored      \* bound: report rows ever flushed, kept or not

SubmissionAssumption == None \notin Sessions

VARIABLES
    role,       \* who each session is of
    held,       \* the files of each session
    counter,    \* the Config row counter_submissions
    reports,    \* the InternalTip rows, with what hangs from them
    archive,    \* the ArchivedSchema rows, by hash
    lock,       \* the session whose transaction may write, or None
    tx,         \* the transaction of each session, or None
    calls,      \* requests made so far
    stored,     \* report rows flushed so far: the last identifier
    freed,      \* numbers given back by the reports deleted so far
    orphans     \* answers kept though a cleaning ran while they were on their way

database == <<counter, reports, archive, freed, orphans>>
bounds == <<calls, stored>>
vars == <<role, held, database, lock, tx, bounds>>

-----------------------------------------------------------------------------
Ids == {r.id : r \in reports}

Report == [id : Nat, by : Sessions, number : Nat, receipt : Receipts, key : Receipts,
           given : BOOLEAN, identity : BOOLEAN, answers : SUBSET Forms,
           uploaded : SUBSET Files, files : SUBSET Files, again : BOOLEAN]

Tx == [op : {"submit", "insert", "additional"}, uploaded : SUBSET Files, again : BOOLEAN,
       step : {"form", "archive", "schema", "number", "store", "commit"},
       receipt : Receipts \cup {None}, identity : {"none", "given", "taken"},
       report : Nat, form : Forms \cup {None}, number : Nat, row : Report \cup {None},
       adds : BOOLEAN, cleaned : BOOLEAN, tries : Nat]

Asked == [op |-> "submit", uploaded |-> {}, again |-> FALSE, step |-> "form", receipt |-> None, identity |-> "none", report |-> 0,
          form |-> None, number |-> 0, row |-> None, adds |-> FALSE, cleaned |-> FALSE, tries |-> 0]

Init ==
    /\ role \in [Sessions -> {"whistleblower", "receiver"}]
    /\ held = [s \in Sessions |-> {}]
    /\ counter = 0
    /\ reports = {}
    /\ archive = {}
    /\ lock = None
    /\ tx = [s \in Sessions |-> None]
    /\ calls = 0
    /\ stored = 0
    /\ freed = {}
    /\ orphans = {}

-----------------------------------------------------------------------------
(* The requests *)

Call(s, t) ==
    /\ tx[s] = None
    /\ calls < MaxCalls
    /\ tx' = [tx EXCEPT ![s] = t]
    /\ calls' = calls + 1
    /\ UNCHANGED <<role, held, database, lock, stored>>

\* SubmissionAttachment, InsertionAttachment: a file joins the list of the session.
Upload(s, f) ==
    /\ \A t \in Sessions : f \notin held[t]
    /\ \A t \in Sessions : tx[t] # None => f \notin tx[t].uploaded
    /\ \A r \in reports : f \notin r.files
    /\ calls < MaxCalls
    /\ held' = [held EXCEPT ![s] = @ \cup {f}]
    /\ calls' = calls + 1
    /\ UNCHANGED <<role, database, lock, tx, stored>>

Submit(s, receipt, identity) ==
    /\ role[s] = "whistleblower"
    /\ Call(s, [Asked EXCEPT !.receipt = receipt, !.identity = identity, !.uploaded = held[s]])

\* get_insertion_options: the files left over by a former composition are dropped,
\* those of one that is being entered too.
Compose(s) ==
    /\ role[s] = "receiver"
    /\ held[s] # {}
    /\ calls < MaxCalls
    /\ held' = [held EXCEPT ![s] = {}]
    /\ tx' = [tx EXCEPT ![s] = IF @ = None THEN None ELSE [@ EXCEPT !.again = TRUE]]
    /\ calls' = calls + 1
    /\ UNCHANGED <<role, database, lock, stored>>

\* create_inserted_report: a report entered by a recipient gives no identity.
Insert(s, receipt) ==
    /\ role[s] = "receiver"
    /\ Call(s, [Asked EXCEPT !.op = "insert", !.receipt = receipt, !.uploaded = held[s]])

\* The additional questionnaire, answered on a report that is there.
Additional(s, r) ==
    Call(s, [Asked EXCEPT !.op = "additional", !.report = r.id])

-----------------------------------------------------------------------------
(* One try of a transaction *)

At(s, step) == tx[s] # None /\ tx[s].step = step
Free(s) == lock \in {None, s}

Goes(s, t) ==
    /\ tx' = [tx EXCEPT ![s] = t]
    /\ UNCHANGED <<role, held, database, bounds>>

\* The transaction is rolled back.
Leaves(s, t) ==
    /\ lock' = IF lock = s THEN None ELSE lock
    /\ Goes(s, t)

\* A closed gate, answers or recipients that are not valid, a recipient deleted
\* meanwhile: the caller is given an error, at any point before the commit.
TurnDown(s) == tx[s] # None /\ Leaves(s, None)

ReadForm(s, form) ==
    /\ At(s, "form")
    /\ Goes(s, [tx[s] EXCEPT !.form = form, !.step = "archive"])
    /\ UNCHANGED lock

AfterSchema(s) == IF tx[s].op = "additional" THEN "commit" ELSE "number"

\* db_archive_questionnaire_schema: one count decides whether there is a row to add.
LookUpSchema(s) ==
    /\ At(s, "archive")
    /\ Goes(s, [tx[s] EXCEPT !.step = IF tx[s].form \in archive THEN AfterSchema(s) ELSE "schema"])
    /\ UNCHANGED lock

\* The row goes out with the next query.  Its hash is the primary key.
AddSchema(s) ==
    /\ At(s, "schema")
    /\ Free(s)
    /\ IF tx[s].form \in archive
       THEN Leaves(s, None)
       ELSE /\ lock' = s
            /\ Goes(s, [tx[s] EXCEPT !.adds = TRUE, !.step = AfterSchema(s)])

ReadCounter(s) ==
    /\ At(s, "number")
    /\ Goes(s, [tx[s] EXCEPT !.number = counter + 1, !.step = "store"])
    /\ UNCHANGED lock

\* Mutant: no constraint on the numbers.
ReceiptUnique(s) == \A r \in reports : r.receipt # tx[s].receipt

Unique(s) == \A r \in reports : r.receipt # tx[s].receipt /\ r.number # tx[s].number

\* The first try moved the identity out of the answers of the request; to look it
\* up there again is an error.
IdentityThere(s) == tx[s].identity # "taken"

\* db_set_receipt_hash and the keys: the receipt finds the report and opens it.
Row(s, id) ==
    [id |-> id, by |-> s, number |-> tx[s].number, receipt |-> tx[s].receipt, key |-> tx[s].receipt,
     given |-> tx[s].identity # "none", identity |-> tx[s].identity = "given",
     answers |-> {tx[s].form}, uploaded |-> tx[s].uploaded, files |-> held[s],
     again |-> tx[s].again]

\* A file has one row, by the name of its temporary file.
FilesFree(s) == \A r \in reports : r.files \cap held[s] = {}

\* The identity is taken out of the answers of the request.
Filed(s, id) ==
    [tx[s] EXCEPT !.step = "commit", !.row = Row(s, id),
                  !.identity = IF @ = "given" THEN "taken" ELSE @]

\* The counter and the report are flushed, and the session of a recipient is rid of its files.
Store(s) ==
    /\ At(s, "store")
    /\ Free(s)
    /\ stored < MaxStored
    /\ IF Unique(s) /\ IdentityThere(s) /\ FilesFree(s)
       THEN /\ lock' = s
            /\ stored' = stored + 1
            /\ tx' = [tx EXCEPT ![s] = Filed(s, stored')]
            /\ held' = IF tx[s].op = "insert" THEN [held EXCEPT ![s] = {}] ELSE held
            /\ UNCHANGED <<role, database, calls>>
       ELSE Leaves(s, None)

Commits(s, r) ==
    /\ reports' = {x \in reports : x.id # r.id} \cup {r}
    /\ archive' = archive \cup (IF tx[s].adds THEN {tx[s].form} ELSE {})
    /\ orphans' = orphans \cup (IF tx[s].cleaned THEN {<<r.id, tx[s].form>>} ELSE {})
    /\ lock' = None
    /\ tx' = [tx EXCEPT ![s] = None]
    /\ UNCHANGED <<role, held, freed, bounds>>

CommitReport(s) ==
    /\ At(s, "commit")
    /\ tx[s].op # "additional"
    /\ Commits(s, tx[s].row)
    /\ counter' = tx[s].number

\* Answers already stored under the same schema stay as they are; the report may
\* have been deleted, and with it what the row refers to.
CommitAnswers(s) ==
    /\ At(s, "commit")
    /\ tx[s].op = "additional"
    /\ Free(s)
    /\ IF tx[s].report \in Ids
       THEN LET r == CHOOSE x \in reports : x.id = tx[s].report IN
            /\ IF tx[s].form \in r.answers /\ ~tx[s].adds
               THEN Leaves(s, None)
               ELSE Commits(s, [r EXCEPT !.answers = @ \cup {tx[s].form}]) /\ UNCHANGED counter
       ELSE Leaves(s, None)

\* The lock is held by another one, or readers keep the commit from completing:
\* the method is called again, with the same request and the same session.
Busy(s) ==
    /\ tx[s] # None
    /\ tx[s].step \in {"schema", "store", "commit"}
    /\ lock \notin {None, s} \/ tx[s].step = "commit"
    /\ LET t == [tx[s] EXCEPT !.step = "form", !.row = None, !.adds = FALSE,
                              !.cleaned = FALSE, !.tries = @ + 1,
                              !.again = @ \/ (tx[s].op # "additional" /\ tx[s].step = "commit")]
       IN  Leaves(s, IF t.tries < Retries THEN t ELSE None)

-----------------------------------------------------------------------------
(* What happens meanwhile *)

\* Operations.put: the whistleblower changes the receipt of a report.
ChangeReceipt(r, receipt) ==
    /\ lock = None
    /\ \A x \in reports : x.receipt # receipt
    /\ reports' = (reports \ {r}) \cup {[r EXCEPT !.receipt = receipt, !.key = receipt]}
    /\ UNCHANGED <<role, held, counter, archive, freed, orphans, lock, tx, bounds>>

Erase(gone) ==
    /\ reports' = reports \ gone
    /\ freed' = freed \cup {r.number : r \in gone}

Delete(r) ==
    /\ lock = None
    /\ Erase({r})
    /\ UNCHANGED <<role, held, counter, archive, orphans, lock, tx, bounds>>

\* reset_submissions: the reports go and the numbers start again.
Reset ==
    /\ lock = None
    /\ counter > 0
    /\ counter' = 0
    /\ Erase(reports)
    /\ UNCHANGED <<role, held, archive, orphans, lock, tx, bounds>>

\* Mutant: only the first questionnaire of a report is looked at.
FirstAnswers(kept) == {CHOOSE f \in r.answers : TRUE : r \in kept}

SchemasOf(kept) == UNION {r.answers : r \in kept}

\* Cleaning.clean: the schemas no report refers to go with the expired reports.
Clean(expired) ==
    /\ lock = None
    /\ Erase(expired)
    /\ archive' = archive \cap SchemasOf(reports')
    /\ tx' = [s \in Sessions |->
                 IF tx[s] # None /\ tx[s].step \in {"number", "store", "commit"}
                 THEN [tx[s] EXCEPT !.cleaned = TRUE] ELSE tx[s]]
    /\ UNCHANGED <<role, held, counter, orphans, lock, bounds>>

-----------------------------------------------------------------------------
Step(s) ==
    \/ \E receipt \in Receipts, identity \in {"none", "given"} : Submit(s, receipt, identity)
    \/ \E receipt \in Receipts : Insert(s, receipt)
    \/ \E f \in Files : Upload(s, f)
    \/ Compose(s)
    \/ \E r \in reports : r.by = s /\ role[s] = "whistleblower" /\ Additional(s, r)
    \/ TurnDown(s)
    \/ \E form \in Forms : ReadForm(s, form)
    \/ LookUpSchema(s)
    \/ AddSchema(s)
    \/ ReadCounter(s)
    \/ Store(s)
    \/ CommitReport(s)
    \/ CommitAnswers(s)
    \/ Busy(s)

Next ==
    \/ \E s \in Sessions : Step(s)
    \/ \E r \in reports, receipt \in Receipts : ChangeReceipt(r, receipt)
    \/ \E r \in reports : Delete(r)
    \/ Reset
    \/ \E expired \in SUBSET reports : Clean(expired)

Spec == Init /\ [][Next]_vars

-----------------------------------------------------------------------------
(* Properties *)

\* Every variable has its type.
TypeOK ==
    /\ role \in [Sessions -> {"whistleblower", "receiver"}]
    /\ held \in [Sessions -> SUBSET Files]
    /\ counter \in Nat
    /\ reports \subseteq Report
    /\ archive \subseteq Forms
    /\ lock \in Sessions \cup {None}
    /\ tx \in [Sessions -> Tx \cup {None}]
    /\ calls \in Nat
    /\ stored \in Nat
    /\ freed \subseteq Nat
    /\ orphans \subseteq Nat \X Forms

\* The numbers given so far
Given == {r.number : r \in reports} \cup freed

\* A report takes the number after the highest given so far, though
\* db_assign_submission_progressive counts from a value it may have read long
\* before it may write, and that a late submission may have set back: the only other
\* number a report can get is one that a deleted report has given back.
NumbersInOrder ==
    [][\A r \in reports' : r.id \notin Ids => r.number \in freed \/ Given = 1 .. r.number - 1]_vars

\* The schema of whatever was answered is kept as long as the report is: it may
\* be missing only where the daily cleaning ran between the count of
\* db_archive_questionnaire_schema and the commit of the answers.
SchemaKept ==
    \A r \in reports : \A f \in r.answers : f \in archive \/ <<r.id, f>> \in orphans

\* However often db_create_submission was run again, a stored report holds what
\* was submitted: the identity if one was given, the files uploaded before, and
\* the receipt that finds it is the one that opens it.  Only the report a recipient
\* inserts may lack its files: when it was run again once its rows were flushed, or
\* when another one was begun in the session meanwhile.
StoredAsSubmitted ==
    \A r \in reports :
        /\ r.identity = r.given
        /\ r.key = r.receipt
        /\ r.uploaded \subseteq r.files \/ (r.again /\ role[r.by] = "receiver")

=============================================================================

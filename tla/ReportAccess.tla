----------------------------- MODULE ReportAccess -----------------------------
(***************************************************************************)
(* Who can read one report, and with which key.                            *)
(*                                                                         *)
(* A report (InternalTip) is read by a recipient through a row of his own  *)
(* (ReceiverTip) holding the report's private key sealed to his public     *)
(* key.  Rows are created when the report is submitted and when a holder   *)
(* grants or transfers his access; they vanish on revocation, transfer and *)
(* deletion.  The files attached by the whistleblower are handed out to    *)
(* the rows by the Delivery job, and copied from row to row by a grant.    *)
(*                                                                         *)
(* Every handler runs as a transaction in a pool of ORM threads over       *)
(* SQLite, whose driver opens the write transaction at the first INSERT,   *)
(* UPDATE or DELETE: what a handler SELECTs before that is read outside of *)
(* it.  A handler is therefore two steps: a Begin that reads and decides,  *)
(* and a Commit that applies the decision, with the constraints of the     *)
(* schema checked, to the database as the other threads left it.  A        *)
(* transaction that finds the database locked is rolled back and begins    *)
(* anew: an Abort, and another Begin.                                      *)
(***************************************************************************)
EXTENDS Naturals, FiniteSets

CONSTANTS
    Recipients,     \* users with the recipient role
    Files,          \* files the whistleblower may attach
    Workers,        \* ORM threads serving the recipients' requests
    CanGrant,       \* recipients holding can_grant_access_to_reports
    CanTransfer,    \* recipients holding can_transfer_access_to_reports
    CanDelete,      \* recipients holding can_delete_submission
    Encryption,     \* the tenant has encryption enabled
    LegacyPGP,      \* encryption was enabled on a system set up without it
    MaxOps,         \* bound on the recipients' transactions
    NoRow,          \* the recipient has no row on the report
    Plain,          \* the key column of a row of an unencrypted report
    Idle            \* no transaction in flight

\* A row names its incarnation: a revoked and re-granted recipient has another.
Row == [gen : Nat \ {0}, seal : Recipients \cup {Plain}, files : SUBSET Files]

ASSUME ReportAccessAssumption ==
    /\ CanGrant \subseteq Recipients
    /\ CanTransfer \subseteq Recipients
    /\ CanDelete \subseteq Recipients
    /\ Encryption \in BOOLEAN
    /\ LegacyPGP \in BOOLEAN
    /\ MaxOps \in Nat
    /\ Plain \notin Recipients
    /\ NoRow \notin Row

VARIABLES
    account,    \* the user's record: "enabled", "disabled" or "deleted"
    keyed,      \* the user has completed the first access: crypto_pub_key is set
    report,     \* "none", "plain", "encrypted" or "deleted"
    rows,       \* the ReceiverTip of each recipient, with its WhistleblowerFiles
    born,       \* rows ever created for the recipient: the identity of the last
    ifile,      \* the InternalFile rows: state, and the rows alive at upload
    intake,     \* the submission being finalized
    delivery,   \* the run of the Delivery job between its reads and its commit
    tx,         \* the transaction in flight in each worker
    ops         \* recipients' transactions begun so far

vars == <<account, keyed, report, rows, born, ifile, intake, delivery, tx, ops>>

-----------------------------------------------------------------------------
Absent == [state |-> "absent", audience |-> {}]

RowId == Recipients \X (Nat \ {0})
IFile == [state : {"absent", "new", "done"}, audience : SUBSET RowId]
Intake == [to : (SUBSET Recipients) \ {{}}, encrypted : BOOLEAN, files : SUBSET Files]
Delivery == [files : SUBSET Files, rows : SUBSET RowId]
Tx == [op : {"grant", "transfer", "revoke", "delete"},
       by : Recipients, to : Recipients, gen : Nat \ {0}]

Live == report \in {"plain", "encrypted"}
Holders == {u \in Recipients : rows[u] # NoRow}
RowIds == {<<u, rows[u].gen>> : u \in Holders}

-----------------------------------------------------------------------------
Init ==
    /\ account = [u \in Recipients |-> "enabled"]
    /\ keyed \in [Recipients -> BOOLEAN]
    /\ report = "none"
    /\ rows = [u \in Recipients |-> NoRow]
    /\ born = [u \in Recipients |-> 0]
    /\ ifile = [f \in Files |-> Absent]
    /\ intake = Idle
    /\ delivery = Idle
    /\ tx = [w \in Workers |-> Idle]
    /\ ops = 0

-----------------------------------------------------------------------------
(* Submission *)

\* The recipients a report is delivered to.  A recipient without keys is
\* skipped, except on a system that was set up without encryption: there the
\* report is stored in clear for everybody.
Delivered(to) ==
    IF Encryption /\ ~LegacyPGP THEN {u \in to : keyed[u]} ELSE to

\* One recipient without keys and the whole report stays in clear.
Sealable(to) == Encryption /\ \A u \in to : keyed[u]

Deliverable(to) == Delivered(to) # {}

SubmitBegin(to, files) ==
    /\ report = "none"
    /\ intake = Idle
    /\ \A u \in to : account[u] # "deleted"
    /\ Deliverable(to)
    /\ intake' = [to        |-> Delivered(to),
                  encrypted |-> Sealable(Delivered(to)),
                  files     |-> files]
    /\ UNCHANGED <<account, keyed, report, rows, born, ifile, delivery, tx, ops>>

\* A recipient deleted since he was read fails the foreign key of his row.
SubmitCommit ==
    /\ intake # Idle
    /\ \A u \in intake.to : account[u] # "deleted"
    /\ report' = IF intake.encrypted THEN "encrypted" ELSE "plain"
    /\ born' = [u \in Recipients |-> IF u \in intake.to THEN born[u] + 1 ELSE born[u]]
    /\ rows' = [u \in Recipients |->
                  IF u \in intake.to
                  THEN [gen   |-> born'[u],
                        seal  |-> IF intake.encrypted THEN u ELSE Plain,
                        files |-> {}]
                  ELSE rows[u]]
    /\ ifile' = [f \in Files |->
                  IF f \in intake.files
                  THEN [state    |-> "new",
                        audience |-> {<<u, born'[u]>> : u \in intake.to}]
                  ELSE ifile[f]]
    /\ intake' = Idle
    /\ UNCHANGED <<account, keyed, delivery, tx, ops>>

SubmitAbort ==
    /\ intake # Idle
    /\ intake' = Idle
    /\ UNCHANGED <<account, keyed, report, rows, born, ifile, delivery, tx, ops>>

\* The whistleblower adds a file to the report later on.
AttachFile(f) ==
    /\ Live
    /\ ifile[f] = Absent
    /\ ifile' = [ifile EXCEPT ![f] = [state |-> "new", audience |-> RowIds]]
    /\ UNCHANGED <<account, keyed, report, rows, born, intake, delivery, tx, ops>>

-----------------------------------------------------------------------------
(* The Delivery job *)

NewFiles == {f \in Files : ifile[f].state = "new"}

\* Both queries precede the first write: the job keeps the rows it read.
DeliveryBegin ==
    /\ delivery = Idle
    /\ NewFiles # {}
    /\ delivery' = [files |-> NewFiles, rows |-> RowIds]
    /\ UNCHANGED <<account, keyed, report, rows, born, ifile, intake, tx, ops>>

\* Mutant: one bulk update marks every new file, also those attached meanwhile.
AllNewFiles == {f \in Files : ifile[f].state = "new"} \cup delivery.files

\* The files marked as processed.
Processed == delivery.files

\* A row the job read is given an entry for each file it read.
Served(u) ==
    IF u \in Holders /\ <<u, rows[u].gen>> \in delivery.rows
    THEN [rows[u] EXCEPT !.files = @ \cup delivery.files]
    ELSE rows[u]

\* Everything or nothing: an update of a file that is gone matches no record,
\* and an entry for a row that is gone fails its foreign key.
DeliveryCommit ==
    /\ delivery # Idle
    /\ IF /\ \A f \in delivery.files : ifile[f].state # "absent"
          /\ delivery.rows \subseteq RowIds
       THEN /\ ifile' = [f \in Files |->
                          IF f \in Processed
                          THEN [ifile[f] EXCEPT !.state = "done"] ELSE ifile[f]]
            /\ rows' = [u \in Recipients |-> Served(u)]
       ELSE UNCHANGED <<ifile, rows>>
    /\ delivery' = Idle
    /\ UNCHANGED <<account, keyed, report, born, intake, tx, ops>>

-----------------------------------------------------------------------------
(* Deletion: the schema cascades from the report and from the user *)

DropReport ==
    /\ report' = "deleted"
    /\ rows' = [u \in Recipients |-> NoRow]
    /\ ifile' = [f \in Files |-> Absent]

\* The daily cleaning of expired reports, or an administrator's reset.
Expire ==
    /\ Live
    /\ DropReport
    /\ UNCHANGED <<account, keyed, born, intake, delivery, tx, ops>>

DeleteUser(u) ==
    /\ account[u] # "deleted"
    /\ account' = [account EXCEPT ![u] = "deleted"]
    /\ rows' = [rows EXCEPT ![u] = NoRow]
    /\ UNCHANGED <<keyed, report, born, ifile, intake, delivery, tx, ops>>

UpdateUser(u) ==
    /\ account[u] # "deleted"
    /\ account' = [account EXCEPT ![u] = IF @ = "enabled" THEN "disabled" ELSE "enabled"]
    /\ UNCHANGED <<keyed, report, rows, born, ifile, intake, delivery, tx, ops>>

\* The first password change of a user creates his keys.
CreateKeys(u) ==
    /\ Encryption
    /\ account[u] # "deleted"
    /\ ~keyed[u]
    /\ keyed' = [keyed EXCEPT ![u] = TRUE]
    /\ UNCHANGED <<account, report, rows, born, ifile, intake, delivery, tx, ops>>

-----------------------------------------------------------------------------
(* Recipients' transactions *)

\* db_access_rtip: the caller must have a row on the report.
Access(w, by) ==
    /\ tx[w] = Idle
    /\ ops < MaxOps
    /\ Live
    /\ rows[by] # NoRow

Start(w, t) ==
    /\ tx' = [tx EXCEPT ![w] = t]
    /\ ops' = ops + 1
    /\ UNCHANGED <<account, keyed, report, rows, born, ifile, intake, delivery>>

\* Mutant: a recipient without keys is not turned down.
EnabledOnly(by, to) == rows[to] = NoRow /\ account[to] = "enabled"

\* The early returns of db_grant_tip_access leave the database alone.
Grantable(by, to) ==
    /\ rows[to] = NoRow
    /\ account[to] = "enabled"
    /\ report = "encrypted" => keyed[to] /\ rows[by].seal = by

\* Mutant: the recipient may name himself.
PrivilegeOnly(by, to) == by \in CanGrant

MayShare(by, to) == by # to /\ by \in CanGrant

GrantBegin(w, by, to) ==
    /\ Access(w, by)
    /\ MayShare(by, to)
    /\ Grantable(by, to)
    /\ Start(w, [op |-> "grant", by |-> by, to |-> to, gen |-> rows[by].gen])

TransferBegin(w, by, to) ==
    /\ Access(w, by)
    /\ by # to
    /\ by \in CanTransfer
    /\ Grantable(by, to)
    /\ Start(w, [op |-> "transfer", by |-> by, to |-> to, gen |-> rows[by].gen])

RevokeBegin(w, by, to) ==
    /\ Access(w, by)
    /\ MayShare(by, to)
    /\ rows[to] # NoRow
    /\ Start(w, [op |-> "revoke", by |-> by, to |-> to, gen |-> rows[to].gen])

DeleteBegin(w, by) ==
    /\ Access(w, by)
    /\ by \in CanDelete
    /\ Start(w, [op |-> "delete", by |-> by, to |-> by, gen |-> rows[by].gen])

\* Mutant: the row does not reference the report.
UnlinkedRow(to) == account[to] # "deleted" /\ rows[to] = NoRow

\* The constraints an inserted row must meet at commit: the report and the user
\* still exist, and the pair (report, user) is new.
Insertable(to) ==
    /\ Live
    /\ account[to] # "deleted"
    /\ rows[to] = NoRow

\* The files are those of the granter's row as it was read: if that incarnation
\* of the row is gone, so are they.
NewRow(t) ==
    [gen   |-> born[t.to] + 1,
     seal  |-> IF report = "encrypted" THEN t.to ELSE Plain,
     files |-> IF t.by \in Holders /\ rows[t.by].gen = t.gen THEN rows[t.by].files ELSE {}]

Done(w) == tx' = [tx EXCEPT ![w] = Idle]

GrantCommit(w) ==
    /\ tx[w] # Idle
    /\ tx[w].op = "grant"
    /\ Insertable(tx[w].to)
    /\ rows' = [rows EXCEPT ![tx[w].to] = NewRow(tx[w])]
    /\ born' = [born EXCEPT ![tx[w].to] = @ + 1]
    /\ Done(w)
    /\ UNCHANGED <<account, keyed, report, ifile, intake, delivery, ops>>

\* The caller's own row is looked up again inside of the write transaction: if it
\* is no longer there the transfer is refused as a whole.
TransferCommit(w) ==
    /\ tx[w] # Idle
    /\ tx[w].op = "transfer"
    /\ Insertable(tx[w].to)
    /\ rows[tx[w].by] # NoRow
    /\ rows' = [rows EXCEPT ![tx[w].to] = NewRow(tx[w]), ![tx[w].by] = NoRow]
    /\ born' = [born EXCEPT ![tx[w].to] = @ + 1]
    /\ Done(w)
    /\ UNCHANGED <<account, keyed, report, ifile, intake, delivery, ops>>

\* The DELETE names the row that was read; if it is gone nothing is deleted.
RevokeCommit(w) ==
    /\ tx[w] # Idle
    /\ tx[w].op = "revoke"
    /\ rows' = IF <<tx[w].to, tx[w].gen>> \in RowIds
               THEN [rows EXCEPT ![tx[w].to] = NoRow] ELSE rows
    /\ Done(w)
    /\ UNCHANGED <<account, keyed, report, born, ifile, intake, delivery, ops>>

DeleteCommit(w) ==
    /\ tx[w] # Idle
    /\ tx[w].op = "delete"
    /\ DropReport
    /\ Done(w)
    /\ UNCHANGED <<account, keyed, born, intake, delivery, ops>>

\* A constraint that fails, a lock that is never obtained or a restart of the
\* server rolls the transaction back.
Abort(w) ==
    /\ tx[w] # Idle
    /\ Done(w)
    /\ UNCHANGED <<account, keyed, report, rows, born, ifile, intake, delivery, ops>>

-----------------------------------------------------------------------------
Submission ==
    \/ \E to \in SUBSET Recipients, files \in SUBSET Files : SubmitBegin(to, files)
    \/ SubmitCommit
    \/ SubmitAbort

Administration ==
    \/ Expire
    \/ \E u \in Recipients : DeleteUser(u) \/ UpdateUser(u) \/ CreateKeys(u)

RecipientStep(w) ==
    \/ \E by, to \in Recipients : GrantBegin(w, by, to)
    \/ \E by, to \in Recipients : TransferBegin(w, by, to)
    \/ \E by, to \in Recipients : RevokeBegin(w, by, to)
    \/ \E by \in Recipients : DeleteBegin(w, by)
    \/ GrantCommit(w)
    \/ TransferCommit(w)
    \/ RevokeCommit(w)
    \/ DeleteCommit(w)
    \/ Abort(w)

Next ==
    \/ Submission
    \/ \E f \in Files : AttachFile(f)
    \/ DeliveryBegin
    \/ DeliveryCommit
    \/ Administration
    \/ \E w \in Workers : RecipientStep(w)

Spec == Init /\ [][Next]_vars

-----------------------------------------------------------------------------
(* Properties *)

\* Every variable has its type.
TypeOK ==
    /\ account \in [Recipients -> {"enabled", "disabled", "deleted"}]
    /\ keyed \in [Recipients -> BOOLEAN]
    /\ report \in {"none", "plain", "encrypted", "deleted"}
    /\ rows \in [Recipients -> Row \cup {NoRow}]
    /\ born \in [Recipients -> Nat]
    /\ ifile \in [Files -> IFile]
    /\ intake \in Intake \cup {Idle}
    /\ delivery \in Delivery \cup {Idle}
    /\ tx \in [Workers -> Tx \cup {Idle}]
    /\ ops \in Nat

\* Whoever holds a row on an encrypted report can open it, and nobody else can
\* with that row: its key is sealed to the keys of its own recipient, who has
\* them.  A report in clear carries no sealed key.  Decided from stale reads by
\* db_create_submission and db_grant_tip_access, applied later.
SealedToHolder ==
    \A u \in Holders :
        IF report = "encrypted" THEN rows[u].seal = u /\ keyed[u]
                                ELSE rows[u].seal = Plain

\* A report that was deleted leaves no row and no file behind, and none comes
\* back with the transactions and the delivery that were in flight.
ErasedWithReport ==
    ~Live => Holders = {} /\ \A f \in Files : ifile[f] = Absent

\* A recipient who had access when a file was uploaded, and still has it, gets
\* the file once file_delivery has marked it as processed; no row ever lists a
\* file that was not processed.
AudienceSeesFiles ==
    \A u \in Holders :
        /\ {f \in Files : /\ ifile[f].state = "done"
                          /\ <<u, rows[u].gen>> \in ifile[f].audience} \subseteq rows[u].files
        /\ \A f \in rows[u].files : ifile[f].state = "done"

\* The recipients cannot leave a report without recipients: the last row goes
\* with the report, with the user, or by a revocation whose caller has lost his
\* own row since his request was checked.
LastRecipientKept ==
    [][Holders # {} /\ Holders' = {} =>
          \/ ~Live'
          \/ \E u \in Holders : account'[u] = "deleted"
          \/ \E w \in Workers : tx[w] # Idle /\ tx[w].op = "revoke" /\ rows[tx[w].by] = NoRow]_vars

\* file_delivery's docstring (jobs/delivery.py:20-24): the files and "receivers
\* associated, one entry for each combination".  Refuted: a recipient who is
\* granted access while the job is between its reads and its commit has neither
\* the entry of the job nor a copy of the granter's.
EveryHolderSeesFiles ==
    delivery = Idle =>
        \A f \in Files : ifile[f].state = "done" => \A u \in Holders : f \in rows[u].files

=============================================================================

---------------------------- MODULE ReportLifecycle ---------------------------
(***************************************************************************)
(* Status, reminder and expiration of one report, and its deletion by the   *)
(* daily cleaning.                                                          *)
(*                                                                         *)
(* Time is counted in days.  A date is the midnight that ends a day: what    *)
(* expires on day d at 23:59:59 has the date d + 1, and has expired on any   *)
(* day from d + 1 on.                                                       *)
(*                                                                         *)
(* A handler reads the report, computes from it what to write, and commits;  *)
(* the ORM writes the columns that differ from what it had read, over        *)
(* whatever the row holds by then.                                           *)
(***************************************************************************)
EXTENDS Naturals

CONSTANTS
    Workers,        \* ORM threads serving the recipients
    Custom,         \* statuses defined by the administrator
    SubStatuses,    \* substatuses defined by the administrator
    Owner,          \* the status a substatus belongs to
    SubTTL,         \* the retention set on a substatus in days, 0 if none
    TTL,            \* the retention of the channel in days, 0 if unlimited
    Reminder,       \* the reminder of the channel in days, 0 if none
    Floor,          \* 90: an expiration cannot be brought closer than that
    Year,           \* 365: an expiration can always be put off that far
    Dates,          \* dates the recipients may ask for
    Never,          \* datetime_never
    LastDay,        \* bound on the days
    MaxOps,         \* bound on the requests
    NoSub,          \* the report has no substatus
    Gone,           \* the report was deleted
    Idle            \* nothing in flight

Statuses == {"new", "opened", "closed"} \cup Custom

ASSUME ReportLifecycleAssumption ==
    /\ Owner \in [SubStatuses -> Statuses]
    /\ SubTTL \in [SubStatuses -> Nat]
    /\ TTL \in Nat /\ Reminder \in Nat
    /\ Floor \in Nat /\ Year \in Nat
    /\ Dates \subseteq Nat
    /\ Never \in Nat
    /\ LastDay \in Nat /\ MaxOps \in Nat
    /\ "" \notin SubStatuses /\ NoSub \notin SubStatuses /\ NoSub # ""

VARIABLES
    today,      \* the current day
    report,     \* the InternalTip row, or Gone
    tx,         \* the handler in flight in each worker: what it read and will write
    sweep,      \* the Cleaning job holds the report for expired
    ops,        \* requests begun so far
    overlapped  \* history: two handlers, or one and the job, have been in flight at once

vars == <<today, report, tx, sweep, ops, overlapped>>

Report == [status : Statuses, substatus : SubStatuses \cup {NoSub}, expiration : Nat, reminder : Nat]
Tx == [op : {"read", "status", "postpone", "remind", "delete"}, day : Nat, old : Report, new : Report]

-----------------------------------------------------------------------------
(* Dates *)

\* get_expiration: the end of the day that many days from now.
In(days) == today + days + 1

\* A retention of 0 days is unlimited.
Until(days) == IF days > 0 THEN In(days) ELSE Never

Smaller(a, b) == IF a <= b THEN a ELSE b
Larger(a, b) == IF a <= b THEN b ELSE a

-----------------------------------------------------------------------------
(* What the handlers compute from the report they have read *)

StoredSub(sub) == IF sub = "" THEN NoSub ELSE sub

\* Mutant: the substatus is left alone when the request has none.
KeptSub(r, sub) == IF sub = "" THEN r.substatus ELSE sub

NewSub(r, sub) == StoredSub(sub)

ReminderAfter(r, status) == IF r.status # "closed" /\ status = "closed" THEN Never ELSE r.reminder

\* db_recalculate_data_retention: reopening restores the retention of the channel,
\* closing with a substatus may set one of its own.
ExpirationAfter(r, status, sub) ==
    IF r.status = "closed" /\ status = "opened" THEN Until(TTL)
    ELSE IF status = "closed" /\ sub # "" THEN (IF SubTTL[sub] > 0 THEN In(SubTTL[sub]) ELSE r.expiration)
    ELSE r.expiration

\* db_update_submission_status.
WithStatus(r, status, sub) ==
    [status     |-> status,
     substatus  |-> NewSub(r, sub),
     expiration |-> ExpirationAfter(r, status, sub),
     reminder   |-> ReminderAfter(r, status)]

FirstRead(r) == r.status = "new"

\* db_get_rtip: a reminder that has passed is cleared, a new report is opened.
AfterRead(r) ==
    LET seen == [r EXCEPT !.reminder = IF @ <= today THEN Never ELSE @]
    IN  IF FirstRead(r) THEN WithStatus(seen, "opened", "") ELSE seen

\* Mutant: an expiration may be brought as close as today.
NoFloor(r) == Smaller(today, r.expiration)

\* An expiration may be brought closer, but not to less than Floor days from now.
Earliest(r) == Smaller(today + Floor, r.expiration)

\* Mutant: the expiration may be put off without limit.
NoLatest == Never

Latest == IF TTL = 0 THEN Never ELSE In(Larger(Year, 2 * TTL))

\* db_postpone_expiration.
Postponed(r, date) ==
    IF date <= Earliest(r) THEN Earliest(r)
    ELSE IF date >= Latest THEN Latest ELSE date

-----------------------------------------------------------------------------
Init ==
    /\ today = 0
    /\ report = [status     |-> "new",
                 substatus  |-> NoSub,
                 expiration |-> Until(TTL),
                 reminder   |-> Until(Reminder)]
    /\ tx = [w \in Workers |-> Idle]
    /\ sweep = FALSE
    /\ ops = 0
    /\ overlapped = FALSE

Tick ==
    /\ today < LastDay
    /\ today' = today + 1
    /\ UNCHANGED <<report, tx, sweep, ops, overlapped>>

-----------------------------------------------------------------------------
(* Recipients *)

Busy == sweep \/ \E w \in Workers : tx[w] # Idle

Begin(w, op, new) ==
    /\ tx[w] = Idle
    /\ ops < MaxOps
    /\ report # Gone
    /\ tx' = [tx EXCEPT ![w] = [op |-> op, day |-> today, old |-> report, new |-> new]]
    /\ ops' = ops + 1
    /\ overlapped' = (overlapped \/ Busy)
    /\ UNCHANGED <<today, report, sweep>>

ReadReport(w) == Begin(w, "read", AfterRead(report))

Assignable == Statuses \ {"new"}

ChangeStatus(w, status, sub) ==
    /\ status \in Assignable
    /\ sub # "" => Owner[sub] = status
    /\ Begin(w, "status", WithStatus(report, status, sub))

Postpone(w, date) ==
    Begin(w, "postpone", [report EXCEPT !.expiration = Postponed(report, date)])

Remind(w, date) ==
    Begin(w, "remind", [report EXCEPT !.reminder = Smaller(date, Never)])

DeleteReport(w) == Begin(w, "delete", report)

\* The UPDATE names the columns that were changed.
Written(row, t) ==
    [c \in DOMAIN row |-> IF t.new[c] # t.old[c] THEN t.new[c] ELSE row[c]]

Commit(w) ==
    /\ tx[w] # Idle
    /\ report # Gone
    /\ report' = IF tx[w].op = "delete" THEN Gone ELSE Written(report, tx[w])
    /\ tx' = [tx EXCEPT ![w] = Idle]
    /\ UNCHANGED <<today, sweep, ops, overlapped>>

\* An UPDATE that finds no row, a lock that is not obtained, a restart.
Abort(w) ==
    /\ tx[w] # Idle
    /\ tx' = [tx EXCEPT ![w] = Idle]
    /\ UNCHANGED <<today, report, sweep, ops, overlapped>>

-----------------------------------------------------------------------------
(* The Cleaning job *)

\* Mutant: a report is looked at on the day it expires only.
DueToday == report # Gone /\ report.expiration = today

Due == report # Gone /\ report.expiration <= today

SweepBegin ==
    /\ ~sweep
    /\ Due
    /\ sweep' = TRUE
    /\ overlapped' = (overlapped \/ Busy)
    /\ UNCHANGED <<today, report, tx, ops>>

\* The DELETE names the reports that were read.
SweepCommit ==
    /\ sweep
    /\ report' = Gone
    /\ sweep' = FALSE
    /\ UNCHANGED <<today, tx, ops, overlapped>>

SweepAbort ==
    /\ sweep
    /\ sweep' = FALSE
    /\ UNCHANGED <<today, report, tx, ops, overlapped>>

-----------------------------------------------------------------------------
Next ==
    \/ Tick
    \/ \E w \in Workers : ReadReport(w)
    \/ \E w \in Workers, status \in Statuses, sub \in SubStatuses \cup {""} : ChangeStatus(w, status, sub)
    \/ \E w \in Workers, date \in Dates : Postpone(w, date)
    \/ \E w \in Workers, date \in Dates : Remind(w, date)
    \/ \E w \in Workers : DeleteReport(w) \/ Commit(w) \/ Abort(w)
    \/ SweepBegin
    \/ SweepCommit
    \/ SweepAbort

Spec == Init /\ [][Next]_vars

\* Cleaning is a DailyJob: it runs again whatever its last run did, and of the
\* runs that find something to delete not all are rolled back.
FairSpec == Spec /\ WF_vars(SweepBegin) /\ SF_vars(SweepCommit)

-----------------------------------------------------------------------------
(* Properties *)

\* Every variable has its type.
TypeOK ==
    /\ today \in Nat
    /\ report \in Report \cup {Gone}
    /\ tx \in [Workers -> Tx \cup {Idle}]
    /\ sweep \in BOOLEAN
    /\ ops \in Nat
    /\ overlapped \in BOOLEAN

\* The retentions the policies set, and the one a postponement may reach.
Policies == {TTL, Larger(Year, 2 * TTL)} \cup {SubTTL[s] : s \in SubStatuses}

\* No sequence of postponements, status changes and reopenings, computed from
\* whatever was read, keeps a report of a channel with a retention longer than
\* one of the policies allows from today.
RetentionBounded ==
    report # Gone /\ TTL > 0 => \E days \in Policies : report.expiration <= In(days)

\* A substatus belongs to the status it is shown with, as long as no two handlers
\* overlap.
SubstatusOfStatus ==
    ~overlapped /\ report # Gone /\ report.substatus # NoSub => Owner[report.substatus] = report.status

Expired == report # Gone /\ report.expiration <= today

\* The shortest times a report is kept: the retentions set, from a day the report was
\* there on, and as close as a postponement may bring the expiration.
Retentions == {Floor, Never, IF TTL > 0 THEN TTL + 1 ELSE Never}
                  \cup {IF SubTTL[sub] > 0 THEN SubTTL[sub] + 1 ELSE Never : sub \in SubStatuses}

\* The job deletes no report that was not there for the shortest of these times,
\* whatever the recipients postponed, brought closer, closed and reopened from stale
\* reads, and however old the list is the job deletes by (db_clean_expired_itips,
\* jobs/cleaning.py:25-41; db_postpone_expiration, handlers/recipient/rtip.py).
NotSweptEarly ==
    [][sweep /\ ~sweep' /\ report # Gone /\ report' = Gone => \E days \in Retentions : days <= today]_vars

\* An expired report is eventually deleted, unless it is put off or kept alive in
\* time, however often the job is rolled back.
ExpiredIsDeleted == Expired ~> ~Expired

=============================================================================

----------------------------- MODULE Notification -----------------------------
(***************************************************************************)
(* What the recipients of a report are told by mail.  A report, a comment  *)
(* or a file that is new is looked at once by the job, for every recipient;*)
(* a recipient who has not opened the report since the last mail gets no   *)
(* other.                                                                  *)
(*                                                                         *)
(* The job is one transaction: it reads the reports that are new, works    *)
(* out the mails for them, and only then reads the comments; it holds the  *)
(* write lock from there on.  Comments stand for files too.  The daily     *)
(* summaries and reminders are left out.                                   *)
(***************************************************************************)
EXTENDS Naturals, FiniteSets

CONSTANTS Recipients, Comments,
          Whistleblower,   \* an author that is not told
          MaxTime          \* bounds the model

VARIABLES
    now,
    rtip,       \* ReceiverTip: new, last_access and last_notification
    comment,    \* the comments: when, by whom, whether new, whether personal
    job,        \* the transaction of the job
    mailed,     \* mails made for each recipient
    overlap,    \* recipients who opened the report while the job was at work
    failed      \* recipients whose mail could not be made

vars == <<now, rtip, comment, job, mailed, overlap, failed>>

NoJob == [at |-> "idle"]
NoComment == [at |-> 0, author |-> Whistleblower, new |-> FALSE, personal |-> FALSE]
Never == 0

Init ==
    /\ now = 1
    /\ rtip = [r \in Recipients |-> [new |-> TRUE, access |-> Never, notified |-> Never]]
    /\ comment = [c \in Comments |-> NoComment]
    /\ job = NoJob
    /\ mailed = [r \in Recipients |-> 0]
    /\ overlap = {}
    /\ failed = {}

Later == now < MaxTime /\ now' = now + 1

\* A recipient opens the report.
Open(r) ==
    /\ Later
    /\ rtip' = [rtip EXCEPT ![r].access = now']
    /\ overlap' = IF job.at = "idle" THEN overlap ELSE overlap \cup {r}
    /\ UNCHANGED <<comment, job, mailed, failed>>

\* A recipient who comments has opened the report just then.
Write(c, author, personal) ==
    /\ Later
    /\ comment[c] = NoComment
    /\ personal => author # Whistleblower
    /\ comment' = [comment EXCEPT ![c] =
                     [at |-> now', author |-> author, new |-> TRUE, personal |-> personal]]
    /\ IF author = Whistleblower THEN UNCHANGED <<rtip, overlap>>
       ELSE /\ rtip' = [rtip EXCEPT ![author].access = now']
            /\ overlap' = IF job.at = "idle" THEN overlap ELSE overlap \cup {author}
    /\ UNCHANGED <<job, mailed, failed>>

-----------------------------------------------------------------------------
\* MailGenerator.generate

\* Mutant: one mail, whether the report was opened since or not.
MutWaiting(row) == row.notified # Never

\* The recipient has a mail and has not opened the report since.
Waiting(row) == row.notified > row.access

\* The reports that are new: for some recipients the mail cannot be made.
JobBegin ==
    /\ job.at = "idle" /\ Later
    /\ \E broken \in SUBSET Recipients :
         LET listed == {r \in Recipients : rtip[r].new}
             told == {r \in listed \ broken : ~Waiting(rtip[r])}
         IN  job' = [at |-> "comments", now |-> now', broken |-> broken, rows |-> rtip,
                     listed |-> listed, told |-> told,
                     looked |-> {r \in listed : Waiting(rtip[r])} \cup told]
    /\ UNCHANGED <<rtip, comment, mailed, overlap, failed>>

\* A row read with the reports is not read again.
Row(r) == IF r \in job.listed THEN job.rows[r] ELSE rtip[r]
Concerns(c, r) == comment[c].author # r /\ ~comment[c].personal

\* Of the comments that are new: whom they are not for or who need no mail,
\* and who get one with the first that is for them.
New == {c \in Comments : comment[c].new}
Needless(c, r) == r \in job.told \/ Waiting(Row(r)) \/ ~Concerns(c, r)
ToldNow == {r \in Recipients \ job.broken : \E c \in New : ~Needless(c, r)}

\* A comment is no longer new once it was looked at for one of the recipients.
Looked(c) == \E r \in Recipients : Needless(c, r) \/ r \in ToldNow

JobEnd ==
    /\ job.at = "comments"
    /\ rtip' = [r \in Recipients |->
          [rtip[r] EXCEPT !.new = @ /\ r \notin job.looked,
                          !.notified = IF r \in job.told \cup ToldNow THEN job.now ELSE @]]
    /\ comment' = [c \in Comments |-> IF c \in New /\ Looked(c) THEN [comment[c] EXCEPT !.new = FALSE]
                                      ELSE comment[c]]
    /\ mailed' = [r \in Recipients |-> IF r \in job.told \cup ToldNow THEN mailed[r] + 1
                                       ELSE mailed[r]]
    /\ failed' = failed \cup {r \in job.broken : \E c \in New : ~Needless(c, r)}
    /\ job' = NoJob
    /\ UNCHANGED <<now, overlap>>

\* An error, or a stop: nothing was written.
JobAbort == job.at # "idle" /\ job' = NoJob /\ UNCHANGED <<now, rtip, comment, mailed, overlap, failed>>

Next ==
    \/ \E r \in Recipients : Open(r)
    \/ \E c \in Comments, a \in Recipients \cup {Whistleblower}, p \in BOOLEAN : Write(c, a, p)
    \/ JobBegin \/ JobEnd \/ JobAbort

Spec == Init /\ [][Next]_vars

-----------------------------------------------------------------------------
\* The recipient has opened the report after the comment, or has a mail not
\* followed by a visit yet, or is going to be looked at again.
Aware(r, c) ==
    \/ comment[c].new \/ rtip[r].new
    \/ rtip[r].access > comment[c].at
    \/ rtip[r].notified > rtip[r].access

ToBeTold(r) == {c \in Comments : comment[c].at # 0 /\ Concerns(c, r)}

\* Nobody misses a comment: a recipient it concerns has read it, or has a mail
\* since the last visit, or the job still has to look.  Except for those who opened
\* the report while the job was at work, and those whose mail could not be made.
NobodyMissesNews ==
    \A r \in Recipients \ (overlap \cup failed) : \A c \in ToBeTold(r) : Aware(r, c)
=============================================================================

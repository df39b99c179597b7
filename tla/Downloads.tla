------------------------------ MODULE Downloads ------------------------------
(***************************************************************************)
(* The files of a report as they are written to the disk by a thread and   *)
(* read by the downloads of one user, on their own or in an archive of     *)
(* the report, while they are deleted, wiped, or the process stops.        *)
(*                                                                         *)
(* A stored file is a header, Frames sealed frames and a last empty one,   *)
(* which reach the disk bit by bit: "cut" says that the next piece is      *)
(* partly there.  A reader takes the end of the file for the end of the    *)
(* content, and a piece that is partly there for an error.  Who may read   *)
(* which file is the subject of ReportAccess and Redaction.                *)
(***************************************************************************)
EXTENDS Integers, Sequences, FiniteSets, SequencesExt

CONSTANTS
    Files,       \* files, by the name they have on the disk
    Old,         \* those that were there before
    Downloads,   \* downloads the user may have under way
    Frames,      \* bound: frames of content
    MaxFaults,   \* bound: deletions and stops of the process
    None

DownloadsAssumption == Frames \in Nat /\ None \notin Nat /\ None \notin Files /\ None \notin Downloads

VARIABLES
    row,      \* the row of each file: "none", "there" or "gone"
    writer,   \* the thread that writes it: "none", "due", "busy", "done" or "killed"
    written,  \* pieces of it on the disk, None without the file
    cut,      \* the next piece is partly there
    down,     \* the downloads, or None
    lock,     \* State.download_locks of the user: the download that made the lock
    queue,    \* of each lock: who holds it, and who waits for it
    faults    \* deletions and stops so far

files == <<row, writer, written, cut>>
locks == <<lock, queue>>
vars == <<files, down, locks, faults>>

-----------------------------------------------------------------------------
Pieces == Frames + 2

Part == [file : Files, what : {"head", "data", "tail"}]

Download ==
    [export : BOOLEAN, pgp : BOOLEAN,
     step : {"rows", "open", "runs", "adrift", "served"},
     asked : SUBSET Files,               \* what its transaction found
     want : SUBSET Files,                \* what is left of it
     file : Files \cup {None},           \* the one being read
     at : 0..Frames + 1,                 \* pieces of it that were read
     parts : Seq(Part),                  \* what the reader has been given
     listed : Seq([file : Files, at : Nat]),   \* ZipStream.filelist
     early : SUBSET Files]               \* files that were not complete when their turn came

Init ==
    /\ row = [f \in Files |-> IF f \in Old THEN "there" ELSE "none"]
    /\ writer = [f \in Files |-> IF f \in Old THEN "done" ELSE "none"]
    /\ written = [f \in Files |-> IF f \in Old THEN Pieces ELSE None]
    /\ cut = [f \in Files |-> FALSE]
    /\ down = [d \in Downloads |-> None]
    /\ lock = None
    /\ queue = [d \in Downloads |-> <<>>]
    /\ faults = 0

-----------------------------------------------------------------------------
(* The files *)

\* The row is committed, then the file is written.
Register(f) ==
    /\ row[f] = "none"
    /\ row' = [row EXCEPT ![f] = "there"]
    /\ writer' = [writer EXCEPT ![f] = "due"]
    /\ UNCHANGED <<written, cut, down, locks, faults>>

WriteBegin(f) ==
    /\ writer[f] = "due"
    /\ writer' = [writer EXCEPT ![f] = "busy"]
    /\ written' = [written EXCEPT ![f] = 0]
    /\ UNCHANGED <<row, cut, down, locks, faults>>

Write(f) ==
    /\ writer[f] = "busy"
    /\ \/ /\ ~cut[f]
          /\ cut' = [cut EXCEPT ![f] = TRUE]
          /\ UNCHANGED <<written, writer>>
       \/ /\ cut' = [cut EXCEPT ![f] = FALSE]
          /\ written' = [written EXCEPT ![f] = @ + 1]
          /\ writer' = [writer EXCEPT ![f] = IF written'[f] = Pieces THEN "done" ELSE @]
    /\ UNCHANGED <<row, down, locks, faults>>

\* The row goes; the writer and the readers do not know.
Delete(f) ==
    /\ row[f] = "there"
    /\ faults < MaxFaults
    /\ faults' = faults + 1
    /\ row' = [row EXCEPT ![f] = "gone"]
    /\ UNCHANGED <<writer, written, cut, down, locks>>

\* The daily cleaning overwrites and removes a file without a row.
Wipe(f) ==
    /\ row[f] = "gone"
    /\ writer[f] \notin {"due", "busy"}
    /\ written[f] # None
    /\ written' = [written EXCEPT ![f] = None]
    /\ UNCHANGED <<row, writer, cut, down, locks, faults>>

-----------------------------------------------------------------------------
(* The turn of a heavy download: serialize_download *)

Heavy(d) == down[d].export \/ down[d].pgp

Has(d) == \E l \in Downloads : queue[l] # <<>> /\ Head(queue[l]) = d

At(d, step) == down[d] # None /\ down[d].step = step

\* A download at work: a heavy one only when it has the lock.
Runs(d, step) == At(d, step) /\ (Heavy(d) => Has(d))

Queues(d) ==
    LET l == IF lock = None THEN d ELSE lock IN
    /\ lock' = l
    /\ queue' = [queue EXCEPT ![l] = Append(@, d)]

\* The line without d, who is in it once.
Others(q, d) ==
    IF \E i \in DOMAIN q : q[i] = d THEN RemoveAt(q, CHOOSE i \in DOMAIN q : q[i] = d) ELSE q

\* Mutant: the lock is dropped whenever a download ends.
AlwaysDropped(d) ==
    /\ queue' = [l \in Downloads |-> Others(queue[l], d)]
    /\ lock' = IF \E l \in Downloads : \E k \in DOMAIN queue[l] : queue[l][k] = d THEN None ELSE lock

\* The next in line goes on, and the lock is dropped when there is none.
Released(d) ==
    /\ queue' = [l \in Downloads |-> Others(queue[l], d)]
    /\ lock' = IF lock # None /\ queue'[lock] = <<>> THEN None ELSE lock

\* A thread that nobody waits for any more goes on to its end.
Fails(d) ==
    /\ down' = [down EXCEPT ![d] = None]
    /\ Released(d)

Serves(d) ==
    IF down[d].step = "adrift" THEN Fails(d)
    ELSE /\ down' = [down EXCEPT ![d].step = "served", ![d].file = None, ![d].at = 0]
         /\ Released(d)

Goes(d, t) == down' = [down EXCEPT ![d] = t] /\ UNCHANGED locks

-----------------------------------------------------------------------------
(* The downloads *)

Asked == [export |-> FALSE, pgp |-> FALSE, step |-> "open", asked |-> {}, want |-> {},
          file |-> None, at |-> 0, parts |-> <<>>, listed |-> <<>>, early |-> {}]

Found(f) == row[f] = "there"

\* download_wbfile, download_rfile: one transaction finds the row.
AskFile(d, f, pgp) ==
    /\ down[d] = None
    /\ Found(f)
    /\ Goes(d, [Asked EXCEPT !.pgp = pgp, !.asked = {f}, !.want = {f}])
    /\ UNCHANGED <<files, faults>>

\* An export queues before it reads anything.
AskExport(d, pgp) ==
    /\ down[d] = None
    /\ down' = [down EXCEPT ![d] = [Asked EXCEPT !.export = TRUE, !.pgp = pgp, !.step = "rows"]]
    /\ Queues(d)
    /\ UNCHANGED <<files, faults>>

\* get_tip_export and prepare_tip_export: the files the archive will be made of.
ReadRows(d) ==
    /\ Runs(d, "rows")
    /\ LET there == {f \in Files : Found(f)}
       IN  Goes(d, [down[d] EXCEPT !.step = "runs", !.asked = there, !.want = there])
    /\ UNCHANGED <<files, faults>>

\* The header is read when the file is opened.
Opens(f) == written[f] # None /\ written[f] >= 1

Opened(t, f) ==
    [t EXCEPT !.file = f, !.at = 1, !.step = "runs",
              !.early = IF writer[f] = "done" THEN @ ELSE @ \cup {f}]

\* A file is opened before its download queues to be wrapped for PGP.
OpenFile(d, f) ==
    /\ At(d, "open")
    /\ f \in down[d].want
    /\ IF Opens(f)
       THEN /\ down' = [down EXCEPT ![d] = Opened(@, f)]
            /\ IF down[d].pgp THEN Queues(d) ELSE UNCHANGED locks
       ELSE Fails(d)
    /\ UNCHANGED <<files, faults>>

Working(d) == Runs(d, "runs") \/ At(d, "adrift")

Kept(t, f) == [t EXCEPT !.want = @ \ {f}, !.file = None, !.at = 0]

Given(t, what) == [t EXCEPT !.parts = Append(@, [file |-> t.file, what |-> what])]

\* ZipStream: the entry of a file begins; one that cannot be opened is skipped.
NextEntry(d, f) ==
    LET t == down[d]
        u == [Opened(t, f) EXCEPT !.step = t.step]
    IN  /\ Working(d)
        /\ t.export
        /\ t.file = None
        /\ f \in t.want
        /\ Goes(d, IF Opens(f)
                   THEN [Given(u, "head") EXCEPT !.listed = Append(@, [file |-> f, at |-> Len(t.parts) + 1])]
                   ELSE [Kept(t, f) EXCEPT !.early = @ \cup {f}])
        /\ UNCHANGED <<files, faults>>

\* Mutant: a file that cannot be read ends the archive.
GivesUp(t, f) == [t EXCEPT !.want = {}, !.file = None, !.at = 0]

\* An entry of an archive that fails is left where it is.
Abandoned(t, f) == Kept(t, f)

\* One call of read: a frame, the end, or an error.
Read(d) ==
    LET t == down[d]
        f == t.file
        ended == IF t.export THEN Goes(d, Kept(Given(t, "tail"), f)) ELSE Serves(d)
        broken == IF t.export THEN Goes(d, Abandoned(t, f)) ELSE Fails(d)
    IN  /\ Working(d)
        /\ f # None
        /\ IF written[f] = None \/ (written[f] = t.at /\ cut[f]) THEN broken
           ELSE IF t.at + 1 >= Pieces \/ written[f] = t.at THEN ended
           ELSE Goes(d, [Given(t, "data") EXCEPT !.at = @ + 1])
        /\ UNCHANGED <<files, faults>>

\* The directory of the archive is written after its last entry.
Footer(d) ==
    /\ Working(d)
    /\ down[d].export
    /\ down[d].file = None
    /\ down[d].want = {}
    /\ Serves(d)
    /\ UNCHANGED <<files, faults>>

\* The client disconnects and the request is cancelled: its lock is released, also
\* when the work for it goes on in a thread.
Leave(d) ==
    /\ down[d] # None
    /\ down[d].step \in {"rows", "open", "runs"}
    /\ down' = [down EXCEPT ![d] =
            IF Runs(d, "runs") /\ @.pgp THEN [@ EXCEPT !.step = "adrift"] ELSE None]
    /\ Released(d)
    /\ UNCHANGED <<files, faults>>

\* The user may ask for another one.
Forget(d) ==
    /\ At(d, "served")
    /\ Goes(d, None)
    /\ UNCHANGED <<files, faults>>

\* The process stops: what was being written stays as it is.
Stop ==
    /\ faults < MaxFaults
    /\ faults' = faults + 1
    /\ writer' = [f \in Files |-> IF writer[f] \in {"due", "busy"} THEN "killed" ELSE writer[f]]
    /\ down' = [d \in Downloads |-> None]
    /\ lock' = None
    /\ queue' = [d \in Downloads |-> <<>>]
    /\ UNCHANGED <<row, written, cut>>

-----------------------------------------------------------------------------
Next ==
    \/ \E f \in Files : Register(f)
    \/ \E f \in Files : WriteBegin(f)
    \/ \E f \in Files : Write(f)
    \/ \E f \in Files : Delete(f)
    \/ \E f \in Files : Wipe(f)
    \/ \E d \in Downloads, f \in Files, pgp \in BOOLEAN : AskFile(d, f, pgp)
    \/ \E d \in Downloads, pgp \in BOOLEAN : AskExport(d, pgp)
    \/ \E d \in Downloads : ReadRows(d)
    \/ \E d \in Downloads, f \in Files : OpenFile(d, f)
    \/ \E d \in Downloads, f \in Files : NextEntry(d, f)
    \/ \E d \in Downloads : Read(d)
    \/ \E d \in Downloads : Footer(d)
    \/ \E d \in Downloads : Leave(d)
    \/ \E d \in Downloads : Forget(d)
    \/ Stop

Spec == Init /\ [][Next]_vars

-----------------------------------------------------------------------------
(* Properties *)

\* Every variable has its type.
TypeOK ==
    /\ row \in [Files -> {"none", "there", "gone"}]
    /\ writer \in [Files -> {"none", "due", "busy", "done", "killed"}]
    /\ written \in [Files -> 0..Pieces \cup {None}]
    /\ cut \in [Files -> BOOLEAN]
    /\ down \in [Downloads -> Download \cup {None}]
    /\ lock \in Downloads \cup {None}
    /\ queue \in [Downloads -> Seq(Downloads)]
    /\ faults \in 0..MaxFaults

\* Of the heavy downloads of a user one is at work at a time, the others in line
\* behind it, and the lock is there just as long as one of them is.  Only the
\* thread of a download whose client has left may be at work beside it.
OneAtATime ==
    /\ \A d, e \in Downloads : Runs(d, "runs") /\ Heavy(d) /\ Runs(e, "runs") /\ Heavy(e) => d = e
    /\ lock # None => queue[lock] # <<>>
    /\ \A l \in Downloads : queue[l] # <<>> => lock = l

\* A file has come to its reader frame by frame and to its end.
Content(f, k) ==
    [i \in 1..Frames + k |-> [file |-> f, what |-> IF i = 1 /\ k = 2 THEN "head"
                                                   ELSE IF i = Frames + 2 THEN "tail" ELSE "data"]]

\* In an archive every entry of the directory points to where the file begins, and
\* a file is followed by nothing of another one before it ends.
InArchive(t, f) ==
    \E e \in DOMAIN t.listed :
        /\ t.listed[e].file = f
        /\ SubSeq(t.parts, t.listed[e].at, t.listed[e].at + Frames + 1) = Content(f, 2)

\* Whatever else could not be read, a file that was complete when it was opened,
\* and is not wiped meanwhile, is downloaded whole; and the directory of an archive
\* points to where its files begin.
ServedWhole ==
    \A d \in Downloads : At(d, "served") =>
        LET t == down[d] IN
        /\ \A e \in DOMAIN t.listed :
               t.parts[t.listed[e].at] = [file |-> t.listed[e].file, what |-> "head"]
        /\ \A f \in t.asked :
               f \notin t.early /\ written[f] = Pieces =>
                   IF t.export THEN InArchive(t, f) ELSE t.parts = Content(f, 0)

=============================================================================

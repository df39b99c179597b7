----------------------------- MODULE Attachments -----------------------------
(***************************************************************************)
(* The files a whistleblower attaches to a report: sent in chunks to a     *)
(* temporary encrypted file, listed in the session or registered on the    *)
(* report, copied by the Delivery job for the recipients, and erased from  *)
(* the disk after the report.                                              *)
(*                                                                         *)
(* The temporary files live in memory for a limited time and are lost with *)
(* the process; the rows survive it.  What the code gives up on, it does   *)
(* not try again: "harm" remembers the event.                              *)
(***************************************************************************)
EXTENDS Integers, Sequences, FiniteSets

CONSTANTS
    Files,       \* files, by the identifier the client gives them
    MaxChunks,   \* bound: chunks of a file
    MaxTemp,     \* bound: temporary files ever made
    MaxBusy,     \* bound: tries of a transaction that are rolled back
    MaxStops,    \* bound: stops of the process
    None

Uploads == 1..MaxTemp    \* the temporary files, by their name on disk

ASSUME AttachmentsAssumption ==
    /\ MaxChunks \in Nat /\ MaxTemp \in Nat /\ MaxBusy \in Nat /\ MaxStops \in Nat
    /\ None \notin Uploads
    /\ None \notin [up : Uploads, left : Seq(1..MaxChunks)]

VARIABLES
    size,     \* chunks of each file
    sent,     \* chunks the client has had an answer for
    made,     \* the file each temporary file was made for, in order
    temp,     \* State.TempUploadFiles: the temporary file a chunk goes to
    body,     \* the chunks each temporary file holds
    listed,   \* session.files
    phase,    \* the report: "none", "storing", "stored" or "erased"
    row,      \* the InternalFile of each upload: "none", "new" or "done"
    seals,    \* how many times the name in the descriptor was sealed
    job,      \* files_map: processed uploads whose copy is not written yet
    reading,  \* the copy being written: what is left to read, or None
    disk,     \* the copy in the attachments directory, or None
    old,      \* copies older than a day
    harm,     \* what went wrong for each file
    busy,     \* rolled back tries so far
    stops     \* stops so far

client == <<size, sent>>
store == <<made, temp, body>>
intake == <<listed, phase, seals>>
delivery == <<job, reading>>
vars == <<client, store, intake, row, delivery, disk, old, harm, busy, stops>>

-----------------------------------------------------------------------------
Whole(f) == [k \in 1..size[f] |-> k]
Pending == phase \in {"none", "storing"}
Attached(u) == row[u] # "none" \/ (u \in listed /\ Pending)
Harmed(f, kind) == harm' = [harm EXCEPT ![f] = @ \cup {kind}]

Init ==
    /\ size \in [Files -> 1..MaxChunks]
    /\ sent = [f \in Files |-> 0]
    /\ made = <<>>
    /\ temp = [f \in Files |-> None]
    /\ body = [u \in Uploads |-> <<>>]
    /\ listed = {}
    /\ phase = "none"
    /\ row = [u \in Uploads |-> "none"]
    /\ seals = [u \in Uploads |-> 0]
    /\ job = {}
    /\ reading = None
    /\ disk = [u \in Uploads |-> None]
    /\ old = {}
    /\ harm = [f \in Files |-> {}]
    /\ busy = 0
    /\ stops = 0

-----------------------------------------------------------------------------
(* Uploading: process_file_upload and the handlers of the attachments *)

Expected(k, u) == k = Len(body[u]) + 1

\* SubmissionAttachment: the file joins the list of the session.
Listed(f, u) ==
    /\ listed' = listed \cup {u}
    /\ UNCHANGED <<row, seals, harm, busy>>

\* PostSubmissionAttachment: the file is registered on the report by a transaction
\* of its own, that may be rolled back and run again on the descriptor it has
\* sealed, and refused if the report is closed.
Registered(f, u) ==
    /\ UNCHANGED listed
    /\ \/ /\ row' = [row EXCEPT ![u] = "new"]
          /\ seals' = [seals EXCEPT ![u] = 1]
          /\ UNCHANGED <<harm, busy>>
       \/ /\ busy < MaxBusy
          /\ busy' = busy + 1
          /\ row' = [row EXCEPT ![u] = "new"]
          /\ seals' = [seals EXCEPT ![u] = 2]
          /\ Harmed(f, "run again")
       \/ /\ Harmed(f, "refused")
          /\ UNCHANGED <<row, seals, busy>>

Post(f, u) ==
    IF Pending THEN Listed(f, u) ELSE Registered(f, u)

\* The next chunk of a file; its answer may get lost, and the client sends it
\* again.  A chunk that is not the one awaited is answered and otherwise ignored:
\* it was received before, or its beginning has gone with the temporary file.
Chunk(f, answered) ==
    LET k == sent[f] + 1
        fresh == temp[f] = None
        u == IF fresh THEN Len(made) + 1 ELSE temp[f]
    IN  /\ phase # "erased"
        /\ k <= size[f]
        /\ u \in Uploads
        /\ made' = IF fresh THEN Append(made, f) ELSE made
        /\ temp' = [temp EXCEPT ![f] = u]
        /\ sent' = [sent EXCEPT ![f] = IF answered THEN k ELSE @]
        /\ IF Expected(k, u)
           THEN /\ body' = [body EXCEPT ![u] = Append(@, k)]
                /\ IF k = size[f] THEN Post(f, u) ELSE UNCHANGED <<listed, row, seals, harm, busy>>
                /\ UNCHANGED reading
           ELSE /\ reading' = IF reading # None /\ reading.up = u
                              THEN [reading EXCEPT !.left = <<>>] ELSE reading
                /\ UNCHANGED <<body, listed, row, seals, harm, busy>>
        /\ UNCHANGED <<size, phase, job, disk, old, stops>>

\* The hour of a temporary file is over: its timer started with its first chunk.
\* What still needed it will not find it.
Expire(f) ==
    /\ temp[f] # None
    /\ temp' = [temp EXCEPT ![f] = None]
    /\ Harmed(f, "expired")
    /\ UNCHANGED <<client, made, body, intake, row, delivery, disk, old, busy, stops>>

-----------------------------------------------------------------------------
(* The report *)

\* db_create_submission goes through the list once; each try seals the names in
\* the descriptors of the list, where the next try finds them.
Store ==
    /\ phase = "none"
    /\ phase' = "storing"
    /\ seals' = [u \in Uploads |-> IF u \in listed THEN seals[u] + 1 ELSE seals[u]]
    /\ UNCHANGED <<client, store, listed, row, delivery, disk, old, harm, busy, stops>>

StoreAgain ==
    /\ phase = "storing"
    /\ busy < MaxBusy
    /\ busy' = busy + 1
    /\ phase' = "none"
    /\ harm' = [f \in Files |-> IF \E u \in listed : made[u] = f THEN harm[f] \cup {"run again"} ELSE harm[f]]
    /\ UNCHANGED <<client, store, listed, seals, row, delivery, disk, old, stops>>

\* A file listed after the list was gone through is left behind.
StoreCommit ==
    LET gone == {u \in listed : seals[u] = 0} IN
    /\ phase = "storing"
    /\ phase' = "stored"
    /\ row' = [u \in Uploads |-> IF u \in listed \ gone THEN "new" ELSE row[u]]
    /\ listed' = {}
    /\ harm' = [f \in Files |-> IF \E u \in gone : made[u] = f THEN harm[f] \cup {"late"} ELSE harm[f]]
    /\ UNCHANGED <<client, store, seals, delivery, disk, old, busy, stops>>

\* The report is deleted, and its rows with it.
Erase ==
    /\ phase = "stored"
    /\ phase' = "erased"
    /\ row' = [u \in Uploads |-> "none"]
    /\ UNCHANGED <<client, store, listed, seals, delivery, disk, old, harm, busy, stops>>

-----------------------------------------------------------------------------
(* The Delivery job *)

\* file_delivery: the rows are marked as processed in one transaction.
Mark ==
    LET new == {u \in Uploads : row[u] = "new"} IN
    /\ job = {}
    /\ new # {}
    /\ job' = new
    /\ row' = [u \in Uploads |-> IF u \in new THEN "done" ELSE row[u]]
    /\ UNCHANGED <<client, store, intake, reading, disk, old, harm, busy, stops>>

\* Mutant: the temporary file is left where the next chunk finds it.
Left(u) == temp

\* get_tmp_file_by_name takes the temporary file out of the dictionary.
Taken(u) == [temp EXCEPT ![made[u]] = None]

\* One copy after the other; a temporary file that is not found is logged.
CopyBegin(u) ==
    /\ u \in job
    /\ reading = None
    /\ IF temp[made[u]] = u
       THEN /\ temp' = Taken(u)
            /\ reading' = [up |-> u, left |-> body[u]]
            /\ disk' = [disk EXCEPT ![u] = <<>>]
            /\ UNCHANGED job
       ELSE /\ job' = job \ {u}
            /\ UNCHANGED <<temp, reading, disk>>
    /\ UNCHANGED <<client, made, body, intake, row, old, harm, busy, stops>>

CopyChunk ==
    /\ reading # None
    /\ reading.left # <<>>
    /\ disk' = [disk EXCEPT ![reading.up] = Append(@, Head(reading.left))]
    /\ reading' = [reading EXCEPT !.left = Tail(@)]
    /\ UNCHANGED <<client, store, intake, row, job, old, harm, busy, stops>>

CopyEnd ==
    /\ reading # None
    /\ reading.left = <<>>
    /\ job' = job \ {reading.up}
    /\ reading' = None
    /\ UNCHANGED <<client, store, intake, row, disk, old, harm, busy, stops>>

-----------------------------------------------------------------------------
(* The daily cleaning, and the end of the process *)

\* Mutant: a list of the rows that were ever there.
EverTracked == {u \in Uploads : seals[u] > 0}

Tracked == {u \in Uploads : row[u] # "none"}

\* A day goes by: every copy that is complete is now older than one.
Day ==
    /\ old' = {u \in Uploads : disk[u] # None /\ (reading = None \/ reading.up # u)}
    /\ old' # old
    /\ UNCHANGED <<client, store, intake, row, delivery, disk, harm, busy, stops>>

Outdated(u) == u \in old /\ u \notin Tracked

\* perform_secure_deletion_of_files, with the rows the transaction before it read.
Clean ==
    /\ \E u \in Uploads : Outdated(u)
    /\ disk' = [u \in Uploads |-> IF Outdated(u) THEN None ELSE disk[u]]
    /\ old' = {u \in old : ~Outdated(u)}
    /\ UNCHANGED <<client, store, intake, row, delivery, harm, busy, stops>>

\* The process stops and starts: what was in memory is gone.  The first thing it
\* does then is to remove the copies no row refers to (sync_clean_untracked_files).
Stop ==
    /\ stops < MaxStops
    /\ stops' = stops + 1
    /\ temp' = [f \in Files |-> None]
    /\ listed' = {}
    /\ phase' = IF phase = "storing" THEN "none" ELSE phase
    /\ job' = {}
    /\ reading' = None
    /\ disk' = [u \in Uploads |-> IF u \in Tracked THEN disk[u] ELSE None]
    /\ old' = old \cap Tracked
    /\ harm' = [f \in Files |-> IF \E u \in DOMAIN made : made[u] = f THEN harm[f] \cup {"stopped"} ELSE harm[f]]
    /\ UNCHANGED <<client, made, body, seals, row, busy>>

-----------------------------------------------------------------------------
Next ==
    \/ \E f \in Files, answered \in BOOLEAN : Chunk(f, answered)
    \/ \E f \in Files : Expire(f)
    \/ Store
    \/ StoreAgain
    \/ StoreCommit
    \/ Erase
    \/ Mark
    \/ \E u \in Uploads : CopyBegin(u)
    \/ CopyChunk
    \/ CopyEnd
    \/ Day
    \/ Clean
    \/ Stop

Spec == Init /\ [][Next]_vars

\* The jobs are LoopingCalls, and days go by.
FairSpec ==
    /\ Spec
    /\ WF_vars(Mark)
    /\ WF_vars(\E u \in Uploads : CopyBegin(u))
    /\ WF_vars(CopyChunk)
    /\ WF_vars(CopyEnd)
    /\ WF_vars(Day)
    /\ WF_vars(Clean)

-----------------------------------------------------------------------------
(* Properties *)

\* Every variable has its type.
TypeOK ==
    /\ size \in [Files -> 1..MaxChunks]
    /\ sent \in [Files -> 0..MaxChunks]
    /\ made \in Seq(Files)
    /\ temp \in [Files -> Uploads \cup {None}]
    /\ body \in [Uploads -> Seq(1..MaxChunks)]
    /\ listed \subseteq Uploads
    /\ phase \in {"none", "storing", "stored", "erased"}
    /\ row \in [Uploads -> {"none", "new", "done"}]
    /\ seals \in [Uploads -> Nat]
    /\ job \subseteq Uploads
    /\ reading \in [up : Uploads, left : Seq(1..MaxChunks)] \cup {None}
    /\ disk \in [Uploads -> Seq(1..MaxChunks) \cup {None}]
    /\ old \subseteq Uploads
    /\ harm \in [Files -> SUBSET {"expired", "run again", "refused", "late", "stopped"}]
    /\ busy \in 0..MaxBusy
    /\ stops \in 0..MaxStops

\* Once the Delivery job has processed a file its recipients have all of it, in
\* order and once, under a name they can open.  The job does not come back to a
\* file: what is missing is due to a temporary file that expired, a process that
\* stopped, or a transaction that was run again on a descriptor it had sealed.
DeliveredWhole ==
    \A u \in Uploads :
        row[u] = "done" /\ u \notin job =>
            \/ disk[u] = Whole(made[u]) /\ seals[u] = 1
            \/ harm[made[u]] # {}

\* A client that has had an answer to every chunk has attached the file, though
\* the server answers chunks it does not take: unless the temporary file went in
\* the middle of the upload, or the report had no room for it any more.
AcknowledgedIsAttached ==
    \A f \in Files :
        sent[f] = size[f] /\ phase # "erased" /\ harm[f] = {} => \E u \in Uploads : Attached(u) /\ made[u] = f

\* What is delivered is whole, or known to be harmed, and what was acknowledged
\* chunk by chunk is attached.
UploadsWhole == DeliveredWhole /\ AcknowledgedIsAttached

\* Whatever was registered on a report is eventually copied for its recipients,
\* is known to be harmed, or has gone with the report.
EventuallyDelivered ==
    \A u \in Uploads : row[u] = "new" ~>
        row[u] = "none" \/ harm[made[u]] # {} \/ disk[u] = Whole(made[u])

\* Nothing of a deleted report stays on the disk, not even the copy the Delivery
\* job was about to write when the report was deleted.
ErasedFromDisk == phase = "erased" ~> [](\A u \in Uploads : disk[u] = None)

=============================================================================

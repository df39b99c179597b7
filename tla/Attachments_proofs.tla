-------------------------- MODULE Attachments_proofs --------------------------
(***************************************************************************)
(* Proofs about Attachments, for any files, chunks, expiries, retries and    *)
(* stops.                                                                    *)
(*                                                                           *)
(* A file is whole when it is delivered because each temporary file holds a   *)
(* beginning of its file and nothing else, is complete before its row is made *)
(* and is taken out of the dictionary, where a chunk could still find it,     *)
(* before it is read: what is copied and what is left to read always make up  *)
(* the file.  A file whose chunks were all answered is attached because a     *)
(* chunk is only answered where it was written, or where it came back.        *)
(***************************************************************************)
EXTENDS Attachments, TLAPS

\* The temporary files are numbered in the order they are made; the dictionary leads
\* to files of the name asked for; of a number not given yet there is no trace.
Numbered ==
    /\ Len(made) <= MaxTemp
    /\ \A f \in Files : temp[f] # None => temp[f] \in DOMAIN made /\ made[temp[f]] = f
    /\ \A u \in Uploads : u \notin DOMAIN made =>
          body[u] = <<>> /\ seals[u] = 0 /\ row[u] = "none" /\ u \notin listed /\ u \notin job

\* A temporary file holds a beginning of its file, and all of it once it is attached.
InOrder ==
    \A u \in DOMAIN made :
        /\ Len(body[u]) <= size[made[u]]
        /\ \A k \in 1..Len(body[u]) : body[u][k] = k
        /\ u \in listed \/ row[u] # "none" \/ u \in job => Len(body[u]) = size[made[u]]

\* What the report's phase says of the list, the rows and the job.
Phased ==
    /\ ~Pending => listed = {}
    /\ phase # "stored" => \A u \in Uploads : row[u] = "none"
    /\ \A u \in job : row[u] = "done" \/ phase = "erased"
    /\ reading # None => reading.up \in job

\* Of a file that met no harm the names are sealed when its row is made, and not before.
SealedOnce ==
    \A u \in DOMAIN made : harm[made[u]] = {} =>
        /\ phase = "none" => seals[u] = 0
        /\ phase = "storing" => seals[u] \in {0, 1} /\ (u \notin listed => seals[u] = 0)
        /\ row[u] # "none" => seals[u] = 1

\* Uploads the job has still to find in the dictionary.
Awaited(u) == u \in listed \/ row[u] = "new" \/ (u \in job /\ (reading = None \/ reading.up # u))

\* What the job is going to look up is there, where the file met no harm; what it has
\* taken out nobody else finds.
Findable ==
    /\ \A u \in DOMAIN made : Awaited(u) /\ harm[made[u]] = {} => temp[made[u]] = u
    /\ reading # None => \A f \in Files : temp[f] # reading.up

\* What is not copied yet has no copy, and the copy being written is not an old one.
NotYetCopied ==
    /\ \A u \in Uploads : disk[u] # None =>
          u \in DOMAIN made /\ Len(body[u]) = size[made[u]] /\ ~Awaited(u)
    /\ \A u \in old : disk[u] # None
    /\ reading # None => disk[reading.up] \in Seq(1..MaxChunks) /\ reading.up \notin old

\* The copy being written and what is left to read make up the file.
CopyAndRest ==
    reading # None =>
        LET copy == disk[reading.up]
            rest == reading.left
        IN  /\ Len(copy) + Len(rest) = size[made[reading.up]]
            /\ \A k \in 1..Len(copy) : copy[k] = k
            /\ \A k \in 1..Len(rest) : rest[k] = Len(copy) + k

Copied ==
    \A u \in DOMAIN made : row[u] = "done" /\ u \notin job /\ harm[made[u]] = {} => disk[u] = Whole(made[u])

\* Either a file is attached, or nothing of it was received, or its next chunk is expected
\* where it is going to arrive.
Acknowledged ==
    \A f \in Files : harm[f] = {} /\ phase # "erased" =>
        \/ \E u \in DOMAIN made : Attached(u) /\ made[u] = f
        \/ sent[f] = 0 /\ temp[f] = None
        \/ temp[f] # None /\ sent[f] <= Len(body[temp[f]]) /\ Len(body[temp[f]]) < size[f]

IInv == /\ TypeOK /\ Numbered /\ InOrder /\ Phased /\ SealedOnce
        /\ Findable /\ NotYetCopied /\ CopyAndRest /\ Copied /\ Acknowledged

-----------------------------------------------------------------------------
(* The steps *)

\* Sequences: what an element at the end, or one taken from the front, changes.
LEMMA Appended ==
    ASSUME NEW S, NEW s \in Seq(S), NEW e \in S
    PROVE  /\ Append(s, e) \in Seq(S)
           /\ Len(Append(s, e)) = Len(s) + 1
           /\ DOMAIN Append(s, e) = DOMAIN s \cup {Len(s) + 1}
           /\ Append(s, e)[Len(s) + 1] = e
           /\ \A i \in 1..Len(s) : Append(s, e)[i] = s[i]
OBVIOUS

LEMMA Shortened ==
    ASSUME NEW S, NEW s \in Seq(S), s # << >>
    PROVE  /\ Tail(s) \in Seq(S)
           /\ Head(s) \in S /\ Head(s) = s[1]
           /\ Len(s) > 0 /\ Len(Tail(s)) = Len(s) - 1
           /\ \A i \in 1..Len(Tail(s)) : Tail(s)[i] = s[i + 1]
OBVIOUS

\* The temporary files made so far.
LEMMA Made ==
    ASSUME TypeOK, Numbered
    PROVE  /\ Len(made) \in Nat /\ DOMAIN made = 1..Len(made)
           /\ \A u \in DOMAIN made : made[u] \in Files /\ u \in Uploads
<1>1. made \in Seq(Files)
  BY DEF TypeOK
<1>2. Len(made) <= MaxTemp /\ MaxTemp \in Nat
  BY AttachmentsAssumption DEF Numbered
<1> QED
  BY <1>1, <1>2 DEF Uploads

\* What the job works on is complete, and on nobody's list.
LEMMA AtWork ==
    ASSUME IInv, NEW u \in job
    PROVE  /\ u \in Uploads /\ u \in DOMAIN made
           /\ Len(body[u]) = size[made[u]]
           /\ listed = {} /\ row[u] # "new"
           /\ phase # "erased" => row[u] = "done"
<1>1. u \in Uploads
  BY DEF IInv, TypeOK
<1>2. u \in DOMAIN made
  BY <1>1 DEF IInv, Numbered
<1>3. Len(body[u]) = size[made[u]]
  BY <1>2 DEF IInv, InOrder
<1>4. ~Pending /\ listed = {} /\ row[u] # "new" /\ (phase # "erased" => row[u] = "done")
  BY <1>1 DEF IInv, Phased, Pending
<1> QED
  BY <1>1, <1>2, <1>3, <1>4

\* Initially nothing was sent.
LEMMA Initially == Init => IInv
<1> USE AttachmentsAssumption
<1> SUFFICES ASSUME Init PROVE IInv
  OBVIOUS
<1>1. TypeOK
  BY DEF Init, TypeOK, Uploads
<1>2. made = << >> /\ DOMAIN made = {} /\ Len(made) = 0
  BY DEF Init
<1>3. Numbered /\ InOrder /\ Phased /\ SealedOnce /\ Findable
  BY <1>2 DEF Init, Numbered, InOrder, Phased, SealedOnce, Findable, Uploads, Pending
<1>4. NotYetCopied /\ CopyAndRest /\ Copied
  BY <1>2 DEF Init, NotYetCopied, CopyAndRest, Copied, Awaited, Uploads
<1>5. Acknowledged
  BY DEF Init, Acknowledged
<1> QED
  BY <1>1, <1>3, <1>4, <1>5 DEF IInv

\* The temporary file of a file expires.
LEMMA Expires ==
    ASSUME IInv, NEW f \in Files, Expire(f)
    PROVE  IInv'
<1> USE AttachmentsAssumption DEF IInv, Expire, Harmed, client, intake, delivery
<1>1. TypeOK'
  BY DEF TypeOK
<1>2. \A g \in Files : harm'[g] = {} => g # f /\ harm[g] = {}
  BY DEF TypeOK
<1>3. \A g \in Files : temp'[g] = IF g = f THEN None ELSE temp[g]
  BY DEF TypeOK
<1>4. \A u \in DOMAIN made : made[u] \in Files
  BY Made
<1>5. Numbered' /\ InOrder' /\ Phased'
  BY <1>3 DEF Numbered, InOrder, Phased, Pending
<1>6. SealedOnce'
  BY <1>2, <1>4 DEF SealedOnce
<1>7. Findable'
  <2>1. \A u : Awaited(u)' = Awaited(u)
    BY DEF Awaited
  <2>2. reading' # None => reading'.up \in Uploads
    BY DEF TypeOK
  <2> QED
    BY <1>2, <1>3, <1>4, <2>1, <2>2 DEF Findable, TypeOK, Uploads
<1>8. NotYetCopied' /\ CopyAndRest'
  BY DEF NotYetCopied, CopyAndRest, Awaited
<1>9. Copied'
  BY <1>2, <1>4 DEF Copied, Whole
<1>10. Acknowledged'
  BY <1>2, <1>3 DEF Acknowledged, Attached, Pending
<1> QED
  BY <1>1, <1>5, <1>6, <1>7, <1>8, <1>9, <1>10

\* The report is written: its files are listed, and sealed.
LEMMA Stores ==
    ASSUME IInv, Store
    PROVE  IInv'
<1> USE AttachmentsAssumption DEF IInv, Store, client, store, intake, delivery
<1>1. TypeOK'
  <2>1. \A u \in Uploads : seals[u] \in Nat
    BY DEF TypeOK
  <2>2. seals' \in [Uploads -> Nat]
    BY <2>1
  <2> QED
    BY <2>2 DEF TypeOK
<1>2. Pending /\ Pending' /\ \A u : Awaited(u)' = Awaited(u) /\ Attached(u)' = Attached(u)
  BY DEF Pending, Awaited, Attached
<1>3. Numbered'
  BY DEF Numbered, TypeOK
<1>4. InOrder' /\ Phased'
  BY <1>2 DEF InOrder, Phased
<1>5. SealedOnce'
  <2> SUFFICES ASSUME NEW u \in DOMAIN made, harm[made[u]] = {}
               PROVE  seals'[u] \in {0, 1} /\ (u \notin listed => seals'[u] = 0) /\ row[u] = "none"
    BY DEF SealedOnce
  <2>1. u \in Uploads
    BY Made
  <2>2. seals[u] = 0 /\ row[u] = "none"
    BY <2>1 DEF SealedOnce, Phased
  <2> QED
    BY <2>1, <2>2
<1>6. Findable' /\ NotYetCopied' /\ CopyAndRest'
  BY <1>2 DEF Findable, NotYetCopied, CopyAndRest
<1>7. Copied' /\ Acknowledged'
  BY <1>2 DEF Copied, Acknowledged, Whole
<1> QED
  BY <1>1, <1>3, <1>4, <1>5, <1>6, <1>7

\* The transaction is rolled back, and what it sealed is not.
LEMMA StoresAgain ==
    ASSUME IInv, StoreAgain
    PROVE  IInv'
<1> USE AttachmentsAssumption DEF IInv, StoreAgain, client, store, intake, delivery
<1>1. TypeOK'
  <2>1. ASSUME NEW g \in Files
        PROVE  harm'[g] \in SUBSET {"expired", "run again", "refused", "late", "stopped"}
    <3>1. harm[g] \subseteq {"expired", "run again", "refused", "late", "stopped"}
      BY DEF TypeOK
    <3>2. harm'[g] \subseteq harm[g] \cup {"run again"}
      BY DEF TypeOK
    <3> QED
      BY <3>1, <3>2
  <2>2. harm' \in [Files -> SUBSET {"expired", "run again", "refused", "late", "stopped"}]
    BY <2>1
  <2>3. busy' \in 0..MaxBusy
    <3>1. busy \in 0..MaxBusy
      BY DEF TypeOK
    <3>2. busy < MaxBusy /\ busy' = busy + 1
      OBVIOUS
    <3> HIDE DEF IInv, StoreAgain
    <3> QED
      BY <3>1, <3>2
  <2>5. phase' \in {"none", "storing", "stored", "erased"}
    OBVIOUS
  <2>4. UNCHANGED <<size, sent, made, temp, body, listed, row, seals, job, reading, disk, old, stops>>
    OBVIOUS
  <2> HIDE DEF StoreAgain
  <2> QED
    BY <2>2, <2>3, <2>4, <2>5 DEF TypeOK
<1>2. Pending /\ Pending' /\ \A u : Awaited(u)' = Awaited(u) /\ Attached(u)' = Attached(u)
  BY DEF Pending, Awaited, Attached
<1>3. \A g \in Files : harm'[g] = {} => harm[g] = {} /\ \A u \in listed : made[u] # g
  BY DEF TypeOK
<1>4. \A u \in DOMAIN made : made[u] \in Files
  BY Made
<1>5. Numbered' /\ InOrder' /\ Phased'
  BY <1>2 DEF Numbered, InOrder, Phased
<1>6. SealedOnce'
  BY <1>3, <1>4 DEF SealedOnce
<1>7. Findable' /\ NotYetCopied' /\ CopyAndRest'
  BY <1>2, <1>3, <1>4 DEF Findable, NotYetCopied, CopyAndRest
<1>8. Copied' /\ Acknowledged'
  BY <1>2, <1>3, <1>4 DEF Copied, Acknowledged, Whole
<1> QED
  BY <1>1, <1>5, <1>6, <1>7, <1>8

\* The report is there, with a row for each file that was on the list in time.
LEMMA StoresAtLast ==
    ASSUME IInv, StoreCommit
    PROVE  IInv'
<1> USE AttachmentsAssumption DEF IInv, StoreCommit, client, store, intake, delivery
<1>1. TypeOK'
  <2>1. row' \in [Uploads -> {"none", "new", "done"}]
    BY DEF TypeOK
  <2>2. harm' \in [Files -> SUBSET {"expired", "run again", "refused", "late", "stopped"}]
    BY DEF TypeOK
  <2> QED
    BY <2>1, <2>2 DEF TypeOK
<1>2. Pending /\ ~Pending' /\ \A u \in Uploads : row[u] = "none"
  BY DEF Pending, Phased
<1>3. job = {} /\ reading = None
  BY <1>2 DEF Phased, TypeOK
<1>4. \A u \in Uploads : row'[u] = IF u \in listed /\ seals[u] # 0 THEN "new" ELSE "none"
  BY <1>2 DEF TypeOK
<1>5. \A g \in Files : harm'[g] = {} =>
          harm[g] = {} /\ \A u \in listed : made[u] = g => seals[u] # 0
  BY DEF TypeOK
<1>6. \A u \in DOMAIN made : made[u] \in Files /\ u \in Uploads
  BY Made
<1>7. \A u \in Uploads : Awaited(u)' => Awaited(u)
  BY <1>3, <1>4 DEF Awaited
<1>8. Numbered' /\ InOrder' /\ Phased'
  BY <1>2, <1>3, <1>4, <1>6 DEF Numbered, InOrder, Phased
<1>9. SealedOnce'
  BY <1>4, <1>5, <1>6 DEF SealedOnce
<1>10. Findable' /\ NotYetCopied' /\ CopyAndRest'
  BY <1>3, <1>5, <1>6, <1>7 DEF Findable, NotYetCopied, CopyAndRest
<1>11. Copied'
  BY <1>4, <1>6 DEF Copied
<1>12. Acknowledged'
  <2> SUFFICES ASSUME NEW f \in Files, harm'[f] = {}
               PROVE  \/ \E u \in DOMAIN made : Attached(u)' /\ made[u] = f
                      \/ sent[f] = 0 /\ temp[f] = None
                      \/ temp[f] # None /\ sent[f] <= Len(body[temp[f]]) /\ Len(body[temp[f]]) < size[f]
    BY DEF Acknowledged
  <2>1. ASSUME NEW u \in DOMAIN made, Attached(u), made[u] = f PROVE Attached(u)'
    BY <1>2, <1>4, <1>5, <1>6, <2>1 DEF Attached
  <2> QED
    BY <1>5, <2>1 DEF Acknowledged
<1> QED
  BY <1>1, <1>8, <1>9, <1>10, <1>11, <1>12

\* The report is deleted.
LEMMA Erases ==
    ASSUME IInv, Erase
    PROVE  IInv'
<1> USE AttachmentsAssumption DEF IInv, Erase, client, store, intake, delivery
<1>1. TypeOK'
  BY DEF TypeOK
<1>2. ~Pending /\ ~Pending' /\ listed = {}
  BY DEF Pending, Phased
<1>3. \A u \in Uploads : row'[u] = "none" /\ (Awaited(u)' => Awaited(u))
  BY DEF Awaited
<1>4. \A u \in DOMAIN made : u \in Uploads
  BY Made
<1>5. Numbered' /\ InOrder' /\ Phased'
  BY <1>2, <1>3, <1>4 DEF Numbered, InOrder, Phased
<1>6. SealedOnce' /\ Copied' /\ Acknowledged'
  BY <1>3, <1>4 DEF SealedOnce, Copied, Acknowledged
<1>7. Findable' /\ NotYetCopied' /\ CopyAndRest'
  BY <1>3, <1>4 DEF Findable, NotYetCopied, CopyAndRest
<1> QED
  BY <1>1, <1>5, <1>6, <1>7

\* The job takes the new rows on.
LEMMA Marks ==
    ASSUME IInv, Mark
    PROVE  IInv'
<1> USE AttachmentsAssumption DEF IInv, Mark, client, store, intake, delivery
<1>1. TypeOK'
  BY DEF TypeOK
<1>2. reading = None /\ reading' = None /\ Pending' = Pending
  BY DEF Phased, Pending
<1>3. \A u \in Uploads : row'[u] = IF row[u] = "new" THEN "done" ELSE row[u]
  BY DEF TypeOK
<1>4. job' \subseteq Uploads /\ \A u \in Uploads : u \in job' <=> row[u] = "new"
  OBVIOUS
<1>5. \A u \in Uploads : Awaited(u)' => Awaited(u)
  BY <1>2, <1>3, <1>4 DEF Awaited
<1>6. \A u \in DOMAIN made : u \in Uploads
  BY Made
<1>7. Numbered' /\ InOrder' /\ Phased'
  BY <1>2, <1>3, <1>4, <1>6 DEF Numbered, InOrder, Phased
<1>8. SealedOnce'
  BY <1>3, <1>6 DEF SealedOnce
<1>9. Findable' /\ NotYetCopied' /\ CopyAndRest'
  BY <1>2, <1>5, <1>6 DEF Findable, NotYetCopied, CopyAndRest
<1>10. Copied'
  BY <1>3, <1>4, <1>6 DEF Copied, Whole
<1>11. Acknowledged'
  BY <1>2, <1>3, <1>6 DEF Acknowledged, Attached
<1> QED
  BY <1>1, <1>7, <1>8, <1>9, <1>10, <1>11

\* The job looks a temporary file up, and takes it out or gives it up.
LEMMA BeginsCopy ==
    ASSUME IInv, NEW u \in Uploads, CopyBegin(u)
    PROVE  IInv'
<1> USE AttachmentsAssumption DEF IInv, CopyBegin, client, store, intake, delivery
<1>1. u \in job /\ reading = None /\ u \in DOMAIN made /\ made[u] \in Files
  BY Made, AtWork
<1>2. Len(body[u]) = size[made[u]] /\ listed = {} /\ row[u] # "new"
  BY <1>1, AtWork
<1>3. phase # "erased" => row[u] = "done"
  BY <1>1, AtWork
<1>4. Pending' = Pending /\ \A v : Attached(v)' = Attached(v)
  BY DEF Pending, Attached
<1>5. \A v \in DOMAIN made : made[v] \in Files /\ v \in Uploads
  BY Made
<1>6. u \notin old /\ Awaited(u)
  BY <1>1 DEF NotYetCopied, Awaited
<1>7. CASE temp[made[u]] = u
  <2>0. temp' = [temp EXCEPT ![made[u]] = None]
    BY <1>7 DEF Taken
  <2>1. \A f \in Files : temp'[f] = IF f = made[u] THEN None ELSE temp[f]
    BY <2>0 DEF TypeOK
  <2>a. body[u] \in Seq(1..MaxChunks)
    BY DEF TypeOK
  <2>b. reading' = [up |-> u, left |-> body[u]]
    BY <1>7
  <2>2. /\ reading' \in [up : Uploads, left : Seq(1..MaxChunks)]
        /\ reading' # None /\ reading'.up = u /\ reading'.left = body[u]
    BY <2>a, <2>b
  <2>3. disk' = [disk EXCEPT ![u] = << >>] /\ job' = job
    BY <1>7
  <2>c. << >> \in Seq(1..MaxChunks)
    <3> HIDE DEF IInv, CopyBegin
    <3> QED
      OBVIOUS
  <2>d. disk \in [Uploads -> Seq(1..MaxChunks) \cup {None}]
    BY DEF TypeOK
  <2>4. disk' \in [Uploads -> Seq(1..MaxChunks) \cup {None}]
    BY <2>3, <2>c, <2>d
  <2>5. disk'[u] = << >> /\ \A v \in Uploads : v # u => disk'[v] = disk[v]
    BY <2>3, <2>d
  <2>6. TypeOK'
    BY <1>1, <2>0, <2>2, <2>3, <2>4 DEF TypeOK
  <2>7. \A v \in Uploads : Awaited(v)' => v # u /\ Awaited(v)
    BY <1>1, <1>2, <2>2, <2>3 DEF Awaited
  <2>8. Numbered'
    BY <2>1, <2>3 DEF Numbered
  <2>9. InOrder' /\ Phased' /\ SealedOnce'
    BY <1>1, <1>4, <2>2, <2>3 DEF InOrder, Phased, SealedOnce
  <2>10. Findable'
    <3>1. ASSUME NEW f \in Files PROVE temp'[f] # u
      BY <1>1, <1>7, <2>1, AttachmentsAssumption DEF Numbered
    <3>2. ASSUME NEW v \in DOMAIN made, Awaited(v)', harm[made[v]] = {} PROVE temp'[made[v]] = v
      <4>1. v # u /\ temp[made[v]] = v
        BY <1>5, <2>7, <3>2 DEF Findable
      <4> QED
        BY <1>5, <1>7, <2>1, <4>1
    <3> QED
      BY <2>2, <3>1, <3>2 DEF Findable
  <2>11. NotYetCopied'
    <3>1. ASSUME NEW v \in Uploads, disk'[v] # None
          PROVE  v \in DOMAIN made /\ Len(body[v]) = size[made[v]] /\ ~Awaited(v)'
      BY <1>1, <1>2, <2>5, <2>7, <3>1 DEF NotYetCopied
    <3>2. ASSUME NEW v \in old PROVE disk'[v] # None
      BY <1>6, <2>5, <3>2 DEF NotYetCopied, TypeOK
    <3> QED
      BY <1>6, <2>2, <2>5, <2>c, <3>1, <3>2 DEF NotYetCopied
  <2>12. CopyAndRest'
    <3>1. Len(disk'[u]) = 0 /\ Len(body[u]) \in Nat
      BY <2>a, <2>5
    <3>2. \A k \in 1..Len(body[u]) : body[u][k] = k
      BY <1>1 DEF InOrder
    <3>3. Len(disk'[u]) + Len(body[u]) = size[made[u]]
      BY <1>2, <3>1
    <3>4. \A k \in 1..Len(body[u]) : body[u][k] = Len(disk'[u]) + k
      BY <3>1, <3>2
    <3>5. \A k \in 1..Len(disk'[u]) : disk'[u][k] = k
      BY <3>1
    <3>6. UNCHANGED <<size, made>>
      OBVIOUS
    <3> HIDE DEF IInv, CopyBegin
    <3> QED
      BY <2>2, <3>3, <3>4, <3>5, <3>6 DEF CopyAndRest
  <2>13. Copied'
    BY <1>1, <1>5, <2>3, <2>5 DEF Copied, Whole
  <2>14. Acknowledged'
    <3>1. phase # "erased" => Attached(u)
      BY <1>3 DEF Attached
    <3> QED
      BY <1>1, <1>4, <2>1, <3>1 DEF Acknowledged
  <2> QED
    BY <2>6, <2>8, <2>9, <2>10, <2>11, <2>12, <2>13, <2>14
<1>8. CASE temp[made[u]] # u
  <2>1. job' = job \ {u} /\ UNCHANGED <<temp, reading, disk>>
    BY <1>8
  <2>2. harm[made[u]] # {}
    BY <1>1, <1>6, <1>8 DEF Findable
  <2>3. \A v : Awaited(v)' => Awaited(v)
    BY <2>1 DEF Awaited
  <2>4. TypeOK' /\ Numbered'
    BY <2>1 DEF TypeOK, Numbered
  <2>5. InOrder' /\ Phased' /\ SealedOnce'
    BY <1>1, <1>4, <2>1 DEF InOrder, Phased, SealedOnce
  <2>6. Findable' /\ NotYetCopied' /\ CopyAndRest'
    BY <1>1, <2>1, <2>3 DEF Findable, NotYetCopied, CopyAndRest
  <2>7. Copied' /\ Acknowledged'
    BY <1>4, <2>1, <2>2 DEF Copied, Whole, Acknowledged
  <2> QED
    BY <2>4, <2>5, <2>6, <2>7
<1> QED
  BY <1>7, <1>8

\* One more chunk is copied.
LEMMA Copies ==
    ASSUME IInv, CopyChunk
    PROVE  IInv'
<1> DEFINE u == reading.up
           copy == disk[u]
           rest == reading.left
           copy1 == Append(copy, Head(rest))
           rest1 == Tail(rest)
<1>1. u \in job /\ u \in Uploads /\ rest \in Seq(1..MaxChunks) /\ copy \in Seq(1..MaxChunks)
  BY DEF IInv, CopyChunk, Phased, NotYetCopied, TypeOK
<1>2. /\ u \in DOMAIN made /\ made[u] \in Files
      /\ Len(body[u]) = size[made[u]] /\ listed = {} /\ row[u] # "new"
  BY <1>1, AtWork, Made DEF IInv
<1>3. rest # << >> /\ reading' = [reading EXCEPT !.left = rest1] /\ disk' = [disk EXCEPT ![u] = copy1]
  BY DEF CopyChunk
<1>4. /\ rest1 \in Seq(1..MaxChunks) /\ Head(rest) \in 1..MaxChunks /\ Head(rest) = rest[1]
      /\ Len(rest) > 0 /\ Len(rest1) = Len(rest) - 1
      /\ \A i \in 1..Len(rest1) : rest1[i] = rest[i + 1]
  BY <1>1, <1>3, Shortened
<1>5. /\ copy1 \in Seq(1..MaxChunks)
      /\ Len(copy1) = Len(copy) + 1
      /\ copy1[Len(copy) + 1] = Head(rest)
      /\ \A i \in 1..Len(copy) : copy1[i] = copy[i]
  BY <1>1, <1>4, Appended
<1>6. Len(copy) \in Nat /\ Len(rest) \in Nat
  BY <1>1
<1>7. /\ Len(copy) + Len(rest) = size[made[u]]
      /\ \A k \in 1..Len(copy) : copy[k] = k
      /\ \A k \in 1..Len(rest) : rest[k] = Len(copy) + k
  BY DEF IInv, CopyChunk, CopyAndRest
<1> HIDE DEF copy, rest, copy1, rest1
<1>8. Len(copy1) + Len(rest1) = size[made[u]]
  BY <1>4, <1>5, <1>6, <1>7
<1>9. \A k \in 1..Len(copy1) : copy1[k] = k
  BY <1>4, <1>5, <1>6, <1>7
<1>10. \A k \in 1..Len(rest1) : rest1[k] = Len(copy1) + k
  BY <1>4, <1>5, <1>6, <1>7
<1>11. reading \in [up : Uploads, left : Seq(1..MaxChunks)]
  BY DEF IInv, CopyChunk, TypeOK
<1>12. /\ reading' \in [up : Uploads, left : Seq(1..MaxChunks)]
       /\ reading' # None /\ reading'.up = u /\ reading'.left = rest1
  BY <1>3, <1>4, <1>11, AttachmentsAssumption
<1> HIDE DEF u
<1>13. disk' \in [Uploads -> Seq(1..MaxChunks) \cup {None}]
  BY <1>1, <1>3, <1>5 DEF IInv, TypeOK
<1>14. disk'[u] = copy1 /\ \A v \in Uploads : v # u => disk'[v] = disk[v]
  BY <1>1, <1>3 DEF IInv, TypeOK
<1> USE DEF client, store, intake, delivery, CopyChunk
<1>15. TypeOK'
  BY <1>12, <1>13 DEF IInv, TypeOK
<1>16. reading # None /\ reading.up = u /\ \A v : Awaited(v)' = Awaited(v)
  BY <1>12 DEF Awaited, u
<1>17. Numbered' /\ InOrder' /\ SealedOnce'
  BY DEF IInv, Numbered, InOrder, SealedOnce, Pending
<1>18. Phased'
  BY <1>1, <1>12 DEF IInv, Phased, Pending
<1>19. Findable'
  BY <1>12, <1>16 DEF IInv, Findable
<1>20. NotYetCopied'
  <2>1. ~Awaited(u)
    BY <1>1, <1>2, <1>16 DEF Awaited
  <2>2. ASSUME NEW v \in Uploads, disk'[v] # None
        PROVE  v \in DOMAIN made /\ Len(body[v]) = size[made[v]] /\ ~Awaited(v)'
    BY <1>2, <1>14, <1>16, <2>1, <2>2 DEF IInv, NotYetCopied
  <2>3. u \notin old /\ \A v \in old : v \in Uploads /\ disk[v] # None
    BY <1>16 DEF IInv, NotYetCopied, TypeOK
  <2>4. disk'[u] \in Seq(1..MaxChunks) /\ \A v \in old : disk'[v] # None
    BY <1>5, <1>14, <2>3
  <2> QED
    BY <1>12, <2>2, <2>3, <2>4 DEF NotYetCopied
<1>21. CopyAndRest'
  BY <1>8, <1>9, <1>10, <1>12, <1>14 DEF CopyAndRest
<1>22. Copied'
  BY <1>1, <1>14, Made DEF IInv, Copied, Whole
<1>23. Acknowledged'
  BY DEF IInv, Acknowledged, Attached, Pending
<1> QED
  BY <1>15, <1>17, <1>18, <1>19, <1>20, <1>21, <1>22, <1>23 DEF IInv

\* The copy is complete.
LEMMA EndsCopy ==
    ASSUME IInv, CopyEnd
    PROVE  IInv'
<1> USE AttachmentsAssumption DEF IInv, CopyEnd, client, store, intake, delivery
<1> DEFINE u == reading.up
           copy == disk[u]
<1>1. u \in job /\ u \in Uploads /\ copy \in Seq(1..MaxChunks)
  BY DEF Phased, NotYetCopied, TypeOK
<1>2. u \in DOMAIN made /\ made[u] \in Files
  BY <1>1, Made, AtWork
<1>3. TypeOK' /\ Numbered'
  BY DEF TypeOK, Numbered
<1>4. \A v : Awaited(v)' => Awaited(v)
  BY DEF Awaited
<1>5. InOrder' /\ Phased' /\ SealedOnce'
  BY DEF InOrder, Phased, SealedOnce, Pending
<1>6. Findable' /\ NotYetCopied' /\ CopyAndRest'
  BY <1>4 DEF Findable, NotYetCopied, CopyAndRest
<1>7. copy = Whole(made[u])
  <2>1. Len(reading.left) = 0 /\ Len(copy) \in Nat
    BY <1>1
  <2>2. Len(copy) = size[made[u]] /\ \A k \in 1..Len(copy) : copy[k] = k
    BY <2>1 DEF CopyAndRest
  <2>3. copy = [k \in 1..Len(copy) |-> copy[k]]
    BY <1>1
  <2> QED
    BY <2>2, <2>3 DEF Whole
<1>8. Copied'
  BY <1>7 DEF Copied, Whole
<1>9. Acknowledged'
  BY DEF Acknowledged, Attached, Pending
<1> QED
  BY <1>3, <1>5, <1>6, <1>8, <1>9

\* A day goes by.
LEMMA DayGoesBy ==
    ASSUME IInv, Day
    PROVE  IInv'
<1> USE AttachmentsAssumption DEF IInv, Day, client, store, intake, delivery
<1>1. TypeOK' /\ Numbered'
  BY DEF TypeOK, Numbered
<1>2. \A v : Awaited(v)' = Awaited(v)
  BY DEF Awaited
<1>3. InOrder' /\ Phased' /\ SealedOnce' /\ Findable'
  BY <1>2 DEF InOrder, Phased, SealedOnce, Pending, Findable
<1>4. NotYetCopied'
  BY <1>2 DEF NotYetCopied
<1>5. CopyAndRest' /\ Copied' /\ Acknowledged'
  BY DEF CopyAndRest, Copied, Whole, Acknowledged, Attached, Pending
<1> QED
  BY <1>1, <1>3, <1>4, <1>5

\* The daily cleaning erases old copies no row refers to.
LEMMA Cleans ==
    ASSUME IInv, Clean
    PROVE  IInv'
<1> USE AttachmentsAssumption DEF IInv, Clean, client, store, intake, delivery
<1>1. \A v \in Uploads : disk'[v] = IF Outdated(v) THEN None ELSE disk[v]
  OBVIOUS
<1>2. disk' \in [Uploads -> Seq(1..MaxChunks) \cup {None}] /\ old' \subseteq Uploads
  BY DEF TypeOK
<1>3. TypeOK' /\ Numbered'
  BY <1>2 DEF TypeOK, Numbered
<1>4. \A v : Awaited(v)' = Awaited(v)
  BY DEF Awaited
<1>5. InOrder' /\ Phased' /\ SealedOnce' /\ Findable'
  BY <1>4 DEF InOrder, Phased, SealedOnce, Pending, Findable
<1>6. reading # None => reading.up \in Uploads /\ disk'[reading.up] = disk[reading.up]
  BY <1>1 DEF NotYetCopied, Outdated, TypeOK
<1>7. NotYetCopied'
  BY <1>1, <1>4, <1>6 DEF NotYetCopied, TypeOK
<1>8. CopyAndRest'
  BY <1>6 DEF CopyAndRest
<1>9. Copied'
  BY <1>1, Made DEF Copied, Whole, Outdated, Tracked
<1>10. Acknowledged'
  BY DEF Acknowledged, Attached, Pending
<1> QED
  BY <1>3, <1>5, <1>7, <1>8, <1>9, <1>10

\* The process stops: every file it had begun to receive may be harmed.
LEMMA Stops ==
    ASSUME IInv, Stop
    PROVE  IInv'
<1> USE AttachmentsAssumption DEF IInv, Stop, client
<1>1. \A v \in DOMAIN made : v \in Uploads /\ made[v] \in Files /\ harm'[made[v]] # {}
  BY Made DEF TypeOK
<1>2. \A f \in Files : harm'[f] = {} => harm[f] = {} /\ \A v \in DOMAIN made : made[v] # f
  BY <1>1 DEF TypeOK
<1>3. TypeOK'
  <2>1. harm' \in [Files -> SUBSET {"expired", "run again", "refused", "late", "stopped"}]
    <3>1. ASSUME NEW g \in Files
          PROVE  harm'[g] \in SUBSET {"expired", "run again", "refused", "late", "stopped"}
      <4>1. harm[g] \subseteq {"expired", "run again", "refused", "late", "stopped"}
        BY DEF TypeOK
      <4>2. harm'[g] \subseteq harm[g] \cup {"stopped"}
        BY DEF TypeOK
      <4> QED
        BY <4>1, <4>2
    <3> QED
      BY <3>1
  <2>2. disk' \in [Uploads -> Seq(1..MaxChunks) \cup {None}] /\ old' \subseteq Uploads
    BY DEF TypeOK
  <2>3. /\ temp' \in [Files -> Uploads \cup {None}] /\ listed' = {} /\ job' = {} /\ reading' = None
        /\ phase' \in {"none", "storing", "stored", "erased"}
    BY DEF TypeOK
  <2>5. stops' \in 0..MaxStops
    <3>1. stops \in 0..MaxStops
      BY DEF TypeOK
    <3>2. stops < MaxStops /\ stops' = stops + 1
      OBVIOUS
    <3> HIDE DEF IInv, Stop
    <3> QED
      BY <3>1, <3>2
  <2>4. UNCHANGED <<size, sent, made, body, seals, row, busy>>
    OBVIOUS
  <2> HIDE DEF Stop
  <2> QED
    BY <2>1, <2>2, <2>3, <2>4, <2>5 DEF TypeOK
<1>4. Numbered' /\ InOrder'
  BY DEF Numbered, InOrder
<1>5. Phased'
  BY DEF Phased, Pending
<1>6. SealedOnce' /\ Findable' /\ Copied'
  BY <1>1 DEF SealedOnce, Findable, Copied
<1>7. NotYetCopied'
  <2>1. ASSUME NEW v \in Uploads, disk'[v] # None
        PROVE  v \in DOMAIN made /\ Len(body[v]) = size[made[v]] /\ ~Awaited(v)'
    <3>1. disk[v] # None
      BY <2>1
    <3> QED
      BY <3>1 DEF NotYetCopied, Awaited
  <2>2. \A v \in old' : disk'[v] # None
    BY DEF NotYetCopied, TypeOK
  <2> QED
    BY <2>1, <2>2 DEF NotYetCopied
<1>8. CopyAndRest'
  BY DEF CopyAndRest
<1>9. Acknowledged'
  <2> SUFFICES ASSUME NEW f \in Files, harm'[f] = {}, phase' # "erased" PROVE sent[f] = 0 /\ temp'[f] = None
    BY DEF Acknowledged
  <2>1. harm[f] = {} /\ phase # "erased" /\ \A v \in DOMAIN made : made[v] # f
    BY <1>2
  <2>2. temp[f] = None
    BY <2>1 DEF Numbered
  <2> QED
    BY <2>1, <2>2 DEF Acknowledged
<1> QED
  BY <1>3, <1>4, <1>5, <1>6, <1>7, <1>8, <1>9

\* Attaching changes nothing but the file's own entry: the three outcomes of a
\* registration, and the list.
Posted(f, u) ==
    /\ \/ listed' = listed \cup {u} /\ Pending /\ UNCHANGED <<row, seals, harm>>
       \/ /\ ~Pending /\ UNCHANGED listed
          /\ \/ row' = [row EXCEPT ![u] = "new"] /\ seals' = [seals EXCEPT ![u] = 1] /\ UNCHANGED harm
             \/ /\ row' = [row EXCEPT ![u] = "new"] /\ seals' = [seals EXCEPT ![u] = 2]
                /\ harm' = [harm EXCEPT ![f] = @ \cup {"run again"}]
             \/ harm' = [harm EXCEPT ![f] = @ \cup {"refused"}] /\ UNCHANGED <<row, seals>>
    /\ busy' \in 0..MaxBusy

LEMMA Posts ==
    ASSUME TypeOK, NEW f \in Files, NEW u \in Uploads, Post(f, u)
    PROVE  Posted(f, u)
<1>1. busy \in 0..MaxBusy /\ MaxBusy \in Nat
  BY AttachmentsAssumption DEF TypeOK
<1>2. CASE Pending
  BY <1>1, <1>2 DEF Post, Listed, Posted
<1>3. CASE ~Pending
  <2>1. Registered(f, u)
    BY <1>3 DEF Post
  <2>2. UNCHANGED busy \/ (busy < MaxBusy /\ busy' = busy + 1)
    BY <2>1 DEF Registered
  <2>3. busy' \in 0..MaxBusy
    BY <1>1, <2>2
  <2> QED
    BY <1>3, <2>1, <2>3 DEF Registered, Harmed, Posted
<1> QED
  BY <1>2, <1>3

\* A chunk arrives: at the temporary file of its file, or at a new one.
LEMMA Receives ==
    ASSUME IInv, NEW f \in Files, NEW answered \in BOOLEAN, Chunk(f, answered)
    PROVE  IInv'
<1> DEFINE k == sent[f] + 1
           fresh == temp[f] = None
           u == IF fresh THEN Len(made) + 1 ELSE temp[f]
           Same == UNCHANGED <<body, listed, row, seals, harm, busy>>
           Grown == body' = [body EXCEPT ![u] = Append(@, k)]
<1>1. /\ phase # "erased" /\ k <= size[f] /\ u \in Uploads
      /\ made' = (IF fresh THEN Append(made, f) ELSE made)
      /\ temp' = [temp EXCEPT ![f] = u]
      /\ sent' = [sent EXCEPT ![f] = IF answered THEN k ELSE @]
      /\ UNCHANGED <<size, phase, job, disk, old, stops>>
  BY DEF Chunk
<1>2. \/ Expected(k, u) /\ Grown /\ k = size[f] /\ Post(f, u) /\ UNCHANGED reading
      \/ Expected(k, u) /\ Grown /\ k # size[f] /\ UNCHANGED <<listed, row, seals, harm, busy, reading>>
      \/ ~Expected(k, u) /\ Same /\ reading' = IF reading # None /\ reading.up = u
                                                THEN [reading EXCEPT !.left = << >>] ELSE reading
  BY DEF Chunk
<1>3. TypeOK /\ Numbered /\ InOrder /\ Phased /\ NotYetCopied
  BY DEF IInv
<1>4. size[f] \in 1..MaxChunks /\ k \in 1..MaxChunks /\ sent[f] \in Nat /\ MaxChunks \in Nat /\ None \notin Uploads
  <2>1. size[f] \in 1..MaxChunks /\ sent[f] \in 0..MaxChunks
    BY <1>3 DEF TypeOK
  <2>2. k <= size[f]
    BY <1>1
  <2> QED
    BY <2>1, <2>2, AttachmentsAssumption
<1>5. /\ Len(made) \in Nat /\ DOMAIN made = 1..Len(made) /\ made \in Seq(Files)
      /\ \A v \in DOMAIN made : made[v] \in Files /\ v \in Uploads
  BY <1>3, Made DEF TypeOK
<1>6. fresh => u = Len(made) + 1 /\ u \notin DOMAIN made
  BY <1>5
<1>7. ~fresh => u \in DOMAIN made /\ made[u] = f
  BY <1>3 DEF Numbered
<1> HIDE DEF u, k, fresh
<1>8. /\ made' \in Seq(Files) /\ Len(made') <= MaxTemp
      /\ DOMAIN made' = DOMAIN made \cup {u} /\ made'[u] = f
      /\ \A v \in DOMAIN made : made'[v] = made[v]
  <2>1. CASE fresh
    <3>1. made' = Append(made, f)
      BY <1>1, <2>1
    <3>2. /\ made' \in Seq(Files) /\ Len(made') = Len(made) + 1
          /\ DOMAIN made' = DOMAIN made \cup {Len(made) + 1} /\ made'[Len(made) + 1] = f
          /\ \A i \in 1..Len(made) : made'[i] = made[i]
      BY <1>5, <3>1, Appended
    <3> QED
      BY <1>1, <1>5, <1>6, <2>1, <3>2, AttachmentsAssumption DEF Uploads
  <2>2. CASE ~fresh
    BY <1>1, <1>3, <1>5, <1>7, <2>2 DEF Numbered
  <2> QED
    BY <2>1, <2>2
<1>9. /\ \A g \in Files : temp'[g] = IF g = f THEN u ELSE temp[g]
      /\ \A g \in Files : sent'[g] = IF g = f THEN (IF answered THEN k ELSE sent[f]) ELSE sent[g]
  BY <1>1, <1>3 DEF TypeOK
<1>10. reading' = reading /\ (reading # None => reading.up # u)
  <2>1. ASSUME reading # None PROVE reading.up # u
    <3>1. reading.up \in DOMAIN made
      BY <1>3, <2>1, AtWork DEF Phased
    <3>2. temp[f] # reading.up
      BY <2>1 DEF IInv, Findable
    <3> QED
      BY <1>6, <3>1, <3>2 DEF u
  <2> QED
    BY <1>2, <2>1
\* What is still incomplete is on no list and has no copy.
<1>11. /\ body[u] \in Seq(1..MaxChunks)
       /\ Len(body[u]) \in Nat /\ Len(body[u]) <= size[f]
       /\ \A i \in 1..Len(body[u]) : body[u][i] = i
       /\ u \in listed \/ row[u] # "none" \/ u \in job => ~fresh /\ Len(body[u]) = size[f]
  <2>1. body[u] \in Seq(1..MaxChunks)
    BY <1>1, <1>3 DEF TypeOK
  <2>2. CASE fresh
    <3>1. body[u] = << >> /\ u \notin listed /\ row[u] = "none" /\ u \notin job
      BY <1>1, <1>3, <1>6, <2>2 DEF Numbered
    <3> QED
      BY <1>4, <2>1, <3>1
  <2>3. CASE ~fresh
    BY <1>3, <1>7, <2>1, <2>3 DEF InOrder
  <2> QED
    BY <2>2, <2>3
<1>12. disk[u] # None => ~fresh /\ Len(body[u]) = size[f]
  BY <1>1, <1>3, <1>6, <1>7 DEF NotYetCopied
<1>13. ASSUME Expected(k, u)
       PROVE  /\ Len(body[u]) = k - 1 /\ Len(body[u]) < size[f] /\ disk[u] = None
              /\ u \notin listed /\ row[u] = "none" /\ u \notin job
  BY <1>1, <1>4, <1>11, <1>12, <1>13 DEF Expected
<1>14. ASSUME Expected(k, u), Grown
       PROVE  /\ body' \in [Uploads -> Seq(1..MaxChunks)] /\ Len(body'[u]) = k
              /\ \A i \in 1..Len(body'[u]) : body'[u][i] = i
              /\ \A v \in Uploads : v # u => body'[v] = body[v]
  <2>1. body \in [Uploads -> Seq(1..MaxChunks)]
    BY <1>3 DEF TypeOK
  <2>2. body'[u] = Append(body[u], k) /\ \A v \in Uploads : v # u => body'[v] = body[v]
    BY <1>1, <1>14, <2>1
  <2>3. /\ body'[u] \in Seq(1..MaxChunks) /\ Len(body'[u]) = Len(body[u]) + 1
        /\ body'[u][Len(body[u]) + 1] = k
        /\ \A i \in 1..Len(body[u]) : body'[u][i] = body[u][i]
    BY <1>4, <1>11, <2>2, Appended
  <2>4. body' \in [Uploads -> Seq(1..MaxChunks)]
    BY <1>1, <1>14, <2>1, <2>2, <2>3
  <2> QED
    BY <1>4, <1>11, <1>13, <1>14, <2>2, <2>3, <2>4
<1>15. Expected(k, u) /\ k = size[f] /\ Post(f, u) => Posted(f, u)
  BY <1>1, <1>3, Posts
\* What the three outcomes have in common.
<1>16. /\ \A v \in Uploads : v # u =>
               body'[v] = body[v] /\ row'[v] = row[v] /\ seals'[v] = seals[v] /\ (v \in listed' <=> v \in listed)
       /\ \A g \in Files : harm'[g] = {} => harm[g] = {}
       /\ body' \in [Uploads -> Seq(1..MaxChunks)]
       /\ seals' \in [Uploads -> Nat] /\ row' \in [Uploads -> {"none", "new", "done"}]
       /\ harm' \in [Files -> SUBSET {"expired", "run again", "refused", "late", "stopped"}]
       /\ listed' \subseteq Uploads /\ busy' \in 0..MaxBusy
  <2>1. /\ row \in [Uploads -> {"none", "new", "done"}] /\ seals \in [Uploads -> Nat]
        /\ harm \in [Files -> SUBSET {"expired", "run again", "refused", "late", "stopped"}]
        /\ body \in [Uploads -> Seq(1..MaxChunks)] /\ listed \subseteq Uploads /\ busy \in 0..MaxBusy
    BY <1>3 DEF TypeOK
  <2>2. CASE Posted(f, u) /\ Expected(k, u) /\ Grown
    <3>1. /\ \A v \in Uploads : v # u => row'[v] = row[v] /\ seals'[v] = seals[v]
          /\ row' \in [Uploads -> {"none", "new", "done"}] /\ seals' \in [Uploads -> Nat]
      <4>1. row' = row \/ row' = [row EXCEPT ![u] = "new"]
        BY <2>2 DEF Posted
      <4>2. PICK n \in Nat : seals' = seals \/ seals' = [seals EXCEPT ![u] = n]
        BY <2>2 DEF Posted
      <4>3. row' \in [Uploads -> {"none", "new", "done"}] /\ \A v \in Uploads : v # u => row'[v] = row[v]
        BY <1>1, <2>1, <4>1
      <4>4. seals' \in [Uploads -> Nat] /\ \A v \in Uploads : v # u => seals'[v] = seals[v]
        <5>1. seals \in [Uploads -> Nat] /\ u \in Uploads
          BY <1>1, <2>1
        <5> QED
          BY <4>2, <5>1
      <4> QED
        BY <4>3, <4>4
    <3>2. /\ \A v \in Uploads : v # u => (v \in listed' <=> v \in listed)
          /\ listed' \subseteq Uploads /\ busy' \in 0..MaxBusy
      BY <1>1, <2>1, <2>2 DEF Posted
    <3>3. harm' = harm \/ \E e \in {"run again", "refused"} : harm' = [harm EXCEPT ![f] = @ \cup {e}]
      BY <2>2 DEF Posted
    <3>4. /\ \A g \in Files : harm'[g] = {} => harm[g] = {}
          /\ harm' \in [Files -> SUBSET {"expired", "run again", "refused", "late", "stopped"}]
      BY <2>1, <3>3
    <3> QED
      BY <1>14, <2>2, <3>1, <3>2, <3>4
  <2>3. CASE Expected(k, u) /\ Grown /\ UNCHANGED <<listed, row, seals, harm, busy>>
    BY <1>14, <2>1, <2>3
  <2>4. CASE Same
    BY <2>1, <2>4
  <2> QED
    BY <1>2, <1>15, <2>2, <2>3, <2>4
<1>17. TypeOK'
  <2>1. temp' \in [Files -> Uploads \cup {None}] /\ sent' \in [Files -> 0..MaxChunks]
    <3>1. temp \in [Files -> Uploads \cup {None}] /\ sent \in [Files -> 0..MaxChunks]
      BY <1>3 DEF TypeOK
    <3>2. k \in 0..MaxChunks
      BY <1>4
    <3> QED
      BY <1>1, <3>1, <3>2
  <2> QED
    BY <1>1, <1>3, <1>8, <1>10, <1>16, <2>1 DEF TypeOK
<1>18. Pending' = Pending
  BY <1>1 DEF Pending
\* What becomes of the file itself.
<1>19. /\ Len(body'[u]) <= size[f]
       /\ \A i \in 1..Len(body'[u]) : body'[u][i] = i
       /\ u \in listed' \/ row'[u] # "none" \/ u \in job => Len(body'[u]) = size[f]
  BY <1>1, <1>2, <1>4, <1>11, <1>13, <1>14, <1>15 DEF Posted
<1>20. Numbered'
  <2>1. ASSUME NEW v \in Uploads, v \notin DOMAIN made'
        PROVE  body'[v] = << >> /\ seals'[v] = 0 /\ row'[v] = "none" /\ v \notin listed' /\ v \notin job
    BY <1>3, <1>8, <1>16, <2>1 DEF Numbered
  <2>2. ASSUME NEW g \in Files, temp'[g] # None
        PROVE  temp'[g] \in DOMAIN made' /\ made'[temp'[g]] = g
    <3>1. CASE g = f
      BY <1>8, <1>9, <3>1
    <3>2. CASE g # f
      BY <1>3, <1>8, <1>9, <2>2, <3>2 DEF Numbered
    <3> QED
      BY <3>1, <3>2
  <2> QED
    BY <1>1, <1>8, <2>1, <2>2 DEF Numbered
<1>21. InOrder'
  <2> SUFFICES ASSUME NEW v \in DOMAIN made, v # u
               PROVE  /\ Len(body'[v]) <= size[made[v]]
                      /\ \A i \in 1..Len(body'[v]) : body'[v][i] = i
                      /\ v \in listed' \/ row'[v] # "none" \/ v \in job => Len(body'[v]) = size[made[v]]
    BY <1>1, <1>8, <1>19 DEF InOrder
  <2> QED
    BY <1>3, <1>5, <1>16 DEF InOrder
<1>22. Phased'
  <2>1. listed' = listed \/ Pending
    BY <1>2, <1>15 DEF Posted
  <2>2. row' = row \/ phase = "stored"
    BY <1>1, <1>2, <1>15, <1>3 DEF Posted, Pending, TypeOK
  <2>3. \A v \in job : row'[v] = row[v]
    BY <1>2, <1>3, <1>13, <1>16 DEF TypeOK
  <2> QED
    BY <1>1, <1>3, <1>10, <1>18, <2>1, <2>2, <2>3 DEF Phased
<1>23. SealedOnce'
  <2>1. ASSUME NEW v \in DOMAIN made, v # u, harm'[made[v]] = {}
        PROVE  /\ phase = "none" => seals'[v] = 0
               /\ phase = "storing" => seals'[v] \in {0, 1} /\ (v \notin listed' => seals'[v] = 0)
               /\ row'[v] # "none" => seals'[v] = 1
    BY <1>5, <1>16, <2>1 DEF IInv, SealedOnce
  <2>2. ASSUME harm'[f] = {}
        PROVE  /\ phase = "none" => seals'[u] = 0
               /\ phase = "storing" => seals'[u] \in {0, 1} /\ (u \notin listed' => seals'[u] = 0)
               /\ row'[u] # "none" => seals'[u] = 1
    <3>1. harm[f] = {}
      BY <1>16, <2>2
    <3>2. /\ phase = "none" => seals[u] = 0
          /\ phase = "storing" => seals[u] \in {0, 1} /\ (u \notin listed => seals[u] = 0)
          /\ row[u] # "none" => seals[u] = 1
      BY <1>1, <1>3, <1>6, <1>7, <3>1 DEF IInv, SealedOnce, Numbered
    <3>3. CASE Expected(k, u) /\ Posted(f, u)
      <4>1. row \in [Uploads -> {"none", "new", "done"}] /\ seals \in [Uploads -> Nat] /\ harm \in [Files -> SUBSET {"expired", "run again", "refused", "late", "stopped"}]
        BY <1>3 DEF TypeOK
      <4>2. CASE listed' = listed \cup {u} /\ Pending /\ UNCHANGED <<row, seals, harm>>
        BY <1>13, <3>2, <3>3, <4>2
      <4>3. CASE ~Pending
        BY <1>1, <1>13, <2>2, <3>3, <4>1, <4>3 DEF Posted, Pending
      <4> QED
        BY <3>3, <4>2, <4>3 DEF Posted
    <3> QED
      BY <1>2, <1>15, <3>2, <3>3
  <2> QED
    BY <1>1, <1>8, <2>1, <2>2 DEF SealedOnce
<1>24. \A v \in Uploads : v # u => Awaited(v)' = Awaited(v)
  BY <1>1, <1>10, <1>16 DEF Awaited
<1>25. Findable'
  <2>1. ASSUME NEW v \in DOMAIN made, v # u, Awaited(v)', harm'[made[v]] = {} PROVE temp'[made[v]] = v
    <3>1. temp[made[v]] = v
      BY <1>5, <1>16, <1>24, <2>1 DEF IInv, Findable
    <3>2. made[v] # f
      BY <1>4, <1>5, <2>1, <3>1 DEF u, fresh
    <3> QED
      BY <1>5, <1>9, <3>1, <3>2
  <2>2. reading' # None => \A g \in Files : temp'[g] # reading'.up
    BY <1>9, <1>10 DEF IInv, Findable
  <2> QED
    BY <1>8, <1>9, <2>1, <2>2 DEF Findable
<1>26. NotYetCopied'
  <2>1. ASSUME NEW v \in Uploads, disk[v] # None
        PROVE  v \in DOMAIN made /\ Len(body'[v]) = size[made[v]] /\ ~Awaited(v)'
    <3>1. CASE v # u
      BY <1>3, <1>16, <1>24, <2>1, <3>1 DEF NotYetCopied
    <3>2. CASE v = u
      <4>1. ~Expected(k, u) /\ Same
        BY <1>2, <1>13, <2>1, <3>2
      <4>2. Awaited(v)' = Awaited(v)
        BY <1>1, <1>10, <4>1 DEF Awaited
      <4> QED
        BY <1>3, <2>1, <4>1, <4>2 DEF NotYetCopied
    <3> QED
      BY <3>1, <3>2
  <2> QED
    BY <1>1, <1>3, <1>8, <1>10, <2>1 DEF NotYetCopied
<1>27. CopyAndRest'
  <2>1. reading # None => reading.up \in DOMAIN made
    BY <1>3, AtWork DEF Phased
  <2> QED
    BY <1>1, <1>8, <1>10, <2>1 DEF IInv, CopyAndRest
<1>28. Copied'
  <2> SUFFICES ASSUME NEW v \in DOMAIN made', row'[v] = "done", v \notin job, harm'[made'[v]] = {}
               PROVE  disk[v] = [i \in 1..size[made'[v]] |-> i]
    BY <1>1 DEF Copied, Whole
  <2>1. v \in DOMAIN made /\ row[v] = "done"
    <3>1. CASE v # u
      BY <1>5, <1>8, <1>16, <3>1
    <3>2. CASE v = u
      <4>1. row[u] \in {"none", "new", "done"} /\ row \in [Uploads -> {"none", "new", "done"}]
        BY <1>1, <1>3 DEF TypeOK
      <4>2. row' = row \/ row'[u] = "new"
        BY <1>1, <1>2, <1>15, <4>1 DEF Posted
      <4> QED
        BY <1>7, <1>11, <3>2, <4>2
    <3> QED
      BY <3>1, <3>2
  <2>2. made'[v] = made[v] /\ harm[made[v]] = {}
    BY <1>5, <1>8, <1>16, <2>1
  <2> QED
    BY <2>1, <2>2 DEF IInv, Copied, Whole
<1>29. Acknowledged'
  <2>1. ASSUME NEW v \in Uploads, Attached(v) PROVE Attached(v)'
    <3>1. CASE v # u
      BY <1>16, <1>18, <2>1, <3>1 DEF Attached
    <3>2. CASE v = u
      <4>1. ~Expected(k, u)
        BY <1>13, <2>1, <3>2 DEF Attached
      <4> QED
        BY <1>2, <1>18, <2>1, <4>1 DEF Attached
    <3> QED
      BY <3>1, <3>2
  <2>2. ASSUME NEW g \in Files, g # f, harm'[g] = {}
        PROVE  \/ \E v \in DOMAIN made' : Attached(v)' /\ made'[v] = g
               \/ sent'[g] = 0 /\ temp'[g] = None
               \/ temp'[g] # None /\ sent'[g] <= Len(body'[temp'[g]]) /\ Len(body'[temp'[g]]) < size[g]
    <3>1. harm[g] = {} /\ sent'[g] = sent[g] /\ temp'[g] = temp[g]
      BY <1>9, <1>16, <2>2
    <3>2. temp[g] # None => temp[g] \in Uploads /\ temp[g] # u
      BY <1>3, <1>5, <1>7, <1>6, <2>2 DEF Numbered
    <3>3. ASSUME NEW v \in DOMAIN made, Attached(v), made[v] = g
          PROVE  v \in DOMAIN made' /\ Attached(v)' /\ made'[v] = g
      BY <1>5, <1>8, <2>1, <3>3
    <3> QED
      BY <1>1, <1>16, <3>1, <3>2, <3>3 DEF IInv, Acknowledged
  <2>3. ASSUME harm'[f] = {}
        PROVE  \/ \E v \in DOMAIN made' : Attached(v)' /\ made'[v] = f
               \/ sent'[f] = 0 /\ temp'[f] = None
               \/ temp'[f] # None /\ sent'[f] <= Len(body'[temp'[f]]) /\ Len(body'[temp'[f]]) < size[f]
    <3>1. harm[f] = {} /\ temp'[f] = u /\ u # None /\ sent'[f] \in {k, sent[f]}
      BY <1>1, <1>4, <1>9, <1>16, <2>3
    <3>2. CASE \E v \in DOMAIN made : Attached(v) /\ made[v] = f
      BY <1>5, <1>8, <2>1, <3>2
    <3>3. CASE Expected(k, u) /\ k = size[f]
      <4>1. Posted(f, u)
        BY <1>2, <1>15, <3>3
      <4>2. \/ u \in listed' /\ Pending
            \/ row' = [row EXCEPT ![u] = "new"]
            \/ harm' = [harm EXCEPT ![f] = @ \cup {"refused"}]
        BY <4>1 DEF Posted
      <4>3. row \in [Uploads -> {"none", "new", "done"}] /\ harm \in [Files -> SUBSET {"expired", "run again", "refused", "late", "stopped"}]
        BY <1>3 DEF TypeOK
      <4>4. PICK v \in Uploads : v = u
        BY <1>1
      <4>5. harm' # [harm EXCEPT ![f] = @ \cup {"refused"}]
        BY <2>3, <4>3
      <4>6. Attached(v)'
        BY <1>18, <4>2, <4>3, <4>4, <4>5 DEF Attached
      <4> QED
        BY <1>8, <4>4, <4>6
    <3>4. CASE Expected(k, u) /\ k # size[f]
      <4>1. Len(body'[u]) = k
        BY <1>2, <1>14, <3>4
      <4>2. sent'[f] <= k /\ k < size[f]
        BY <1>1, <1>4, <3>1, <3>4 DEF k
      <4> QED
        BY <3>1, <4>1, <4>2
    <3>5. CASE ~Expected(k, u) /\ ~\E v \in DOMAIN made : Attached(v) /\ made[v] = f
      <4>1. body' = body
        BY <1>2, <3>5
      <4>2. ~fresh
        <5>1. ASSUME fresh PROVE FALSE
          <6>1. sent[f] = 0
            BY <1>1, <3>1, <3>5, <5>1 DEF IInv, Acknowledged, fresh
          <6>2. body[u] = << >>
            BY <1>1, <1>3, <1>6, <5>1 DEF Numbered
          <6> QED
            BY <3>5, <6>1, <6>2 DEF Expected, k
        <5> QED
          BY <5>1
      <4>3. sent[f] <= Len(body[u]) /\ Len(body[u]) < size[f]
        BY <1>1, <3>1, <3>5, <4>2 DEF IInv, Acknowledged, fresh, u
      <4>4. k <= Len(body[u])
        BY <1>4, <1>11, <3>5, <4>3 DEF Expected, k
      <4> QED
        BY <1>4, <3>1, <4>1, <4>3, <4>4
    <3> QED
      BY <3>2, <3>3, <3>4, <3>5
  <2> QED
    BY <1>1, <2>2, <2>3 DEF Acknowledged
<1> QED
  BY <1>17, <1>20, <1>21, <1>22, <1>23, <1>25, <1>26, <1>27, <1>28, <1>29 DEF IInv

-----------------------------------------------------------------------------
\* The invariant.
THEOREM Invariant == Spec => []IInv
<1>1. IInv /\ [Next]_vars => IInv'
  <2> SUFFICES ASSUME IInv, [Next]_vars PROVE IInv'
    OBVIOUS
  <2>1. CASE Next
    BY <2>1, Receives, Expires, Stores, StoresAgain, StoresAtLast, Erases, Marks, BeginsCopy, Copies,
       EndsCopy, DayGoesBy, Cleans, Stops
    DEF Next
  <2>2. CASE UNCHANGED vars
    <3> USE <2>2 DEF vars, client, store, intake, delivery, IInv
    <3>1. TypeOK' /\ Numbered' /\ InOrder' /\ Phased' /\ SealedOnce'
      BY DEF TypeOK, Numbered, InOrder, Phased, SealedOnce, Pending
    <3>2. Findable' /\ NotYetCopied' /\ CopyAndRest' /\ Copied' /\ Acknowledged'
      BY DEF Findable, NotYetCopied, CopyAndRest, Copied, Acknowledged, Awaited, Attached, Pending, Whole
    <3> QED
      BY <3>1, <3>2
  <2> QED
    BY <2>1, <2>2
<1> QED
  BY Initially, <1>1, PTL DEF Spec

\* Whatever chunks arrive again, expire or are lost, whatever transactions are run again
\* and whenever the process stops: what the job is done with is whole, under a name sealed
\* once, and what was acknowledged is attached, but for the files that met a harm.
THEOREM DeliversWhole == Spec => []UploadsWhole
<1>1. IInv => UploadsWhole
  <2> SUFFICES ASSUME IInv PROVE UploadsWhole
    OBVIOUS
  <2>1. DeliveredWhole
    <3> SUFFICES ASSUME NEW v \in Uploads, row[v] = "done", v \notin job, harm[made[v]] = {}
                 PROVE  disk[v] = Whole(made[v]) /\ seals[v] = 1
      BY DEF DeliveredWhole
    <3>1. v \in DOMAIN made
      BY DEF IInv, Numbered
    <3> QED
      BY <3>1 DEF IInv, Copied, SealedOnce
  <2>2. AcknowledgedIsAttached
    <3> SUFFICES ASSUME NEW f \in Files, sent[f] = size[f], phase # "erased", harm[f] = {}
                 PROVE  \E v \in Uploads : Attached(v) /\ made[v] = f
      BY DEF AcknowledgedIsAttached
    <3>1. size[f] \in 1..MaxChunks /\ MaxChunks \in Nat
      BY AttachmentsAssumption DEF IInv, TypeOK
    <3>2. temp[f] # None => Len(body[temp[f]]) \in Nat
      <4>1. temp[f] \in Uploads \cup {None} /\ body \in [Uploads -> Seq(1..MaxChunks)]
        BY DEF IInv, TypeOK
      <4> QED
        BY <4>1
    <3>3. \E v \in DOMAIN made : Attached(v) /\ made[v] = f
      BY <3>1, <3>2 DEF IInv, Acknowledged
    <3> QED
      BY <3>3, Made DEF IInv
  <2> QED
    BY <2>1, <2>2 DEF UploadsWhole
<1> QED
  BY Invariant, <1>1, PTL

\* The types are part of the invariant.
THEOREM TypeCorrect == Spec => []TypeOK
<1>1. IInv => TypeOK
  BY DEF IInv
<1> QED
  BY Invariant, <1>1, PTL

=============================================================================

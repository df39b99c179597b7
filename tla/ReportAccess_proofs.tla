------------------------- MODULE ReportAccess_proofs --------------------------
(***************************************************************************)
(* Proofs about ReportAccess, for any recipients, privileges, files and      *)
(* number of ORM threads, and, at the end, about Downloads, for any files,   *)
(* of any length, and any downloads.                                         *)
(*                                                                           *)
(* What a transaction decided from stale reads must still be right when it   *)
(* is applied.  The invariants of this module state, for each transaction    *)
(* in flight, the part of its decision that no other step can undo: keys,    *)
(* once created, are never taken back, a report never changes from clear to  *)
(* encrypted, and the incarnations of a row are numbered upwards.            *)
(***************************************************************************)
EXTENDS MCReports, TLAPS, SequenceTheorems

-----------------------------------------------------------------------------
(* Types *)

\* The Delivery job changes nothing of a row but its files.
LEMMA ServedRow ==
    ASSUME rows \in [Recipients -> Row \cup {NoRow}], delivery.files \subseteq Files,
           NEW u \in Recipients
    PROVE  /\ Served(u) \in Row \cup {NoRow}
           /\ rows[u] = NoRow => Served(u) = NoRow
           /\ rows[u] # NoRow => /\ Served(u).seal = rows[u].seal
                                /\ Served(u).gen = rows[u].gen
                                /\ Served(u).files \subseteq rows[u].files \cup delivery.files
                                /\ rows[u].files \subseteq Served(u).files
<1>1. CASE rows[u] = NoRow
  BY <1>1 DEF Served, Holders
<1>2. CASE rows[u] # NoRow
  <2>1. rows[u] \in Row
    BY <1>2
  <2>2. [rows[u] EXCEPT !.files = @ \cup delivery.files] =
          [gen |-> rows[u].gen, seal |-> rows[u].seal, files |-> rows[u].files \cup delivery.files]
    BY <2>1 DEF Row
  <2> QED
    BY <1>2, <2>1, <2>2 DEF Served, Row
<1> QED
  BY <1>1, <1>2

\* The types of the variables are an invariant of ReportAccess.
THEOREM TypeCorrect == Spec => []TypeOK
<1>1. Init => TypeOK
  BY DEF Init, TypeOK, IFile, Absent
<1>2. TypeOK /\ [Next]_vars => TypeOK'
  <2> SUFFICES ASSUME TypeOK, [Next]_vars PROVE TypeOK'
    OBVIOUS
  <2> USE ReportAccessAssumption
  <2>1. ASSUME NEW to \in SUBSET Recipients, NEW files \in SUBSET Files,
               SubmitBegin(to, files)
        PROVE  TypeOK'
    BY <2>1 DEF TypeOK, SubmitBegin, Intake, Deliverable, Delivered, Sealable
  <2>2. CASE SubmitCommit
    <3>1. intake \in Intake
      BY <2>2 DEF SubmitCommit, TypeOK
    <3>2. born' \in [Recipients -> Nat] /\ \A u \in intake.to : born'[u] \in Nat \ {0}
      BY <2>2, <3>1 DEF SubmitCommit, TypeOK, Intake
    <3>3. rows' \in [Recipients -> Row \cup {NoRow}]
      BY <2>2, <3>1, <3>2 DEF SubmitCommit, TypeOK, Intake, Row
    <3>4. ifile' \in [Files -> IFile]
      BY <2>2, <3>1, <3>2 DEF SubmitCommit, TypeOK, Intake, IFile, RowId
    <3> QED
      BY <2>2, <3>2, <3>3, <3>4 DEF SubmitCommit, TypeOK
  <2>3. CASE SubmitAbort
    BY <2>3 DEF TypeOK, SubmitAbort
  <2>4. RowIds \in SUBSET RowId
    BY DEF TypeOK, RowIds, RowId, Holders, Row
  <2>5. ASSUME NEW f \in Files, AttachFile(f) PROVE TypeOK'
    BY <2>4, <2>5 DEF TypeOK, AttachFile, IFile
  <2>6. CASE DeliveryBegin
    BY <2>4, <2>6 DEF TypeOK, DeliveryBegin, NewFiles, Delivery
  <2>7. CASE DeliveryCommit
    <3>1. delivery \in Delivery
      BY <2>7 DEF DeliveryCommit, TypeOK
    <3>2. ifile' \in [Files -> IFile]
      BY <2>7, <3>1 DEF DeliveryCommit, TypeOK, IFile, Processed
    <3>3. \A u \in Recipients : Served(u) \in Row \cup {NoRow}
      BY <3>1, ServedRow DEF Delivery, TypeOK
    <3>4. rows' \in [Recipients -> Row \cup {NoRow}]
      BY <2>7, <3>3 DEF DeliveryCommit, TypeOK
    <3> QED
      BY <2>7, <3>2, <3>4 DEF DeliveryCommit, TypeOK
  <2>8. CASE Expire
    BY <2>8 DEF TypeOK, Expire, DropReport, Absent, IFile
  <2>9. ASSUME NEW u \in Recipients, DeleteUser(u) PROVE TypeOK'
    BY <2>9 DEF TypeOK, DeleteUser
  <2>10. ASSUME NEW u \in Recipients, UpdateUser(u) PROVE TypeOK'
    BY <2>10 DEF TypeOK, UpdateUser
  <2>11. ASSUME NEW u \in Recipients, CreateKeys(u) PROVE TypeOK'
    BY <2>11 DEF TypeOK, CreateKeys
  <2>12. ASSUME NEW u \in Recipients, rows[u] # NoRow PROVE rows[u].gen \in Nat \ {0}
    BY <2>12 DEF TypeOK, Row
  <2>13. ASSUME NEW w \in Workers, NEW by \in Recipients, NEW to \in Recipients,
                GrantBegin(w, by, to) \/ TransferBegin(w, by, to) \/ RevokeBegin(w, by, to)
         PROVE  TypeOK'
    <3>1. rows[by] # NoRow
      BY <2>13 DEF GrantBegin, TransferBegin, RevokeBegin, Access
    <3>2. CASE RevokeBegin(w, by, to)
      BY <2>12, <3>2 DEF TypeOK, RevokeBegin, Start, Tx
    <3>3. CASE GrantBegin(w, by, to) \/ TransferBegin(w, by, to)
      BY <2>12, <3>1, <3>3 DEF TypeOK, GrantBegin, TransferBegin, Start, Tx
    <3> QED
      BY <2>13, <3>2, <3>3
  <2>14. ASSUME NEW w \in Workers, NEW by \in Recipients, DeleteBegin(w, by)
         PROVE  TypeOK'
    BY <2>12, <2>14 DEF TypeOK, DeleteBegin, Access, Start, Tx
  <2>15. ASSUME NEW w \in Workers, tx[w] # Idle
         PROVE  tx[w] \in Tx /\ NewRow(tx[w]) \in Row
    <3>1. tx[w] \in Tx
      BY <2>15 DEF TypeOK
    <3> QED
      BY <3>1 DEF TypeOK, NewRow, Row, Tx, Holders
  <2>16. ASSUME NEW w \in Workers, GrantCommit(w) PROVE TypeOK'
    BY <2>15, <2>16 DEF TypeOK, GrantCommit, Done, Tx
  <2>17. ASSUME NEW w \in Workers, TransferCommit(w) PROVE TypeOK'
    BY <2>15, <2>17 DEF TypeOK, TransferCommit, Done, Tx
  <2>18. ASSUME NEW w \in Workers, RevokeCommit(w) PROVE TypeOK'
    BY <2>15, <2>18 DEF TypeOK, RevokeCommit, Done, Tx
  <2>19. ASSUME NEW w \in Workers, DeleteCommit(w) PROVE TypeOK'
    BY <2>19 DEF TypeOK, DeleteCommit, DropReport, Done, Absent, IFile
  <2>20. ASSUME NEW w \in Workers, Abort(w) PROVE TypeOK'
    BY <2>20 DEF TypeOK, Abort, Done
  <2>21. CASE UNCHANGED vars
    BY <2>21 DEF TypeOK, vars
  <2> QED
    BY <2>1, <2>2, <2>3, <2>5, <2>6, <2>7, <2>8, <2>9, <2>10, <2>11, <2>13, <2>14,
       <2>16, <2>17, <2>18, <2>19, <2>20, <2>21
    DEF Next, Submission, Administration, RecipientStep
<1> QED
  BY <1>1, <1>2, PTL DEF Spec

-----------------------------------------------------------------------------
(* Keys and erasure *)

\* What the submission and the grants in flight rely on: the report a
\* submission creates does not exist yet, a recipient's transaction is about a
\* report that does, and the keys they seal to exist.
Pending ==
    /\ intake # Idle =>
          /\ report = "none"
          /\ intake.encrypted => \A u \in intake.to : keyed[u]
    /\ \A w \in Workers : tx[w] # Idle =>
          /\ report # "none"
          /\ tx[w].op \in {"grant", "transfer"} /\ report = "encrypted" => keyed[tx[w].to]
          /\ tx[w].op # "delete" => tx[w].by # tx[w].to

\* The inductive invariant of sealing and erasure.
KeysInv == TypeOK /\ Pending /\ SealedToHolder /\ ErasedWithReport

LEMMA KeysInvInit == Init => KeysInv
BY DEF Init, KeysInv, TypeOK, IFile, Absent, Pending, SealedToHolder, ErasedWithReport,
       Holders, Live

LEMMA KeysInvStep == KeysInv /\ TypeOK' /\ [Next]_vars => KeysInv'
<1> SUFFICES ASSUME KeysInv, TypeOK', [Next]_vars
             PROVE  Pending' /\ SealedToHolder' /\ ErasedWithReport'
  BY DEF KeysInv
<1> USE ReportAccessAssumption DEF KeysInv
<1>1. ASSUME NEW to \in SUBSET Recipients, NEW files \in SUBSET Files,
             SubmitBegin(to, files)
      PROVE  Pending' /\ SealedToHolder' /\ ErasedWithReport'
  BY <1>1 DEF SubmitBegin, Sealable, Pending, SealedToHolder, ErasedWithReport, Holders, Live
<1>2. CASE SubmitCommit
  <2>1. intake \in Intake
    BY <1>2 DEF SubmitCommit, TypeOK
  <2>2. Holders = {} /\ report = "none"
    BY <1>2 DEF SubmitCommit, Pending, ErasedWithReport, Live
  <2>3. Live'
    BY <1>2 DEF SubmitCommit, Live
  <2>4. Pending'
    BY <1>2, <2>2 DEF SubmitCommit, Pending
  <2>5. SealedToHolder'
    BY <1>2, <2>1, <2>2 DEF SubmitCommit, Pending, SealedToHolder, Holders, Intake
  <2> QED
    BY <2>3, <2>4, <2>5 DEF ErasedWithReport
<1>3. CASE SubmitAbort
  BY <1>3 DEF SubmitAbort, Pending, SealedToHolder, ErasedWithReport, Holders, Live
<1>4. ASSUME NEW f \in Files, AttachFile(f)
      PROVE  Pending' /\ SealedToHolder' /\ ErasedWithReport'
  BY <1>4 DEF AttachFile, Pending, SealedToHolder, ErasedWithReport, Holders, Live
<1>5. CASE DeliveryBegin
  BY <1>5 DEF DeliveryBegin, Pending, SealedToHolder, ErasedWithReport, Holders, Live
<1>6. CASE DeliveryCommit
  <2>1. Pending'
    BY <1>6 DEF DeliveryCommit, Pending
  <2>2. \A u \in Recipients : rows'[u] # NoRow => rows[u] # NoRow /\ rows'[u].seal = rows[u].seal
    <3>1. delivery.files \subseteq Files
      BY <1>6 DEF DeliveryCommit, TypeOK, Delivery
    <3> QED
      BY <1>6, <3>1, ServedRow DEF DeliveryCommit, TypeOK
  <2>3. SealedToHolder'
    BY <1>6, <2>2 DEF DeliveryCommit, SealedToHolder, Holders
  <2>4. ~Live => Holders' = {}
    BY <2>2 DEF ErasedWithReport, Holders
  <2>5. ~Live => \A f \in Files : ifile'[f] = Absent
    BY <1>6 DEF DeliveryCommit, ErasedWithReport, TypeOK, Delivery, Absent, Processed
  <2> QED
    BY <1>6, <2>1, <2>3, <2>4, <2>5 DEF DeliveryCommit, ErasedWithReport, Live
<1>7. CASE Expire
  BY <1>7 DEF Expire, DropReport, Pending, SealedToHolder, ErasedWithReport, Holders, Live
<1>8. ASSUME NEW u \in Recipients, DeleteUser(u)
      PROVE  Pending' /\ SealedToHolder' /\ ErasedWithReport'
  <2>1. Holders' \subseteq Holders /\ \A v \in Holders' : rows'[v] = rows[v]
    BY <1>8 DEF DeleteUser, TypeOK, Holders
  <2> QED
    BY <1>8, <2>1 DEF DeleteUser, Pending, SealedToHolder, ErasedWithReport, Live
<1>9. ASSUME NEW u \in Recipients, UpdateUser(u)
      PROVE  Pending' /\ SealedToHolder' /\ ErasedWithReport'
  BY <1>9 DEF UpdateUser, Pending, SealedToHolder, ErasedWithReport, Holders, Live
<1>10. ASSUME NEW u \in Recipients, CreateKeys(u)
       PROVE  Pending' /\ SealedToHolder' /\ ErasedWithReport'
  <2>1. \A v \in Recipients : keyed[v] => keyed'[v]
    BY <1>10 DEF CreateKeys, TypeOK
  <2>2. \A w \in Workers : tx[w] # Idle => tx[w].to \in Recipients
    BY DEF TypeOK, Tx
  <2>3. intake # Idle => intake.to \subseteq Recipients
    BY DEF TypeOK, Intake
  <2> QED
    BY <1>10, <2>1, <2>2, <2>3
    DEF CreateKeys, Pending, SealedToHolder, ErasedWithReport, Holders, Live
<1>11. ASSUME NEW w \in Workers, NEW by \in Recipients, NEW to \in Recipients,
              GrantBegin(w, by, to) \/ TransferBegin(w, by, to) \/ RevokeBegin(w, by, to)
       PROVE  Pending' /\ SealedToHolder' /\ ErasedWithReport'
  <2>1. Pending'
    BY <1>11 DEF GrantBegin, TransferBegin, RevokeBegin, Access, MayShare, Grantable, Start,
                 Pending, Live, TypeOK
  <2> QED
    BY <1>11, <2>1 DEF GrantBegin, TransferBegin, RevokeBegin, Start, SealedToHolder,
                       ErasedWithReport, Holders, Live
<1>12. ASSUME NEW w \in Workers, NEW by \in Recipients, DeleteBegin(w, by)
       PROVE  Pending' /\ SealedToHolder' /\ ErasedWithReport'
  <2>1. Pending'
    BY <1>12 DEF DeleteBegin, Access, Start, Pending, Live, TypeOK
  <2> QED
    BY <1>12, <2>1 DEF DeleteBegin, Start, SealedToHolder, ErasedWithReport, Holders, Live
<1>13. ASSUME NEW w \in Workers, GrantCommit(w) \/ TransferCommit(w)
       PROVE  Pending' /\ SealedToHolder' /\ ErasedWithReport'
  <2>1. tx[w] \in Tx /\ tx[w] # Idle /\ tx[w].op \in {"grant", "transfer"}
    BY <1>13 DEF GrantCommit, TransferCommit, TypeOK
  <2>2. Live
    BY <1>13 DEF GrantCommit, TransferCommit, Insertable
  <2>3. Pending'
    BY <1>13 DEF GrantCommit, TransferCommit, Done, Pending, TypeOK
  <2>4. ASSUME NEW u \in Recipients, rows'[u] # NoRow
        PROVE  \/ rows[u] # NoRow /\ rows'[u] = rows[u]
               \/ u = tx[w].to /\ rows'[u] = NewRow(tx[w])
    BY <1>13, <2>1, <2>4 DEF GrantCommit, TransferCommit, TypeOK, Tx
  <2>5. SealedToHolder'
    BY <1>13, <2>1, <2>4 DEF GrantCommit, TransferCommit, NewRow, Pending, SealedToHolder, Holders
  <2> QED
    BY <1>13, <2>2, <2>3, <2>5 DEF GrantCommit, TransferCommit, ErasedWithReport, Live
<1>14. ASSUME NEW w \in Workers, RevokeCommit(w)
       PROVE  Pending' /\ SealedToHolder' /\ ErasedWithReport'
  <2>1. Pending'
    BY <1>14 DEF RevokeCommit, Done, Pending, TypeOK
  <2>2. Holders' \subseteq Holders /\ \A v \in Holders' : rows'[v] = rows[v]
    BY <1>14 DEF RevokeCommit, TypeOK, Holders
  <2> QED
    BY <1>14, <2>1, <2>2 DEF RevokeCommit, SealedToHolder, ErasedWithReport, Live
<1>15. ASSUME NEW w \in Workers, DeleteCommit(w)
       PROVE  Pending' /\ SealedToHolder' /\ ErasedWithReport'
  BY <1>15 DEF DeleteCommit, DropReport, Done, Pending, SealedToHolder, ErasedWithReport,
               Holders, Live, TypeOK
<1>16. ASSUME NEW w \in Workers, Abort(w)
       PROVE  Pending' /\ SealedToHolder' /\ ErasedWithReport'
  BY <1>16 DEF Abort, Done, Pending, SealedToHolder, ErasedWithReport, Holders, Live, TypeOK
<1>17. CASE UNCHANGED vars
  BY <1>17 DEF vars, Pending, SealedToHolder, ErasedWithReport, Holders, Live
<1> QED
  BY <1>1, <1>2, <1>3, <1>4, <1>5, <1>6, <1>7, <1>8, <1>9, <1>10, <1>11, <1>12, <1>13,
     <1>14, <1>15, <1>16, <1>17
  DEF Next, Submission, Administration, RecipientStep

LEMMA KeysInvariant == Spec => []KeysInv
<1>1. KeysInv /\ TypeOK /\ TypeOK' /\ [Next]_vars => KeysInv'
  BY KeysInvStep
<1> QED
  BY <1>1, KeysInvInit, TypeCorrect, PTL DEF Spec

\* Whatever the interleaving of submissions, grants, transfers, revocations,
\* deletions and first accesses, the rows of an encrypted report are sealed to
\* the keys of their own recipients, and those of a report in clear to nobody.
THEOREM KeysSealed == Spec => []SealedToHolder
BY KeysInvariant, PTL DEF KeysInv

\* A deleted report leaves neither rows nor files, and the transactions and the
\* delivery that were in flight bring none back.
THEOREM Erased == Spec => []ErasedWithReport
BY KeysInvariant, PTL DEF KeysInv

-----------------------------------------------------------------------------
(* The last recipient *)

\* A step of the recipients takes the last row away only when the one who asked
\* for the revocation has no row any more; otherwise the report or the user of
\* that row is gone.
THEOREM LastKept == Spec => LastRecipientKept
<1> DEFINE Kept ==
      Holders # {} /\ Holders' = {} =>
          \/ ~Live'
          \/ \E u \in Holders : account'[u] = "deleted"
          \/ \E w \in Workers : tx[w] # Idle /\ tx[w].op = "revoke" /\ rows[tx[w].by] = NoRow
<1>1. ASSUME KeysInv, [Next]_vars PROVE Kept
  <2> SUFFICES ASSUME Holders # {}, Holders' = {}
               PROVE  \/ ~Live'
                      \/ \E u \in Holders : account'[u] = "deleted"
                      \/ \E w \in Workers : /\ tx[w] # Idle /\ tx[w].op = "revoke"
                                             /\ rows[tx[w].by] = NoRow
    OBVIOUS
  <2> USE ReportAccessAssumption, <1>1 DEF KeysInv
  <2> PICK h \in Recipients : rows[h] # NoRow
    BY DEF Holders
  <2>1. \A u \in Recipients : rows'[u] = NoRow
    BY DEF Holders
  <2>2. rows' # rows
    BY <2>1
  <2>3. ~SubmitCommit
    BY DEF SubmitCommit, Pending, ErasedWithReport, Holders, Live
  <2>4. ~DeliveryCommit
    <3> SUFFICES ASSUME DeliveryCommit PROVE FALSE
      OBVIOUS
    <3>1. delivery.files \subseteq Files
      BY DEF DeliveryCommit, TypeOK, Delivery
    <3>2. Served(h) \in Row
      <4>1. rows[h] \in Row
        BY DEF TypeOK
      <4>2. [rows[h] EXCEPT !.files = @ \cup delivery.files] \in Row
        BY <3>1, <4>1 DEF Row
      <4> QED
        BY <4>1, <4>2 DEF Served
    <3> QED
      BY <2>1, <3>2 DEF DeliveryCommit
  <2>5. ASSUME NEW u \in Recipients, DeleteUser(u)
        PROVE  \E v \in Holders : account'[v] = "deleted"
    <3>1. h = u
      BY <2>1, <2>5 DEF DeleteUser, TypeOK
    <3> QED
      BY <2>5, <3>1 DEF DeleteUser, Holders, TypeOK
  <2>6. ASSUME NEW w \in Workers, GrantCommit(w) \/ TransferCommit(w) PROVE FALSE
    <3>1. tx[w] \in Tx
      BY <2>6 DEF GrantCommit, TransferCommit, TypeOK
    <3>2. tx[w].by # tx[w].to /\ tx[w].to \in Recipients
      BY <2>6, <3>1 DEF GrantCommit, TransferCommit, Pending, Tx
    <3>3. NewRow(tx[w]) \in Row
      BY <3>1 DEF TypeOK, NewRow, Row, Tx, Holders
    <3>4. rows'[tx[w].to] = NewRow(tx[w])
      BY <2>6, <3>2 DEF GrantCommit, TransferCommit, TypeOK
    <3> QED
      BY <2>1, <3>2, <3>3, <3>4
  <2>7. ASSUME NEW w \in Workers, RevokeCommit(w)
        PROVE  tx[w] # Idle /\ tx[w].op = "revoke" /\ rows[tx[w].by] = NoRow
    <3>1. tx[w] \in Tx /\ tx[w] # Idle /\ tx[w].op = "revoke"
      BY <2>7 DEF RevokeCommit, TypeOK
    <3>2. tx[w].by # tx[w].to /\ tx[w].by \in Recipients /\ tx[w].to \in Recipients
      BY <3>1 DEF Pending, Tx
    <3>3. rows'[tx[w].by] = rows[tx[w].by]
      BY <2>7, <3>2 DEF RevokeCommit, TypeOK
    <3> QED
      BY <2>1, <3>1, <3>2, <3>3
  <2>8. ASSUME Expire \/ \E w \in Workers : DeleteCommit(w) PROVE ~Live'
    BY <2>8 DEF Expire, DeleteCommit, DropReport, Live
  <2> QED
    BY <2>2, <2>3, <2>4, <2>5, <2>6, <2>7, <2>8
    DEF Next, Submission, Administration, RecipientStep, vars, SubmitBegin, SubmitAbort,
        AttachFile, DeliveryBegin, UpdateUser, CreateKeys, GrantBegin, TransferBegin,
        RevokeBegin, DeleteBegin, Start, Abort
<1> QED
  BY <1>1, KeysInvariant, PTL DEF Spec, LastRecipientKept

-----------------------------------------------------------------------------
(* Files *)

\* Incarnations are numbered upwards: the next one is in nobody's audience.
Numbered ==
    /\ \A u \in Holders : rows[u].gen <= born[u]
    /\ \A f \in Files : \A u \in Recipients, g \in Nat :
          <<u, g>> \in ifile[f].audience => g <= born[u]

\* Of what the Delivery job has read, a file is still to be processed unless the
\* report was deleted, and a row that was there at upload and still is was read.
DeliveryFresh ==
    delivery # Idle =>
        /\ report # "none"
        /\ \A f \in delivery.files :
              /\ Live => ifile[f].state = "new"
              /\ \A u \in Holders : <<u, rows[u].gen>> \in ifile[f].audience =>
                                     <<u, rows[u].gen>> \in delivery.rows

FilesInv == Numbered /\ DeliveryFresh /\ AudienceSeesFiles

LEMMA FilesInvStep == KeysInv /\ KeysInv' /\ FilesInv /\ [Next]_vars => FilesInv'
<1> SUFFICES ASSUME KeysInv, KeysInv', FilesInv, [Next]_vars PROVE FilesInv'
  OBVIOUS
<1> USE ReportAccessAssumption DEF FilesInv
<1> TypeOK /\ TypeOK' /\ ErasedWithReport /\ ErasedWithReport'
  BY DEF KeysInv
<1>1. ASSUME ~Live' PROVE FilesInv'
  <2>1. Holders' = {} /\ \A f \in Files : ifile'[f] = Absent
    BY <1>1 DEF ErasedWithReport
  <2>2. Numbered' /\ AudienceSeesFiles'
    BY <2>1 DEF Numbered, AudienceSeesFiles, Absent
  <2>3. delivery' # Idle => report' # "none"
    <3>1. CASE delivery' = delivery
      <4>1. report # "none" => report' # "none"
        BY DEF Next, vars, Submission, Administration, RecipientStep, SubmitBegin,
           SubmitCommit, SubmitAbort, AttachFile, DeliveryBegin, DeliveryCommit,
           Expire, DropReport, DeleteUser, UpdateUser, CreateKeys, GrantBegin,
           TransferBegin, RevokeBegin, DeleteBegin, Start, GrantCommit, TransferCommit,
           RevokeCommit, DeleteCommit, Abort
      <4> QED
        BY <3>1, <4>1 DEF DeliveryFresh
    <3>2. CASE DeliveryBegin
      <4>1. PICK f \in Files : ifile[f].state = "new"
        BY <3>2 DEF DeliveryBegin, NewFiles
      <4> QED
        BY <3>2, <4>1 DEF DeliveryBegin, ErasedWithReport, Live, Absent
    <3>3. CASE DeliveryCommit
      BY <3>3 DEF DeliveryCommit
    <3> QED
      BY <3>1, <3>2, <3>3
      DEF Next, vars, Submission, Administration, RecipientStep, SubmitBegin,
         SubmitCommit, SubmitAbort, AttachFile, Expire, DropReport, DeleteUser, UpdateUser,
         CreateKeys, GrantBegin, TransferBegin, RevokeBegin, DeleteBegin, Start, GrantCommit,
         TransferCommit, RevokeCommit, DeleteCommit, Abort
  <2> QED
    BY <1>1, <2>1, <2>2, <2>3 DEF DeliveryFresh
\* Steps that only take rows away.
<1>2. ASSUME \A u \in Recipients : rows'[u] # NoRow => rows'[u] = rows[u],
             UNCHANGED <<report, born, ifile, delivery>>
      PROVE  FilesInv'
  <2>1. Holders' \subseteq Holders /\ \A u \in Holders' : rows'[u] = rows[u]
    BY <1>2 DEF Holders
  <2> QED
    BY <1>2, <2>1 DEF Numbered, DeliveryFresh, AudienceSeesFiles, Live
<1>3. CASE SubmitCommit
  <2>1. intake \in Intake
    BY <1>3 DEF SubmitCommit, TypeOK
  <2>2. report = "none" /\ Holders = {} /\ \A f \in Files : ifile[f] = Absent
    BY <1>3 DEF SubmitCommit, KeysInv, Pending, ErasedWithReport, Live
  <2>3. delivery' = Idle
    BY <1>3, <2>2 DEF SubmitCommit, DeliveryFresh
  <2>4. \A u \in Holders' : u \in intake.to /\ rows'[u].gen = born'[u] /\ rows'[u].files = {}
    BY <1>3, <2>2 DEF SubmitCommit, Holders
  <2>5. \A f \in Files : ifile'[f].state # "done"
    BY <1>3, <2>2 DEF SubmitCommit, Absent
  <2>6. \A f \in Files : \A u \in Recipients, g \in Nat :
          <<u, g>> \in ifile'[f].audience => g = born'[u]
    BY <1>3, <2>2 DEF SubmitCommit, Absent
  <2>7. \A u \in Recipients : born'[u] \in Nat
    BY DEF TypeOK
  <2>8. Numbered'
    BY <2>4, <2>6, <2>7 DEF Numbered, Holders
  <2>9. AudienceSeesFiles'
    BY <2>4, <2>5 DEF AudienceSeesFiles
  <2> QED
    BY <2>3, <2>8, <2>9 DEF DeliveryFresh
<1>4. ASSUME NEW f \in Files, AttachFile(f) PROVE FilesInv'
  <2>1. Holders' = Holders /\ rows' = rows /\ born' = born /\ delivery' = delivery
    BY <1>4 DEF AttachFile, Holders
  <2>2. \A e \in Files : ifile'[e] = IF e = f THEN [state |-> "new", audience |-> RowIds] ELSE ifile[e]
    BY <1>4 DEF AttachFile, TypeOK
  <2>3. Numbered'
    <3>1. \A u \in Recipients, g \in Nat : <<u, g>> \in RowIds => u \in Holders /\ g = rows[u].gen
      BY DEF RowIds
    <3>2. \A u \in Recipients, g \in Nat : <<u, g>> \in RowIds => g <= born[u]
      BY <3>1 DEF Numbered
    <3> QED
      BY <2>1, <2>2, <3>2 DEF Numbered
  <2>4. delivery # Idle => f \notin delivery.files
    BY <1>4 DEF AttachFile, DeliveryFresh, Absent
  <2>5. delivery # Idle => delivery.files \subseteq Files
    BY DEF TypeOK, Delivery
  <2>6. DeliveryFresh'
    BY <1>4, <2>1, <2>2, <2>4, <2>5 DEF AttachFile, DeliveryFresh, Live
  <2>7. \A u \in Holders : f \notin rows[u].files
    <3>1. ifile[f].state = "absent"
      BY <1>4 DEF AttachFile, Absent
    <3> QED
      BY <3>1 DEF AudienceSeesFiles
  <2>8. \A u \in Holders : rows[u].files \subseteq Files
    BY DEF TypeOK, Row, Holders
  <2>9. AudienceSeesFiles'
    BY <2>1, <2>2, <2>7, <2>8 DEF AudienceSeesFiles
  <2> QED
    BY <2>3, <2>6, <2>9
<1>5. CASE DeliveryBegin
  <2>1. report # "none"
    BY <1>5 DEF DeliveryBegin, NewFiles, ErasedWithReport, Live, Absent
  <2>2. DeliveryFresh'
    BY <1>5, <2>1 DEF DeliveryBegin, DeliveryFresh, NewFiles, RowIds, Holders, Live
  <2> QED
    BY <1>5, <2>2 DEF DeliveryBegin, Numbered, AudienceSeesFiles, Holders
<1>6. ASSUME DeliveryCommit, Live' PROVE FilesInv'
  <2>1. delivery \in Delivery /\ delivery # Idle /\ delivery.files \subseteq Files /\ Live
    BY <1>6 DEF DeliveryCommit, TypeOK, Delivery, Live
  <2>2. CASE UNCHANGED <<ifile, rows>>
    BY <1>6, <2>2 DEF DeliveryCommit, Numbered, DeliveryFresh, AudienceSeesFiles, Holders
  <2>3. CASE /\ rows' = [u \in Recipients |-> Served(u)]
             /\ ifile' = [f \in Files |-> IF f \in Processed
                                         THEN [ifile[f] EXCEPT !.state = "done"] ELSE ifile[f]]
    <3>1. \A f \in Files : /\ ifile'[f].audience = ifile[f].audience
                          /\ ifile'[f].state = IF f \in delivery.files THEN "done" ELSE ifile[f].state
      BY <2>3 DEF TypeOK, IFile, Processed
    <3>2. ASSUME NEW u \in Holders' PROVE u \in Holders /\ rows'[u] = Served(u) /\ rows'[u].gen = rows[u].gen
      BY <2>1, <2>3, ServedRow DEF Holders, TypeOK
    <3>3. Numbered'
      BY <1>6, <3>1, <3>2 DEF DeliveryCommit, Numbered
    <3>4. ASSUME NEW u \in Holders', NEW f \in Files, ifile'[f].state = "done",
                 <<u, rows'[u].gen>> \in ifile'[f].audience
          PROVE  f \in rows'[u].files
      <4>1. rows[u] \in Row /\ u \in Recipients
        BY <3>2 DEF TypeOK, Holders
      <4>2. CASE f \in delivery.files
        <5>1. <<u, rows[u].gen>> \in delivery.rows
          BY <2>1, <3>1, <3>2, <3>4, <4>2 DEF DeliveryFresh
        <5>2. rows'[u] = [rows[u] EXCEPT !.files = @ \cup delivery.files]
          BY <3>2, <5>1 DEF Served
        <5> QED
          BY <4>1, <4>2, <5>2 DEF Row
      <4>3. CASE f \notin delivery.files
        <5>1. f \in rows[u].files
          BY <3>1, <3>2, <3>4, <4>3 DEF AudienceSeesFiles
        <5> QED
          BY <2>1, <3>2, <4>1, <5>1, ServedRow DEF TypeOK, Holders
      <4> QED
        BY <4>2, <4>3
    <3>5. ASSUME NEW u \in Holders', NEW f \in rows'[u].files PROVE ifile'[f].state = "done"
      <4>1. f \in rows[u].files \cup delivery.files
        BY <2>1, <3>2, ServedRow DEF TypeOK, Holders
      <4>2. f \in Files
        BY <2>1, <3>2, <4>1 DEF TypeOK, Holders, Row
      <4> QED
        BY <3>1, <3>2, <4>1, <4>2 DEF AudienceSeesFiles
    <3>6. AudienceSeesFiles'
      BY <3>4, <3>5 DEF AudienceSeesFiles
    <3> QED
      BY <1>6, <3>3, <3>6 DEF DeliveryCommit, DeliveryFresh
  <2> QED
    BY <1>6, <2>2, <2>3 DEF DeliveryCommit
<1>7. ASSUME NEW w \in Workers, GrantCommit(w) \/ TransferCommit(w) PROVE FilesInv'
  <2> DEFINE t == tx[w]
  <2>1. t \in Tx /\ t.to \in Recipients /\ t.by \in Recipients /\ Live
    BY <1>7 DEF GrantCommit, TransferCommit, TypeOK, Tx, Insertable
  <2>2. NewRow(t).gen = born[t.to] + 1 /\ born[t.to] \in Nat
    BY <2>1 DEF NewRow, TypeOK
  <2>3. \A f \in NewRow(t).files : f \in Files /\ ifile[f].state = "done"
    BY <2>1 DEF NewRow, AudienceSeesFiles, Holders, TypeOK, Row
  <2>4. /\ born' = [born EXCEPT ![t.to] = @ + 1]
        /\ UNCHANGED <<report, ifile, delivery>>
    BY <1>7 DEF GrantCommit, TransferCommit
  <2>5. ASSUME NEW u \in Recipients, rows'[u] # NoRow
        PROVE  \/ rows[u] # NoRow /\ rows'[u] = rows[u]
               \/ u = t.to /\ rows'[u] = NewRow(t)
    BY <1>7, <2>1, <2>5 DEF GrantCommit, TransferCommit, TypeOK
  <2>6. \A u \in Recipients : born[u] \in Nat /\ born'[u] \in Nat /\ born[u] <= born'[u]
    BY <2>4 DEF TypeOK
  <2>7. \A f \in Files : <<t.to, NewRow(t).gen>> \notin ifile[f].audience
    BY <2>1, <2>2 DEF Numbered
  <2>8. Numbered'
    <3>1. ASSUME NEW u \in Holders' PROVE rows'[u].gen <= born'[u]
      <4>1. CASE u = t.to /\ rows'[u] = NewRow(t)
        BY <2>2, <2>4, <4>1 DEF TypeOK, Holders
      <4>2. CASE rows[u] # NoRow /\ rows'[u] = rows[u]
        <5>1. rows[u].gen \in Nat /\ rows[u].gen <= born[u]
          BY <4>2 DEF Numbered, TypeOK, Row, Holders
        <5> QED
          BY <2>6, <4>2, <5>1 DEF Holders
      <4> QED
        BY <2>5, <4>1, <4>2 DEF Holders
    <3>2. ASSUME NEW f \in Files, NEW u \in Recipients, NEW g \in Nat, <<u, g>> \in ifile'[f].audience
          PROVE  g <= born'[u]
      BY <2>4, <2>6, <3>2 DEF Numbered
    <3> QED
      BY <3>1, <3>2 DEF Numbered
  <2>9. delivery # Idle => delivery.files \subseteq Files
    BY DEF TypeOK, Delivery
  <2>10. DeliveryFresh'
    BY <2>4, <2>5, <2>7, <2>9 DEF DeliveryFresh, Holders, Live
  <2>11. AudienceSeesFiles'
    BY <2>3, <2>4, <2>5, <2>7 DEF AudienceSeesFiles, Holders
  <2> QED
    BY <2>8, <2>10, <2>11
<1>8. ASSUME NEW u \in Recipients, DeleteUser(u) PROVE FilesInv'
  BY <1>2, <1>8 DEF DeleteUser, TypeOK
<1>9. ASSUME NEW w \in Workers, RevokeCommit(w) PROVE FilesInv'
  BY <1>2, <1>9 DEF RevokeCommit, TypeOK
<1>10. ASSUME Expire \/ \E w \in Workers : DeleteCommit(w) PROVE FilesInv'
  BY <1>1, <1>10 DEF Expire, DeleteCommit, DropReport, Live
<1>11. ASSUME UNCHANGED <<rows, report, born, ifile, delivery>> PROVE FilesInv'
  BY <1>2, <1>11
<1> QED
  BY <1>1, <1>3, <1>4, <1>5, <1>6, <1>7, <1>8, <1>9, <1>10, <1>11
  DEF Next, vars, Submission, Administration, RecipientStep, SubmitBegin, SubmitAbort,
      UpdateUser, CreateKeys, GrantBegin, TransferBegin, RevokeBegin, DeleteBegin, Start, Abort

\* A recipient who was there when a file was uploaded, and has not lost his row
\* since, finds the file once it was processed, whatever deliveries were rolled
\* back, and no row lists a file that was not processed.
THEOREM FilesDelivered == Spec => []AudienceSeesFiles
<1>1. Init => FilesInv
  BY DEF Init, FilesInv, Numbered, DeliveryFresh, AudienceSeesFiles, Holders, Absent
<1>2. KeysInv /\ KeysInv' /\ FilesInv /\ [Next]_vars => FilesInv'
  BY FilesInvStep
<1> QED
  BY <1>1, <1>2, KeysInvariant, PTL DEF Spec, FilesInv

-----------------------------------------------------------------------------
(* Downloads *)

\* A file that its writer has finished is whole until it is wiped, and no other is.
StoredInv ==
    /\ DOMAIN writer = Stored /\ DOMAIN written = Stored /\ DOMAIN cut = Stored /\ DOMAIN file = Stored
    /\ \A f \in Stored : writer[f] = "done" => written[f] \in {Reading!Pieces, None} /\ ~cut[f]
    /\ \A f \in Stored : writer[f] # "done" => written[f] # Reading!Pieces
    /\ \A f \in Stored : writer[f] = "busy" => written[f] \in 0 .. Reading!Pieces - 1
    /\ \A f \in Stored : written[f] # None => written[f] \in Nat
    /\ \A f \in Stored : file[f] = "none" => writer[f] = "none"

\* There is one line, that of the lock.
LockInv ==
    /\ queue \in [Workers -> Seq(Workers)]
    /\ lock \in Workers \cup {None}
    /\ lock # None => queue[lock] # << >>
    /\ \A l \in Workers : queue[l] # << >> => lock = l

\* A file that was complete when it was opened, and has not been wiped.
Sure(t, f) == f \notin t.early /\ written[f] = Reading!Pieces

\* n pieces of f, after the first a of what was given.
Data(t, f, a, n) == \A i \in 1 .. n : t.parts[a + i] = [file |-> f, what |-> "data"]

\* The download of a file.
Single1File(t) ==
    /\ t.step # "rows" /\ t.listed = << >>
    /\ t.step = "open" => t.file = None /\ t.parts = << >> /\ t.early = {} /\ \E f \in Stored : t.asked = {f}
    /\ t.step \in {"runs", "adrift"} => t.file # None /\ t.asked = {t.file}
    /\ t.step \in {"runs", "adrift"} /\ Sure(t, t.file) =>
         Len(t.parts) = t.at - 1 /\ Data(t, t.file, 0, t.at - 1)
    /\ t.step = "served" => \A f \in t.asked : Sure(t, f) =>
         Len(t.parts) = Frames /\ Data(t, f, 0, Frames)

\* The entry e of the directory has been given all of f but its end, and all of it.
Begun(t, f, e) ==
    t.listed[e].file = f /\ Len(t.parts) = t.listed[e].at + t.at - 1 /\ Data(t, f, t.listed[e].at, t.at - 1)
Ended(t, f, e) ==
    /\ t.listed[e].file = f /\ Len(t.parts) >= t.listed[e].at + Frames + 1
    /\ Data(t, f, t.listed[e].at, Frames)
    /\ t.parts[t.listed[e].at + Frames + 1] = [file |-> f, what |-> "tail"]

\* The download of an archive.
Archive(t) ==
    /\ t.step # "open"
    /\ t.step = "rows" => t.file = None /\ t.asked = {} /\ t.want = {} /\ t.listed = << >>
    /\ t.step = "served" => t.want = {}
    /\ \A e \in DOMAIN t.listed :
         /\ t.listed[e].at \in 1 .. Len(t.parts)
         /\ t.parts[t.listed[e].at] = [file |-> t.listed[e].file, what |-> "head"]
    /\ t.file # None /\ Sure(t, t.file) => \E e \in DOMAIN t.listed : Begun(t, t.file, e)
    /\ \A f \in t.asked \ t.want : Sure(t, f) => \E e \in DOMAIN t.listed : Ended(t, f, e)

\* The files a download has looked at.
Seen(t) == {f \in t.asked : f \notin t.want \/ f = t.file \/ t.step = "served"}

Faithful(t) ==
    /\ t \in Reading!Download
    /\ t.want \subseteq t.asked
    /\ t.file # None => t.file \in t.want /\ t.at >= 1 /\ t.step \in {"runs", "adrift"}
    /\ \A f \in Seen(t) : f \notin t.early => writer[f] = "done"
    /\ IF t.export THEN Archive(t) ELSE Single1File(t)

DownloadsInv ==
    /\ StoredInv /\ LockInv /\ DOMAIN down = Workers
    /\ \A d \in Workers : down[d] # None => Faithful(down[d])

LEMMA DownloadsFacts ==
    /\ Frames \in Nat /\ None \notin Nat /\ None \notin Stored /\ None \notin Workers
    /\ Reading!Pieces = Frames + 2 /\ Reading!Pieces \in Nat
  BY ReportsAssumption DEF Reading!DownloadsAssumption, Reading!Pieces

LEMMA DownloadsBegin ==
    ASSUME Reading!Init
    PROVE  DownloadsInv
<1>1. StoredInv
  BY DownloadsFacts DEF Reading!Init, StoredInv
<1>2. LockInv
  BY EmptySeq DEF Reading!Init, LockInv
<1>3. QED BY <1>1, <1>2 DEF Reading!Init, DownloadsInv

\* What has been downloaded stays so, whatever becomes of the files.
LEMMA FaithfulStays ==
    ASSUME NEW t, Faithful(t),
           \A f \in Stored : writer[f] = "done" => writer'[f] = "done",
           \A f \in Stored : writer[f] = "done" /\ written'[f] = Reading!Pieces => written[f] = Reading!Pieces
    PROVE  Faithful(t)'
<1>1. t \in Reading!Download /\ t.asked \subseteq Stored /\ t.want \subseteq t.asked
  BY DEF Faithful, Reading!Download
<1>2. \A f \in Seen(t) : Sure(t, f)' => Sure(t, f)
  BY <1>1 DEF Faithful, Sure, Seen
<1>3. t.export => Archive(t)'
  <2>1. t.file # None => t.file \in Seen(t)
    BY <1>1 DEF Faithful, Seen
  <2>2. t.asked \ t.want \subseteq Seen(t)
    BY DEF Seen
  <2>3. QED BY <1>2, <2>1, <2>2 DEF Faithful, Archive, Begun, Ended, Data
<1>4. ~t.export => Single1File(t)'
  <2>1. t.file # None => t.file \in Seen(t)
    BY <1>1 DEF Faithful, Seen
  <2>2. t.step = "served" => t.asked \subseteq Seen(t)
    BY DEF Seen
  <2>3. QED BY <1>2, <2>1, <2>2 DEF Faithful, Single1File, Data
<1>5. QED BY <1>1, <1>3, <1>4 DEF Faithful, Seen

LEMMA DownsStay ==
    ASSUME DownloadsInv, UNCHANGED <<down, lock, queue>>, StoredInv',
           \A f \in Stored : writer[f] = "done" => writer'[f] = "done",
           \A f \in Stored : writer[f] = "done" /\ written'[f] = Reading!Pieces => written[f] = Reading!Pieces
    PROVE  DownloadsInv'
<1>1. LockInv'
  BY DEF DownloadsInv, LockInv
<1>2. \A d \in Workers : down[d] # None => Faithful(down[d])'
  <2> SUFFICES ASSUME NEW d \in Workers, down[d] # None PROVE Faithful(down[d])'
    OBVIOUS
  <2>1. PICK t : t = down[d]
    OBVIOUS
  <2>2. Faithful(t)
    BY <2>1 DEF DownloadsInv
  <2>3. Faithful(t)'
    BY <2>2, FaithfulStays
  <2>4. QED BY <2>1, <2>3
<1>3. QED BY <1>1, <1>2 DEF DownloadsInv

\* The writer of a file, its deletion and its wiping.
LEMMA FileSteps ==
    ASSUME DownloadsInv, NEW f \in Stored,
           \/ Reading!Register(f) \/ Reading!WriteBegin(f) \/ Reading!Write(f)
           \/ Reading!Delete(f) \/ Reading!Wipe(f)
    PROVE  DownloadsInv'
<1>1. StoredInv
  BY DEF DownloadsInv
<1>2. CASE Reading!Register(f)
  <2>1. StoredInv'
    BY <1>1, <1>2, DownloadsFacts DEF StoredInv, Reading!Register
  <2>2. QED BY <1>1, <1>2, <2>1, DownsStay DEF StoredInv, Reading!Register, Reading!locks
<1>3. CASE Reading!WriteBegin(f)
  <2>1. StoredInv'
    BY <1>1, <1>3, DownloadsFacts DEF StoredInv, Reading!WriteBegin
  <2>2. QED BY <1>1, <1>3, <2>1, DownsStay DEF StoredInv, Reading!WriteBegin, Reading!locks
<1>4. CASE Reading!Write(f)
  <2>1. StoredInv'
    BY <1>1, <1>4, DownloadsFacts DEF StoredInv, Reading!Write
  <2>2. QED BY <1>1, <1>4, <2>1, DownsStay DEF StoredInv, Reading!Write, Reading!locks
<1>5. CASE Reading!Delete(f)
  <2>1. StoredInv'
    BY <1>1, <1>5, DownloadsFacts DEF StoredInv, Reading!Delete
  <2>2. QED BY <1>1, <1>5, <2>1, DownsStay DEF StoredInv, Reading!Delete, Reading!locks
<1>6. CASE Reading!Wipe(f)
  <2>1. StoredInv'
    BY <1>1, <1>6, DownloadsFacts DEF StoredInv, Reading!Wipe
  <2>2. QED BY <1>1, <1>6, <2>1, DownloadsFacts, DownsStay DEF StoredInv, Reading!Wipe, Reading!locks
<1>7. QED BY <1>2, <1>3, <1>4, <1>5, <1>6

LEMMA OthersFacts ==
    ASSUME NEW q \in Seq(Workers), NEW d
    PROVE  Reading!Others(q, d) \in Seq(Workers) /\ (q = << >> => Reading!Others(q, d) = << >>)
<1>1. CASE \E i \in DOMAIN q : q[i] = d
  <2>1. PICK i \in DOMAIN q : i = CHOOSE j \in DOMAIN q : q[j] = d
    BY <1>1
  <2>2. Reading!Others(q, d) = SubSeq(q, 1, i - 1) \o SubSeq(q, i + 1, Len(q))
    BY <1>1, <2>1 DEF Reading!Others, Reading!RemoveAt
  <2>3. Len(q) \in Nat /\ i \in 1 .. Len(q) /\ \A j \in 1 .. Len(q) : q[j] \in Workers
    BY LenProperties, ElementOfSeq
  <2>4. SubSeq(q, 1, i - 1) \in Seq(Workers) /\ SubSeq(q, i + 1, Len(q)) \in Seq(Workers)
    BY <2>3, SubSeqProperties
  <2>5. QED BY <2>2, <2>3, <2>4, ConcatProperties, EmptySeq
<1>2. CASE ~\E i \in DOMAIN q : q[i] = d
  BY <1>2 DEF Reading!Others
<1>3. QED BY <1>1, <1>2

LEMMA LockQueues ==
    ASSUME LockInv, NEW d \in Workers, Reading!Queues(d)
    PROVE  LockInv'
<1>1. PICK l \in Workers : /\ l = IF lock = None THEN d ELSE lock
                           /\ lock' = l /\ queue' = [queue EXCEPT ![l] = Append(@, d)]
  BY DEF Reading!Queues, LockInv
<1>2. queue[l] \in Seq(Workers)
  BY DEF LockInv
<1>3. Append(queue[l], d) \in Seq(Workers) /\ Append(queue[l], d) # << >>
  <2>1. /\ Append(queue[l], d) \in Seq(Workers) /\ Len(queue[l]) \in Nat
        /\ Len(Append(queue[l], d)) = Len(queue[l]) + 1
    BY <1>2, AppendProperties, LenProperties
  <2>2. Len(<< >>) = 0
    OBVIOUS
  <2>3. QED BY <2>1, <2>2
<1>4. PICK a \in Seq(Workers) : a = Append(queue[l], d) /\ a # << >>
  BY <1>3
<1>5. queue' = [queue EXCEPT ![l] = a] /\ lock' = l
  BY <1>1, <1>4 DEF LockInv
<1>6. \A m \in Workers : m # l => queue[m] = << >>
  BY <1>1, DownloadsFacts DEF LockInv
<1>7. QED BY <1>4, <1>5, <1>6, DownloadsFacts DEF LockInv

LEMMA LockReleased ==
    ASSUME LockInv, NEW d, Reading!Released(d)
    PROVE  LockInv'
<1>1. /\ queue' = [l \in Workers |-> Reading!Others(queue[l], d)]
      /\ lock' = IF lock # None /\ queue'[lock] = << >> THEN None ELSE lock
  BY DEF Reading!Released
<1>2. \A l \in Workers : /\ queue'[l] \in Seq(Workers)
                         /\ queue[l] = << >> => queue'[l] = << >>
  BY <1>1, OthersFacts DEF LockInv
<1>3. QED BY <1>1, <1>2 DEF LockInv

\* A download takes a step.
LEMMA DownSet ==
    ASSUME DownloadsInv, NEW d \in Workers, NEW u, u = None \/ Faithful(u),
           down' = [down EXCEPT ![d] = u], UNCHANGED <<file, writer, written, cut>>, LockInv'
    PROVE  DownloadsInv'
<1>1. StoredInv'
  BY DEF DownloadsInv, StoredInv
<1> PICK after : after = [down EXCEPT ![d] = u]
  OBVIOUS
<1>2. DOMAIN after = Workers /\ after[d] = u /\ \A e \in Workers \ {d} : after[e] = down[e]
  BY DEF DownloadsInv
<1>3. ASSUME NEW t, Faithful(t) PROVE Faithful(t)'
  BY <1>3, FaithfulStays
<1>4. ASSUME NEW e \in Workers, after[e] # None PROVE Faithful(after[e])'
  <2>1. PICK t : t = after[e]
    OBVIOUS
  <2>2. Faithful(t)
    BY <1>2, <1>4, <2>1 DEF DownloadsInv
  <2>3. Faithful(t)'
    BY <1>3, <2>2
  <2>4. QED BY <2>1, <2>3
<1>5. down' = after
  OBVIOUS
<1>6. \A e \in Workers : down'[e] # None => Faithful(down[e])'
  BY <1>4, <1>5
<1>7. QED BY <1>1, <1>2, <1>5, <1>6 DEF DownloadsInv

\* What the steps change of a download.
LEMMA OpenedFacts ==
    ASSUME NEW t \in Reading!Download, NEW f \in Stored, NEW u, u = Reading!Opened(t, f)
    PROVE  /\ u \in Reading!Download
           /\ u.export = t.export /\ u.step = "runs" /\ u.asked = t.asked /\ u.want = t.want
           /\ u.file = f /\ u.at = 1 /\ u.parts = t.parts /\ u.listed = t.listed
           /\ t.early \subseteq u.early /\ u.early \subseteq t.early \cup {f}
           /\ f \notin u.early => writer[f] = "done"
<1>1. PICK early \in SUBSET Stored : early = IF writer[f] = "done" THEN t.early ELSE t.early \cup {f}
  BY DEF Reading!Download
<1>2. u = [t EXCEPT !.file = f, !.at = 1, !.step = "runs", !.early = early]
  BY <1>1 DEF Reading!Opened
<1>3. 1 \in 0 .. Frames + 1
  BY DownloadsFacts
<1>4. /\ u \in Reading!Download /\ u.early = early
      /\ u.export = t.export /\ u.step = "runs" /\ u.asked = t.asked /\ u.want = t.want
      /\ u.file = f /\ u.at = 1 /\ u.parts = t.parts /\ u.listed = t.listed
  BY <1>2, <1>3 DEF Reading!Download
<1>5. t.early \subseteq early /\ early \subseteq t.early \cup {f} /\ (f \notin early => writer[f] = "done")
  BY <1>1
<1>6. QED BY <1>4, <1>5

LEMMA KeptFacts ==
    ASSUME NEW t \in Reading!Download, NEW f, NEW u, u = Reading!Kept(t, f)
    PROVE  /\ u \in Reading!Download
           /\ u.export = t.export /\ u.step = t.step /\ u.asked = t.asked /\ u.want = t.want \ {f}
           /\ u.file = None /\ u.at = 0 /\ u.parts = t.parts /\ u.listed = t.listed /\ u.early = t.early
<1>1. PICK want \in SUBSET Stored : want = t.want \ {f}
  BY DEF Reading!Download
<1>2. u = [t EXCEPT !.want = want, !.file = None, !.at = 0]
  BY <1>1 DEF Reading!Kept
<1>3. 0 \in 0 .. Frames + 1
  BY DownloadsFacts
<1>4. QED BY <1>1, <1>2, <1>3 DEF Reading!Download

\* u is t with one more piece of its file.
OneMore(t, what, u) ==
    /\ u \in Reading!Download
    /\ u.export = t.export /\ u.step = t.step /\ u.asked = t.asked /\ u.want = t.want
    /\ u.file = t.file /\ u.at = t.at /\ u.listed = t.listed /\ u.early = t.early
    /\ Len(t.parts) \in Nat /\ Len(u.parts) = Len(t.parts) + 1
    /\ \A i \in 1 .. Len(t.parts) : u.parts[i] = t.parts[i]
    /\ u.parts[Len(t.parts) + 1] = [file |-> t.file, what |-> what]

LEMMA GivenFacts ==
    ASSUME NEW t \in Reading!Download, t.file \in Stored, NEW what \in {"head", "data", "tail"},
           NEW u, u = Reading!Given(t, what)
    PROVE  OneMore(t, what, u)
<1>1. PICK p \in Reading!Part : p = [file |-> t.file, what |-> what]
  BY DEF Reading!Part
<1>2. PICK old \in Seq(Reading!Part) : old = t.parts
  BY DEF Reading!Download
<1>3. PICK parts \in Seq(Reading!Part) : parts = Append(old, p)
  BY AppendProperties
<1>4. u = [t EXCEPT !.parts = parts]
  BY <1>1, <1>2, <1>3 DEF Reading!Given
<1>5. /\ u \in Reading!Download /\ u.parts = parts
      /\ u.export = t.export /\ u.step = t.step /\ u.asked = t.asked /\ u.want = t.want
      /\ u.file = t.file /\ u.at = t.at /\ u.listed = t.listed /\ u.early = t.early
  BY <1>4 DEF Reading!Download
<1>6. /\ Len(old) \in Nat /\ Len(parts) = Len(old) + 1
      /\ \A i \in 1 .. Len(old) : parts[i] = old[i]
      /\ parts[Len(old) + 1] = p
  BY <1>3, AppendProperties, LenProperties
<1>7. QED BY <1>1, <1>2, <1>5, <1>6 DEF OneMore

LEMMA StepFacts ==
    ASSUME NEW t \in Reading!Download
    PROVE  \A s \in {"adrift"} :
             LET u == [t EXCEPT !.step = s] IN
             /\ u \in Reading!Download
             /\ u.export = t.export /\ u.step = s /\ u.asked = t.asked /\ u.want = t.want
             /\ u.file = t.file /\ u.at = t.at /\ u.parts = t.parts /\ u.listed = t.listed /\ u.early = t.early
  BY DEF Reading!Download

\* One step of each kind.
LEMMA AskFileStep ==
    ASSUME DownloadsInv, NEW d \in Workers, NEW f \in Stored, NEW pgp \in BOOLEAN, Reading!AskFile(d, f, pgp)
    PROVE  DownloadsInv'
<1>1. PICK u : u = [Reading!Asked EXCEPT !.pgp = pgp, !.asked = {f}, !.want = {f}]
  OBVIOUS
<1>2. down' = [down EXCEPT ![d] = u] /\ UNCHANGED <<lock, queue, file, writer, written, cut>>
  BY <1>1 DEF Reading!AskFile, Reading!Goes, Reading!locks, Reading!files
<1>3. u = [export |-> FALSE, pgp |-> pgp, step |-> "open", asked |-> {f}, want |-> {f},
           file |-> None, at |-> 0, parts |-> << >>, listed |-> << >>, early |-> {}]
  BY <1>1 DEF Reading!Asked
<1>4. << >> \in Seq(Reading!Part) /\ << >> \in Seq([file : Stored, at : Nat]) /\ 0 \in 0 .. Frames + 1
  BY EmptySeq, DownloadsFacts
<1>5. u \in Reading!Download
  BY <1>3, <1>4 DEF Reading!Download
<1>6. /\ ~u.export /\ u.step = "open" /\ u.asked = {f} /\ u.want = {f} /\ u.file = None
      /\ u.parts = << >> /\ u.listed = << >> /\ u.early = {}
  BY <1>3
<1>7. Faithful(u)
  BY <1>5, <1>6, DownloadsFacts DEF Faithful, Single1File, Seen
<1>8. LockInv'
  BY <1>2 DEF DownloadsInv, LockInv
<1>9. QED BY <1>2, <1>7, <1>8, DownSet

LEMMA AskExportStep ==
    ASSUME DownloadsInv, NEW d \in Workers, NEW pgp \in BOOLEAN, Reading!AskExport(d, pgp)
    PROVE  DownloadsInv'
<1>1. PICK u : u = [Reading!Asked EXCEPT !.export = TRUE, !.pgp = pgp, !.step = "rows"]
  OBVIOUS
<1>2. down' = [down EXCEPT ![d] = u] /\ UNCHANGED <<file, writer, written, cut>> /\ Reading!Queues(d)
  BY <1>1 DEF Reading!AskExport, Reading!files
<1>3. u = [export |-> TRUE, pgp |-> pgp, step |-> "rows", asked |-> {}, want |-> {},
           file |-> None, at |-> 0, parts |-> << >>, listed |-> << >>, early |-> {}]
  BY <1>1 DEF Reading!Asked
<1>4. << >> \in Seq(Reading!Part) /\ << >> \in Seq([file : Stored, at : Nat]) /\ 0 \in 0 .. Frames + 1
  BY EmptySeq, DownloadsFacts
<1>5. u \in Reading!Download
  BY <1>3, <1>4 DEF Reading!Download
<1>6. /\ u.export /\ u.step = "rows" /\ u.asked = {} /\ u.want = {} /\ u.file = None
      /\ u.parts = << >> /\ u.listed = << >> /\ u.early = {}
  BY <1>3
<1>7. Faithful(u)
  BY <1>5, <1>6, DownloadsFacts DEF Faithful, Archive, Seen
<1>8. LockInv'
  BY <1>2, LockQueues DEF DownloadsInv
<1>9. QED BY <1>2, <1>7, <1>8, DownSet

\* The download that takes a step.
LEMMA AtWork ==
    ASSUME DownloadsInv, NEW d \in Workers, down[d] # None
    PROVE  Faithful(down[d]) /\ LockInv /\ StoredInv /\ down[d] \in Reading!Download
  BY DEF DownloadsInv, Faithful

LEMMA ReadRowsStep ==
    ASSUME DownloadsInv, NEW d \in Workers, Reading!ReadRows(d)
    PROVE  DownloadsInv'
<1>1. PICK t : t = down[d]
  OBVIOUS
<1>2. PICK there \in SUBSET Stored : there = {f \in Stored : Reading!Found(f)}
  OBVIOUS
<1>3. PICK u : u = [t EXCEPT !.step = "runs", !.asked = there, !.want = there]
  OBVIOUS
<1>4. /\ t.step = "rows" /\ t # None
      /\ down' = [down EXCEPT ![d] = u] /\ UNCHANGED <<lock, queue, file, writer, written, cut>>
  BY <1>1, <1>2, <1>3 DEF Reading!ReadRows, Reading!Runs, Reading!At, Reading!Goes, Reading!locks, Reading!files
<1>5. Faithful(t) /\ t \in Reading!Download
  BY <1>1, <1>4, AtWork
<1>6. t.export /\ t.file = None /\ t.listed = << >>
  BY <1>4, <1>5 DEF Faithful, Archive, Single1File
<1>7. /\ u \in Reading!Download /\ u.export = t.export /\ u.step = "runs" /\ u.asked = there /\ u.want = there
      /\ u.file = t.file /\ u.parts = t.parts /\ u.listed = t.listed /\ u.early = t.early
  BY <1>3, <1>5 DEF Reading!Download
<1>8. Faithful(u)
  BY <1>6, <1>7, DownloadsFacts DEF Faithful, Archive, Seen
<1>9. LockInv'
  BY <1>4 DEF DownloadsInv, LockInv
<1>10. QED BY <1>4, <1>8, <1>9, DownSet

\* A download ends without an answer.
LEMMA FailsStep ==
    ASSUME DownloadsInv, NEW d \in Workers, Reading!Fails(d), UNCHANGED <<file, writer, written, cut>>
    PROVE  DownloadsInv'
<1>1. down' = [down EXCEPT ![d] = None] /\ Reading!Released(d)
  BY DEF Reading!Fails
<1>2. LockInv'
  BY <1>1, LockReleased DEF DownloadsInv
<1>3. QED BY <1>1, <1>2, DownSet

LEMMA OpenFileStep ==
    ASSUME DownloadsInv, NEW d \in Workers, NEW f \in Stored, Reading!OpenFile(d, f)
    PROVE  DownloadsInv'
<1>1. PICK t : t = down[d]
  OBVIOUS
<1>2. t # None /\ t.step = "open" /\ f \in t.want /\ UNCHANGED <<file, writer, written, cut>>
  BY <1>1 DEF Reading!OpenFile, Reading!At, Reading!files
<1>3. Faithful(t) /\ t \in Reading!Download
  BY <1>1, <1>2, AtWork
<1>4. ~t.export /\ t.asked = {f} /\ t.parts = << >> /\ t.listed = << >> /\ t.want \subseteq t.asked
  BY <1>2, <1>3 DEF Faithful, Archive, Single1File
<1>5. CASE Reading!Opens(f)
  <2>1. PICK u : u = Reading!Opened(t, f)
    OBVIOUS
  <2>2. down' = [down EXCEPT ![d] = u] /\ (Reading!Queues(d) \/ UNCHANGED <<lock, queue>>)
    BY <1>1, <1>5, <2>1 DEF Reading!OpenFile, Reading!locks
  <2>3. LockInv'
    BY <2>2, LockQueues DEF DownloadsInv, LockInv
  <2>4. /\ u \in Reading!Download
        /\ u.export = t.export /\ u.step = "runs" /\ u.asked = t.asked /\ u.want = t.want
        /\ u.file = f /\ u.at = 1 /\ u.parts = t.parts /\ u.listed = t.listed
        /\ f \notin u.early => writer[f] = "done"
    BY <1>3, <2>1, OpenedFacts
  <2>5. Len(u.parts) = u.at - 1 /\ Data(u, u.file, 0, u.at - 1)
    BY <1>4, <2>4 DEF Data
  <2>6. Single1File(u)
    BY <1>4, <2>4, <2>5, DownloadsFacts DEF Single1File
  <2>7. Faithful(u)
    BY <1>2, <1>4, <2>4, <2>6 DEF Faithful, Seen
  <2>8. QED BY <1>2, <2>2, <2>3, <2>7, DownSet
<1>6. CASE ~Reading!Opens(f)
  BY <1>1, <1>2, <1>6, FailsStep DEF Reading!OpenFile
<1>7. QED BY <1>5, <1>6

\* What a longer download holds of what a shorter one did.
Longer(t, u) ==
    /\ Len(u.parts) >= Len(t.parts) /\ \A i \in 1 .. Len(t.parts) : u.parts[i] = t.parts[i]
    /\ DOMAIN t.listed \subseteq DOMAIN u.listed /\ \A e \in DOMAIN t.listed : u.listed[e] = t.listed[e]
    /\ t.early \subseteq u.early

LEMMA LongerFacts ==
    ASSUME NEW t \in Reading!Download, NEW u \in Reading!Download, Longer(t, u), Archive(t)
    PROVE  /\ Len(t.parts) \in Nat /\ Len(u.parts) \in Nat
           /\ \A e \in DOMAIN t.listed :
                /\ u.listed[e].at \in 1 .. Len(u.parts)
                /\ u.parts[u.listed[e].at] = [file |-> u.listed[e].file, what |-> "head"]
           /\ \A f \in t.asked \ t.want : Sure(u, f) => \E e \in DOMAIN u.listed : Ended(u, f, e)
<1>1. Len(t.parts) \in Nat /\ Len(u.parts) \in Nat
  BY LenProperties DEF Reading!Download
<1>2. \A e \in DOMAIN t.listed :
        /\ u.listed[e].at \in 1 .. Len(u.parts)
        /\ u.parts[u.listed[e].at] = [file |-> u.listed[e].file, what |-> "head"]
  <2> SUFFICES ASSUME NEW e \in DOMAIN t.listed
               PROVE  /\ u.listed[e].at \in 1 .. Len(u.parts)
                      /\ u.parts[u.listed[e].at] = [file |-> u.listed[e].file, what |-> "head"]
    OBVIOUS
  <2>1. PICK a \in 1 .. Len(t.parts) : a = t.listed[e].at
    BY DEF Archive
  <2>2. t.parts[a] = [file |-> t.listed[e].file, what |-> "head"]
    BY <2>1 DEF Archive
  <2>3. u.listed[e] = t.listed[e] /\ u.parts[a] = t.parts[a] /\ a \in 1 .. Len(u.parts)
    BY <1>1, <2>1 DEF Longer
  <2>4. QED BY <2>1, <2>2, <2>3
<1>3. ASSUME NEW f \in t.asked \ t.want, Sure(u, f)
      PROVE  \E e \in DOMAIN u.listed : Ended(u, f, e)
  <2>1. Sure(t, f)
    BY <1>3 DEF Sure, Longer
  <2>2. PICK e \in DOMAIN t.listed : Ended(t, f, e)
    BY <1>3, <2>1 DEF Archive
  <2>3. PICK a \in 1 .. Len(t.parts) : a = t.listed[e].at
    BY <2>2 DEF Archive
  <2>4. u.listed[e] = t.listed[e] /\ e \in DOMAIN u.listed
    BY <2>2 DEF Longer
  <2>5. Len(u.parts) >= a + Frames + 1 /\ Len(t.parts) >= a + Frames + 1
    BY <1>1, <2>2, <2>3, DownloadsFacts DEF Ended, Longer
  <2>6. \A i \in 1 .. Frames + 1 : a + i \in 1 .. Len(t.parts)
    BY <1>1, <2>5, DownloadsFacts
  <2>7. \A i \in 1 .. Frames + 1 : u.parts[a + i] = t.parts[a + i]
    BY <2>6 DEF Longer
  <2>8. Data(u, f, a, Frames)
    <3>1. \A i \in 1 .. Frames : t.parts[a + i] = [file |-> f, what |-> "data"]
      BY <2>2, <2>3 DEF Ended, Data
    <3>2. \A i \in 1 .. Frames : u.parts[a + i] = t.parts[a + i]
      BY <2>7, DownloadsFacts
    <3>3. QED BY <3>1, <3>2 DEF Data
  <2>9. u.parts[a + Frames + 1] = t.parts[a + Frames + 1]
    BY <2>7, DownloadsFacts
  <2>10. Ended(u, f, e)
    BY <2>2, <2>3, <2>4, <2>5, <2>8, <2>9 DEF Ended
  <2>11. QED BY <2>4, <2>10
<1>4. QED BY <1>1, <1>2, <1>3

LEMMA NextEntryStep ==
    ASSUME DownloadsInv, NEW d \in Workers, NEW f \in Stored, Reading!NextEntry(d, f)
    PROVE  DownloadsInv'
<1>1. PICK t : t = down[d]
  OBVIOUS
<1>2. /\ t # None /\ t.step \in {"runs", "adrift"} /\ t.export /\ t.file = None /\ f \in t.want
      /\ UNCHANGED <<lock, queue, file, writer, written, cut>>
  BY <1>1 DEF Reading!NextEntry, Reading!Working, Reading!Runs, Reading!At, Reading!Goes, Reading!locks, Reading!files
<1>3. Faithful(t) /\ t \in Reading!Download /\ Archive(t)
  BY <1>1, <1>2, AtWork DEF Faithful
<1>4. LockInv'
  BY <1>2 DEF DownloadsInv, LockInv
<1>5. CASE Reading!Opens(f)
  <2>1. PICK o : o = Reading!Opened(t, f)
    OBVIOUS
  <2>2. PICK u : u = [o EXCEPT !.step = t.step]
    OBVIOUS
  <2>3. PICK v : v = Reading!Given(u, "head")
    OBVIOUS
  <2>4. PICK n : n = Len(t.parts) + 1
    OBVIOUS
  <2>5. PICK x2 : x2 = [v EXCEPT !.listed = Append(@, [file |-> f, at |-> n])]
    OBVIOUS
  <2>6. down' = [down EXCEPT ![d] = x2]
    BY <1>1, <1>5, <2>1, <2>2, <2>3, <2>4, <2>5 DEF Reading!NextEntry, Reading!Goes
  <2>7. /\ o \in Reading!Download
        /\ o.export = t.export /\ o.asked = t.asked /\ o.want = t.want
        /\ o.file = f /\ o.at = 1 /\ o.parts = t.parts /\ o.listed = t.listed
        /\ t.early \subseteq o.early /\ o.early \subseteq t.early \cup {f}
        /\ f \notin o.early => writer[f] = "done"
    BY <1>3, <2>1, OpenedFacts
  <2>8. /\ u \in Reading!Download
        /\ u.export = t.export /\ u.step = t.step /\ u.asked = t.asked /\ u.want = t.want
        /\ u.file = f /\ u.at = 1 /\ u.parts = t.parts /\ u.listed = t.listed /\ u.early = o.early
    BY <1>3, <2>2, <2>7 DEF Reading!Download
  <2>9. /\ v \in Reading!Download
        /\ v.export = u.export /\ v.step = u.step /\ v.asked = u.asked /\ v.want = u.want
        /\ v.file = f /\ v.at = 1 /\ v.listed = u.listed /\ v.early = u.early
        /\ Len(u.parts) \in Nat /\ Len(v.parts) = Len(u.parts) + 1
        /\ \A i \in 1 .. Len(u.parts) : v.parts[i] = u.parts[i]
        /\ v.parts[Len(u.parts) + 1] = [file |-> f, what |-> "head"]
    <3>1. u.file \in Stored /\ u \in Reading!Download /\ "head" \in {"head", "data", "tail"}
      BY <2>8
    <3>2. OneMore(u, "head", v)
      BY <3>1, <2>3, GivenFacts
    <3>3. QED BY <2>8, <3>2 DEF OneMore
  <2>10. PICK l \in Seq([file : Stored, at : Nat]) :
           /\ l = Append(v.listed, [file |-> f, at |-> n])
           /\ Len(v.listed) \in Nat /\ DOMAIN v.listed = 1 .. Len(v.listed)
           /\ Len(l) = Len(v.listed) + 1 /\ DOMAIN l = 1 .. Len(l)
           /\ \A i \in 1 .. Len(v.listed) : l[i] = v.listed[i]
           /\ l[Len(v.listed) + 1] = [file |-> f, at |-> n]
    <3>1. PICK e \in [file : Stored, at : Nat] : e = [file |-> f, at |-> n]
      <4>1. n \in Nat
        BY <2>4, <2>8, <2>9
      <4>2. QED BY <4>1
    <3>2. PICK s \in Seq([file : Stored, at : Nat]) : s = v.listed
      BY <2>9 DEF Reading!Download
    <3>3. PICK l \in Seq([file : Stored, at : Nat]) : l = Append(s, e)
      BY AppendProperties
    <3>4. /\ Len(s) \in Nat /\ DOMAIN s = 1 .. Len(s)
          /\ Len(l) = Len(s) + 1 /\ DOMAIN l = 1 .. Len(l)
          /\ \A i \in 1 .. Len(s) : l[i] = s[i]
          /\ l[Len(s) + 1] = e
      BY <3>3, AppendProperties, LenProperties
    <3>5. QED BY <3>1, <3>2, <3>3, <3>4
  <2>11. /\ x2 \in Reading!Download /\ x2.listed = l
         /\ x2.export = t.export /\ x2.step = t.step /\ x2.asked = t.asked /\ x2.want = t.want
         /\ x2.file = f /\ x2.at = 1 /\ x2.early = o.early /\ x2.parts = v.parts
    BY <2>5, <2>8, <2>9, <2>10 DEF Reading!Download
  <2>12. Longer(t, x2)
    BY <2>7, <2>8, <2>9, <2>10, <2>11 DEF Longer
  <2>13. PICK k : k = Len(t.listed) + 1
    OBVIOUS
  <2>14. /\ k \in DOMAIN l /\ l[k].file = f /\ l[k].at = n
         /\ DOMAIN l = DOMAIN t.listed \cup {k}
    BY <2>8, <2>9, <2>10, <2>13
  <2>15. n \in 1 .. Len(x2.parts) /\ x2.parts[n] = [file |-> f, what |-> "head"] /\ Len(x2.parts) = n
    BY <2>4, <2>8, <2>9, <2>11
  <2>16. Begun(x2, f, k)
    <3>1. n \in Nat
      BY <2>4, <2>8, <2>9
    <3>2. QED BY <2>11, <2>14, <2>15, <3>1 DEF Begun, Data
  <2>17. \A e \in DOMAIN x2.listed :
          /\ x2.listed[e].at \in 1 .. Len(x2.parts)
          /\ x2.parts[x2.listed[e].at] = [file |-> x2.listed[e].file, what |-> "head"]
    BY <1>3, <2>11, <2>12, <2>14, <2>15, LongerFacts
  <2>18. \A g \in x2.asked \ x2.want : Sure(x2, g) => \E e \in DOMAIN x2.listed : Ended(x2, g, e)
    BY <1>3, <2>11, <2>12, LongerFacts
  <2>19. Archive(x2)
    BY <1>2, <2>11, <2>14, <2>16, <2>17, <2>18 DEF Archive
  <2>20. Seen(x2) = Seen(t) \cup {f}
    BY <1>2, <1>3, <2>11, DownloadsFacts DEF Seen, Faithful, Reading!Download
  <2>21. \A g \in Seen(x2) : g \notin x2.early => writer[g] = "done"
    BY <1>3, <2>7, <2>11, <2>20 DEF Faithful
  <2>22. Faithful(x2)
    BY <1>2, <1>3, <2>11, <2>19, <2>21 DEF Faithful
  <2>23. QED BY <1>2, <1>4, <2>6, <2>22, DownSet
<1>6. CASE ~Reading!Opens(f)
  <2>1. PICK k : k = Reading!Kept(t, f)
    OBVIOUS
  <2>2. PICK u : u = [k EXCEPT !.early = @ \cup {f}]
    OBVIOUS
  <2>3. down' = [down EXCEPT ![d] = u]
    BY <1>1, <1>6, <2>1, <2>2 DEF Reading!NextEntry, Reading!Goes
  <2>4. /\ k \in Reading!Download
        /\ k.export = t.export /\ k.step = t.step /\ k.asked = t.asked /\ k.want = t.want \ {f}
        /\ k.file = None /\ k.at = 0 /\ k.parts = t.parts /\ k.listed = t.listed /\ k.early = t.early
    BY <1>3, <2>1, KeptFacts
  <2>5. /\ u \in Reading!Download
        /\ u.export = t.export /\ u.step = t.step /\ u.asked = t.asked /\ u.want = t.want \ {f}
        /\ u.file = None /\ u.parts = t.parts /\ u.listed = t.listed /\ u.early = t.early \cup {f}
    <3>1. PICK early \in SUBSET Stored : early = k.early \cup {f}
      BY <2>4 DEF Reading!Download
    <3>2. u = [k EXCEPT !.early = early]
      BY <2>2, <3>1
    <3>3. QED BY <2>4, <3>1, <3>2 DEF Reading!Download
  <2>6. Longer(t, u)
    BY <1>3, <2>5, LenProperties DEF Longer, Reading!Download
  <2>7. /\ \A e \in DOMAIN u.listed :
             /\ u.listed[e].at \in 1 .. Len(u.parts)
             /\ u.parts[u.listed[e].at] = [file |-> u.listed[e].file, what |-> "head"]
        /\ \A g \in t.asked \ t.want : Sure(u, g) => \E e \in DOMAIN u.listed : Ended(u, g, e)
    BY <1>3, <2>5, <2>6, LongerFacts
  <2>8. ~Sure(u, f)
    BY <2>5 DEF Sure
  <2>9. Archive(u)
    BY <1>2, <2>5, <2>7, <2>8 DEF Archive
  <2>10. \A g \in Seen(u) : g \in Seen(t) \/ g = f
    BY <1>2, <2>5, DownloadsFacts DEF Seen
  <2>11. Faithful(u)
    BY <1>2, <1>3, <2>5, <2>9, <2>10 DEF Faithful
  <2>12. QED BY <1>2, <1>4, <2>3, <2>11, DownSet
<1>7. QED BY <1>5, <1>6

\* A download that reads a file.
LEMMA Reads ==
    ASSUME DownloadsInv, NEW d \in Workers, Reading!Read(d), NEW t, t = down[d]
    PROVE  /\ t # None /\ t.step \in {"runs", "adrift"} /\ t.file # None
           /\ t.file \in Stored /\ t.file \in t.want /\ t.file \in t.asked /\ t.at \in 1 .. Frames + 1
           /\ t \in Reading!Download /\ Faithful(t) /\ LockInv /\ StoredInv
           /\ UNCHANGED <<file, writer, written, cut>>
<1>1. t # None /\ t.step \in {"runs", "adrift"} /\ t.file # None /\ UNCHANGED <<file, writer, written, cut>>
  BY DEF Reading!Read, Reading!Working, Reading!Runs, Reading!At, Reading!files
<1>2. t \in Reading!Download /\ Faithful(t) /\ LockInv /\ StoredInv
  BY <1>1, AtWork
<1>3. t.file \in t.want /\ t.want \subseteq t.asked /\ t.at >= 1
  BY <1>1, <1>2 DEF Faithful
<1>4. t.file \in Stored /\ t.at \in 1 .. Frames + 1
  BY <1>1, <1>2, <1>3, DownloadsFacts DEF Reading!Download
<1>5. QED BY <1>1, <1>2, <1>3, <1>4

\* A file that is whole, and was so when it was opened, has no error, and its end
\* is after its last frame.
LEMMA ReadsWhole ==
    ASSUME DownloadsInv, NEW d \in Workers, Reading!Read(d), NEW t, t = down[d], Sure(t, t.file)
    PROVE  /\ written[t.file] = Frames + 2 /\ written[t.file] # None /\ ~cut[t.file]
           /\ (t.at + 1 >= Reading!Pieces \/ written[t.file] = t.at) => t.at = Frames + 1
<1>1. /\ t.file \in Stored /\ t.file \in t.asked /\ t.at \in 1 .. Frames + 1 /\ Faithful(t) /\ StoredInv
  BY Reads
<1>2. t.file \notin t.early /\ written[t.file] = Reading!Pieces
  BY DEF Sure
<1>3. t.file \in Seen(t)
  BY <1>1 DEF Seen
<1>4. writer[t.file] = "done"
  BY <1>1, <1>2, <1>3 DEF Faithful
<1>5. ~cut[t.file]
  BY <1>1, <1>4 DEF StoredInv
<1>6. written[t.file] = Frames + 2 /\ written[t.file] # None
  BY <1>2, DownloadsFacts
<1>7. (t.at + 1 >= Reading!Pieces \/ written[t.file] = t.at) => t.at = Frames + 1
  BY <1>1, <1>6, DownloadsFacts
<1>8. QED BY <1>5, <1>6, <1>7

\* An archive leaves the file it reads.
LEMMA ReadLeaves ==
    ASSUME DownloadsInv, NEW d \in Workers, Reading!Read(d), NEW t, t = down[d], t.export,
           NEW u \in Reading!Download, Longer(t, u), down' = [down EXCEPT ![d] = u], UNCHANGED <<lock, queue>>,
           u.export, u.step = t.step, u.asked = t.asked, u.want = t.want \ {t.file}, u.file = None,
           u.listed = t.listed, u.early = t.early,
           Sure(t, t.file) => \E e \in DOMAIN u.listed : Ended(u, t.file, e)
    PROVE  DownloadsInv'
<1>1. /\ t # None /\ t.step \in {"runs", "adrift"} /\ t.file # None
      /\ t.file \in t.want /\ t.file \in t.asked
      /\ t \in Reading!Download /\ Faithful(t)
      /\ UNCHANGED <<file, writer, written, cut>>
  BY Reads
<1>2. Archive(t)
  BY <1>1 DEF Faithful
<1>3. /\ \A e \in DOMAIN u.listed :
           /\ u.listed[e].at \in 1 .. Len(u.parts)
           /\ u.parts[u.listed[e].at] = [file |-> u.listed[e].file, what |-> "head"]
      /\ \A g \in t.asked \ t.want : Sure(u, g) => \E e \in DOMAIN u.listed : Ended(u, g, e)
  BY <1>1, <1>2, LongerFacts
<1>4. Sure(u, t.file) => Sure(t, t.file)
  BY DEF Sure
<1>5. \A g \in u.asked \ u.want : Sure(u, g) => \E e \in DOMAIN u.listed : Ended(u, g, e)
  BY <1>3, <1>4
<1>6. Archive(u)
  BY <1>1, <1>3, <1>5 DEF Archive
<1>7. \A g \in Seen(u) : g \in Seen(t)
  <2>1. None \notin u.asked
    BY DownloadsFacts DEF Reading!Download
  <2>2. QED BY <1>1, <2>1 DEF Seen
<1>8. Faithful(u)
  BY <1>1, <1>6, <1>7 DEF Faithful
<1>9. LockInv'
  BY DEF DownloadsInv, LockInv
<1>10. QED BY <1>1, <1>8, <1>9, DownSet

LEMMA ReadBreaks ==
    ASSUME DownloadsInv, NEW d \in Workers, Reading!Read(d), NEW t, t = down[d],
           written[t.file] = None \/ (written[t.file] = t.at /\ cut[t.file])
    PROVE  DownloadsInv'
<1>1. t \in Reading!Download /\ Faithful(t) /\ UNCHANGED <<file, writer, written, cut>>
  BY Reads
<1>2. ~Sure(t, t.file)
  BY ReadsWhole
<1>3. CASE t.export
  <2>1. PICK u : u = Reading!Kept(t, t.file)
    OBVIOUS
  <2>2. down' = [down EXCEPT ![d] = u] /\ UNCHANGED <<lock, queue>>
    BY <1>3, <2>1 DEF Reading!Read, Reading!Abandoned, Reading!Goes, Reading!locks
  <2>3. PICK f : f = t.file
    OBVIOUS
  <2>4. /\ u \in Reading!Download
        /\ u.export = t.export /\ u.step = t.step /\ u.asked = t.asked /\ u.want = t.want \ {f}
        /\ u.file = None /\ u.parts = t.parts /\ u.listed = t.listed /\ u.early = t.early
    BY <1>1, <2>1, <2>3, KeptFacts
  <2>5. Longer(t, u)
    BY <1>1, <2>4, LenProperties DEF Longer, Reading!Download
  <2>6. QED BY <1>2, <1>3, <2>2, <2>3, <2>4, <2>5, ReadLeaves
<1>4. CASE ~t.export
  <2>1. Reading!Fails(d)
    BY <1>4 DEF Reading!Read
  <2>2. QED BY <1>1, <2>1, FailsStep
<1>5. QED BY <1>3, <1>4

\* A download that has been given all of what it was to give.
LEMMA ServesStep ==
    ASSUME DownloadsInv, NEW d \in Workers, NEW t, t = down[d], t # None, t.step \in {"runs", "adrift"},
           Reading!Serves(d), UNCHANGED <<file, writer, written, cut>>,
           t.export => t.want = {} /\ t.file = None,
           ~t.export => t.file \in t.asked /\ (Sure(t, t.file) => t.at = Frames + 1)
    PROVE  DownloadsInv'
<1>1. Faithful(t) /\ t \in Reading!Download
  BY AtWork
<1>2. CASE t.step = "adrift"
  <2>1. Reading!Fails(d)
    BY <1>2 DEF Reading!Serves
  <2>2. QED BY <2>1, FailsStep
<1>3. CASE t.step # "adrift"
  <2>1. PICK u : u = [t EXCEPT !.step = "served", !.file = None, !.at = 0]
    OBVIOUS
  <2>2. down' = [down EXCEPT ![d] = u] /\ Reading!Released(d)
    <3>1. /\ down' = [down EXCEPT ![d].step = "served", ![d].file = None, ![d].at = 0]
          /\ Reading!Released(d)
      BY <1>3 DEF Reading!Serves
    <3>2. DOMAIN down = Workers
      BY DEF DownloadsInv
    <3>3. QED BY <2>1, <3>1, <3>2
  <2>3. /\ u \in Reading!Download
        /\ u.export = t.export /\ u.step = "served" /\ u.asked = t.asked /\ u.want = t.want
        /\ u.file = None /\ u.parts = t.parts /\ u.listed = t.listed /\ u.early = t.early
    <3>1. 0 \in 0 .. Frames + 1
      BY DownloadsFacts
    <3>2. QED BY <1>1, <2>1, <3>1 DEF Reading!Download
  <2>4. LockInv'
    BY <2>2, LockReleased DEF DownloadsInv
  <2>5. CASE t.export
    <3>1. Archive(t)
      BY <1>1, <2>5 DEF Faithful
    <3>2. Archive(u)
      BY <2>3, <2>5, <3>1 DEF Archive, Sure, Ended, Data
    <3>3. \A g \in Seen(u) : g \in Seen(t)
      BY <2>3, <2>5 DEF Seen
    <3>4. Faithful(u)
      BY <1>1, <2>3, <2>5, <3>2, <3>3 DEF Faithful
    <3>5. QED BY <2>2, <2>4, <3>4, DownSet
  <2>6. CASE ~t.export
    <3>1. Single1File(t)
      BY <1>1, <2>6 DEF Faithful
    <3>2. t.asked = {t.file}
      BY <3>1 DEF Single1File
    <3>3. Sure(t, t.file) => Len(t.parts) = Frames /\ Data(t, t.file, 0, Frames)
      <4>1. Sure(t, t.file) => Len(t.parts) = t.at - 1 /\ Data(t, t.file, 0, t.at - 1) /\ t.at - 1 = Frames
        BY <2>6, <3>1, DownloadsFacts DEF Single1File
      <4>2. QED BY <4>1
    <3>4. \A g \in u.asked : Sure(u, g) => Len(u.parts) = Frames /\ Data(u, g, 0, Frames)
      BY <2>3, <3>2, <3>3 DEF Sure, Data
    <3>5. Single1File(u)
      BY <2>3, <3>1, <3>4 DEF Single1File
    <3>6. \A g \in Seen(u) : g \in Seen(t)
      BY <2>3, <3>2 DEF Seen
    <3>7. Faithful(u)
      BY <1>1, <2>3, <2>6, <3>5, <3>6 DEF Faithful
    <3>8. QED BY <2>2, <2>4, <3>7, DownSet
  <2>7. QED BY <2>5, <2>6
<1>4. QED BY <1>2, <1>3

LEMMA ReadEnds ==
    ASSUME DownloadsInv, NEW d \in Workers, Reading!Read(d),
           ~(written[down[d].file] = None \/ (written[down[d].file] = down[d].at /\ cut[down[d].file])),
           down[d].at + 1 >= Reading!Pieces \/ written[down[d].file] = down[d].at
    PROVE  DownloadsInv'
<1>0. PICK t : t = down[d]
  OBVIOUS
<1>1. /\ t # None /\ t.step \in {"runs", "adrift"} /\ t.file \in Stored /\ t.file \in t.asked
      /\ t \in Reading!Download /\ Faithful(t) /\ UNCHANGED <<file, writer, written, cut>>
  BY <1>0, Reads
<1>2. Sure(t, t.file) => t.at = Frames + 1
  BY <1>0, ReadsWhole
<1>3. CASE t.export
  <2>1. PICK f \in Stored : f = t.file
    BY <1>1
  <2>2. PICK v : v = Reading!Given(t, "tail")
    OBVIOUS
  <2>3. PICK u : u = Reading!Kept(v, f)
    OBVIOUS
  <2>4. down' = [down EXCEPT ![d] = u] /\ UNCHANGED <<lock, queue>>
    BY <1>0, <1>3, <2>1, <2>2, <2>3 DEF Reading!Read, Reading!Goes, Reading!locks
  <2>5. /\ v \in Reading!Download
        /\ v.export = t.export /\ v.step = t.step /\ v.asked = t.asked /\ v.want = t.want
        /\ v.file = t.file /\ v.at = t.at /\ v.listed = t.listed /\ v.early = t.early
        /\ Len(t.parts) \in Nat /\ Len(v.parts) = Len(t.parts) + 1
        /\ \A i \in 1 .. Len(t.parts) : v.parts[i] = t.parts[i]
        /\ v.parts[Len(t.parts) + 1] = [file |-> t.file, what |-> "tail"]
    <3>1. t.file \in Stored /\ t \in Reading!Download /\ "tail" \in {"head", "data", "tail"}
      BY <1>1
    <3>2. OneMore(t, "tail", v)
      BY <2>2, <3>1, GivenFacts
    <3>3. QED BY <3>2 DEF OneMore
  <2>6. /\ u \in Reading!Download
        /\ u.export = v.export /\ u.step = v.step /\ u.asked = v.asked /\ u.want = v.want \ {f}
        /\ u.file = None /\ u.parts = v.parts /\ u.listed = v.listed /\ u.early = v.early
    BY <2>3, <2>5, KeptFacts
  <2>7. Longer(t, u)
    BY <2>5, <2>6 DEF Longer
  <2>8. ASSUME Sure(t, t.file) PROVE \E e \in DOMAIN u.listed : Ended(u, t.file, e)
    <3>1. PICK e \in DOMAIN t.listed : Begun(t, f, e)
      BY <1>1, <1>3, <2>1, <2>8, DownloadsFacts DEF Faithful, Archive
    <3>2. PICK a \in 1 .. Len(t.parts) : a = t.listed[e].at
      BY <1>1, <1>3 DEF Faithful, Archive
    <3>3. t.listed[e].file = f /\ Len(t.parts) = a + Frames /\ Data(t, f, a, Frames)
      <4>1. t.at - 1 = Frames /\ a + t.at - 1 = a + Frames
        BY <1>2, <2>8, <3>2, DownloadsFacts
      <4>2. /\ t.listed[e].file = f /\ Len(t.parts) = a + t.at - 1 /\ Data(t, f, a, t.at - 1)
        BY <3>1, <3>2 DEF Begun
      <4>3. QED BY <4>1, <4>2
    <3>4. Len(u.parts) = a + Frames + 1 /\ u.parts[a + Frames + 1] = [file |-> f, what |-> "tail"]
      BY <2>1, <2>5, <2>6, <3>2, <3>3, DownloadsFacts
    <3>5. Data(u, f, a, Frames)
      <4>1. \A i \in 1 .. Frames : a + i \in 1 .. Len(t.parts)
        BY <2>5, <3>2, <3>3, DownloadsFacts
      <4>2. \A i \in 1 .. Frames : u.parts[a + i] = t.parts[a + i]
        BY <2>5, <2>6, <4>1
      <4>3. QED BY <3>3, <4>2 DEF Data
    <3>6. u.listed[e] = t.listed[e] /\ e \in DOMAIN u.listed
      BY <2>5, <2>6, <3>1
    <3>7. Ended(u, f, e)
      BY <2>5, <3>2, <3>3, <3>4, <3>5, <3>6, DownloadsFacts DEF Ended
    <3>8. QED BY <2>1, <3>6, <3>7
  <2>9. /\ u.export /\ u.step = t.step /\ u.asked = t.asked /\ u.want = t.want \ {t.file} /\ u.file = None
        /\ u.listed = t.listed /\ u.early = t.early /\ u \in Reading!Download
    BY <1>3, <2>1, <2>5, <2>6
  <2>10. QED BY <1>0, <1>3, <2>4, <2>7, <2>8, <2>9, ReadLeaves
<1>4. CASE ~t.export
  <2>1. Reading!Serves(d)
    BY <1>0, <1>4 DEF Reading!Read
  <2>2. QED BY <1>0, <1>1, <1>2, <1>4, <2>1, ServesStep
<1>5. QED BY <1>3, <1>4

\* The next frame of a file is given.
NextFrame(t, u) ==
    /\ u \in Reading!Download
    /\ u.export = t.export /\ u.step = t.step /\ u.asked = t.asked /\ u.want = t.want
    /\ u.file = t.file /\ u.at = t.at + 1 /\ u.listed = t.listed /\ u.early = t.early
    /\ Len(t.parts) \in Nat /\ Len(u.parts) = Len(t.parts) + 1
    /\ \A i \in 1 .. Len(t.parts) : u.parts[i] = t.parts[i]
    /\ u.parts[Len(t.parts) + 1] = [file |-> t.file, what |-> "data"]

LEMMA FrameFacts ==
    ASSUME NEW t \in Reading!Download, t.file \in Stored, t.at \in 1 .. Frames,
           NEW v, v = Reading!Given(t, "data"), NEW u, u = [v EXCEPT !.at = @ + 1]
    PROVE  NextFrame(t, u)
<1>1. /\ v \in Reading!Download
      /\ v.export = t.export /\ v.step = t.step /\ v.asked = t.asked /\ v.want = t.want
      /\ v.file = t.file /\ v.at = t.at /\ v.listed = t.listed /\ v.early = t.early
      /\ Len(t.parts) \in Nat /\ Len(v.parts) = Len(t.parts) + 1
      /\ \A i \in 1 .. Len(t.parts) : v.parts[i] = t.parts[i]
      /\ v.parts[Len(t.parts) + 1] = [file |-> t.file, what |-> "data"]
  <2>1. "data" \in {"head", "data", "tail"}
    OBVIOUS
  <2>2. OneMore(t, "data", v)
    BY <2>1, GivenFacts
  <2>3. QED BY <2>2 DEF OneMore
<1>2. PICK n \in 0 .. Frames + 1 : n = t.at + 1
  BY DownloadsFacts
<1>3. u = [v EXCEPT !.at = n]
  BY <1>1, <1>2
<1>4. /\ u \in Reading!Download /\ u.at = n
      /\ u.export = v.export /\ u.step = v.step /\ u.asked = v.asked /\ u.want = v.want
      /\ u.file = v.file /\ u.listed = v.listed /\ u.early = v.early /\ u.parts = v.parts
  BY <1>1, <1>3 DEF Reading!Download
<1>5. QED BY <1>1, <1>2, <1>4 DEF NextFrame

LEMMA FrameGiven ==
    ASSUME NEW t \in Reading!Download, Faithful(t), t.step \in {"runs", "adrift"},
           t.file \in Stored, t.file \in t.want, t.file \in t.asked, t.at \in 1 .. Frames,
           NEW u, NextFrame(t, u)
    PROVE  Faithful(u)
<1> USE DEF NextFrame
<1>1. t.at \in Nat /\ t.at >= 1 /\ t.at + 1 >= 1
  BY DownloadsFacts
<1>2. PICK f \in Stored : f = t.file
  OBVIOUS
<1>3. Longer(t, u)
  BY DEF Longer
<1>4. \A g : Sure(u, g) <=> Sure(t, g)
  BY DEF Sure
<1>5. CASE t.export
  <2>1. Archive(t)
    BY <1>1, <1>5 DEF Faithful
  <2>2. /\ \A e \in DOMAIN u.listed :
             /\ u.listed[e].at \in 1 .. Len(u.parts)
             /\ u.parts[u.listed[e].at] = [file |-> u.listed[e].file, what |-> "head"]
        /\ \A g \in t.asked \ t.want : Sure(u, g) => \E e \in DOMAIN u.listed : Ended(u, g, e)
    BY <1>3, <2>1, LongerFacts
  <2>3. ASSUME Sure(u, f) PROVE \E e \in DOMAIN u.listed : Begun(u, f, e)
    <3>1. PICK e \in DOMAIN t.listed : Begun(t, f, e)
      BY <1>2, <1>4, <2>1, <2>3, DownloadsFacts DEF Archive
    <3>2. PICK a \in 1 .. Len(t.parts) : a = t.listed[e].at
      BY <2>1 DEF Archive
    <3>3. t.listed[e].file = f /\ Len(t.parts) = a + t.at - 1 /\ Data(t, f, a, t.at - 1)
      BY <3>1, <3>2 DEF Begun
    <3>4. Len(u.parts) = a + u.at - 1
      <4>1. Len(u.parts) = Len(t.parts) + 1 /\ u.at = t.at + 1
        OBVIOUS
      <4>2. Len(t.parts) = a + t.at - 1
        BY <3>3
      <4>3. QED BY <1>1, <3>2, <4>1, <4>2
    <3>5. Data(u, f, a, u.at - 1)
      <4>1. \A i \in 1 .. t.at - 1 : a + i \in 1 .. Len(t.parts)
        <5>1. t.at \in Nat /\ Len(t.parts) \in Nat /\ Len(t.parts) = a + t.at - 1
          BY <1>1, <3>3, DownloadsFacts
        <5>2. QED BY <3>2, <5>1
      <4>2. \A i \in 1 .. t.at - 1 : u.parts[a + i] = [file |-> f, what |-> "data"]
        BY <3>3, <4>1 DEF Data
      <4>3. u.parts[a + t.at] = [file |-> f, what |-> "data"]
        <5>1. a + t.at = Len(t.parts) + 1
          BY <1>1, <3>2, <3>3
        <5>2. QED BY <1>2, <5>1
      <4>4. \A i \in 1 .. u.at - 1 : i \in 1 .. t.at - 1 \/ i = t.at
        BY <1>1
      <4>5. QED BY <4>2, <4>3, <4>4 DEF Data
    <3>6. u.listed[e] = t.listed[e] /\ e \in DOMAIN u.listed
      BY <3>1
    <3>7. Begun(u, f, e)
      BY <3>2, <3>3, <3>4, <3>5, <3>6 DEF Begun
    <3>8. QED BY <3>6, <3>7
  <2>4. Archive(u)
    BY <1>1, <1>2, <2>1, <2>2, <2>3 DEF Archive
  <2>5. \A g \in Seen(u) : g \in Seen(t)
    BY <1>2 DEF Seen
  <2>6. Faithful(u)
    BY <1>1, <1>2, <1>5, <2>4, <2>5 DEF Faithful
  <2>7. QED BY <2>6
<1>6. CASE ~t.export
  <2>1. Single1File(t)
    BY <1>1, <1>6 DEF Faithful
  <2>2. Sure(u, f) => Len(u.parts) = u.at - 1 /\ Data(u, f, 0, u.at - 1)
    <3> SUFFICES ASSUME Sure(u, f) PROVE Len(u.parts) = u.at - 1 /\ Data(u, f, 0, u.at - 1)
      OBVIOUS
    <3>1. Len(t.parts) = t.at - 1 /\ Data(t, f, 0, t.at - 1)
      BY <1>1, <1>2, <1>4, <2>1 DEF Single1File
    <3>2. Len(u.parts) = u.at - 1
      BY <1>1, <3>1
    <3>3. \A i \in 1 .. t.at - 1 : u.parts[0 + i] = [file |-> f, what |-> "data"]
      <4>1. \A i \in 1 .. t.at - 1 : i \in 1 .. Len(t.parts) /\ 0 + i = i
        BY <1>1, <3>1
      <4>2. \A i \in 1 .. t.at - 1 : t.parts[0 + i] = [file |-> f, what |-> "data"]
        BY <3>1 DEF Data
      <4>3. QED BY <4>1, <4>2
    <3>4. u.parts[0 + t.at] = [file |-> f, what |-> "data"]
      <4>1. 0 + t.at = Len(t.parts) + 1
        BY <1>1, <3>1
      <4>2. QED BY <1>2, <4>1
    <3>5. \A i \in 1 .. u.at - 1 : i \in 1 .. t.at - 1 \/ i = t.at
      BY <1>1
    <3>6. QED BY <3>2, <3>3, <3>4, <3>5 DEF Data
  <2>3. Single1File(u)
    BY <1>1, <1>2, <2>1, <2>2 DEF Single1File
  <2>4. \A g \in Seen(u) : g \in Seen(t)
    BY <1>2 DEF Seen
  <2>5. Faithful(u)
    BY <1>1, <1>2, <1>6, <2>3, <2>4 DEF Faithful
  <2>6. QED BY <2>5
<1>7. QED BY <1>5, <1>6

LEMMA ReadGoesOn ==
    ASSUME DownloadsInv, NEW d \in Workers, Reading!Read(d),
           ~(written[down[d].file] = None \/ (written[down[d].file] = down[d].at /\ cut[down[d].file])),
           ~(down[d].at + 1 >= Reading!Pieces \/ written[down[d].file] = down[d].at)
    PROVE  DownloadsInv'
<1>1. PICK t : t = down[d]
  OBVIOUS
<1>2. /\ t # None /\ t.step \in {"runs", "adrift"} /\ t.file \in Stored /\ t.file \in t.want /\ t.file \in t.asked
      /\ t \in Reading!Download /\ Faithful(t) /\ UNCHANGED <<file, writer, written, cut>>
      /\ t.at \in 1 .. Frames + 1
  BY <1>1, Reads
<1>3. PICK v : v = Reading!Given(t, "data")
  OBVIOUS
<1>4. PICK u : u = [v EXCEPT !.at = @ + 1]
  OBVIOUS
<1>5. down' = [down EXCEPT ![d] = u] /\ UNCHANGED <<lock, queue>>
  BY <1>1, <1>3, <1>4 DEF Reading!Read, Reading!Goes, Reading!locks
<1>6. t.at \in 1 .. Frames
  BY <1>1, <1>2, DownloadsFacts
<1>7. Faithful(u)
  <2>1. NextFrame(t, u)
    BY <1>2, <1>3, <1>4, <1>6, FrameFacts
  <2>2. QED BY <1>2, <1>6, <2>1, FrameGiven
<1>8. LockInv'
  BY <1>5 DEF DownloadsInv, LockInv
<1>9. QED BY <1>2, <1>5, <1>7, <1>8, DownSet

LEMMA ReadStep ==
    ASSUME DownloadsInv, NEW d \in Workers, Reading!Read(d)
    PROVE  DownloadsInv'
<1>1. PICK t : t = down[d]
  OBVIOUS
<1>2. CASE written[t.file] = None \/ (written[t.file] = t.at /\ cut[t.file])
  BY <1>1, <1>2, ReadBreaks
<1>3. CASE ~(written[t.file] = None \/ (written[t.file] = t.at /\ cut[t.file]))
  <2>1. CASE t.at + 1 >= Reading!Pieces \/ written[t.file] = t.at
    BY <1>1, <1>3, <2>1, ReadEnds
  <2>2. CASE ~(t.at + 1 >= Reading!Pieces \/ written[t.file] = t.at)
    BY <1>1, <1>3, <2>2, ReadGoesOn
  <2>3. QED BY <2>1, <2>2
<1>4. QED BY <1>2, <1>3

LEMMA FooterStep ==
    ASSUME DownloadsInv, NEW d \in Workers, Reading!Footer(d)
    PROVE  DownloadsInv'
<1>1. PICK t : t = down[d]
  OBVIOUS
<1>2. /\ t # None /\ t.step \in {"runs", "adrift"} /\ t.export /\ t.want = {} /\ t.file = None
      /\ Reading!Serves(d) /\ UNCHANGED <<file, writer, written, cut>>
  BY <1>1 DEF Reading!Footer, Reading!Working, Reading!Runs, Reading!At, Reading!files
<1>3. QED BY <1>1, <1>2, ServesStep

LEMMA LeaveStep ==
    ASSUME DownloadsInv, NEW d \in Workers, Reading!Leave(d)
    PROVE  DownloadsInv'
<1>1. PICK t : t = down[d]
  OBVIOUS
<1>2. PICK u : u = IF Reading!Runs(d, "runs") /\ t.pgp THEN [t EXCEPT !.step = "adrift"] ELSE None
  OBVIOUS
<1>3. /\ t # None /\ down' = [down EXCEPT ![d] = u] /\ Reading!Released(d)
      /\ UNCHANGED <<file, writer, written, cut>>
  BY <1>1, <1>2 DEF Reading!Leave, Reading!files
<1>4. LockInv'
  BY <1>3, LockReleased DEF DownloadsInv
<1>5. u # None => Faithful(u)
  <2> SUFFICES ASSUME u # None PROVE Faithful(u)
    OBVIOUS
  <2>1. t.step = "runs" /\ u = [t EXCEPT !.step = "adrift"]
    BY <1>1, <1>2 DEF Reading!Runs, Reading!At
  <2>2. Faithful(t) /\ t \in Reading!Download
    BY <1>1, <1>3, AtWork
  <2>3. /\ u \in Reading!Download
        /\ u.export = t.export /\ u.step = "adrift" /\ u.asked = t.asked /\ u.want = t.want
        /\ u.file = t.file /\ u.at = t.at /\ u.parts = t.parts /\ u.listed = t.listed /\ u.early = t.early
    BY <2>1, <2>2 DEF Reading!Download
  <2>4. t.export => Archive(u)
    BY <2>1, <2>2, <2>3 DEF Faithful, Archive, Sure, Begun, Ended, Data
  <2>5. ~t.export => Single1File(u)
    BY <2>1, <2>2, <2>3 DEF Faithful, Single1File, Sure, Data
  <2>6. \A g \in Seen(u) : g \in Seen(t)
    BY <2>3 DEF Seen
  <2>7. QED BY <2>1, <2>2, <2>3, <2>4, <2>5, <2>6 DEF Faithful
<1>6. QED BY <1>3, <1>4, <1>5, DownSet

LEMMA ForgetStep ==
    ASSUME DownloadsInv, NEW d \in Workers, Reading!Forget(d)
    PROVE  DownloadsInv'
<1>1. down' = [down EXCEPT ![d] = None] /\ UNCHANGED <<lock, queue, file, writer, written, cut>>
  BY DEF Reading!Forget, Reading!Goes, Reading!locks, Reading!files
<1>2. LockInv'
  BY <1>1 DEF DownloadsInv, LockInv
<1>3. QED BY <1>1, <1>2, DownSet

LEMMA StopStep ==
    ASSUME DownloadsInv, Reading!Stop
    PROVE  DownloadsInv'
<1>1. StoredInv'
  BY DownloadsFacts DEF DownloadsInv, StoredInv, Reading!Stop
<1>2. LockInv'
  BY EmptySeq DEF LockInv, Reading!Stop
<1>3. QED BY <1>1, <1>2 DEF DownloadsInv, Reading!Stop

LEMMA DownloadsStep ==
    ASSUME DownloadsInv, Reading!Next
    PROVE  DownloadsInv'
<1>1. CASE \E f \in Stored : \/ Reading!Register(f) \/ Reading!WriteBegin(f) \/ Reading!Write(f)
                             \/ Reading!Delete(f) \/ Reading!Wipe(f)
  BY <1>1, FileSteps
<1>2. CASE \E d \in Workers, f \in Stored, pgp \in BOOLEAN : Reading!AskFile(d, f, pgp)
  BY <1>2, AskFileStep
<1>3. CASE \E d \in Workers, pgp \in BOOLEAN : Reading!AskExport(d, pgp)
  BY <1>3, AskExportStep
<1>4. CASE \E d \in Workers : Reading!ReadRows(d)
  BY <1>4, ReadRowsStep
<1>5. CASE \E d \in Workers, f \in Stored : Reading!OpenFile(d, f)
  BY <1>5, OpenFileStep
<1>6. CASE \E d \in Workers, f \in Stored : Reading!NextEntry(d, f)
  BY <1>6, NextEntryStep
<1>7. CASE \E d \in Workers : Reading!Read(d)
  BY <1>7, ReadStep
<1>8. CASE \E d \in Workers : Reading!Footer(d)
  BY <1>8, FooterStep
<1>9. CASE \E d \in Workers : Reading!Leave(d)
  BY <1>9, LeaveStep
<1>10. CASE \E d \in Workers : Reading!Forget(d)
  BY <1>10, ForgetStep
<1>11. CASE Reading!Stop
  BY <1>11, StopStep
<1>12. QED BY <1>1, <1>2, <1>3, <1>4, <1>5, <1>6, <1>7, <1>8, <1>9, <1>10, <1>11 DEF Reading!Next

LEMMA DownloadsInvariant == MCSpec => []DownloadsInv
<1>1. MCInit => DownloadsInv
  BY DownloadsBegin DEF MCInit
<1>2. DownloadsInv /\ [MCNext]_allVars => DownloadsInv'
  <2> SUFFICES ASSUME DownloadsInv, [MCNext]_allVars PROVE DownloadsInv'
    OBVIOUS
  <2>1. CASE Reading!Next
    BY <2>1, DownloadsStep
  <2>2. CASE UNCHANGED reading
    BY <2>2 DEF reading, DownloadsInv, StoredInv, LockInv, Faithful, Archive, Single1File,
                Sure, Begun, Ended, Data, Seen
  <2>3. QED BY <2>1, <2>2 DEF MCNext, allVars
<1>3. QED BY <1>1, <1>2, PTL DEF MCSpec

\* Whatever number of downloads a user starts, cancels or leaves, at most one of
\* his heavy ones is at work as long as its client is there, the lock is there just
\* as long as somebody holds it or waits for it, and there is one line.
THEOREM TakeTurns == MCSpec => []OneAtATime
<1>1. DownloadsInv => OneAtATime
  <2> SUFFICES ASSUME LockInv PROVE Reading!OneAtATime
    BY DEF DownloadsInv, OneAtATime
  <2>1. \A l, m \in Workers : queue[l] # << >> /\ queue[m] # << >> => l = m
    BY DEF LockInv
  <2>2. \A d, e \in Workers : Reading!Has(d) /\ Reading!Has(e) => d = e
    BY <2>1 DEF Reading!Has
  <2>3. QED BY <2>2 DEF LockInv, Reading!OneAtATime, Reading!Runs
<1>2. QED BY <1>1, DownloadsInvariant, PTL

\* What was given, piece by piece, is the file.
LEMMA WholeArchived ==
    ASSUME NEW t \in Reading!Download, NEW f \in Stored, NEW e \in DOMAIN t.listed,
           t.listed[e].at \in 1 .. Len(t.parts), t.parts[t.listed[e].at] = [file |-> f, what |-> "head"],
           Ended(t, f, e)
    PROVE  Reading!InArchive(t, f)
<1>1. PICK a \in 1 .. Len(t.parts) : a = t.listed[e].at
  OBVIOUS
<1>2. Len(t.parts) \in Nat /\ a \in Nat /\ Len(t.parts) >= a + Frames + 1 /\ a + Frames + 1 \in Int
  BY <1>1, LenProperties, DownloadsFacts DEF Reading!Download, Ended
<1>3. \A i \in a .. a + Frames + 1 : t.parts[i] \in Reading!Part
  <2>1. t.parts \in Seq(Reading!Part)
    BY DEF Reading!Download
  <2>2. \A i \in 1 .. Len(t.parts) : t.parts[i] \in Reading!Part
    BY <2>1, ElementOfSeq
  <2>3. QED BY <1>2, <2>2, DownloadsFacts
<1>4. PICK b \in Int : b = a + Frames + 1
  BY <1>2
<1>5. PICK s : s = SubSeq(t.parts, a, b)
  OBVIOUS
<1>6. /\ s \in Seq(Reading!Part)
      /\ Len(s) = IF a <= b THEN b - a + 1 ELSE 0
      /\ \A i \in 1 .. b - a + 1 : s[i] = t.parts[a + i - 1]
  <2>1. a \in Int /\ \A i \in a .. b : t.parts[i] \in Reading!Part
    BY <1>2, <1>3, <1>4
  <2>2. QED BY <1>5, <2>1, SubSeqProperties
<1>7. Len(s) = Frames + 2 /\ b - a + 1 = Frames + 2
  BY <1>2, <1>4, <1>6, DownloadsFacts
<1>8. \A i \in 1 .. Frames + 2 :
        s[i] = [file |-> f, what |-> IF i = 1 THEN "head" ELSE IF i = Frames + 2 THEN "tail" ELSE "data"]
  <2> SUFFICES ASSUME NEW i \in 1 .. Frames + 2
               PROVE  s[i] = [file |-> f, what |-> IF i = 1 THEN "head"
                                                   ELSE IF i = Frames + 2 THEN "tail" ELSE "data"]
    OBVIOUS
  <2>1. s[i] = t.parts[a + i - 1]
    BY <1>6, <1>7
  <2>2. CASE i = 1
    <3>1. a + i - 1 = a
      BY <1>2, <2>2
    <3>2. QED BY <1>1, <2>1, <2>2, <3>1
  <2>3. CASE i = Frames + 2
    <3>1. a + i - 1 = a + Frames + 1 /\ i # 1
      BY <1>2, <2>3, DownloadsFacts
    <3>2. t.parts[a + Frames + 1] = [file |-> f, what |-> "tail"]
      BY <1>1 DEF Ended
    <3>3. QED BY <2>1, <2>3, <3>1, <3>2
  <2>4. CASE i # 1 /\ i # Frames + 2
    <3>1. PICK j \in 1 .. Frames : j = i - 1
      BY <2>4, DownloadsFacts
    <3>2. a + i - 1 = a + j
      BY <1>2, <3>1, DownloadsFacts
    <3>3. t.parts[a + j] = [file |-> f, what |-> "data"]
      BY <1>1, <3>1 DEF Ended, Data
    <3>4. QED BY <2>1, <2>4, <3>2, <3>3
  <2>5. QED BY <2>2, <2>3, <2>4
<1>9. s = [i \in 1 .. Frames + 2 |->
             [file |-> f, what |-> IF i = 1 THEN "head" ELSE IF i = Frames + 2 THEN "tail" ELSE "data"]]
  <2>1. s \in [1 .. Frames + 2 -> Reading!Part]
    BY <1>6, <1>7, LenProperties
  <2>2. QED BY <1>8, <2>1
<1>10. s = Reading!Content(f, 2)
  BY <1>9 DEF Reading!Content
<1>11. t.listed[e].file = f
  BY DEF Ended
<1>12. QED BY <1>1, <1>4, <1>5, <1>10, <1>11 DEF Reading!InArchive

LEMMA WholeAlone ==
    ASSUME NEW t \in Reading!Download, NEW f \in Stored, Len(t.parts) = Frames, Data(t, f, 0, Frames)
    PROVE  t.parts = Reading!Content(f, 0)
<1>1. PICK s \in Seq(Reading!Part) : s = t.parts
  BY DEF Reading!Download
<1>2. s \in [1 .. Frames -> Reading!Part]
  BY <1>1, LenProperties
<1>3. \A i \in 1 .. Frames : s[i] = [file |-> f, what |-> "data"]
  <2>1. \A i \in 1 .. Frames : 0 + i = i
    BY DownloadsFacts
  <2>2. QED BY <1>1, <2>1 DEF Data
<1>4. s = [i \in 1 .. Frames |-> [file |-> f, what |-> "data"]]
  BY <1>2, <1>3
<1>5. Reading!Content(f, 0) = [i \in 1 .. Frames |-> [file |-> f, what |-> "data"]]
  <2>1. Frames + 0 = Frames /\ \A i \in 1 .. Frames : i # Frames + 2
    BY DownloadsFacts
  <2>2. QED BY <2>1 DEF Reading!Content
<1>6. QED BY <1>1, <1>4, <1>5

\* Whatever is written, deleted, wiped or stopped meanwhile, a file that was complete
\* when it was opened, and has not been wiped, is downloaded from its first to its
\* last frame, on its own or in an archive; and the directory of an archive points
\* to where its files begin.
THEOREM DownloadedWhole == MCSpec => []ServedWhole
<1>1. DownloadsInv => ServedWhole
  <2> SUFFICES ASSUME DownloadsInv, NEW d \in Workers, NEW t, t = down[d], t # None, t.step = "served"
               PROVE  /\ \A e \in DOMAIN t.listed :
                            t.parts[t.listed[e].at] = [file |-> t.listed[e].file, what |-> "head"]
                      /\ \A f \in t.asked :
                            f \notin t.early /\ written[f] = Reading!Pieces =>
                              IF t.export THEN Reading!InArchive(t, f) ELSE t.parts = Reading!Content(f, 0)
    BY DEF ServedWhole, Reading!ServedWhole, Reading!At
  <2>1. Faithful(t) /\ t \in Reading!Download /\ t.asked \subseteq Stored
    BY DEF DownloadsInv, Faithful, Reading!Download
  <2>2. CASE t.export
    <3>1. Archive(t) /\ t.want = {}
      BY <2>1, <2>2 DEF Faithful, Archive
    <3>2. \A e \in DOMAIN t.listed : t.parts[t.listed[e].at] = [file |-> t.listed[e].file, what |-> "head"]
      BY <3>1 DEF Archive
    <3>3. ASSUME NEW f \in t.asked, Sure(t, f) PROVE Reading!InArchive(t, f)
      <4>1. PICK e \in DOMAIN t.listed : Ended(t, f, e)
        BY <3>1, <3>3 DEF Archive
      <4>2. t.listed[e].at \in 1 .. Len(t.parts) /\ t.listed[e].file = f
        BY <3>1, <4>1 DEF Archive, Ended
      <4>3. t.parts[t.listed[e].at] = [file |-> f, what |-> "head"]
        BY <3>2, <4>2
      <4>4. QED BY <2>1, <4>1, <4>2, <4>3, WholeArchived
    <3>4. QED BY <2>2, <3>2, <3>3 DEF Sure
  <2>3. CASE ~t.export
    <3>1. Single1File(t)
      BY <2>1, <2>3 DEF Faithful
    <3>2. DOMAIN t.listed = {}
      BY <3>1 DEF Single1File
    <3>3. ASSUME NEW f \in t.asked, Sure(t, f) PROVE t.parts = Reading!Content(f, 0)
      <4>1. Len(t.parts) = Frames /\ Data(t, f, 0, Frames)
        BY <3>1, <3>3 DEF Single1File
      <4>2. QED BY <2>1, <4>1, WholeAlone
    <3>4. QED BY <2>3, <3>2, <3>3 DEF Sure
  <2>4. QED BY <2>2, <2>3
<1>2. QED BY <1>1, DownloadsInvariant, PTL

=============================================================================

------------------------- MODULE Transaction_proofs -------------------------
(***************************************************************************)
(* Transaction implements AtomicRequests, for every set of requests, pages,   *)
(* threads and retries.                                                      *)
(***************************************************************************)
EXTENDS Transaction, TLAPS

Own(q) == {Work(q), Audit(q)}

\* The lock is held from the first write to the end of the commit.
LockInv ==
    /\ writer # None => pc[writer] \in {"flushed", "commit"}
    /\ \A q \in Requests : pc[q] \in {"flushed", "commit"} => writer = q

\* There is a journal exactly while a commit overwrites the pages, each of which
\* then has its former content or the new one.
JournalInv ==
    /\ journal # None => \E q \in Requests : pc[q] = "commit"
    /\ \A q \in Requests : pc[q] = "commit" =>
        /\ journal # None
        /\ \A p \in Pages : image[p] \in {journal[p], journal[p] \cup dirty[q]}

\* What would be recovered is the same on every page.
PagesAgree == \A p, r \in Pages : Content[p] = Content[r]

DirtyInv ==
    \A q \in Requests :
        /\ pc[q] \in {"flushed", "commit", "committed"} => dirty[q] \in {{Work(q)}, {Audit(q)}}
        /\ pc[q] = "audit" => dirty[q] = {Audit(q)}

\* What the file has of a request that is not answered.
KeptInv ==
    \A q \in Requests, p \in Pages :
        /\ pc[q] \in {"idle", "queued", "body", "audit", "flushed", "commit", "backoff"} =>
               Own(q) \cap Content[p] = {}
        /\ pc[q] = "committed" => Own(q) \cap Content[p] = dirty[q]

IInv ==
    /\ TypeOK
    /\ LockInv
    /\ JournalInv
    /\ PagesAgree
    /\ DirtyInv
    /\ KeptInv

\* Effects are told apart by their request and their kind.
LEMMA EffectsDiffer ==
    \A q, r \in Requests :
        /\ Work(q) \in Effects /\ Audit(q) \in Effects
        /\ Work(q) # Audit(r)
        /\ q # r => Work(q) # Work(r) /\ Audit(q) # Audit(r)
BY DEF Work, Audit, Effects

\* What a step leaves of the requests other than q that have not been told.
LEMMA Disjoint ==
    ASSUME NEW q \in Requests, NEW r \in Requests, q # r
    PROVE  Own(q) \cap Own(r) = {}
BY EffectsDiffer DEF Own

-----------------------------------------------------------------------------
LEMMA InitIInv == Init => IInv
<1> SUFFICES ASSUME Init PROVE IInv
    OBVIOUS
<1>1. TypeOK
    BY TransactionAssumption DEF Init, TypeOK, Image, Effects
<1> QED
    BY <1>1 DEF Init, IInv, LockInv, JournalInv, PagesAgree, DirtyInv, KeptInv, Content, Own

LEMMA NextType ==
    ASSUME IInv, [Next]_vars
    PROVE  TypeOK'
<1> USE TransactionAssumption DEF IInv, TypeOK
<1>1. CASE UNCHANGED vars
    BY <1>1 DEF vars
<1>2. CASE Stop
    BY <1>2 DEF Stop, Content, Running, Answers
<1>3. ASSUME NEW q \in Requests, LookUp(q)
      PROVE  TypeOK'
    <2>1. since' \in [Requests -> SUBSET Requests]
        BY <1>3 DEF LookUp
    <2> QED
        BY <1>3, <2>1 DEF LookUp, Go, Bound
<1>4. ASSUME NEW q \in Requests, Enter(q)
      PROVE  TypeOK'
    BY <1>4 DEF Enter, Go, Running
<1>5. ASSUME NEW q \in Requests, Flush(q)
      PROVE  TypeOK'
    BY <1>5, EffectsDiffer DEF Flush, Go, Running
<1>6. ASSUME NEW q \in Requests, LoginFailure(q)
      PROVE  TypeOK'
    BY <1>6, EffectsDiffer DEF LoginFailure, Rollback, Refusal, Unlocked, Go, Running
<1>7. ASSUME NEW q \in Requests, NEW answer \in Answers, Finish(q, answer), UNCHANGED journal,
             image' \in Image
      PROVE  TypeOK'
    BY <1>7 DEF Finish, Rollback, Unlocked, Go
<1>8. ASSUME NEW q \in Requests, Locked(q)
      PROVE  TypeOK'
    BY <1>8 DEF Locked, MayRetry, Counted, Rollback, Unlocked, Go, Running
<1>9. ASSUME NEW q \in Requests, WriteJournal(q) \/ DeleteJournal(q)
      PROVE  TypeOK'
    BY <1>9 DEF WriteJournal, DeleteJournal, Go, Running
<1>10. ASSUME NEW q \in Requests, NEW p \in Pages, WritePage(q, p)
      PROVE  TypeOK'
    <2>1. image' \in Image
        BY <1>10 DEF WritePage, Image
    <2> QED
        BY <1>10, <2>1 DEF WritePage
<1>11. ASSUME NEW q \in Requests, CommitFails(q)
      PROVE  TypeOK'
    BY <1>11 DEF CommitFails, Finish, Rollback, Unlocked, Go, JournalInv, Answers
<1> QED
    BY <1>1, <1>2, <1>3, <1>4, <1>5, <1>6, <1>7, <1>8, <1>9, <1>10, <1>11
       DEF Next, Thread, Raise, TooManyRetries, Answer, Answers

-----------------------------------------------------------------------------
(* Steps that leave the database as it would be recovered. *)

\* A step of q that neither begins nor ends a commit.
LEMMA QuietStep ==
    ASSUME IInv, TypeOK',
           NEW q \in Requests,
           UNCHANGED <<image, journal>>,
           NEW at, pc' = [pc EXCEPT ![q] = at],
           pc[q] \notin {"commit", "done", "refused", "failed", "lost"},
           at \in {"queued", "body", "audit", "flushed", "backoff", "done", "refused", "failed"},
           pc[q] = "committed" => at \in {"done", "refused"},
           \A r \in Requests \ {q} : dirty'[r] = dirty[r],
           at = "flushed" => dirty'[q] \in {{Work(q)}, {Audit(q)}} /\ writer' = q /\ writer = None,
           at = "audit" => dirty'[q] = {Audit(q)},
           at # "flushed" => writer' = Unlocked(q) \/ (writer' = writer /\ writer # q)
    PROVE  IInv'
<1> USE DEF IInv
<1>1. Content' = Content
    BY DEF Content
<1>2. /\ pc'[q] = at
      /\ \A r \in Requests \ {q} : pc'[r] = pc[r]
    BY DEF TypeOK
<1>3. LockInv'
    BY <1>2, TransactionAssumption DEF LockInv, Unlocked, TypeOK
<1>4. JournalInv'
    BY <1>2 DEF JournalInv
<1>5. PagesAgree'
    BY <1>1 DEF PagesAgree
<1>6. DirtyInv'
    BY <1>2 DEF DirtyInv
<1>7. KeptInv'
    BY <1>1, <1>2 DEF KeptInv, TypeOK, Running, Answers
<1> QED
    BY <1>3, <1>4, <1>5, <1>6, <1>7

LEMMA NextIInv ==
    ASSUME IInv, [Next]_vars
    PROVE  IInv'
<1>0. TypeOK'
    BY NextType
<1>1. CASE UNCHANGED vars
    BY <1>1 DEF vars, IInv, TypeOK, LockInv, JournalInv, PagesAgree, DirtyInv, KeptInv, Content
<1>2. CASE Stop
    <2>1. /\ Content' = Content /\ journal' = None /\ writer' = None
          /\ \A q \in Requests : pc'[q] \in {"idle"} \cup Answers /\ (pc'[q] = "idle" => pc[q] = "idle")
        BY <1>2 DEF Stop, Content, InFlight, Answers, Running, IInv, TypeOK
    <2> QED
        BY <1>0, <2>1 DEF IInv, LockInv, JournalInv, PagesAgree, DirtyInv, KeptInv, Answers
<1>3. ASSUME NEW q \in Requests, LookUp(q) \/ Enter(q)
      PROVE  IInv'
    <2> DEFINE at == IF LookUp(q) THEN "queued" ELSE "body"
    <2>1. /\ pc' = [pc EXCEPT ![q] = at] /\ UNCHANGED <<image, journal, dirty, writer>>
          /\ pc[q] \in {"idle", "queued", "backoff"}
        BY <1>3 DEF LookUp, Enter, Go
    <2>2. writer # q
        BY <2>1, TransactionAssumption DEF IInv, LockInv, TypeOK
    <2> HIDE DEF at
    <2>3. at \in {"queued", "body"}
        BY DEF at
    <2> QED
        BY <1>0, <2>1, <2>2, <2>3, QuietStep
<1>4. ASSUME NEW q \in Requests, Flush(q)
      PROVE  IInv'
    <2>1. dirty'[q] \in {{Work(q)}, {Audit(q)}}
        BY <1>4 DEF Flush, IInv, DirtyInv, TypeOK
    <2>2. \A r \in Requests \ {q} : dirty'[r] = dirty[r]
        BY <1>4 DEF Flush, IInv, TypeOK
    <2> QED
        BY <1>0, <1>4, <2>1, <2>2, QuietStep DEF Flush, Go
<1>5. ASSUME NEW q \in Requests, LoginFailure(q)
      PROVE  IInv'
    <2>1. dirty'[q] = {Audit(q)} /\ \A r \in Requests \ {q} : dirty'[r] = dirty[r]
        BY <1>5 DEF LoginFailure, Rollback, Refusal, IInv, TypeOK
    <2> QED
        BY <1>0, <1>5, <2>1, QuietStep DEF LoginFailure, Rollback, Go
<1>6. ASSUME NEW q \in Requests, Locked(q)
      PROVE  IInv'
    <2>1. \A r \in Requests \ {q} : dirty'[r] = dirty[r]
        BY <1>6 DEF Locked, Rollback, IInv, TypeOK
    <2> QED
        BY <1>0, <1>6, <2>1, QuietStep DEF Locked, Refused, Rollback, Go
<1>7. ASSUME NEW q \in Requests, Raise(q) \/ TooManyRetries(q)
      PROVE  IInv'
    <2>1. \A r \in Requests \ {q} : dirty'[r] = dirty[r]
        BY <1>7 DEF Raise, TooManyRetries, Finish, Rollback, IInv, TypeOK
    <2> QED
        BY <1>0, <1>7, <2>1, QuietStep DEF Raise, TooManyRetries, Refused, Finish, Rollback, Go
<1>8. ASSUME NEW q \in Requests, Answer(q)
      PROVE  IInv'
    <2>1. \A r \in Requests \ {q} : dirty'[r] = dirty[r]
        BY <1>8 DEF Answer, Finish, Rollback, IInv, TypeOK
    <2>2. CASE Audit(q) \in dirty[q]
        BY <1>0, <1>8, <2>1, <2>2, QuietStep DEF Answer, Finish, Rollback, Go
    <2>3. CASE Audit(q) \notin dirty[q]
        BY <1>0, <1>8, <2>1, <2>3, QuietStep DEF Answer, Finish, Rollback, Go
    <2> QED
        BY <2>2, <2>3
<1>9. ASSUME NEW q \in Requests, WriteJournal(q)
      PROVE  IInv'
    <2>1. journal = None
        BY <1>9 DEF WriteJournal, IInv, LockInv, JournalInv, TypeOK
    <2>2. Content' = Content
        BY <1>9, <2>1 DEF WriteJournal, Content
    <2>3. journal' # None /\ writer' = q /\ image' = journal'
        BY <1>9, TransactionAssumption DEF WriteJournal, IInv, LockInv, TypeOK
    <2>4. /\ pc'[q] = "commit" /\ pc[q] = "flushed" /\ dirty' = dirty
          /\ \A r \in Requests \ {q} : pc'[r] = pc[r]
        BY <1>9 DEF WriteJournal, Go, IInv, TypeOK
    <2>5. LockInv' /\ JournalInv'
        BY <2>3, <2>4, <1>9 DEF IInv, LockInv, JournalInv, WriteJournal
    <2>6. PagesAgree' /\ DirtyInv' /\ KeptInv'
        BY <2>2, <2>4 DEF IInv, PagesAgree, DirtyInv, KeptInv
    <2> QED
        BY <1>0, <2>5, <2>6 DEF IInv
<1>10. ASSUME NEW q \in Requests, NEW p \in Pages, WritePage(q, p)
      PROVE  IInv'
    <2>1. journal # None /\ UNCHANGED <<pc, dirty, journal, writer>>
        BY <1>10 DEF WritePage, IInv, JournalInv
    <2>2. Content' = Content
        BY <2>1 DEF Content
    <2>3. \A r \in Requests : pc[r] = "commit" => r = q
        BY <1>10 DEF WritePage, IInv, LockInv
    <2>4. \A r \in Pages : image'[r] = IF r = p THEN image[p] \cup dirty[q] ELSE image[r]
        BY <1>10 DEF WritePage, IInv, TypeOK, Image
    <2>5. JournalInv'
        BY <2>1, <2>3, <2>4 DEF IInv, JournalInv
    <2> QED
        BY <1>0, <2>1, <2>2, <2>5 DEF IInv, LockInv, PagesAgree, DirtyInv, KeptInv
<1>11. ASSUME NEW q \in Requests, DeleteJournal(q)
      PROVE  IInv'
    <2>1. /\ journal # None /\ journal' = None /\ writer' = None /\ writer = q
          /\ image' = image /\ dirty' = dirty
          /\ pc[q] = "commit" /\ pc'[q] = "committed"
          /\ \A r \in Requests \ {q} : pc'[r] = pc[r] /\ pc[r] \notin {"flushed", "commit"}
        BY <1>11 DEF DeleteJournal, Go, IInv, TypeOK, LockInv, JournalInv
    <2>2. \A r \in Pages : Content'[r] = Content[r] \cup dirty[q]
        BY <1>11, <2>1 DEF DeleteJournal, Content, IInv, JournalInv
    <2>3. LockInv' /\ JournalInv'
        BY <2>1 DEF LockInv, JournalInv
    <2>4. PagesAgree' /\ DirtyInv'
        BY <2>1, <2>2 DEF IInv, PagesAgree, DirtyInv
    <2>5. dirty[q] \subseteq Own(q)
        BY <2>1 DEF IInv, DirtyInv, Own
    <2>6. KeptInv'
        BY <2>1, <2>2, <2>5, Disjoint DEF IInv, KeptInv
    <2> QED
        BY <1>0, <2>3, <2>4, <2>6 DEF IInv
<1>12. ASSUME NEW q \in Requests, CommitFails(q)
      PROVE  IInv'
    <2>1. /\ journal # None /\ journal' = None /\ image' = journal /\ writer' = None
          /\ pc'[q] = "failed"
          /\ \A r \in Requests \ {q} : /\ pc'[r] = pc[r] /\ dirty'[r] = dirty[r]
                                       /\ pc[r] \notin {"flushed", "commit"}
        BY <1>12 DEF CommitFails, Finish, Rollback, Unlocked, Go, IInv, TypeOK, LockInv, JournalInv
    <2>2. Content' = Content
        BY <2>1 DEF Content
    <2> QED
        BY <1>0, <2>1, <2>2 DEF IInv, LockInv, JournalInv, PagesAgree, DirtyInv, KeptInv
<1> QED
    BY <1>1, <1>2, <1>3, <1>4, <1>5, <1>6, <1>7, <1>8, <1>9, <1>10, <1>11, <1>12 DEF Next, Thread

-----------------------------------------------------------------------------
\* The variables of Transaction keep their types: the retries stay within
\* _ORM_TRANSACTION_RETRIES in particular.
THEOREM TypeCorrect == Spec => []TypeOK
<1>1. IInv /\ [Next]_vars => IInv'
    BY NextIInv
<1>2. IInv => TypeOK
    BY DEF IInv
<1> QED
    BY InitIInv, <1>1, <1>2, PTL DEF Spec

-----------------------------------------------------------------------------
LEMMA KeptUnchanged ==
    ASSUME Content' = Content
    PROVE  (UNION {Content[p] : p \in Pages})' = UNION {Content[p] : p \in Pages}
OBVIOUS

LEMMA OwnKept ==
    ASSUME IInv, NEW q \in Requests
    PROVE  /\ pc[q] \in {"body", "audit", "flushed", "commit"} =>
                  Own(q) \cap UNION {Content[p] : p \in Pages} = {}
           /\ pc[q] = "committed" => dirty[q] \subseteq UNION {Content[p] : p \in Pages}
<1>1. PICK p \in Pages : TRUE
    BY TransactionAssumption
<1>2. \A r \in Pages : Content[r] = Content[p]
    BY <1>1 DEF IInv, PagesAgree
<1>3. UNION {Content[r] : r \in Pages} = Content[p]
    BY <1>1, <1>2
<1> QED
    BY <1>1, <1>3 DEF IInv, KeptInv

LEMMA StepSimulated ==
    ASSUME IInv, [Next]_vars
    PROVE  [Caller!Next]_<<
               [q \in Requests |-> IF pc[q] \in {"idle"} \cup Answers THEN pc[q] ELSE "waiting"],
               UNION {Content[p] : p \in Pages}>>
<1> DEFINE outcome == [q \in Requests |->
               IF pc[q] \in {"idle"} \cup Answers THEN pc[q] ELSE "waiting"]
           kept == UNION {Content[p] : p \in Pages}
<1> USE DEF Answers
<1>1. CASE UNCHANGED vars
    BY <1>1 DEF vars, Content
<1>2. CASE Stop
    <2>1. kept' = kept
        BY <1>2 DEF Stop, Content
    <2>2. outcome' = [q \in Requests |-> IF outcome[q] = "waiting" THEN "lost" ELSE outcome[q]]
        BY <1>2 DEF Stop, InFlight, Running, IInv, TypeOK
    <2> QED
        BY <2>1, <2>2 DEF Caller!Next, Caller!Stop
<1>3. ASSUME NEW q \in Requests, LookUp(q)
      PROVE  Caller!Next
    <2>1. kept' = kept
        BY <1>3 DEF LookUp, Content
    <2>2. outcome[q] = "idle" /\ outcome' = [outcome EXCEPT ![q] = "waiting"]
        BY <1>3 DEF LookUp, Go, IInv, TypeOK
    <2> QED
        BY <2>1, <2>2 DEF Caller!Next, Caller!Ask, Caller!Becomes
<1>4. ASSUME NEW q \in Requests,
             \/ Enter(q) \/ Flush(q) \/ LoginFailure(q) \/ Locked(q) \/ WriteJournal(q)
             \/ \E p \in Pages : WritePage(q, p)
      PROVE  UNCHANGED <<outcome, kept>>
    <2>1. Content' = Content
        BY <1>4 DEF Enter, Flush, LoginFailure, Locked, WriteJournal, WritePage, Content,
                    IInv, JournalInv, LockInv, TypeOK
    <2>2. \E at \in {"body", "flushed", "audit", "backoff", "commit"} :
              pc' = [pc EXCEPT ![q] = at] /\ pc[q] \notin {"idle"} \cup Answers
        BY <1>4 DEF Enter, Flush, LoginFailure, Locked, Refused, WriteJournal, WritePage, Go,
                    IInv, TypeOK
    <2>3. outcome' = outcome
        BY <2>2 DEF IInv, TypeOK
    <2> QED
        BY <2>1, <2>3
<1>5. ASSUME NEW q \in Requests, Raise(q) \/ TooManyRetries(q) \/ CommitFails(q)
      PROVE  Caller!Next
    <2>1. pc[q] \in {"body", "audit", "flushed", "commit"} /\ pc' = [pc EXCEPT ![q] = "failed"]
        BY <1>5 DEF Raise, TooManyRetries, Refused, CommitFails, Finish, Go
    <2>2. Content' = Content
        BY <1>5 DEF Raise, TooManyRetries, CommitFails, Content, IInv, JournalInv
    <2>3. outcome[q] = "waiting" /\ outcome' = [outcome EXCEPT ![q] = "failed"]
        BY <2>1 DEF IInv, TypeOK
    <2>4. {Caller!Work(q), Caller!Audit(q)} \cap kept = {}
        BY <2>1, OwnKept DEF Own, Work, Audit, Caller!Work, Caller!Audit
    <2>5. kept' = kept
        BY <2>2
    <2>6. Caller!Becomes(q, "failed")
        BY <2>3 DEF Caller!Becomes
    <2>7. Caller!Answer(q)
        BY <2>3, <2>4, <2>5, <2>6, Zenon DEF Caller!Answer
    <2> QED
        BY <2>7 DEF Caller!Next
<1>6. ASSUME NEW q \in Requests, Answer(q)
      PROVE  Caller!Next
    <2>1. Content' = Content
        BY <1>6 DEF Answer, Content
    <2>2. dirty[q] \subseteq kept /\ dirty[q] \in {{Work(q)}, {Audit(q)}}
        BY <1>6, OwnKept DEF Answer, IInv, DirtyInv
    <2>3. CASE Audit(q) \in dirty[q]
        <3>1. outcome[q] = "waiting" /\ outcome' = [outcome EXCEPT ![q] = "refused"]
            BY <1>6, <2>3 DEF Answer, Finish, Go, IInv, TypeOK
        <3>2. Caller!Audit(q) \in kept
            BY <2>2, <2>3 DEF Audit, Caller!Audit
        <3> QED
            BY <2>1, <3>1, <3>2 DEF Caller!Next, Caller!Answer, Caller!Becomes
    <2>4. CASE Audit(q) \notin dirty[q]
        <3>1. outcome[q] = "waiting" /\ outcome' = [outcome EXCEPT ![q] = "done"]
            BY <1>6, <2>4 DEF Answer, Finish, Go, IInv, TypeOK
        <3>2. Caller!Work(q) \in kept
            BY <2>2, <2>4 DEF Work, Caller!Work
        <3> QED
            BY <2>1, <3>1, <3>2 DEF Caller!Next, Caller!Answer, Caller!Becomes
    <2> QED
        BY <2>3, <2>4
<1>7. ASSUME NEW q \in Requests, DeleteJournal(q)
      PROVE  Caller!Next
    <2>1. /\ pc[q] = "commit" /\ pc' = [pc EXCEPT ![q] = "committed"]
          /\ journal # None /\ journal' = None /\ image' = image
        BY <1>7 DEF DeleteJournal, Go, IInv, JournalInv
    <2>2. outcome[q] = "waiting" /\ outcome' = outcome
        BY <2>1 DEF IInv, TypeOK
    <2>3. PICK e \in Own(q) : dirty[q] = {e}
        BY <2>1 DEF IInv, DirtyInv, Own
    <2>4. \A p \in Pages : image[p] = journal[p] \cup {e}
        BY <1>7, <2>1, <2>3 DEF DeleteJournal, IInv, JournalInv
    <2>5. \E p \in Pages : TRUE
        BY TransactionAssumption
    <2>6. UNION {image[p] : p \in Pages} = (UNION {journal[p] : p \in Pages}) \cup {e}
        BY <2>4, <2>5
    <2>7. kept' = kept \cup {e}
        BY <2>1, <2>6 DEF Content
    <2>8. {Caller!Work(q), Caller!Audit(q)} \cap kept = {}
        BY <2>1, OwnKept DEF Own, Work, Audit, Caller!Work, Caller!Audit
    <2>9. e \in {Caller!Work(q), Caller!Audit(q)} /\ e \in Caller!Effects
        BY <2>3 DEF Own, Work, Audit, Caller!Work, Caller!Audit, Caller!Effects
    <2>10. Caller!Keep(q, e)
        BY <2>2, <2>7, <2>8, <2>9 DEF Caller!Keep
    <2> QED
        BY <2>9, <2>10 DEF Caller!Next
<1> QED
    BY <1>1, <1>2, <1>3, <1>4, <1>5, <1>6, <1>7 DEF Next, Thread

\* The engine keeps the promise of AtomicRequests, the refinement that the
\* run checks on three requests: no work half written, doubled by a retry or
\* kept behind a failure.
THEOREM Implements == Spec => ImplementsAtomicRequests
<1>1. Init => Caller!Init
    BY DEF Init, Caller!Init, Content, Answers
<1>2. IInv /\ [Next]_vars => IInv'
    BY NextIInv
<1>3. IInv /\ [Next]_vars => [Caller!Next]_<<
          [q \in Requests |-> IF pc[q] \in {"idle"} \cup Answers THEN pc[q] ELSE "waiting"],
          UNION {Content[p] : p \in Pages}>>
    BY StepSimulated
<1> QED
    BY InitIInv, <1>1, <1>2, <1>3, PTL DEF Spec, ImplementsAtomicRequests, Caller!Spec

-----------------------------------------------------------------------------
\* The handler last looked up was so while every request in flight waited or ran.
CallerInv ==
    /\ TypeOK
    /\ RunsForCallerOrLater
    /\ \A q \in InFlight : instance \in since[q]

LEMMA NextCallerInv ==
    ASSUME IInv, CallerInv, [Next]_vars
    PROVE  CallerInv'
<1>0. TypeOK'
    BY NextType
<1> USE DEF CallerInv, RunsForCallerOrLater, TypeOK
<1>1. CASE UNCHANGED vars
    BY <1>1 DEF vars, InFlight, Running
<1>2. CASE Stop
    BY <1>0, <1>2 DEF Stop, InFlight, Running
<1>3. ASSUME NEW q \in Requests, LookUp(q)
      PROVE  CallerInv'
    <2>1. /\ instance' = q /\ ranAs' = ranAs
          /\ \A p \in Requests : since[p] \subseteq since'[p]
          /\ \A p \in InFlight \cup {q} : q \in since'[p]
        BY <1>3 DEF LookUp, Bound, InFlight
    <2>2. InFlight' \subseteq InFlight \cup {q}
        BY <1>3 DEF LookUp, Go, InFlight, Running
    <2>3. RunsForCallerOrLater'
        BY <2>1
    <2> QED
        BY <1>0, <2>1, <2>2, <2>3
<1>4. ASSUME NEW q \in Requests, Enter(q)
      PROVE  CallerInv'
    <2>1. /\ instance' = instance /\ since' = since
          /\ ranAs' = [ranAs EXCEPT ![q] = instance] /\ q \in InFlight
        BY <1>4 DEF Enter, InFlight, Running
    <2>2. InFlight' = InFlight
        BY <1>4 DEF Enter, Go, InFlight, Running
    <2>3. RunsForCallerOrLater'
        BY <2>1
    <2> QED
        BY <1>0, <2>1, <2>2, <2>3
<1>5. ASSUME NEW q \in Requests, NEW answer \in Answers, Finish(q, answer)
      PROVE  CallerInv'
    <2>1. /\ instance' = instance
          /\ since' = [since EXCEPT ![q] = {}] /\ ranAs' = [ranAs EXCEPT ![q] = None]
        BY <1>5 DEF Finish
    <2>2. InFlight' \subseteq InFlight \ {q}
        BY <1>5 DEF Finish, Go, InFlight, Running, Answers
    <2>3. RunsForCallerOrLater'
        BY <2>1
    <2>4. \A p \in InFlight' : instance' \in since'[p]
        BY <2>1, <2>2 DEF InFlight
    <2> QED
        BY <1>0, <2>3, <2>4
<1>6. ASSUME NEW q \in Requests,
             \/ Flush(q) \/ LoginFailure(q) \/ Locked(q) \/ WriteJournal(q) \/ DeleteJournal(q)
             \/ \E p \in Pages : WritePage(q, p)
      PROVE  CallerInv'
    <2>1. UNCHANGED <<instance, ranAs, since>>
        BY <1>6 DEF Flush, LoginFailure, Locked, WriteJournal, DeleteJournal, WritePage
    <2>2. \E at \in Running : pc' = [pc EXCEPT ![q] = at] /\ pc[q] \in Running
        BY <1>6 DEF Flush, LoginFailure, Locked, Refused, WriteJournal, DeleteJournal, WritePage, Go,
                    Running
    <2>3. InFlight' = InFlight
        BY <2>2 DEF InFlight, Running
    <2> QED
        BY <1>0, <2>1, <2>3
<1> QED
    BY <1>1, <1>2, <1>3, <1>4, <1>5, <1>6
       DEF Next, Thread, Raise, TooManyRetries, CommitFails, Answer, Answers

\* A method runs on behalf of its caller or of one that called while it waited,
\* never of an earlier one.
THEOREM CallerOrLater == Spec => []RunsForCallerOrLater
<1>1. Init => CallerInv
    BY InitIInv DEF Init, CallerInv, RunsForCallerOrLater, IInv, InFlight, Running
<1>2. IInv /\ CallerInv /\ [Next]_vars => IInv' /\ CallerInv'
    BY NextIInv, NextCallerInv
<1>3. CallerInv => RunsForCallerOrLater
    BY DEF CallerInv
<1> QED
    BY InitIInv, <1>1, <1>2, <1>3, PTL DEF Spec

=============================================================================

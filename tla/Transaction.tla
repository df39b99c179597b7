----------------------------- MODULE Transaction -----------------------------
(***************************************************************************)
(* The engine under every @transact function: a request is queued by the      *)
(* reactor thread, run by a thread of the pool on a connection of its own,     *)
(* run again when it finds the database locked, and answered.                  *)
(*                                                                         *)
(* The database is a file of pages with a rollback journal, which orm.py asks  *)
(* for: the pages are overwritten in place while the journal keeps their       *)
(* former content, and deleting the journal is the commit.  A process that     *)
(* stops in between finds the journal at its next start and rolls back.        *)
(*                                                                         *)
(* The decorator keeps the object its method was last looked up on, for all    *)
(* the threads: a request runs on behalf of that one.                          *)
(***************************************************************************)
EXTENDS Naturals, FiniteSets

CONSTANTS
    Requests,   \* calls of one decorated method, each on a handler of its own
    Pages,      \* the pages a transaction writes
    PoolSize,   \* the threads of the pool
    Retries,    \* _ORM_TRANSACTION_RETRIES
    MaxStops,   \* bound on the stops of the process
    None

VARIABLES
    pc,         \* where each request is
    tries,      \* the times a request found the database locked
    dirty,      \* the effects pending in the session of a request
    image,      \* the pages of the database file
    journal,    \* their former content while a commit is under way, or None
    writer,     \* the request that holds the write lock, or None
    instance,   \* transact.instance
    ranAs,      \* the handler on behalf of which a request last ran
    since,      \* history: the handlers looked up while a request was in flight
    stops       \* stops of the process so far

vars == <<pc, tries, dirty, image, journal, writer, instance, ranAs, since, stops>>

Work(q) == <<q, "work">>
Audit(q) == <<q, "audit">>

Effects == {Work(q) : q \in Requests} \cup {Audit(q) : q \in Requests}

Answers == {"done", "refused", "failed", "lost"}

Running == {"body", "audit", "flushed", "commit", "committed", "backoff"}

Image == [Pages -> SUBSET Effects]

ASSUME TransactionAssumption ==
    /\ Pages # {}
    /\ Retries \in Nat \ {0}
    /\ PoolSize \in Nat
    /\ MaxStops \in Nat
    /\ None \notin Requests
    /\ None \notin Image

-----------------------------------------------------------------------------
Init ==
    /\ pc = [q \in Requests |-> "idle"]
    /\ tries = [q \in Requests |-> 0]
    /\ dirty = [q \in Requests |-> {}]
    /\ image = [p \in Pages |-> {}]
    /\ journal = None
    /\ writer = None
    /\ instance = None
    /\ ranAs = [q \in Requests |-> None]
    /\ since = [q \in Requests |-> {}]
    /\ stops = 0

Go(q, at) == pc' = [pc EXCEPT ![q] = at]

InFlight == {q \in Requests : pc[q] = "queued" \/ pc[q] \in Running}

\* Mutant: the first one stays.
FirstBound(q) == IF instance = None THEN q ELSE instance

\* The handler a method is run on: the one it was last looked up on.
Bound(q) == q


\* transact.__get__ and run, in the reactor thread.
LookUp(q) ==
    /\ pc[q] = "idle"
    /\ Go(q, "queued")
    /\ instance' = Bound(q)
    /\ since' = [p \in Requests |-> IF p \in InFlight \cup {q} THEN since[p] \cup {q} ELSE since[p]]
    /\ UNCHANGED <<tries, dirty, image, journal, writer, ranAs, stops>>

\* A thread of the pool takes the request, or goes on with it after the backoff.
Enter(q) ==
    /\ \/ pc[q] = "queued" /\ Cardinality({p \in Requests : pc[p] \in Running}) < PoolSize
       \/ pc[q] = "backoff"
    /\ Go(q, "body")
    /\ ranAs' = [ranAs EXCEPT ![q] = instance]
    /\ UNCHANGED <<tries, dirty, image, journal, writer, instance, since, stops>>

-----------------------------------------------------------------------------
(* The end of a try *)

Unlocked(q) == IF writer = q THEN None ELSE writer

\* Session.rollback, then what is written anew.
Rollback(q, pending) ==
    /\ dirty' = [dirty EXCEPT ![q] = pending]
    /\ writer' = Unlocked(q)

\* The session is closed and the caller is told; nothing of the call remains.
Finish(q, answer) ==
    /\ Go(q, answer)
    /\ Rollback(q, {})
    /\ tries' = [tries EXCEPT ![q] = 0]
    /\ ranAs' = [ranAs EXCEPT ![q] = None]
    /\ since' = [since EXCEPT ![q] = {}]
    /\ UNCHANGED <<instance, stops>>

-----------------------------------------------------------------------------
(* The body of the function *)

\* The first statement that writes takes the lock.
Flush(q) ==
    /\ pc[q] \in {"body", "audit"}
    /\ writer = None
    /\ writer' = q
    /\ dirty' = [dirty EXCEPT ![q] = IF pc[q] = "body" THEN {Work(q)} ELSE @]
    /\ Go(q, "flushed")
    /\ UNCHANGED <<tries, image, journal, instance, ranAs, since, stops>>

\* Mutant: what was pending is committed together with the audit entry.
Unflushed(q) == dirty[q] \cup {Audit(q)}

\* What db_login_failure leaves pending.
Refusal(q) == {Audit(q)}

LoginFailure(q) ==
    /\ pc[q] \in {"body", "flushed"}
    /\ Audit(q) \notin dirty[q]
    /\ Rollback(q, Refusal(q))
    /\ Go(q, "audit")
    /\ UNCHANGED <<tries, image, journal, instance, ranAs, since, stops>>

\* An exception of the body, a constraint that fails at the commit included.
Raise(q) ==
    /\ pc[q] \in {"body", "audit", "flushed"}
    /\ Finish(q, "failed")
    /\ UNCHANGED <<image, journal>>

\* The write lock is not had in time, or other connections keep reading the file.
Refused(q) ==
    \/ pc[q] \in {"body", "audit"} /\ writer # None
    \/ pc[q] = "flushed"

MayRetry(q) == tries[q] + 1 < Retries

\* Mutant: the retries are not counted.
Uncounted(q) == tries[q]

Counted(q) == tries[q] + 1

Locked(q) ==
    /\ Refused(q)
    /\ MayRetry(q)
    /\ Rollback(q, {})
    /\ tries' = [tries EXCEPT ![q] = Counted(q)]
    /\ Go(q, "backoff")
    /\ UNCHANGED <<image, journal, instance, ranAs, since, stops>>

TooManyRetries(q) ==
    /\ Refused(q)
    /\ ~ MayRetry(q)
    /\ Finish(q, "failed")
    /\ UNCHANGED <<image, journal>>

-----------------------------------------------------------------------------
(* Session.commit *)

WriteJournal(q) ==
    /\ pc[q] = "flushed"
    /\ journal' = image
    /\ Go(q, "commit")
    /\ UNCHANGED <<tries, dirty, image, writer, instance, ranAs, since, stops>>

WritePage(q, p) ==
    /\ pc[q] = "commit"
    /\ ~ dirty[q] \subseteq image[p]
    /\ image' = [image EXCEPT ![p] = @ \cup dirty[q]]
    /\ UNCHANGED <<pc, tries, dirty, journal, writer, instance, ranAs, since, stops>>

DeleteJournal(q) ==
    /\ pc[q] = "commit"
    /\ \A p \in Pages : dirty[q] \subseteq image[p]
    /\ journal' = None
    /\ writer' = None
    /\ Go(q, "committed")
    /\ UNCHANGED <<tries, dirty, image, instance, ranAs, since, stops>>

\* The commit fails half way and is rolled back from the journal.
CommitFails(q) ==
    /\ pc[q] = "commit"
    /\ image' = journal
    /\ journal' = None
    /\ Finish(q, "failed")

Answer(q) ==
    /\ pc[q] = "committed"
    /\ Finish(q, IF Audit(q) \in dirty[q] THEN "refused" ELSE "done")
    /\ UNCHANGED <<image, journal>>

-----------------------------------------------------------------------------
\* The content of the file as the next connection that opens it finds it.
Content == IF journal = None THEN image ELSE journal

\* The process stops and starts again.
Stop ==
    /\ stops < MaxStops
    /\ stops' = stops + 1
    /\ pc' = [q \in Requests |-> IF q \in InFlight THEN "lost" ELSE pc[q]]
    /\ tries' = [q \in Requests |-> 0]
    /\ dirty' = [q \in Requests |-> {}]
    /\ image' = Content
    /\ journal' = None
    /\ writer' = None
    /\ instance' = None
    /\ ranAs' = [q \in Requests |-> None]
    /\ since' = [q \in Requests |-> {}]

Thread(q) ==
    \/ Enter(q) \/ Flush(q) \/ LoginFailure(q) \/ Raise(q)
    \/ Locked(q) \/ TooManyRetries(q)
    \/ WriteJournal(q) \/ (\E p \in Pages : WritePage(q, p)) \/ DeleteJournal(q)
    \/ CommitFails(q) \/ Answer(q)

Next == Stop \/ \E q \in Requests : LookUp(q) \/ Thread(q)

Spec == Init /\ [][Next]_vars

\* The threads are scheduled by the operating system, and a lock is waited for
\* thirty seconds at most: a request that can go on does.
Fairness == \A q \in Requests : WF_vars(Thread(q))

FairSpec == Spec /\ Fairness

-----------------------------------------------------------------------------
TypeOK ==
    /\ pc \in [Requests -> {"idle", "queued"} \cup Running \cup Answers]
    /\ tries \in [Requests -> 0..(Retries - 1)]
    /\ dirty \in [Requests -> SUBSET Effects]
    /\ image \in Image
    /\ journal \in Image \cup {None}
    /\ writer \in Requests \cup {None}
    /\ instance \in Requests \cup {None}
    /\ ranAs \in [Requests -> Requests \cup {None}]
    /\ since \in [Requests -> SUBSET Requests]
    /\ stops \in 0..MaxStops

\* A method runs on the object it was called on, or on that of a call made while
\* it waited for its thread or its lock: transact.__get__ keeps the last one only.
RunsForCallerOrLater ==
    \A q \in Requests : ranAs[q] \in since[q] \cup {None}

\* The work of a request is kept as a whole and once or not at all, whatever the
\* locks, the retries, the failures and the stops of the process; its answer
\* tells which, and a refused login keeps its audit entry and nothing else.
Caller == INSTANCE AtomicRequests WITH
    outcome <- [q \in Requests |->
        IF pc[q] \in {"idle"} \cup Answers THEN pc[q] ELSE "waiting"],
    kept <- UNION {Content[p] : p \in Pages}

ImplementsAtomicRequests == Caller!Spec

\* A request that reached the pool is answered, or lost with the process: the
\* retries are counted.
EveryRequestAnswered ==
    \A q \in Requests : pc[q] = "queued" ~> pc[q] \in Answers

=============================================================================

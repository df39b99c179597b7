------------------------------- MODULE MailPool -------------------------------
(***************************************************************************)
(* The pool of mails to be sent.  The job takes the first mails there are, *)
(* tries each and removes those that were sent; a run that fails or stops  *)
(* leaves the rest for the next.  Mails too old are removed.               *)
(***************************************************************************)
EXTENDS Naturals, Sequences, FiniteSets, SequencesExt

CONSTANTS Mails,
          Broken,      \* those no server takes
          Orphans,     \* those of a tenant that is not active
          Batch,       \* mails taken in a run
          MaxStops     \* bounds the stops of the process

\* Batch is positive.

VARIABLES
    pool,      \* the mails in the order they were made
    unmade,    \* those still to come
    run,       \* what is left of the mails the run has taken
    sent,      \* how often each was sent
    removing,  \* the mail that was sent and is not removed yet
    stops

vars == <<pool, unmade, run, sent, removing, stops>>

NoMail == 0

Init ==
    /\ pool = << >> /\ unmade = Mails
    /\ run = << >> /\ removing = NoMail
    /\ sent = [m \in Mails |-> 0]
    /\ stops = 0

\* db_schedule_email, and the mails of the notification
Make(m) ==
    /\ m \in unmade
    /\ pool' = Append(pool, m) /\ unmade' = unmade \ {m}
    /\ UNCHANGED <<run, sent, removing, stops>>

\* get_mails_from_the_pool
Take ==
    /\ run = << >> /\ removing = NoMail /\ pool # << >>
    /\ run' = SubSeq(pool, 1, IF Len(pool) < Batch THEN Len(pool) ELSE Batch)
    /\ UNCHANGED <<pool, unmade, sent, removing, stops>>

\* Mutant: a mail that is not taken ends the run.
MutAfter(m) == IF m \in Broken THEN << >> ELSE Tail(run)

\* What is left of the run; a tenant that is not there is an exception.
After(m) == IF m \in Orphans THEN << >> ELSE Tail(run)

\* sendmail
Try ==
    /\ run # << >> /\ removing = NoMail
    /\ LET m == Head(run) IN
         /\ run' = After(m)
         /\ IF m \in Broken \cup Orphans THEN UNCHANGED <<sent, removing>>
            ELSE /\ sent' = [sent EXCEPT ![m] = IF @ < 2 THEN @ + 1 ELSE @]
                 /\ removing' = m
    /\ UNCHANGED <<pool, unmade, stops>>

TakeAway ==
    /\ removing # NoMail
    /\ pool' = SelectSeq(pool, LAMBDA m : m # removing)
    /\ removing' = NoMail
    /\ UNCHANGED <<unmade, run, sent, stops>>

\* The process stops; or the removal fails, which ends the run.
Stop ==
    /\ stops < MaxStops
    /\ run # << >> \/ removing # NoMail
    /\ run' = << >> /\ removing' = NoMail
    /\ stops' = stops + 1
    /\ UNCHANGED <<pool, unmade, sent>>

\* The daily cleaning of mails two weeks old: those before are older.
Expire ==
    /\ pool # << >>
    /\ Head(pool) \in Broken \cup Orphans
    /\ pool' = Tail(pool)
    /\ UNCHANGED <<unmade, run, sent, removing, stops>>

Next == (\E m \in Mails : Make(m)) \/ Take \/ Try \/ TakeAway \/ Stop \/ Expire

\* The job runs again and again, each mail in its turn.
Fairness == WF_vars(Take) /\ WF_vars(Try) /\ WF_vars(TakeAway)

Spec == Init /\ [][Next]_vars /\ Fairness

-----------------------------------------------------------------------------
\* A mail that some server takes is sent in the end, though others before it are
\* not, as long as these are fewer than a run takes, unless a mail of a tenant that
\* is not active gets into the pool: none behind that one is sent while it is there.
EveryMailIsSent ==
    \A m \in Mails \ (Broken \cup Orphans) :
      (m \in Range(pool)) ~> (sent[m] > 0 \/ Orphans \cap Range(pool) # {})
=============================================================================

-------------------------------- MODULE MCJobs --------------------------------
(***************************************************************************)
(* Model checking of Attachments and of MailPool, whose work is done by the *)
(* periodic jobs, one at a time: part says which, and the other keeps       *)
(* still.  Two files of one or two chunks; four mails, two of which no     *)
(* server takes and one of a tenant that is not active, three to a run.     *)
(***************************************************************************)
EXTENDS Attachments

CONSTANTS Mails, Broken, Orphans, Batch

VARIABLES part, pool, unmade, run, mailed, removing, restarts

Mail == INSTANCE MailPool WITH sent <- mailed, stops <- restarts

mailPool == <<pool, unmade, run, mailed, removing, restarts>>
allVars == <<part, vars, mailPool>>

MCInit ==
    /\ part \in {"attachments", "mail"}
    /\ Init /\ Mail!Init
    /\ part # "attachments" => size = [f \in Files |-> 1]

MCNext ==
    \/ part = "attachments" /\ Next /\ UNCHANGED <<part, mailPool>>
    \/ part = "mail" /\ Mail!Next /\ UNCHANGED <<part, vars>>

\* The fairness of each component, while it is the one under way.
MCFairness ==
    /\ WF_vars(part = "attachments" /\ Mark)
    /\ WF_vars(part = "attachments" /\ \E u \in Uploads : CopyBegin(u))
    /\ WF_vars(part = "attachments" /\ CopyChunk)
    /\ WF_vars(part = "attachments" /\ CopyEnd)
    /\ WF_vars(part = "attachments" /\ Day)
    /\ WF_vars(part = "attachments" /\ Clean)
    /\ WF_mailPool(part = "mail" /\ Mail!Take)
    /\ WF_mailPool(part = "mail" /\ Mail!Try)
    /\ WF_mailPool(part = "mail" /\ Mail!TakeAway)

MCSpec == MCInit /\ [][MCNext]_allVars /\ MCFairness

\* MailPool: a mail that can be sent is sent in the end.
EveryMailIsSent == Mail!EveryMailIsSent

=============================================================================

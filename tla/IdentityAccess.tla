---------------------------- MODULE IdentityAccess ----------------------------
(***************************************************************************)
(* The disclosure of the whistleblower's identity.                         *)
(*                                                                         *)
(* A recipient of an encrypted report asks for the identity with an        *)
(* IdentityAccessRequest; each enabled custodian is given the report's key *)
(* sealed to him and may authorize or deny the request; without custodians *)
(* a request is authorized on the spot.  The recipients are shown the      *)
(* identity according to the latest request of the report.                 *)
(*                                                                         *)
(* As in ReportAccess a handler is a Begin, what it reads before its first *)
(* write, and a Commit; an UPDATE writes the columns the handler assigned, *)
(* whatever they hold by then.                                             *)
(***************************************************************************)
EXTENDS Naturals, Sequences

CONSTANTS
    Recipients,     \* recipients with a row on the report
    Custodians,     \* users with the custodian role
    Workers,        \* ORM threads
    MaxRequests,    \* bound on the requests filed
    Idle            \* no transaction in flight

ASSUME IdentityAccessAssumption ==
    /\ Recipients \cap Custodians = {}
    /\ MaxRequests \in Nat

VARIABLES
    account,    \* the custodian's record: "enabled", "disabled" or "deleted"
    keyed,      \* the custodian has completed the first access
    live,       \* the report exists
    requests,   \* its IdentityAccessRequest rows by request_date
    tx,         \* the transaction in flight in each worker
    overlapped  \* history: two of them have been in flight at once

vars == <<account, keyed, live, requests, tx, overlapped>>

Users == Recipients \cup Custodians
Nobody == "nobody"
Replies == {"pending", "authorized", "denied"}

\* "asked" are the custodians given a key; "holding" those whose entry
\* (IdentityAccessRequestCustodian) is still there.
Request == [by : Recipients, asked : SUBSET Custodians, holding : SUBSET Custodians,
            reply : Replies, replier : Users \cup {Nobody}]
FileTx == [op : {"file"}, by : Recipients]
ReplyTx == [op : {"reply"}, by : Custodians, request : Nat \ {0}, reply : Replies]

-----------------------------------------------------------------------------
Init ==
    /\ account \in [Custodians -> {"enabled", "disabled"}]
    /\ keyed \in [Custodians -> BOOLEAN]
    /\ live = TRUE
    /\ requests = <<>>
    /\ tx = [w \in Workers |-> Idle]
    /\ overlapped = FALSE

Start(w, t) ==
    /\ tx[w] = Idle
    /\ live
    /\ tx' = [tx EXCEPT ![w] = t]
    /\ overlapped' = (overlapped \/ \E v \in Workers : tx[v] # Idle)
    /\ UNCHANGED <<account, keyed, live, requests>>

Done(w) ==
    /\ tx' = [tx EXCEPT ![w] = Idle]
    /\ UNCHANGED overlapped

Authorized == {i \in DOMAIN requests : requests[i].reply = "authorized"}

-----------------------------------------------------------------------------
(* Requests *)

\* Mutant: an authorized report takes further requests.
Unchecked == TRUE

NoneAuthorized == Authorized = {}

\* create_identityaccessrequest up to its flush.
FileBegin(w, by) ==
    /\ Len(requests) < MaxRequests
    /\ NoneAuthorized
    /\ Start(w, [op |-> "file", by |-> by])

Enabled == {c \in Custodians : account[c] = "enabled"}

\* Sealing the report's key to a custodian without keys raises.
AllKeyed == Enabled \subseteq {c \in Custodians : keyed[c]}

\* The request references the report.
ReportExists == live

NewRequest(by) ==
    [by      |-> by,
     asked   |-> Enabled,
     holding |-> Enabled,
     reply   |-> IF Enabled = {} THEN "authorized" ELSE "pending",
     replier |-> IF Enabled = {} THEN by ELSE Nobody]

FileCommit(w) ==
    /\ tx[w] # Idle
    /\ tx[w].op = "file"
    /\ Len(requests) < MaxRequests
    /\ ReportExists
    /\ AllKeyed
    /\ requests' = Append(requests, NewRequest(tx[w].by))
    /\ Done(w)
    /\ UNCHANGED <<account, keyed, live>>

-----------------------------------------------------------------------------
(* Replies *)

\* Mutant: any custodian of the tenant may reply.
AnyCustodian(c, i) == account[c] = "enabled"

\* The query joins the entry of the custodian.
Asked(c, i) == c \in requests[i].holding

\* Mutant: a request that was answered may be answered again.
Answerable(i) == TRUE

Unanswered(i) == requests[i].reply = "pending"

ReplyBegin(w, c, i, reply) ==
    /\ account[c] = "enabled"
    /\ Asked(c, i)
    /\ Unanswered(i)
    /\ Start(w, [op |-> "reply", by |-> c, request |-> i, reply |-> reply])

\* A reply of "pending" is accepted; as it is what the handler had read, the
\* UPDATE leaves the column alone and only the replier is written.
Answered(r, t) ==
    [r EXCEPT !.reply = IF t.reply = "pending" THEN @ ELSE t.reply, !.replier = t.by]

ReplyCommit(w) ==
    /\ tx[w] # Idle
    /\ tx[w].op = "reply"
    /\ tx[w].request \in DOMAIN requests
    /\ requests' = [requests EXCEPT ![tx[w].request] = Answered(@, tx[w])]
    /\ Done(w)
    /\ UNCHANGED <<account, keyed, live>>

Abort(w) ==
    /\ tx[w] # Idle
    /\ Done(w)
    /\ UNCHANGED <<account, keyed, live, requests>>

-----------------------------------------------------------------------------
(* Administration *)

DeleteReport ==
    /\ live
    /\ live' = FALSE
    /\ requests' = <<>>
    /\ UNCHANGED <<account, keyed, tx, overlapped>>

\* The entries of a deleted custodian go with him, his replies stay.
DeleteCustodian(c) ==
    /\ account[c] # "deleted"
    /\ account' = [account EXCEPT ![c] = "deleted"]
    /\ requests' = [i \in DOMAIN requests |-> [requests[i] EXCEPT !.holding = @ \ {c}]]
    /\ UNCHANGED <<keyed, live, tx, overlapped>>

UpdateCustodian(c) ==
    /\ account[c] # "deleted"
    /\ account' = [account EXCEPT ![c] = IF @ = "enabled" THEN "disabled" ELSE "enabled"]
    /\ UNCHANGED <<keyed, live, requests, tx, overlapped>>

CreateKeys(c) ==
    /\ account[c] = "enabled"
    /\ ~keyed[c]
    /\ keyed' = [keyed EXCEPT ![c] = TRUE]
    /\ UNCHANGED <<account, live, requests, tx, overlapped>>

Administration ==
    \/ DeleteReport
    \/ \E c \in Custodians : DeleteCustodian(c) \/ UpdateCustodian(c) \/ CreateKeys(c)

Next ==
    \/ \E w \in Workers, by \in Recipients : FileBegin(w, by)
    \/ \E w \in Workers, c \in Custodians, i \in DOMAIN requests, reply \in Replies :
          ReplyBegin(w, c, i, reply)
    \/ \E w \in Workers : FileCommit(w) \/ ReplyCommit(w) \/ Abort(w)
    \/ Administration

Spec == Init /\ [][Next]_vars

-----------------------------------------------------------------------------
(* Properties *)

\* Every variable has its type.
TypeOK ==
    /\ account \in [Custodians -> {"enabled", "disabled", "deleted"}]
    /\ keyed \in [Custodians -> BOOLEAN]
    /\ live \in BOOLEAN
    /\ requests \in Seq(Request)
    /\ tx \in [Workers -> FileTx \cup ReplyTx \cup {Idle}]
    /\ overlapped \in BOOLEAN

\* What serialize_rtip shows: the identity, if the latest request says so.
Disclosed == requests # <<>> /\ requests[Len(requests)].reply = "authorized"

\* A request is decided by a custodian who was given the report's key with it, or
\* by nobody but the lack of custodians; with two replies in flight, a deleted or
\* disabled custodian or a handler that read the request long ago.
DecidedByAsked ==
    \A i \in DOMAIN requests :
        LET r == requests[i] IN
        r.reply # "pending" => r.replier \in r.asked \/ (r.asked = {} /\ r.replier = r.by)

\* The report's key is only ever sealed to custodians who can open it, however
\* custodians are created, enabled and deleted while a request is being filed.
KeysOfCustodians ==
    \A i \in DOMAIN requests : \A c \in requests[i].asked : keyed[c]

\* A deleted report leaves no request behind, nor does one that was being filed
\* or answered bring it back.
ErasedWithReport == ~live => requests = <<>>

\* create_identityaccessrequest (handlers/recipient/rtip.py:1112-1116): an
\* authorization "is definitive".  It is as long as no two transactions overlap;
\* a custodian who read the request as pending while another one was answering
\* it overwrites the authorization.
AuthorizationIsDefinitive ==
    [][~overlapped => \A i \in Authorized : live' => i \in Authorized']_vars

\* The same comment: a later request must not "re-hide an identity that was
\* already, irrevocably, released".  None does as long as no two transactions
\* overlap; a request that is being filed during the authorization re-hides it.
DisclosureIsFinal == [][~overlapped => (Disclosed /\ live' => Disclosed')]_vars

\* The same comment: "once any request has been authorized the identity is
\* disclosed to every recipient".  Refuted without any concurrency: of two pending
\* requests the older is authorized, and serialize_rtip looks at the other.
AuthorizedDiscloses == Authorized # {} => Disclosed

=============================================================================

--------------------------- MODULE Requests_proofs ---------------------------
(***************************************************************************)
(* Proofs about the requests on a report.                                  *)
(*                                                                         *)
(* IdentityAccess, for any recipients, custodians, threads and bound on the *)
(* requests.  A reply in flight names a request by its place among the      *)
(* requests of the report.  Places are never reused: requests are only      *)
(* appended, and when the report is deleted no further one is filed.  The   *)
(* custodian of a reply in flight is therefore still one of those asked     *)
(* when it is applied.                                                     *)
(*                                                                         *)
(* Notification, for any recipients and comments.  Who did not open the     *)
(* report since the job began is in the database as the job has read him,   *)
(* so what it leaves untold is told already.                               *)
(*                                                                         *)
(* Redaction, for any answers, comments, rows and selections that come in   *)
(* the order the client sends them.  The lists of ranges are read as the    *)
(* sets of the positions they cover: sorting, joining and cutting them is   *)
(* followed by induction over their ranges, and nothing is gained or lost.  *)
(*                                                                         *)
(* Submission, for any sessions, files, receipts, schemas and tries.  The   *)
(* counter may be stale when it is counted from, and even fall, but every   *)
(* number up to the highest was given before; what is flushed holds the     *)
(* lock until it is committed or run again.                                *)
(***************************************************************************)
EXTENDS MCRequests, TLAPS, SequenceTheorems, WellFoundedInduction

\* A reply in flight is to a request of the report, unless the report was
\* deleted, and comes from a custodian who was asked.
RepliesAsked ==
    live => \A w \in Workers :
        tx[w] # Idle /\ tx[w].op = "reply" =>
            /\ tx[w].request \in DOMAIN requests
            /\ tx[w].by \in requests[tx[w].request].asked

\* The entries that are left are among those there were.
HoldingAsked == \A i \in DOMAIN requests : requests[i].holding \subseteq requests[i].asked

IInv == /\ TypeOK
        /\ RepliesAsked
        /\ HoldingAsked
        /\ DecidedByAsked
        /\ KeysOfCustodians
        /\ ErasedWithReport

\* Handlers that wait to commit leave the requests alone.
LEMMA StartKeeps ==
    ASSUME IInv, NEW w \in Workers, NEW t, Start(w, t), t \in FileTx \cup ReplyTx,
           t.op = "reply" => t.request \in DOMAIN requests /\ t.by \in requests[t.request].asked
    PROVE  IInv'
<1>1. TypeOK'
  BY DEF IInv, TypeOK, Start
<1>2. RepliesAsked'
  BY DEF IInv, TypeOK, Start, RepliesAsked
<1> QED
  BY <1>1, <1>2 DEF IInv, Start, HoldingAsked, DecidedByAsked, KeysOfCustodians, ErasedWithReport

LEMMA FileCommitKeeps == ASSUME IInv, NEW w \in Workers, FileCommit(w) PROVE IInv'
<1> DEFINE r == NewRequest(tx[w].by)
<1>1. tx[w] \in FileTx
  BY DEF IInv, TypeOK, FileCommit, ReplyTx
<1>2. r \in Request /\ r.asked = Enabled /\ r.holding = Enabled /\ r.by = tx[w].by
  BY <1>1 DEF NewRequest, Request, FileTx, Enabled, Replies, Users
<1>3. /\ requests \in Seq(Request)
      /\ requests' = Append(requests, r)
      /\ live /\ AllKeyed
      /\ UNCHANGED <<account, keyed, live>>
  BY DEF IInv, TypeOK, FileCommit, ReportExists
<1>4. requests' \in Seq(Request) /\ Len(requests') = Len(requests) + 1
  BY <1>2, <1>3
<1>5. \A i \in DOMAIN requests' : \/ i \in DOMAIN requests /\ requests'[i] = requests[i]
                                  \/ i = Len(requests) + 1 /\ requests'[i] = r
  BY <1>2, <1>3, <1>4
<1>6. TypeOK'
  BY <1>3, <1>4 DEF IInv, TypeOK, FileCommit, Done
<1>7. RepliesAsked'
  <2> SUFFICES ASSUME NEW v \in Workers, tx'[v] # Idle, tx'[v].op = "reply"
               PROVE  /\ tx'[v].request \in DOMAIN requests'
                      /\ tx'[v].by \in requests'[tx'[v].request].asked
    BY DEF RepliesAsked
  <2>1. tx'[v] = tx[v]
    BY DEF IInv, TypeOK, FileCommit, Done
  <2>2. tx[v].request \in DOMAIN requests /\ tx[v].by \in requests[tx[v].request].asked
    BY <1>3, <2>1 DEF IInv, RepliesAsked
  <2>3. tx[v].request \in DOMAIN requests' /\ requests'[tx[v].request] = requests[tx[v].request]
    BY <1>2, <1>3, <1>4, <2>2
  <2> QED
    BY <2>1, <2>2, <2>3
<1>8. HoldingAsked' /\ DecidedByAsked' /\ KeysOfCustodians'
  BY <1>2, <1>3, <1>5 DEF IInv, HoldingAsked, DecidedByAsked, KeysOfCustodians, NewRequest,
                          AllKeyed
<1> QED
  BY <1>3, <1>6, <1>7, <1>8 DEF IInv, ErasedWithReport

LEMMA ReplyCommitKeeps == ASSUME IInv, NEW w \in Workers, ReplyCommit(w) PROVE IInv'
<1> DEFINE i == tx[w].request
           r == Answered(requests[i], tx[w])
<1>1. tx[w] \in ReplyTx /\ tx[w].by \in Custodians /\ tx[w].reply \in Replies
  BY DEF IInv, TypeOK, ReplyCommit, FileTx, ReplyTx
<1>2. /\ requests \in Seq(Request) /\ i \in DOMAIN requests /\ requests[i] \in Request
      /\ requests' = [requests EXCEPT ![i] = r]
      /\ UNCHANGED <<account, keyed, live>>
  BY DEF IInv, TypeOK, ReplyCommit
<1>3. live /\ tx[w].by \in requests[i].asked
  BY <1>1, <1>2 DEF IInv, ErasedWithReport, RepliesAsked, ReplyCommit
<1>4. /\ r \in Request /\ r.asked = requests[i].asked /\ r.holding = requests[i].holding
      /\ r.replier = tx[w].by
  BY <1>1, <1>2 DEF Answered, Request, Users, Replies
<1>5. requests' \in Seq(Request) /\ DOMAIN requests' = DOMAIN requests
  BY <1>2, <1>4
<1>6. \A j \in DOMAIN requests : requests'[j] = IF j = i THEN r ELSE requests[j]
  BY <1>2
<1>7. TypeOK'
  BY <1>2, <1>5 DEF IInv, TypeOK, ReplyCommit, Done
<1>8. RepliesAsked'
  BY <1>2, <1>4, <1>5, <1>6 DEF IInv, TypeOK, ReplyCommit, Done, RepliesAsked
<1>9. HoldingAsked' /\ DecidedByAsked' /\ KeysOfCustodians'
  BY <1>2, <1>3, <1>4, <1>5, <1>6 DEF IInv, HoldingAsked, DecidedByAsked, KeysOfCustodians
<1> QED
  BY <1>2, <1>3, <1>7, <1>8, <1>9 DEF IInv, ErasedWithReport

LEMMA DeleteCustodianKeeps == ASSUME IInv, NEW c \in Custodians, DeleteCustodian(c) PROVE IInv'
<1> DEFINE Left(r) == [r EXCEPT !.holding = @ \ {c}]
<1>1. requests \in Seq(Request) /\ requests' = [i \in DOMAIN requests |-> Left(requests[i])]
  BY DEF IInv, TypeOK, DeleteCustodian
<1>2. \A r \in Request : /\ Left(r) \in Request
                         /\ Left(r).asked = r.asked /\ Left(r).holding \subseteq r.holding
                         /\ Left(r).reply = r.reply /\ Left(r).replier = r.replier
                         /\ Left(r).by = r.by
  BY DEF Request
<1>3. \A i \in DOMAIN requests : requests[i] \in Request
  BY <1>1
<1>4. DOMAIN requests' = DOMAIN requests /\ requests' \in Seq(Request)
  BY <1>1, <1>2, <1>3
<1>5. \A i \in DOMAIN requests :
         /\ requests'[i].asked = requests[i].asked
         /\ requests'[i].holding \subseteq requests[i].holding
         /\ requests'[i].reply = requests[i].reply /\ requests'[i].replier = requests[i].replier
         /\ requests'[i].by = requests[i].by
  BY <1>1, <1>2, <1>3
<1>6. TypeOK'
  BY <1>4 DEF IInv, TypeOK, DeleteCustodian
<1>7. RepliesAsked'
  <2>1. live' = live /\ tx' = tx
    BY DEF DeleteCustodian
  <2> QED
    BY <1>4, <1>5, <2>1 DEF IInv, RepliesAsked
<1>11. HoldingAsked'
  BY <1>4, <1>5 DEF IInv, HoldingAsked
<1>8. DecidedByAsked'
  BY <1>4, <1>5 DEF IInv, DecidedByAsked
<1>10. KeysOfCustodians'
  BY <1>4, <1>5 DEF IInv, DeleteCustodian, KeysOfCustodians
<1>9. ErasedWithReport'
  BY <1>1, <1>4 DEF IInv, DeleteCustodian, ErasedWithReport
<1> QED
  BY <1>6, <1>7, <1>8, <1>9, <1>10, <1>11 DEF IInv

\* The inductive invariant holds throughout.
THEOREM Invariant == Spec => []IInv
<1>1. Init => IInv
  <2> SUFFICES ASSUME Init PROVE IInv
    OBVIOUS
  <2>0. <<>> \in Seq(Request)
    OBVIOUS
  <2>3. tx \in [Workers -> FileTx \cup ReplyTx \cup {Idle}]
    BY DEF Init
  <2>1. TypeOK
    BY <2>0, <2>3, Zenon DEF Init, TypeOK
  <2>2. requests = <<>> /\ \A w \in Workers : tx[w] = Idle
    BY DEF Init
  <2> QED
    BY <2>1, <2>2 DEF IInv, RepliesAsked, HoldingAsked, DecidedByAsked, KeysOfCustodians,
                      ErasedWithReport
<1>2. IInv /\ [Next]_vars => IInv'
  <2> SUFFICES ASSUME IInv, [Next]_vars PROVE IInv'
    OBVIOUS
  <2>1. ASSUME NEW w \in Workers, NEW by \in Recipients, FileBegin(w, by) PROVE IInv'
    BY <2>1, StartKeeps DEF FileBegin, FileTx
  <2>2. ASSUME NEW w \in Workers, NEW c \in Custodians, NEW i \in DOMAIN requests,
               NEW reply \in Replies, ReplyBegin(w, c, i, reply)
        PROVE  IInv'
    <3>1. i \in Nat \ {0}
      BY DEF IInv, TypeOK
    <3>2. c \in requests[i].asked
      BY <2>2 DEF ReplyBegin, Asked, IInv, HoldingAsked
    <3> QED
      BY <2>2, <3>1, <3>2, StartKeeps DEF ReplyBegin, ReplyTx
  <2>3. ASSUME NEW w \in Workers, FileCommit(w) PROVE IInv'
    BY <2>3, FileCommitKeeps
  <2>4. ASSUME NEW w \in Workers, ReplyCommit(w) PROVE IInv'
    BY <2>4, ReplyCommitKeeps
  <2>5. ASSUME NEW w \in Workers, Abort(w) PROVE IInv'
    <3>1. TypeOK'
      BY <2>5 DEF Abort, Done, IInv, TypeOK
    <3>2. RepliesAsked'
      BY <2>5 DEF Abort, Done, IInv, TypeOK, RepliesAsked
    <3> QED
      BY <2>5, <3>1, <3>2 DEF Abort, IInv, HoldingAsked, DecidedByAsked, KeysOfCustodians,
                              ErasedWithReport
  <2>6. CASE DeleteReport
    <3>1. ~live' /\ requests' = <<>>
      BY <2>6 DEF DeleteReport
    <3>2. requests' \in Seq(Request)
      BY <3>1
    <3>3. TypeOK'
      BY <2>6, <3>2 DEF DeleteReport, IInv, TypeOK
    <3> QED
      BY <3>1, <3>3 DEF IInv, RepliesAsked, HoldingAsked, DecidedByAsked, KeysOfCustodians,
                        ErasedWithReport
  <2>7. ASSUME NEW c \in Custodians, DeleteCustodian(c) PROVE IInv'
    BY <2>7, DeleteCustodianKeeps
  <2>8. ASSUME NEW c \in Custodians, UpdateCustodian(c) PROVE IInv'
    BY <2>8 DEF UpdateCustodian, IInv, TypeOK, RepliesAsked, HoldingAsked, DecidedByAsked,
                KeysOfCustodians, ErasedWithReport
  <2>9. ASSUME NEW c \in Custodians, CreateKeys(c) PROVE IInv'
    <3>1. \A d \in Custodians : keyed[d] => keyed'[d]
      BY <2>9 DEF CreateKeys, IInv, TypeOK
    <3>2. KeysOfCustodians'
      <4>1. \A i \in DOMAIN requests : requests[i].asked \subseteq Custodians
        <5>1. \A i \in DOMAIN requests : requests[i] \in Request
          BY DEF IInv, TypeOK
        <5> QED
          BY <5>1 DEF Request
      <4> QED
        BY <2>9, <3>1, <4>1 DEF CreateKeys, IInv, KeysOfCustodians
    <3> QED
      BY <2>9, <3>2 DEF CreateKeys, IInv, TypeOK, RepliesAsked, HoldingAsked, DecidedByAsked,
                        ErasedWithReport
  <2>10. CASE UNCHANGED vars
    BY <2>10 DEF vars, IInv, TypeOK, RepliesAsked, HoldingAsked, DecidedByAsked,
                 KeysOfCustodians, ErasedWithReport
  <2> QED
    BY <2>1, <2>2, <2>3, <2>4, <2>5, <2>6, <2>7, <2>8, <2>9, <2>10 DEF Next, Administration
<1> QED
  BY <1>1, <1>2, PTL DEF Spec

\* Whatever replies are in flight, a request that was decided was decided by a
\* custodian who had been given the report's key with it, or no custodian existed.
THEOREM Decided == Spec => []DecidedByAsked
BY Invariant, PTL DEF IInv

\* The report's key is sealed only to custodians who have keys.
THEOREM KeysHeld == Spec => []KeysOfCustodians
BY Invariant, PTL DEF IInv

\* The variables keep their types: no handler stores a reply in the place of its
\* author.
THEOREM TypeCorrect == Spec => []TypeOK
BY Invariant, PTL DEF IInv

\* Nothing of the requests outlives the report.
THEOREM Erased == Spec => []ErasedWithReport
BY Invariant, PTL DEF IInv

-----------------------------------------------------------------------------
\* As long as no two transactions overlap, the one in flight is alone and what it
\* has read still holds.
SoloInv ==
    ~overlapped =>
        /\ \A v, w \in Workers : tx[v] # Idle /\ tx[w] # Idle => v = w
        /\ \A w \in Workers : tx[w] # Idle =>
            /\ tx[w].op = "file" => Authorized = {}
            /\ tx[w].op = "reply" => \A i \in DOMAIN requests :
                    i = tx[w].request => requests[i].reply = "pending"

LEMMA StartKeepsSolo ==
    ASSUME IInv, SoloInv, NEW w \in Workers, NEW t, Start(w, t),
           t.op = "file" => Authorized = {},
           t.op = "reply" => \A i \in DOMAIN requests :
                i = t.request => requests[i].reply = "pending"
    PROVE  SoloInv'
<1>1. requests' = requests /\ Authorized' = Authorized
  BY DEF Start, Authorized
<1>2. /\ tx'[w] = t
      /\ \A v \in Workers \ {w} : tx'[v] = tx[v]
  BY DEF Start, IInv, TypeOK
<1>3. ~overlapped' => \A v \in Workers : tx[v] = Idle
  BY DEF Start
<1> QED
  BY <1>1, <1>2, <1>3 DEF SoloInv

\* The last transaction in flight ends.
LEMMA DoneKeepsSolo ==
    ASSUME IInv, SoloInv, NEW w \in Workers, tx[w] # Idle, Done(w)
    PROVE  SoloInv'
<1>1. \A v \in Workers : tx'[v] # Idle => v # w /\ tx[v] # Idle
  BY DEF Done, IInv, TypeOK
<1> QED
  BY <1>1 DEF Done, SoloInv

LEMMA NextSolo ==
    ASSUME IInv, SoloInv, [Next]_vars
    PROVE  SoloInv'
<1>1. ASSUME NEW w \in Workers, NEW by \in Recipients, FileBegin(w, by) PROVE SoloInv'
  BY <1>1, StartKeepsSolo DEF FileBegin, NoneAuthorized
<1>2. ASSUME NEW w \in Workers, NEW c \in Custodians, NEW i \in DOMAIN requests,
             NEW reply \in Replies, ReplyBegin(w, c, i, reply)
      PROVE  SoloInv'
  <2> DEFINE t == [op |-> "reply", by |-> c, request |-> i, reply |-> reply]
  <2>1. t.op = "reply" /\ t.request = i
    OBVIOUS
  <2>2. Start(w, t) /\ requests[i].reply = "pending"
    BY <1>2 DEF ReplyBegin, Unanswered
  <2> HIDE DEF t
  <2> QED
    BY <2>1, <2>2, StartKeepsSolo
<1>3. ASSUME NEW w \in Workers, FileCommit(w) \/ ReplyCommit(w) \/ Abort(w) PROVE SoloInv'
  BY <1>3, DoneKeepsSolo DEF FileCommit, ReplyCommit, Abort
<1>4. CASE DeleteReport
  BY <1>4 DEF DeleteReport, SoloInv, Authorized
<1>5. ASSUME NEW c \in Custodians, DeleteCustodian(c) PROVE SoloInv'
  <2>1. DOMAIN requests' = DOMAIN requests
    BY <1>5 DEF DeleteCustodian
  <2>2. \A i \in DOMAIN requests : requests'[i].reply = requests[i].reply
    <3>1. \A i \in DOMAIN requests : requests[i] \in Request
      BY DEF IInv, TypeOK
    <3> QED
      BY <1>5, <3>1 DEF DeleteCustodian, Request
  <2>3. Authorized' = Authorized
    BY <2>1, <2>2 DEF Authorized
  <2> QED
    BY <1>5, <2>1, <2>2, <2>3 DEF DeleteCustodian, SoloInv
<1>6. ASSUME NEW c \in Custodians, UpdateCustodian(c) \/ CreateKeys(c) PROVE SoloInv'
  BY <1>6 DEF UpdateCustodian, CreateKeys, SoloInv, Authorized
<1>7. CASE UNCHANGED vars
  BY <1>7 DEF vars, SoloInv, Authorized
<1> QED
  BY <1>1, <1>2, <1>3, <1>4, <1>5, <1>6, <1>7 DEF Next, Administration

\* What a step does to the replies when no transactions overlap.
LEMMA SoloStep ==
    ASSUME IInv, SoloInv, [Next]_vars, ~overlapped, live'
    PROVE  /\ \A i \in Authorized : i \in Authorized'
           /\ Disclosed => Disclosed'
<1>0. requests \in Seq(Request) /\ \A i \in DOMAIN requests : requests[i] \in Request
  BY DEF IInv, TypeOK
<1>1. ASSUME NEW w \in Workers, FileCommit(w) PROVE Authorized = {}
  <2>1. tx[w].op = "file" /\ tx[w] # Idle
    BY <1>1 DEF FileCommit
  <2> QED
    BY <2>1 DEF SoloInv
<1>2. ASSUME Authorized = {}
      PROVE  \A i \in Authorized : i \in Authorized' /\ ~Disclosed
  BY <1>0, <1>2 DEF Authorized, Disclosed
<1>3. ASSUME Authorized = {} PROVE ~Disclosed
  BY <1>0, <1>3 DEF Authorized, Disclosed
<1>4. ASSUME DOMAIN requests' = DOMAIN requests, Len(requests') = Len(requests),
             \A i \in Authorized : requests'[i].reply = "authorized"
      PROVE  (\A i \in Authorized : i \in Authorized') /\ (Disclosed => Disclosed')
  BY <1>0, <1>4 DEF Authorized, Disclosed
<1>5. ASSUME requests' = requests
      PROVE  (\A i \in Authorized : i \in Authorized') /\ (Disclosed => Disclosed')
  BY <1>4, <1>5 DEF Authorized
<1>6. ASSUME NEW w \in Workers, ReplyCommit(w)
      PROVE  (\A i \in Authorized : i \in Authorized') /\ (Disclosed => Disclosed')
  <2> DEFINE i == tx[w].request
  <2>1. i \in DOMAIN requests /\ requests[i].reply = "pending"
    BY <1>6 DEF ReplyCommit, SoloInv
  <2>2. requests' = [requests EXCEPT ![i] = Answered(requests[i], tx[w])]
    BY <1>6 DEF ReplyCommit
  <2>3. \A j \in Authorized : requests'[j].reply = "authorized"
    BY <2>1, <2>2 DEF Authorized
  <2>4. DOMAIN requests' = DOMAIN requests /\ Len(requests') = Len(requests)
    BY <1>0, <2>1, <2>2
  <2> QED
    BY <1>4, <2>3, <2>4
<1>7. ASSUME NEW c \in Custodians, DeleteCustodian(c)
      PROVE  (\A i \in Authorized : i \in Authorized') /\ (Disclosed => Disclosed')
  <2>1. DOMAIN requests' = DOMAIN requests /\ Len(requests') = Len(requests)
    BY <1>0, <1>7 DEF DeleteCustodian
  <2>2. \A i \in DOMAIN requests : requests'[i].reply = requests[i].reply
    BY <1>0, <1>7 DEF DeleteCustodian, Request
  <2> QED
    BY <1>4, <2>1, <2>2 DEF Authorized
<1> QED
  BY <1>1, <1>2, <1>3, <1>5, <1>6, <1>7
     DEF Next, FileBegin, ReplyBegin, Start, Abort, Administration, DeleteReport, UpdateCustodian,
         CreateKeys, vars

LEMMA SoloInvariant == Spec => [](IInv /\ SoloInv)
<1>1. Init => SoloInv
  BY DEF Init, SoloInv
<1>2. IInv /\ SoloInv /\ [Next]_vars => SoloInv'
  BY NextSolo
<1> QED
  BY Invariant, <1>1, <1>2, PTL DEF Spec

\* An authorization is overwritten only where transactions overlap.
THEOREM Definitive == Spec => AuthorizationIsDefinitive
<1>1. IInv /\ SoloInv /\ [Next]_vars
          => [~overlapped => \A i \in Authorized : live' => i \in Authorized']_vars
  BY SoloStep
<1> QED
  BY SoloInvariant, <1>1, PTL DEF Spec, AuthorizationIsDefinitive

\* A disclosed identity is hidden again only where transactions overlap.
THEOREM DisclosureFinal == Spec => DisclosureIsFinal
<1>1. IInv /\ SoloInv /\ [Next]_vars
          => [~overlapped => (Disclosed /\ live' => Disclosed')]_vars
  BY SoloStep
<1> QED
  BY SoloInvariant, <1>1, PTL DEF Spec, DisclosureIsFinal

-----------------------------------------------------------------------------
(* Notification: nobody misses a comment *)

NewsTyped ==
    /\ now \in Nat
    /\ rtip \in [Recipients -> [new : BOOLEAN, access : Nat, notified : Nat]]
    /\ comment \in [News -> [at : Nat, author : Recipients \cup {Whistleblower}, new : BOOLEAN, personal : BOOLEAN]]

\* Nothing is dated later than now.
Dated ==
    /\ \A r \in Recipients : rtip[r].access <= now
    /\ \A c \in News : comment[c].at <= now

\* The job at work has read the rows of the recipients as they still are, but for those
\* who opened the report meanwhile, and looked at those it tells and those it told before.
JobSees ==
    job.at # "idle" =>
      /\ job.now \in Nat /\ job.now <= now
      /\ job.told \subseteq Recipients
      /\ \A r \in Recipients \ overlap : job.rows[r] = rtip[r] /\ rtip[r].access < job.now
      /\ \A r \in job.looked : r \in job.told \/ Notify!Waiting(job.rows[r])

NewsInv == NewsTyped /\ Dated /\ JobSees /\ Notify!NobodyMissesNews

LEMMA NewsInitially == Notify!Init => NewsInv
  BY DEF Notify!Init, NewsInv, NewsTyped, Dated, JobSees, Notify!NobodyMissesNews, Notify!ToBeTold,
     Notify!NoJob, Notify!NoComment, Notify!Never

\* A recipient is aware of a comment that concerns him.
Told(r, c) == comment[c].at # 0 /\ Notify!Concerns(c, r) => Notify!Aware(r, c)

LEMMA EverybodyTold ==
    Notify!NobodyMissesNews <=> \A r \in Recipients \ (overlap \cup failed), c \in News : Told(r, c)
  BY DEF Notify!NobodyMissesNews, Notify!ToBeTold, Told

\* Who opens the report knows all there is.
LEMMA OpenKeeps ==
    ASSUME NewsInv, NEW r \in Recipients, Notify!Open(r)
    PROVE  NewsInv'
<1> USE DEF NewsInv
<1>1. /\ now' = now + 1 /\ rtip' = [rtip EXCEPT ![r].access = now'] /\ UNCHANGED <<comment, job, mailed, failed>>
      /\ overlap' = IF job.at = "idle" THEN overlap ELSE overlap \cup {r}
  BY DEF Notify!Open, Notify!Later
<1>2. NewsTyped'
  BY <1>1 DEF NewsTyped
<1>3. Dated'
  BY <1>1 DEF NewsTyped, Dated
<1>4. JobSees'
  BY <1>1 DEF NewsTyped, JobSees
<1>5. Notify!NobodyMissesNews'
  <2> SUFFICES ASSUME NEW x \in Recipients \ (overlap' \cup failed'), NEW c \in News PROVE Told(x, c)'
    BY DEF Notify!NobodyMissesNews, Notify!ToBeTold, Told
  <2>1. Told(x, c)
    BY <1>1, EverybodyTold
  <2>2. comment[c].at < now' /\ now' \in Nat
    BY <1>1 DEF NewsTyped, Dated
  <2> QED
    BY <1>1, <2>1, <2>2 DEF NewsTyped, Told, Notify!Concerns, Notify!Aware
<1> QED
  BY <1>2, <1>3, <1>4, <1>5

LEMMA WriteKeeps ==
    ASSUME NewsInv, NEW c \in News, NEW a \in Recipients \cup {Whistleblower}, NEW p \in BOOLEAN,
           Notify!Write(c, a, p)
    PROVE  NewsInv'
<1> USE DEF NewsInv
<1>1. /\ now' = now + 1 /\ UNCHANGED <<job, mailed, failed>>
      /\ comment' = [comment EXCEPT ![c] = [at |-> now', author |-> a, new |-> TRUE, personal |-> p]]
      /\ \/ UNCHANGED <<rtip, overlap>>
         \/ /\ a \in Recipients /\ rtip' = [rtip EXCEPT ![a].access = now']
            /\ overlap' = IF job.at = "idle" THEN overlap ELSE overlap \cup {a}
  BY DEF Notify!Write, Notify!Later
<1>2. NewsTyped'
  BY <1>1 DEF NewsTyped
<1>3. Dated'
  BY <1>1 DEF NewsTyped, Dated
<1>4. JobSees'
  BY <1>1 DEF NewsTyped, JobSees
<1>5. Notify!NobodyMissesNews'
  <2> SUFFICES ASSUME NEW x \in Recipients \ (overlap' \cup failed'), NEW d \in News PROVE Told(x, d)'
    BY DEF Notify!NobodyMissesNews, Notify!ToBeTold, Told
  <2>1. Told(x, d)
    BY <1>1, EverybodyTold
  <2>2. comment[d].at < now' /\ now' \in Nat
    BY <1>1 DEF NewsTyped, Dated
  <2>3. CASE d = c
    BY <1>1, <2>3 DEF NewsTyped, Told, Notify!Aware
  <2>4. CASE d # c
    BY <1>1, <2>1, <2>2, <2>4 DEF NewsTyped, Told, Notify!Concerns, Notify!Aware
  <2> QED
    BY <2>3, <2>4
<1> QED
  BY <1>2, <1>3, <1>4, <1>5

LEMMA JobBeginKeeps ==
    ASSUME NewsInv, Notify!JobBegin
    PROVE  NewsInv'
<1> USE DEF NewsInv
<1>1. /\ now' = now + 1 /\ UNCHANGED <<rtip, comment, mailed, overlap, failed>>
  BY DEF Notify!JobBegin, Notify!Later
<1>2. PICK broken, listed, told :
        /\ told \subseteq Recipients
        /\ job' = [at |-> "comments", now |-> now', broken |-> broken, rows |-> rtip,
                   listed |-> listed, told |-> told,
                   looked |-> {r \in listed : Notify!Waiting(rtip[r])} \cup told]
  BY DEF Notify!JobBegin
<1>3. NewsTyped'
  BY <1>1 DEF NewsTyped
<1>4. Dated'
  BY <1>1 DEF NewsTyped, Dated
<1>5. JobSees'
  <2>1. \A r \in Recipients : rtip[r].access < now'
    BY <1>1 DEF NewsTyped, Dated
  <2> QED
    BY <1>1, <1>2, <2>1 DEF NewsTyped, JobSees, Notify!Waiting
<1>6. Notify!NobodyMissesNews'
  BY <1>1 DEF Notify!NobodyMissesNews, Notify!ToBeTold, Notify!Concerns, Notify!Aware
<1> QED
  BY <1>3, <1>4, <1>5, <1>6

\* Who is not told has a mail already, or is one the mail could not be made for.
LEMMA JobEndKeeps ==
    ASSUME NewsInv, Notify!JobEnd
    PROVE  NewsInv'
<1> USE DEF NewsInv
<1>1. /\ job.at # "idle" /\ job' = Notify!NoJob /\ UNCHANGED <<now, overlap>>
      /\ rtip' = [r \in Recipients |->
            [rtip[r] EXCEPT !.new = @ /\ r \notin job.looked,
                            !.notified = IF r \in job.told \cup Notify!ToldNow THEN job.now ELSE @]]
      /\ comment' = [c \in News |-> IF c \in Notify!New /\ Notify!Looked(c)
                                    THEN [comment[c] EXCEPT !.new = FALSE] ELSE comment[c]]
      /\ failed' = failed \cup {r \in job.broken : \E c \in Notify!New : ~Notify!Needless(c, r)}
  BY DEF Notify!JobEnd
<1>2. \A r \in Recipients :
        /\ rtip[r] \in [new : BOOLEAN, access : Nat, notified : Nat]
        /\ rtip'[r].access = rtip[r].access
        /\ rtip'[r].notified = IF r \in job.told \cup Notify!ToldNow THEN job.now ELSE rtip[r].notified
        /\ rtip'[r].new = (rtip[r].new /\ r \notin job.looked)
  BY <1>1 DEF NewsTyped
<1>3. \A c \in News :
        /\ comment'[c].at = comment[c].at /\ comment'[c].author = comment[c].author
        /\ comment'[c].personal = comment[c].personal
        /\ comment'[c].new \/ ~comment[c].new \/ c \in Notify!New
  BY <1>1 DEF NewsTyped, Notify!New
<1>4. job.now \in Nat /\ job.now <= now
  BY <1>1 DEF JobSees
<1>5. NewsTyped'
  <2>1. \A r \in Recipients : rtip'[r] \in [new : BOOLEAN, access : Nat, notified : Nat]
    BY <1>1, <1>2, <1>4
  <2>2. rtip' \in [Recipients -> [new : BOOLEAN, access : Nat, notified : Nat]]
    BY <1>1, <2>1
  <2>3. comment' \in [News -> [at : Nat, author : Recipients \cup {Whistleblower}, new : BOOLEAN, personal : BOOLEAN]]
    BY <1>1 DEF NewsTyped
  <2> QED
    BY <1>1, <2>2, <2>3 DEF NewsTyped
<1>6. Dated'
  BY <1>1, <1>2, <1>3 DEF Dated
<1>7. JobSees'
  BY <1>1 DEF JobSees, Notify!NoJob
<1>8. Notify!NobodyMissesNews'
  <2> SUFFICES ASSUME NEW r \in Recipients \ (overlap' \cup failed'), NEW c \in News,
                      comment'[c].at # 0, Notify!Concerns(c, r)'
               PROVE  Notify!Aware(r, c)'
    BY DEF Notify!NobodyMissesNews, Notify!ToBeTold
  <2>1. r \in Recipients /\ r \notin overlap /\ r \notin failed
    BY <1>1
  <2>2. comment[c].at # 0 /\ Notify!Concerns(c, r) /\ Notify!Aware(r, c)
    BY <1>3, <2>1, EverybodyTold DEF Told, Notify!Concerns
  <2>3. job.rows[r] = rtip[r] /\ rtip[r].access < job.now
    BY <1>1, <2>1 DEF JobSees
  <2>4. Notify!Row(r) = rtip[r]
    BY <2>3 DEF Notify!Row
  <2>5. CASE r \in job.told \cup Notify!ToldNow
    BY <1>2, <1>4, <2>1, <2>3, <2>5 DEF Notify!Aware
  <2>6. CASE Notify!Waiting(rtip[r]) /\ r \notin job.told \cup Notify!ToldNow
    BY <1>2, <2>1, <2>6 DEF Notify!Waiting, Notify!Aware
  <2>7. CASE ~Notify!Waiting(rtip[r]) /\ r \notin job.told \cup Notify!ToldNow
    <3>1. ~Notify!Needless(c, r)
      BY <2>2, <2>4, <2>7 DEF Notify!Needless
    <3>2. c \notin Notify!New
      BY <1>1, <2>1, <2>7, <3>1 DEF Notify!ToldNow
    <3>3. r \notin job.looked
      BY <1>1, <2>3, <2>7 DEF JobSees
    <3>4. rtip[r].new \/ rtip[r].access > comment[c].at \/ rtip[r].notified > rtip[r].access
      BY <2>2, <3>2 DEF Notify!Aware, Notify!New
    <3>5. rtip'[r].new \/ rtip'[r].access > comment'[c].at \/ rtip'[r].notified > rtip'[r].access
      BY <1>2, <1>3, <2>1, <2>7, <3>3, <3>4
    <3> QED
      BY <3>5 DEF Notify!Aware
  <2> QED
    BY <2>5, <2>6, <2>7
<1> QED
  BY <1>5, <1>6, <1>7, <1>8

LEMMA NewsStep == NewsInv /\ [Notify!Next]_notification => NewsInv'
<1> SUFFICES ASSUME NewsInv, [Notify!Next]_notification PROVE NewsInv'
  OBVIOUS
<1>1. CASE UNCHANGED notification
  BY <1>1 DEF notification, NewsInv, NewsTyped, Dated, JobSees, Notify!Waiting, Notify!NobodyMissesNews,
     Notify!ToBeTold, Notify!Concerns, Notify!Aware
<1>2. CASE Notify!JobAbort
  BY <1>2 DEF Notify!JobAbort, Notify!NoJob, NewsInv, NewsTyped, Dated, JobSees, Notify!Waiting,
     Notify!NobodyMissesNews, Notify!ToBeTold, Notify!Concerns, Notify!Aware
<1> QED
  BY <1>1, <1>2, OpenKeeps, WriteKeeps, JobBeginKeeps, JobEndKeeps DEF Notify!Next

\* Nobody misses a comment that is for him, whenever he visits, others write or the job
\* runs, but for those who visit while the job is at work or whose mail could not be made.
THEOREM NewsReach == MCSpec => []NobodyMissesNews
<1>1. MCInit => NewsInv
  BY NewsInitially DEF MCInit
<1>2. NewsInv /\ [MCNext]_allVars => NewsInv'
  <2> SUFFICES ASSUME NewsInv, [MCNext]_allVars PROVE NewsInv'
    OBVIOUS
  <2>1. [Notify!Next]_notification
    BY DEF MCNext, allVars
  <2> QED
    BY <2>1, NewsStep
<1>3. NewsInv => NobodyMissesNews
  BY DEF NewsInv, NobodyMissesNews
<1> QED
  BY <1>1, <1>2, <1>3, PTL DEF MCSpec
-----------------------------------------------------------------------------
(* Submission: reports are numbered without gaps and stored as submitted *)

Numbers == {r.number : r \in reports}

\* What a stored report promises to its author.
Whole(r) ==
    /\ r.identity = r.given
    /\ r.key = r.receipt
    /\ r.uploaded \subseteq r.files \/ (r.again /\ role[r.by] = "receiver")

Numbered(t) == t.step \in {"store", "commit"} /\ t.op # "additional"
Flushed(t) == t.step = "commit" /\ t.op # "additional"

\* What is known of a transaction under way: the number it counted follows a number
\* given before, though the counter may have changed since; its schema is in the archive
\* or goes there with it, unless the Cleaning job came by; what it has flushed is whole
\* and holds the lock.
Promised(s, t) ==
    /\ t.op # "additional" => (t.op = "insert" <=> role[s] = "receiver") /\ t.receipt \in Receipts
    /\ t.step \in {"number", "store"} => t.op # "additional"
    /\ role[s] # "receiver" => t.uploaded \subseteq held[s]
    /\ t.op = "additional" => t.uploaded = {}
    /\ t.step # "commit" => t.uploaded \subseteq held[s] \/ t.again
    /\ t.step # "form" => t.form \in Forms
    /\ t.step \in {"number", "store", "commit"} => t.form \in archive \/ t.adds \/ t.cleaned
    /\ Numbered(t) => t.number \in Nat \ {0} /\ (t.number = 1 \/ t.number - 1 \in Filing!Given)
    /\ Flushed(t) => /\ lock = s
                     /\ t.number \notin Numbers
                     /\ t.row \in Filing!Report /\ t.row.number = t.number
                     /\ t.row.id \notin Filing!Ids /\ t.row.id <= stored
                     /\ t.row.answers = {t.form} /\ Whole(t.row)

\* No number is skipped, and the counter is one of those given.
NoGaps ==
    /\ counter = 0 \/ counter \in Filing!Given
    /\ \A n \in Filing!Given : n \in Nat \ {0} /\ 1 .. n \subseteq Filing!Given

\* An identifier is of one report.
Identified ==
    \A r \in reports : r.id <= stored /\ \A x \in reports : x.id = r.id => x = r

FilingInv ==
    /\ Filing!TypeOK
    /\ \A s \in Sessions : txs[s] # None => Promised(s, txs[s])
    /\ NoGaps
    /\ Identified
    /\ Filing!SchemaKept
    /\ \A r \in reports : Whole(r)

LEMMA NoneApart == None \notin Sessions
  BY RequestsAssumption DEF Filing!SubmissionAssumption

LEMMA FilingInitially == Filing!Init => FilingInv
  BY DEF Filing!Init, FilingInv, Filing!TypeOK, NoGaps, Identified, Filing!Given, Filing!SchemaKept

\* A transaction that goes on, or is given up, without a commit.
LEMMA GoesKeeps ==
    ASSUME FilingInv, NEW s \in Sessions, NEW t \in Filing!Tx \cup {None}, Filing!Goes(s, t),
           lock' \in Sessions \cup {None},
           \A x \in Sessions \ {s} : lock = x => lock' = x,
           t # None => Promised(s, t)'
    PROVE  FilingInv'
<1> USE DEF FilingInv
<1>1. /\ txs' = [txs EXCEPT ![s] = t]
      /\ UNCHANGED <<role, held, counter, reports, archive, freed, orphans, calls, stored>>
  BY DEF Filing!Goes, Filing!database, Filing!bounds
<1>2. Filing!TypeOK'
  BY <1>1 DEF Filing!TypeOK
<1>3. Filing!Given' = Filing!Given /\ Numbers' = Numbers /\ Filing!Ids' = Filing!Ids /\ \A r : Whole(r)' <=> Whole(r)
  BY <1>1 DEF Filing!Given, Numbers, Filing!Ids, Whole
<1>4. ASSUME NEW x \in Sessions, txs'[x] # None PROVE Promised(x, txs[x])'
  <2>1. CASE x = s
    BY <1>1, <1>4, <2>1 DEF Filing!TypeOK
  <2>2. CASE x # s
    <3>1. txs'[x] = txs[x] /\ Promised(x, txs[x])
      BY <1>1, <1>4, <2>2
    <3> QED
      BY <1>1, <1>3, <2>2, <3>1 DEF Promised
  <2> QED
    BY <2>1, <2>2
<1>5. (NoGaps /\ Identified)'
  BY <1>1, <1>3 DEF NoGaps, Identified
<1>6. Filing!SchemaKept'
  BY <1>1 DEF Filing!SchemaKept
<1>7. \A r \in reports' : Whole(r)'
  BY <1>1, <1>3
<1> QED
  BY <1>2, <1>4, <1>5, <1>6, <1>7

LEMMA LeavesKeeps ==
    ASSUME FilingInv, NEW s \in Sessions, Filing!Leaves(s, None)
    PROVE  FilingInv'
<1>1. lock' \in Sessions \cup {None} /\ \A x \in Sessions \ {s} : lock = x => lock' = x
  BY DEF Filing!Leaves, FilingInv, Filing!TypeOK
<1>2. Filing!Goes(s, None)
  BY DEF Filing!Leaves
<1> QED
  BY <1>1, <1>2, GoesKeeps

\* A request that comes in.
LEMMA CallKeeps ==
    ASSUME FilingInv, NEW s \in Sessions, NEW t \in Filing!Tx, Filing!Call(s, t),
           t.step = "form", t.uploaded \subseteq held[s], t.op = "additional" => t.uploaded = {},
           t.op # "additional" => (t.op = "insert" <=> role[s] = "receiver") /\ t.receipt \in Receipts
    PROVE  FilingInv'
<1> USE DEF FilingInv
<1>1. /\ txs' = [txs EXCEPT ![s] = t] /\ calls' = calls + 1
      /\ UNCHANGED <<role, held, counter, reports, archive, freed, orphans, lock, stored>>
  BY DEF Filing!Call, Filing!database
<1>2. Filing!TypeOK'
  BY <1>1 DEF Filing!TypeOK
<1>3. Filing!Given' = Filing!Given /\ Numbers' = Numbers /\ Filing!Ids' = Filing!Ids /\ \A r : Whole(r)' <=> Whole(r)
  BY <1>1 DEF Filing!Given, Numbers, Filing!Ids, Whole
<1>4. ASSUME NEW x \in Sessions, txs'[x] # None PROVE Promised(x, txs[x])'
  <2>1. CASE x = s
    <3>1. txs'[x] = t
      BY <1>1, <2>1 DEF Filing!TypeOK
    <3> QED
      BY <1>1, <2>1, <3>1 DEF Promised, Numbered, Flushed
  <2>2. CASE x # s
    <3>1. txs'[x] = txs[x] /\ Promised(x, txs[x])
      BY <1>1, <1>4, <2>2
    <3> QED
      BY <1>1, <1>3, <3>1 DEF Promised
  <2> QED
    BY <2>1, <2>2
<1>5. (NoGaps /\ Identified)'
  BY <1>1, <1>3 DEF NoGaps, Identified
<1>6. Filing!SchemaKept'
  BY <1>1 DEF Filing!SchemaKept
<1>7. \A r \in reports' : Whole(r)'
  BY <1>1, <1>3
<1> QED
  BY <1>2, <1>4, <1>5, <1>6, <1>7

LEMMA RequestsKeep ==
    ASSUME FilingInv, NEW s \in Sessions,
           \/ \E receipt \in Receipts, identity \in {"none", "given"} : Filing!Submit(s, receipt, identity)
           \/ \E receipt \in Receipts : Filing!Insert(s, receipt)
           \/ \E r \in reports : Filing!Additional(s, r)
    PROVE  FilingInv'
<1>1. Filing!TypeOK
  BY DEF FilingInv
<1>2. ASSUME NEW receipt \in Receipts, NEW identity \in {"none", "given"}, Filing!Submit(s, receipt, identity)
      PROVE  FilingInv'
  <2>1. PICK t : t = [Filing!Asked EXCEPT !.receipt = receipt, !.identity = identity, !.uploaded = held[s]]
    OBVIOUS
  <2>2. t \in Filing!Tx /\ t.step = "form" /\ t.uploaded = held[s] /\ t.op = "submit" /\ t.receipt = receipt
    BY <1>1, <2>1 DEF Filing!Asked, Filing!Tx, Filing!TypeOK
  <2>3. Filing!Call(s, t) /\ role[s] # "receiver"
    BY <1>2, <2>1 DEF Filing!Submit
  <2> QED
    BY <2>2, <2>3, CallKeeps
<1>3. ASSUME NEW receipt \in Receipts, Filing!Insert(s, receipt)
      PROVE  FilingInv'
  <2>1. PICK t : t = [Filing!Asked EXCEPT !.op = "insert", !.receipt = receipt, !.uploaded = held[s]]
    OBVIOUS
  <2>2. t \in Filing!Tx /\ t.step = "form" /\ t.uploaded = held[s] /\ t.op = "insert" /\ t.receipt = receipt
    BY <1>1, <2>1 DEF Filing!Asked, Filing!Tx, Filing!TypeOK
  <2>3. Filing!Call(s, t) /\ role[s] = "receiver"
    BY <1>3, <2>1 DEF Filing!Insert
  <2> QED
    BY <2>2, <2>3, CallKeeps
<1>4. ASSUME NEW r \in reports, Filing!Additional(s, r)
      PROVE  FilingInv'
  <2>1. PICK t : t = [Filing!Asked EXCEPT !.op = "additional", !.report = r.id]
    OBVIOUS
  <2>2. r.id \in Nat
    BY <1>1 DEF Filing!TypeOK, Filing!Report
  <2>3. t \in Filing!Tx /\ t.step = "form" /\ t.uploaded = {} /\ t.op = "additional"
    BY <2>1, <2>2 DEF Filing!Asked, Filing!Tx
  <2>4. Filing!Call(s, t)
    BY <1>4, <2>1 DEF Filing!Additional
  <2> QED
    BY <2>3, <2>4, CallKeeps
<1> QED
  BY <1>2, <1>3, <1>4

LEMMA UploadKeeps ==
    ASSUME FilingInv, NEW s \in Sessions, NEW f \in Files, Filing!Upload(s, f)
    PROVE  FilingInv'
<1> USE DEF FilingInv
<1>1. /\ held' = [held EXCEPT ![s] = @ \cup {f}] /\ calls' = calls + 1
      /\ UNCHANGED <<role, counter, reports, archive, freed, orphans, lock, txs, stored>>
  BY DEF Filing!Upload, Filing!database
<1>2. Filing!TypeOK'
  BY <1>1 DEF Filing!TypeOK
<1>3. Filing!Given' = Filing!Given /\ Numbers' = Numbers /\ Filing!Ids' = Filing!Ids /\ \A r : Whole(r)' <=> Whole(r)
  BY <1>1 DEF Filing!Given, Numbers, Filing!Ids, Whole
<1>4. \A x \in Sessions : held[x] \subseteq held'[x]
  BY <1>1 DEF Filing!TypeOK
<1>5. ASSUME NEW x \in Sessions, txs'[x] # None PROVE Promised(x, txs[x])'
  <2>1. txs'[x] = txs[x] /\ Promised(x, txs[x])
    BY <1>1, <1>5
  <2> QED
    BY <1>1, <1>3, <1>4, <2>1 DEF Promised
<1>6. (NoGaps /\ Identified)'
  BY <1>1, <1>3 DEF NoGaps, Identified
<1>7. Filing!SchemaKept'
  BY <1>1 DEF Filing!SchemaKept
<1>8. \A r \in reports' : Whole(r)'
  BY <1>1, <1>3
<1> QED
  BY <1>2, <1>5, <1>6, <1>7, <1>8

LEMMA ComposeKeeps ==
    ASSUME FilingInv, NEW s \in Sessions, Filing!Compose(s)
    PROVE  FilingInv'
<1> USE DEF FilingInv
<1>1. PICK t : t = IF txs[s] = None THEN None ELSE [txs[s] EXCEPT !.again = TRUE]
  OBVIOUS
<1>2. /\ role[s] = "receiver" /\ held' = [held EXCEPT ![s] = {}] /\ calls' = calls + 1
      /\ txs' = [txs EXCEPT ![s] = t]
      /\ UNCHANGED <<role, counter, reports, archive, freed, orphans, lock, stored>>
  BY <1>1 DEF Filing!Compose, Filing!database
<1>3. t \in Filing!Tx \cup {None}
  <2>1. CASE txs[s] = None
    BY <1>1, <2>1
  <2>2. CASE txs[s] # None
    <3>1. txs[s] \in Filing!Tx /\ t = [txs[s] EXCEPT !.again = TRUE]
      BY <1>1, <2>2 DEF Filing!TypeOK
    <3> QED
      BY <3>1 DEF Filing!Tx
  <2> QED
    BY <2>1, <2>2
<1>4. Filing!TypeOK'
  BY <1>2, <1>3 DEF Filing!TypeOK
<1>5. Filing!Given' = Filing!Given /\ Numbers' = Numbers /\ Filing!Ids' = Filing!Ids /\ \A r : Whole(r)' <=> Whole(r)
  BY <1>2 DEF Filing!Given, Numbers, Filing!Ids, Whole
<1>6. ASSUME NEW x \in Sessions, txs'[x] # None PROVE Promised(x, txs[x])'
  <2>1. CASE x = s
    <3>1. txs'[x] = t /\ txs[x] # None /\ Promised(x, txs[x]) /\ txs[x] \in Filing!Tx
      BY <1>1, <1>2, <1>6, <2>1 DEF Filing!TypeOK
    <3>2. /\ t.again /\ t.op = txs[x].op /\ t.step = txs[x].step /\ t.form = txs[x].form
          /\ t.adds = txs[x].adds /\ t.cleaned = txs[x].cleaned /\ t.number = txs[x].number /\ t.row = txs[x].row
          /\ t.uploaded = txs[x].uploaded /\ t.receipt = txs[x].receipt
      BY <1>1, <2>1, <3>1 DEF Filing!Tx
    <3> QED
      BY <1>2, <1>5, <2>1, <3>1, <3>2 DEF Promised, Numbered, Flushed
  <2>2. CASE x # s
    <3>1. txs'[x] = txs[x] /\ held'[x] = held[x] /\ Promised(x, txs[x])
      BY <1>2, <1>6, <2>2 DEF Filing!TypeOK
    <3> QED
      BY <1>2, <1>5, <3>1 DEF Promised
  <2> QED
    BY <2>1, <2>2
<1>7. (NoGaps /\ Identified)'
  BY <1>2, <1>5 DEF NoGaps, Identified
<1>8. Filing!SchemaKept'
  BY <1>2 DEF Filing!SchemaKept
<1>9. \A r \in reports' : Whole(r)'
  BY <1>2, <1>5
<1> QED
  BY <1>4, <1>6, <1>7, <1>8, <1>9

\* A step of a transaction that reads, or flushes a schema.
LEMMA ReadsKeep ==
    ASSUME FilingInv, NEW s \in Sessions,
           \/ \E form \in Forms : Filing!ReadForm(s, form)
           \/ Filing!LookUpSchema(s)
           \/ Filing!ReadCounter(s)
    PROVE  FilingInv'
<1>1. /\ txs[s] # None /\ UNCHANGED lock /\ lock \in Sessions \cup {None}
      /\ counter \in Nat /\ (counter = 0 \/ counter \in Filing!Given)
  BY DEF Filing!ReadForm, Filing!LookUpSchema, Filing!ReadCounter, Filing!At, FilingInv, Filing!TypeOK, NoGaps
<1>2. txs[s] \in Filing!Tx /\ Promised(s, txs[s])
  BY <1>1 DEF FilingInv, Filing!TypeOK
<1>3. ASSUME NEW t \in Filing!Tx, Filing!Goes(s, t), Promised(s, t)
      PROVE  FilingInv'
  <2>1. Promised(s, t)'
    <3>1. UNCHANGED <<role, held, reports, archive, freed, stored>>
      BY <1>3 DEF Filing!Goes, Filing!database, Filing!bounds
    <3> QED
      BY <1>1, <1>3, <3>1 DEF Promised, Numbers, Filing!Ids, Filing!Given, Whole
  <2> QED
    BY <1>1, <1>3, <2>1, GoesKeeps
<1>4. ASSUME NEW form \in Forms, Filing!ReadForm(s, form)
      PROVE  FilingInv'
  <2>1. PICK t : t = [txs[s] EXCEPT !.form = form, !.step = "archive"]
    OBVIOUS
  <2>2. /\ t \in Filing!Tx /\ t.step = "archive" /\ t.form = form
        /\ t.op = txs[s].op /\ t.uploaded = txs[s].uploaded /\ t.again = txs[s].again /\ t.receipt = txs[s].receipt
    BY <1>2, <2>1 DEF Filing!Tx
  <2>3. Filing!Goes(s, t) /\ txs[s].step = "form"
    BY <1>4, <2>1 DEF Filing!ReadForm, Filing!At
  <2>4. Promised(s, t)
    BY <1>2, <2>2, <2>3 DEF Promised, Numbered, Flushed
  <2> QED
    BY <1>3, <2>2, <2>3, <2>4
<1>5. ASSUME Filing!LookUpSchema(s)
      PROVE  FilingInv'
  <2>1. PICK t : t = [txs[s] EXCEPT !.step = IF txs[s].form \in archive THEN Filing!AfterSchema(s) ELSE "schema"]
    OBVIOUS
  <2>2. Filing!AfterSchema(s) = IF txs[s].op = "additional" THEN "commit" ELSE "number"
    BY DEF Filing!AfterSchema
  <2>3. /\ t \in Filing!Tx /\ t.form = txs[s].form
        /\ t.step = IF txs[s].form \in archive THEN Filing!AfterSchema(s) ELSE "schema"
        /\ t.op = txs[s].op /\ t.uploaded = txs[s].uploaded /\ t.again = txs[s].again /\ t.receipt = txs[s].receipt
    BY <1>2, <2>1, <2>2 DEF Filing!Tx
  <2>4. Filing!Goes(s, t) /\ txs[s].step = "archive"
    BY <1>5, <2>1 DEF Filing!LookUpSchema, Filing!At
  <2>5. Promised(s, t)
    BY <1>2, <2>2, <2>3, <2>4 DEF Promised, Numbered, Flushed
  <2> QED
    BY <1>3, <2>3, <2>4, <2>5
<1>6. ASSUME Filing!ReadCounter(s)
      PROVE  FilingInv'
  <2>0. PICK n \in Nat : n = counter + 1
    BY <1>1
  <2>1. PICK t : t = [txs[s] EXCEPT !.number = n, !.step = "store"]
    OBVIOUS
  <2>2. /\ t \in Filing!Tx /\ t.step = "store" /\ t.number = n /\ t.form = txs[s].form
        /\ t.op = txs[s].op /\ t.uploaded = txs[s].uploaded /\ t.again = txs[s].again /\ t.receipt = txs[s].receipt
        /\ t.adds = txs[s].adds /\ t.cleaned = txs[s].cleaned
    BY <1>2, <2>1 DEF Filing!Tx
  <2>3. Filing!Goes(s, t) /\ txs[s].step = "number"
    BY <1>6, <2>0, <2>1 DEF Filing!ReadCounter, Filing!At
  <2>4. t.number \in Nat \ {0} /\ (t.number = 1 \/ t.number - 1 \in Filing!Given)
    BY <1>1, <2>0, <2>2
  <2>5. Promised(s, t)
    BY <1>2, <2>2, <2>3, <2>4 DEF Promised, Numbered, Flushed
  <2> QED
    BY <1>3, <2>2, <2>3, <2>5
<1> QED
  BY <1>4, <1>5, <1>6

LEMMA AddSchemaKeeps ==
    ASSUME FilingInv, NEW s \in Sessions, Filing!AddSchema(s)
    PROVE  FilingInv'
<1>1. txs[s] # None /\ txs[s].step = "schema" /\ lock \in {None, s}
  BY DEF Filing!AddSchema, Filing!At, Filing!Free
<1>2. txs[s] \in Filing!Tx /\ Promised(s, txs[s])
  BY <1>1 DEF FilingInv, Filing!TypeOK
<1>3. CASE txs[s].form \in archive
  BY <1>3, LeavesKeeps DEF Filing!AddSchema
<1>4. CASE txs[s].form \notin archive
  <2>1. PICK t : t = [txs[s] EXCEPT !.adds = TRUE, !.step = Filing!AfterSchema(s)]
    OBVIOUS
  <2>2. Filing!AfterSchema(s) = IF txs[s].op = "additional" THEN "commit" ELSE "number"
    BY DEF Filing!AfterSchema
  <2>3. /\ t \in Filing!Tx /\ t.form = txs[s].form /\ t.adds
        /\ t.step = IF txs[s].op = "additional" THEN "commit" ELSE "number"
        /\ t.op = txs[s].op /\ t.uploaded = txs[s].uploaded /\ t.again = txs[s].again /\ t.receipt = txs[s].receipt
    BY <1>2, <2>1, <2>2 DEF Filing!Tx
  <2>4. Filing!Goes(s, t) /\ lock' = s
    BY <1>4, <2>1 DEF Filing!AddSchema
  <2>5. Promised(s, t)'
    <3>1. UNCHANGED <<role, held>>
      BY <2>4 DEF Filing!Goes
    <3> QED
      BY <1>1, <1>2, <2>3, <3>1 DEF Promised, Numbered, Flushed
  <2>6. \A x \in Sessions \ {s} : lock = x => lock' = x
    BY <1>1, NoneApart
  <2> QED
    BY <2>3, <2>4, <2>5, <2>6, GoesKeeps
<1> QED
  BY <1>3, <1>4

\* The method is called again, with what the first call left behind.
LEMMA BusyKeeps ==
    ASSUME FilingInv, NEW s \in Sessions, Filing!Busy(s)
    PROVE  FilingInv'
<1>1. txs[s] # None /\ lock \in Sessions \cup {None}
  BY DEF Filing!Busy, FilingInv, Filing!TypeOK
<1>2. txs[s] \in Filing!Tx /\ Promised(s, txs[s])
  BY <1>1 DEF FilingInv, Filing!TypeOK
<1>3. PICK once \in BOOLEAN : once = (txs[s].again \/ (txs[s].op # "additional" /\ txs[s].step = "commit"))
  BY <1>2 DEF Filing!Tx
<1>4. PICK n \in Nat : n = txs[s].tries + 1
  BY <1>2 DEF Filing!Tx
<1>5. PICK t : t = [txs[s] EXCEPT !.step = "form", !.row = None, !.adds = FALSE,
                          !.cleaned = FALSE, !.tries = n, !.again = once]
  OBVIOUS
<1>6. /\ t \in Filing!Tx /\ t.step = "form" /\ t.again = once
      /\ t.op = txs[s].op /\ t.uploaded = txs[s].uploaded /\ t.receipt = txs[s].receipt
  BY <1>2, <1>5 DEF Filing!Tx
<1>7. Filing!Leaves(s, t) \/ Filing!Leaves(s, None)
  BY <1>3, <1>4, <1>5 DEF Filing!Busy
<1>8. CASE Filing!Leaves(s, t)
  <2>1. /\ Filing!Goes(s, t) /\ lock' \in Sessions \cup {None}
        /\ \A x \in Sessions \ {s} : lock = x => lock' = x
    BY <1>1, <1>8 DEF Filing!Leaves
  <2>2. UNCHANGED <<role, held>>
    BY <2>1 DEF Filing!Goes
  <2>3. t.uploaded \subseteq held[s] \/ t.again
    <3>1. CASE txs[s].step # "commit"
      BY <1>2, <1>3, <1>6, <3>1 DEF Promised
    <3>2. CASE txs[s].op # "additional" /\ txs[s].step = "commit"
      BY <1>3, <1>6, <3>2
    <3>3. CASE txs[s].op = "additional" /\ txs[s].step = "commit"
      BY <1>2, <1>3, <1>6, <3>3 DEF Promised
    <3> QED
      BY <3>1, <3>2, <3>3
  <2>4. Promised(s, t)'
    BY <1>2, <1>6, <2>2, <2>3 DEF Promised, Numbered, Flushed
  <2> QED
    BY <1>6, <2>1, <2>4, GoesKeeps
<1> QED
  BY <1>7, <1>8, LeavesKeeps

\* What is flushed is numbered by the counter as it was read, and no other report has
\* the number.
LEMMA StoreKeeps ==
    ASSUME FilingInv, NEW s \in Sessions, Filing!Store(s)
    PROVE  FilingInv'
<1> USE DEF FilingInv
<1>1. /\ txs[s] # None /\ txs[s].step = "store" /\ lock \in {None, s}
      /\ lock \in Sessions \cup {None} /\ stored \in Nat /\ held \in [Sessions -> SUBSET Files]
  BY DEF Filing!Store, Filing!At, Filing!Free, Filing!TypeOK
<1>2. txs[s] \in Filing!Tx /\ Promised(s, txs[s]) /\ txs[s].op # "additional"
  BY <1>1 DEF Filing!TypeOK, Promised
<1>3. CASE Filing!Leaves(s, None)
  BY <1>3, LeavesKeeps
<1>4. CASE ~Filing!Leaves(s, None)
  <2>1. PICK row1 : row1 = Filing!Row(s, stored + 1)
    OBVIOUS
  <2>2. PICK given \in {"none", "given", "taken"} : given = IF txs[s].identity = "given" THEN "taken" ELSE txs[s].identity
    BY <1>2 DEF Filing!Tx
  <2>3. PICK t : t = Filing!Filed(s, stored')
    OBVIOUS
  <2>4. /\ Filing!Unique(s) /\ Filing!IdentityThere(s)
        /\ lock' = s /\ stored' = stored + 1 /\ txs' = [txs EXCEPT ![s] = t]
        /\ held' = IF txs[s].op = "insert" THEN [held EXCEPT ![s] = {}] ELSE held
        /\ UNCHANGED <<role, counter, reports, archive, freed, orphans, calls>>
    BY <1>4, <2>3 DEF Filing!Store, Filing!database
  <2>5. PICK told \in BOOLEAN, named \in BOOLEAN : told = (txs[s].identity # "none") /\ named = (txs[s].identity = "given")
    OBVIOUS
  <2>6. row1 = [id |-> stored + 1, by |-> s, number |-> txs[s].number, receipt |-> txs[s].receipt,
                key |-> txs[s].receipt, given |-> told, identity |-> named,
                answers |-> {txs[s].form}, uploaded |-> txs[s].uploaded, files |-> held[s],
                again |-> txs[s].again]
    BY <2>1, <2>5 DEF Filing!Row
  <2>7. txs[s].form \in Forms /\ txs[s].number \in Nat /\ txs[s].receipt \in Receipts
    BY <1>1, <1>2 DEF Promised, Numbered
  <2>8. row1 \in Filing!Report
    BY <1>1, <1>2, <2>6, <2>7 DEF Filing!Report, Filing!Tx
  <2>9. told = named
    BY <1>2, <2>4, <2>5 DEF Filing!IdentityThere, Filing!Tx
  <2>10. /\ t \in Filing!Tx /\ t.step = "commit" /\ t.row = row1 /\ t.op = txs[s].op
         /\ t.uploaded = txs[s].uploaded /\ t.again = txs[s].again /\ t.receipt = txs[s].receipt
         /\ t.form = txs[s].form /\ t.adds = txs[s].adds /\ t.cleaned = txs[s].cleaned
         /\ t.number = txs[s].number
    <3>1. t = [txs[s] EXCEPT !.step = "commit", !.row = row1, !.identity = given]
      BY <1>2, <2>1, <2>2, <2>3, <2>4 DEF Filing!Filed, Filing!Tx
    <3> QED
      BY <1>2, <2>2, <2>8, <3>1 DEF Filing!Tx
  <2>11. Filing!TypeOK'
    <3>1. held' \in [Sessions -> SUBSET Files]
      BY <1>1, <2>4
    <3> QED
      BY <2>4, <2>10, <3>1 DEF Filing!TypeOK
  <2>12. /\ Filing!Given' = Filing!Given /\ Numbers' = Numbers /\ Filing!Ids' = Filing!Ids
         /\ \A r : Whole(r)' <=> Whole(r)
    BY <2>4 DEF Filing!Given, Numbers, Filing!Ids, Whole
  <2>13. Whole(row1)
    BY <1>1, <1>2, <2>6, <2>9 DEF Whole, Promised
  <2>14. txs[s].number \notin Numbers /\ stored + 1 \notin Filing!Ids
    <3>1. \A r \in reports : r.number # txs[s].number /\ r.id <= stored /\ r.id \in Nat
      BY <2>4 DEF Filing!Unique, Identified, Filing!TypeOK, Filing!Report
    <3> QED
      BY <1>1, <3>1 DEF Numbers, Filing!Ids
  <2>15. ASSUME NEW x \in Sessions, txs'[x] # None PROVE Promised(x, txs[x])'
    <3>1. CASE x = s
      <4>1. txs'[x] = t
        BY <1>1, <2>4, <3>1 DEF Filing!TypeOK
      <4>2. role[s] # "receiver" => held'[s] = held[s]
        BY <1>2, <2>4 DEF Promised
      <4>3. row1.id = stored + 1 /\ row1.number = txs[s].number /\ row1.answers = {txs[s].form}
        BY <2>6
      <4>4. Flushed(t) => /\ lock' = s /\ t.number \notin Numbers' /\ t.row \in Filing!Report
                          /\ t.row.number = t.number /\ t.row.id \notin Filing!Ids' /\ t.row.id <= stored'
                          /\ t.row.answers = {t.form} /\ Whole(t.row)'
        BY <1>1, <2>4, <2>8, <2>10, <2>12, <2>13, <2>14, <4>3
      <4>5. Numbered(t) => t.number \in Nat \ {0} /\ (t.number = 1 \/ t.number - 1 \in Filing!Given')
        BY <1>1, <1>2, <2>10, <2>12 DEF Promised, Numbered
      <4>6. /\ t.op # "additional" => (t.op = "insert" <=> role'[s] = "receiver") /\ t.receipt \in Receipts
            /\ role'[s] # "receiver" => t.uploaded \subseteq held'[s]
            /\ t.form \in Forms /\ (t.form \in archive' \/ t.adds \/ t.cleaned)
        BY <1>1, <1>2, <2>4, <2>10, <4>2 DEF Promised
      <4> QED
        BY <1>2, <2>10, <3>1, <4>1, <4>4, <4>5, <4>6 DEF Promised
    <3>2. CASE x # s
      <4>1. txs'[x] = txs[x] /\ held'[x] = held[x] /\ Promised(x, txs[x]) /\ lock # x
        BY <1>1, <2>4, <2>15, <3>2, NoneApart DEF Filing!TypeOK
      <4> QED
        BY <2>4, <2>12, <4>1 DEF Promised
    <3> QED
      BY <3>1, <3>2
  <2>16. (NoGaps /\ Identified)'
    <3>1. \A r \in reports : r.id \in Nat
      BY DEF Filing!TypeOK, Filing!Report
    <3> QED
      BY <1>1, <2>4, <2>12, <3>1 DEF NoGaps, Identified
  <2>17. Filing!SchemaKept'
    BY <2>4 DEF Filing!SchemaKept
  <2>18. \A r \in reports' : Whole(r)'
    BY <2>4, <2>12
  <2> QED
    BY <2>11, <2>15, <2>16, <2>17, <2>18
<1> QED
  BY <1>3, <1>4

\* A step that changes what is stored, while no other transaction holds the lock and the
\* numbers given and the schemas are as they were, or more.
LEMMA OthersKeep ==
    ASSUME FilingInv, NEW x \in Sessions, txs[x] # None, txs'[x] = txs[x], lock # x,
           UNCHANGED <<role, held>>, Filing!Given \subseteq Filing!Given', archive \subseteq archive'
    PROVE  Promised(x, txs[x])'
<1>1. Promised(x, txs[x])
  BY DEF FilingInv
<1> QED
  BY <1>1 DEF Promised

LEMMA CommitReportKeeps ==
    ASSUME FilingInv, NEW s \in Sessions, Filing!CommitReport(s)
    PROVE  /\ FilingInv'
           /\ \A r \in reports' : r.id \notin Filing!Ids =>
                r.number \in freed \/ Filing!Given = 1 .. r.number - 1
<1> USE DEF FilingInv
<1>1. txs[s] # None /\ txs[s].step = "commit" /\ txs[s].op # "additional"
  BY DEF Filing!CommitReport, Filing!At
<1>2. txs[s] \in Filing!Tx /\ Promised(s, txs[s])
  BY <1>1 DEF Filing!TypeOK
<1>3. PICK new, form, number : new = txs[s].row /\ form = txs[s].form /\ number = txs[s].number
  OBVIOUS
<1>4. /\ reports' = {x \in reports : x.id # new.id} \cup {new}
      /\ archive' = archive \cup (IF txs[s].adds THEN {form} ELSE {})
      /\ orphans' = orphans \cup (IF txs[s].cleaned THEN {<<new.id, form>>} ELSE {})
      /\ counter' = number /\ lock' = None /\ txs' = [txs EXCEPT ![s] = None]
      /\ UNCHANGED <<role, held, freed, calls, stored>>
  BY <1>3 DEF Filing!CommitReport, Filing!Commits, Filing!bounds
<1>5. /\ lock = s /\ new \in Filing!Report /\ new.number = number /\ number \in Nat \ {0} /\ number \notin Numbers
      /\ new.id \notin Filing!Ids /\ new.id <= stored /\ new.answers = {form} /\ form \in Forms /\ Whole(new)
      /\ number = 1 \/ number - 1 \in Filing!Given
      /\ form \in archive \/ txs[s].adds \/ txs[s].cleaned
  BY <1>1, <1>2, <1>3 DEF Promised, Numbered, Flushed
<1>6. reports' = reports \cup {new}
  BY <1>4, <1>5 DEF Filing!Ids
<1>7. Filing!Given' = Filing!Given \cup {number}
  BY <1>4, <1>5, <1>6 DEF Filing!Given
<1>8. number \in freed \/ Filing!Given = 1 .. number - 1
  <2> SUFFICES ASSUME number \notin freed PROVE Filing!Given = 1 .. number - 1
    OBVIOUS
  <2>1. number \notin Filing!Given
    BY <1>5 DEF Filing!Given, Numbers
  <2>2. \A n \in Filing!Given : n \in Nat \ {0} /\ n < number
    BY <1>5, <2>1 DEF NoGaps
  <2>3. 1 .. number - 1 \subseteq Filing!Given
    BY <1>5 DEF NoGaps
  <2>4. \A n \in Filing!Given : n \in 1 .. number - 1
    BY <1>5, <2>2
  <2> QED
    BY <2>3, <2>4
<1>9. Filing!TypeOK'
  <2>1. new.id \in Nat
    BY <1>5 DEF Filing!Report
  <2> QED
    BY <1>4, <1>5, <1>6, <2>1 DEF Filing!TypeOK
<1>10. ASSUME NEW x \in Sessions, txs'[x] # None PROVE Promised(x, txs[x])'
  <2>1. x # s /\ txs'[x] = txs[x] /\ lock # x
    BY <1>4, <1>5, <1>10 DEF Filing!TypeOK
  <2> QED
    BY <1>4, <1>7, <1>10, <2>1, OthersKeep
<1>11. NoGaps'
  <2>1. 1 .. number \subseteq Filing!Given'
    BY <1>5, <1>7 DEF NoGaps
  <2> QED
    BY <1>4, <1>5, <1>7, <2>1 DEF NoGaps
<1>12. Identified'
  BY <1>4, <1>5, <1>6 DEF Identified, Filing!Ids
<1>13. Filing!SchemaKept'
  BY <1>4, <1>5, <1>6 DEF Filing!SchemaKept
<1>14. \A r \in reports' : Whole(r)'
  BY <1>4, <1>5, <1>6 DEF Whole
<1>15. \A r \in reports' : r.id \notin Filing!Ids => r.number \in freed \/ Filing!Given = 1 .. r.number - 1
  BY <1>5, <1>6, <1>8 DEF Filing!Ids
<1> QED
  BY <1>9, <1>10, <1>11, <1>12, <1>13, <1>14, <1>15

LEMMA CommitAnswersKeeps ==
    ASSUME FilingInv, NEW s \in Sessions, Filing!CommitAnswers(s)
    PROVE  FilingInv' /\ Filing!Ids' = Filing!Ids
<1> USE DEF FilingInv
<1>1. txs[s] # None /\ txs[s].step = "commit" /\ txs[s].op = "additional" /\ lock \in {None, s}
  BY DEF Filing!CommitAnswers, Filing!At, Filing!Free
<1>2. txs[s] \in Filing!Tx /\ Promised(s, txs[s])
  BY <1>1 DEF Filing!TypeOK
<1>3. CASE Filing!Leaves(s, None)
  BY <1>3, LeavesKeeps DEF Filing!Leaves, Filing!Goes, Filing!database, Filing!Ids
<1>4. CASE ~Filing!Leaves(s, None)
  <2>1. PICK form, r : form = txs[s].form /\ r = CHOOSE x \in reports : x.id = txs[s].report
    OBVIOUS
  <2>2. PICK new : new = [r EXCEPT !.answers = @ \cup {form}]
    OBVIOUS
  <2>3. r \in reports /\ Filing!Commits(s, new) /\ UNCHANGED counter
    BY <1>4, <2>1, <2>2 DEF Filing!CommitAnswers, Filing!Ids
  <2>4. /\ reports' = {x \in reports : x.id # new.id} \cup {new}
        /\ archive' = archive \cup (IF txs[s].adds THEN {form} ELSE {})
        /\ orphans' = orphans \cup (IF txs[s].cleaned THEN {<<new.id, form>>} ELSE {})
        /\ lock' = None /\ txs' = [txs EXCEPT ![s] = None]
        /\ UNCHANGED <<role, held, counter, freed, calls, stored>>
    BY <2>1, <2>3 DEF Filing!Commits, Filing!bounds
  <2>5. form \in Forms /\ (form \in archive \/ txs[s].adds \/ txs[s].cleaned)
    BY <1>1, <1>2, <2>1 DEF Promised
  <2>6. r \in Filing!Report
    BY <2>3 DEF Filing!TypeOK
  <2>7. /\ new \in Filing!Report /\ new.id = r.id /\ new.number = r.number /\ new.answers = r.answers \cup {form}
        /\ new.identity = r.identity /\ new.given = r.given /\ new.key = r.key /\ new.receipt = r.receipt
        /\ new.uploaded = r.uploaded /\ new.files = r.files /\ new.again = r.again /\ new.by = r.by
    BY <2>2, <2>5, <2>6 DEF Filing!Report
  <2>8. reports' = (reports \ {r}) \cup {new}
    BY <2>3, <2>4, <2>7 DEF Identified
  <2>9. Filing!Given' = Filing!Given /\ Filing!Ids' = Filing!Ids
    BY <2>3, <2>4, <2>7, <2>8 DEF Filing!Given, Filing!Ids
  <2>10. Filing!TypeOK'
    <3>1. new.id \in Nat
      BY <2>7 DEF Filing!Report
    <3> QED
      BY <2>4, <2>5, <2>7, <2>8, <3>1 DEF Filing!TypeOK
  <2>11. ASSUME NEW x \in Sessions, txs'[x] # None PROVE Promised(x, txs[x])'
    <3>1. x # s /\ txs'[x] = txs[x] /\ lock # x
      BY <1>1, <2>4, <2>11, NoneApart DEF Filing!TypeOK
    <3> QED
      BY <2>4, <2>9, <2>11, <3>1, OthersKeep
  <2>12. NoGaps'
    BY <2>4, <2>9 DEF NoGaps
  <2>13. Identified'
    BY <2>3, <2>4, <2>7, <2>8 DEF Identified
  <2>14. Filing!SchemaKept'
    <3>1. \A f \in new.answers : f \in archive' \/ <<new.id, f>> \in orphans'
      BY <2>3, <2>4, <2>5, <2>7 DEF Filing!SchemaKept
    <3> QED
      BY <2>4, <2>8, <3>1 DEF Filing!SchemaKept
  <2>15. \A x \in reports' : Whole(x)'
    BY <2>3, <2>4, <2>7, <2>8 DEF Whole
  <2> QED
    BY <2>9, <2>10, <2>11, <2>12, <2>13, <2>14, <2>15
<1> QED
  BY <1>3, <1>4

\* What others do to the reports, while no transaction holds the lock
LEMMA ChangeReceiptKeeps ==
    ASSUME FilingInv, NEW r \in reports, NEW receipt \in Receipts, Filing!ChangeReceipt(r, receipt)
    PROVE  FilingInv' /\ Filing!Ids' = Filing!Ids
<1> USE DEF FilingInv
<1>1. PICK new : new = [r EXCEPT !.receipt = receipt, !.key = receipt]
  OBVIOUS
<1>2. /\ lock = None /\ reports' = (reports \ {r}) \cup {new}
      /\ UNCHANGED <<role, held, counter, archive, freed, orphans, lock, txs, calls, stored>>
  BY <1>1 DEF Filing!ChangeReceipt, Filing!bounds
<1>3. r \in Filing!Report
  BY DEF Filing!TypeOK
<1>4. /\ new \in Filing!Report /\ new.id = r.id /\ new.number = r.number /\ new.answers = r.answers
      /\ new.identity = r.identity /\ new.given = r.given /\ new.key = new.receipt
      /\ new.uploaded = r.uploaded /\ new.files = r.files /\ new.again = r.again /\ new.by = r.by
  BY <1>1, <1>3 DEF Filing!Report
<1>5. Filing!Given' = Filing!Given /\ Filing!Ids' = Filing!Ids
  BY <1>2, <1>4 DEF Filing!Given, Filing!Ids
<1>6. Filing!TypeOK'
  BY <1>2, <1>4 DEF Filing!TypeOK
<1>7. ASSUME NEW x \in Sessions, txs'[x] # None PROVE Promised(x, txs[x])'
  BY <1>2, <1>5, <1>7, NoneApart, OthersKeep
<1>8. NoGaps'
  BY <1>2, <1>5 DEF NoGaps
<1>9. Identified'
  BY <1>2, <1>4 DEF Identified
<1>10. Filing!SchemaKept'
  BY <1>2, <1>4 DEF Filing!SchemaKept
<1>11. \A x \in reports' : Whole(x)'
  BY <1>2, <1>4 DEF Whole
<1> QED
  BY <1>5, <1>6, <1>7, <1>8, <1>9, <1>10, <1>11

LEMMA EraseKeeps ==
    ASSUME FilingInv, NEW gone \in SUBSET reports, Filing!Erase(gone), lock = None, counter' \in {0, counter},
           UNCHANGED <<role, held, archive, orphans, lock, txs, calls, stored>>
    PROVE  FilingInv' /\ Filing!Ids' \subseteq Filing!Ids
<1> USE DEF FilingInv
<1>1. reports' = reports \ gone /\ freed' = freed \cup {r.number : r \in gone}
  BY DEF Filing!Erase
<1>2. Filing!Given' = Filing!Given /\ Filing!Ids' \subseteq Filing!Ids
  BY <1>1 DEF Filing!Given, Filing!Ids
<1>3. Filing!TypeOK'
  <2>1. \A r \in reports : r.number \in Nat
    BY DEF Filing!TypeOK, Filing!Report
  <2>2. reports \subseteq Filing!Report /\ counter' \in Nat
    BY DEF Filing!TypeOK
  <2> QED
    BY <1>1, <2>1, <2>2 DEF Filing!TypeOK
<1>4. ASSUME NEW x \in Sessions, txs'[x] # None PROVE Promised(x, txs[x])'
  BY <1>2, <1>4, NoneApart, OthersKeep
<1>5. NoGaps'
  BY <1>2 DEF NoGaps
<1>6. Identified' /\ Filing!SchemaKept' /\ \A r \in reports' : Whole(r)'
  BY <1>1 DEF Identified, Filing!SchemaKept, Whole
<1> QED
  BY <1>2, <1>3, <1>4, <1>5, <1>6

\* Whoever looked for a schema before the Cleaning job came by keeps it in mind.
LEMMA CleanKeeps ==
    ASSUME FilingInv, NEW expired \in SUBSET reports, Filing!Clean(expired)
    PROVE  FilingInv' /\ Filing!Ids' \subseteq Filing!Ids
<1> USE DEF FilingInv
<1>1. /\ lock = None /\ reports' = reports \ expired /\ freed' = freed \cup {r.number : r \in expired}
      /\ archive' = archive \cap Filing!SchemasOf(reports')
      /\ txs' = [s \in Sessions |->
                   IF txs[s] # None /\ txs[s].step \in {"number", "store", "commit"}
                   THEN [txs[s] EXCEPT !.cleaned = TRUE] ELSE txs[s]]
      /\ UNCHANGED <<role, held, counter, orphans, lock, calls, stored>>
  BY DEF Filing!Clean, Filing!Erase, Filing!bounds
<1>2. Filing!Given' = Filing!Given /\ Filing!Ids' \subseteq Filing!Ids
  BY <1>1 DEF Filing!Given, Filing!Ids
<1>3. ASSUME NEW x \in Sessions, txs[x] # None
      PROVE  /\ txs'[x] \in Filing!Tx /\ txs'[x].op = txs[x].op /\ txs'[x].uploaded = txs[x].uploaded
             /\ txs'[x].again = txs[x].again /\ txs'[x].receipt = txs[x].receipt /\ txs'[x].step = txs[x].step
             /\ txs'[x].form = txs[x].form /\ txs'[x].number = txs[x].number /\ txs'[x].row = txs[x].row
             /\ txs[x].step \in {"number", "store", "commit"} => txs'[x].cleaned
  <2>1. txs[x] \in Filing!Tx
    BY <1>3 DEF Filing!TypeOK
  <2>2. txs'[x] = IF txs[x].step \in {"number", "store", "commit"} THEN [txs[x] EXCEPT !.cleaned = TRUE] ELSE txs[x]
    BY <1>1, <1>3
  <2>3. CASE txs[x].step \in {"number", "store", "commit"}
    BY <2>1, <2>2, <2>3 DEF Filing!Tx
  <2>4. CASE txs[x].step \notin {"number", "store", "commit"}
    BY <2>1, <2>2, <2>4
  <2> QED
    BY <2>3, <2>4
<1>4. txs' \in [Sessions -> Filing!Tx \cup {None}]
  <2>1. \A x \in Sessions : txs[x] = None => txs'[x] = None
    BY <1>1
  <2>2. \A x \in Sessions : txs'[x] \in Filing!Tx \cup {None}
    BY <1>3, <2>1
  <2> QED
    BY <1>1, <2>2
<1>5. Filing!TypeOK'
  <2>1. \A r \in reports : r.number \in Nat
    BY DEF Filing!TypeOK, Filing!Report
  <2>2. reports \subseteq Filing!Report
    BY DEF Filing!TypeOK
  <2> QED
    BY <1>1, <1>4, <2>1, <2>2 DEF Filing!TypeOK
<1>6. ASSUME NEW x \in Sessions, txs'[x] # None PROVE Promised(x, txs[x])'
  <2>1. txs[x] # None /\ Promised(x, txs[x]) /\ lock # x
    BY <1>1, <1>6, NoneApart
  <2>2. \A r : Whole(r)' <=> Whole(r)
    BY <1>1 DEF Whole
  <2> QED
    BY <1>1, <1>2, <1>3, <2>1, <2>2 DEF Promised, Numbered, Flushed
<1>7. NoGaps'
  BY <1>1, <1>2 DEF NoGaps
<1>8. Filing!SchemaKept'
  <2>1. \A r \in reports' : r.answers \subseteq Filing!SchemasOf(reports')
    BY DEF Filing!SchemasOf
  <2> QED
    BY <1>1, <2>1 DEF Filing!SchemaKept
<1>9. Identified' /\ \A r \in reports' : Whole(r)'
  BY <1>1 DEF Identified, Whole
<1> QED
  BY <1>2, <1>5, <1>6, <1>7, <1>8, <1>9

\* A step keeps all of this, and numbers the report it adds in order.
LEMMA FilingStep ==
    FilingInv /\ [Filing!Next]_filing =>
      /\ FilingInv'
      /\ \A r \in reports' : r.id \notin Filing!Ids => r.number \in freed \/ Filing!Given = 1 .. r.number - 1
<1> SUFFICES ASSUME FilingInv, [Filing!Next]_filing
             PROVE  /\ FilingInv'
                    /\ \A r \in reports' : r.id \notin Filing!Ids =>
                         r.number \in freed \/ Filing!Given = 1 .. r.number - 1
  OBVIOUS
<1>1. ASSUME Filing!Ids' \subseteq Filing!Ids
      PROVE  \A r \in reports' : r.id \notin Filing!Ids => r.number \in freed \/ Filing!Given = 1 .. r.number - 1
  BY <1>1 DEF Filing!Ids
<1>2. CASE UNCHANGED filing
  <2>1. /\ Filing!Given' = Filing!Given /\ Numbers' = Numbers /\ Filing!Ids' = Filing!Ids
        /\ \A r : Whole(r)' <=> Whole(r)
    BY <1>2 DEF filing, Filing!Given, Numbers, Filing!Ids, Whole
  <2>2. \A x \in Sessions : Promised(x, txs[x]) => Promised(x, txs[x])'
    BY <1>2, <2>1 DEF filing, Promised
  <2>3. Filing!TypeOK' /\ NoGaps' /\ Identified' /\ Filing!SchemaKept'
    BY <1>2, <2>1 DEF filing, FilingInv, Filing!TypeOK, NoGaps, Identified, Filing!SchemaKept
  <2> QED
    BY <1>1, <1>2, <2>1, <2>2, <2>3 DEF filing, FilingInv
<1>3. ASSUME NEW s \in Sessions, Filing!Step(s), ~Filing!CommitReport(s), ~Filing!CommitAnswers(s)
      PROVE  Filing!Ids' = Filing!Ids
  BY <1>3 DEF Filing!Step, Filing!Submit, Filing!Insert, Filing!Additional, Filing!Call, Filing!Upload, Filing!Compose,
     Filing!TurnDown, Filing!ReadForm, Filing!LookUpSchema, Filing!AddSchema, Filing!ReadCounter, Filing!Store,
     Filing!Busy, Filing!Leaves, Filing!Goes, Filing!database, Filing!Ids
<1>4. ASSUME NEW s \in Sessions, Filing!Step(s), ~Filing!CommitReport(s), ~Filing!CommitAnswers(s)
      PROVE  FilingInv'
  BY <1>4, RequestsKeep, UploadKeeps, ComposeKeeps, LeavesKeeps, ReadsKeep, AddSchemaKeeps, StoreKeeps, BusyKeeps
  DEF Filing!Step, Filing!TurnDown
<1>5. ASSUME NEW s \in Sessions, Filing!CommitAnswers(s)
      PROVE  FilingInv' /\ Filing!Ids' = Filing!Ids
  BY <1>5, CommitAnswersKeeps
<1>6. ASSUME NEW r \in reports, NEW receipt \in Receipts, Filing!ChangeReceipt(r, receipt)
      PROVE  FilingInv' /\ Filing!Ids' = Filing!Ids
  BY <1>6, ChangeReceiptKeeps
<1>7. ASSUME (\E r \in reports : Filing!Delete(r)) \/ Filing!Reset
      PROVE  FilingInv' /\ Filing!Ids' \subseteq Filing!Ids
  <2>1. PICK gone \in SUBSET reports : Filing!Erase(gone)
    BY <1>7 DEF Filing!Delete, Filing!Reset
  <2>2. /\ lock = None /\ counter' \in {0, counter}
        /\ UNCHANGED <<role, held, archive, orphans, lock, txs, calls, stored>>
    BY <1>7 DEF Filing!Delete, Filing!Reset, Filing!bounds
  <2> QED
    BY <2>1, <2>2, EraseKeeps
<1>8. ASSUME NEW expired \in SUBSET reports, Filing!Clean(expired)
      PROVE  FilingInv' /\ Filing!Ids' \subseteq Filing!Ids
  BY <1>8, CleanKeeps
<1> QED
  BY <1>1, <1>2, <1>3, <1>4, <1>5, <1>6, <1>7, <1>8, CommitReportKeeps DEF Filing!Next

LEMMA FilingInvariant == MCSpec => []FilingInv
<1>1. MCInit => FilingInv
  BY FilingInitially DEF MCInit
<1>2. FilingInv /\ [MCNext]_allVars => FilingInv'
  <2> SUFFICES ASSUME FilingInv, [MCNext]_allVars PROVE FilingInv'
    OBVIOUS
  <2>1. [Filing!Next]_filing
    BY DEF MCNext, allVars
  <2> QED
    BY <2>1, FilingStep
<1> QED
  BY <1>1, <1>2, PTL DEF MCSpec

\* However often a submission or an insertion was run again, what is stored is what was
\* submitted, and its schema outlives the daily cleaning.
THEOREM Filed == MCSpec => []FiledWhole
<1>1. FilingInv => FiledWhole
  BY DEF FilingInv, FiledWhole, Filing!StoredAsSubmitted, Whole
<1> QED
  BY <1>1, FilingInvariant, PTL

\* No number is skipped and none is given twice at a time, though the counter is read
\* before the lock is held.
THEOREM InOrder == MCSpec => NumbersInOrder
<1>1. FilingInv /\ [MCNext]_allVars =>
        [\A r \in reports' : r.id \notin Filing!Ids => r.number \in freed \/ Filing!Given = 1 .. r.number - 1]_(Filing!vars)
  <2> SUFFICES ASSUME FilingInv, [MCNext]_allVars
               PROVE  \A r \in reports' : r.id \notin Filing!Ids =>
                        r.number \in freed \/ Filing!Given = 1 .. r.number - 1
    OBVIOUS
  <2>1. [Filing!Next]_filing
    BY DEF MCNext, allVars
  <2> QED
    BY <2>1, FilingStep
<1> QED
  BY <1>1, FilingInvariant, PTL DEF MCSpec, NumbersInOrder, Filing!NumbersInOrder

-----------------------------------------------------------------------------
(* Induction *)

\* Every set of naturals has a least member; induction follows.
LEMMA Least ==
    ASSUME NEW T \in SUBSET Nat, T # {}
    PROVE  \E i \in T : \A j \in T : i <= j
<1> DEFINE R == OpToRel(<, Nat)
<1>1. IsWellFoundedOn(R, Nat)
  BY NatLessThanWellFounded
<1>2. \A i, j \in Nat : <<i, j>> \in R <=> i < j
  BY DEF OpToRel
<1> HIDE DEF R
<1>3. PICK i \in T : \A j \in T : ~(<<j, i>> \in R)
  BY <1>1, WFMin
<1>4. \A j \in T : ~(j < i)
  BY <1>2, <1>3
<1>5. \A j \in T : j \in Nat /\ i \in Nat
  OBVIOUS
<1>6. QED BY <1>4, <1>5

LEMMA Induction ==
    ASSUME NEW T, 0 \in T, \A i \in Nat : i \in T => i + 1 \in T
    PROVE  Nat \subseteq T
<1> SUFFICES ASSUME NEW S, S = Nat \ T, S # {} PROVE FALSE
  OBVIOUS
<1>1. PICK i \in S : \A j \in S : i <= j
  BY Least
<1>2. i \in Nat /\ i # 0 /\ i \notin T
  OBVIOUS
<1>3. i - 1 \in Nat /\ i - 1 \notin S
  BY <1>1, <1>2
<1>4. QED BY <1>2, <1>3

\* The values a recursion over 1 .. n goes through, and the step it takes at each.
Walks(n, S) == [0 .. n -> S]

Steps(n, S) == [(1 .. n) \X S -> S]

Follows(g, n, base, step) == g[0] = base /\ \A i \in 1 .. n : g[i] = step[<<i, g[i - 1]>>]

\* A function defined by recursion over an interval exists, and has the values it is
\* defined by.
LEMMA Recursion ==
    ASSUME NEW n \in Nat, NEW S, NEW base \in S, NEW step \in Steps(n, S)
    PROVE  \E g \in Walks(n, S) : Follows(g, n, base, step)
<1> USE DEF Walks, Steps, Follows
<1> DEFINE Good(k, g) == g[0] = base /\ \A i \in 1 .. k : g[i] = step[<<i, g[i - 1]>>]
           T == {k \in Nat : k <= n => \E g \in [0 .. k -> S] : Good(k, g)}
<1>1. 0 \in T
  <2>1. [i \in 0 .. 0 |-> base] \in [0 .. 0 -> S]
    OBVIOUS
  <2>2. Good(0, [i \in 0 .. 0 |-> base])
    OBVIOUS
  <2>3. QED BY <2>1, <2>2
<1>2. ASSUME NEW k \in Nat, k \in T PROVE k + 1 \in T
  <2> SUFFICES ASSUME k + 1 <= n PROVE \E g \in [0 .. k + 1 -> S] : Good(k + 1, g)
    OBVIOUS
  <2>1. PICK g \in [0 .. k -> S] : Good(k, g)
    BY <1>2
  <2> DEFINE h == [i \in 0 .. k + 1 |-> IF i = k + 1 THEN step[<<i, g[k]>>] ELSE g[i]]
  <2>2. step[<<k + 1, g[k]>>] \in S
    OBVIOUS
  <2>3. h \in [0 .. k + 1 -> S]
    BY <2>2
  <2>4. h[k + 1] = step[<<k + 1, g[k]>>] /\ \A i \in 0 .. k : h[i] = g[i]
    OBVIOUS
  <2> HIDE DEF h
  <2>5. ASSUME NEW i \in 1 .. k + 1 PROVE h[i] = step[<<i, h[i - 1]>>]
    <3>1. CASE i = k + 1
      <4>1. i - 1 = k /\ k \in 0 .. k
        BY <3>1
      <4>2. QED BY <2>4, <3>1, <4>1
    <3>2. CASE i # k + 1
      <4>1. i \in 1 .. k /\ i \in 0 .. k /\ i - 1 \in 0 .. k
        BY <3>2
      <4>2. QED BY <2>1, <2>4, <4>1
    <3>3. QED BY <3>1, <3>2
  <2>6. h[0] = base
    BY <2>1, <2>4
  <2>7. QED BY <2>3, <2>5, <2>6
<1>3. Nat \subseteq T
  <2> HIDE DEF T
  <2> QED BY <1>1, <1>2, Induction
<1>4. QED BY <1>3

-----------------------------------------------------------------------------
(* Ranges *)

Spans == [start : Nat, end : Nat]
Of(r) == r.start .. r.end

\* What the first ranges of a list cover
Upto(list, n) == UNION {Of(list[i]) : i \in 1 .. n}

LEMMA ListsFacts ==
    /\ Redact!Lists = Seq(Spans)
    /\ \A list \in Redact!Lists : Len(list) \in Nat /\ DOMAIN list = 1 .. Len(list)
    /\ \A list \in Redact!Lists : \A i \in 1 .. Len(list) :
         list[i] \in Spans /\ list[i].start \in Nat /\ list[i].end \in Nat
    /\ << >> \in Redact!Lists
<1>1. Redact!Lists = Seq(Spans)
  BY DEF Redact!Lists, Spans
<1>2. \A list \in Seq(Spans) : Len(list) \in Nat /\ DOMAIN list = 1 .. Len(list)
  BY LenProperties
<1>3. \A list \in Seq(Spans) : \A i \in 1 .. Len(list) : list[i] \in Spans
  BY ElementOfSeq
<1>4. \A r \in Spans : r.start \in Nat /\ r.end \in Nat
  BY DEF Spans
<1>5. << >> \in Seq(Spans)
  BY EmptySeq
<1>6. QED BY <1>1, <1>2, <1>3, <1>4, <1>5

LEMMA SpanFacts ==
    ASSUME NEW a \in Nat, NEW b \in Nat
    PROVE  /\ Redact!Range_(a, b) \in Spans /\ Redact!Range_(a, b).start = a /\ Redact!Range_(a, b).end = b
           /\ Of(Redact!Range_(a, b)) = a .. b
BY DEF Redact!Range_, Spans, Of

LEMMA CoveredIs ==
    ASSUME NEW list \in Redact!Lists
    PROVE  Redact!Covered(list) = Upto(list, Len(list))
<1>1. Redact!Range(list) = {list[i] : i \in 1 .. Len(list)}
  BY ListsFacts DEF Redact!Range
<1>2. QED BY <1>1 DEF Redact!Covered, Upto, Of

LEMMA UptoFacts ==
    ASSUME NEW list
    PROVE  /\ Upto(list, 0) = {}
           /\ \A n \in Nat : Upto(list, n + 1) = Upto(list, n) \cup Of(list[n + 1])
<1>1. Upto(list, 0) = {}
  BY DEF Upto
<1>2. ASSUME NEW n \in Nat PROVE Upto(list, n + 1) = Upto(list, n) \cup Of(list[n + 1])
  <2>1. 1 .. n + 1 = 1 .. n \cup {n + 1}
    OBVIOUS
  <2>2. QED BY <2>1 DEF Upto
<1>3. QED BY <1>1, <1>2

LEMMA UptoSame ==
    ASSUME NEW list, NEW other, NEW n \in Nat, \A i \in 1 .. n : list[i] = other[i]
    PROVE  Upto(list, n) = Upto(other, n)
BY DEF Upto

LEMMA FrontLast ==
    ASSUME NEW list \in Redact!Lists, list # << >>
    PROVE  /\ Redact!Front(list) \in Redact!Lists /\ Redact!Last(list) \in Spans
           /\ Append(Redact!Front(list), Redact!Last(list)) = list
<1> DEFINE n == Len(list)
           front == SubSeq(list, 1, n - 1)
<1>1. n \in Nat /\ n # 0 /\ list \in Seq(Spans) /\ list[n] \in Spans
  BY ListsFacts, EmptySeq, LenProperties
<1>2. front \in Seq(Spans) /\ Len(front) = n - 1 /\ \A i \in 1 .. n - 1 : front[i] = list[i]
  <2>1. n >= 1 /\ 1 \in Int /\ n - 1 \in Int /\ \A i \in 1 .. n - 1 : list[i] \in Spans
    BY <1>1, LenProperties, ElementOfSeq
  <2>2. /\ front \in Seq(Spans)
        /\ Len(front) = IF 1 <= n - 1 THEN (n - 1) - 1 + 1 ELSE 0
        /\ \A i \in 1 .. (n - 1) - 1 + 1 : front[i] = list[1 + i - 1]
    BY <2>1, SubSeqProperties
  <2> HIDE DEF front
  <2>3. (n - 1) - 1 + 1 = n - 1 /\ \A i \in 1 .. n - 1 : 1 + i - 1 = i
    BY <2>1
  <2>4. Len(front) = n - 1
    <3>1. n \in Nat /\ n >= 1 /\ Len(front) = IF 1 <= n - 1 THEN (n - 1) - 1 + 1 ELSE 0
      BY <1>1, <2>1, <2>2
    <3> HIDE DEF n
    <3>2. QED BY <3>1
  <2>5. \A i \in 1 .. n - 1 : front[i] = list[i]
    BY <2>2, <2>3
  <2>6. QED BY <2>2, <2>4, <2>5
<1> HIDE DEF front
<1>3. /\ Append(front, list[n]) \in Seq(Spans) /\ Len(Append(front, list[n])) = n
      /\ \A i \in 1 .. n - 1 : Append(front, list[n])[i] = list[i]
      /\ Append(front, list[n])[n] = list[n]
  BY <1>1, <1>2, AppendProperties
<1>4. \A i \in 1 .. n : Append(front, list[n])[i] = list[i]
  BY <1>1, <1>3
<1>5. Append(front, list[n]) = list
  BY <1>1, <1>3, <1>4, SeqEqual
<1>6. QED BY <1>1, <1>2, <1>5, ListsFacts DEF front, Redact!Front, Redact!Last

LEMMA AppendLast ==
    ASSUME NEW list \in Redact!Lists, NEW r \in Spans
    PROVE  Append(list, r) # << >> /\ Redact!Last(Append(list, r)) = r
BY ListsFacts, AppendProperties DEF Redact!Last

LEMMA CoveredEmpty == Redact!Covered(<< >>) = {}
BY CoveredIs, UptoFacts, ListsFacts

LEMMA CoveredAppend ==
    ASSUME NEW list \in Redact!Lists, NEW r \in Spans
    PROVE  /\ Append(list, r) \in Redact!Lists
           /\ Redact!Covered(Append(list, r)) = Redact!Covered(list) \cup Of(r)
<1> DEFINE n == Len(list)
           more == Append(list, r)
<1>1. more \in Redact!Lists /\ Len(more) = n + 1 /\ more[n + 1] = r /\ n \in Nat
      /\ \A i \in 1 .. n : more[i] = list[i]
  BY ListsFacts, AppendProperties
<1> HIDE DEF more
<1>2. Upto(more, n) = Upto(list, n)
  BY <1>1, UptoSame
<1>3. Redact!Covered(more) = Upto(more, n + 1)
  BY <1>1, CoveredIs
<1>4. QED BY <1>1, <1>2, <1>3, UptoFacts, CoveredIs DEF more

LEMMA CoveredFront ==
    ASSUME NEW list \in Redact!Lists, list # << >>
    PROVE  /\ Redact!Front(list) \in Redact!Lists /\ Redact!Last(list) \in Spans
           /\ Redact!Covered(list) = Redact!Covered(Redact!Front(list)) \cup Of(Redact!Last(list))
<1>1. Redact!Front(list) \in Redact!Lists /\ Redact!Last(list) \in Spans /\ Append(Redact!Front(list), Redact!Last(list)) = list
  BY ListsFacts, FrontLast
<1>2. QED BY <1>1, CoveredAppend

LEMMA Halves ==
    ASSUME NEW one \in Redact!Lists, NEW two \in Redact!Lists
    PROVE  /\ one \o two \in Redact!Lists /\ Len(one \o two) = Len(one) + Len(two)
           /\ \A i \in 1 .. Len(one) : (one \o two)[i] = one[i]
           /\ \A i \in 1 .. Len(two) : (one \o two)[Len(one) + i] = two[i]
BY ListsFacts, ConcatProperties

LEMMA CoveredConcat ==
    ASSUME NEW one \in Redact!Lists, NEW two \in Redact!Lists
    PROVE  /\ one \o two \in Redact!Lists
           /\ Redact!Covered(one \o two) = Redact!Covered(one) \cup Redact!Covered(two)
<1> DEFINE both == one \o two
           m == Len(one)
           n == Len(two)
<1>1. both \in Redact!Lists /\ Len(both) = m + n /\ m \in Nat /\ n \in Nat
  BY ListsFacts, Halves
<1>2. /\ \A i \in 1 .. m : both[i] = one[i]
      /\ \A i \in 1 .. n : both[m + i] = two[i]
  BY Halves
<1> HIDE DEF both
<1>3. ASSUME NEW x PROVE x \in Upto(both, m + n) <=> x \in Upto(one, m) \/ x \in Upto(two, n)
  <2>1. ASSUME x \in Upto(both, m + n) PROVE x \in Upto(one, m) \/ x \in Upto(two, n)
    <3>1. PICK i \in 1 .. m + n : x \in Of(both[i])
      BY <2>1 DEF Upto
    <3>2. CASE i \in 1 .. m
      BY <1>2, <3>1, <3>2 DEF Upto
    <3>3. CASE i \notin 1 .. m
      <4>1. i - m \in 1 .. n /\ m + (i - m) = i
        BY <1>1, <3>1, <3>3
      <4>2. both[i] = two[i - m]
        BY <1>2, <4>1
      <4>3. QED BY <3>1, <4>1, <4>2 DEF Upto
    <3>4. QED BY <3>2, <3>3
  <2>2. ASSUME x \in Upto(one, m) PROVE x \in Upto(both, m + n)
    <3>1. PICK i \in 1 .. m : x \in Of(one[i])
      BY <2>2 DEF Upto
    <3>2. i \in 1 .. m + n /\ both[i] = one[i]
      BY <1>1, <1>2
    <3>3. QED BY <3>1, <3>2 DEF Upto
  <2>3. ASSUME x \in Upto(two, n) PROVE x \in Upto(both, m + n)
    <3>1. PICK i \in 1 .. n : x \in Of(two[i])
      BY <2>3 DEF Upto
    <3>2. m + i \in 1 .. m + n /\ both[m + i] = two[i]
      BY <1>1, <1>2
    <3>3. QED BY <3>1, <3>2 DEF Upto
  <2>4. QED BY <2>1, <2>2, <2>3
<1>4. QED BY <1>1, <1>3, CoveredIs DEF both

\* A range that starts no earlier than the last is joined to it or follows it.
LEMMA JoinCovers ==
    ASSUME NEW done \in Redact!Lists, NEW r \in Spans,
           done # << >> => Redact!Last(done).start <= r.start
    PROVE  /\ Redact!Join(done, r) \in Redact!Lists /\ Redact!Join(done, r) # << >>
           /\ Redact!Last(Redact!Join(done, r)).start <= r.start
           /\ Redact!Covered(Redact!Join(done, r)) = Redact!Covered(done) \cup Of(r)
<1>1. r.start \in Nat /\ r.end \in Nat
  BY DEF Spans
<1>2. CASE ~(done # << >> /\ r.start <= Redact!Last(done).end + 1)
  <2>1. Redact!Join(done, r) = Append(done, r)
    BY <1>2 DEF Redact!Join, Redact!Last
  <2>2. Append(done, r) # << >> /\ Redact!Last(Append(done, r)) = r
    BY ListsFacts, AppendLast
  <2>3. QED BY <1>1, <2>1, <2>2, CoveredAppend
<1>3. CASE done # << >> /\ r.start <= Redact!Last(done).end + 1
  <2> DEFINE s == Redact!Last(done)
             e == IF r.end > s.end THEN r.end ELSE s.end
             new == Redact!Range_(s.start, e)
             front == Redact!Front(done)
  <2>1. /\ front \in Redact!Lists /\ s \in Spans
        /\ Redact!Covered(done) = Redact!Covered(front) \cup Of(s)
    BY <1>3, CoveredFront
  <2>2. Redact!Join(done, r) = Append(front, new)
    BY <1>3 DEF Redact!Join, Redact!Last, Redact!Front
  <2>3. s.start \in Nat /\ s.end \in Nat /\ e \in Nat
    BY <1>1, <2>1 DEF Spans
  <2>4. new \in Spans /\ new.start = s.start /\ Of(new) = s.start .. e
    BY <2>3, SpanFacts
  <2>5. s.start .. e = s.start .. s.end \cup r.start .. r.end
    BY <1>1, <1>3, <2>3
  <2>6. Of(new) = Of(s) \cup Of(r)
    BY <2>4, <2>5 DEF Of
  <2> HIDE DEF new, front, e
  <2>7. Append(front, new) # << >> /\ Redact!Last(Append(front, new)) = new
    BY <2>1, <2>4, ListsFacts, AppendLast
  <2>8. /\ Append(front, new) \in Redact!Lists
        /\ Redact!Covered(Append(front, new)) = Redact!Covered(front) \cup Of(new)
    BY <2>1, <2>4, CoveredAppend
  <2>9. QED BY <1>3, <2>1, <2>2, <2>4, <2>6, <2>7, <2>8
<1>4. QED BY <1>2, <1>3

\* Induction up to a bound
LEMMA Upwards ==
    ASSUME NEW n \in Nat, NEW T, 0 \in T, \A i \in 1 .. n : i - 1 \in T => i \in T
    PROVE  0 .. n \subseteq T
<1> DEFINE U == {i \in Nat : i <= n => i \in T}
<1>1. 0 \in U
  OBVIOUS
<1>2. ASSUME NEW i \in Nat, i \in U PROVE i + 1 \in U
  <2>1. i + 1 <= n => i + 1 \in 1 .. n /\ (i + 1) - 1 = i /\ i <= n
    OBVIOUS
  <2>2. QED BY <1>2, <2>1
<1> HIDE DEF U
<1>3. Nat \subseteq U
  BY <1>1, <1>2, Induction
<1>4. QED BY <1>3 DEF U

\* A range joined to a list, or put after it, leaves a list of ranges.
LEMMA JoinTyped ==
    ASSUME NEW done \in Redact!Lists, NEW r \in Spans
    PROVE  Redact!Join(done, r) \in Redact!Lists
<1>1. r.start \in Nat /\ r.end \in Nat
  BY DEF Spans
<1>2. CASE ~(done # << >> /\ r.start <= Redact!Last(done).end + 1)
  BY <1>2, CoveredAppend DEF Redact!Join
<1>3. CASE done # << >> /\ r.start <= Redact!Last(done).end + 1
  <2> DEFINE e == IF r.end > Redact!Last(done).end THEN r.end ELSE Redact!Last(done).end
             new == Redact!Range_(Redact!Last(done).start, e)
  <2>1. Redact!Front(done) \in Redact!Lists /\ Redact!Last(done) \in Spans
    BY <1>3, FrontLast
  <2>2. Redact!Last(done).start \in Nat /\ e \in Nat
    BY <1>1, <2>1 DEF Spans
  <2>3. new \in Spans
    BY <2>2, SpanFacts
  <2>4. Redact!Join(done, r) = Append(Redact!Front(done), new)
    BY <1>3 DEF Redact!Join
  <2> HIDE DEF new
  <2>5. QED BY <2>1, <2>3, <2>4, CoveredAppend
<1>4. QED BY <1>2, <1>3

LEMMA JoinedWalk ==
    ASSUME NEW list \in Redact!Lists
    PROVE  \E w \in [0 .. Len(list) -> Redact!Lists] :
             /\ w[0] = << >>
             /\ \A i \in 1 .. Len(list) : w[i] = Redact!Join(w[i - 1], list[i])
             /\ Redact!Joined(list) = w[Len(list)]
<1> DEFINE n == Len(list)
           base == << >>
           step == [p \in (1 .. n) \X Redact!Lists |-> Redact!Join(p[2], list[p[1]])]
           Good(g) == g = [i \in 0 .. n |-> IF i = 0 THEN base ELSE Redact!Join(g[i - 1], list[i])]
           w == CHOOSE g : Good(g)
<1>1. n \in Nat /\ base \in Redact!Lists
  BY ListsFacts
<1>2. \A i \in 1 .. n : \A x \in Redact!Lists : Redact!Join(x, list[i]) \in Redact!Lists
  BY ListsFacts, JoinTyped
<1>3. step \in Steps(n, Redact!Lists)
  BY <1>2 DEF Steps
<1>4. PICK g \in Walks(n, Redact!Lists) : Follows(g, n, base, step)
  <2> HIDE DEF step, n, base
  <2> QED BY <1>1, <1>3, Recursion
<1>5. \A i \in 0 .. n : g[i] = IF i = 0 THEN base ELSE Redact!Join(g[i - 1], list[i])
  <2> SUFFICES ASSUME NEW i \in 0 .. n PROVE g[i] = IF i = 0 THEN base ELSE Redact!Join(g[i - 1], list[i])
    OBVIOUS
  <2>1. CASE i = 0
    BY <1>4, <2>1 DEF Follows
  <2>2. CASE i # 0
    <3>1. i \in 1 .. n /\ i - 1 \in 0 .. n
      BY <1>1, <2>2
    <3>2. g[i - 1] \in Redact!Lists /\ g[i] = step[<<i, g[i - 1]>>]
      BY <1>4, <3>1 DEF Walks, Follows
    <3>3. <<i, g[i - 1]>> \in (1 .. n) \X Redact!Lists
      BY <3>1, <3>2
    <3>4. QED BY <2>2, <3>2, <3>3
  <2>3. QED BY <2>1, <2>2
<1>6. Good(g)
  <2> HIDE DEF base, step
  <2> QED BY <1>4, <1>5 DEF Walks
<1>7. Good(w)
  BY <1>6
<1>8. Redact!Joined(list) = w[Len(list)]
  BY DEF Redact!Joined
<1> HIDE DEF w
<1>9. w = [i \in 0 .. n |-> w[i]] /\ \A i \in 0 .. n : w[i] = IF i = 0 THEN base ELSE Redact!Join(w[i - 1], list[i])
  <2> HIDE DEF base
  <2>1. \A i \in 0 .. n : w[i] = IF i = 0 THEN base ELSE Redact!Join(w[i - 1], list[i])
    BY <1>7
  <2>2. QED BY <1>7, <2>1
<1>10. w[0] = base /\ \A i \in 1 .. n : w[i] = Redact!Join(w[i - 1], list[i])
  <2>1. 0 \in 0 .. n /\ \A i \in 1 .. n : i \in 0 .. n /\ i # 0
    BY <1>1
  <2> HIDE DEF base
  <2> QED BY <1>9, <2>1
<1>11. \A i \in 0 .. n : w[i] \in Redact!Lists
  <2> DEFINE Typed == {i \in Nat : w[i] \in Redact!Lists}
  <2>1. 0 \in Typed
    BY <1>1, <1>10
  <2>2. ASSUME NEW i \in 1 .. n, i - 1 \in Typed PROVE i \in Typed
    BY <1>2, <1>10, <2>2
  <2> HIDE DEF Typed
  <2>3. 0 .. n \subseteq Typed
    BY <1>1, <2>1, <2>2, Upwards
  <2>4. QED BY <2>3 DEF Typed
<1>12. QED BY <1>8, <1>9, <1>10, <1>11

\* One pass over a list in order loses nothing.
LEMMA JoinedCovers ==
    ASSUME NEW list \in Redact!Lists, Redact!Sorted(list)
    PROVE  /\ Redact!Joined(list) \in Redact!Lists
           /\ Redact!Covered(Redact!Joined(list)) = Redact!Covered(list)
<1> DEFINE n == Len(list)
<1>1. n \in Nat /\ \A i \in 1 .. n : list[i] \in Spans
  BY ListsFacts
<1>2. PICK w \in [0 .. n -> Redact!Lists] :
        /\ w[0] = << >> /\ \A i \in 1 .. n : w[i] = Redact!Join(w[i - 1], list[i])
        /\ Redact!Joined(list) = w[n]
  BY JoinedWalk
<1> DEFINE Good == {i \in 0 .. n :
               /\ Redact!Covered(w[i]) = Upto(list, i)
               /\ w[i] # << >> => i # 0 /\ Redact!Last(w[i]).start <= list[i].start}
<1>3. 0 \in Good
  <2>1. 0 \in 0 .. n /\ w[0] = << >> /\ Redact!Covered(w[0]) = {} /\ Upto(list, 0) = {}
    BY <1>1, <1>2, CoveredEmpty, UptoFacts
  <2>2. QED BY <2>1
<1>4. ASSUME NEW i \in 1 .. n, i - 1 \in Good PROVE i \in Good
  <2>1. /\ i - 1 \in 0 .. n /\ i \in 0 .. n /\ i # 0 /\ i - 1 \in Nat /\ (i - 1) + 1 = i
        /\ w[i - 1] \in Redact!Lists /\ list[i] \in Spans
        /\ i - 1 # 0 => i - 1 \in 1 .. n
    BY <1>1, <1>2
  <2>2. w[i - 1] # << >> => Redact!Last(w[i - 1]).start <= list[i].start
    <3> HAVE w[i - 1] # << >>
    <3>1. i - 1 \in 1 .. n /\ Redact!Last(w[i - 1]).start <= list[i - 1].start /\ Redact!Last(w[i - 1]) \in Spans
      BY <1>4, <2>1, FrontLast
    <3>2. list[i - 1].start <= list[i].start
      BY <3>1, ListsFacts DEF Redact!Sorted
    <3>3. Redact!Last(w[i - 1]).start \in Nat /\ list[i - 1].start \in Nat /\ list[i].start \in Nat
      BY <2>1, <3>1, ListsFacts DEF Spans
    <3>4. QED BY <3>1, <3>2, <3>3
  <2>3. w[i] = Redact!Join(w[i - 1], list[i])
    BY <1>2
  <2>4. /\ Redact!Covered(w[i]) = Redact!Covered(w[i - 1]) \cup Of(list[i])
        /\ Redact!Last(w[i]).start <= list[i].start
    BY <2>1, <2>2, <2>3, JoinCovers
  <2>5. Upto(list, i) = Upto(list, i - 1) \cup Of(list[i])
    BY <2>1, UptoFacts
  <2>6. QED BY <1>4, <2>1, <2>4, <2>5
<1> HIDE DEF Good
<1>5. n \in Good
  <2> HIDE DEF n
  <2>1. 0 .. n \subseteq Good
    BY <1>1, <1>3, <1>4, Upwards
  <2>2. QED BY <1>1, <2>1
<1>6. QED BY <1>1, <1>2, <1>5, CoveredIs DEF Good

\* Lists in order
Ordered == {list \in Redact!Lists : Redact!Sorted(list)}

LEMMA OrderedFacts == << >> \in Ordered
BY ListsFacts DEF Ordered, Redact!Sorted

Fits(done, r, k) ==
    /\ \A i \in 1 .. k : done[i].start <= r.start
    /\ \A i \in k + 1 .. Len(done) : done[i].start > r.start

\* Where a range goes
LEMMA PlaceFits ==
    ASSUME NEW done \in Ordered, NEW r \in Spans
    PROVE  \E k \in 0 .. Len(done) : Fits(done, r, k) /\ Redact!Place(done, r) = Redact!InsertAt(done, k + 1, r)
<1> DEFINE n == Len(done)
           Later == {i \in 1 .. n : done[i].start > r.start}
<1>1. /\ n \in Nat /\ r.start \in Nat /\ \A i \in 1 .. n : done[i].start \in Nat
      /\ \A i, j \in 1 .. n : i < j => done[i].start <= done[j].start
  BY ListsFacts DEF Ordered, Spans, Redact!Sorted
<1>2. \E k \in 0 .. n : Fits(done, r, k)
  <2>1. CASE Later = {}
    <3>1. \A i \in 1 .. n : done[i].start <= r.start
      BY <1>1, <2>1
    <3>2. n \in 0 .. n /\ \A i \in n + 1 .. n : FALSE
      BY <1>1
    <3>3. Fits(done, r, n)
      BY <3>1, <3>2 DEF Fits
    <3>4. QED BY <3>2, <3>3
  <2>2. CASE Later # {}
    <3>1. Later \in SUBSET Nat
      BY <1>1
    <3>2. PICK l \in Later : \A i \in Later : l <= i
      <4> HIDE DEF Later
      <4> QED BY <2>2, <3>1, Least
    <3>3. l \in 1 .. n /\ l - 1 \in 0 .. n /\ (l - 1) + 1 = l
      BY <1>1
    <3>4. \A i \in 1 .. l - 1 : done[i].start <= r.start
      <4> SUFFICES ASSUME NEW i \in 1 .. l - 1 PROVE done[i].start <= r.start
        OBVIOUS
      <4>1. i \in 1 .. n /\ ~(l <= i)
        BY <3>3
      <4>2. i \notin Later /\ done[i].start \in Nat
        BY <1>1, <3>2, <4>1
      <4>3. QED BY <1>1, <4>1, <4>2
    <3>5. \A i \in l .. n : done[i].start > r.start
      <4> SUFFICES ASSUME NEW i \in l .. n PROVE done[i].start > r.start
        OBVIOUS
      <4>1. done[l].start > r.start /\ i \in 1 .. n /\ (i = l \/ l < i)
        BY <3>2, <3>3
      <4>2. QED BY <1>1, <3>3, <4>1
    <3>6. Fits(done, r, l - 1)
      BY <3>3, <3>4, <3>5 DEF Fits
    <3>7. QED BY <3>3, <3>6
  <2>3. QED BY <2>1, <2>2
<1> DEFINE k == CHOOSE k \in 0 .. n : Fits(done, r, k)
<1>3. k \in 0 .. n /\ Fits(done, r, k)
  BY <1>2
<1>4. Redact!Place(done, r) = Redact!InsertAt(done, k + 1, r)
  BY DEF Redact!Place, Fits
<1>5. QED BY <1>3, <1>4

LEMMA InsertedAfter ==
    ASSUME NEW list, NEW k \in Nat, NEW r
    PROVE  Redact!InsertAt(list, k + 1, r) = (SubSeq(list, 1, k) \o <<r>>) \o SubSeq(list, k + 1, Len(list))
<1> DEFINE i == k + 1
<1>1. i - 1 = k
  OBVIOUS
<1> HIDE DEF i
<1>2. Redact!InsertAt(list, i, r) = (SubSeq(list, 1, i - 1) \o <<r>>) \o SubSeq(list, i, Len(list))
  BY Zenon DEF Redact!InsertAt
<1>3. Redact!InsertAt(list, i, r) = (SubSeq(list, 1, k) \o <<r>>) \o SubSeq(list, i, Len(list))
  BY <1>1, <1>2, Zenon
<1>4. QED BY <1>3 DEF i

LEMMA PlaceCovers ==
    ASSUME NEW done \in Ordered, NEW r \in Spans
    PROVE  /\ Redact!Place(done, r) \in Ordered
           /\ Redact!Covered(Redact!Place(done, r)) = Redact!Covered(done) \cup Of(r)
<1> DEFINE n == Len(done)
<1>1. PICK k \in 0 .. n : Fits(done, r, k) /\ Redact!Place(done, r) = Redact!InsertAt(done, k + 1, r)
  BY PlaceFits
<1> DEFINE front == SubSeq(done, 1, k)
           back == SubSeq(done, k + 1, n)
           first == Append(front, r)
           new == first \o back
<1>2. /\ n \in Nat /\ done \in Seq(Spans) /\ done \in Redact!Lists /\ k \in Nat /\ k <= n
      /\ \A i \in 1 .. n : done[i] \in Spans /\ done[i].start \in Nat
      /\ \A i, j \in 1 .. n : i < j => done[i].start <= done[j].start
      /\ r.start \in Nat
  <2>1. done \in Redact!Lists /\ Redact!Sorted(done) /\ n \in Nat /\ done \in Seq(Spans) /\ DOMAIN done = 1 .. n
    BY ListsFacts DEF Ordered
  <2>2. \A i \in 1 .. n : done[i] \in Spans /\ done[i].start \in Nat
    BY <2>1, ListsFacts
  <2>3. \A i, j \in 1 .. n : i < j => done[i].start <= done[j].start
    BY <2>1 DEF Redact!Sorted
  <2>4. r.start \in Nat
    BY DEF Spans
  <2>5. k \in Nat /\ k <= n
    BY <2>1
  <2>6. QED BY <2>1, <2>2, <2>3, <2>4, <2>5
<1>3. front \in Seq(Spans) /\ Len(front) = k /\ \A i \in 1 .. k : front[i] = done[i]
  <2>1. /\ front \in Seq(Spans)
        /\ Len(front) = IF 1 <= k THEN k - 1 + 1 ELSE 0
        /\ \A i \in 1 .. k - 1 + 1 : front[i] = done[1 + i - 1]
    <3>1. 1 \in Int /\ k \in Int /\ \A i \in 1 .. k : done[i] \in Spans
      BY <1>2
    <3>2. QED BY <3>1, SubSeqProperties
  <2>2. k - 1 + 1 = k /\ \A i \in 1 .. k : 1 + i - 1 = i
    BY <1>2
  <2> HIDE DEF front
  <2>3. Len(front) = k
    BY <1>2, <2>1
  <2>4. QED BY <2>1, <2>2, <2>3
<1>4. back \in Seq(Spans) /\ Len(back) = n - k /\ \A i \in 1 .. n - k : back[i] = done[k + i]
  <2>1. /\ back \in Seq(Spans)
        /\ Len(back) = IF k + 1 <= n THEN n - (k + 1) + 1 ELSE 0
        /\ \A i \in 1 .. n - (k + 1) + 1 : back[i] = done[k + 1 + i - 1]
    <3>1. n \in Int /\ k + 1 \in Int /\ \A i \in k + 1 .. n : done[i] \in Spans
      BY <1>2
    <3>2. QED BY <3>1, SubSeqProperties
  <2>2. n - (k + 1) + 1 = n - k /\ \A i \in 1 .. n - k : k + 1 + i - 1 = k + i
    BY <1>2
  <2> HIDE DEF back, n
  <2>3. Len(back) = n - k
    BY <1>2, <2>1
  <2>4. QED BY <2>1, <2>2, <2>3
<1>5. Redact!Place(done, r) = new
  <2>1. k + 1 - 1 = k /\ front \o <<r>> = first
    <3>1. front \o <<r>> = first
      BY <1>3, AppendIsConcat
    <3>2. QED BY <1>2, <3>1
  <2>2. Redact!InsertAt(done, k + 1, r) = (front \o <<r>>) \o back
    BY <1>2, InsertedAfter DEF front, back, n
  <2> HIDE DEF first, front, back, n
  <2>3. QED BY <1>1, <2>1, <2>2
<1>6. front \o back = done
  <2> HIDE DEF front, back, n
  <2>1. /\ front \o back \in Seq(Spans) /\ Len(front \o back) = k + (n - k)
        /\ \A i \in 1 .. k : (front \o back)[i] = front[i]
        /\ \A i \in 1 .. n - k : (front \o back)[k + i] = back[i]
    <3>1. front \in Redact!Lists /\ back \in Redact!Lists
      BY <1>3, <1>4, ListsFacts
    <3>2. /\ front \o back \in Redact!Lists /\ Len(front \o back) = Len(front) + Len(back)
          /\ \A i \in 1 .. Len(front) : (front \o back)[i] = front[i]
          /\ \A i \in 1 .. Len(back) : (front \o back)[Len(front) + i] = back[i]
      BY <3>1, Halves
    <3>3. Len(front) = k /\ Len(back) = n - k
      BY <1>3, <1>4
    <3>4. front \o back \in Seq(Spans)
      BY <3>2, ListsFacts
    <3>5. QED BY <3>2, <3>3, <3>4
  <2>2. \A i \in 1 .. n : i \in 1 .. k \/ (i - k \in 1 .. n - k /\ k + (i - k) = i)
    BY <1>2
  <2>3. \A i \in 1 .. n : (front \o back)[i] = done[i]
    BY <1>3, <1>4, <2>1, <2>2
  <2>4. k + (n - k) = n
    BY <1>2
  <2>5. QED BY <1>2, <2>1, <2>3, <2>4, SeqEqual DEF n
<1> HIDE DEF front, back, n
<1>7. /\ first \in Redact!Lists /\ Redact!Covered(first) = Redact!Covered(front) \cup Of(r)
      /\ Len(first) = k + 1 /\ first[k + 1] = r /\ \A i \in 1 .. k : first[i] = done[i]
  BY <1>3, ListsFacts, CoveredAppend, AppendProperties
<1> HIDE DEF first
<1>8. /\ new \in Redact!Lists /\ Len(new) = n + 1
      /\ \A i \in 1 .. k : new[i] = done[i]
      /\ new[k + 1] = r
      /\ \A i \in k + 2 .. n + 1 : new[i] = done[i - 1]
  <2>1. /\ new \in Redact!Lists /\ Len(new) = (k + 1) + (n - k)
        /\ \A i \in 1 .. k + 1 : new[i] = first[i]
        /\ \A i \in 1 .. n - k : new[k + 1 + i] = back[i]
    <3>1. back \in Redact!Lists
      BY <1>4, ListsFacts
    <3>2. /\ new \in Redact!Lists /\ Len(new) = Len(first) + Len(back)
          /\ \A i \in 1 .. Len(first) : new[i] = first[i]
          /\ \A i \in 1 .. Len(back) : new[Len(first) + i] = back[i]
      BY <1>7, <3>1, Halves
    <3>3. Len(first) = k + 1 /\ Len(back) = n - k
      BY <1>4, <1>7
    <3> HIDE DEF new
    <3>4. QED BY <3>2, <3>3
  <2> HIDE DEF new
  <2>2. (k + 1) + (n - k) = n + 1 /\ k + 1 \in 1 .. k + 1 /\ \A i \in 1 .. k : i \in 1 .. k + 1
    BY <1>2
  <2>3. ASSUME NEW i \in k + 2 .. n + 1 PROVE new[i] = done[i - 1]
    <3>1. i - (k + 1) \in 1 .. n - k /\ k + 1 + (i - (k + 1)) = i /\ k + (i - (k + 1)) = i - 1
      BY <1>2
    <3>2. new[i] = back[i - (k + 1)]
      BY <2>1, <3>1
    <3>3. QED BY <1>4, <3>1, <3>2
  <2>4. QED BY <1>7, <2>1, <2>2, <2>3
<1>9. Redact!Covered(new) = Redact!Covered(done) \cup Of(r)
  <2>1. front \in Redact!Lists /\ back \in Redact!Lists
    BY <1>3, <1>4, ListsFacts
  <2>2. Redact!Covered(done) = Redact!Covered(front) \cup Redact!Covered(back)
    BY <1>6, <2>1, CoveredConcat
  <2>3. Redact!Covered(new) = Redact!Covered(first) \cup Redact!Covered(back)
    BY <1>7, <2>1, CoveredConcat
  <2>4. QED BY <1>7, <2>2, <2>3
<1> HIDE DEF new
<1>10. Redact!Sorted(new)
  <2>1. DOMAIN new = 1 .. n + 1
    BY <1>8, ListsFacts
  <2>2. /\ \A i \in 1 .. k : done[i].start <= r.start
        /\ \A i \in k + 1 .. n : r.start <= done[i].start
    <3>1. \A i \in k + 1 .. n : done[i].start > r.start /\ done[i].start \in Nat
      BY <1>1, <1>2 DEF Fits, n
    <3>2. QED BY <1>1, <1>2, <3>1 DEF Fits
  <2> SUFFICES ASSUME NEW i \in 1 .. n + 1, NEW j \in 1 .. n + 1, i < j
               PROVE  new[i].start <= new[j].start
    BY <2>1 DEF Redact!Sorted
  <2>3. CASE j <= k
    <3>1. i \in 1 .. k /\ j \in 1 .. k /\ i \in 1 .. n /\ j \in 1 .. n
      BY <1>2, <2>3
    <3>2. QED BY <1>2, <1>8, <3>1
  <2>4. CASE j = k + 1
    <3>1. i \in 1 .. k
      BY <1>2, <2>4
    <3>2. QED BY <1>8, <2>2, <2>4, <3>1
  <2>5. CASE j > k + 1
    <3>1. j \in k + 2 .. n + 1 /\ j - 1 \in k + 1 .. n /\ j - 1 \in 1 .. n
      BY <1>2, <2>5
    <3>2. CASE i <= k
      <4>1. i \in 1 .. k /\ i \in 1 .. n /\ i < j - 1
        BY <1>2, <2>5, <3>2
      <4>2. QED BY <1>2, <1>8, <3>1, <4>1
    <3>3. CASE i = k + 1
      BY <1>8, <2>2, <3>1, <3>3
    <3>4. CASE i > k + 1
      <4>1. i \in k + 2 .. n + 1 /\ i - 1 \in 1 .. n /\ i - 1 < j - 1
        BY <1>2, <3>4
      <4>2. QED BY <1>2, <1>8, <3>1, <4>1
    <3>5. QED BY <1>2, <3>2, <3>3, <3>4
  <2>6. k \in Nat /\ j \in Nat
    BY <1>2
  <2>7. QED BY <2>3, <2>4, <2>5, <2>6
<1>11. QED BY <1>5, <1>8, <1>9, <1>10 DEF Ordered

LEMMA PlacedWalk ==
    ASSUME NEW list \in Redact!Lists
    PROVE  \E w \in [0 .. Len(list) -> Ordered] :
             /\ w[0] = << >>
             /\ \A i \in 1 .. Len(list) : w[i] = Redact!Place(w[i - 1], list[i])
             /\ Redact!ByStart(list) = w[Len(list)]
<1> DEFINE n == Len(list)
           base == << >>
           step == [p \in (1 .. n) \X Ordered |-> Redact!Place(p[2], list[p[1]])]
           Good(g) == g = [i \in 0 .. n |-> IF i = 0 THEN base ELSE Redact!Place(g[i - 1], list[i])]
           w == CHOOSE g : Good(g)
<1>1. n \in Nat /\ base \in Ordered
  BY ListsFacts, OrderedFacts
<1>2. \A i \in 1 .. n : \A x \in Ordered : Redact!Place(x, list[i]) \in Ordered
  BY ListsFacts, PlaceCovers
<1>3. step \in Steps(n, Ordered)
  BY <1>2 DEF Steps
<1>4. PICK g \in Walks(n, Ordered) : Follows(g, n, base, step)
  <2> HIDE DEF step, n, base
  <2> QED BY <1>1, <1>3, Recursion
<1>5. \A i \in 0 .. n : g[i] = IF i = 0 THEN base ELSE Redact!Place(g[i - 1], list[i])
  <2> SUFFICES ASSUME NEW i \in 0 .. n PROVE g[i] = IF i = 0 THEN base ELSE Redact!Place(g[i - 1], list[i])
    OBVIOUS
  <2>1. CASE i = 0
    BY <1>4, <2>1 DEF Follows
  <2>2. CASE i # 0
    <3>1. i \in 1 .. n /\ i - 1 \in 0 .. n
      BY <1>1, <2>2
    <3>2. g[i - 1] \in Ordered /\ g[i] = step[<<i, g[i - 1]>>]
      BY <1>4, <3>1 DEF Walks, Follows
    <3>3. <<i, g[i - 1]>> \in (1 .. n) \X Ordered
      BY <3>1, <3>2
    <3>4. QED BY <2>2, <3>2, <3>3
  <2>3. QED BY <2>1, <2>2
<1>6. Good(g)
  <2> HIDE DEF base, step
  <2> QED BY <1>4, <1>5 DEF Walks
<1>7. Good(w)
  BY <1>6
<1>8. Redact!ByStart(list) = w[Len(list)]
  BY DEF Redact!ByStart
<1> HIDE DEF w
<1>9. w = [i \in 0 .. n |-> w[i]] /\ \A i \in 0 .. n : w[i] = IF i = 0 THEN base ELSE Redact!Place(w[i - 1], list[i])
  <2> HIDE DEF base
  <2>1. \A i \in 0 .. n : w[i] = IF i = 0 THEN base ELSE Redact!Place(w[i - 1], list[i])
    BY <1>7
  <2>2. QED BY <1>7, <2>1
<1>10. w[0] = base /\ \A i \in 1 .. n : w[i] = Redact!Place(w[i - 1], list[i])
  <2>1. 0 \in 0 .. n /\ \A i \in 1 .. n : i \in 0 .. n /\ i # 0
    BY <1>1
  <2> HIDE DEF base
  <2> QED BY <1>9, <2>1
<1>11. \A i \in 0 .. n : w[i] \in Ordered
  <2> DEFINE Typed == {i \in Nat : w[i] \in Ordered}
  <2>1. 0 \in Typed
    BY <1>1, <1>10
  <2>2. ASSUME NEW i \in 1 .. n, i - 1 \in Typed PROVE i \in Typed
    BY <1>2, <1>10, <2>2
  <2> HIDE DEF Typed
  <2>3. 0 .. n \subseteq Typed
    BY <1>1, <2>1, <2>2, Upwards
  <2>4. QED BY <2>3 DEF Typed
<1>12. QED BY <1>8, <1>9, <1>10, <1>11

\* The insertion sort loses nothing.
LEMMA ByStartCovers ==
    ASSUME NEW list \in Redact!Lists
    PROVE  /\ Redact!ByStart(list) \in Redact!Lists /\ Redact!Sorted(Redact!ByStart(list))
           /\ Redact!Covered(Redact!ByStart(list)) = Redact!Covered(list)
<1> DEFINE n == Len(list)
<1>1. n \in Nat /\ \A i \in 1 .. n : list[i] \in Spans
  BY ListsFacts
<1>2. PICK w \in [0 .. n -> Ordered] :
        /\ w[0] = << >> /\ \A i \in 1 .. n : w[i] = Redact!Place(w[i - 1], list[i])
        /\ Redact!ByStart(list) = w[n]
  BY PlacedWalk
<1> DEFINE Good == {i \in 0 .. n : Redact!Covered(w[i]) = Upto(list, i)}
<1>3. 0 \in Good
  <2>1. 0 \in 0 .. n /\ w[0] = << >> /\ Redact!Covered(w[0]) = {} /\ Upto(list, 0) = {}
    BY <1>1, <1>2, CoveredEmpty, UptoFacts
  <2>2. QED BY <2>1
<1>4. ASSUME NEW i \in 1 .. n, i - 1 \in Good PROVE i \in Good
  <2>1. /\ i - 1 \in 0 .. n /\ i \in 0 .. n /\ i - 1 \in Nat /\ (i - 1) + 1 = i
        /\ w[i - 1] \in Ordered /\ list[i] \in Spans
    BY <1>1, <1>2
  <2>2. w[i] = Redact!Place(w[i - 1], list[i])
    BY <1>2
  <2>3. Redact!Covered(w[i]) = Redact!Covered(w[i - 1]) \cup Of(list[i])
    BY <2>1, <2>2, PlaceCovers
  <2>4. Upto(list, i) = Upto(list, i - 1) \cup Of(list[i])
    BY <2>1, UptoFacts
  <2>5. QED BY <1>4, <2>1, <2>3, <2>4
<1> HIDE DEF Good
<1>5. n \in Good
  <2> HIDE DEF n
  <2>1. 0 .. n \subseteq Good
    BY <1>1, <1>3, <1>4, Upwards
  <2>2. QED BY <1>1, <2>1
<1>6. w[n] \in Ordered
  BY <1>1, <1>2
<1>7. QED BY <1>2, <1>5, <1>6, CoveredIs DEF Good, Ordered

\* Merging two lists, the second of them sorted, covers what either does.
LEMMA MergedCovers ==
    ASSUME NEW one \in Redact!Lists, NEW two \in Redact!Lists, Redact!Sorted(two)
    PROVE  /\ Redact!Merged(one, two) \in Redact!Lists
           /\ Redact!Covered(Redact!Merged(one, two)) = Redact!Covered(one) \cup Redact!Covered(two)
<1> DEFINE second == Redact!Joined(two)
           both == one \o second
           ordered == Redact!ByStart(both)
<1>1. second \in Redact!Lists /\ Redact!Covered(second) = Redact!Covered(two)
  BY JoinedCovers
<1> HIDE DEF second
<1>2. both \in Redact!Lists /\ Redact!Covered(both) = Redact!Covered(one) \cup Redact!Covered(second)
  BY <1>1, CoveredConcat
<1> HIDE DEF both
<1>3. ordered \in Redact!Lists /\ Redact!Sorted(ordered) /\ Redact!Covered(ordered) = Redact!Covered(both)
  BY <1>2, ByStartCovers
<1> HIDE DEF ordered
<1>4. Redact!Joined(ordered) \in Redact!Lists /\ Redact!Covered(Redact!Joined(ordered)) = Redact!Covered(ordered)
  BY <1>3, JoinedCovers
<1>5. Redact!Merged(one, two) = Redact!Joined(ordered)
  BY DEF Redact!Merged, ordered, both, second
<1>6. QED BY <1>1, <1>2, <1>3, <1>4, <1>5

\* One range, or none
LEMMA CoveredOne ==
    ASSUME NEW r \in Spans
    PROVE  <<r>> \in Redact!Lists /\ Redact!Covered(<<r>>) = Of(r)
<1> DEFINE none == << >>
           more == Append(none, r)
<1>1. none \in Redact!Lists /\ Redact!Covered(none) = {}
  BY ListsFacts, CoveredEmpty
<1> HIDE DEF none
<1>2. more \in Redact!Lists /\ Redact!Covered(more) = Redact!Covered(none) \cup Of(r)
  BY <1>1, CoveredAppend
<1>3. more = <<r>>
  BY DEF none
<1> HIDE DEF more
<1>4. QED BY <1>1, <1>2, <1>3

\* What is left of a range
LEMMA OutsideCovers ==
    ASSUME NEW r \in Spans, NEW cut \in Spans
    PROVE  /\ Redact!Outside(r, cut) \in Redact!Lists
           /\ Redact!Covered(Redact!Outside(r, cut)) = Of(r) \ Of(cut)
<1> DEFINE low == IF cut.start > r.start THEN <<Redact!Range_(r.start, cut.start - 1)>> ELSE << >>
           high == IF cut.end < r.end THEN <<Redact!Range_(cut.end + 1, r.end)>> ELSE << >>
<1>1. r.start \in Nat /\ r.end \in Nat /\ cut.start \in Nat /\ cut.end \in Nat
  BY DEF Spans
<1>2. CASE cut.end < r.start \/ cut.start > r.end
  <2>1. Redact!Outside(r, cut) = <<r>>
    BY <1>2 DEF Redact!Outside
  <2>2. r.start .. r.end \cap cut.start .. cut.end = {}
    BY <1>1, <1>2
  <2>3. QED BY <2>1, <2>2, CoveredOne DEF Of
<1>3. CASE ~(cut.end < r.start \/ cut.start > r.end)
  <2>1. Redact!Outside(r, cut) = low \o high
    BY <1>3 DEF Redact!Outside
  <2>2. low \in Redact!Lists /\ Redact!Covered(low) = {i \in r.start .. r.end : i < cut.start}
    <3>1. CASE cut.start > r.start
      <4> DEFINE s == Redact!Range_(r.start, cut.start - 1)
      <4>1. cut.start - 1 \in Nat
        BY <1>1, <3>1
      <4>2. s \in Spans /\ Of(s) = r.start .. cut.start - 1
        BY <1>1, <4>1, SpanFacts
      <4>3. low = <<s>>
        BY <3>1
      <4> HIDE DEF s, low
      <4>4. low \in Redact!Lists /\ Redact!Covered(low) = r.start .. cut.start - 1
        BY <4>2, <4>3, CoveredOne
      <4>5. r.start .. cut.start - 1 = {i \in r.start .. r.end : i < cut.start}
        BY <1>1, <1>3
      <4>6. QED BY <4>4, <4>5
    <3>2. CASE ~(cut.start > r.start)
      <4>1. {i \in r.start .. r.end : i < cut.start} = {}
        BY <1>1, <3>2
      <4>2. QED BY <3>2, <4>1, CoveredEmpty, ListsFacts
    <3>3. QED BY <3>1, <3>2
  <2>3. high \in Redact!Lists /\ Redact!Covered(high) = {i \in r.start .. r.end : i > cut.end}
    <3>1. CASE cut.end < r.end
      <4> DEFINE s == Redact!Range_(cut.end + 1, r.end)
      <4>1. s \in Spans /\ Of(s) = cut.end + 1 .. r.end
        BY <1>1, SpanFacts
      <4>2. high = <<s>>
        BY <3>1
      <4> HIDE DEF s, high
      <4>3. high \in Redact!Lists /\ Redact!Covered(high) = cut.end + 1 .. r.end
        BY <4>1, <4>2, CoveredOne
      <4>4. cut.end + 1 .. r.end = {i \in r.start .. r.end : i > cut.end}
        BY <1>1, <1>3
      <4>5. QED BY <4>3, <4>4
    <3>2. CASE ~(cut.end < r.end)
      <4>1. {i \in r.start .. r.end : i > cut.end} = {}
        BY <1>1, <3>2
      <4>2. QED BY <3>2, <4>1, CoveredEmpty, ListsFacts
    <3>3. QED BY <3>1, <3>2
  <2> HIDE DEF low, high
  <2>4. low \o high \in Redact!Lists /\ Redact!Covered(low \o high) = Redact!Covered(low) \cup Redact!Covered(high)
    BY <2>2, <2>3, CoveredConcat
  <2>5. {i \in r.start .. r.end : i < cut.start} \cup {i \in r.start .. r.end : i > cut.end}
        = (r.start .. r.end) \ (cut.start .. cut.end)
    BY <1>1
  <2>6. QED BY <2>1, <2>2, <2>3, <2>4, <2>5 DEF Of
<1>4. QED BY <1>2, <1>3

LEMMA CutWalk ==
    ASSUME NEW list \in Redact!Lists, NEW cut \in Spans
    PROVE  \E w \in [0 .. Len(list) -> Redact!Lists] :
             /\ w[0] = << >>
             /\ \A i \in 1 .. Len(list) : w[i] = w[i - 1] \o Redact!Outside(list[i], cut)
             /\ Redact!Cut(list, cut) = w[Len(list)]
<1> DEFINE n == Len(list)
           base == << >>
           step == [p \in (1 .. n) \X Redact!Lists |-> p[2] \o Redact!Outside(list[p[1]], cut)]
           Good(g) == g = [i \in 0 .. n |-> IF i = 0 THEN base ELSE g[i - 1] \o Redact!Outside(list[i], cut)]
           w == CHOOSE g : Good(g)
<1>1. n \in Nat /\ base \in Redact!Lists
  BY ListsFacts
<1>2. \A i \in 1 .. n : \A x \in Redact!Lists : x \o Redact!Outside(list[i], cut) \in Redact!Lists
  BY ListsFacts, OutsideCovers, CoveredConcat
<1>3. step \in Steps(n, Redact!Lists)
  BY <1>2 DEF Steps
<1>4. PICK g \in Walks(n, Redact!Lists) : Follows(g, n, base, step)
  <2> HIDE DEF step, n, base
  <2> QED BY <1>1, <1>3, Recursion
<1>5. \A i \in 0 .. n : g[i] = IF i = 0 THEN base ELSE g[i - 1] \o Redact!Outside(list[i], cut)
  <2> SUFFICES ASSUME NEW i \in 0 .. n PROVE g[i] = IF i = 0 THEN base ELSE g[i - 1] \o Redact!Outside(list[i], cut)
    OBVIOUS
  <2>1. CASE i = 0
    BY <1>4, <2>1 DEF Follows
  <2>2. CASE i # 0
    <3>1. i \in 1 .. n /\ i - 1 \in 0 .. n
      BY <1>1, <2>2
    <3>2. g[i - 1] \in Redact!Lists /\ g[i] = step[<<i, g[i - 1]>>]
      BY <1>4, <3>1 DEF Walks, Follows
    <3>3. <<i, g[i - 1]>> \in (1 .. n) \X Redact!Lists
      BY <3>1, <3>2
    <3>4. QED BY <2>2, <3>2, <3>3
  <2>3. QED BY <2>1, <2>2
<1>6. Good(g)
  <2> HIDE DEF base, step
  <2> QED BY <1>4, <1>5 DEF Walks
<1>7. Good(w)
  BY <1>6
<1>8. Redact!Cut(list, cut) = w[Len(list)]
  BY DEF Redact!Cut
<1> HIDE DEF w
<1>9. w = [i \in 0 .. n |-> w[i]] /\ \A i \in 0 .. n : w[i] = IF i = 0 THEN base ELSE w[i - 1] \o Redact!Outside(list[i], cut)
  <2> HIDE DEF base
  <2>1. \A i \in 0 .. n : w[i] = IF i = 0 THEN base ELSE w[i - 1] \o Redact!Outside(list[i], cut)
    BY <1>7
  <2>2. QED BY <1>7, <2>1
<1>10. w[0] = base /\ \A i \in 1 .. n : w[i] = w[i - 1] \o Redact!Outside(list[i], cut)
  <2>1. 0 \in 0 .. n /\ \A i \in 1 .. n : i \in 0 .. n /\ i # 0
    BY <1>1
  <2> HIDE DEF base
  <2> QED BY <1>9, <2>1
<1>11. \A i \in 0 .. n : w[i] \in Redact!Lists
  <2> DEFINE Typed == {i \in Nat : w[i] \in Redact!Lists}
  <2>1. 0 \in Typed
    BY <1>1, <1>10
  <2>2. ASSUME NEW i \in 1 .. n, i - 1 \in Typed PROVE i \in Typed
    <3>1. i \in Nat /\ w[i - 1] \in Redact!Lists
      BY <1>1, <2>2
    <3>2. w[i - 1] \o Redact!Outside(list[i], cut) \in Redact!Lists
      BY <1>2, <3>1
    <3>3. w[i] \in Redact!Lists
      BY <1>10, <3>2
    <3>4. QED BY <3>1, <3>3
  <2> HIDE DEF Typed
  <2>3. 0 .. n \subseteq Typed
    BY <1>1, <2>1, <2>2, Upwards
  <2>4. QED BY <2>3 DEF Typed
<1>12. QED BY <1>8, <1>9, <1>10, <1>11

\* What is left of a list outside a range
LEMMA CutCovers ==
    ASSUME NEW list \in Redact!Lists, NEW cut \in Spans
    PROVE  /\ Redact!Cut(list, cut) \in Redact!Lists
           /\ Redact!Covered(Redact!Cut(list, cut)) = Redact!Covered(list) \ Of(cut)
<1> DEFINE n == Len(list)
<1>1. n \in Nat /\ \A i \in 1 .. n : list[i] \in Spans
  BY ListsFacts
<1>2. PICK w \in [0 .. n -> Redact!Lists] :
        /\ w[0] = << >> /\ \A i \in 1 .. n : w[i] = w[i - 1] \o Redact!Outside(list[i], cut)
        /\ Redact!Cut(list, cut) = w[n]
  BY CutWalk
<1> DEFINE Good == {i \in 0 .. n : Redact!Covered(w[i]) = Upto(list, i) \ Of(cut)}
<1>3. 0 \in Good
  <2>1. 0 \in 0 .. n /\ w[0] = << >> /\ Redact!Covered(w[0]) = {} /\ Upto(list, 0) = {}
    BY <1>1, <1>2, CoveredEmpty, UptoFacts
  <2>2. QED BY <2>1
<1>4. ASSUME NEW i \in 1 .. n, i - 1 \in Good PROVE i \in Good
  <2>1. /\ i - 1 \in 0 .. n /\ i \in 0 .. n /\ i - 1 \in Nat /\ (i - 1) + 1 = i
        /\ w[i - 1] \in Redact!Lists /\ list[i] \in Spans
    BY <1>1, <1>2
  <2>2. w[i] = w[i - 1] \o Redact!Outside(list[i], cut)
    BY <1>2
  <2>3. /\ Redact!Outside(list[i], cut) \in Redact!Lists
        /\ Redact!Covered(Redact!Outside(list[i], cut)) = Of(list[i]) \ Of(cut)
    BY <2>1, OutsideCovers
  <2>4. Redact!Covered(w[i]) = Redact!Covered(w[i - 1]) \cup Redact!Covered(Redact!Outside(list[i], cut))
    BY <2>1, <2>2, <2>3, CoveredConcat
  <2>5. Upto(list, i) = Upto(list, i - 1) \cup Of(list[i])
    BY <2>1, UptoFacts
  <2>6. Redact!Covered(w[i - 1]) = Upto(list, i - 1) \ Of(cut)
    BY <1>4
  <2>7. Redact!Covered(w[i]) = Upto(list, i) \ Of(cut)
    BY <2>3, <2>4, <2>5, <2>6, Zenon
  <2>8. QED BY <2>1, <2>7
<1> HIDE DEF Good
<1>5. n \in Good
  <2> HIDE DEF n
  <2>1. 0 .. n \subseteq Good
    BY <1>1, <1>3, <1>4, Upwards
  <2>2. QED BY <1>1, <2>1
<1>6. QED BY <1>1, <1>2, <1>5, CoveredIs DEF Good

LEMMA LeftWalk ==
    ASSUME NEW current \in Redact!Lists, NEW new \in Redact!Lists
    PROVE  \E w \in [0 .. Len(new) -> Redact!Lists] :
             /\ w[0] = current
             /\ \A i \in 1 .. Len(new) : w[i] = Redact!Cut(w[i - 1], new[i])
             /\ Redact!Left(current, new) = Redact!Merged(w[Len(new)], << >>)
<1> DEFINE n == Len(new)
           base == current
           step == [p \in (1 .. n) \X Redact!Lists |-> Redact!Cut(p[2], new[p[1]])]
           Good(g) == g = [i \in 0 .. n |-> IF i = 0 THEN base ELSE Redact!Cut(g[i - 1], new[i])]
           w == CHOOSE g : Good(g)
<1>1. n \in Nat /\ base \in Redact!Lists
  BY ListsFacts
<1>2. \A i \in 1 .. n : \A x \in Redact!Lists : Redact!Cut(x, new[i]) \in Redact!Lists
  BY ListsFacts, CutCovers
<1>3. step \in Steps(n, Redact!Lists)
  BY <1>2 DEF Steps
<1>4. PICK g \in Walks(n, Redact!Lists) : Follows(g, n, base, step)
  <2> HIDE DEF step, n, base
  <2> QED BY <1>1, <1>3, Recursion
<1>5. \A i \in 0 .. n : g[i] = IF i = 0 THEN base ELSE Redact!Cut(g[i - 1], new[i])
  <2> SUFFICES ASSUME NEW i \in 0 .. n PROVE g[i] = IF i = 0 THEN base ELSE Redact!Cut(g[i - 1], new[i])
    OBVIOUS
  <2>1. CASE i = 0
    BY <1>4, <2>1 DEF Follows
  <2>2. CASE i # 0
    <3>1. i \in 1 .. n /\ i - 1 \in 0 .. n
      BY <1>1, <2>2
    <3>2. g[i - 1] \in Redact!Lists /\ g[i] = step[<<i, g[i - 1]>>]
      BY <1>4, <3>1 DEF Walks, Follows
    <3>3. <<i, g[i - 1]>> \in (1 .. n) \X Redact!Lists
      BY <3>1, <3>2
    <3>4. QED BY <2>2, <3>2, <3>3
  <2>3. QED BY <2>1, <2>2
<1>6. Good(g)
  <2> HIDE DEF base, step
  <2> QED BY <1>4, <1>5 DEF Walks
<1>7. Good(w)
  BY <1>6
<1>8. Redact!Left(current, new) = Redact!Merged(w[Len(new)], << >>)
  BY DEF Redact!Left
<1> HIDE DEF w
<1>9. w = [i \in 0 .. n |-> w[i]] /\ \A i \in 0 .. n : w[i] = IF i = 0 THEN base ELSE Redact!Cut(w[i - 1], new[i])
  <2> HIDE DEF base
  <2>1. \A i \in 0 .. n : w[i] = IF i = 0 THEN base ELSE Redact!Cut(w[i - 1], new[i])
    BY <1>7
  <2>2. QED BY <1>7, <2>1
<1>10. w[0] = base /\ \A i \in 1 .. n : w[i] = Redact!Cut(w[i - 1], new[i])
  <2>1. 0 \in 0 .. n /\ \A i \in 1 .. n : i \in 0 .. n /\ i # 0
    BY <1>1
  <2> HIDE DEF base
  <2> QED BY <1>9, <2>1
<1>11. \A i \in 0 .. n : w[i] \in Redact!Lists
  <2> DEFINE Typed == {i \in Nat : w[i] \in Redact!Lists}
  <2>1. 0 \in Typed
    BY <1>1, <1>10
  <2>2. ASSUME NEW i \in 1 .. n, i - 1 \in Typed PROVE i \in Typed
    BY <1>2, <1>10, <2>2
  <2> HIDE DEF Typed
  <2>3. 0 .. n \subseteq Typed
    BY <1>1, <2>1, <2>2, Upwards
  <2>4. QED BY <2>3 DEF Typed
<1>12. QED BY <1>8, <1>9, <1>10, <1>11

\* get_new_temporary_redaction leaves what is not redacted.
LEMMA LeftCovers ==
    ASSUME NEW current \in Redact!Lists, NEW new \in Redact!Lists
    PROVE  /\ Redact!Left(current, new) \in Redact!Lists
           /\ Redact!Covered(Redact!Left(current, new)) = Redact!Covered(current) \ Redact!Covered(new)
<1> DEFINE n == Len(new)
           all == Redact!Covered(current)
<1>1. n \in Nat /\ \A i \in 1 .. n : new[i] \in Spans
  BY ListsFacts
<1>2. PICK w \in [0 .. n -> Redact!Lists] :
        /\ w[0] = current /\ \A i \in 1 .. n : w[i] = Redact!Cut(w[i - 1], new[i])
        /\ Redact!Left(current, new) = Redact!Merged(w[n], << >>)
  BY LeftWalk
<1> HIDE DEF all
<1> DEFINE Good == {i \in 0 .. n : Redact!Covered(w[i]) = all \ Upto(new, i)}
<1>3. 0 \in Good
  <2>1. 0 \in 0 .. n /\ Redact!Covered(w[0]) = all /\ Upto(new, 0) = {}
    BY <1>1, <1>2, UptoFacts DEF all
  <2>2. QED BY <2>1
<1>4. ASSUME NEW i \in 1 .. n, i - 1 \in Good PROVE i \in Good
  <2>1. /\ i - 1 \in 0 .. n /\ i \in 0 .. n /\ i - 1 \in Nat /\ (i - 1) + 1 = i
        /\ w[i - 1] \in Redact!Lists /\ new[i] \in Spans
    BY <1>1, <1>2
  <2>2. w[i] = Redact!Cut(w[i - 1], new[i])
    BY <1>2
  <2>3. Redact!Covered(w[i]) = Redact!Covered(w[i - 1]) \ Of(new[i])
    BY <2>1, <2>2, CutCovers
  <2>4. Upto(new, i) = Upto(new, i - 1) \cup Of(new[i])
    BY <2>1, UptoFacts
  <2>5. Redact!Covered(w[i - 1]) = all \ Upto(new, i - 1)
    BY <1>4
  <2>6. Redact!Covered(w[i]) = all \ Upto(new, i)
    BY <2>3, <2>4, <2>5, Zenon
  <2>7. QED BY <2>1, <2>6
<1> HIDE DEF Good
<1>5. n \in Good
  <2> HIDE DEF n
  <2>1. 0 .. n \subseteq Good
    BY <1>1, <1>3, <1>4, Upwards
  <2>2. QED BY <1>1, <2>1
<1>6. Redact!Covered(w[n]) = all \ Redact!Covered(new)
  BY <1>1, <1>5, CoveredIs DEF Good
<1>7. << >> \in Redact!Lists /\ Redact!Sorted(<< >>) /\ Redact!Covered(<< >>) = {}
  BY ListsFacts, OrderedFacts, CoveredEmpty DEF Ordered
<1>8. w[n] \in Redact!Lists
  BY <1>1, <1>2
<1> DEFINE none == << >>
<1>9. /\ Redact!Merged(w[n], none) \in Redact!Lists
      /\ Redact!Covered(Redact!Merged(w[n], none)) = Redact!Covered(w[n]) \cup Redact!Covered(none)
  <2> HIDE DEF none, n
  <2>1. none \in Redact!Lists /\ Redact!Sorted(none)
    BY <1>7 DEF none
  <2>2. QED BY <1>8, <2>1, MergedCovers
<1>10. QED BY <1>2, <1>6, <1>7, <1>9 DEF all

-----------------------------------------------------------------------------
(* Redaction *)

Masking(p, temporary, permanent) == [of |-> p, temporary |-> temporary, permanent |-> permanent]

\* A masking as the database keeps it
Kept(m) ==
    /\ m = Masking(m.of, m.temporary, m.permanent)
    /\ m.of \in Redact!Pieces /\ m.temporary \in Redact!Lists /\ m.permanent \in Redact!Lists

\* What a request of a worker holds
Held(b) ==
    \/ b = Redact!Unoccupied
    \/ /\ b.op = "mask" /\ b.row \in Rows /\ Kept(b.was) /\ b.new \in Redact!Lists
       /\ Redact!Covered(b.new) \cap Redact!Covered(b.was.permanent) = {}
    \/ /\ b.op = "redact" /\ b.row \in Rows /\ Kept(b.was) /\ b.new \in Selections
       /\ b.clear \in [Redact!Pieces -> SUBSET Positions]

RedactTyped ==
    /\ clear \in [Redact!Pieces -> SUBSET Positions]
    /\ redacted \in [Redact!Pieces -> SUBSET Nat]
    /\ row = [r \in Rows |-> row[r]] /\ \A r \in Rows : row[r] = Redact!NoRow \/ Kept(row[r])
    /\ busy = [w \in Workers |-> busy[w]] /\ \A w \in Workers : Held(busy[w])

\* What a row says a piece has lost
Loss(m, p) == IF m.of = p THEN Redact!Covered(m.permanent) ELSE {}

Apart(m) == Redact!Covered(m.temporary) \cap Redact!Covered(m.permanent) = {}

\* What is left of a piece is what no redaction took, and the rows say what that is.
Says(left, lost, rows) ==
    /\ \A p \in Redact!Pieces : left[p] = Positions \ lost[p]
    /\ \A p \in Redact!Pieces : \A x : x \in lost[p] <=> \E r \in Rows : x \in Loss(rows[r], p)
    /\ \A r \in Rows : Apart(rows[r])

RedactInv == RedactTyped /\ (stale \/ Says(clear, redacted, row))

LEMMA SaysAll == ~stale /\ Says(clear, redacted, row) => Redact!RedactionsAreKept
<1> SUFFICES ASSUME Says(clear, redacted, row), NEW p \in Redact!Pieces
             PROVE  redacted[p] = UNION {Redact!Covered(row[r].permanent) : r \in {r \in Rows : row[r].of = p}}
  BY Zenon DEF Redact!RedactionsAreKept, Says, Apart
<1> DEFINE all == UNION {Redact!Covered(row[r].permanent) : r \in {r \in Rows : row[r].of = p}}
<1>1. ASSUME NEW x PROVE x \in all <=> \E r \in Rows : row[r].of = p /\ x \in Redact!Covered(row[r].permanent)
  OBVIOUS
<1>2. ASSUME NEW x PROVE x \in redacted[p] <=> \E r \in Rows : row[r].of = p /\ x \in Redact!Covered(row[r].permanent)
  BY DEF Says, Loss
<1> HIDE DEF all
<1>3. redacted[p] = all
  BY <1>1, <1>2
<1>4. QED BY <1>3 DEF all

LEMMA MaskingIs ==
    ASSUME NEW p, NEW t, NEW q
    PROVE  Masking(p, t, q).of = p /\ Masking(p, t, q).temporary = t /\ Masking(p, t, q).permanent = q
BY DEF Masking

LEMMA KeptMasking ==
    ASSUME NEW p \in Redact!Pieces, NEW t \in Redact!Lists, NEW q \in Redact!Lists
    PROVE  Kept(Masking(p, t, q))
BY MaskingIs DEF Kept

\* A row that is not there says nothing.
LEMMA NoRowSays == (\A p : Loss(Redact!NoRow, p) = {}) /\ Apart(Redact!NoRow)
<1>1. Redact!NoRow.permanent = << >> /\ Redact!NoRow.temporary = << >>
  BY DEF Redact!NoRow
<1>2. QED BY <1>1, CoveredEmpty DEF Loss, Apart

\* What changes a row and not what it says was lost changes nothing else.
LEMMA RowChanged ==
    ASSUME NEW left, NEW lost, NEW rows, NEW r \in Rows, NEW m, rows = [s \in Rows |-> rows[s]],
           Says(left, lost, rows), Apart(m), \A p : Loss(m, p) = Loss(rows[r], p)
    PROVE  Says(left, lost, [rows EXCEPT ![r] = m])
<1> DEFINE new == [rows EXCEPT ![r] = m]
<1>1. \A s \in Rows : new[s] = IF s = r THEN m ELSE rows[s]
  OBVIOUS
<1> HIDE DEF new
<1>2. \A s \in Rows : Apart(new[s]) /\ \A p : Loss(new[s], p) = Loss(rows[s], p)
  BY <1>1 DEF Says
<1>3. \A p \in Redact!Pieces : \A x : x \in lost[p] <=> \E s \in Rows : x \in Loss(new[s], p)
  BY <1>2 DEF Says
<1>4. Says(left, lost, new)
  BY <1>2, <1>3 DEF Says
<1>5. QED BY <1>4 DEF new

LEMMA RowTyped ==
    ASSUME NEW rows, NEW r \in Rows, NEW m, rows = [s \in Rows |-> rows[s]],
           \A s \in Rows : rows[s] = Redact!NoRow \/ Kept(rows[s]), m = Redact!NoRow \/ Kept(m)
    PROVE  /\ [rows EXCEPT ![r] = m] = [s \in Rows |-> [rows EXCEPT ![r] = m][s]]
           /\ \A s \in Rows : [rows EXCEPT ![r] = m][s] = Redact!NoRow \/ Kept([rows EXCEPT ![r] = m][s])
<1> DEFINE new == [rows EXCEPT ![r] = m]
<1>1. \A s \in Rows : new[s] = IF s = r THEN m ELSE rows[s]
  OBVIOUS
<1>2. new = [s \in Rows |-> new[s]]
  OBVIOUS
<1> HIDE DEF new
<1>3. \A s \in Rows : new[s] = Redact!NoRow \/ Kept(new[s])
  BY <1>1
<1>4. QED BY <1>2, <1>3 DEF new

\* A worker takes a request up, or leaves it.
LEMMA BusyTyped ==
    ASSUME RedactTyped, NEW w \in Workers, NEW b, Held(b), busy' = [busy EXCEPT ![w] = b]
    PROVE  busy' = [v \in Workers |-> busy'[v]] /\ \A v \in Workers : Held(busy'[v])
<1>1. busy = [v \in Workers |-> busy[v]]
  BY DEF RedactTyped
<1>2. \A v \in Workers : busy'[v] = IF v = w THEN b ELSE busy[v]
  BY <1>1
<1>3. busy' = [v \in Workers |-> busy'[v]]
  BY <1>1
<1>4. QED BY <1>2, <1>3 DEF RedactTyped

LEMMA RedactInitially == Redact!Init => RedactInv
<1> SUFFICES ASSUME Redact!Init PROVE RedactInv
  OBVIOUS
<1>1. RedactTyped
  BY DEF Redact!Init, RedactTyped, Held
<1>2. Says(clear, redacted, row)
  <2>1. \A r \in Rows : row[r] = Redact!NoRow
    BY DEF Redact!Init
  <2>2. \A p \in Redact!Pieces : clear[p] = Positions /\ redacted[p] = {}
    BY DEF Redact!Init
  <2>3. QED BY <2>1, <2>2, NoRowSays DEF Says
<1>3. QED BY <1>1, <1>2 DEF RedactInv

\* create_redaction: nothing of it is redacted yet.
LEMMA CreateKeeps == ASSUME RedactInv, NEW w \in Workers, Redact!Create(w) PROVE RedactInv'
<1>1. PICK r \in Rows, p \in Redact!Pieces, s \in Selections :
        /\ row[r] = Redact!NoRow
        /\ row' = [row EXCEPT ![r] = Masking(p, s, << >>)]
  BY DEF Redact!Create, Redact!There, Masking
<1>2. UNCHANGED <<clear, busy, redacted, stale>>
  BY DEF Redact!Create
<1> DEFINE none == << >>
           m == Masking(p, s, none)
<1>3. none \in Redact!Lists /\ Redact!Covered(none) = {}
  BY ListsFacts, CoveredEmpty
<1>4. s \in Redact!Lists
  BY RequestsAssumption DEF Redact!RedactionAssumption
<1>5. row' = [row EXCEPT ![r] = m]
  BY <1>1
<1> HIDE DEF none
<1>6. Kept(m) /\ m.temporary = s /\ m.permanent = none
  BY <1>3, <1>4, KeptMasking, MaskingIs
<1> HIDE DEF m
<1>7. Apart(m) /\ \A q : Loss(m, q) = {}
  BY <1>3, <1>6 DEF Apart, Loss
<1>8. row = [x \in Rows |-> row[x]] /\ \A x \in Rows : row[x] = Redact!NoRow \/ Kept(row[x])
  BY DEF RedactInv, RedactTyped
<1>9. row' = [x \in Rows |-> row'[x]] /\ \A x \in Rows : row'[x] = Redact!NoRow \/ Kept(row'[x])
  BY <1>5, <1>6, <1>8, RowTyped
<1>10. stale' \/ Says(clear', redacted', row')
  <2> SUFFICES ASSUME ~stale PROVE Says(clear, redacted, row')
    BY <1>2
  <2>1. Says(clear, redacted, row)
    BY DEF RedactInv
  <2>2. \A q : Loss(m, q) = Loss(row[r], q)
    BY <1>1, <1>7, NoRowSays
  <2>3. QED BY <1>5, <1>7, <1>8, <2>1, <2>2, RowChanged
<1>11. QED BY <1>2, <1>9, <1>10 DEF RedactInv, RedactTyped

\* update_redaction: what is redacted is not masked again.
LEMMA MaskBeginKeeps == ASSUME RedactInv, NEW w \in Workers, Redact!MaskBegin(w) PROVE RedactInv'
<1>1. PICK r \in Rows, s \in Selections \cup {<< >>} :
        Redact!There(r)
        /\ Redact!Begin(w, [op |-> "mask", row |-> r, was |-> row[r], new |-> Redact!Left(s, row[r].permanent)])
  BY DEF Redact!MaskBegin
<1> DEFINE left == Redact!Left(s, row[r].permanent)
           b == [op |-> "mask", row |-> r, was |-> row[r], new |-> left]
<1>2. Kept(row[r]) /\ row[r].permanent \in Redact!Lists
  BY <1>1 DEF RedactInv, RedactTyped, Redact!There, Kept
<1>3. s \in Redact!Lists
  BY RequestsAssumption, ListsFacts DEF Redact!RedactionAssumption
<1>4. left \in Redact!Lists /\ Redact!Covered(left) \cap Redact!Covered(row[r].permanent) = {}
  BY <1>2, <1>3, LeftCovers
<1>5. busy' = [busy EXCEPT ![w] = b] /\ UNCHANGED <<clear, row, redacted, stale>>
  BY <1>1 DEF Redact!Begin
<1> HIDE DEF left
<1>6. Held(b)
  BY <1>2, <1>4 DEF Held
<1> HIDE DEF b
<1>7. busy' = [v \in Workers |-> busy'[v]] /\ \A v \in Workers : Held(busy'[v])
  BY <1>5, <1>6, BusyTyped DEF RedactInv
<1>8. QED BY <1>5, <1>7 DEF RedactInv, RedactTyped

LEMMA RedactBeginKeeps == ASSUME RedactInv, NEW w \in Workers, Redact!RedactBegin(w) PROVE RedactInv'
<1>1. PICK r \in Rows, s \in Selections :
        Redact!There(r)
        /\ Redact!Begin(w, [op |-> "redact", row |-> r, was |-> row[r], clear |-> clear, new |-> s])
  BY DEF Redact!RedactBegin
<1> DEFINE b == [op |-> "redact", row |-> r, was |-> row[r], clear |-> clear, new |-> s]
<1>2. Kept(row[r]) /\ clear \in [Redact!Pieces -> SUBSET Positions]
  BY <1>1 DEF RedactInv, RedactTyped, Redact!There
<1>3. busy' = [busy EXCEPT ![w] = b] /\ UNCHANGED <<clear, row, redacted, stale>>
  BY <1>1 DEF Redact!Begin
<1>4. Held(b)
  BY <1>2 DEF Held
<1> HIDE DEF b
<1>5. busy' = [v \in Workers |-> busy'[v]] /\ \A v \in Workers : Held(busy'[v])
  BY <1>3, <1>4, BusyTyped DEF RedactInv
<1>6. QED BY <1>3, <1>5 DEF RedactInv, RedactTyped

LEMMA AbandonKeeps == ASSUME RedactInv, NEW w \in Workers, Redact!Abandon(w) PROVE RedactInv'
<1>1. busy' = [busy EXCEPT ![w] = Redact!Unoccupied] /\ UNCHANGED <<clear, row, redacted, stale>>
  BY DEF Redact!Abandon, Redact!Done
<1>2. Held(Redact!Unoccupied)
  BY DEF Held
<1>3. busy' = [v \in Workers |-> busy'[v]] /\ \A v \in Workers : Held(busy'[v])
  BY <1>1, <1>2, BusyTyped DEF RedactInv
<1>4. QED BY <1>1, <1>3 DEF RedactInv, RedactTyped

\* update_redaction, when it writes: what it read is still there, or the request is stale.
LEMMA MaskCommitKeeps == ASSUME RedactInv, NEW w \in Workers, Redact!MaskCommit(w) PROVE RedactInv'
<1> DEFINE b == busy[w]
<1>1. /\ b.row \in Rows /\ Kept(b.was) /\ b.new \in Redact!Lists
      /\ Redact!Covered(b.new) \cap Redact!Covered(b.was.permanent) = {}
  <2>1. Held(b) /\ b.op = "mask"
    BY DEF RedactInv, RedactTyped, Redact!MaskCommit
  <2>2. b # Redact!Unoccupied
    BY <2>1 DEF Redact!Unoccupied
  <2> HIDE DEF b
  <2>3. QED BY <2>1, <2>2 DEF Held
<1>2. UNCHANGED <<clear, redacted>> /\ busy' = [busy EXCEPT ![w] = Redact!Unoccupied]
      /\ (stale' <=> stale \/ row[b.row] # b.was)
  BY DEF Redact!MaskCommit, Redact!Done
<1>3. row' = IF ~Redact!There(b.row) THEN row
             ELSE IF b.new = << >> /\ b.was.permanent = << >> THEN [row EXCEPT ![b.row] = Redact!NoRow]
             ELSE [row EXCEPT ![b.row].temporary = IF b.new = b.was.temporary THEN @ ELSE b.new]
  BY DEF Redact!MaskCommit
<1> DEFINE r == b.row
           old == row[r]
<1>4. row = [x \in Rows |-> row[x]] /\ (\A x \in Rows : row[x] = Redact!NoRow \/ Kept(row[x])) /\ r \in Rows
  BY <1>1 DEF RedactInv, RedactTyped
<1>5. busy' = [v \in Workers |-> busy'[v]] /\ \A v \in Workers : Held(busy'[v])
  <2>1. Held(Redact!Unoccupied)
    BY DEF Held
  <2>2. QED BY <1>2, <2>1, BusyTyped DEF RedactInv
<1>6. stale' \/ (Says(clear, redacted, row) /\ old = b.was)
  BY <1>2 DEF RedactInv, old
<1> HIDE DEF b
<1>7. CASE ~Redact!There(r)
  <2>1. row' = row
    BY <1>3, <1>7
  <2>2. QED BY <1>2, <1>5, <1>6, <2>1 DEF RedactInv, RedactTyped
<1>8. CASE Redact!There(r) /\ b.new = << >> /\ b.was.permanent = << >>
  <2>1. row' = [row EXCEPT ![r] = Redact!NoRow]
    BY <1>3, <1>8
  <2>2. row' = [x \in Rows |-> row'[x]] /\ \A x \in Rows : row'[x] = Redact!NoRow \/ Kept(row'[x])
    BY <1>4, <2>1, RowTyped
  <2>3. stale' \/ Says(clear, redacted, row')
    <3> SUFFICES ASSUME ~stale' PROVE Says(clear, redacted, row')
      OBVIOUS
    <3>1. Says(clear, redacted, row) /\ old.permanent = << >>
      BY <1>6, <1>8
    <3>2. \A p : Loss(old, p) = {}
      BY <3>1, CoveredEmpty DEF Loss
    <3>3. Apart(Redact!NoRow) /\ \A p : Loss(Redact!NoRow, p) = Loss(row[r], p)
      BY <3>2, NoRowSays
    <3>4. QED BY <1>4, <2>1, <3>1, <3>3, RowChanged
  <2>4. QED BY <1>2, <1>5, <2>2, <2>3 DEF RedactInv, RedactTyped
<1>9. CASE Redact!There(r) /\ ~(b.new = << >> /\ b.was.permanent = << >>)
  <2> DEFINE t == IF b.new = b.was.temporary THEN old.temporary ELSE b.new
             m == Masking(old.of, t, old.permanent)
  <2>1. Kept(old)
    BY <1>4, <1>9 DEF Redact!There
  <2>2. old = Masking(old.of, old.temporary, old.permanent)
    BY <2>1 DEF Kept
  <2>3. row' = [row EXCEPT ![r] = m]
    <3>1. row' = [row EXCEPT ![r].temporary = IF b.new = b.was.temporary THEN @ ELSE b.new]
      BY <1>3, <1>9
    <3>2. row' = [row EXCEPT ![r] = [old EXCEPT !.temporary = t]]
      BY <3>1
    <3>3. [old EXCEPT !.temporary = t] = m
      <4> DEFINE o == old.of
                 u == old.temporary
                 q == old.permanent
      <4>1. old = [of |-> o, temporary |-> u, permanent |-> q]
        BY <2>2 DEF Masking
      <4> HIDE DEF t, old, o, u, q
      <4>2. [old EXCEPT !.temporary = t] = [of |-> o, temporary |-> t, permanent |-> q]
        BY <4>1
      <4>3. QED BY <4>2 DEF Masking, o, q
    <3>4. QED BY <3>2, <3>3
  <2>4. t \in Redact!Lists
    BY <1>1, <2>1 DEF Kept
  <2>5. Kept(m) /\ m.of = old.of /\ m.temporary = t /\ m.permanent = old.permanent
    <3> HIDE DEF t
    <3>1. old.of \in Redact!Pieces /\ old.permanent \in Redact!Lists
      BY <2>1 DEF Kept
    <3> HIDE DEF old
    <3>2. QED BY <2>4, <3>1, KeptMasking, MaskingIs
  <2>6. old = b.was => t = b.new
    BY DEF Masking
  <2> HIDE DEF m, t
  <2>7. row' = [x \in Rows |-> row'[x]] /\ \A x \in Rows : row'[x] = Redact!NoRow \/ Kept(row'[x])
    BY <1>4, <2>3, <2>5, RowTyped
  <2>8. stale' \/ Says(clear, redacted, row')
    <3> SUFFICES ASSUME ~stale' PROVE Says(clear, redacted, row')
      OBVIOUS
    <3>1. Says(clear, redacted, row) /\ old = b.was
      BY <1>6
    <3>2. Apart(m)
      BY <1>1, <2>5, <2>6, <3>1 DEF Apart
    <3>3. \A p : Loss(m, p) = Loss(row[r], p)
      BY <2>5 DEF Loss
    <3>4. QED BY <1>4, <2>3, <3>1, <3>2, <3>3, RowChanged
  <2>9. QED BY <1>2, <1>5, <2>7, <2>8 DEF RedactInv, RedactTyped
<1>10. QED BY <1>7, <1>8, <1>9

\* RTipRedactionCollection.put, when it writes
LEMMA RedactCommitKeeps == ASSUME RedactInv, NEW w \in Workers, Redact!RedactCommit(w) PROVE RedactInv'
<1> DEFINE b == busy[w]
           r == b.row
           old == row[r]
           p == b.was.of
           lost == Redact!Covered(b.new)
           perm == Redact!Permanent(b)
           temp == Redact!Left(b.was.temporary, b.new)
           written(q) == IF q = p THEN Redact!Masked(b.clear[q], perm) ELSE b.clear[q]
<1>1. r \in Rows /\ Kept(b.was) /\ b.new \in Selections /\ b.clear \in [Redact!Pieces -> SUBSET Positions]
  <2>1. Held(b) /\ b.op = "redact"
    BY DEF RedactInv, RedactTyped, Redact!RedactCommit
  <2>2. b # Redact!Unoccupied
    BY <2>1 DEF Redact!Unoccupied
  <2> HIDE DEF b
  <2>3. QED BY <2>1, <2>2 DEF Held
<1>2. /\ busy' = [busy EXCEPT ![w] = Redact!Unoccupied]
      /\ (stale' <=> stale \/ row[r] # b.was \/ \E q \in Redact!Stored(p) : clear[q] # b.clear[q])
      /\ redacted' = [redacted EXCEPT ![p] = @ \cup lost]
      /\ clear' = [q \in Redact!Pieces |-> IF q \in Redact!Stored(p) THEN written(q) ELSE clear[q]]
      /\ Redact!There(r)
  BY DEF Redact!RedactCommit, Redact!Done
<1>3. row' = [row EXCEPT ![r] = [of |-> @.of, temporary |-> temp, permanent |-> perm]]
  BY DEF Redact!RedactCommit
<1>4. row = [x \in Rows |-> row[x]] /\ (\A x \in Rows : row[x] = Redact!NoRow \/ Kept(row[x])) /\ Kept(old)
  BY <1>1, <1>2 DEF RedactInv, RedactTyped, Redact!There
<1>5. busy' = [v \in Workers |-> busy'[v]] /\ \A v \in Workers : Held(busy'[v])
  <2>1. Held(Redact!Unoccupied)
    BY DEF Held
  <2>2. QED BY <1>2, <2>1, BusyTyped DEF RedactInv
<1>6. p \in Redact!Pieces /\ p \in Redact!Stored(p) /\ Redact!Stored(p) \subseteq Redact!Pieces
  BY <1>1 DEF Kept, Redact!Stored, Redact!Pieces
<1>7. /\ clear \in [Redact!Pieces -> SUBSET Positions] /\ redacted \in [Redact!Pieces -> SUBSET Nat]
      /\ stale \/ Says(clear, redacted, row)
  BY DEF RedactInv, RedactTyped
<1>8. /\ b.new \in Redact!Lists /\ Redact!Sorted(b.new)
      /\ b.was.temporary \in Redact!Lists /\ b.was.permanent \in Redact!Lists
  BY <1>1, RequestsAssumption DEF Redact!RedactionAssumption, Kept
<1> HIDE DEF b
<1>9. perm \in Redact!Lists /\ Redact!Covered(perm) = Redact!Covered(b.was.permanent) \cup lost
  BY <1>8, MergedCovers DEF Redact!Permanent
<1>10. temp \in Redact!Lists /\ Redact!Covered(temp) = Redact!Covered(b.was.temporary) \ lost
  BY <1>8, LeftCovers
<1>11. lost \subseteq Nat
  <2>1. \A s \in Spans : Of(s) \subseteq Nat
    BY DEF Spans, Of
  <2>2. \A i \in 1 .. Len(b.new) : b.new[i] \in Spans
    BY <1>8, ListsFacts
  <2>3. lost = Upto(b.new, Len(b.new))
    BY <1>8, CoveredIs
  <2>4. QED BY <2>1, <2>2, <2>3 DEF Upto
<1> DEFINE m == Masking(old.of, temp, perm)
<1>12. row' = [row EXCEPT ![r] = m]
  <2> HIDE DEF temp, perm, r
  <2>1. row' = [row EXCEPT ![r] = [of |-> old.of, temporary |-> temp, permanent |-> perm]]
    BY <1>1, <1>3, <1>4
  <2>2. QED BY <2>1 DEF Masking
<1> HIDE DEF temp, perm, lost
<1>13. Kept(m) /\ m.of = old.of /\ m.temporary = temp /\ m.permanent = perm
  <2>1. old.of \in Redact!Pieces
    BY <1>4 DEF Kept
  <2> HIDE DEF old
  <2>2. QED BY <1>9, <1>10, <2>1, KeptMasking, MaskingIs
<1> HIDE DEF m
<1>14. row' = [x \in Rows |-> row'[x]] /\ \A x \in Rows : row'[x] = Redact!NoRow \/ Kept(row'[x])
  BY <1>1, <1>4, <1>12, <1>13, RowTyped
<1>15. \A q \in Redact!Pieces : clear'[q] = IF q \in Redact!Stored(p) THEN written(q) ELSE clear[q]
  BY <1>2
<1>16. clear' \in [Redact!Pieces -> SUBSET Positions]
  <2>1. \A q \in Redact!Pieces : written(q) \in SUBSET Positions
    BY <1>1 DEF Redact!Masked
  <2> HIDE DEF written
  <2>2. QED BY <1>2, <1>7, <2>1
<1>17. /\ redacted' \in [Redact!Pieces -> SUBSET Nat]
       /\ \A q \in Redact!Pieces : redacted'[q] = IF q = p THEN redacted[q] \cup lost ELSE redacted[q]
  BY <1>2, <1>6, <1>7, <1>11
<1>18. stale' \/ Says(clear', redacted', row')
  <2> SUFFICES ASSUME ~stale' PROVE Says(clear', redacted', row')
    OBVIOUS
  <2>1. Says(clear, redacted, row) /\ old = b.was /\ \A q \in Redact!Stored(p) : clear[q] = b.clear[q]
    BY <1>2, <1>7
  <2>2. \A q \in Redact!Pieces : Loss(m, q) = Loss(old, q) \cup (IF q = p THEN lost ELSE {})
    BY <1>9, <1>13, <2>1 DEF Loss
  <2>3. Apart(m)
    <3>1. Redact!Covered(old.temporary) \cap Redact!Covered(old.permanent) = {}
      BY <1>1, <2>1 DEF Says, Apart
    <3>2. QED BY <1>9, <1>10, <1>13, <2>1, <3>1 DEF Apart
  <2>4. \A x \in Rows : row'[x] = IF x = r THEN m ELSE row[x]
    BY <1>4, <1>12
  <2>5. \A x \in Rows : Apart(row'[x])
    BY <2>1, <2>3, <2>4 DEF Says
  <2>6. ASSUME NEW q \in Redact!Pieces, NEW x
        PROVE  x \in redacted'[q] <=> \E s \in Rows : x \in Loss(row'[s], q)
    <3>1. x \in redacted[q] <=> \E s \in Rows : x \in Loss(row[s], q)
      BY <2>1 DEF Says
    <3>2. x \in Loss(m, q) <=> x \in Loss(row[r], q) \/ (q = p /\ x \in lost)
      BY <2>2
    <3>3. (\E s \in Rows : x \in Loss(row'[s], q)) <=> (\E s \in Rows : x \in Loss(row[s], q)) \/ (q = p /\ x \in lost)
      BY <1>1, <2>4, <3>2
    <3>4. x \in redacted'[q] <=> x \in redacted[q] \/ (q = p /\ x \in lost)
      BY <1>17
    <3>5. QED BY <3>1, <3>3, <3>4
  <2>7. ASSUME NEW q \in Redact!Pieces PROVE clear'[q] = Positions \ redacted'[q]
    <3>1. clear[q] = Positions \ redacted[q]
      BY <2>1 DEF Says
    <3>2. CASE q = p
      <4>1. clear'[q] = Redact!Masked(clear[q], perm)
        BY <1>6, <1>15, <2>1, <3>2
      <4>2. Redact!Covered(old.permanent) \subseteq redacted[q]
        <5>1. Loss(row[r], q) = Redact!Covered(old.permanent)
          BY <2>1, <3>2 DEF Loss
        <5>2. QED BY <1>1, <2>1, <5>1 DEF Says
      <4>3. redacted'[q] = redacted[q] \cup lost
        BY <1>17, <3>2
      <4>4. Redact!Covered(perm) = Redact!Covered(old.permanent) \cup lost
        BY <1>9, <2>1
      <4>5. clear'[q] = clear[q] \ Redact!Covered(perm)
        BY <4>1 DEF Redact!Masked
      <4>6. QED BY <3>1, <4>2, <4>3, <4>4, <4>5
    <3>3. CASE q # p
      <4>1. clear'[q] = clear[q]
        BY <1>15, <2>1, <3>3
      <4>2. redacted'[q] = redacted[q]
        BY <1>17, <3>3
      <4>3. QED BY <3>1, <4>1, <4>2
    <3>4. QED BY <3>2, <3>3
  <2>8. QED BY <2>5, <2>6, <2>7 DEF Says
<1>19. QED BY <1>5, <1>14, <1>16, <1>17, <1>18 DEF RedactInv, RedactTyped

LEMMA RedactStep == ASSUME RedactInv, [Redact!Next]_redaction PROVE RedactInv'
<1>1. CASE UNCHANGED redaction
  BY <1>1 DEF redaction, RedactInv, RedactTyped
<1>2. CASE Redact!Next
  BY <1>2, CreateKeeps, MaskBeginKeeps, MaskCommitKeeps, RedactBeginKeeps, RedactCommitKeeps, AbandonKeeps
  DEF Redact!Next
<1>3. QED BY <1>1, <1>2

LEMMA RedactInvariant == MCSpec => []RedactInv
<1>1. MCInit => RedactInv
  BY RedactInitially DEF MCInit
<1>2. RedactInv /\ [MCNext]_allVars => RedactInv'
  <2> SUFFICES ASSUME RedactInv, [MCNext]_allVars PROVE RedactInv'
    OBVIOUS
  <2>1. [Redact!Next]_redaction
    BY DEF MCNext, allVars
  <2> QED
    BY <2>1, RedactStep
<1> QED
  BY <1>1, <1>2, PTL DEF MCSpec

\* While no request writes over another, a redaction is never undone, takes nothing but
\* what it was asked to, and the rows say what is lost and what is left to redact:
\* whatever is masked more or less, twice, and redacted in parts.
THEOREM RedactionsKept == MCSpec => []RedactionsAreKept
<1>1. RedactInv => RedactionsAreKept
  BY SaysAll DEF RedactInv, RedactionsAreKept, Redact!RedactionsAreKept
<1> QED
  BY <1>1, RedactInvariant, PTL
=============================================================================

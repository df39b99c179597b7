------------------------- MODULE UserSessions_proofs --------------------------
(***************************************************************************)
(* Proofs about UserSessions, for any number of ORM threads and requests,    *)
(* and about Routing, for any configuration and any address.                 *)
(*                                                                           *)
(* Between the revocation and the insertion of a login other threads insert  *)
(* and revoke.  What holds all the same is that a thread that is about to    *)
(* insert has no session in the store, and that a deletion that has revoked  *)
(* still holds the lock that every login needs to be answered.  That a       *)
(* redirect is single-use rests on the numbers of the logins: one that has    *)
(* not inserted its session yet has a number that nothing else has.          *)
(*                                                                           *)
(* A redirect of Routing keeps the tenant found among those that may answer. *)
(* Those of the address and of www come first, one of host or scheme may      *)
(* follow, and then there are only those of paths, however many; only when   *)
(* the root is not on the web does an address lead where nobody answers.     *)
(***************************************************************************)
EXTENDS MCEntry, TLAPS, SequenceTheorems

\* The sessions the ORM threads insert are those of logins in the tenant of the user.
InsertedAtHome ==
    /\ \A s \in store : s.by \in Workers => s.tid = Home
    /\ inserting # Idle => inserting.by = Reactor
    /\ waiting # Idle => waiting.by = Reactor

\* A thread about to insert has none in the store.
NoneBefore ==
    \A w \in Workers : At(w, "login", "insert") => \A s \in store : s.by # w

ThreadInv == InsertedAtHome /\ NoneBefore /\ OnePerThread

\* A deletion holds the lock, and what it has revoked stays revoked.
DeletionLocks ==
    /\ \A w \in Workers : tx[w] # Idle /\ tx[w].op = "delete" => lock = w
    /\ \A w \in Workers : At(w, "delete", "commit") =>
          \A s \in store : s.held => s.by = Reactor \/ s.tid # Home

DeleteInv == DeletionLocks /\ DeletedUserIsOut

ToInsert(w) == At(w, "login", "revoke") \/ At(w, "login", "insert")

\* Before it inserts, a login has a number of its own.
Numbered ==
    /\ \A s \in Live : s.grant < ops
    /\ \A w \in Workers : tx[w] # Idle => tx[w].grant < ops
    /\ \A w \in Workers : ToInsert(w) =>
          /\ \A s \in Live : s.grant # tx[w].grant
          /\ \A v \in Workers : v # w /\ tx[v] # Idle => tx[v].grant # tx[w].grant

GrantInv == Numbered /\ RedirectIsSingleUse

\* The session of a change of tenant is not in the store before it is inserted.
WaitsApart == waiting # Idle => waiting \notin store \cup {inserting}

-----------------------------------------------------------------------------
(* What the common parts of the actions do *)

Ops == {"login", "update", "delete"}
Steps == {"revoke", "insert", "commit"}

TxTyped == tx \in [Workers -> Tx \cup {Idle}]

\* A transaction is started in an idle thread, with the next number.
LEMMA Started ==
    ASSUME TxTyped, ops \in Nat, overlapped \in BOOLEAN, NEW w \in Workers, NEW op \in Ops,
           NEW at \in Steps, NEW ver \in Nat, NEW flag \in BOOLEAN, Start(w, op, at, ver, flag)
    PROVE  /\ TxTyped'
           /\ tx[w] = Idle
           /\ tx'[w] = [op |-> op, at |-> at, grant |-> ops, ver |-> ver, flag |-> flag]
           /\ tx'[w] # Idle
           /\ \A v \in Workers : v # w => tx'[v] = tx[v]
           /\ ops' = ops + 1
           /\ overlapped' \in BOOLEAN
<1> DEFINE new == [op |-> op, at |-> at, grant |-> ops, ver |-> ver, flag |-> flag]
<1>1. new \in Tx
  BY DEF Tx, Ops, Steps
<1>2. tx' = [tx EXCEPT ![w] = new]
  BY DEF Start
<1> HIDE DEF new
<1>3. TxTyped' /\ tx'[w] = new /\ \A v \in Workers : v # w => tx'[v] = tx[v]
  BY <1>1, <1>2 DEF TxTyped
<1>4. tx[w] = Idle /\ ops' = ops + 1 /\ overlapped' \in BOOLEAN
  BY DEF Start, Request, Busy
<1> QED
  BY <1>1, <1>3, <1>4, UserSessionsAssumption DEF new

LEMMA OpNames ==
    /\ "login" \in Ops /\ "update" \in Ops /\ "delete" \in Ops
    /\ "revoke" \in Steps /\ "insert" \in Steps /\ "commit" \in Steps
BY DEF Ops, Steps

\* A transaction moves to its next step.
LEMMA Advanced ==
    ASSUME TxTyped, NEW w \in Workers, tx[w] # Idle, NEW at \in Steps, Advance(w, at)
    PROVE  /\ TxTyped'
           /\ tx[w] \in Tx
           /\ tx'[w] # Idle
           /\ tx'[w].op = tx[w].op
           /\ tx'[w].at = at
           /\ tx'[w].grant = tx[w].grant
           /\ \A v \in Workers : v # w => tx'[v] = tx[v]
<1>1. tx[w] \in Tx
  BY DEF TxTyped
<1> DEFINE new == [tx[w] EXCEPT !.at = at]
<1>2. new \in Tx /\ new.op = tx[w].op /\ new.at = at /\ new.grant = tx[w].grant
  BY <1>1 DEF Tx, Steps
<1>3. tx' = [tx EXCEPT ![w] = new]
  BY DEF Advance
<1> HIDE DEF new
<1>4. TxTyped' /\ tx'[w] = new /\ \A v \in Workers : v # w => tx'[v] = tx[v]
  BY <1>2, <1>3 DEF TxTyped
<1> QED
  BY <1>1, <1>2, <1>4, UserSessionsAssumption

\* A transaction ends.
LEMMA Ended ==
    ASSUME TxTyped, NEW w \in Workers, Done(w)
    PROVE  /\ TxTyped'
           /\ tx'[w] = Idle
           /\ \A v \in Workers : v # w => tx'[v] = tx[v]
BY DEF TxTyped, Done

-----------------------------------------------------------------------------
\* The types of the variables are an invariant.
THEOREM TypeCorrect == Spec => []TypeOK
<1> USE UserSessionsAssumption
<1>1. Init => TypeOK
  <2> SUFFICES ASSUME Init PROVE TypeOK
    OBVIOUS
  <2>1. user \in User
    BY DEF Init, User
  <2> QED
    BY <2>1 DEF Init, TypeOK
<1>2. TypeOK /\ [Next]_vars => TypeOK'
  <2> SUFFICES ASSUME TypeOK, [Next]_vars PROVE TypeOK'
    OBVIOUS
  <2>0. TxTyped /\ ops \in Nat /\ overlapped \in BOOLEAN
    BY DEF TxTyped, TypeOK
  <2>1. ASSUME NEW w \in Workers, NEW flag \in BOOLEAN, LoginRead(w, flag) PROVE TypeOK'
    <3>0. user.ver \in Nat
      BY <2>1 DEF LoginRead, User, TypeOK
    <3>1. PICK n \in Nat : Start(w, "login", "revoke", n, flag)
      BY <2>1, <3>0 DEF LoginRead, Start
    <3>2. TxTyped' /\ ops' = ops + 1 /\ overlapped' \in BOOLEAN
      BY <2>0, <3>1, Started, OpNames
    <3>3. lock # Idle => tx'[lock] = tx[lock]
      BY <2>0, <3>1 DEF Start, TxTyped, TypeOK
    <3> QED
      BY <2>1, <3>2, <3>3 DEF LoginRead, Start, TxTyped, TypeOK
  <2>2. ASSUME NEW w \in Workers, LoginRevoke(w) PROVE TypeOK'
    BY <2>0, <2>2, Advanced DEF LoginRevoke, At, Revoked, Steps, TxTyped, TypeOK
  <2>3. ASSUME NEW w \in Workers, LoginInsert(w) PROVE TypeOK'
    <3>1. tx[w] \in Tx
      BY <2>3 DEF LoginInsert, At, TypeOK
    <3>2. [grant |-> tx[w].grant, by |-> w, tid |-> Home, ver |-> tx[w].ver,
           auth |-> tx[w].flag, held |-> FALSE] \in Session
      BY <3>1 DEF Session, Tenants, Tx, TypeOK
    <3>3. store' \subseteq Session
      BY <2>3, <3>2 DEF LoginInsert, TypeOK
    <3> QED
      BY <2>0, <2>3, <3>3, Advanced DEF LoginInsert, At, Steps, TxTyped, TypeOK
  <2>4. ASSUME NEW w \in Workers, LoginCommit(w) PROVE TypeOK'
    <3>1. ASSUME NEW s \in store PROVE [s EXCEPT !.held = TRUE] \in Session
      BY DEF Session, TypeOK
    <3>2. store' \subseteq Session
      BY <2>4, <3>1 DEF LoginCommit, TypeOK
    <3> QED
      BY <2>0, <2>4, <3>2, Ended DEF LoginCommit, TxTyped, TypeOK
  <2>5. ASSUME NEW w \in Workers, NEW enabled \in BOOLEAN, UpdateRead(w, enabled) PROVE TypeOK'
    <3>0. user.ver \in Nat
      BY <2>5 DEF UpdateRead, User, TypeOK
    <3>1. PICK n \in Nat : Start(w, "update", "revoke", n, enabled)
      BY <2>5, <3>0 DEF UpdateRead, Start
    <3>2. TxTyped' /\ ops' = ops + 1 /\ overlapped' \in BOOLEAN
      BY <2>0, <3>1, Started, OpNames
    <3>3. lock # Idle => tx'[lock] = tx[lock]
      BY <2>0, <3>1 DEF Start, TxTyped, TypeOK
    <3> QED
      BY <2>5, <3>2, <3>3 DEF UpdateRead, Start, TxTyped, TypeOK
  <2>6. ASSUME NEW w \in Workers, UpdateRevoke(w) PROVE TypeOK'
    BY <2>0, <2>6, Advanced DEF UpdateRevoke, At, Reconfigured, Revoked, Steps, TxTyped, TypeOK
  <2>7. ASSUME NEW w \in Workers, UpdateCommit(w) PROVE TypeOK'
    <3>1. user' \in User
      BY <2>7 DEF UpdateCommit, At, User, Tx, TypeOK
    <3> QED
      BY <2>0, <2>7, <3>1, Ended DEF UpdateCommit, TxTyped, TypeOK
  <2>8. ASSUME NEW w \in Workers, DeleteFlush(w) PROVE TypeOK'
    <3>0. user.ver \in Nat
      BY <2>8 DEF DeleteFlush, User, TypeOK
    <3>1. PICK n \in Nat : Start(w, "delete", "revoke", n, FALSE)
      BY <2>8, <3>0 DEF DeleteFlush, Start
    <3>2. /\ TxTyped' /\ ops' = ops + 1 /\ overlapped' \in BOOLEAN /\ tx'[w] # Idle
          /\ tx'[w] = [op |-> "delete", at |-> "revoke", grant |-> ops, ver |-> n, flag |-> FALSE]
      BY <2>0, <3>1, Started, OpNames
    <3> QED
      BY <2>8, <3>1, <3>2 DEF DeleteFlush, Start, Locked, TxTyped, TypeOK
  <2>9. ASSUME NEW w \in Workers, DeleteRevoke(w) PROVE TypeOK'
    BY <2>0, <2>9, Advanced DEF DeleteRevoke, At, Revoked, Steps, TxTyped, TypeOK
  <2>10. ASSUME NEW w \in Workers, DeleteCommit(w) PROVE TypeOK'
    BY <2>0, <2>10, Ended DEF DeleteCommit, TxTyped, TypeOK
  <2>11. ASSUME NEW w \in Workers, Abort(w) PROVE TypeOK'
    <3>1. lock' \in Workers \cup {Idle} /\ (lock' # Idle => lock' = lock /\ lock' # w)
      BY <2>11 DEF Abort, Released, TypeOK
    <3>2. lock' # Idle => tx'[lock'] # Idle /\ tx'[lock'].op = "delete"
      BY <2>0, <2>11, <3>1, Ended DEF Abort, TypeOK
    <3> QED
      BY <2>0, <2>11, <3>1, <3>2, Ended DEF Abort, TxTyped, TypeOK
  <2>12. ASSUME NEW s \in store, Adopt(s) PROVE TypeOK'
    <3>1. [s EXCEPT !.auth = FALSE, !.by = Reactor] \in Session
      BY DEF Session, TypeOK
    <3> QED
      BY <2>12, <3>1 DEF Adopt, Removed, TypeOK
  <2>13. ASSUME NEW s \in store, Leave(s) \/ Exhaust(s) PROVE TypeOK'
    BY <2>13 DEF Leave, Exhaust, Revoked, TypeOK
  <2>14. ASSUME NEW s \in store, NEW tid \in Tenants, Switch(s, tid) PROVE TypeOK'
    BY <2>14 DEF Switch, Request, Session, TypeOK
  <2>15. CASE SwitchRevoke \/ Insert
    BY <2>15 DEF SwitchRevoke, Insert, Revoked, TypeOK
  <2>16. CASE UNCHANGED vars
    BY <2>16 DEF vars, TypeOK
  <2> QED
    BY <2>1, <2>2, <2>3, <2>4, <2>5, <2>6, <2>7, <2>8, <2>9, <2>10, <2>11, <2>12, <2>13, <2>14,
       <2>15, <2>16 DEF Next, Login, Update, Delete
<1> QED
  BY <1>1, <1>2, PTL DEF Spec

-----------------------------------------------------------------------------
(* One session per thread *)

\* A step that inserts nothing and brings no login to its insertion.
LEMMA NothingInserted ==
    ASSUME ThreadInv, store' \subseteq store,
           \A w \in Workers : At(w, "login", "insert")' => At(w, "login", "insert"),
           inserting' # Idle => inserting'.by = Reactor,
           waiting' # Idle => waiting'.by = Reactor
    PROVE  ThreadInv'
BY DEF ThreadInv, InsertedAtHome, NoneBefore, OnePerThread

\* The invariant of the store under the logins of the threads.
THEOREM ThreadInvariant == Spec => []ThreadInv
<1> USE UserSessionsAssumption
<1>1. Init => ThreadInv
  BY DEF Init, ThreadInv, InsertedAtHome, NoneBefore, OnePerThread, At
<1>2. TypeOK /\ ThreadInv /\ [Next]_vars => ThreadInv'
  <2> SUFFICES ASSUME TypeOK, ThreadInv, [Next]_vars PROVE ThreadInv'
    OBVIOUS
  <2>0. TxTyped /\ InsertedAtHome /\ NoneBefore /\ OnePerThread
    BY DEF TxTyped, TypeOK, ThreadInv
  <2>1. ASSUME NEW w \in Workers, NEW flag \in BOOLEAN, LoginRead(w, flag) PROVE ThreadInv'
    <3>1. \A v \in Workers : At(v, "login", "insert")' => At(v, "login", "insert")
      BY <2>0, <2>1 DEF LoginRead, Start, TxTyped, At
    <3> QED
      BY <2>0, <2>1, <3>1, NothingInserted DEF LoginRead, Start, InsertedAtHome
  <2>2. ASSUME NEW w \in Workers, LoginRevoke(w) PROVE ThreadInv'
    <3>1. \A s \in store' : s \in store /\ s.by \notin Workers
      BY <2>0, <2>2 DEF LoginRevoke, Revoked, InsertedAtHome
    <3> QED
      BY <2>0, <2>2, <3>1
      DEF LoginRevoke, ThreadInv, InsertedAtHome, NoneBefore, OnePerThread
  <2>3. ASSUME NEW w \in Workers, LoginInsert(w) PROVE ThreadInv'
    <3> DEFINE new == [grant |-> tx[w].grant, by |-> w, tid |-> Home, ver |-> tx[w].ver,
                       auth |-> tx[w].flag, held |-> FALSE]
    <3>1. store' = store \cup {new} /\ new.by = w /\ new.tid = Home
      BY <2>3 DEF LoginInsert
    <3> HIDE DEF new
    <3>2. \A s \in store : s.by # w
      BY <2>0, <2>3 DEF LoginInsert, NoneBefore
    <3>3. \A v \in Workers : At(v, "login", "insert")' => v # w /\ At(v, "login", "insert")
      BY <2>0, <2>3 DEF LoginInsert, Advance, TxTyped, At
    <3>4. OnePerThread'
      BY <2>0, <3>1, <3>2 DEF OnePerThread
    <3>5. NoneBefore'
      BY <2>0, <3>1, <3>3 DEF NoneBefore
    <3>6. InsertedAtHome'
      BY <2>0, <2>3, <3>1 DEF LoginInsert, InsertedAtHome
    <3> QED
      BY <3>4, <3>5, <3>6 DEF ThreadInv
  <2>4. ASSUME NEW w \in Workers, LoginCommit(w) PROVE ThreadInv'
    <3>1. ASSUME NEW s \in store'
          PROVE  \E r \in store : /\ s = IF r.by = w THEN [r EXCEPT !.held = TRUE] ELSE r
                                  /\ s.by = r.by /\ s.tid = r.tid
      <4>1. PICK r \in store : s = IF r.by = w THEN [r EXCEPT !.held = TRUE] ELSE r
        BY <2>4 DEF LoginCommit
      <4>2. r \in Session
        BY DEF TypeOK
      <4> QED
        BY <4>1, <4>2 DEF Session
    <3>2. \A v \in Workers : At(v, "login", "insert")' => At(v, "login", "insert")
      BY <2>0, <2>4 DEF LoginCommit, Done, TxTyped, At
    <3>3. OnePerThread'
      <4> SUFFICES ASSUME NEW s \in store', NEW t \in store', s.by \in Workers, s.by = t.by PROVE s = t
        BY DEF OnePerThread
      <4>1. PICK r \in store : s = (IF r.by = w THEN [r EXCEPT !.held = TRUE] ELSE r) /\ s.by = r.by
        BY <3>1
      <4>2. PICK q \in store : t = (IF q.by = w THEN [q EXCEPT !.held = TRUE] ELSE q) /\ t.by = q.by
        BY <3>1
      <4>3. r = q
        BY <2>0, <4>1, <4>2 DEF OnePerThread
      <4> QED
        BY <4>1, <4>2, <4>3
    <3>4. NoneBefore'
      BY <2>0, <3>1, <3>2 DEF NoneBefore
    <3>5. InsertedAtHome'
      BY <2>0, <2>4, <3>1 DEF LoginCommit, InsertedAtHome
    <3> QED
      BY <3>3, <3>4, <3>5 DEF ThreadInv
  <2>5. ASSUME NEW w \in Workers, NEW enabled \in BOOLEAN, UpdateRead(w, enabled) PROVE ThreadInv'
    <3>1. \A v \in Workers : At(v, "login", "insert")' => At(v, "login", "insert")
      BY <2>0, <2>5 DEF UpdateRead, Start, TxTyped, At
    <3> QED
      BY <2>0, <2>5, <3>1, NothingInserted DEF UpdateRead, Start, InsertedAtHome
  <2>6. ASSUME NEW w \in Workers, UpdateRevoke(w) \/ DeleteRevoke(w) PROVE ThreadInv'
    <3>1. \A v \in Workers : At(v, "login", "insert")' => At(v, "login", "insert")
      <4>1. tx[w] # Idle /\ Advance(w, "commit")
        BY <2>6 DEF UpdateRevoke, DeleteRevoke, At
      <4>2. tx'[w].at = "commit" /\ \A v \in Workers : v # w => tx'[v] = tx[v]
        BY <2>0, <4>1, Advanced, OpNames
      <4> QED
        BY <4>2 DEF At
    <3>2. store' \subseteq store
      BY <2>6 DEF UpdateRevoke, DeleteRevoke, Reconfigured, Revoked
    <3> QED
      BY <2>0, <2>6, <3>1, <3>2, NothingInserted DEF UpdateRevoke, DeleteRevoke, InsertedAtHome
  <2>7. ASSUME NEW w \in Workers, UpdateCommit(w) \/ DeleteCommit(w) \/ Abort(w) PROVE ThreadInv'
    <3>1. \A v \in Workers : At(v, "login", "insert")' => At(v, "login", "insert")
      BY <2>0, <2>7 DEF UpdateCommit, DeleteCommit, Abort, Done, TxTyped, At
    <3> QED
      BY <2>0, <2>7, <3>1, NothingInserted DEF UpdateCommit, DeleteCommit, Abort, InsertedAtHome
  <2>8. ASSUME NEW w \in Workers, DeleteFlush(w) PROVE ThreadInv'
    <3>1. \A v \in Workers : At(v, "login", "insert")' => At(v, "login", "insert")
      BY <2>0, <2>8 DEF DeleteFlush, Start, TxTyped, At
    <3> QED
      BY <2>0, <2>8, <3>1, NothingInserted DEF DeleteFlush, Start, InsertedAtHome
  <2>9. ASSUME NEW s \in store, Adopt(s) PROVE ThreadInv'
    <3>1. inserting'.by = Reactor
      BY <2>9 DEF Adopt, TypeOK, Session
    <3> QED
      BY <2>0, <2>9, <3>1, NothingInserted DEF Adopt, Removed, At, InsertedAtHome
  <2>10. ASSUME NEW s \in store, NEW tid \in Tenants, Switch(s, tid) PROVE ThreadInv'
    BY <2>0, <2>10, NothingInserted DEF Switch, At, InsertedAtHome
  <2>11. CASE SwitchRevoke
    BY <2>0, <2>11, NothingInserted DEF SwitchRevoke, Revoked, At, InsertedAtHome
  <2>12. CASE Insert
    BY <2>0, <2>12 DEF Insert, ThreadInv, InsertedAtHome, NoneBefore, OnePerThread, At
  <2>13. ASSUME NEW s \in store, Leave(s) \/ Exhaust(s) PROVE ThreadInv'
    BY <2>0, <2>13, NothingInserted DEF Leave, Exhaust, Revoked, At, InsertedAtHome
  <2>14. CASE UNCHANGED vars
    BY <2>0, <2>14, NothingInserted DEF vars, At, InsertedAtHome
  <2> QED
    BY <2>1, <2>2, <2>3, <2>4, <2>5, <2>6, <2>7, <2>8, <2>9, <2>10, <2>11, <2>12, <2>13, <2>14
    DEF Next, Login, Update, Delete
<1> QED
  BY <1>1, <1>2, TypeCorrect, PTL DEF Spec

\* However logins, changes and adoptions interleave, the sessions left by the logins
\* of one thread are one at most.
THEOREM OneSessionPerThread == Spec => []OnePerThread
BY ThreadInvariant, PTL DEF ThreadInv

-----------------------------------------------------------------------------
(* No session of a deleted user *)

Answered(s) == s.held /\ s.by # Reactor /\ s.tid = Home

Deleting(w) == tx[w] # Idle /\ tx[w].op = "delete"

\* A step that answers no login and moves no deletion.
LEMMA NothingAnswered ==
    ASSUME DeleteInv, user' = user \/ user' # Gone, lock' = lock,
           \A s \in store' : Answered(s) => s \in store,
           \A w \in Workers : Deleting(w)' => Deleting(w),
           \A w \in Workers : At(w, "delete", "commit")' => At(w, "delete", "commit")
    PROVE  DeleteInv'
BY DEF DeleteInv, DeletionLocks, DeletedUserIsOut, Deleting, Answered

\* No interleaving of logins with the deletion of a user leaves him a session that
\* a login has been answered with.
THEOREM DeletedIsOut == Spec => []DeletedUserIsOut
<1> USE UserSessionsAssumption
<1>1. Init => DeleteInv
  BY DEF Init, DeleteInv, DeletionLocks, DeletedUserIsOut, At
<1>2. TypeOK /\ ThreadInv /\ DeleteInv /\ [Next]_vars => DeleteInv'
  <2> SUFFICES ASSUME TypeOK, ThreadInv, DeleteInv, [Next]_vars PROVE DeleteInv'
    OBVIOUS
  <2>0. TxTyped /\ InsertedAtHome /\ DeletionLocks /\ DeletedUserIsOut
    BY DEF TxTyped, TypeOK, ThreadInv, DeleteInv
  <2>1. ASSUME NEW w \in Workers, NEW flag \in BOOLEAN,
               LoginRead(w, flag) \/ UpdateRead(w, flag)
        PROVE  DeleteInv'
    <3>1. \A v \in Workers : v # w => tx'[v] = tx[v]
      BY <2>0, <2>1 DEF LoginRead, UpdateRead, Start, TxTyped
    <3>2. tx'[w].op \in {"login", "update"}
      BY <2>0, <2>1 DEF LoginRead, UpdateRead, Start, TxTyped
    <3> QED
      BY <2>1, <3>1, <3>2, NothingAnswered DEF LoginRead, UpdateRead, Start, At, Deleting
  <2>2. ASSUME NEW w \in Workers, LoginRevoke(w) \/ LoginInsert(w) \/ UpdateRevoke(w) PROVE DeleteInv'
    <3>1. PICK at \in Steps : tx[w] # Idle /\ tx[w].op # "delete" /\ Advance(w, at)
      BY <2>2 DEF LoginRevoke, LoginInsert, UpdateRevoke, At, Steps
    <3>2. tx'[w].op # "delete" /\ \A v \in Workers : v # w => tx'[v] = tx[v]
      BY <2>0, <3>1, Advanced
    <3>3. \A s \in store' : s.held => s \in store
      BY <2>2 DEF LoginRevoke, LoginInsert, UpdateRevoke, Reconfigured, Revoked
    <3>4. user' = user /\ lock' = lock
      BY <2>2 DEF LoginRevoke, LoginInsert, UpdateRevoke
    <3> QED
      BY <3>2, <3>3, <3>4, NothingAnswered DEF At, Deleting, Answered
  <2>3. ASSUME NEW w \in Workers, LoginCommit(w) PROVE DeleteInv'
    <3>1. \A v \in Workers : ~Deleting(v)
      BY <2>0, <2>3 DEF LoginCommit, DeletionLocks, Deleting
    <3>2. \A v \in Workers : ~Deleting(v)'
      BY <2>0, <2>3, <3>1, Ended DEF LoginCommit, Deleting
    <3> QED
      BY <2>3, <3>2 DEF LoginCommit, DeleteInv, DeletionLocks, DeletedUserIsOut, Deleting, At
  <2>4. ASSUME NEW w \in Workers, UpdateCommit(w) PROVE DeleteInv'
    <3>1. user' # Gone
      BY <2>4 DEF UpdateCommit, At, TypeOK, User, Tx
    <3>2. tx'[w] = Idle /\ \A v \in Workers : v # w => tx'[v] = tx[v]
      BY <2>0, <2>4, Ended DEF UpdateCommit
    <3> QED
      BY <2>4, <3>1, <3>2, NothingAnswered DEF UpdateCommit, At, Deleting
  <2>5. ASSUME NEW w \in Workers, DeleteFlush(w) PROVE DeleteInv'
    <3>1. \A v \in Workers : ~Deleting(v)
      BY <2>0, <2>5 DEF DeleteFlush, DeletionLocks, Deleting
    <3>2. tx'[w].at = "revoke" /\ \A v \in Workers : v # w => tx'[v] = tx[v]
      BY <2>0, <2>5 DEF DeleteFlush, Start, TxTyped
    <3> QED
      BY <2>0, <2>5, <3>1, <3>2
      DEF DeleteFlush, Start, Locked, DeleteInv, DeletionLocks, DeletedUserIsOut, Deleting, At
  <2>6. ASSUME NEW w \in Workers, DeleteRevoke(w) PROVE DeleteInv'
    <3>1. tx[w] # Idle /\ tx[w].op = "delete" /\ Advance(w, "commit")
      BY <2>6 DEF DeleteRevoke, At
    <3>2. /\ tx'[w].op = "delete"
          /\ \A v \in Workers : v # w => tx'[v] = tx[v]
      BY <2>0, <3>1, Advanced, OpNames
    <3>3. store' = {s \in store : s.tid # Home} /\ user' = user /\ lock' = lock
      BY <2>6 DEF DeleteRevoke, Revoked
    <3> QED
      BY <2>0, <3>1, <3>2, <3>3 DEF DeleteInv, DeletionLocks, DeletedUserIsOut, At
  <2>7. ASSUME NEW w \in Workers, DeleteCommit(w) PROVE DeleteInv'
    <3>1. \A v \in Workers : v # w => ~Deleting(v)
      BY <2>0, <2>7 DEF DeleteCommit, At, DeletionLocks, Deleting
    <3>2. \A v \in Workers : ~Deleting(v)'
      BY <2>0, <2>7, <3>1, Ended DEF DeleteCommit, Deleting
    <3>3. DeletedUserIsOut'
      BY <2>0, <2>7 DEF DeleteCommit, DeletionLocks, DeletedUserIsOut
    <3> QED
      BY <3>2, <3>3 DEF DeleteInv, DeletionLocks, Deleting, At
  <2>8. ASSUME NEW w \in Workers, Abort(w) PROVE DeleteInv'
    <3>1. tx'[w] = Idle /\ \A v \in Workers : v # w => tx'[v] = tx[v]
      BY <2>0, <2>8, Ended DEF Abort
    <3>2. \A v \in Workers : v # w /\ lock = v => lock' = v
      BY <2>8 DEF Abort, Released
    <3> QED
      BY <2>0, <2>8, <3>1, <3>2 DEF Abort, DeleteInv, DeletionLocks, DeletedUserIsOut, At
  <2>9. ASSUME NEW s \in store,
               \/ Adopt(s) \/ Leave(s) \/ Exhaust(s)
               \/ \E tid \in Tenants : Switch(s, tid)
        PROVE  DeleteInv'
    BY <2>9, NothingAnswered DEF Adopt, Leave, Exhaust, Switch, Removed, Revoked, At, Deleting
  <2>10. CASE SwitchRevoke \/ Insert
    BY <2>0, <2>10, NothingAnswered DEF SwitchRevoke, Insert, Revoked, InsertedAtHome, At, Deleting, Answered
  <2>11. CASE UNCHANGED vars
    BY <2>11, NothingAnswered DEF vars, At, Deleting
  <2> QED
    BY <2>1, <2>2, <2>3, <2>4, <2>5, <2>6, <2>7, <2>8, <2>9, <2>10, <2>11
    DEF Next, Login, Update, Delete
<1> QED
  BY <1>1, <1>2, TypeCorrect, ThreadInvariant, PTL DEF Spec, DeleteInv

-----------------------------------------------------------------------------
(* A redirect gives one session *)

\* The numbers compared are numbers.
LEMMA GrantsTyped ==
    ASSUME TypeOK
    PROVE  /\ \A s \in Live : s.grant \in Nat
           /\ \A w \in Workers : tx[w] # Idle => tx[w].grant \in Nat
           /\ ops \in Nat
BY DEF TypeOK, Live, Session, Tx

\* A step that adds no session and gives no number.
LEMMA NothingGranted ==
    ASSUME GrantInv, ops' = ops, Live' \subseteq Live,
           \A w \in Workers : tx'[w] # Idle => tx[w] # Idle /\ tx'[w].grant = tx[w].grant,
           \A w \in Workers : ToInsert(w)' => ToInsert(w)
    PROVE  GrantInv'
<1>1. \A w \in Workers : ToInsert(w) => tx[w] # Idle
  BY DEF ToInsert, At
<1>2. \A w \in Workers : ToInsert(w)' => tx'[w] # Idle
  BY DEF ToInsert, At
<1>3. Numbered'
  BY <1>1, <1>2 DEF GrantInv, Numbered
<1> QED
  BY <1>3 DEF GrantInv, RedirectIsSingleUse

\* A step that starts a transaction with the next number.
LEMMA NumberGiven ==
    ASSUME TypeOK, GrantInv, Live' = Live, ops' = ops + 1, NEW w \in Workers, tx[w] = Idle,
           tx'[w].grant = ops, \A v \in Workers : v # w => tx'[v] = tx[v]
    PROVE  GrantInv'
<1>1. \A v \in Workers : v # w /\ ToInsert(v)' => ToInsert(v)
  BY DEF ToInsert, At
<1>2. \A s \in Live' : s.grant < ops' /\ s.grant # tx'[w].grant
  BY GrantsTyped DEF GrantInv, Numbered
<1>3. \A v \in Workers : tx'[v] # Idle => tx'[v].grant < ops'
  BY GrantsTyped DEF GrantInv, Numbered
<1>4. \A v \in Workers : v # w /\ tx'[v] # Idle => tx'[v].grant # tx'[w].grant
  BY GrantsTyped DEF GrantInv, Numbered
<1>5. Numbered'
  <2> SUFFICES ASSUME NEW v \in Workers, ToInsert(v)'
               PROVE  /\ \A s \in Live' : s.grant # tx'[v].grant
                      /\ \A u \in Workers : u # v /\ tx'[u] # Idle => tx'[u].grant # tx'[v].grant
    BY <1>2, <1>3 DEF Numbered
  <2>1. CASE v = w
    BY <2>1, <1>2, <1>4
  <2>2. CASE v # w
    <3>1. ToInsert(v) /\ tx'[v] = tx[v] /\ tx[v] # Idle
      BY <1>1, <2>2 DEF ToInsert, At
    <3>2. tx'[w].grant # tx'[v].grant
      BY <1>4, <2>2, <3>1
    <3> QED
      BY <3>1, <3>2 DEF GrantInv, Numbered
  <2> QED
    BY <2>1, <2>2
<1> QED
  BY <1>5 DEF GrantInv, RedirectIsSingleUse

\* A step that replaces a session by one with its number.
LEMMA SessionReplaced ==
    ASSUME GrantInv, ops' = ops, NEW old \in Live, NEW new, new.grant = old.grant,
           Live' \subseteq (Live \ {old}) \cup {new},
           \A w \in Workers : tx'[w] # Idle => tx[w] # Idle /\ tx'[w].grant = tx[w].grant,
           \A w \in Workers : ToInsert(w)' => ToInsert(w)
    PROVE  GrantInv'
<1>1. \A w \in Workers : ToInsert(w)' => tx'[w] # Idle
  BY DEF ToInsert, At
<1>2. \A s \in Live' : \E r \in Live : s.grant = r.grant
  OBVIOUS
<1>3. Numbered'
  BY <1>1, <1>2 DEF GrantInv, Numbered
<1>4. RedirectIsSingleUse'
  BY DEF GrantInv, RedirectIsSingleUse
<1> QED
  BY <1>3, <1>4 DEF GrantInv

\* A login never gives two sessions, whatever the adoptions, revocations and other
\* logins in flight: the token of a redirect opens one session.
THEOREM SingleUse == Spec => []RedirectIsSingleUse
<1> USE UserSessionsAssumption
<1>1. Init => GrantInv
  BY DEF Init, GrantInv, Numbered, RedirectIsSingleUse, Live, ToInsert, At
<1>2. TypeOK /\ ThreadInv /\ GrantInv /\ WaitsApart /\ [Next]_vars => GrantInv'
  <2> SUFFICES ASSUME TypeOK, ThreadInv, GrantInv, WaitsApart, [Next]_vars PROVE GrantInv'
    OBVIOUS
  <2>0. TxTyped /\ NoneBefore
    BY DEF TxTyped, TypeOK, ThreadInv
  <2>1. ASSUME NEW w \in Workers, NEW flag \in BOOLEAN,
               LoginRead(w, flag) \/ UpdateRead(w, flag) \/ DeleteFlush(w)
        PROVE  GrantInv'
    <3>1. PICK op \in Ops, ver \in Nat, f \in BOOLEAN : Start(w, op, "revoke", ver, f)
      <4>1. user.ver \in Nat
        BY <2>1 DEF LoginRead, UpdateRead, DeleteFlush, TypeOK, User
      <4> QED
        BY <2>1, <4>1, OpNames DEF LoginRead, UpdateRead, DeleteFlush
    <3>2. /\ tx[w] = Idle /\ ops' = ops + 1 /\ \A v \in Workers : v # w => tx'[v] = tx[v]
          /\ tx'[w].grant = ops
      <4>1. overlapped \in BOOLEAN
        BY DEF TypeOK
      <4>2. "revoke" \in Steps /\ ops \in Nat
        BY GrantsTyped, OpNames
      <4>3. tx'[w] = [op |-> op, at |-> "revoke", grant |-> ops, ver |-> ver, flag |-> f]
        BY <2>0, <3>1, <4>1, <4>2, Started
      <4>4. tx[w] = Idle /\ ops' = ops + 1 /\ \A v \in Workers : v # w => tx'[v] = tx[v]
        BY <2>0, <3>1 DEF Start, Request, TxTyped
      <4> QED
        BY <4>3, <4>4
    <3>3. Live' = Live
      BY <3>1 DEF Start, Live
    <3> QED
      BY <3>2, <3>3, NumberGiven
  <2>2. ASSUME NEW w \in Workers, LoginRevoke(w) \/ UpdateRevoke(w) \/ DeleteRevoke(w) PROVE GrantInv'
    <3>1. PICK at \in Steps :
            /\ tx[w] # Idle /\ Advance(w, at)
            /\ at = "insert" => At(w, "login", "revoke")
      BY <2>2 DEF LoginRevoke, UpdateRevoke, DeleteRevoke, At, Steps
    <3>2. /\ tx'[w].grant = tx[w].grant /\ tx'[w].at = at
          /\ \A v \in Workers : v # w => tx'[v] = tx[v]
      BY <2>0, <3>1, Advanced
    <3>3. at # "revoke"
      BY <2>2, <2>0, <3>2, Advanced, OpNames DEF LoginRevoke, UpdateRevoke, DeleteRevoke, At
    <3>4. \A v \in Workers : ToInsert(v)' => ToInsert(v)
      BY <3>1, <3>2, <3>3 DEF ToInsert, At
    <3>5. Live' \subseteq Live /\ ops' = ops
      BY <2>2 DEF LoginRevoke, UpdateRevoke, DeleteRevoke, Reconfigured, Revoked, Live
    <3> QED
      BY <3>1, <3>2, <3>4, <3>5, NothingGranted
  <2>3. ASSUME NEW w \in Workers, LoginInsert(w) PROVE GrantInv'
    <3> DEFINE new == [grant |-> tx[w].grant, by |-> w, tid |-> Home, ver |-> tx[w].ver,
                       auth |-> tx[w].flag, held |-> FALSE]
    <3>1. /\ Live' = Live \cup {new} /\ new.grant = tx[w].grant /\ ops' = ops
          /\ tx[w] # Idle /\ ToInsert(w) /\ Advance(w, "commit")
      BY <2>3 DEF LoginInsert, Live, ToInsert, At
    <3> HIDE DEF new
    <3>2. /\ tx'[w].grant = tx[w].grant /\ tx'[w].at = "commit"
          /\ \A v \in Workers : v # w => tx'[v] = tx[v]
      BY <2>0, <3>1, Advanced, OpNames
    <3>3. \A v \in Workers : ToInsert(v)' => v # w /\ ToInsert(v) /\ tx[v] # Idle
      BY <3>2 DEF ToInsert, At
    <3>4. Numbered'
      BY <3>1, <3>2, <3>3 DEF GrantInv, Numbered
    <3>5. RedirectIsSingleUse'
      BY <3>1 DEF GrantInv, Numbered, RedirectIsSingleUse
    <3> QED
      BY <3>4, <3>5 DEF GrantInv
  <2>4. ASSUME NEW w \in Workers, LoginCommit(w) PROVE GrantInv'
    <3>1. ASSUME NEW s \in Live'
          PROVE  \E r \in Live : /\ s = IF r \in store /\ r.by = w THEN [r EXCEPT !.held = TRUE] ELSE r
                                 /\ s.grant = r.grant
      <4>1. \A r \in store : [r EXCEPT !.held = TRUE].grant = r.grant
        BY DEF TypeOK, Session
      <4>2. CASE s \in store'
        <5>1. PICK r \in store : s = IF r.by = w THEN [r EXCEPT !.held = TRUE] ELSE r
          BY <2>4, <4>2 DEF LoginCommit
        <5> QED
          BY <4>1, <5>1 DEF Live
      <4>3. CASE s \notin store'
        <5>1. s \in {inserting, waiting} \ {Idle}
          BY <2>4, <4>3 DEF LoginCommit, Live
        <5>2. s.by = Reactor
          BY <5>1 DEF ThreadInv, InsertedAtHome
        <5> QED
          BY <5>1, <5>2 DEF Live
      <4> QED
        BY <4>2, <4>3
    <3>2. RedirectIsSingleUse'
      <4> SUFFICES ASSUME NEW s \in Live', NEW t \in Live', s.grant = t.grant PROVE s = t
        BY DEF RedirectIsSingleUse
      <4>1. PICK r \in Live : /\ s = IF r \in store /\ r.by = w THEN [r EXCEPT !.held = TRUE] ELSE r
                              /\ s.grant = r.grant
        BY <3>1
      <4>2. PICK q \in Live : /\ t = IF q \in store /\ q.by = w THEN [q EXCEPT !.held = TRUE] ELSE q
                              /\ t.grant = q.grant
        BY <3>1
      <4>3. r = q
        BY <4>1, <4>2 DEF GrantInv, RedirectIsSingleUse
      <4> QED
        BY <4>1, <4>2, <4>3
    <3>3. ops' = ops /\ tx'[w] = Idle /\ \A v \in Workers : v # w => tx'[v] = tx[v]
      BY <2>0, <2>4, Ended DEF LoginCommit
    <3>4. \A v \in Workers : ToInsert(v)' => v # w /\ ToInsert(v)
      BY <3>3 DEF ToInsert, At
    <3>5. \A s \in Live' : \E r \in Live : s.grant = r.grant
      BY <3>1
    <3>6. Numbered'
      BY <3>3, <3>4, <3>5 DEF GrantInv, Numbered
    <3> QED
      BY <3>2, <3>6 DEF GrantInv
  <2>5. ASSUME NEW w \in Workers, UpdateCommit(w) \/ DeleteCommit(w) \/ Abort(w) PROVE GrantInv'
    <3>1. tx'[w] = Idle /\ \A v \in Workers : v # w => tx'[v] = tx[v]
      BY <2>0, <2>5, Ended DEF UpdateCommit, DeleteCommit, Abort
    <3>2. \A v \in Workers : ToInsert(v)' => ToInsert(v)
      BY <3>1 DEF ToInsert, At
    <3>3. Live' = Live /\ ops' = ops
      BY <2>5 DEF UpdateCommit, DeleteCommit, Abort, Live
    <3> QED
      BY <3>1, <3>2, <3>3, NothingGranted
  <2>6. ASSUME NEW s \in store, Adopt(s) PROVE GrantInv'
    <3> DEFINE new == [s EXCEPT !.auth = FALSE, !.by = Reactor]
    <3>1. new.grant = s.grant /\ s \in Live
      BY DEF TypeOK, Session, Live
    <3>2. Live' \subseteq (Live \ {s}) \cup {new}
      BY <2>6 DEF Adopt, Removed, Live, WaitsApart
    <3>3. \A v \in Workers : ToInsert(v)' => ToInsert(v)
      BY <2>6 DEF Adopt, ToInsert, At
    <3>4. tx' = tx /\ ops' = ops
      BY <2>6 DEF Adopt
    <3>5. PICK n : n = new
      OBVIOUS
    <3>6. PICK old \in Live : old = s
      BY <3>1
    <3> HIDE DEF new
    <3> QED
      BY <3>1, <3>2, <3>3, <3>4, <3>5, <3>6, SessionReplaced
  <2>7. ASSUME NEW s \in store, NEW tid \in Tenants, Switch(s, tid) PROVE GrantInv'
    <3> DEFINE new == [grant |-> ops, by |-> Reactor, tid |-> tid, ver |-> s.ver, auth |-> TRUE, held |-> TRUE]
    <3>1. Live' \subseteq Live \cup {new} /\ new.grant = ops /\ ops' = ops + 1 /\ tx' = tx
      BY <2>7 DEF Switch, Request, Live
    <3> HIDE DEF new
    <3>2. \A v \in Workers : ToInsert(v)' => ToInsert(v) /\ tx[v] # Idle
      BY <3>1 DEF ToInsert, At
    <3>3. Numbered'
      BY <3>1, <3>2, GrantsTyped DEF GrantInv, Numbered
    <3>4. RedirectIsSingleUse'
      BY <3>1, GrantsTyped DEF GrantInv, Numbered, RedirectIsSingleUse
    <3> QED
      BY <3>3, <3>4 DEF GrantInv
  <2>8. ASSUME SwitchRevoke \/ Insert \/ \E s \in store : Leave(s) \/ Exhaust(s) PROVE GrantInv'
    <3>1. Live' \subseteq Live /\ ops' = ops /\ tx' = tx
      BY <2>8 DEF SwitchRevoke, Insert, Leave, Exhaust, Revoked, Live
    <3>2. \A v \in Workers : ToInsert(v)' => ToInsert(v)
      BY <3>1 DEF ToInsert, At
    <3> QED
      BY <3>1, <3>2, NothingGranted
  <2>9. CASE UNCHANGED vars
    BY <2>9, NothingGranted DEF vars, Live, ToInsert, At
  <2> QED
    BY <2>1, <2>2, <2>3, <2>4, <2>5, <2>6, <2>7, <2>8, <2>9 DEF Next, Login, Update, Delete
<1>3. Init => WaitsApart
  BY DEF Init, WaitsApart
<1>4. TypeOK /\ ThreadInv /\ GrantInv /\ WaitsApart /\ [Next]_vars => WaitsApart'
  <2> SUFFICES ASSUME TypeOK, ThreadInv, GrantInv, WaitsApart, [Next]_vars, waiting' # Idle
               PROVE  WaitsApart'
    BY DEF WaitsApart
  <2>1. ASSUME NEW w \in Workers, LoginInsert(w) PROVE WaitsApart'
    <3>1. waiting' = waiting /\ inserting' = inserting /\ ToInsert(w) /\ waiting \in Live
      BY <2>1 DEF LoginInsert, ToInsert, Live
    <3>2. \A s \in store' : s \in store \/ s.grant = tx[w].grant
      BY <2>1 DEF LoginInsert
    <3>3. waiting.grant # tx[w].grant
      BY <3>1 DEF GrantInv, Numbered
    <3> QED
      BY <3>1, <3>2, <3>3 DEF WaitsApart
  <2>2. ASSUME NEW w \in Workers, LoginCommit(w) PROVE WaitsApart'
    <3>1. waiting' = waiting /\ inserting' = inserting /\ waiting \in Live
      BY <2>2 DEF LoginCommit, Live
    <3>2. \A s \in store' : \E r \in store : s.grant = r.grant
      BY <2>2 DEF LoginCommit, TypeOK, Session
    <3>3. \A r \in store : r.grant # waiting.grant
      BY <3>1 DEF GrantInv, RedirectIsSingleUse, WaitsApart, Live
    <3> QED
      BY <3>1, <3>2, <3>3 DEF WaitsApart
  <2>3. ASSUME NEW s \in store, Adopt(s) PROVE WaitsApart'
    <3>1. waiting' = waiting /\ waiting \in Live /\ s \in Live /\ waiting # s /\ store' \subseteq store
      BY <2>3 DEF Adopt, Removed, Live, WaitsApart
    <3>2. inserting'.grant = s.grant
      BY <2>3 DEF Adopt, TypeOK, Session
    <3>3. s.grant # waiting.grant
      BY <3>1 DEF GrantInv, RedirectIsSingleUse
    <3> QED
      BY <3>1, <3>2, <3>3 DEF WaitsApart
  <2>4. ASSUME NEW s \in store, NEW tid \in Tenants, Switch(s, tid) PROVE WaitsApart'
    <3>1. waiting'.grant = ops /\ store' = store /\ inserting' = Idle /\ waiting' # Idle
      BY <2>4 DEF Switch
    <3>2. \A r \in store : r.grant # ops
      BY GrantsTyped DEF GrantInv, Numbered, Live
    <3> QED
      BY <3>1, <3>2 DEF WaitsApart
  <2>5. CASE Insert \/ UNCHANGED vars
    BY <2>5 DEF Insert, vars, WaitsApart
  <2>6. ASSUME NEW w \in Workers, NEW flag \in BOOLEAN,
               \/ LoginRead(w, flag) \/ LoginRevoke(w)
               \/ UpdateRead(w, flag) \/ UpdateRevoke(w) \/ UpdateCommit(w)
               \/ Delete(w) \/ Abort(w)
        PROVE  WaitsApart'
    BY <2>6 DEF LoginRead, LoginRevoke, UpdateRead, UpdateRevoke, UpdateCommit, Delete, DeleteFlush,
                DeleteRevoke, DeleteCommit, Abort, Start, Reconfigured, Revoked, WaitsApart
  <2>7. ASSUME NEW s \in store, Leave(s) \/ Exhaust(s) PROVE WaitsApart'
    BY <2>7 DEF Leave, Exhaust, Revoked, WaitsApart
  <2> QED
    BY <2>1, <2>2, <2>3, <2>4, <2>5, <2>6, <2>7 DEF Next, Login, Update, SwitchRevoke, WaitsApart
<1> QED
  BY <1>1, <1>2, <1>3, <1>4, TypeCorrect, ThreadInvariant, PTL DEF Spec, GrantInv

-----------------------------------------------------------------------------
(* What does not overlap sees the account, and the store, as they are *)

OneInFlight ==
    /\ \A v, w \in Workers : tx[v] # Idle /\ tx[w] # Idle => v = w
    /\ \A w \in Workers : tx[w] # Idle => waiting = Idle /\ inserting = Idle
    /\ waiting = Idle \/ inserting = Idle

\* The threads that have revoked the sessions at home, and not inserted one.
Cleared(w) == At(w, "login", "insert") \/ At(w, "update", "commit") \/ At(w, "delete", "commit")

ThreadFits(w) ==
    /\ tx[w].op = "login" => user # Gone /\ user.enabled /\ tx[w].ver = user.ver
    /\ Cleared(w) => \A s \in store : s.tid # Home

StoreFits ==
    /\ \A s \in store : s.tid = Home => UpToDate(s)
    /\ \A s, t \in store : s.tid = t.tid => s = t

ReactorFits ==
    /\ inserting # Idle => /\ \A s \in store : s.tid # inserting.tid
                           /\ inserting.tid = Home => UpToDate(inserting)
    /\ waiting # Idle => UpToDate(waiting)

ThreadsFit == \A w \in Workers : tx[w] # Idle => ThreadFits(w)

HomeInv == ~overlapped => OneInFlight /\ StoreFits /\ ReactorFits /\ ThreadsFit

\* A step that takes sessions away at most, and moves no thread.
LEMMA FewerSessions ==
    ASSUME OneInFlight, StoreFits, ReactorFits, ThreadsFit,
           store' \subseteq store, UNCHANGED <<user, tx, waiting, inserting>>
    PROVE  HomeInv'
BY DEF HomeInv, OneInFlight, StoreFits, ReactorFits, ThreadsFit, ThreadFits, Cleared, At, UpToDate

\* A request that overlaps nothing is the only one in flight.
LEMMA Opened ==
    ASSUME TxTyped, OneInFlight, StoreFits, ops \in Nat, ~overlapped', overlapped \in BOOLEAN,
           NEW w \in Workers, NEW op \in Ops, NEW ver \in Nat, NEW flag \in BOOLEAN,
           Start(w, op, "revoke", ver, flag),
           op = "login" => user # Gone /\ user.enabled /\ ver = user.ver
    PROVE  HomeInv'
<1>1. (\A v \in Workers : tx[v] = Idle) /\ waiting = Idle /\ inserting = Idle
  BY DEF Start, Request, Busy
<1>2. /\ tx'[w] = [op |-> op, at |-> "revoke", grant |-> ops, ver |-> ver, flag |-> flag]
      /\ \A v \in Workers : v # w => tx'[v] = Idle
  BY <1>1, Started, OpNames
<1>3. UNCHANGED <<user, store, waiting, inserting>>
  BY DEF Start
<1>4. OneInFlight'
  BY <1>1, <1>2, <1>3 DEF OneInFlight
<1>5. StoreFits' /\ ReactorFits'
  BY <1>1, <1>3 DEF StoreFits, ReactorFits, UpToDate
<1>6. ThreadFits(w)'
  BY <1>2, <1>3 DEF ThreadFits, Cleared, At
<1> QED
  BY <1>2, <1>4, <1>5, <1>6 DEF HomeInv, ThreadsFit

\* A thread that ends leaves nothing in flight.
LEMMA Closed ==
    ASSUME TxTyped, OneInFlight, NEW w \in Workers, tx[w] # Idle, Done(w), StoreFits',
           UNCHANGED <<waiting, inserting>>
    PROVE  HomeInv'
<1>1. waiting' = Idle /\ inserting' = Idle /\ \A v \in Workers : tx'[v] = Idle
  BY Ended DEF OneInFlight
<1> QED
  BY <1>1 DEF HomeInv, OneInFlight, ReactorFits, ThreadsFit

\* The invariant of the requests that do not overlap.
THEOREM HomeInvariant == Spec => []HomeInv
<1> USE UserSessionsAssumption
<1>1. Init => HomeInv
  BY DEF Init, HomeInv, OneInFlight, StoreFits, ReactorFits, ThreadsFit
<1>2. TypeOK /\ HomeInv /\ [Next]_vars => HomeInv'
  <2> SUFFICES ASSUME TypeOK, HomeInv, [Next]_vars, ~overlapped' PROVE HomeInv'
    BY DEF HomeInv
  <2>0. TxTyped /\ ops \in Nat /\ overlapped \in BOOLEAN
    BY DEF TypeOK, TxTyped
  <2>1. ~overlapped
    BY <2>0 DEF Next, Login, LoginRead, LoginRevoke, LoginInsert, LoginCommit, Update, UpdateRead,
           UpdateRevoke, UpdateCommit, Delete, DeleteFlush, DeleteRevoke, DeleteCommit, Abort, Start,
           Request, Adopt, Switch, SwitchRevoke, Insert, Leave, Exhaust, vars
  <2>2. OneInFlight /\ StoreFits /\ ReactorFits /\ ThreadsFit
    BY <2>1 DEF HomeInv
  <2>3. \A s \in store : s \in Session
    BY DEF TypeOK
  <2>4. ASSUME NEW w \in Workers, NEW flag \in BOOLEAN, LoginRead(w, flag) PROVE HomeInv'
    <3>1. user.ver \in Nat
      BY <2>4 DEF LoginRead, User, TypeOK
    <3> QED
      BY <2>0, <2>2, <2>4, <3>1, Opened, OpNames DEF LoginRead
  <2>5. ASSUME NEW w \in Workers, NEW enabled \in BOOLEAN, UpdateRead(w, enabled) PROVE HomeInv'
    <3>1. user.ver \in Nat /\ "update" # "login"
      BY <2>5 DEF UpdateRead, User, TypeOK
    <3> QED
      BY <2>0, <2>2, <2>5, <3>1, Opened, OpNames DEF UpdateRead
  <2>6. ASSUME NEW w \in Workers, DeleteFlush(w) PROVE HomeInv'
    <3>1. user.ver \in Nat /\ "delete" # "login"
      BY <2>6 DEF DeleteFlush, User, TypeOK
    <3> QED
      BY <2>0, <2>2, <2>6, <3>1, Opened, OpNames DEF DeleteFlush
  <2>7. ASSUME NEW w \in Workers, LoginRevoke(w) \/ UpdateRevoke(w) \/ DeleteRevoke(w) PROVE HomeInv'
    <3>1. PICK at \in Steps : tx[w] # Idle /\ Advance(w, at)
      BY <2>7, OpNames DEF LoginRevoke, UpdateRevoke, DeleteRevoke, At
    <3>2. /\ store' = Revoked(Home) /\ UNCHANGED <<user, waiting, inserting>>
      BY <2>7 DEF LoginRevoke, UpdateRevoke, DeleteRevoke, Reconfigured
    <3>3. /\ tx'[w] # Idle /\ tx'[w].op = tx[w].op
          /\ tx'[w].ver = tx[w].ver
          /\ \A v \in Workers : v # w => tx'[v] = tx[v]
      <4>1. tx[w] \in Tx /\ tx' = [tx EXCEPT ![w].at = at]
        BY <2>0, <3>1 DEF TxTyped, Advance
      <4>2. tx'[w].ver = tx[w].ver
        BY <2>0, <4>1 DEF TxTyped, Tx
      <4> QED
        BY <2>0, <3>1, <4>2, Advanced
    <3>4. \A s \in store' : s \in store /\ s.tid # Home
      BY <3>2 DEF Revoked
    <3>5. OneInFlight'
      BY <2>2, <3>1, <3>2, <3>3 DEF OneInFlight
    <3>6. StoreFits'
      BY <2>2, <3>4 DEF StoreFits
    <3>7. ReactorFits'
      BY <2>2, <3>1, <3>2 DEF OneInFlight, ReactorFits
    <3>8. ThreadFits(w)'
      BY <2>2, <3>1, <3>2, <3>3, <3>4 DEF ThreadsFit, ThreadFits
    <3> QED
      BY <2>2, <3>1, <3>3, <3>5, <3>6, <3>7, <3>8 DEF HomeInv, OneInFlight, ThreadsFit
  <2>8. ASSUME NEW w \in Workers, LoginInsert(w) PROVE HomeInv'
    <3> DEFINE new == [grant |-> tx[w].grant, by |-> w, tid |-> Home, ver |-> tx[w].ver,
                       auth |-> tx[w].flag, held |-> FALSE]
    <3>1. store' = store \cup {new} /\ new.tid = Home /\ new.ver = tx[w].ver
      BY <2>8 DEF LoginInsert
    <3> HIDE DEF new
    <3>2. tx[w] # Idle /\ tx[w].op = "login" /\ Cleared(w) /\ Advance(w, "commit")
      BY <2>8 DEF LoginInsert, At, Cleared
    <3>3. /\ UpToDate(new) /\ UNCHANGED <<user, waiting, inserting>>
          /\ user # Gone /\ user.enabled /\ tx[w].ver = user.ver
      BY <2>2, <2>8, <3>1, <3>2 DEF ThreadsFit, ThreadFits, UpToDate, LoginInsert
    <3>4. \A s \in store : s.tid # Home
      BY <2>2, <3>2 DEF ThreadsFit, ThreadFits
    <3>5. /\ tx'[w] # Idle /\ tx'[w].op = "login" /\ tx'[w].at = "commit" /\ tx'[w].ver = tx[w].ver
          /\ \A v \in Workers : v # w => tx'[v] = tx[v]
      <4>1. tx[w] \in Tx /\ tx' = [tx EXCEPT ![w].at = "commit"]
        BY <2>0, <3>2 DEF TxTyped, Advance
      <4>2. tx'[w].ver = tx[w].ver
        BY <2>0, <4>1 DEF TxTyped, Tx
      <4> QED
        BY <2>0, <3>2, <4>2, Advanced, OpNames
    <3>6. OneInFlight'
      BY <2>2, <3>2, <3>3, <3>5 DEF OneInFlight
    <3>7. StoreFits'
      BY <2>2, <3>1, <3>3, <3>4 DEF StoreFits, UpToDate
    <3>8. ReactorFits'
      BY <2>2, <3>2, <3>3 DEF OneInFlight, ReactorFits
    <3>9. ThreadFits(w)'
      BY <3>3, <3>5 DEF ThreadFits, Cleared, At
    <3> QED
      BY <2>2, <3>2, <3>5, <3>6, <3>7, <3>8, <3>9 DEF HomeInv, OneInFlight, ThreadsFit
  <2>9. ASSUME NEW w \in Workers, LoginCommit(w) PROVE HomeInv'
    <3>1. ASSUME NEW s \in store'
          PROVE  \E r \in store : /\ s = IF r.by = w THEN [r EXCEPT !.held = TRUE] ELSE r
                                  /\ s.tid = r.tid /\ s.ver = r.ver
      <4>1. PICK r \in store : s = IF r.by = w THEN [r EXCEPT !.held = TRUE] ELSE r
        BY <2>9 DEF LoginCommit
      <4>2. s.tid = r.tid /\ s.ver = r.ver
        BY <2>3, <4>1 DEF Session
      <4> QED
        BY <4>1, <4>2
    <3>2. user' = user
      BY <2>9 DEF LoginCommit
    <3>3. ASSUME NEW s \in store', s.tid = Home PROVE UpToDate(s)'
      BY <2>2, <3>1, <3>2, <3>3 DEF StoreFits, UpToDate
    <3>4. ASSUME NEW s \in store', NEW t \in store', s.tid = t.tid PROVE s = t
      <4>1. PICK r \in store : s = (IF r.by = w THEN [r EXCEPT !.held = TRUE] ELSE r) /\ s.tid = r.tid
        BY <3>1
      <4>2. PICK q \in store : t = (IF q.by = w THEN [q EXCEPT !.held = TRUE] ELSE q) /\ t.tid = q.tid
        BY <3>1
      <4>3. r = q
        BY <2>2, <3>4, <4>1, <4>2 DEF StoreFits
      <4> QED
        BY <4>1, <4>2, <4>3
    <3>5. StoreFits'
      BY <3>3, <3>4 DEF StoreFits
    <3> QED
      BY <2>0, <2>2, <2>9, <3>5, Closed DEF LoginCommit, At
  <2>10. ASSUME NEW w \in Workers, UpdateCommit(w) \/ DeleteCommit(w) PROVE HomeInv'
    <3>1. Cleared(w) /\ tx[w] # Idle /\ store' = store
      BY <2>10 DEF UpdateCommit, DeleteCommit, Cleared, At
    <3>2. StoreFits'
      BY <2>2, <3>1 DEF ThreadsFit, ThreadFits, StoreFits
    <3> QED
      BY <2>0, <2>2, <2>10, <3>1, <3>2, Closed DEF UpdateCommit, DeleteCommit
  <2>11. ASSUME NEW w \in Workers, Abort(w) PROVE HomeInv'
    <3>1. StoreFits'
      BY <2>2, <2>11 DEF Abort, StoreFits, UpToDate
    <3> QED
      BY <2>0, <2>2, <2>11, <3>1, Closed DEF Abort
  <2>12. ASSUME NEW s \in store, Adopt(s) PROVE HomeInv'
    <3>1. (\A v \in Workers : tx'[v] = Idle) /\ waiting' = Idle
      BY <2>12 DEF Adopt, Busy
    <3>2. inserting' # Idle /\ inserting'.tid = s.tid /\ inserting'.ver = s.ver
      BY <2>3, <2>12 DEF Adopt, Session
    <3>3. store' = store \ {s} /\ user' = user
      BY <2>12 DEF Adopt, Removed
    <3>4. ReactorFits'
      BY <2>2, <3>1, <3>2, <3>3 DEF ReactorFits, StoreFits, UpToDate
    <3> QED
      BY <2>2, <3>1, <3>3, <3>4 DEF HomeInv, OneInFlight, StoreFits, ThreadsFit, UpToDate
  <2>13. ASSUME NEW s \in store, Leave(s) \/ Exhaust(s) PROVE HomeInv'
    <3>1. store' \subseteq store /\ UNCHANGED <<user, tx, waiting, inserting>>
      BY <2>13 DEF Leave, Exhaust, Revoked
    <3> QED
      BY <2>2, <3>1, FewerSessions
  <2>14. ASSUME NEW s \in store, NEW tid \in Tenants, Switch(s, tid) PROVE HomeInv'
    <3>1. (\A v \in Workers : tx'[v] = Idle) /\ inserting' = Idle
      BY <2>14 DEF Switch, Request, Busy
    <3>2. waiting'.ver = s.ver /\ s.tid = Home /\ UNCHANGED <<user, store>>
      BY <2>14 DEF Switch
    <3>3. UpToDate(waiting)'
      BY <2>2, <3>2 DEF StoreFits, UpToDate
    <3> QED
      BY <2>2, <3>1, <3>2, <3>3 DEF HomeInv, OneInFlight, StoreFits, ReactorFits, ThreadsFit, UpToDate
  <2>15. CASE SwitchRevoke
    <3>1. waiting # Idle /\ inserting' = waiting /\ waiting' = Idle /\ UNCHANGED <<user, tx>>
      BY <2>15 DEF SwitchRevoke
    <3>2. \A s \in store' : s \in store /\ s.tid # inserting'.tid
      BY <2>15, <3>1 DEF SwitchRevoke, Revoked
    <3>3. \A w \in Workers : tx'[w] = Idle
      BY <2>2, <3>1 DEF OneInFlight
    <3> QED
      BY <2>2, <3>1, <3>2, <3>3 DEF HomeInv, OneInFlight, StoreFits, ReactorFits, ThreadsFit, UpToDate
  <2>16. CASE Insert
    <3>1. inserting # Idle /\ inserting' = Idle /\ store' = store \cup {inserting} /\ UNCHANGED <<user, tx, waiting>>
      BY <2>16 DEF Insert
    <3>2. (\A w \in Workers : tx'[w] = Idle) /\ waiting' = Idle
      BY <2>2, <3>1 DEF OneInFlight
    <3>3. StoreFits'
      BY <2>2, <3>1 DEF StoreFits, ReactorFits, UpToDate
    <3> QED
      BY <3>1, <3>2, <3>3 DEF HomeInv, OneInFlight, ReactorFits, ThreadsFit
  <2>17. CASE UNCHANGED vars
    BY <2>2, <2>17, FewerSessions DEF vars
  <2> QED
    BY <2>4, <2>5, <2>6, <2>7, <2>8, <2>9, <2>10, <2>11, <2>12, <2>13, <2>14, <2>15, <2>16, <2>17
    DEF Next, Login, Update, Delete
<1> QED
  BY <1>1, <1>2, TypeCorrect, PTL DEF Spec

\* Requests that do not overlap leave the user one session in the tenant, and none
\* that dates from before the account was changed, disabled or deleted.
THEOREM HomeSessions == Spec => []HomeSessionsUpToDate
<1>1. HomeInv => HomeSessionsUpToDate
  BY DEF HomeInv, StoreFits, HomeSessionsUpToDate
<1> QED
  BY <1>1, HomeInvariant, PTL

-----------------------------------------------------------------------------
(* Routing: words, paths and the trie of the handlers *)

Word == STRING \cup {"reports", "id", "comments", "insertion", "attachment", "questionnaires", "key",
                     "duplicate", "s", "any", "acme-challenge"}

Words == Seq(Word)

\* The words of the routes are words.
LEMMA Literals ==
    /\ "reports" \in Word /\ "id" \in Word /\ "comments" \in Word /\ "insertion" \in Word
    /\ "attachment" \in Word /\ "questionnaires" \in Word /\ "key" \in Word
    /\ "duplicate" \in Word /\ "s" \in Word /\ "any" \in Word /\ "acme-challenge" \in Word
  BY DEF Word

\* Short sequences, written out.
LEMMA OfOne == ASSUME NEW S, NEW a \in S PROVE <<a>> \in Seq(S)
  OBVIOUS

LEMMA OfTwo == ASSUME NEW S, NEW a \in S, NEW b \in S PROVE <<a, b>> \in Seq(S)
  OBVIOUS

LEMMA OfThree == ASSUME NEW S, NEW a \in S, NEW b \in S, NEW c \in S PROVE <<a, b, c>> \in Seq(S)
  OBVIOUS

\* A prefix agrees with the path word by word.
LEMMA PrefixFacts ==
    ASSUME NEW s \in Words, NEW t \in Words
    PROVE  Routed!IsPrefix(s, t) <=> Len(s) <= Len(t) /\ \A i \in 1 .. Len(s) : s[i] = t[i]
<1>1. ASSUME NEW u \in Words, NEW n \in 0 .. Len(u)
      PROVE  /\ SubSeq(u, 1, n) \in Words /\ Len(SubSeq(u, 1, n)) = n
             /\ \A i \in 1 .. n : SubSeq(u, 1, n)[i] = u[i]
  <2>1. \A i \in 1 .. n : u[i] \in Word
    BY DEF Words
  <2>2. n \in Int /\ 1 \in Int /\ Len(u) \in Nat
    BY DEF Words
  <2>3. /\ SubSeq(u, 1, n) \in Seq(Word)
        /\ Len(SubSeq(u, 1, n)) = IF 1 <= n THEN n - 1 + 1 ELSE 0
        /\ \A i \in 1 .. n - 1 + 1 : SubSeq(u, 1, n)[i] = u[1 + i - 1]
    BY <2>1, <2>2, SubSeqProperties
  <2>4. QED BY <2>2, <2>3 DEF Words
<1>2. Len(s) \in Nat /\ Len(t) \in Nat /\ Len(s) \in 0 .. Len(s)
  BY DEF Words
<1>3. CASE Len(s) <= Len(t)
  <2>1. Len(s) \in 0 .. Len(t)
    BY <1>2, <1>3
  <2>2. SubSeq(s, 1, Len(s)) = SubSeq(t, 1, Len(s)) <=> \A i \in 1 .. Len(s) : s[i] = t[i]
    <3>1. ASSUME \A i \in 1 .. Len(s) : s[i] = t[i] PROVE SubSeq(s, 1, Len(s)) = SubSeq(t, 1, Len(s))
      <4> DEFINE a == SubSeq(s, 1, Len(s))
                 b == SubSeq(t, 1, Len(s))
      <4>1. a \in Words /\ b \in Words /\ Len(a) = Len(s) /\ Len(b) = Len(s)
            /\ \A i \in 1 .. Len(s) : a[i] = s[i] /\ b[i] = t[i]
        BY <1>1, <1>2, <2>1
      <4> HIDE DEF a, b
      <4>2. \A i \in 1 .. Len(a) : a[i] = b[i]
        BY <3>1, <4>1
      <4>3. a = b
        BY <4>1, <4>2, SeqEqual DEF Words
      <4>4. QED BY <4>3 DEF a, b
    <3>2. QED BY <1>1, <1>2, <2>1, <3>1
  <2>3. QED BY <1>3, <2>2 DEF Routed!IsPrefix
<1>4. QED BY <1>3 DEF Routed!IsPrefix

\* The first words of a path.
LEMMA Beginning ==
    ASSUME NEW u \in Words, NEW n \in 0 .. Len(u)
    PROVE  /\ SubSeq(u, 1, n) \in Words /\ Len(SubSeq(u, 1, n)) = n
           /\ \A i \in 1 .. n : SubSeq(u, 1, n)[i] = u[i]
<1>1. \A i \in 1 .. n : u[i] \in Word
  BY DEF Words
<1>2. n \in Int /\ 1 \in Int /\ Len(u) \in Nat
  BY DEF Words
<1>3. /\ SubSeq(u, 1, n) \in Seq(Word)
      /\ Len(SubSeq(u, 1, n)) = IF 1 <= n THEN n - 1 + 1 ELSE 0
      /\ \A i \in 1 .. n - 1 + 1 : SubSeq(u, 1, n)[i] = u[1 + i - 1]
  BY <1>1, <1>2, SubSeqProperties
<1>4. QED BY <1>2, <1>3 DEF Words

\* There are nine routes, and they are these.
LEMMA RouteFacts ==
    LET R == Routed!Routes IN
    /\ DOMAIN R = 1 .. 9
    /\ R[1] = [prefix |-> <<"reports">>, pattern |-> <<"reports">>, handler |-> "list"]
    /\ R[2] = [prefix |-> <<"reports">>, pattern |-> <<"reports", "id">>, handler |-> "report"]
    /\ R[3] = [prefix |-> <<"reports">>, pattern |-> <<"reports", "id", "comments">>, handler |-> "comments"]
    /\ R[4] = [prefix |-> <<"reports", "insertion">>, pattern |-> <<"reports", "insertion">>,
               handler |-> "insertion"]
    /\ R[5] = [prefix |-> <<"reports", "insertion", "attachment">>,
               pattern |-> <<"reports", "insertion", "attachment">>, handler |-> "attachment"]
    /\ R[6] = [prefix |-> <<"questionnaires">>, pattern |-> <<"questionnaires", "key">>,
               handler |-> "questionnaire"]
    /\ R[7] = [prefix |-> <<"questionnaires", "duplicate">>, pattern |-> <<"questionnaires", "duplicate">>,
               handler |-> "duplicate"]
    /\ R[8] = [prefix |-> <<"s">>, pattern |-> <<"s", "any">>, handler |-> "file"]
    /\ R[9] = [prefix |-> <<"acme-challenge">>, pattern |-> <<"acme-challenge", "id">>, handler |-> "challenge"]
BY DEF Routed!Routes, Routed!Route

Pre(i) == Routed!Routes[i].prefix
Pat(i) == Routed!Routes[i].pattern

\* The prefixes they are registered under.
LEMMA PreFacts ==
    /\ \A i \in {1, 2, 3} : Pre(i) = <<"reports">>
    /\ Pre(4) = <<"reports", "insertion">> /\ Pre(5) = <<"reports", "insertion", "attachment">>
    /\ Pre(6) = <<"questionnaires">> /\ Pre(7) = <<"questionnaires", "duplicate">>
    /\ Pre(8) = <<"s">> /\ Pre(9) = <<"acme-challenge">>
    /\ \A i \in 1 .. 9 : Pre(i) \in Words
<1>1. \A i \in 1 .. 9 : i \in {1, 2, 3, 4, 5, 6, 7, 8, 9}
  OBVIOUS
<1>2. /\ \A i \in {1, 2, 3} : Pre(i) = <<"reports">>
      /\ Pre(4) = <<"reports", "insertion">> /\ Pre(5) = <<"reports", "insertion", "attachment">>
      /\ Pre(6) = <<"questionnaires">> /\ Pre(7) = <<"questionnaires", "duplicate">>
      /\ Pre(8) = <<"s">> /\ Pre(9) = <<"acme-challenge">>
  BY RouteFacts DEF Pre
<1>3. \A i \in {1, 2, 3, 4, 5, 6, 7, 8, 9} : Pre(i) \in Words
  <2>1. /\ Pre(1) \in Words /\ Pre(2) \in Words /\ Pre(3) \in Words /\ Pre(6) \in Words
        /\ Pre(8) \in Words /\ Pre(9) \in Words
    BY <1>2, Literals, OfOne DEF Words
  <2>2. Pre(4) \in Words /\ Pre(7) \in Words
    BY <1>2, Literals, OfTwo DEF Words
  <2>3. Pre(5) \in Words
    BY <1>2, Literals, OfThree DEF Words
  <2>4. QED BY <2>1, <2>2, <2>3
<1>4. QED BY <1>1, <1>2, <1>3

\* Their patterns.
LEMMA PatFacts ==
    /\ Pat(1) = <<"reports">> /\ Pat(2) = <<"reports", "id">>
    /\ Pat(3) = <<"reports", "id", "comments">> /\ Pat(4) = <<"reports", "insertion">>
    /\ Pat(5) = <<"reports", "insertion", "attachment">> /\ Pat(6) = <<"questionnaires", "key">>
    /\ Pat(7) = <<"questionnaires", "duplicate">> /\ Pat(8) = <<"s", "any">>
    /\ Pat(9) = <<"acme-challenge", "id">>
    /\ \A i \in 1 .. 9 : Pat(i) \in Words
<1>1. \A i \in 1 .. 9 : i \in {1, 2, 3, 4, 5, 6, 7, 8, 9}
  OBVIOUS
<1>2. /\ Pat(1) = <<"reports">> /\ Pat(2) = <<"reports", "id">>
      /\ Pat(3) = <<"reports", "id", "comments">> /\ Pat(4) = <<"reports", "insertion">>
      /\ Pat(5) = <<"reports", "insertion", "attachment">> /\ Pat(6) = <<"questionnaires", "key">>
      /\ Pat(7) = <<"questionnaires", "duplicate">> /\ Pat(8) = <<"s", "any">>
      /\ Pat(9) = <<"acme-challenge", "id">>
  BY RouteFacts DEF Pat
<1>3. \A i \in {1, 2, 3, 4, 5, 6, 7, 8, 9} : Pat(i) \in Words
  <2>1. Pat(1) \in Words
    BY <1>2, Literals, OfOne DEF Words
  <2>2. /\ Pat(2) \in Words /\ Pat(4) \in Words /\ Pat(6) \in Words /\ Pat(7) \in Words
        /\ Pat(8) \in Words /\ Pat(9) \in Words
    BY <1>2, Literals, OfTwo DEF Words
  <2>3. Pat(3) \in Words /\ Pat(5) \in Words
    BY <1>2, Literals, OfThree DEF Words
  <2>4. QED BY <2>1, <2>2, <2>3
<1>4. QED BY <1>1, <1>2, <1>3

\* Only the routes of two fixed words or more make nodes that deep.
LEMMA NodeFacts ==
    /\ \A i \in 1 .. 9 : Pre(i) \in Routed!Nodes
    /\ \A m \in Routed!Nodes :
         /\ m \in Words
         /\ Len(m) >= 2 => \/ m[1] = "reports" /\ m[2] = "insertion"
                           \/ m[1] = "questionnaires" /\ m[2] = "duplicate"
<1>1. ASSUME NEW i \in 1 .. 9 PROVE Pre(i) \in Routed!Nodes
  <2>1. Pre(i) \in Words
    BY PreFacts
  <2>2. SubSeq(Pre(i), 1, Len(Pre(i))) = Pre(i)
    BY <2>1, SubSeqFull DEF Words
  <2>3. Len(Pre(i)) \in 0 .. Len(Pre(i))
    BY <2>1 DEF Words
  <2>4. Pre(i) \in Routed!Prefixes(Pre(i))
    BY <2>2, <2>3 DEF Routed!Prefixes
  <2>5. QED BY <2>4, RouteFacts DEF Routed!Nodes, Pre
<1>2. ASSUME NEW m \in Routed!Nodes
      PROVE  /\ m \in Words
             /\ Len(m) >= 2 => \/ m[1] = "reports" /\ m[2] = "insertion"
                               \/ m[1] = "questionnaires" /\ m[2] = "duplicate"
  <2>1. PICK i \in 1 .. 9 : m \in Routed!Prefixes(Pre(i))
    BY RouteFacts DEF Routed!Nodes, Pre
  <2>2. PICK n \in 0 .. Len(Pre(i)) : m = SubSeq(Pre(i), 1, n)
    BY <2>1 DEF Routed!Prefixes
  <2>3. m \in Words /\ Len(m) = n /\ \A j \in 1 .. n : m[j] = Pre(i)[j]
    BY <2>2, PreFacts, Beginning
  <2>4. ASSUME Len(m) >= 2 PROVE m[1] = Pre(i)[1] /\ m[2] = Pre(i)[2] /\ Len(Pre(i)) >= 2
    BY <2>3, <2>4, PreFacts DEF Words
  <2>5. Len(Pre(i)) >= 2 => \/ Pre(i)[1] = "reports" /\ Pre(i)[2] = "insertion"
                            \/ Pre(i)[1] = "questionnaires" /\ Pre(i)[2] = "duplicate"
    BY PreFacts
  <2>6. QED BY <2>3, <2>4, <2>5
<1>3. QED BY <1>1, <1>2

\* What a path that matches a pattern looks like.
LEMMA MatchFacts ==
    ASSUME NEW path \in Words
    PROVE  /\ Routed!Matches(Pat(1), path) => path = Pat(1)
           /\ Routed!Matches(Pat(2), path) =>
                /\ Len(path) = 2 /\ path[1] = "reports"
                /\ path[2] \in {"id", "id1", "token"}
           /\ Routed!Matches(Pat(3), path) =>
                /\ Len(path) = 3 /\ path[1] = "reports"
                /\ path[2] \in {"id", "id1", "token"}
           /\ Routed!Matches(Pat(4), path) => path = Pat(4)
           /\ Routed!Matches(Pat(5), path) => path = Pat(5)
           /\ Routed!Matches(Pat(6), path) => Len(path) = 2 /\ path[1] = "questionnaires"
           /\ Routed!Matches(Pat(7), path) => path = Pat(7)
           /\ Routed!Matches(Pat(8), path) => Len(path) >= 2 /\ path[1] = "s"
           /\ Routed!Matches(Pat(9), path) => Len(path) = 2 /\ path[1] = "acme-challenge"
<1>1. ASSUME NEW p \in Words, Len(p) > 0, p[Len(p)] # "any", Routed!Matches(p, path)
      PROVE  /\ Len(path) = Len(p)
             /\ \A i \in 1 .. Len(p) : \/ p[i] = path[i]
                                       \/ p[i] \in {"id", "key"} /\ path[i] \in {"id1", "token"}
                                       \/ p[i] = "key" /\ path[i] # ""
  BY <1>1 DEF Routed!Matches, Routed!Identifiers
<1>2. ASSUME NEW p \in Words, Len(p) > 0, p[Len(p)] # "any", Routed!Matches(p, path),
             \A i \in 1 .. Len(p) : p[i] \notin {"id", "key"}
      PROVE  path = p
  <2>1. Len(path) = Len(p) /\ \A i \in 1 .. Len(p) : p[i] = path[i]
    BY <1>1, <1>2
  <2>2. QED BY <2>1, SeqEqual DEF Words
<1>3. \A i \in 1 .. 9 : Pat(i) \in Words
  BY PatFacts
<1>4. /\ Len(Pat(1)) = 1 /\ Pat(1)[1] = "reports"
      /\ Len(Pat(2)) = 2 /\ Pat(2)[1] = "reports" /\ Pat(2)[2] = "id"
      /\ Len(Pat(3)) = 3 /\ Pat(3)[1] = "reports" /\ Pat(3)[2] = "id" /\ Pat(3)[3] = "comments"
      /\ Len(Pat(4)) = 2 /\ Pat(4)[1] = "reports" /\ Pat(4)[2] = "insertion"
      /\ Len(Pat(5)) = 3 /\ Pat(5)[1] = "reports" /\ Pat(5)[2] = "insertion" /\ Pat(5)[3] = "attachment"
      /\ Len(Pat(6)) = 2 /\ Pat(6)[1] = "questionnaires" /\ Pat(6)[2] = "key"
      /\ Len(Pat(7)) = 2 /\ Pat(7)[1] = "questionnaires" /\ Pat(7)[2] = "duplicate"
      /\ Len(Pat(8)) = 2 /\ Pat(8)[1] = "s" /\ Pat(8)[2] = "any"
      /\ Len(Pat(9)) = 2 /\ Pat(9)[1] = "acme-challenge" /\ Pat(9)[2] = "id"
  BY PatFacts
<1>5. 1 \in 1 .. 2 /\ 2 \in 1 .. 2 /\ 1 \in 1 .. 3 /\ 2 \in 1 .. 3
  OBVIOUS
<1>6. Routed!Matches(Pat(1), path) => path = Pat(1)
  <2>1. Pat(1) \in Words /\ Len(Pat(1)) > 0 /\ Pat(1)[Len(Pat(1))] # "any"
    BY <1>3, <1>4
  <2>2. \A i \in 1 .. Len(Pat(1)) : Pat(1)[i] \notin {"id", "key"}
    BY <1>4
  <2>3. QED BY <1>2, <2>1, <2>2
<1>7. Routed!Matches(Pat(4), path) => path = Pat(4)
  <2>1. Pat(4) \in Words /\ Len(Pat(4)) > 0 /\ Pat(4)[Len(Pat(4))] # "any"
    BY <1>3, <1>4
  <2>2. \A i \in 1 .. Len(Pat(4)) : Pat(4)[i] \notin {"id", "key"}
    BY <1>4
  <2>3. QED BY <1>2, <2>1, <2>2
<1>8. Routed!Matches(Pat(5), path) => path = Pat(5)
  <2>1. Pat(5) \in Words /\ Len(Pat(5)) > 0 /\ Pat(5)[Len(Pat(5))] # "any"
    BY <1>3, <1>4
  <2>2. \A i \in 1 .. Len(Pat(5)) : Pat(5)[i] \notin {"id", "key"}
    BY <1>4
  <2>3. QED BY <1>2, <2>1, <2>2
<1>9. Routed!Matches(Pat(7), path) => path = Pat(7)
  <2>1. Pat(7) \in Words /\ Len(Pat(7)) > 0 /\ Pat(7)[Len(Pat(7))] # "any"
    BY <1>3, <1>4
  <2>2. \A i \in 1 .. Len(Pat(7)) : Pat(7)[i] \notin {"id", "key"}
    BY <1>4
  <2>3. QED BY <1>2, <2>1, <2>2
<1>10. Routed!Matches(Pat(2), path) =>
         /\ Len(path) = 2 /\ path[1] = "reports"
         /\ path[2] \in {"id", "id1", "token"}
  <2> SUFFICES ASSUME Routed!Matches(Pat(2), path)
               PROVE  Len(path) = 2 /\ path[1] = "reports" /\ path[2] \in {"id", "id1", "token"}
    OBVIOUS
  <2>1. Pat(2) \in Words /\ Len(Pat(2)) > 0 /\ Pat(2)[Len(Pat(2))] # "any"
    BY <1>3, <1>4
  <2>2. /\ Len(path) = Len(Pat(2))
        /\ \A i \in 1 .. Len(Pat(2)) :
              \/ Pat(2)[i] = path[i]
              \/ Pat(2)[i] \in {"id", "key"} /\ path[i] \in {"id1", "token"}
              \/ Pat(2)[i] = "key" /\ path[i] # ""
    BY <1>1, <2>1
  <2>3. QED BY <1>4, <1>5, <2>2
<1>11. Routed!Matches(Pat(3), path) =>
         /\ Len(path) = 3 /\ path[1] = "reports"
         /\ path[2] \in {"id", "id1", "token"}
  <2> SUFFICES ASSUME Routed!Matches(Pat(3), path)
               PROVE  Len(path) = 3 /\ path[1] = "reports" /\ path[2] \in {"id", "id1", "token"}
    OBVIOUS
  <2>1. Pat(3) \in Words /\ Len(Pat(3)) > 0 /\ Pat(3)[Len(Pat(3))] # "any"
    BY <1>3, <1>4
  <2>2. /\ Len(path) = Len(Pat(3))
        /\ \A i \in 1 .. Len(Pat(3)) :
              \/ Pat(3)[i] = path[i]
              \/ Pat(3)[i] \in {"id", "key"} /\ path[i] \in {"id1", "token"}
              \/ Pat(3)[i] = "key" /\ path[i] # ""
    BY <1>1, <2>1
  <2>3. QED BY <1>4, <1>5, <2>2
<1>12. Routed!Matches(Pat(6), path) => Len(path) = 2 /\ path[1] = "questionnaires"
  <2> SUFFICES ASSUME Routed!Matches(Pat(6), path) PROVE Len(path) = 2 /\ path[1] = "questionnaires"
    OBVIOUS
  <2>1. Pat(6) \in Words /\ Len(Pat(6)) > 0 /\ Pat(6)[Len(Pat(6))] # "any"
    BY <1>3, <1>4
  <2>2. /\ Len(path) = Len(Pat(6))
        /\ \A i \in 1 .. Len(Pat(6)) :
              \/ Pat(6)[i] = path[i]
              \/ Pat(6)[i] \in {"id", "key"} /\ path[i] \in {"id1", "token"}
              \/ Pat(6)[i] = "key" /\ path[i] # ""
    BY <1>1, <2>1
  <2>3. QED BY <1>4, <1>5, <2>2
<1>13. Routed!Matches(Pat(9), path) => Len(path) = 2 /\ path[1] = "acme-challenge"
  <2> SUFFICES ASSUME Routed!Matches(Pat(9), path) PROVE Len(path) = 2 /\ path[1] = "acme-challenge"
    OBVIOUS
  <2>1. Pat(9) \in Words /\ Len(Pat(9)) > 0 /\ Pat(9)[Len(Pat(9))] # "any"
    BY <1>3, <1>4
  <2>2. /\ Len(path) = Len(Pat(9))
        /\ \A i \in 1 .. Len(Pat(9)) :
              \/ Pat(9)[i] = path[i]
              \/ Pat(9)[i] \in {"id", "key"} /\ path[i] \in {"id1", "token"}
              \/ Pat(9)[i] = "key" /\ path[i] # ""
    BY <1>1, <2>1
  <2>3. QED BY <1>4, <1>5, <2>2
<1>14. Routed!Matches(Pat(8), path) => Len(path) >= 2 /\ path[1] = "s"
  <2> SUFFICES ASSUME Routed!Matches(Pat(8), path) PROVE Len(path) >= 2 /\ path[1] = "s"
    OBVIOUS
  <2>1. Len(Pat(8)) = 2 /\ Pat(8)[2] = "any" /\ Pat(8)[1] = "s" /\ 2 > 0
    BY <1>4
  <2>2. Len(path) >= 2 /\ SubSeq(path, 1, 2 - 1) = SubSeq(Pat(8), 1, 2 - 1)
    BY <2>1 DEF Routed!Matches
  <2>3. Len(path) >= 2 /\ SubSeq(path, 1, 1) = SubSeq(Pat(8), 1, 1)
    BY <2>2
  <2>4. 1 \in 0 .. Len(path) /\ 1 \in 0 .. Len(Pat(8)) /\ 1 \in 1 .. 1
    BY <2>1, <2>3 DEF Words
  <2>5. SubSeq(path, 1, 1)[1] = path[1] /\ SubSeq(Pat(8), 1, 1)[1] = Pat(8)[1]
    BY <1>3, <2>4, Beginning
  <2>6. QED BY <2>1, <2>3, <2>5
<1>15. QED BY <1>6, <1>7, <1>8, <1>9, <1>10, <1>11, <1>12, <1>13, <1>14

\* A path that begins with the words of a pattern matches it.
LEMMA MatchBegins ==
    ASSUME NEW path \in Words, NEW i \in 1 .. 9, Routed!Matches(Pat(i), path),
           ~\E j \in 1 .. 9 : Pat(j) = Pre(j) /\ Pre(j) = path
    PROVE  /\ i \in {2, 3, 6, 8, 9}
           /\ Routed!IsPrefix(Pre(i), path)
           /\ \A j \in 1 .. 9 : Routed!Matches(Pat(j), path) => j = i
           /\ \A m \in Routed!Nodes : Routed!IsPrefix(m, path) => Len(m) <= Len(Pre(i))
<1>1. Pat(1) = Pre(1) /\ Pat(4) = Pre(4) /\ Pat(5) = Pre(5) /\ Pat(7) = Pre(7)
  BY PreFacts, PatFacts
<1>2. \A j \in 1 .. 9 : Routed!Matches(Pat(j), path) => j \in {2, 3, 6, 8, 9}
  <2>1. \A j \in 1 .. 9 : j \in {1, 4, 5, 7} \/ j \in {2, 3, 6, 8, 9}
    OBVIOUS
  <2>2. ~Routed!Matches(Pat(1), path) /\ ~Routed!Matches(Pat(4), path)
        /\ ~Routed!Matches(Pat(5), path) /\ ~Routed!Matches(Pat(7), path)
    BY <1>1, MatchFacts
  <2>3. QED BY <2>1, <2>2
<1>3. \A j \in 1 .. 9 : Routed!Matches(Pat(j), path) => j = i
  <2>1. SUFFICES ASSUME NEW j \in {2, 3, 6, 8, 9}, Routed!Matches(Pat(j), path) PROVE j = i
    BY <1>2
  <2>2. i \in {2, 3, 6, 8, 9}
    BY <1>2
  <2>3. \A k \in {2, 3, 6, 8, 9} : Routed!Matches(Pat(k), path) =>
           /\ k = 2 => Len(path) = 2 /\ path[1] = "reports"
           /\ k = 3 => Len(path) = 3 /\ path[1] = "reports"
           /\ k = 6 => path[1] = "questionnaires"
           /\ k = 8 => path[1] = "s"
           /\ k = 9 => path[1] = "acme-challenge"
    BY MatchFacts
  <2>4. QED BY <2>1, <2>2, <2>3
<1>4. /\ Len(Pre(i)) = 1 /\ Len(path) >= 2 /\ Pre(i)[1] = path[1]
  <2>1. i \in {2, 3, 6, 8, 9}
    BY <1>2
  <2>2. /\ Len(Pre(2)) = 1 /\ Pre(2)[1] = "reports" /\ Len(Pre(3)) = 1 /\ Pre(3)[1] = "reports"
        /\ Len(Pre(6)) = 1 /\ Pre(6)[1] = "questionnaires" /\ Len(Pre(8)) = 1 /\ Pre(8)[1] = "s"
        /\ Len(Pre(9)) = 1 /\ Pre(9)[1] = "acme-challenge"
    BY PreFacts
  <2>3. QED BY <2>1, <2>2, MatchFacts
<1>5. Pre(i) \in Words
  BY PreFacts
<1>6. Routed!IsPrefix(Pre(i), path)
  <2>1. Len(Pre(i)) <= Len(path) /\ \A k \in 1 .. Len(Pre(i)) : Pre(i)[k] = path[k]
    BY <1>4 DEF Words
  <2>2. QED BY <1>5, <2>1, PrefixFacts
<1>7. ASSUME NEW m \in Routed!Nodes, Routed!IsPrefix(m, path), ~(Len(m) <= Len(Pre(i)))
      PROVE  FALSE
  <2> m \in Words
    BY <1>7, NodeFacts
  <2>1. m \in Words /\ Len(m) \in Nat /\ Len(m) >= 2
    BY <1>4, <1>7 DEF Words
  <2>2. m[1] = path[1] /\ m[2] = path[2]
    BY <1>7, <2>1, PrefixFacts
  <2>3. \/ path[1] = "reports" /\ path[2] = "insertion"
        \/ path[1] = "questionnaires" /\ path[2] = "duplicate"
    BY <2>1, <2>2, NodeFacts
  <2>4. i \in {2, 3, 6, 8, 9}
    BY <1>2
  <2>5. i = 6 /\ Len(path) = 2 /\ path[1] = "questionnaires" /\ path[2] = "duplicate"
    BY <2>3, <2>4, MatchFacts
  <2>6. Len(Pre(7)) = 2 /\ Pre(7)[1] = "questionnaires" /\ Pre(7)[2] = "duplicate" /\ Pre(7) \in Words
    BY PreFacts
  <2>7. \A k \in 1 .. Len(path) : path[k] = Pre(7)[k]
    BY <2>5, <2>6
  <2>8. path = Pre(7)
    BY <2>5, <2>6, <2>7, SeqEqual DEF Words
  <2>9. QED BY <1>1, <2>8
<1>8. QED BY <1>2, <1>3, <1>6, <1>7

\* The trie leads to the routes of the pattern a path matches.
LEMMA ReachedPre ==
    ASSUME NEW path \in Words, NEW i \in 1 .. 9, Routed!Matches(Pat(i), path),
           ~\E j \in 1 .. 9 : Pat(j) = Pre(j) /\ Pre(j) = path
    PROVE  Routed!Reached(path) = Pre(i)
<1> DEFINE Longest(m) == /\ Routed!IsPrefix(m, path)
                         /\ \A other \in Routed!Nodes : Routed!IsPrefix(other, path) => Len(other) <= Len(m)
<1>1. Pre(i) \in Routed!Nodes /\ Longest(Pre(i)) /\ Pre(i) \in Words
  BY MatchBegins, NodeFacts, PreFacts
<1>2. ASSUME NEW m \in Routed!Nodes, Longest(m) PROVE m = Pre(i)
  <2> m \in Words
    BY NodeFacts
  <2>1. m \in Words /\ Len(m) \in Nat /\ Len(Pre(i)) \in Nat
    BY <1>1 DEF Words
  <2>2. Len(m) = Len(Pre(i))
    BY <1>1, <1>2, <2>1
  <2>3. \A k \in 1 .. Len(m) : m[k] = Pre(i)[k]
    BY <1>1, <1>2, <2>1, <2>2, PrefixFacts
  <2>4. QED BY <1>1, <2>1, <2>2, <2>3, SeqEqual DEF Words
<1>3. QED BY <1>1, <1>2 DEF Routed!Reached

\* A path is handled by what it is for.
LEMMA ResolvedRight ==
    ASSUME NEW path \in Words
    PROVE  /\ Routed!Handlers(path) # {} => Routed!Resolved(path) \in Routed!Handlers(path)
           /\ Routed!Handlers(path) = {} => Routed!Resolved(path) = "static"
<1> DEFINE exact == {i \in 1 .. 9 : Pat(i) = path}
           fits == {i \in 1 .. 9 : Routed!Matches(Pat(i), path)}
           found == Routed!Found(path)
           static == \E i \in 1 .. 9 : Pat(i) = Pre(i) /\ Pre(i) = path
<1>1. DOMAIN Routed!Routes = 1 .. 9
  BY RouteFacts
<1>2. Routed!Handlers(path) = {Routed!Routes[i].handler : i \in IF exact # {} THEN exact ELSE fits}
  BY <1>1 DEF Routed!Handlers, Pat
<1>3. found = {i \in 1 .. 9 : Pre(i) = Routed!Reached(path) /\ i \in fits}
  BY <1>1 DEF Routed!Found, Pre, Pat
<1>4. Routed!Resolved(path) =
        IF static THEN Routed!Routes[CHOOSE i \in 1 .. 9 : Pat(i) = path].handler
        ELSE IF found # {} THEN Routed!Routes[CHOOSE i \in found : \A j \in found : i <= j].handler
        ELSE "static"
  BY <1>1 DEF Routed!Resolved, Pre, Pat
<1>5. CASE static
  <2>1. \E i \in 1 .. 9 : Pat(i) = path
    BY <1>5
  <2>2. (CHOOSE i \in 1 .. 9 : Pat(i) = path) \in exact
    BY <2>1
  <2>3. QED BY <1>2, <1>4, <1>5, <2>2
<1>6. CASE ~static
  <2>1. exact \subseteq fits
    <3> SUFFICES ASSUME NEW i \in 1 .. 9 PROVE Routed!Matches(Pat(i), Pat(i))
      OBVIOUS
    <3>1. Len(Pat(i)) \in Nat
      BY PatFacts DEF Words
    <3>2. QED BY <3>1 DEF Routed!Matches
  <2>2. CASE fits = {}
    BY <1>2, <1>3, <1>4, <1>6, <2>1, <2>2
  <2>3. ASSUME NEW i \in fits PROVE Routed!Resolved(path) = Routed!Routes[i].handler /\ fits = {i}
    <3>1. fits = {i}
      BY <1>6, <2>3, MatchBegins
    <3>2. Routed!Reached(path) = Pre(i)
      BY <1>6, <2>3, ReachedPre
    <3>3. found = {i}
      BY <1>3, <3>1, <3>2
    <3>4. (CHOOSE k \in found : \A j \in found : k <= j) = i
      <4>1. i \in 1 .. 9 /\ i <= i
        BY <2>3
      <4> HIDE DEF found
      <4>2. QED BY <3>3, <4>1
    <3>5. QED BY <1>4, <1>6, <3>1, <3>3, <3>4
  <2>4. CASE fits # {}
    <3>1. PICK i \in fits : TRUE
      BY <2>4
    <3>2. Routed!Resolved(path) = Routed!Routes[i].handler /\ fits = {i}
      BY <2>3, <3>1
    <3>3. (IF exact # {} THEN exact ELSE fits) = {i}
      BY <2>1, <3>2
    <3>4. QED BY <1>2, <3>2, <3>3
  <2>5. QED BY <2>2, <2>4
<1>7. QED BY <1>5, <1>6

\* What is assumed of the tenants, and of the configurations.
LEMMA RoutingFacts ==
    /\ Root \in Hosted /\ 0 \notin Hosted
    /\ MaxHops \in Nat /\ MaxHops >= 2
  BY EntryAssumption DEF Routed!RoutingAssumption

LEMMA ConfigFacts ==
    ASSUME config \in Configs
    PROVE  /\ config.wizard \in BOOLEAN /\ config.https \in BOOLEAN /\ config.rootdomain \in BOOLEAN
           /\ \A t \in Hosted :
                /\ Routed!Row(t).active \in BOOLEAN /\ Routed!Row(t).web \in BOOLEAN /\ Routed!Row(t).onion \in BOOLEAN
                /\ Routed!Row(t).host \in {<<"none", 0>>, <<"name", t>>, <<"www", t>>}
           /\ Routed!Row(Root).active
           /\ ~config.wizard => \A t \in Hosted \ {Root} : ~Routed!Row(t).active
  BY EntryAssumption DEF Routed!RoutingAssumption, Routed!Row, Routed!Host, Routed!NoHost

\* The onion services of a tenant.
LEMMA OnionFacts ==
    ASSUME NEW t \in Hosted
    PROVE  /\ Routed!Onionnames(t) # <<>> <=>
                Routed!Row(t).active /\ (Routed!Row(t).onion \/ (t # Root /\ Routed!Row(Root).onion))
           /\ Routed!Onionnames(t) # <<>> =>
                /\ Routed!Onionnames(t)[1] \in Routed!ToSet(Routed!Onionnames(t))
                /\ Routed!Onionnames(t)[1] \in {<<"onion", t>>, <<"subonion", t>>}
           /\ Routed!ToSet(Routed!Onionnames(t)) \subseteq {<<"onion", t>>, <<"subonion", t>>}
<1> DEFINE a == IF Routed!Row(t).onion THEN <<Routed!Host("onion", t)>> ELSE <<>>
           b == IF t # Root /\ Routed!Row(Root).onion THEN <<Routed!Host("subonion", t)>> ELSE <<>>
           o == <<"onion", t>>
           s == <<"subonion", t>>
           H == {o, s}
<1>1. a \in Seq(H) /\ b \in Seq(H)
  BY DEF Routed!Host
<1>2. Routed!Row(t).active => Routed!Onionnames(t) = a \o b
  BY DEF Routed!Onionnames
<1>3. /\ a \o b \in Seq(H) /\ Len(a \o b) = Len(a) + Len(b)
      /\ \A i \in 1 .. Len(a) + Len(b) : (a \o b)[i] = IF i <= Len(a) THEN a[i] ELSE b[i - Len(a)]
  BY <1>1, ConcatProperties
<1>4. /\ Routed!Row(t).onion => Len(a) = 1
      /\ ~Routed!Row(t).onion => Len(a) = 0
      /\ (t # Root /\ Routed!Row(Root).onion) => Len(b) = 1
      /\ ~(t # Root /\ Routed!Row(Root).onion) => Len(b) = 0
  OBVIOUS
<1>5. CASE ~Routed!Row(t).active
  BY <1>5 DEF Routed!Onionnames, Routed!ToSet
<1>6. CASE Routed!Row(t).active
  <2> DEFINE c == a \o b
  <2>1. c \in Seq(H) /\ Len(c) = Len(a) + Len(b) /\ Routed!Onionnames(t) = c
    BY <1>2, <1>3, <1>6
  <2> HIDE DEF c, a, b, H
  <2>2. /\ Len(c) \in Nat /\ DOMAIN c = 1 .. Len(c) /\ \A i \in 1 .. Len(c) : c[i] \in H
        /\ c # <<>> <=> Len(c) # 0
    BY <2>1
  <2>3. Routed!ToSet(c) \subseteq H /\ (c # <<>> => c[1] \in Routed!ToSet(c))
    BY <2>2 DEF Routed!ToSet
  <2>4. c # <<>> <=> Routed!Row(t).onion \/ (t # Root /\ Routed!Row(Root).onion)
    BY <1>4, <2>1, <2>2
  <2>5. QED BY <1>6, <2>1, <2>3, <2>4 DEF H
<1>7. QED BY <1>5, <1>6

\* Whose a name is, by its kind.
LEMMA NameFacts ==
    ASSUME config \in Configs, NEW t \in Hosted, NEW host \in Routed!NamesOf(t)
    PROVE  /\ host[2] = t /\ host[1] \in {"name", "www", "sub", "onion", "subonion"}
           /\ host = <<host[1], host[2]>>
<1>1. CASE host \in Routed!Hostnames(t)
  BY <1>1, ConfigFacts DEF Routed!Hostnames, Routed!Host, Routed!NoHost
<1>2. CASE host \in Routed!ToSet(Routed!Onionnames(t))
  BY <1>2, OnionFacts
<1>3. QED BY <1>1, <1>2 DEF Routed!NamesOf

\* The map leads from each name to the one tenant it is of.
LEMMA MappedFacts ==
    ASSUME config \in Configs, map = Routed!Map, NEW host
    PROVE  /\ Routed!Mapped(host) \in Hosted \cup {0}
           /\ \A t \in Hosted : Routed!Mapped(host) = t <=> host \in Routed!NamesOf(t)
<1>1. DOMAIN map = UNION {Routed!NamesOf(t) : t \in Hosted}
  BY DEF Routed!Map
<1>2. ASSUME NEW t \in Hosted, host \in Routed!NamesOf(t) PROVE Routed!Mapped(host) = t
  <2>1. host \in DOMAIN map
    BY <1>1, <1>2
  <2>2. map[host] = CHOOSE u \in Hosted : host \in Routed!NamesOf(u)
    BY <2>1, <1>1 DEF Routed!Map
  <2>3. \A u \in Hosted : host \in Routed!NamesOf(u) => u = t
    BY <1>2, NameFacts
  <2>4. QED BY <1>2, <2>1, <2>2, <2>3 DEF Routed!Mapped
<1>3. (\A t \in Hosted : host \notin Routed!NamesOf(t)) => Routed!Mapped(host) = 0
  BY <1>1 DEF Routed!Mapped
<1>4. QED BY <1>2, <1>3, RoutingFacts

\* The tenant of an address, as the browser may be at it.
HostTid(u) ==
    IF \/ ~config.wizard
       \/ u.host[1] \in {"loopback", "localhost"}
       \/ Routed!Row(Root).host = Routed!NoHost /\ Routed!IsIP(u.host)
    THEN Root ELSE Routed!Mapped(u.host)

Pref(u) == HostTid(u) = Root /\ u.prefix \in Routed!Active

TidOf(u) == IF Pref(u) THEN u.prefix ELSE HostTid(u)

TorOf(u) ==
    overtor /\ Routed!Onionnames(TidOf(u)) # <<>> /\ u.host # Routed!Onionnames(TidOf(u))[1]

AddressOf(u) == Routed!IsIP(u.host) /\ Routed!Secured

ToOf(u, scheme, host) ==
    [scheme |-> scheme, host |-> host, prefix |-> IF Pref(u) THEN 0 ELSE u.prefix,
     path |-> Routed!Plain(u.path)]

\* These are what Routing says of the place the browser is at.
LEMMA AtUrl ==
    /\ Routed!Tid = TidOf(url) /\ Routed!Prefixed = Pref(url) /\ Routed!TorRedirected = TorOf(url)
    /\ Routed!ByAddress = AddressOf(url)
    /\ \A scheme, host : Routed!To(scheme, host) = ToOf(url, scheme, host)
BY DEF Routed!Tid, TidOf, Routed!Prefixed, Pref, Routed!ByHost, HostTid, Routed!TorRedirected, TorOf,
       Routed!ByAddress, AddressOf, Routed!To, ToOf, Routed!Path

UrlOK(u) ==
    /\ u = [scheme |-> u.scheme, host |-> u.host, prefix |-> u.prefix, path |-> u.path]
    /\ u.scheme \in {"http", "https"} /\ u.prefix \in Hosted \cup {0} /\ u.path \in Words

ConfigOK == config \in Configs /\ map = Routed!Map

\* Who may answer: the tenant that is meant, or the root for one whose prefix is lost.
Due == Routed!Meant \cup (IF Routed!Lost THEN {Root} ELSE {})

\* Whether a change of host or scheme, and of path, may still come
Onward(u) == TorOf(u) \/ (u.scheme = "http" /\ ~Routed!IsOnion(u.host))

\* The way so far has not left the tenant, and is not long.
OnTheWay(u, n) ==
    /\ UrlOK(u)
    /\ Routed!Meant # {} /\ TidOf(u) \in Due /\ TidOf(u) # 0 /\ ~AddressOf(u)
    /\ Pref(u) => TidOf(u) \in Routed!Meant
    /\ u.prefix # 0 => /\ asked.prefix # 0 /\ Routed!Plain(u.path) = Routed!Plain(asked.path)
                       /\ u.scheme = "http" /\ ~Routed!IsOnion(u.host) => asked.scheme = "http"
    /\ n \in Nat /\ n <= 2
    /\ Onward(u) => n + 1 <= 2

\* The way has ended: nobody answers here, nor is anybody meant.
Astray(u, n) ==
    /\ UrlOK(u) /\ TidOf(u) = 0 /\ ~AddressOf(u) /\ Routed!Mapped(Routed!Www(u.host)) = 0
    /\ Routed!Meant = {} /\ n \in Nat /\ n <= 2

\* A path is made plain once.
LEMMA PlainFacts ==
    ASSUME NEW path \in Words
    PROVE  Routed!Plain(path) \in Words /\ Routed!Plain(Routed!Plain(path)) = Routed!Plain(path)
<1>1. <<>> \in Words /\ <<>> # <<"index.html">>
  BY DEF Words
<1>2. QED BY <1>1 DEF Routed!Plain

\* The tenant of an address.
LEMMA TidFacts ==
    ASSUME ConfigOK, NEW u, UrlOK(u)
    PROVE  /\ TidOf(u) \in Hosted \cup {0} /\ HostTid(u) \in Hosted \cup {0}
           /\ Pref(u) => u.prefix \in Hosted /\ Routed!Row(u.prefix).active /\ u.prefix # 0
           /\ ~config.wizard /\ Pref(u) => u.prefix = Root
<1>1. Routed!Mapped(u.host) \in Hosted \cup {0}
  BY MappedFacts DEF ConfigOK
<1>2. HostTid(u) \in Hosted \cup {0}
  BY <1>1, RoutingFacts DEF HostTid
<1>3. Pref(u) => u.prefix \in Hosted /\ Routed!Row(u.prefix).active
  BY DEF Pref, Routed!Active
<1>4. QED BY <1>2, <1>3, RoutingFacts, ConfigFacts DEF TidOf, ConfigOK

\* An onion service leads to its tenant.
LEMMA OnionLeads ==
    ASSUME ConfigOK, NEW t \in Hosted, Routed!Onionnames(t) # <<>>
    PROVE  LET o == Routed!Onionnames(t)[1]
           IN /\ Routed!Mapped(o) = t /\ Routed!IsOnion(o) /\ ~Routed!IsIP(o)
              /\ o[1] \notin {"loopback", "localhost"}
<1> DEFINE o == Routed!Onionnames(t)[1]
<1>1. o \in Routed!NamesOf(t) /\ o \in {<<"onion", t>>, <<"subonion", t>>}
  BY OnionFacts DEF Routed!NamesOf
<1> HIDE DEF o
<1>2. Routed!Mapped(o) = t
  BY <1>1, MappedFacts DEF ConfigOK
<1>3. o[1] \in {"onion", "subonion"}
  BY <1>1
<1>4. QED BY <1>2, <1>3 DEF Routed!IsOnion, Routed!IsIP, o

\* Until the first redirect, the tenant found is the one that is meant.
LEMMA AtFirst ==
    ASSUME ConfigOK, UrlOK(asked), TidOf(asked) # 0, ~AddressOf(asked)
    PROVE  Routed!Meant = {TidOf(asked)}
<1> DEFINE host == asked.host
           h == HostTid(asked)
<1>1. h # 0
  BY RoutingFacts DEF TidOf, Pref
<1>2. Routed!Owner(host) = {h}
  <2>1. CASE ~config.wizard \/ host[1] \in {"loopback", "localhost"}
    BY <2>1, RoutingFacts DEF HostTid, Routed!Owner, Routed!IsIP, AddressOf
  <2>2. CASE ~(~config.wizard \/ host[1] \in {"loopback", "localhost"}) /\ Routed!IsIP(host)
    <3>1. Routed!Mapped(host) = 0
      <4>1. \A t \in Hosted : host \notin Routed!NamesOf(t)
        BY <2>2, NameFacts DEF Routed!IsIP, ConfigOK
      <4>2. QED BY <4>1, MappedFacts DEF ConfigOK
    <3>2. Routed!Row(Root).host = Routed!NoHost
      BY <1>1, <2>2, <3>1 DEF HostTid
    <3>3. h = Root
      BY <2>2, <3>2 DEF HostTid
    <3>4. QED BY <2>2, <3>2, <3>3, RoutingFacts DEF Routed!Owner, Routed!Secured
  <2>3. CASE ~(~config.wizard \/ host[1] \in {"loopback", "localhost"}) /\ ~Routed!IsIP(host)
    <3>1. h = Routed!Mapped(host) /\ h \in Hosted
      BY <1>1, <2>3, TidFacts DEF HostTid
    <3>2. {t \in Hosted : host \in Routed!NamesOf(t)} = {h}
      BY <3>1, MappedFacts DEF ConfigOK
    <3>3. QED BY <2>3, <3>2 DEF Routed!Owner
  <2>4. QED BY <2>1, <2>2, <2>3
<1>3. CASE Pref(asked)
  BY <1>2, <1>3 DEF Pref, TidOf, Routed!Meant
<1>4. CASE ~Pref(asked)
  BY <1>2, <1>4 DEF Pref, TidOf, Routed!Meant
<1>5. QED BY <1>3, <1>4

\* An address that is neither left nor corrected is on the way already.
LEMMA Setting ==
    ASSUME ConfigOK, UrlOK(asked), TidOf(asked) # 0, ~AddressOf(asked)
    PROVE  OnTheWay(asked, 0)
BY AtFirst DEF OnTheWay, Due

\* An address that leads nowhere is nobody's.
LEMMA Nobodys ==
    ASSUME ConfigOK, UrlOK(asked), TidOf(asked) = 0, Routed!Mapped(Routed!Www(asked.host)) = 0,
           ~AddressOf(asked)
    PROVE  Routed!Meant = {}
<1> DEFINE host == asked.host
<1>1. HostTid(asked) = 0 /\ ~Pref(asked)
  BY TidFacts DEF TidOf
<1>2. config.wizard /\ host[1] \notin {"loopback", "localhost"}
  BY <1>1, RoutingFacts DEF HostTid
<1>3. Routed!IsIP(host) => Routed!Row(Root).host # Routed!NoHost /\ ~Routed!Secured
  BY <1>1, RoutingFacts DEF HostTid, AddressOf
<1>4. Routed!Mapped(host) = 0
  BY <1>1, RoutingFacts DEF HostTid
<1>5. /\ {t \in Hosted : host \in Routed!NamesOf(t)} = {}
      /\ {t \in Hosted : Routed!Www(host) \in Routed!NamesOf(t)} = {}
  BY <1>4, MappedFacts, RoutingFacts DEF ConfigOK
<1>6. Routed!Owner(host) = {}
  BY <1>2, <1>3, <1>5 DEF Routed!Owner
<1>7. QED BY <1>6 DEF Routed!Meant

\* The correction of www, the redirect from an address, and those of HTTPS and of paths.
LEMMA WwwLeads ==
    ASSUME ConfigOK, UrlOK(asked), TidOf(asked) = 0, Routed!Mapped(Routed!Www(asked.host)) # 0
    PROVE  OnTheWay([scheme |-> "https", host |-> Routed!Www(asked.host), prefix |-> 0, path |-> <<>>], 1)
<1> DEFINE host == asked.host
           www == Routed!Www(host)
           t == Routed!Mapped(www)
           v == [scheme |-> "https", host |-> www, prefix |-> 0, path |-> <<>>]
<1>2. UrlOK(v)
  BY DEF UrlOK, Words
<1>3. config.wizard /\ host[1] \notin {"loopback", "localhost"} /\ Routed!Mapped(host) = 0
  BY RoutingFacts, TidFacts DEF HostTid, TidOf
<1>4. t \in Hosted /\ www \in Routed!NamesOf(t)
  BY MappedFacts DEF ConfigOK
<1>5. www[1] \in {"name", "www"} /\ host[1] \in {"name", "www"}
  <2>1. host[1] \in {"name", "www"} \/ www[1] = "none"
    BY DEF Routed!Www, Routed!Host, Routed!NoHost
  <2>2. www[1] # "none"
    BY <1>4, NameFacts DEF ConfigOK
  <2>3. host[1] \in {"name", "www"}
    BY <2>1, <2>2
  <2>4. QED BY <2>3 DEF Routed!Www, Routed!Host
<1>6. /\ ~Routed!IsIP(www) /\ ~Routed!IsOnion(www) /\ ~Routed!IsIP(host)
      /\ www[1] \notin {"loopback", "localhost"}
  BY <1>5 DEF Routed!IsIP, Routed!IsOnion
<1>7. HostTid(v) = t /\ ~Pref(v) /\ TidOf(v) = t
  <2>1. HostTid(v) = t
    BY <1>3, <1>6 DEF HostTid
  <2>2. 0 \notin Routed!Active
    BY RoutingFacts DEF Routed!Active
  <2>3. ~Pref(v)
    BY <2>2 DEF Pref
  <2>4. QED BY <2>1, <2>3 DEF TidOf
<1>8. Routed!Owner(host) = {t}
  <2>1. {u \in Hosted : host \in Routed!NamesOf(u)} = {}
    BY <1>3, RoutingFacts, MappedFacts DEF ConfigOK
  <2>2. {u \in Hosted : www \in Routed!NamesOf(u)} = {t}
    BY <1>4, MappedFacts DEF ConfigOK
  <2>3. QED BY <1>3, <1>6, <2>1, <2>2 DEF Routed!Owner
<1>9. Routed!Meant # {} /\ t \in Due
  <2>1. CASE t = Root /\ asked.prefix \in Routed!Active
    <3>1. Routed!Meant = {asked.prefix}
      BY <1>8, <2>1 DEF Routed!Meant
    <3>2. asked.prefix # 0
      BY <2>1, RoutingFacts DEF Routed!Active
    <3>3. Routed!Lost
      BY <1>3, <3>2 DEF Routed!Lost
    <3>4. QED BY <2>1, <3>1, <3>3 DEF Due
  <2>2. CASE ~(t = Root /\ asked.prefix \in Routed!Active)
    <3>1. Routed!Meant = {t}
      BY <1>8, <2>2 DEF Routed!Meant
    <3>2. QED BY <3>1 DEF Due
  <2>3. QED BY <2>1, <2>2
<1> HIDE DEF t, www
<1>10. ~AddressOf(v)
  BY <1>6 DEF AddressOf
<1>11. v.prefix = 0 /\ 1 \in Nat /\ 1 + 1 <= 2 /\ 1 <= 2
  OBVIOUS
<1> HIDE DEF v
<1>12. OnTheWay(v, 1)
  BY <1>2, <1>4, <1>7, <1>9, <1>10, <1>11, RoutingFacts DEF OnTheWay
<1>13. QED BY <1>12 DEF v, www, t

\* An address that is left leads to the name of the root, if the root is on the web.
LEMMA AddressLeads ==
    ASSUME ConfigOK, UrlOK(asked), AddressOf(asked), ~config.wizard \/ Routed!Row(Root).web
    PROVE  OnTheWay(ToOf(asked, "https", Routed!Row(Root).host), 1)
<1> DEFINE name == Routed!Row(Root).host
           v == ToOf(asked, "https", name)
<1>1. /\ v.scheme = "https" /\ v.host = name /\ v.path = Routed!Plain(asked.path)
      /\ v.prefix = IF Pref(asked) THEN 0 ELSE asked.prefix
      /\ UrlOK(v)
  BY PlainFacts DEF ToOf, UrlOK
<1>2. name \in {<<"name", Root>>, <<"www", Root>>} /\ Routed!Row(Root).active
  BY ConfigFacts, RoutingFacts DEF AddressOf, Routed!Secured, ConfigOK, Routed!NoHost, Routed!Host
<1>3. config.wizard => name \in Routed!NamesOf(Root)
  BY <1>2 DEF Routed!NamesOf, Routed!Hostnames, AddressOf, Routed!Secured
<1>4. config.wizard => Routed!Mapped(name) = Root
  BY <1>3, MappedFacts, RoutingFacts DEF ConfigOK
<1>5. name[1] \in {"name", "www"}
  BY <1>2
<1>6. ~Routed!IsIP(name) /\ ~Routed!IsOnion(name)
  BY <1>5 DEF Routed!IsIP, Routed!IsOnion
<1>7. HostTid(v) = Root
  BY <1>1, <1>4 DEF HostTid
<1>8. Routed!Owner(asked.host) = {Root}
  BY RoutingFacts DEF Routed!Owner, AddressOf, Routed!IsIP
<1>9. asked.host[1] \in {"loopback", "ip"}
  BY DEF AddressOf, Routed!IsIP
<1>10. 0 \notin Routed!Active
  BY RoutingFacts DEF Routed!Active
<1> HIDE DEF v, name
<1>11. /\ Routed!Meant # {} /\ TidOf(v) \in Due /\ TidOf(v) # 0
       /\ Pref(v) => TidOf(v) \in Routed!Meant
  <2>1. CASE Pref(asked)
    <3>1. TidOf(v) = Root /\ ~Pref(v)
      BY <1>1, <1>7, <1>10, <2>1 DEF TidOf, Pref
    <3>2. Routed!Meant = {asked.prefix} /\ asked.prefix # 0
      BY <1>8, <2>1, TidFacts DEF Pref, Routed!Meant
    <3>3. asked.prefix = Root \/ Routed!Lost
      <4>1. CASE asked.host[1] = "loopback"
        BY <3>2, <4>1 DEF Routed!Lost
      <4>2. CASE asked.host[1] = "ip" /\ config.wizard
        <5>1. \A t \in Hosted : asked.host \notin Routed!NamesOf(t)
          BY <4>2, NameFacts DEF ConfigOK
        <5>2. Routed!Mapped(asked.host) = 0
          BY <5>1, MappedFacts DEF ConfigOK
        <5>3. HostTid(asked) = 0
          BY <4>2, <5>2 DEF HostTid, AddressOf, Routed!Secured
        <5>4. QED BY <2>1, <5>3, RoutingFacts DEF Pref
      <4>3. CASE ~config.wizard
        BY <2>1, <4>3, TidFacts
      <4>4. QED BY <1>9, <4>1, <4>2, <4>3
    <3>4. QED BY <3>1, <3>2, <3>3, RoutingFacts DEF Due
  <2>2. CASE ~Pref(asked)
    <3>1. v.prefix = asked.prefix
      BY <1>1, <2>2
    <3>2. Routed!Meant = {TidOf(v)}
      BY <1>7, <1>8, <3>1 DEF Routed!Meant, TidOf, Pref
    <3>3. TidOf(v) # 0
      BY <1>7, <1>10, RoutingFacts DEF TidOf, Pref
    <3>4. QED BY <3>2, <3>3 DEF Due
  <2>3. QED BY <2>1, <2>2
<1>12. ~AddressOf(v)
  BY <1>1, <1>6 DEF AddressOf
<1>13. v.prefix # 0 => /\ asked.prefix # 0 /\ Routed!Plain(v.path) = Routed!Plain(asked.path)
                       /\ v.scheme = "http" /\ ~Routed!IsOnion(v.host) => asked.scheme = "http"
  BY <1>1, PlainFacts DEF UrlOK
<1>14. 1 \in Nat /\ 1 + 1 <= 2 /\ 1 <= 2
  OBVIOUS
<1>15. OnTheWay(v, 1)
  BY <1>1, <1>11, <1>12, <1>13, <1>14 DEF OnTheWay
<1>16. QED BY <1>15 DEF v, name

\* Otherwise it leads nowhere.
LEMMA AddressAstray ==
    ASSUME ConfigOK, UrlOK(asked), AddressOf(asked), config.wizard, ~Routed!Row(Root).web
    PROVE  Astray(ToOf(asked, "https", Routed!Row(Root).host), 1)
<1> DEFINE name == Routed!Row(Root).host
           v == ToOf(asked, "https", name)
<1>1. v.host = name /\ UrlOK(v)
  BY PlainFacts DEF ToOf, UrlOK
<1>2. name \in {<<"name", Root>>, <<"www", Root>>}
  BY ConfigFacts, RoutingFacts DEF AddressOf, Routed!Secured, ConfigOK, Routed!NoHost, Routed!Host
<1>3. name[1] \in {"name", "www"} /\ name[2] = Root
  BY <1>2
<1> HIDE DEF v
<1>4. /\ Routed!Www(name)[1] \in {"name", "www"} /\ Routed!Www(name)[2] = Root
      /\ ~Routed!IsIP(name)
  BY <1>3 DEF Routed!Www, Routed!Host, Routed!IsIP
<1>5. \A host \in Routed!NamesOf(Root) : host[1] \in {"onion", "subonion"}
  BY OnionFacts, RoutingFacts DEF Routed!NamesOf, Routed!Hostnames
<1>6. ASSUME NEW host, host[1] \in {"name", "www"}, host[2] = Root PROVE Routed!Mapped(host) = 0
  <2>1. \A t \in Hosted : host \in Routed!NamesOf(t) => t = Root
    BY <1>6, NameFacts DEF ConfigOK
  <2>2. \A t \in Hosted : host \notin Routed!NamesOf(t)
    BY <1>5, <1>6, <2>1
  <2>3. QED BY <2>2, MappedFacts DEF ConfigOK
<1>7. Routed!Mapped(name) = 0 /\ Routed!Mapped(Routed!Www(name)) = 0
  BY <1>3, <1>4, <1>6
<1>8. HostTid(v) = 0
  BY <1>1, <1>3, <1>4, <1>7 DEF HostTid
<1>9. TidOf(v) = 0
  BY <1>8, RoutingFacts DEF TidOf, Pref
<1>10. Routed!Owner(asked.host) = {}
  BY DEF Routed!Owner, AddressOf, Routed!IsIP
<1>11. Routed!Meant = {}
  BY <1>10 DEF Routed!Meant
<1>12. ~AddressOf(v)
  BY <1>1, <1>4 DEF AddressOf
<1>13. Astray(v, 1)
  BY <1>1, <1>7, <1>9, <1>11, <1>12 DEF Astray
<1>14. QED BY <1>13 DEF v, name

\* On the way, the redirect to the onion service is for the tenant that was found.
LEMMA TorLeads ==
    ASSUME ConfigOK, UrlOK(asked), NEW u, NEW n, OnTheWay(u, n), TorOf(u)
    PROVE  OnTheWay(ToOf(u, "http", Routed!Onionnames(TidOf(u))[1]), n + 1)
<1> DEFINE t == TidOf(u)
           o == Routed!Onionnames(t)[1]
           v == ToOf(u, "http", o)
<1>1. /\ UrlOK(u) /\ t \in Hosted /\ t # 0 /\ n \in Nat /\ Onward(u)
      /\ Routed!Onionnames(t) # <<>>
  BY TidFacts DEF OnTheWay, TorOf, Onward
<1>2. Routed!Mapped(o) = t /\ Routed!IsOnion(o) /\ ~Routed!IsIP(o) /\ o[1] \notin {"loopback", "localhost"}
  BY <1>1, OnionLeads
<1>3. /\ v.scheme = "http" /\ v.host = o /\ v.path = Routed!Plain(u.path)
      /\ v.prefix = IF Pref(u) THEN 0 ELSE u.prefix
      /\ UrlOK(v) /\ Routed!Plain(v.path) = Routed!Plain(u.path)
  BY <1>1, PlainFacts DEF ToOf, UrlOK
<1>4. 0 \notin Routed!Active
  BY RoutingFacts DEF Routed!Active
<1> HIDE DEF o, v
<1>5. HostTid(v) = t /\ ~Pref(v) /\ TidOf(v) = t
  <2>1. CASE config.wizard
    <3>1. HostTid(v) = t
      BY <1>2, <1>3, <2>1 DEF HostTid
    <3>2. ~Pref(v)
      BY <1>3, <1>4, <3>1 DEF Pref, TidOf
    <3>3. QED BY <3>1, <3>2 DEF TidOf
  <2>2. CASE ~config.wizard
    <3>1. HostTid(u) = Root /\ HostTid(v) = Root
      BY <2>2 DEF HostTid
    <3>2. t = Root
      BY <1>1, <2>2, <3>1, TidFacts DEF TidOf
    <3>3. ~Pref(v)
      BY <1>3, <1>4, <3>1 DEF Pref
    <3>4. QED BY <3>1, <3>2, <3>3 DEF TidOf
  <2>3. QED BY <2>1, <2>2
<1>6. ~AddressOf(v) /\ Routed!IsOnion(v.host)
  BY <1>2, <1>3 DEF AddressOf
<1>7. ~TorOf(v)
  BY <1>3, <1>5 DEF TorOf, o
<1>8. ~Onward(v)
  BY <1>6, <1>7 DEF Onward
<1>10. n + 1 \in Nat /\ n + 1 <= 2
  BY <1>1 DEF OnTheWay
<1>11. v.prefix # 0 => asked.prefix # 0 /\ Routed!Plain(v.path) = Routed!Plain(asked.path)
  BY <1>3 DEF OnTheWay
<1>12. Routed!Meant # {} /\ t \in Due
  BY DEF OnTheWay
<1> HIDE DEF t
<1>13. OnTheWay(v, n + 1)
  BY <1>1, <1>3, <1>5, <1>6, <1>8, <1>10, <1>11, <1>12 DEF OnTheWay
<1>14. QED BY <1>13 DEF t, o, v

\* A tenant whose prefix is lost had no onion service to be sent to, so the root has not.
LEMMA NoTorAfter ==
    ASSUME ConfigOK, NEW u, UrlOK(u), ~TorOf(u), TidOf(u) # 0, NEW v, v.host = u.host,
           TidOf(v) = IF Pref(u) THEN Root ELSE TidOf(u)
    PROVE  ~TorOf(v)
<1>1. CASE ~Pref(u)
  BY <1>1 DEF TorOf
<1>2. CASE Pref(u)
  <2> DEFINE t == TidOf(u)
  <2>1. t \in Hosted /\ Routed!Row(t).active /\ TidOf(v) = Root /\ HostTid(u) = Root
    BY <1>2, TidFacts DEF TidOf, Pref
  <2>2. CASE t = Root
    BY <2>1, <2>2 DEF TorOf
  <2>3. CASE t # Root
    <3>1. CASE Routed!Onionnames(t) = <<>>
      <4>1. ~Routed!Row(Root).onion
        BY <2>1, <2>3, <3>1, OnionFacts
      <4>2. Routed!Onionnames(Root) = <<>>
        BY <4>1, RoutingFacts, OnionFacts
      <4>3. QED BY <2>1, <4>2 DEF TorOf
    <3>2. CASE Routed!Onionnames(t) # <<>> /\ u.host = Routed!Onionnames(t)[1]
      <4>1. Routed!Mapped(u.host) = t /\ ~Routed!IsIP(u.host) /\ u.host[1] \notin {"loopback", "localhost"}
        BY <2>1, <3>2, OnionLeads
      <4>2. config.wizard
        BY <1>2, <2>1, <2>3, TidFacts DEF TidOf
      <4>3. HostTid(u) = t
        BY <4>1, <4>2 DEF HostTid
      <4>4. QED BY <2>1, <2>3, <4>3
    <3>3. CASE ~overtor
      BY <3>3 DEF TorOf
    <3>4. QED BY <3>1, <3>2, <3>3 DEF TorOf
  <2>4. QED BY <2>2, <2>3
<1>3. QED BY <1>1, <1>2

LEMMA HttpsLeads ==
    ASSUME ConfigOK, UrlOK(asked), NEW u, NEW n, OnTheWay(u, n), ~TorOf(u),
           u.scheme = "http", ~Routed!IsOnion(u.host)
    PROVE  OnTheWay(ToOf(u, "https", u.host), n + 1)
<1> DEFINE v == ToOf(u, "https", u.host)
<1>1. UrlOK(u) /\ TidOf(u) \in Hosted /\ TidOf(u) # 0 /\ n \in Nat /\ Onward(u)
  BY TidFacts DEF OnTheWay, Onward
<1>2. /\ v.scheme = "https" /\ v.host = u.host /\ v.path = Routed!Plain(u.path)
      /\ v.prefix = IF Pref(u) THEN 0 ELSE u.prefix
      /\ UrlOK(v) /\ Routed!Plain(v.path) = Routed!Plain(u.path)
  BY <1>1, PlainFacts DEF ToOf, UrlOK
<1>3. 0 \notin Routed!Active
  BY RoutingFacts DEF Routed!Active
<1> HIDE DEF v
<1>4. HostTid(v) = HostTid(u)
  BY <1>2 DEF HostTid
<1>5. ~Pref(v) /\ TidOf(v) = IF Pref(u) THEN Root ELSE TidOf(u)
  BY <1>2, <1>3, <1>4 DEF Pref, TidOf
<1>6. TidOf(v) \in Due /\ TidOf(v) # 0 /\ Routed!Meant # {}
  <2>1. CASE ~Pref(u)
    BY <1>5, <2>1 DEF OnTheWay
  <2>2. CASE Pref(u)
    <3>1. asked.prefix # 0 /\ asked.scheme = "http"
      BY <1>1, <2>2, TidFacts DEF OnTheWay
    <3>2. Routed!Lost
      BY <3>1 DEF Routed!Lost
    <3>3. QED BY <1>5, <2>2, <3>2, RoutingFacts DEF Due, OnTheWay
  <2>3. QED BY <2>1, <2>2
<1>7. ~AddressOf(v)
  BY <1>2 DEF AddressOf, OnTheWay
<1>8. ~TorOf(v)
  BY <1>1, <1>2, <1>5, NoTorAfter
<1>9. ~Onward(v)
  BY <1>2, <1>8 DEF Onward
<1>10. n + 1 \in Nat /\ n + 1 <= 2
  BY <1>1 DEF OnTheWay
<1>11. v.prefix # 0 => /\ asked.prefix # 0 /\ Routed!Plain(v.path) = Routed!Plain(asked.path)
                       /\ v.scheme = "http" /\ ~Routed!IsOnion(v.host) => asked.scheme = "http"
  BY <1>2 DEF OnTheWay
<1>12. OnTheWay(v, n + 1)
  BY <1>2, <1>5, <1>6, <1>7, <1>9, <1>10, <1>11 DEF OnTheWay
<1>13. QED BY <1>12 DEF v

LEMMA PathLeads ==
    ASSUME ConfigOK, UrlOK(asked), NEW u, NEW n, OnTheWay(u, n), ~TorOf(u),
           u.prefix = 0 \/ Pref(u),
           Routed!Plain(u.path) \in DOMAIN Routed!Row(TidOf(u)).redirects
    PROVE  OnTheWay([scheme |-> u.scheme, host |-> u.host, prefix |-> 0,
                     path |-> Routed!Row(TidOf(u)).redirects[Routed!Plain(u.path)]], n)
<1> DEFINE next == Routed!Row(TidOf(u)).redirects[Routed!Plain(u.path)]
           v == [scheme |-> u.scheme, host |-> u.host, prefix |-> 0, path |-> next]
<1>1. UrlOK(u) /\ TidOf(u) \in Hosted /\ TidOf(u) # 0 /\ n \in Nat
  BY TidFacts DEF OnTheWay
<1>2. next \in Seq(STRING)
  BY <1>1, EntryAssumption DEF ConfigOK, Routed!RoutingAssumption, Routed!Row
<1>3. next \in Words
  BY <1>2, SeqMonotonic DEF Words, Word
<1> HIDE DEF next
<1>4. /\ v.scheme = u.scheme /\ v.host = u.host /\ v.prefix = 0 /\ v.path = next
      /\ UrlOK(v)
  BY <1>1, <1>3, RoutingFacts DEF UrlOK
<1>5. 0 \notin Routed!Active
  BY RoutingFacts DEF Routed!Active
<1> HIDE DEF v
<1>6. HostTid(v) = HostTid(u)
  BY <1>4 DEF HostTid
<1>7. ~Pref(v) /\ TidOf(v) = IF Pref(u) THEN Root ELSE TidOf(u)
  BY <1>4, <1>5, <1>6 DEF Pref, TidOf
<1>8. TidOf(v) \in Due /\ TidOf(v) # 0 /\ Routed!Meant # {}
  <2>1. CASE ~Pref(u)
    BY <1>7, <2>1 DEF OnTheWay
  <2>2. CASE Pref(u)
    <3>1. asked.prefix # 0 /\ TidOf(u) \in Routed!Meant /\ Routed!Plain(u.path) = Routed!Plain(asked.path)
      BY <1>1, <2>2, TidFacts DEF OnTheWay
    <3>2. Routed!Lost
      BY <3>1 DEF Routed!Lost
    <3>3. QED BY <1>7, <2>2, <3>2, RoutingFacts DEF Due, OnTheWay
  <2>3. QED BY <2>1, <2>2
<1>9. ~AddressOf(v)
  BY <1>4 DEF AddressOf, OnTheWay
<1>10. ~TorOf(v)
  BY <1>1, <1>4, <1>7, NoTorAfter
<1>11. Onward(v) => Onward(u)
  BY <1>4, <1>10 DEF Onward
<1>12. n \in Nat /\ n <= 2 /\ (Onward(v) => n + 1 <= 2)
  BY <1>11 DEF OnTheWay
<1>13. OnTheWay(v, n)
  BY <1>4, <1>7, <1>8, <1>9, <1>12 DEF OnTheWay
<1>14. QED BY <1>13 DEF v, next

-----------------------------------------------------------------------------
(* The way from the address given to the answer *)

Same == <<config, map, asked, overtor>>

\* The browser is at the address given or on the way from it, and what has answered is right.
WayInv ==
    /\ ConfigOK
    /\ url = Routed!NoUrl => hops = 0 /\ answer = Routed!NoAnswer
    /\ url # Routed!NoUrl =>
         /\ UrlOK(asked)
         /\ (url = asked /\ hops = 0) \/ OnTheWay(url, hops) \/ Astray(url, hops)
         /\ answer # Routed!NoAnswer => Routed!AnsweredByTenant

\* What is said of the configuration and of the address stays true while they stay.
LEMMA ConfigKept ==
    ASSUME UNCHANGED <<config, map>>, ConfigOK PROVE ConfigOK'
BY DEF ConfigOK, Routed!Map, Routed!NamesOf, Routed!Hostnames, Routed!Onionnames, Routed!Row

LEMMA UrlKept ==
    ASSUME UNCHANGED asked, UrlOK(asked) PROVE UrlOK(asked)'
BY DEF UrlOK

LEMMA TidKept ==
    ASSUME UNCHANGED Same
    PROVE  /\ (TidOf(url))' = TidOf(url') /\ (Pref(url))' = Pref(url')
           /\ (AddressOf(url))' = AddressOf(url') /\ (TorOf(url))' = TorOf(url')
BY DEF Same, TidOf, Pref, HostTid, AddressOf, TorOf, Routed!Row, Routed!Active, Routed!Mapped,
       Routed!Onionnames, Routed!IsIP, Routed!NoHost, Routed!Host, Routed!Secured

LEMMA MeantKept ==
    ASSUME UNCHANGED Same
    PROVE  Routed!Meant' = Routed!Meant /\ Routed!Lost' = Routed!Lost
<1>1. Routed!Meant' = Routed!Meant
  BY DEF Same, Routed!Meant, Routed!Owner, Routed!Row, Routed!Active, Routed!NamesOf, Routed!Hostnames,
         Routed!Onionnames, Routed!IsIP, Routed!NoHost, Routed!Host, Routed!Www, Routed!Secured
<1>2. Routed!Lost' = Routed!Lost
  BY <1>1 DEF Same, Routed!Lost, Routed!Mapped, Routed!Row, Routed!Www, Routed!Host, Routed!NoHost, Routed!Plain
<1>3. QED BY <1>1, <1>2

LEMMA WayKept ==
    ASSUME UNCHANGED Same, OnTheWay(url', hops') PROVE (OnTheWay(url, hops))'
<1>1. /\ (UrlOK(url))' /\ (Due)' = Due /\ (Onward(url))' = Onward(url')
  BY TidKept, MeantKept DEF OnTheWay, UrlOK, Due, Onward, Same, Routed!IsOnion
<1>2. /\ (Routed!Plain(url.path))' = Routed!Plain(url'.path)
      /\ (Routed!Plain(asked.path))' = Routed!Plain(asked.path)
      /\ (Routed!IsOnion(url.host))' = Routed!IsOnion(url'.host)
  BY DEF Same, Routed!Plain, Routed!IsOnion
<1>3. QED BY <1>1, <1>2, TidKept, MeantKept DEF OnTheWay, Same

LEMMA AstrayKept ==
    ASSUME UNCHANGED Same, Astray(url', hops') PROVE (Astray(url, hops))'
<1>1. (UrlOK(url))' /\ (Routed!Mapped(Routed!Www(url.host)))' = Routed!Mapped(Routed!Www(url'.host))
  BY DEF Astray, UrlOK, Same, Routed!Mapped, Routed!Www, Routed!Host, Routed!NoHost
<1>2. QED BY <1>1, TidKept, MeantKept DEF Astray

\* A step from a place on the way to the next.
LEMMA SomeUrl == ASSUME NEW u, UrlOK(u) PROVE u # Routed!NoUrl
BY DEF UrlOK, Routed!NoUrl

LEMMA SetOut ==
    ASSUME WayInv, Routed!Waiting
    PROVE  /\ ConfigOK /\ UrlOK(asked) /\ url # Routed!NoUrl
           /\ TidOf(url) = 0 \/ AddressOf(url) => (url = asked /\ hops = 0) \/ Astray(url, hops)
           /\ TidOf(url) # 0 /\ ~AddressOf(url) => OnTheWay(url, hops)
BY Setting DEF WayInv, Routed!Waiting, OnTheWay, Astray

LEMMA Followed ==
    ASSUME WayInv, Routed!Waiting, NEW next, Routed!GoTo(next), hops' \in Nat,
           OnTheWay(next, hops') \/ Astray(next, hops')
    PROVE  WayInv'
<1>1. /\ url' = next /\ answer' = answer /\ answer = Routed!NoAnswer
      /\ config' = config /\ map' = map /\ asked' = asked /\ overtor' = overtor
  BY DEF Routed!GoTo, Routed!Waiting
<1>2. ConfigOK' /\ UrlOK(asked)' /\ (OnTheWay(url, hops) \/ Astray(url, hops))'
  BY <1>1, SetOut, ConfigKept, UrlKept, WayKept, AstrayKept DEF Same
<1>3. url' # Routed!NoUrl
  BY <1>1, SomeUrl DEF OnTheWay, Astray
<1>4. answer' = Routed!NoAnswer /\ (Routed!NoAnswer)' = Routed!NoAnswer /\ (Routed!NoUrl)' = Routed!NoUrl
  BY <1>1 DEF Routed!NoAnswer, Routed!NoUrl, Routed!NoHost, Routed!Host
<1>5. QED BY <1>2, <1>3, <1>4 DEF WayInv

\* An answer leaves everything else as it is.
LEMMA Told ==
    ASSUME WayInv, Routed!Waiting, UNCHANGED <<config, map, asked, url, overtor, hops>>,
           Routed!AnsweredByTenant'
    PROVE  WayInv'
<1>1. ConfigOK' /\ UrlOK(asked)' /\ (Routed!NoUrl)' = Routed!NoUrl
  BY SetOut, ConfigKept, UrlKept DEF Routed!NoUrl, Routed!NoHost, Routed!Host
<1>2. /\ OnTheWay(url, hops) => (OnTheWay(url, hops))'
      /\ Astray(url, hops) => (Astray(url, hops))'
  BY WayKept, AstrayKept DEF Same
<1>3. QED BY <1>1, <1>2, SetOut DEF WayInv, Routed!Waiting

\* The actions of Routing, one by one.
LEMMA RefusedRight == ASSUME WayInv, Routed!Refuse PROVE WayInv'
<1>1. Routed!Waiting /\ TidOf(url) = 0 /\ ~AddressOf(url) /\ Routed!Mapped(Routed!Www(url.host)) = 0
  BY AtUrl DEF Routed!Refuse, Routed!Routed, Routed!Settled
<1>2. (url = asked /\ hops = 0) \/ Astray(url, hops)
  BY <1>1, SetOut
<1>3. Routed!Meant = {}
  BY <1>1, <1>2, SetOut, Nobodys DEF Astray
<1>4. UNCHANGED <<config, map, asked, url, overtor, hops>> /\ answer' = Routed!Refused
  BY DEF Routed!Refuse
<1>5. Routed!Meant' = {} /\ (Routed!Refused)' = Routed!Refused /\ answer'.tid = 0
  BY <1>3, <1>4, MeantKept DEF Same, Routed!Refused
<1>6. hops' <= MaxHops
  BY <1>2, <1>4, RoutingFacts DEF Astray
<1>7. Routed!AnsweredByTenant'
  BY <1>4, <1>5, <1>6 DEF Routed!AnsweredByTenant
<1>8. QED BY <1>1, <1>4, <1>7, Told

LEMMA HandledRight == ASSUME WayInv, Routed!Handle PROVE WayInv'
<1> DEFINE by == IF Routed!Elsewhere THEN "static" ELSE Routed!Resolved(Routed!Path)
<1>1. /\ Routed!Waiting /\ TidOf(url) # 0 /\ ~AddressOf(url)
      /\ answer' = [tid |-> TidOf(url), by |-> by]
      /\ UNCHANGED <<config, map, asked, url, overtor, hops>>
  BY AtUrl DEF Routed!Handle, Routed!Routed, Routed!Answered
<1>2. OnTheWay(url, hops)
  BY <1>1, SetOut
<1>3. Routed!Path \in Words
  BY <1>2, PlainFacts DEF OnTheWay, UrlOK, Routed!Path
<1>4. /\ url.prefix = 0 /\ Routed!Handlers(Routed!Path) # {} => by \in Routed!Handlers(Routed!Path)
      /\ Routed!Handlers(Routed!Path) = {} => by = "static"
  BY <1>3, ResolvedRight DEF Routed!Elsewhere
<1> HIDE DEF by
<1>5. answer'.tid = TidOf(url) /\ answer'.by = by
  BY <1>1
<1>6. Routed!Meant' = Routed!Meant /\ Routed!Lost' = Routed!Lost
  BY <1>1, MeantKept DEF Same
<1>7. Routed!Handlers(Routed!Path)' = Routed!Handlers(Routed!Path)
  BY <1>1 DEF Routed!Handlers, Routed!Path, Routed!Plain
<1>8. hops' <= MaxHops
  BY <1>1, <1>2, RoutingFacts DEF OnTheWay
<1>9. Routed!Meant # {} /\ TidOf(url) \in Routed!Meant \cup (IF Routed!Lost THEN {Root} ELSE {})
  BY <1>2 DEF OnTheWay, Due
<1>10. Routed!AnsweredByTenant'
  BY <1>1, <1>4, <1>5, <1>6, <1>7, <1>8, <1>9 DEF Routed!AnsweredByTenant
<1>11. QED BY <1>1, <1>10, Told

LEMMA VisitedRight == ASSUME WayInv, Routed!Visit PROVE WayInv'
<1>1. url = Routed!NoUrl /\ UNCHANGED <<config, map, hops, answer>>
  BY DEF Routed!Visit
<1>2. PICK visit \in Visits : asked' = visit[1] /\ url' = visit[1] /\ overtor' = visit[2]
  BY DEF Routed!Visit
<1>3. UrlOK(visit[1])
  <2>1. visit[1] \in [scheme : {"http", "https"}, host : STRING \X (Hosted \cup {0}),
                      prefix : Hosted \cup {0}, path : Seq(STRING)]
    BY EntryAssumption DEF Routed!RoutingAssumption
  <2>2. visit[1].path \in Words
    BY <2>1, SeqMonotonic DEF Words, Word
  <2>3. QED BY <2>1, <2>2 DEF UrlOK
<1>4. ConfigOK' /\ (UrlOK(asked))'
  BY <1>1, <1>2, <1>3, ConfigKept DEF UrlOK, WayInv
<1>5. hops' = 0 /\ answer' = Routed!NoAnswer /\ url' = asked' /\ url' # Routed!NoUrl
  BY <1>1, <1>2, <1>3, SomeUrl DEF WayInv
<1>6. (Routed!NoAnswer)' = Routed!NoAnswer /\ (Routed!NoUrl)' = Routed!NoUrl
  BY DEF Routed!NoAnswer, Routed!NoUrl, Routed!NoHost, Routed!Host
<1>7. QED BY <1>4, <1>5, <1>6 DEF WayInv

LEMMA RedirectedRight ==
    ASSUME WayInv,
           \/ Routed!CorrectWww \/ Routed!LeaveAddress \/ Routed!RedirectToTor
           \/ Routed!RedirectToHttps \/ Routed!RedirectPath
    PROVE  WayInv'
<1>1. CASE Routed!CorrectWww
  <2> DEFINE next == [scheme |-> "https", host |-> Routed!Www(url.host), prefix |-> 0, path |-> <<>>]
  <2>1. /\ Routed!Waiting /\ TidOf(url) = 0 /\ Routed!Mapped(Routed!Www(url.host)) # 0
        /\ Routed!GoTo(next) /\ hops' = hops + 1
    BY <1>1, AtUrl DEF Routed!CorrectWww, Routed!Follow
  <2>2. url = asked /\ hops = 0
    BY <2>1, SetOut DEF Astray
  <2>3. OnTheWay(next, hops')
    BY <2>1, <2>2, SetOut, WwwLeads
  <2> HIDE DEF next
  <2>4. QED BY <2>1, <2>2, <2>3, Followed
<1>2. CASE Routed!LeaveAddress
  <2> DEFINE next == ToOf(url, "https", Routed!Row(Root).host)
  <2>1. Routed!Waiting /\ AddressOf(url) /\ Routed!GoTo(next) /\ hops' = hops + 1
    BY <1>2, AtUrl DEF Routed!LeaveAddress, Routed!Follow
  <2>2. url = asked /\ hops = 0
    BY <2>1, SetOut DEF Astray
  <2>3. OnTheWay(next, hops') \/ Astray(next, hops')
    BY <2>1, <2>2, SetOut, AddressLeads, AddressAstray, ConfigFacts DEF ConfigOK
  <2> HIDE DEF next
  <2>4. QED BY <2>1, <2>2, <2>3, Followed
<1>3. CASE Routed!RedirectToTor
  <2> DEFINE next == ToOf(url, "http", Routed!Onionnames(TidOf(url))[1])
  <2>1. /\ Routed!Waiting /\ TidOf(url) # 0 /\ ~AddressOf(url) /\ TorOf(url)
        /\ Routed!GoTo(next) /\ hops' = hops + 1
    BY <1>3, AtUrl DEF Routed!RedirectToTor, Routed!Routed, Routed!Follow
  <2>2. OnTheWay(next, hops') /\ hops' \in Nat
    BY <2>1, SetOut, TorLeads DEF OnTheWay
  <2> HIDE DEF next
  <2>3. QED BY <2>1, <2>2, Followed
<1>4. CASE Routed!RedirectToHttps
  <2> DEFINE next == ToOf(url, "https", url.host)
  <2>1. /\ Routed!Waiting /\ TidOf(url) # 0 /\ ~AddressOf(url) /\ ~TorOf(url)
        /\ Routed!GoTo(next) /\ hops' = hops + 1
        /\ url.scheme = "http" /\ ~Routed!IsOnion(url.host)
    BY <1>4, AtUrl DEF Routed!RedirectToHttps, Routed!Routed, Routed!HttpsRedirected, Routed!Follow
  <2>2. OnTheWay(next, hops') /\ hops' \in Nat
    BY <2>1, SetOut, HttpsLeads DEF OnTheWay
  <2> HIDE DEF next
  <2>3. QED BY <2>1, <2>2, Followed
<1>5. CASE Routed!RedirectPath
  <2> DEFINE next == [scheme |-> url.scheme, host |-> url.host, prefix |-> 0,
                      path |-> Routed!Row(TidOf(url)).redirects[Routed!Plain(url.path)]]
  <2>1. /\ Routed!Waiting /\ TidOf(url) # 0 /\ ~AddressOf(url) /\ ~TorOf(url)
        /\ Routed!GoTo(next) /\ hops' = hops
        /\ url.prefix = 0 \/ Pref(url)
        /\ Routed!Plain(url.path) \in DOMAIN Routed!Row(TidOf(url)).redirects
    BY <1>5, AtUrl DEF Routed!RedirectPath, Routed!Routed, Routed!AdminRedirected, Routed!Elsewhere,
                       Routed!Path
  <2>2. OnTheWay(next, hops') /\ hops' \in Nat
    BY <2>1, SetOut, PathLeads DEF OnTheWay
  <2> HIDE DEF next
  <2>3. QED BY <2>1, <2>2, Followed
<1>6. QED BY <1>1, <1>2, <1>3, <1>4, <1>5

LEMMA WayStill == ASSUME WayInv, UNCHANGED routed PROVE WayInv'
<1>1. UNCHANGED <<config, map, asked, url, overtor, hops, answer>>
  BY DEF routed
<1>2. ConfigOK' /\ (Routed!NoUrl)' = Routed!NoUrl /\ (Routed!NoAnswer)' = Routed!NoAnswer
  BY <1>1, ConfigKept DEF WayInv, Routed!NoUrl, Routed!NoHost, Routed!Host, Routed!NoAnswer
<1>3. /\ UrlOK(asked) => (UrlOK(asked))'
      /\ OnTheWay(url, hops) => (OnTheWay(url, hops))'
      /\ Astray(url, hops) => (Astray(url, hops))'
  BY <1>1, UrlKept, WayKept, AstrayKept DEF Same
<1>4. Routed!AnsweredByTenant => Routed!AnsweredByTenant'
  <2>1. Routed!Meant' = Routed!Meant /\ Routed!Lost' = Routed!Lost
    BY <1>1, MeantKept DEF Same
  <2>2. Routed!Handlers(Routed!Path)' = Routed!Handlers(Routed!Path)
    BY <1>1 DEF Routed!Handlers, Routed!Path, Routed!Plain
  <2>3. QED BY <1>1, <2>1, <2>2 DEF Routed!AnsweredByTenant, Routed!NoAnswer, Routed!Refused
<1>5. QED BY <1>1, <1>2, <1>3, <1>4 DEF WayInv

\* Whoever answers an address is the tenant it is of, after two redirects of the platform
\* at most, and by the handler its path is for, for any tenants, names, prefixes, paths
\* and redirects of the tenants' own, whether or not these end
(* (APIResourceWrapper.render, Trie.search). *)
THEOREM AnsweredForTenant == MCSpec => []AnsweredByTenant
<1>1. MCInit => WayInv
  BY DEF MCInit, Routed!Init, WayInv, ConfigOK, Routed!NoAnswer
<1>2. WayInv /\ [MCNext]_allVars => WayInv'
  <2> SUFFICES ASSUME WayInv, [MCNext]_allVars PROVE WayInv'
    OBVIOUS
  <2>1. CASE UNCHANGED routed
    BY <2>1, WayStill
  <2>2. CASE Routed!Next
    <3>1. \/ Routed!Visit \/ Routed!Refuse \/ Routed!Handle
          \/ Routed!CorrectWww \/ Routed!LeaveAddress \/ Routed!RedirectToTor
          \/ Routed!RedirectToHttps \/ Routed!RedirectPath
      BY <2>2 DEF Routed!Next
    <3>2. QED BY <3>1, VisitedRight, RefusedRight, HandledRight, RedirectedRight
  <2>3. QED BY <2>1, <2>2 DEF MCNext, allVars
<1>3. WayInv => AnsweredByTenant
  <2>1. WayInv /\ url = Routed!NoUrl => hops <= MaxHops /\ answer = Routed!NoAnswer
    BY RoutingFacts DEF WayInv
  <2>2. WayInv /\ url # Routed!NoUrl => hops <= MaxHops
    BY RoutingFacts DEF WayInv, OnTheWay, Astray
  <2>3. QED BY <2>1, <2>2 DEF WayInv, AnsweredByTenant, Routed!AnsweredByTenant
<1>4. QED BY <1>1, <1>2, <1>3, PTL DEF MCSpec

=============================================================================

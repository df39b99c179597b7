----------------------------- MODULE UserSessions -----------------------------
(***************************************************************************)
(* The sessions of one user of the root tenant, an administrator who may     *)
(* open sessions on another tenant, while logins, changes and the deletion   *)
(* of the account run in the ORM threads and the adoption of redirected      *)
(* sessions in the reactor thread.                                           *)
(*                                                                         *)
(* The store of the sessions is a dictionary in memory, shared by all the    *)
(* threads and outside of the transactions: Sessions.new revokes, then        *)
(* inserts, and a transaction that is rolled back takes none of it back.     *)
(*                                                                         *)
(* The account is read before the write transaction opens.  A login and a    *)
(* change open it as they commit; the deletion opens it with its DELETE, and  *)
(* holds the lock of the database while it revokes.                          *)
(***************************************************************************)
EXTENDS Naturals

CONSTANTS
    Workers,    \* ORM threads
    Home,       \* the root tenant, which the user belongs to
    Other,      \* a tenant the user administers from the root one
    Reactor,    \* the reactor thread
    MaxOps,     \* bound on the requests
    Gone,       \* the account was deleted
    Idle        \* nothing in flight

VARIABLES
    user,       \* the User row, or Gone
    store,      \* Sessions: the sessions of the user that are in it
    tx,         \* the transaction in flight in each ORM thread
    lock,       \* the thread that holds the lock of the database, or Idle
    waiting,    \* a change of tenant waits for the tenant to be loaded
    inserting,  \* the session the reactor thread is about to insert, or Idle
    ops,        \* requests begun so far
    overlapped  \* history: two of the above have been in flight at once

vars == <<user, store, tx, lock, waiting, inserting, ops, overlapped>>

Tenants == {Home, Other}

\* ver counts the changes of the account: credential, role, enabled or not.
User == [ver : Nat, enabled : BOOLEAN]

\* grant names the login that a session goes back to, by the thread that inserted it;
\* auth is set on a session that is to be adopted by another client, held once
\* the client has been told its identifier.
Session == [grant : Nat, by : Workers \cup {Reactor}, tid : Tenants, ver : Nat,
            auth : BOOLEAN, held : BOOLEAN]

Tx == [op : {"login", "update", "delete"}, at : {"revoke", "insert", "commit"},
       grant : Nat, ver : Nat, flag : BOOLEAN]

ASSUME UserSessionsAssumption ==
    /\ Home # Other
    /\ Reactor \notin Workers
    /\ MaxOps \in Nat
    /\ Idle \notin Workers /\ Idle \notin Tx /\ Idle \notin Session
    /\ Gone \notin User

-----------------------------------------------------------------------------
(* The store *)

\* The sessions that are usable, or about to be.
Live == store \cup ({inserting, waiting} \ {Idle})

\* Sessions.revoke.
Revoked(tid) == {s \in store : s.tid # tid}

\* Mutant: a change of the account leaves the sessions alone.
Ignored == store

\* What a change of the account leaves in the store.
Reconfigured == Revoked(Home)

\* Mutant: an adopted session is left in the store.
Kept(s) == store

Removed(s) == store \ {s}

-----------------------------------------------------------------------------
Init ==
    /\ user = [ver |-> 0, enabled |-> TRUE]
    /\ store = {}
    /\ tx = [w \in Workers |-> Idle]
    /\ lock = Idle
    /\ waiting = Idle
    /\ inserting = Idle
    /\ ops = 0
    /\ overlapped = FALSE

Busy == (\E w \in Workers : tx[w] # Idle) \/ waiting # Idle \/ inserting # Idle

Request ==
    /\ ops < MaxOps
    /\ ops' = ops + 1
    /\ overlapped' = (overlapped \/ Busy)

Start(w, op, at, ver, flag) ==
    /\ tx[w] = Idle
    /\ Request
    /\ tx' = [tx EXCEPT ![w] = [op |-> op, at |-> at, grant |-> ops, ver |-> ver, flag |-> flag]]
    /\ UNCHANGED <<user, store, waiting, inserting>>

At(w, op, at) == tx[w] # Idle /\ tx[w].op = op /\ tx[w].at = at

Advance(w, at) == tx' = [tx EXCEPT ![w].at = at]

Done(w) == tx' = [tx EXCEPT ![w] = Idle]

-----------------------------------------------------------------------------
(* login and validate_password_reset, in an ORM thread *)

\* The credentials are right for the row that is read.  flag: the session is for
\* a redirect, to another tenant or after a password reset.
LoginRead(w, flag) ==
    /\ user # Gone
    /\ user.enabled
    /\ Start(w, "login", "revoke", user.ver, flag)
    /\ UNCHANGED lock

LoginRevoke(w) ==
    /\ At(w, "login", "revoke")
    /\ store' = Revoked(Home)
    /\ Advance(w, "insert")
    /\ UNCHANGED <<user, lock, waiting, inserting, ops, overlapped>>

LoginInsert(w) ==
    /\ At(w, "login", "insert")
    /\ store' = store \cup {[grant |-> tx[w].grant, by |-> w, tid |-> Home, ver |-> tx[w].ver,
                             auth |-> tx[w].flag, held |-> FALSE]}
    /\ Advance(w, "commit")
    /\ UNCHANGED <<user, lock, waiting, inserting, ops, overlapped>>

\* last_login is written, and the client is told the identifier.
LoginCommit(w) ==
    /\ At(w, "login", "commit")
    /\ lock = Idle
    /\ user # Gone
    /\ store' = {IF s.by = w THEN [s EXCEPT !.held = TRUE] ELSE s : s \in store}
    /\ Done(w)
    /\ UNCHANGED <<user, lock, waiting, inserting, ops, overlapped>>

-----------------------------------------------------------------------------
(* db_admin_update_user and db_set_user_password by another administrator *)

UpdateRead(w, enabled) ==
    /\ user # Gone
    /\ Start(w, "update", "revoke", user.ver, enabled)
    /\ UNCHANGED lock

UpdateRevoke(w) ==
    /\ At(w, "update", "revoke")
    /\ store' = Reconfigured
    /\ Advance(w, "commit")
    /\ UNCHANGED <<user, lock, waiting, inserting, ops, overlapped>>

UpdateCommit(w) ==
    /\ At(w, "update", "commit")
    /\ lock = Idle
    /\ user # Gone
    /\ user' = [ver |-> user.ver + 1, enabled |-> tx[w].flag]
    /\ Done(w)
    /\ UNCHANGED <<store, lock, waiting, inserting, ops, overlapped>>

-----------------------------------------------------------------------------
(* db_delete_user *)

\* Mutant: the row is marked for deletion and deleted as the transaction commits.
NotLocked(w) == lock

\* db_del executes the DELETE at once.
Locked(w) == w

DeleteFlush(w) ==
    /\ user # Gone
    /\ lock = Idle
    /\ Start(w, "delete", "revoke", user.ver, FALSE)
    /\ lock' = Locked(w)

DeleteRevoke(w) ==
    /\ At(w, "delete", "revoke")
    /\ store' = Revoked(Home)
    /\ Advance(w, "commit")
    /\ UNCHANGED <<user, lock, waiting, inserting, ops, overlapped>>

DeleteCommit(w) ==
    /\ At(w, "delete", "commit")
    /\ lock \in {Idle, w}
    /\ user' = Gone
    /\ lock' = Idle
    /\ Done(w)
    /\ UNCHANGED <<store, waiting, inserting, ops, overlapped>>

\* The session of the ORM is closed whatever happens.
Released(w) == IF lock = w THEN Idle ELSE lock

\* The row is gone, the lock is not obtained: the transaction is rolled back.
Abort(w) ==
    /\ tx[w] # Idle
    /\ Done(w)
    /\ lock' = Released(w)
    /\ UNCHANGED <<user, store, waiting, inserting, ops, overlapped>>

-----------------------------------------------------------------------------
(* The reactor thread *)

\* TokenAuthHandler.post: Sessions.regenerate removes the session, then inserts it anew.
Adopt(s) ==
    /\ s.held
    /\ s.auth
    /\ inserting = Idle
    /\ store' = Removed(s)
    /\ inserting' = [s EXCEPT !.auth = FALSE, !.by = Reactor]
    /\ overlapped' = (overlapped \/ Busy)
    /\ UNCHANGED <<user, tx, lock, waiting, ops>>

\* TenantAuthSwitchHandler.get, up to the loading of a tenant that is not loaded yet;
\* one such request is bound to wait at a time.
Switch(s, tid) ==
    /\ s.held
    /\ ~s.auth
    /\ s.tid = Home
    /\ waiting = Idle
    /\ inserting = Idle
    /\ Request
    /\ waiting' = [grant |-> ops, by |-> Reactor, tid |-> tid, ver |-> s.ver, auth |-> TRUE, held |-> TRUE]
    /\ UNCHANGED <<user, store, tx, lock, inserting>>

\* Sessions.new for the other tenant.
SwitchRevoke ==
    /\ waiting # Idle
    /\ inserting = Idle
    /\ store' = Revoked(waiting.tid)
    /\ inserting' = waiting
    /\ waiting' = Idle
    /\ UNCHANGED <<user, tx, lock, ops, overlapped>>

Insert ==
    /\ inserting # Idle
    /\ store' = store \cup {inserting}
    /\ inserting' = Idle
    /\ UNCHANGED <<user, tx, lock, waiting, ops, overlapped>>

\* The session is closed or times out.
Leave(s) ==
    /\ inserting = Idle
    /\ store' = store \ {s}
    /\ UNCHANGED <<user, tx, lock, waiting, inserting, ops, overlapped>>

\* check_confirmation: too many confirmations have failed.
Exhaust(s) ==
    /\ s.held
    /\ inserting = Idle
    /\ store' = Revoked(s.tid)
    /\ UNCHANGED <<user, tx, lock, waiting, inserting, ops, overlapped>>

-----------------------------------------------------------------------------
Login(w) == (\E flag \in BOOLEAN : LoginRead(w, flag)) \/ LoginRevoke(w) \/ LoginInsert(w) \/ LoginCommit(w)

Update(w) == (\E enabled \in BOOLEAN : UpdateRead(w, enabled)) \/ UpdateRevoke(w) \/ UpdateCommit(w)

Delete(w) == DeleteFlush(w) \/ DeleteRevoke(w) \/ DeleteCommit(w)

Next ==
    \/ \E w \in Workers : Login(w) \/ Update(w) \/ Delete(w) \/ Abort(w)
    \/ \E s \in store : Adopt(s) \/ Leave(s) \/ Exhaust(s)
    \/ \E s \in store, tid \in Tenants : Switch(s, tid)
    \/ SwitchRevoke
    \/ Insert

Spec == Init /\ [][Next]_vars

-----------------------------------------------------------------------------
(* Properties *)

\* Every variable has its type, and only a deletion in flight holds the lock.
TypeOK ==
    /\ user \in User \cup {Gone}
    /\ store \subseteq Session
    /\ tx \in [Workers -> Tx \cup {Idle}]
    /\ lock \in Workers \cup {Idle}
    /\ lock # Idle => tx[lock] # Idle /\ tx[lock].op = "delete"
    /\ waiting \in Session \cup {Idle}
    /\ inserting \in Session \cup {Idle}
    /\ ops \in Nat
    /\ overlapped \in BOOLEAN

\* "Revoke the deleted user's active sessions" (handlers/admin/user.py:125): whatever
\* logins are in flight, none of a deleted user has been answered and left its
\* session in the store, because it is revoked under the lock of the DELETE.
DeletedUserIsOut ==
    user = Gone => \A s \in store : s.held => s.by = Reactor \/ s.tid # Home

\* Logging in again and again, in several threads at once, never leaves a user
\* with more than one session per thread.
OnePerThread ==
    \A s, t \in store : s.by \in Workers /\ s.by = t.by => s = t

\* "The redirect login is single-use" (handlers/auth/__init__.py:282): a login gives
\* no second session, neither to adopt nor adopted.
RedirectIsSingleUse ==
    \A s, t \in Live : s.grant = t.grant => s = t

UpToDate(s) == user # Gone /\ user.enabled /\ s.ver = user.ver

\* As long as no two requests overlap, a user has one session in his tenant, and none
\* that dates from before the account was changed, disabled or deleted.
HomeSessionsUpToDate ==
    ~overlapped /\ ~Busy =>
        /\ \A s \in store : s.tid = Home /\ s.held => UpToDate(s)
        /\ \A s, t \in store : s.tid = t.tid => s = t

\* "Revoke the target user's active sessions so that the reconfiguration (e.g. account
\* disabling or role change) takes effect immediately" (handlers/admin/user.py:183-186).
\* Refuted, though nothing overlaps: a session opened on another tenant is kept.
SessionsUpToDate ==
    ~overlapped /\ ~Busy => \A s \in store : s.held => UpToDate(s)

=============================================================================

------------------------------- MODULE Tenants -------------------------------
(***************************************************************************)
(* The tenants of the platform: their names and configuration, sign-up and *)
(* activation, the copy of the configuration that requests are routed by,  *)
(* and the cache of the answers to public requests.                        *)
(*                                                                         *)
(* A transaction that reads before it holds the write lock is two steps.   *)
(* A handler that writes empties the cache of answers after the commit and *)
(* has a thread refresh the copy; a refresh is read in steps, and refreshes *)
(* of different threads interleave.  A client that goes away cancels what   *)
(* was left of its handler, but not the transaction.                       *)
(***************************************************************************)
EXTENDS Naturals, FiniteSets

CONSTANTS Tids,       \* tenant identifiers, never used twice
          Root,       \* the root tenant
          Names,      \* subdomains
          Workers,    \* requests at work
          Threads,    \* refreshes at work
          Seeds,      \* what the database may hold at first
          MaxOps      \* bounds the model

VARIABLES
    db,         \* tenant rows with their configuration and the signup of each
    memory,     \* State.tenants and the names requests are routed by
    answers,    \* Cache: for each tenant the answer kept, if any
    busy,       \* what each request is at
    refresh,    \* what each refresh is at
    fresh,      \* tenants made so far
    ops,        \* writes begun (bounds the model)
    outdated,   \* tenants whose kept answer nobody is going to drop
    unsettled   \* whether refreshes overlapped, or one is missing or too narrow

vars == <<db, memory, answers, busy, refresh, fresh, ops, outdated, unsettled>>

NoName == "none"
NoResponse == <<0, 0>>
Unoccupied == [at |-> "idle"]
NoTenant == [active |-> FALSE, sub |-> NoName, host |-> NoName, done |-> 0, signup |-> NoName,
             token |-> FALSE, version |-> 0]
Unloaded == [sub |-> NoName, host |-> NoName, names |-> {}, version |-> 0]

There(d, t) == d[t] # NoTenant
Active(d) == {t \in Tids : d[t].active}
NamesOf(row) == {row.sub, row.host} \ {NoName}

\* The tenants of a seed are the first ones, the root among them.
Row == [active : BOOLEAN, sub : Names \cup {NoName}, host : Names \cup {NoName}, done : {0, 1},
        signup : Names \cup {NoName}, token : BOOLEAN, version : Nat]

TenantsAssumption ==
    /\ Tids \subseteq Nat \ {0} /\ IsFiniteSet(Tids) /\ Root \in Tids
    /\ \A d \in Seeds :
         /\ d \in [Tids -> Row] /\ There(d, Root) /\ ~d[Root].token
         /\ \A t \in Tids : There(d, t) <=> t <= Cardinality({u \in Tids : There(d, u)})

\* What an answer to a public request on t is made of.
Content(d, t) == <<d[t].version, d[Root].version>>

\* db_subdomain_in_use
InUse(d, name, excluded) == \E t \in Tids \ excluded : name \in {d[t].sub, d[t].host}

-----------------------------------------------------------------------------
Init ==
    /\ db \in Seeds
    /\ memory = [tenant |-> [t \in Tids |->
                    IF db[t].active
                    THEN [sub |-> db[t].sub, host |-> db[t].host, version |-> db[t].version,
                          names |-> NamesOf(db[t])]
                    ELSE Unloaded],
                 loaded |-> Active(db),
                 names |-> [n \in Names |->
                    IF \E t \in Active(db) : n \in NamesOf(db[t])
                    THEN CHOOSE t \in Active(db) : n \in NamesOf(db[t]) ELSE 0]]
    /\ answers = [t \in Tids |-> NoResponse]
    /\ busy = [w \in Workers |-> Unoccupied]
    /\ refresh = [r \in Threads |-> Unoccupied]
    /\ fresh = Cardinality({t \in Tids : There(db, t)})
    /\ ops = 0
    /\ outdated = {}
    /\ unsettled = FALSE

Served(t) == IF t = Root THEN Tids ELSE {t}

\* A tenant gives up a name and is alone to be told, whoever else has the name.
GivesUp(t, d) == t # Root /\ ~(NamesOf(db[t]) \subseteq NamesOf(d[t]))

\* The commit of a handler of tenant t; a client that stays gets an answer, and
\* on its way out the handler tells the caches.
Commit(w, t, d) ==
    /\ db' = d
    /\ \/ /\ busy' = [busy EXCEPT ![w] = [at |-> "answer", tid |-> t]]
          /\ unsettled' = (unsettled \/ GivesUp(t, d))
          /\ UNCHANGED outdated
       \/ /\ busy' = [busy EXCEPT ![w] = Unoccupied]
          /\ outdated' = outdated \cup Served(t)
          /\ unsettled' = TRUE
    /\ UNCHANGED <<memory, answers>>

Begin(w, request) ==
    /\ busy[w] = Unoccupied /\ ops < MaxOps
    /\ busy' = [busy EXCEPT ![w] = request]
    /\ ops' = ops + 1
    /\ UNCHANGED <<db, memory, answers, refresh, fresh, outdated, unsettled>>

Abort(w) ==
    /\ busy[w].at \notin {"idle", "answer", "got"}
    /\ busy' = [busy EXCEPT ![w] = Unoccupied]
    /\ UNCHANGED <<db, memory, answers, refresh, fresh, ops, outdated, unsettled>>

\* A transaction that has the lock before it reads.
AtOnce(w, t, d) ==
    /\ busy[w] = Unoccupied /\ ops < MaxOps
    /\ Commit(w, t, d)
    /\ ops' = ops + 1
    /\ UNCHANGED refresh

\* Mutant: the cache of the tenant alone is dropped.
MutDropped(t) == {t}

Dropped(t) == Served(t)

\* decorator_cache_invalidate
Answer(w) ==
    LET t == busy[w].tid IN
    /\ busy[w].at = "answer"
    /\ answers' = [u \in Tids |-> IF u \in Dropped(t) THEN NoResponse ELSE answers[u]]
    /\ outdated' = outdated \ Served(t)
    /\ \E r \in Threads :
         /\ refresh[r] = Unoccupied
         /\ refresh' = [refresh EXCEPT ![r] = [at |-> "due", of |-> t]]
    /\ busy' = [busy EXCEPT ![w] = Unoccupied]
    /\ UNCHANGED <<db, memory, fresh, ops, unsettled>>

-----------------------------------------------------------------------------
\* The operations of the root's administrators.

\* create_and_initialize: db_create, then db_wizard.
Create(w) ==
    \E name \in Names :
      /\ fresh + 1 \in Tids
      /\ ~InUse(db, name, {})
      /\ AtOnce(w, Root, [db EXCEPT ![fresh + 1] =
            [NoTenant EXCEPT !.active = TRUE, !.sub = name, !.host = name, !.done = 1]])
      /\ fresh' = fresh + 1

\* db_set_tenant_config checks the name; the lock is held only if the state has
\* changed, as its change is written before the check reads.
UpdateBegin(w) ==
    \E t \in Tids \ {Root}, name \in Names, active \in BOOLEAN :
      /\ There(db, t)
      /\ active = db[t].active => ~InUse(db, name, {t})
      /\ Begin(w, [at |-> "update", tid |-> t, name |-> name, active |-> active,
                   was |-> db[t], free |-> {n \in Names : ~InUse(db, n, {t})}])

UpdateCommit(w) ==
    LET b == busy[w]  changed == b.active # b.was.active IN
    /\ b.at = "update"
    /\ There(db, b.tid)
    /\ changed => ~InUse(db, b.name, {b.tid})
    /\ Commit(w, Root, [db EXCEPT ![b.tid].active = IF changed THEN b.active ELSE @,
                                  ![b.tid].sub = b.name])
    /\ UNCHANGED <<refresh, fresh, ops>>

Delete(w) ==
    \E t \in Tids \ {Root} :
      /\ There(db, t)
      /\ AtOnce(w, Root, [db EXCEPT ![t] = NoTenant])
      /\ UNCHANGED fresh

\* db_update_node, on any tenant that is served
Configure(w) ==
    \E t \in memory.loaded :
      /\ There(db, t)
      /\ AtOnce(w, t, [db EXCEPT ![t].version = @ + 1])
      /\ UNCHANGED fresh

-----------------------------------------------------------------------------
\* signup and signup_activation

Pending(d, name) == {t \in Tids : d[t].signup = name /\ d[t].token}

SignupBegin(w) ==
    \E name \in Names : Begin(w, [at |-> "signup", name |-> name, gone |-> Pending(db, name)])

\* The lock is held from the deletion on; it tells no cache.
SignupCommit(w) ==
    LET b == busy[w]
        left == [t \in Tids |-> IF t \in b.gone THEN NoTenant ELSE db[t]]
    IN
    /\ b.at = "signup"
    /\ fresh + 1 \in Tids
    /\ ~InUse(left, b.name, {})
    /\ \A t \in Tids : left[t].signup # b.name
    /\ db' = [left EXCEPT ![fresh + 1] =
                [NoTenant EXCEPT !.sub = b.name, !.signup = b.name, !.token = TRUE]]
    /\ fresh' = fresh + 1
    /\ busy' = [busy EXCEPT ![w] = Unoccupied]
    /\ unsettled' = (unsettled \/ b.gone \cap Active(db) # {})
    /\ outdated' = outdated \cup b.gone
    /\ UNCHANGED <<memory, answers, refresh, ops>>

ActivateBegin(w) ==
    \E t \in Tids : db[t].token /\ Begin(w, [at |-> "activate", tid |-> t, was |-> db[t]])

\* Mutant: whether the tenant is initialised was read with the signup.
MutInitialised(b) == b.was.done > 0

\* db_wizard reads it when the tenant is written already
Initialised(b) == db[b.tid].done > 0

\* The wizard of a tenant that is served reads it before, so that two of them may
\* both go on; what the second repeats is not counted.
WizardBegin(w) ==
    \E t \in memory.loaded \ {Root} :
      db[t].active /\ db[t].done = 0 /\ Begin(w, [at |-> "wizard", tid |-> t])

WizardCommit(w) ==
    LET t == busy[w].tid IN
    /\ busy[w].at = "wizard"
    /\ There(db, t)
    /\ Commit(w, t, [db EXCEPT ![t].host = db[t].sub, ![t].done = IF @ = 0 THEN 1 ELSE @])
    /\ UNCHANGED <<refresh, fresh, ops>>

\* The thread started for the tenant finds its identifier in no set, and only
\* forgets the tenants that are no longer active.
ActivateCommit(w) ==
    LET b == busy[w]  t == busy[w].tid IN
    /\ b.at = "activate"
    /\ There(db, t)
    /\ ~Initialised(b)
    /\ Commit(w, Root, [db EXCEPT ![t].active = TRUE, ![t].token = FALSE, ![t].host = db[t].sub,
                                  ![t].done = @ + 1])
    /\ \E r \in Threads :
         /\ refresh[r] = Unoccupied
         /\ refresh' = [refresh EXCEPT ![r] = [at |-> "due", of |-> 0]]
    /\ UNCHANGED <<fresh, ops>>

-----------------------------------------------------------------------------
\* db_refresh_tenant_cache, by a thread.

InProgress == {r \in Threads : refresh[r].at \in {"read", "map"}}

\* The tenants no longer active are unloaded, the lists of the others emptied.
RefreshBegin(r) ==
    LET gone == memory.loaded \ Active(db)
        lost == UNION {memory.tenant[t].names : t \in gone}
        of == refresh[r].of
        tids == IF of = Root THEN Active(db) ELSE {of} \cap Active(db)
    IN
    /\ refresh[r].at = "due"
    /\ memory' = [loaded |-> (memory.loaded \ gone) \cup tids,
                  names |-> [n \in Names |-> IF n \in lost THEN 0 ELSE memory.names[n]],
                  tenant |-> [t \in Tids |->
                     IF t \in gone THEN Unloaded
                     ELSE IF t \in tids THEN [memory.tenant[t] EXCEPT !.names = {}]
                     ELSE memory.tenant[t]]]
    /\ refresh' = [refresh EXCEPT ![r] = IF tids = {} THEN Unoccupied ELSE [at |-> "read", tids |-> tids]]
    /\ unsettled' = IF InProgress # {} THEN TRUE ELSE IF of = Root THEN FALSE ELSE unsettled
    /\ UNCHANGED <<db, answers, busy, fresh, ops, outdated>>

Loaded(t) ==
    [memory.tenant[t] EXCEPT !.version = db[t].version, !.sub = db[t].sub, !.host = db[t].host]

\* A tenant another thread has unloaded is an exception, after some are read.
RefreshRead(r) ==
    LET tids == refresh[r].tids IN
    /\ refresh[r].at = "read"
    /\ \E some \in SUBSET (tids \cap memory.loaded) :
         /\ tids \subseteq memory.loaded => some = tids
         /\ memory' = [memory EXCEPT !.tenant =
                [t \in Tids |-> IF t \in some THEN Loaded(t) ELSE memory.tenant[t]]]
    /\ refresh' = [refresh EXCEPT ![r] = IF tids \subseteq memory.loaded THEN [at |-> "map", tids |-> tids]
                                         ELSE Unoccupied]
    /\ UNCHANGED <<db, answers, busy, fresh, ops, outdated, unsettled>>

\* The tenants before the first that another thread has unloaded, those a name is
\* of as it was read, and the last of them.
Reached(tids) == {t \in tids : \A u \in tids : u <= t => u \in memory.loaded}
Named(n, tids) == {t \in tids : n \in NamesOf(memory.tenant[t])}
Latest(tids) == CHOOSE t \in tids : \A u \in tids : u <= t

\* The maps, tenant by tenant.
RefreshMap(r) ==
    LET tids == Reached(refresh[r].tids)
    IN
    /\ refresh[r].at = "map"
    /\ memory' = [memory EXCEPT
          !.tenant = [t \in Tids |-> IF t \in tids
                        THEN [memory.tenant[t] EXCEPT !.names = @ \cup NamesOf(memory.tenant[t])]
                        ELSE memory.tenant[t]],
          !.names = [n \in Names |-> IF Named(n, tids) = {} THEN memory.names[n]
                                     ELSE Latest(Named(n, tids))]]
    /\ refresh' = [refresh EXCEPT ![r] = Unoccupied]
    /\ UNCHANGED <<db, answers, busy, fresh, ops, outdated, unsettled>>

-----------------------------------------------------------------------------
\* render and decorator_cache_get: a public request, routed by its name; an
\* answer that is kept is given as it is.

Get(w) ==
    \E n \in Names : LET t == memory.names[n] IN
      /\ busy[w] = Unoccupied
      /\ t \in memory.loaded /\ answers[t] = NoResponse /\ There(db, t)
      /\ busy' = [busy EXCEPT ![w] = [at |-> "got", tid |-> t, answer |-> Content(db, t)]]
      /\ UNCHANGED <<db, memory, answers, refresh, fresh, ops, outdated, unsettled>>

Keep(w) ==
    LET b == busy[w] IN
    /\ b.at = "got"
    /\ answers' = [answers EXCEPT ![b.tid] = b.answer]
    /\ outdated' = IF b.answer = Content(db, b.tid) THEN outdated ELSE outdated \cup {b.tid}
    /\ busy' = [busy EXCEPT ![w] = Unoccupied]
    /\ UNCHANGED <<db, memory, refresh, fresh, ops, unsettled>>

Next ==
    \/ \E w \in Workers :
         \/ Create(w) \/ UpdateBegin(w) \/ UpdateCommit(w) \/ Delete(w) \/ Configure(w)
         \/ SignupBegin(w) \/ SignupCommit(w) \/ ActivateBegin(w) \/ ActivateCommit(w)
         \/ WizardBegin(w) \/ WizardCommit(w)
         \/ Abort(w) \/ Answer(w) \/ Get(w) \/ Keep(w)
    \/ \E r \in Threads : RefreshBegin(r) \/ RefreshRead(r) \/ RefreshMap(r)

Spec == Init /\ [][Next]_vars

-----------------------------------------------------------------------------
\* No two tenants have a subdomain or a hostname in common.
NamesApart ==
    \A t, u \in Tids : t # u =>
      ({db[t].sub, db[t].host} \cap {db[u].sub, db[u].host}) \subseteq {NoName}

Settled == /\ \A w \in Workers : busy[w].at # "answer"
           /\ \A r \in Threads : refresh[r] = Unoccupied
           /\ ~unsettled

\* When every write has been told, no refresh overlapped with another and no tenant
\* gave up a name but by a write of the root, the requests are routed to the active
\* tenants and to no other: each of the names a tenant has leads to it, whoever had
\* the name before (unless two have it), and what is kept of its configuration is
\* what the database holds.
RoutedToOwner ==
    Settled /\ NamesApart =>
      /\ memory.loaded = Active(db)
      /\ \A t \in Active(db) : \A n \in NamesOf(db[t]) :
           memory.names[n] = t /\ memory.tenant[t].version = db[t].version

\* An answer that is kept is what the database holds, but while the handler of a
\* write has yet to tell, and for the tenants where an answer worked out before
\* the write was kept after it, or the handler of the write was cancelled.
AnswersUpToDate ==
    \A t \in Tids \ outdated :
      answers[t] = NoResponse \/ answers[t] = Content(db, t)
        \/ \E w \in Workers : busy[w].at = "answer" /\ t \in Served(busy[w].tid)

\* However often its link is followed, and whatever the administrators and the
\* wizard do in between, the link initialises no tenant that is initialised already.
InitialisedOnce == \A t \in Tids : db[t].done <= 1

\* A signup never deletes a tenant that is active.
SignupKeepsActive ==
    [][\A w \in Workers : SignupCommit(w) => busy[w].gone \cap Active(db) = {}]_vars

=============================================================================

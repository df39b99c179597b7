----------------------------- MODULE Certificates -----------------------------
(***************************************************************************)
(* The TLS certificates of the tenants: what is stored of them, what the    *)
(* copy of the configuration says, what the SNI map serves, and the daily   *)
(* job that renews the ones of the ACME authority and warns of the others.  *)
(*                                                                         *)
(* A certificate is the key and the name it is for and the last day it is   *)
(* valid; keys are numbers, 0 for none.  The self-signed one of the root    *)
(* never ends.  What a request writes, in the database and in memory, is    *)
(* one step, but for a certificate of the authority: its name and key are   *)
(* read before the exchange, which runs without the lock, and the answer is *)
(* stored after it, over what the requests in between have stored.  So it   *)
(* is for the job, which then serves what it stored in a step of its own.   *)
(* The authority issues what it is asked for, or fails; an exchange ends on *)
(* the day it began, and one that is run again is one asked later.          *)
(* Refreshes of the copy are done with the change that asks for them:       *)
(* Tenants models them.  Left out: chains, which are refused like wrong     *)
(* certificates, the challenge of the authority and the account key (the    *)
(* first exchange writes it and so runs under the lock, with no requests in *)
(* between), and mails turned off.                                          *)
(***************************************************************************)
EXTENDS Naturals

CONSTANTS Tenants, Root, \* the tenants, and the root
          Hosts, Local,  \* the names tenants can have, and 127.0.0.1
          Home,          \* the name each tenant starts with
          Keys,          \* the keys that are made, positive numbers
          Kinds,         \* what the tenants have at first: see FirstRow
          Life,          \* days of a certificate of the authority
          Renewal,       \* acme_try_renewal
          Notice,        \* notify_expr_within
          Horizon,       \* bound: days
          MaxOps         \* bound: operations of the administrators, and restarts

CertificatesAssumption ==
    /\ Root \in Tenants /\ 0 \notin Tenants /\ Local \notin Hosts
    /\ Home \in [Tenants -> Hosts] /\ \A t, u \in Tenants : Home[t] = Home[u] => t = u
    /\ Keys \subseteq Nat \ {0} /\ Keys # {}
    /\ Kinds \subseteq [Tenants -> {"plain", "ready", "acme"}]
    /\ Life \in Nat /\ Renewal \in Nat /\ Notice \in Nat \ {0} /\ Horizon \in Nat /\ MaxOps \in Nat
    /\ Notice <= Renewal /\ Renewal <= Life

VARIABLES
    db,      \* the rows of each tenant
    memory,  \* State.tenants: the copy of each tenant, if it is there
    snimap,  \* configs_by_tid, contexts_by_hostname, default_context
    day,     \* today
    job,     \* CertificateCheck
    order,   \* db_acme_cert_request of an administrator: what it asked for
    ops,     \* operations so far
    exposed, \* history: the tenants something was done to that the map is not told of,
             \* or that the job is not, while it renews their certificate
    left,    \* history: the names a tenant gave up while it was served under them
    renamed, \* history: the tenants that changed their name
    told,    \* history: the tenants whose certificate was warned of
    since,   \* history: the day each tenant was loaded
    cut      \* history: whether a run of the job was missed or ended early

vars == <<db, memory, snimap, day, job, order, ops, exposed, left, renamed, told, since, cut>>

NoCert == [key |-> 0, host |-> Local, ends |-> 0]
NoConf == [tid |-> 0, host |-> Local, key |-> 0, cert |-> NoCert]

\* the self-signed certificate of the root, made with its own key
SelfSigned == [tid |-> Root, host |-> Local, key |-> 0, cert |-> [key |-> 0, host |-> Local, ends |-> Horizon + Life]]

Cert == [key : Keys \cup {0}, host : Hosts \cup {Local}, ends : 0 .. Horizon + Life]
Conf == [tid : Tenants \cup {0}, host : Hosts \cup {Local}, key : Keys \cup {0}, cert : Cert]

TypeOK ==
    /\ db \in [Tenants -> [active : BOOLEAN, host : Hosts, enabled : BOOLEAN,
                           key : Keys \cup {0}, cert : Cert, acme : BOOLEAN]]
    /\ memory \in [Tenants -> [there : BOOLEAN, enabled : BOOLEAN, cert : Cert, acme : BOOLEAN]]
    /\ snimap \in [configs : [Tenants -> Conf], contexts : [Hosts \cup {Local} -> Conf], default : Conf]
    /\ day \in 0 .. Horizon /\ ops \in 0 .. MaxOps
    /\ job \in [state : {"idle", "running", "asked", "renewed"}, at : Tenants, todo : SUBSET Tenants,
                seen : SUBSET Tenants, conf : Conf, done : BOOLEAN]
    /\ order \in Conf
    /\ exposed \subseteq Tenants /\ told \subseteq Tenants /\ left \subseteq Hosts
    /\ renamed \subseteq Tenants
    /\ since \in [Tenants -> 0 .. Horizon] /\ cut \in BOOLEAN

\* db_load_tls_config, of the rows of a tenant
Stored(t, row) == [tid |-> t, host |-> row.host, key |-> row.key, cert |-> row.cert]

Config(t, row) ==
    IF row.enabled THEN Stored(t, row) ELSE IF t = Root THEN SelfSigned ELSE NoConf

\* ChainValidator, and whether it looks at the dates
Valid(conf, dates) ==
    conf = SelfSigned \/ (/\ conf.key # 0 /\ conf.cert # NoCert /\ conf.cert.key = conf.key
                          /\ dates => day <= conf.cert.ends)

\* SNIMap.load
Load(map, t, conf) ==
    IF ~Valid(conf, FALSE) THEN map
    ELSE [configs |-> [map.configs EXCEPT ![t] = conf],
          contexts |-> [map.contexts EXCEPT ![conf.host] = conf],
          default |-> IF t = Root THEN conf ELSE map.default]

\* SNIMap.unload: what is under the name the tenant was loaded with goes
Unload(map, t) ==
    LET conf == map.configs[t]
    IN [configs |-> [map.configs EXCEPT ![t] = NoConf],
        contexts |-> IF conf = NoConf THEN map.contexts ELSE [map.contexts EXCEPT ![conf.host] = NoConf],
        default |-> IF t = Root THEN NoConf ELSE map.default]

\* db_refresh_tenant_cache, for one tenant
Copy(row) == [there |-> row.active, enabled |-> row.active /\ row.enabled,
              cert |-> IF row.active THEN row.cert ELSE NoCert, acme |-> row.active /\ row.acme]

\* sync_initialize_snimap
Initialized(rows) ==
    LET conf == [t \in Tenants |-> IF rows[t].active THEN Config(t, rows[t]) ELSE NoConf]
        loaded == {t \in Tenants : Valid(conf[t], FALSE)}
    IN [configs |-> [t \in Tenants |-> IF t \in loaded THEN conf[t] ELSE NoConf],
        contexts |-> [h \in Hosts \cup {Local} |->
            IF \E t \in loaded : conf[t].host = h
            THEN conf[CHOOSE t \in loaded : conf[t].host = h] ELSE NoConf],
        default |-> IF Root \in loaded THEN conf[Root] ELSE NoConf]

\* a tenant without HTTPS, one that could have it, and one with a certificate of
\* the authority
FirstRow(t, kind) ==
    LET key == IF kind = "plain" THEN 0 ELSE CHOOSE k \in Keys : TRUE
    IN [active |-> TRUE, host |-> Home[t], enabled |-> kind = "acme", acme |-> kind = "acme",
        key |-> key, cert |-> IF key = 0 THEN NoCert ELSE [key |-> key, host |-> Home[t], ends |-> Life]]

NoRun == [state |-> "idle", at |-> Root, todo |-> {}, seen |-> {}, conf |-> NoConf, done |-> FALSE]

Init ==
    /\ \E kind \in Kinds : db = [t \in Tenants |-> FirstRow(t, kind[t])]
    /\ memory = [t \in Tenants |-> Copy(db[t])]
    /\ snimap = Initialized(db)
    /\ day = 0 /\ ops = 0 /\ job = NoRun /\ order = NoConf
    /\ exposed = {} /\ left = {} /\ renamed = {} /\ told = {} /\ since = [t \in Tenants |-> 0] /\ cut = FALSE

-----------------------------------------------------------------------------
(* The administrators; what the job reads and loads of a tenant is apart from
   what they do to it meanwhile.                                            *)

Renewing(t) == job.state = "renewed" /\ job.at = t

Request(t) ==
    /\ ops < MaxOps /\ ops' = ops + 1
    /\ memory[t].there
    /\ UNCHANGED <<day, job, order, cut>>

\* A change of the stored files is not told to the map.
Untold(t, row) ==
    /\ db' = [db EXCEPT ![t] = row]
    /\ exposed' = IF db[t].enabled \/ Renewing(t) THEN exposed \cup {t} ELSE exposed
    /\ UNCHANGED <<snimap, told, since>>

Stores(t, row) == Request(t) /\ Untold(t, row)

\* db_load_https_key: only the key is looked at.
LoadKey(t) ==
    /\ \E k \in Keys : Stores(t, [db[t] EXCEPT !.key = k])
    /\ UNCHANGED <<memory, left, renamed>>

\* db_load_https_cert: a certificate of the name and key, in its last day or a long one
LoadCert(t) ==
    \E ends \in {day, Horizon} :
      LET cert == [key |-> db[t].key, host |-> db[t].host, ends |-> ends]
      IN /\ Valid(Stored(t, [db[t] EXCEPT !.cert = cert]), TRUE)
         /\ Stores(t, [db[t] EXCEPT !.cert = cert])
         /\ memory' = [memory EXCEPT ![t].cert = cert] /\ UNCHANGED <<left, renamed>>

\* KeyFileRes.delete_file, CertFileRes.delete_file
DeleteKey(t) ==
    /\ db[t].key # 0
    /\ Stores(t, [db[t] EXCEPT !.key = 0])
    /\ UNCHANGED <<memory, left, renamed>>

DeleteCert(t) ==
    /\ db[t].cert # NoCert
    /\ Stores(t, [db[t] EXCEPT !.cert = NoCert])
    /\ memory' = [memory EXCEPT ![t].cert = NoCert] /\ UNCHANGED <<left, renamed>>

\* db_acme_cert_request, before the exchange: the name and the key it is for, with
\* the certificate the copy holds, and no certificate without a key
Asked(t) == [tid |-> t, host |-> db[t].host, key |-> db[t].key, cert |-> memory[t].cert]

\* request_new_certificate, for what was asked
Issued(asked) == [key |-> asked.key, host |-> asked.host, ends |-> day + Life]

\* db_acme_cert_request, after the exchange: a tenant put aside is not found
Renewed(t, asked) == [db[t] EXCEPT !.acme = TRUE, !.cert = Issued(asked)]

Obtains(t, asked) ==
    /\ asked.tid = t /\ asked.key # 0 /\ memory[t].there
    /\ memory' = [memory EXCEPT ![t].cert = Issued(asked)]

\* An administrator asks, one at a time.
Acme(t) ==
    /\ order = NoConf
    /\ ops < MaxOps /\ ops' = ops + 1
    /\ memory[t].there
    /\ order' = Asked(t)
    /\ UNCHANGED <<db, memory, snimap, day, job, exposed, left, renamed, told, since, cut>>

\* The answer is stored; the copy does not learn that it is one of the authority.
AcmeStored(t) ==
    /\ Obtains(t, order)
    /\ Untold(t, Renewed(t, order))
    /\ order' = NoConf
    /\ UNCHANGED <<day, job, ops, left, renamed, cut>>

AcmeFailed ==
    /\ order # NoConf /\ order' = NoConf
    /\ UNCHANGED <<db, memory, snimap, day, job, ops, exposed, left, renamed, told, since, cut>>

\* what becomes of the rows, the copy and the map
Serves(t, row, copy, map) ==
    /\ Request(t)
    /\ db' = [db EXCEPT ![t] = row]
    /\ memory' = [memory EXCEPT ![t] = copy]
    /\ snimap' = map
    /\ exposed' = IF Renewing(t) THEN exposed \cup {t} ELSE exposed \ {t}
    /\ told' = told \ {t} /\ since' = [since EXCEPT ![t] = day]
    /\ UNCHANGED <<left, renamed>>

\* db_try_to_enable_https
Enable(t) ==
    /\ Valid(Stored(t, db[t]), TRUE)
    /\ Serves(t, [db[t] EXCEPT !.enabled = TRUE], [memory[t] EXCEPT !.enabled = TRUE],
              Load(snimap, t, Stored(t, db[t])))

\* db_disable_https
Disable(t) ==
    /\ db[t].enabled
    /\ Serves(t, [db[t] EXCEPT !.enabled = FALSE], [memory[t] EXCEPT !.enabled = FALSE],
              Unload(snimap, t))

\* db_reset_https_config
Reset(t) ==
    LET row == [db[t] EXCEPT !.enabled = FALSE, !.key = 0, !.cert = NoCert, !.acme = FALSE]
    IN /\ db[t] # row
       /\ Serves(t, row, [memory[t] EXCEPT !.enabled = FALSE],
                 Load(Unload(snimap, t), t, Config(t, row)))

\* set_hostname, which check_hostname keeps apart from the names of the others,
\* and the refresh of the copy
Rename(t) ==
    /\ \E h \in Hosts :
         /\ \A u \in Tenants : db[u].host # h
         /\ Stores(t, [db[t] EXCEPT !.host = h])
    /\ memory' = [memory EXCEPT ![t] = Copy(db'[t])]
    /\ left' = IF Renewing(t) \/ snimap.configs[t].host = db[t].host THEN left \cup {db[t].host} ELSE left
    /\ renamed' = renamed \cup {t}

\* update of a tenant by the root: one that is no longer active is unloaded,
\* and is not loaded again when it is
Activate(t) ==
    /\ ops < MaxOps /\ ops' = ops + 1
    /\ t # Root
    /\ db' = [db EXCEPT ![t].active = ~@]
    /\ memory' = [memory EXCEPT ![t] = Copy(db'[t])]
    /\ snimap' = IF db[t].active THEN Unload(snimap, t) ELSE snimap
    /\ exposed' = exposed \cup {t}
    /\ UNCHANGED <<day, job, order, left, renamed, told, since, cut>>

\* The program is started again: a run of the job that was not over is lost, and so
\* is the exchange of an administrator.
Restart ==
    /\ ops < MaxOps /\ ops' = ops + 1
    /\ memory' = [t \in Tenants |-> Copy(db[t])]
    /\ snimap' = Initialized(db)
    /\ exposed' = {t \in Tenants : db[t].enabled /\ ~Valid(Stored(t, db[t]), FALSE)}
    /\ left' = {}
    /\ job' = [NoRun EXCEPT !.done = TRUE]
    /\ cut' = (cut \/ ~job.done)
    /\ since' = [t \in Tenants |-> day] /\ told' = {} /\ order' = NoConf
    /\ UNCHANGED <<db, day, renamed>>

-----------------------------------------------------------------------------
(* CertificateCheck                                                         *)

There == {t \in Tenants : memory[t].there}

JobKeeps == UNCHANGED <<day, order, ops, left, renamed>>

BeginRun ==
    /\ job.state = "idle" /\ ~job.done
    /\ job' = [job EXCEPT !.state = "running", !.todo = There, !.seen = There]
    /\ UNCHANGED <<db, memory, snimap, exposed, told, since, cut>> /\ JobKeeps

\* the ends of a run: of the list, or with an exception
Ends == [NoRun EXCEPT !.done = TRUE]

EndRun ==
    /\ job.state = "running"
    /\ job.todo = {} \/ There # job.seen
    /\ job' = Ends
    /\ cut' = (cut \/ There # job.seen)
    /\ UNCHANGED <<db, memory, snimap, exposed, told, since>> /\ JobKeeps

\* Mutant: a warning only when it is too late.
MutDueForNotice(cert) == day > cert.ends

DueForRenewal(cert) == day + Renewal > cert.ends
DueForNotice(cert) == day + Notice > cert.ends

\* A tenant without a certificate in the copy ends the run.
Unreadable(t) ==
    /\ memory[t].enabled /\ memory[t].cert = NoCert
    /\ job' = Ends /\ cut' = TRUE
    /\ UNCHANGED <<db, memory, snimap, exposed, told, since>>

\* Nothing to do, or nothing but to warn
Notify(t) ==
    /\ memory[t].enabled => memory[t].cert # NoCert /\ ~(memory[t].acme /\ DueForRenewal(memory[t].cert))
    /\ told' = IF memory[t].enabled /\ DueForNotice(memory[t].cert) THEN told \cup {t} ELSE told
    /\ job' = [job EXCEPT !.todo = @ \ {t}]
    /\ UNCHANGED <<db, memory, snimap, exposed, since, cut>>

ToRenew(t) == memory[t].enabled /\ memory[t].cert # NoCert /\ memory[t].acme /\ DueForRenewal(memory[t].cert)

\* renew_certificate: what is asked of the authority
Ask(t) ==
    /\ ToRenew(t)
    /\ job' = [job EXCEPT !.state = "asked", !.at = t, !.conf = Asked(t)]
    /\ UNCHANGED <<db, memory, snimap, exposed, told, since, cut>>

\* the next tenant of the run, in the order they were copied: the root is the first
Look ==
    /\ job.state = "running" /\ There = job.seen
    /\ \E t \in job.todo :
         /\ Root \in job.todo => t = Root
         /\ Unreadable(t) \/ Notify(t) \/ Ask(t)
    /\ JobKeeps

\* renew_certificate, which fails: the warning is of the certificate there was when
\* the job came to the tenant.
NotRenewed(t) ==
    /\ job.state = "asked" /\ t = job.at
    /\ told' = IF DueForNotice(job.conf.cert) /\ memory[t].cert = job.conf.cert THEN told \cup {t} ELSE told
    /\ job' = [job EXCEPT !.state = "running", !.todo = @ \ {t}, !.conf = NoConf]
    /\ UNCHANGED <<db, memory, snimap, exposed, since, cut>> /\ JobKeeps

\* renew_certificate: the transaction stores the answer, and what the job is to serve
\* is what is stored then.  A key that was changed meanwhile is not the answer's.
Renew(t) ==
    /\ job.state = "asked"
    /\ Obtains(t, job.conf)
    /\ db' = [db EXCEPT ![t] = Renewed(t, job.conf)]
    /\ job' = [job EXCEPT !.state = "renewed", !.todo = @ \ {t},
                           !.conf = Config(t, Renewed(t, job.conf))]
    /\ exposed' = IF db[t].key # job.conf.key THEN exposed \cup {t} ELSE exposed
    /\ UNCHANGED <<snimap, told, since, cut>> /\ JobKeeps

\* the job serves what was renewed
Reloaded(map, t, conf) == Load(Unload(map, t), t, conf)

Reload ==
    /\ job.state = "renewed"
    /\ snimap' = Reloaded(snimap, job.at, job.conf)
    /\ job' = [job EXCEPT !.state = "running", !.conf = NoConf]
    /\ told' = told \ {job.at} /\ since' = [since EXCEPT ![job.at] = day]
    /\ UNCHANGED <<db, memory, exposed, cut>> /\ JobKeeps

NextDay ==
    /\ day < Horizon /\ day' = day + 1
    /\ job.state = "idle" /\ job.done /\ order = NoConf
    /\ job' = NoRun
    /\ UNCHANGED <<db, memory, snimap, order, ops, exposed, left, renamed, told, since, cut>>

Next ==
    \/ \E t \in Tenants :
         \/ LoadKey(t) \/ LoadCert(t) \/ DeleteKey(t) \/ DeleteCert(t)
         \/ Acme(t) \/ AcmeStored(t)
         \/ Enable(t) \/ Disable(t) \/ Reset(t) \/ Rename(t) \/ Activate(t)
         \/ NotRenewed(t) \/ Renew(t)
    \/ AcmeFailed \/ Restart \/ BeginRun \/ EndRun \/ Look \/ Reload \/ NextDay

Spec == Init /\ [][Next]_vars

-----------------------------------------------------------------------------
Served(t) == snimap.contexts[db[t].host]

\* The tenants nothing was done to behind the back of the map
Known(t) == db[t].active /\ t \notin exposed /\ ~Renewing(t)

\* A tenant with HTTPS is served with what is stored of it, under its name, a key and
\* a certificate for it, and of its name if it never had another; the others are not
\* served with a certificate of theirs; the copy requests are redirected by agrees.
\* An exchange with the authority may run meanwhile, for the job or an administrator.
\* What is not told to the map, a change of the files or of the name while HTTPS is on
\* or a tenant put aside and taken back, and a key changed during the exchange of the
\* job, are apart (SNIMap.load, SNIMap.unload, handlers/admin/https.py,
\* CertificateCheck).
ServedAsConfigured ==
    /\ \A t \in Tenants : memory[t].enabled = (db[t].active /\ db[t].enabled)
    /\ \A t \in {u \in Tenants : Known(u)} :
         IF db[t].enabled
         THEN /\ db[t].host \notin left => Served(t) = Stored(t, db[t]) /\ Valid(Served(t), FALSE)
              /\ db[t].host \notin left /\ t \notin renamed => Served(t).cert.host = db[t].host
              /\ t = Root => snimap.default = Stored(t, db[t])
         ELSE \A h \in Hosts \ left : snimap.contexts[h].tid # t

\* A certificate does not end while it is served without a warning before: unless
\* a run of the job was missed or ended early, or it was loaded in its last days
\* (CertificateCheck.operation).
NeverEndsUnannounced ==
    \A t \in {u \in Tenants : Known(u) /\ db[u].enabled /\ db[u].host \notin left} :
      ~cut /\ Served(t).cert.ends < day => t \in told \/ since[t] + Notice > Served(t).cert.ends

=============================================================================

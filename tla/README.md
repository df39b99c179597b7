# GlobaLeaks in TLA+

Specifications of the backend of GlobaLeaks (`src/backend/globaleaks`), model-checked
with TLC and, where a property is worth having for every size of the system, proved with
TLAPS. Paths below are relative to `src/backend/globaleaks`; those that begin with
`documentation/`, `debian/` or `client/` are relative to `src`.

## 1. The system

GlobaLeaks receives reports from whistleblowers, encrypts them to the recipients of a
channel, keeps them for a bounded time and lets custodians decide whether the
whistleblower's identity may be disclosed. The backend is one Twisted process: handlers
and periodic jobs start in the reactor thread; nearly all they do to the database is a
function decorated with `@transact` (`orm.py:149-218`) that runs in a pool of 4 to 16
threads over SQLite, each with its own connection. State outside of the database
(sessions, tokens, temporary files, caches, the SNI map, the buckets of the rate limits)
is in dictionaries in memory, shared by the reactor and the threads, and takes no part in
transactions.

### What makes it hard

**Transactions do not cover their reads.** The SQLite driver opens a transaction at the
first INSERT, UPDATE or DELETE. What a function SELECTs before its first flush is read in
autocommit, and may be stale when the function writes. From the first flush to the commit
the database's lock is held. An UPDATE writes the columns the function assigned; one that
finds no row raises and rolls back; foreign keys are checked at the commit; a bulk delete
acts at once. A transaction that finds the database locked is rolled back and run again,
up to 20 times; any other exception rolls it back. Handlers are written as though a
function ran alone, and the tests run them that way (`tests/helpers.py:130-144` replaces
the pool by one that calls the function in place), so that no test interleaves two
transactions. That is what the models are for.

**Memory and database disagree.** A session inserted, an attribute changed or a list
emptied by a transaction that is rolled back stays so. A copy of the configuration is
older than the database, by a refresh, or by more if the refresh was never asked for.

**Jobs race requests.** Delivery hands the files of a report to its recipients every five
seconds; Notification writes mails and another job sends them; Cleaning deletes expired
reports, CertificateCheck renews certificates once a day. Each reads, then writes, while
people act.

**The machine stops.** A half-written file, a database half migrated, a transaction half
in the file are found by the next start.

### Components

| Component | State | Correct when | Module |
|---|---|---|---|
| Report access and keys | `ReceiverTip` rows with sealed keys, files | a row opens the report for its own recipient alone; nothing outlives the report; every recipient gets every file; recipients cannot leave a report without recipients | `ReportAccess` |
| Identity access requests | `IdentityAccessRequest`, `...Custodian` | who was asked decides; an authorization is final; the identity is shown when it was authorized | `IdentityAccess` |
| Report lifecycle | status, substatus, expiration, reminder | kept no longer than a policy says; deleted when expired and not before | `ReportLifecycle` |
| Submission intake | answers, schemas, counter, receipt, files on the session | what is stored is what was submitted; numbers are in order | `Submission` |
| Attachments | temporary files, rows, files on disk | what is delivered is whole; nothing outlives its report | `Attachments` |
| Downloads and exports | stored frames, archive, line of downloads | a complete file is read whole; heavy downloads take turns | `Downloads` |
| Redaction and masking | `Redaction`, answers, comments | what was redacted is gone, what was masked is hidden | `Redaction`, `Ranges` |
| Notification and mail | `new` flags, last access, mails | nobody misses news; what can be sent leaves | `Notification`, `MailPool` |
| Questionnaire logic | answers, triggers | server and client agree on which answers count | `Answers` |
| Questionnaires and their editor | fields, templates, options | no loops, one identity, a copy looks the same | `Forms` |
| User keys and credentials | key pairs, escrow, reset tokens | a password opens the user's key; escrow holds what it should | `Accounts` |
| Sessions and authentication | `Sessions`, `User` row | no session outlives the account it was opened for | `UserSessions` (partly) |
| Proofs, tokens, two-factor codes | stores whose entries expire | each is accepted once | `Gateway`, `TwoFactor`, `TempStore` |
| Rate limits | bounded cache of buckets | requests over a narrow limit use up no wider one | `Limits` |
| Routing of requests | none; the copy of the configuration | an address is answered by the tenant it is of | `Routing` |
| Tenants, sign-up, caches | `Tenant`, `Config`, `State.tenants`, cached answers | a name leads to its tenant; no answer stays that is out of date | `Tenants` |
| HTTPS certificates | rows, copy, SNI map, job | served as configured; no certificate ends unannounced | `Certificates` |
| Start-up and migrations | the database and its copy | the old database or the whole of the new one | `Upgrade` |
| ORM transactions | lock, journal, pool, answers | once, whole, or not at all, and the answer tells | `Transaction`, `AtomicRequests` |

Not modelled: statistics (reads only); the driver of the Tor daemon; the primitives of
cryptography (the modules say what a key opens, and how a file is cut into frames);
formatting, texts and translations; the Angular client, but for the part of it that has to
agree with the server on the answers; packaging; the statuses, sites, texts and files of
the administration, each one transaction on rows of its own; the jobs that only fetch or
count something; the shapes request bodies are checked against.

### How they meet

The components meet in the database and in a few dictionaries. A recipient or custodian
deleted by an administrator disappears from rows, requests and keys
(`handlers/admin/user.py:108-129`); the deletion of a report cascades to everything that
refers to it; a session carries the decrypted private key with which a grant opens the
report's key; Delivery turns what Attachments registered into the entries ReportAccess is
about, and Downloads reads what it wrote; a change of a tenant is told to the copy that
Routing reads, and a change of its certificate to the SNI map. Events that concern two
components are actions of both modules (`DeleteUser`, `CreateKeys`, the deletion of the
report, `Deliver`).

`Transaction` shows what the others may assume of the engine: it implements
`AtomicRequests`. The Begin and Commit of the other modules are how a function looks on
top of it: its reads, then its work as a whole.

## 2. Conventions of the modules

* **Begin and Commit.** A handler is a Begin action, everything it reads and decides before
  its first write, and a Commit action, what it writes, to the state as it is then. `tx[w]`
  is what the thread `w` carries from one to the other. Where nothing is read before the
  first write, or no property can tell the two apart, they are one action.
* **Abort** stands for every way a transaction ends without effect: the row is gone, a
  constraint fails, the lock is not obtained, an exception, the end of the process. A retry
  is an Abort and another Begin; `Submission` and `Attachments`, where a try leaves
  something behind in memory, model the retries themselves.
* **Constraints** of the schema that decide a race (`Insertable`, `ReportExists`) are guards
  of the Commit.
* **History variables** say what a property makes an exception of: `overlapped`, `stale`,
  `raced`, `moved`, `harm`, `exposed`, `left`, `cut`, `dropped`, `forgotten`. They are assigned
  beside the code's state and decide nothing in it.
* **Mutants.** A definition commented `Mutant:` is a plausible mistake in the definition
  after it. No action uses it; for every property of a passing run `PROJECT.json` names
  the mutant which, put in place of the code's definition, violates it under the run's
  configuration.
* **Data** is abstracted to what the properties distinguish: a sealed key is the name of
  whom it is sealed to, a recipient's row has a number for its incarnation, an account a
  number for its changes, a file is its chunks or frames, time is a day or a tick.
* **Recursion** is by recursive functions over an interval (and folds), which the proofs can
  reason about: a walk over a tree of fields is a function of how far it has gone.

## 3. The modules and the runs

A component is specified by itself. To check many components with a few runs, an `MC`
module puts several side by side: a variable `part`, chosen by the initial state, says
which is under way, and the others keep still. The behaviours of the sum are exactly those
of its parts, one at a time; a property `P` of a part is stated as `part = "x" => X!P`, or
as it is where the other parts satisfy it trivially. The first component is extended (its
names are not prefixed), the others are instances.

### access: `MCReports`, `Reports.cfg`

**ReportAccess**: one report, from submission to deletion, and the recipients' rows on it.
Submission, grant, transfer, revocation and deletion (`handlers/recipient/rtip.py:80-189`,
`937-954`), the Delivery job (`jobs/delivery.py:19-70`), expiry, and the administration of
users (`handlers/admin/user.py`), all in transactions that overlap.
*SealedToHolder*: rows of an encrypted report hold its key sealed to the key of their own
recipient. *ErasedWithReport*: a deleted report leaves nothing behind. *AudienceSeesFiles*:
who had a row when the file was uploaded and has it still gets the processed file.
*LastRecipientKept*: the last row goes with the report, the user, or by a caller who has
lost access himself.

**Answers** (the evaluation of the answers in `handlers/whistleblower/submission.py` and
in `client/app/src/services/helper/submission.service.ts`): *AnswersAgree*: what the
server decides (who receives the report, its score, whether it is refused) is decided by
the fields a whistleblower can see, and what the official client lets through is accepted.

**Downloads** (the streams of `utils/crypto.py`, `utils/zipstream.py`, the line of
`handlers/base.py`): *ServedWhole*: a file that was complete when it was opened and was not
wiped is read from the first frame to the last. *OneAtATime*: two heavy downloads of a user
whose clients are still there are never at work at once.

### requests: `MCRequests`, `Requests.cfg`

**IdentityAccess** (`rtip.py:1100-1151`, `handlers/custodian/__init__.py:94-119`,
`models/serializers.py:257-283`): *DecidedByAsked*; *AuthorizationIsDefinitive* and
*DisclosureIsFinal* but for transactions that overlap.

**Submission** (`handlers/whistleblower/submission.py`, `handlers/recipient/insertion.py`):
`db_create_submission` run again by the engine, with what a try leaves in the request and
on the session; the archive of schemas and its daily cleaning; the receipt, its change; the
insertion of reports by recipients. *FiledWhole*: a stored report holds what was submitted,
its schemas exist, and the receipt that finds it opens it. *NumbersInOrder*: a report takes
the number after the highest given, or one that a deleted report has given back.

**Redaction**: *RedactionsAreKept*: what is redacted stays so though other redactions and
maskings are lifted, but for the lost update that the run `redaction_lost` shows.

**Notification** (`jobs/notification.py`): *NobodyMissesNews*: a recipient a comment
concerns has read it, has a mail since his last visit or is still to be looked at, but for
who opened the report while the job was at work, or whose mail could not be made.

### upkeep: `MCUpkeep`, `Upkeep.cfg`

**ReportLifecycle** (`rtip.py:192-285`, `738-764`, `881-919`, `jobs/cleaning.py`):
*RetentionBounded* and *NotSweptEarly* whatever overlaps: no step but a request's deletes a
report before the earliest day anybody could have made it end, however stale the
computations and the list of the job were; *SubstatusOfStatus* as long as nothing overlaps;
*ExpiredIsDeleted* under the fairness of the job.

**Certificates** (`handlers/admin/https.py`, `utils/tls.py`, `utils/sni.py`,
`jobs/certificate_check.py`, `db/__init__.py`): the rows of the tenants, the copy, the SNI
map, restarts. An exchange with the authority, the job's or an administrator's, is in three
steps, because it takes seconds without the lock: what is asked for is read, anything may
happen, and then the answer is stored, or the exchange has failed; the job loads what it has
stored in a step of its own.
*CertificatesServed*: a tenant is served with what is stored of it, a key and a certificate
for it, under its name, unless the change was one the map is not told of (`exposed`, `left`)
or a key was changed during the job's exchange (section 7); the certificate is of the
tenant's name unless the tenant was renamed; and what ends was announced, unless the run was
missed or broke off (`cut`) or the certificate was loaded in its last days.

**Upgrade** (`db/__init__.py`, `db/migration.py`, `db/migrations/update.py`,
`backend.py`): a start with stops at every step. *UpgradedAsAWhole*: the database in place
is the old one, or the whole of the new one. *ComesUp*: the program starts in the end.

### entry: `MCEntry`, `Entry.cfg`

**UserSessions** (`handlers/auth/__init__.py:109-185`, `sessions.py`): *DeletedUserIsOut*,
*RedirectIsSingleUse*, *HomeSessionsUpToDate*. **Gateway** (`utils/dpop.py`,
`utils/token.py`, `state.py`, over `TempStore`, which is `utils/tempdict.py`):
*ProofsHold*: a proof of possession is accepted once, a token ends with its session or its
life. **TwoFactor** (`state.py:346-367`): *CodeNotRepeated*: the code accepted last is not
accepted again while it is good, unless the timer of an overwritten entry took it out of
the store. **Limits** (`rest/decorators.py`, `utils/ratelimit.py`, `utils/lrucache.py`):
*OwnShare*: what a narrower limit refuses uses up no token of a wider one. **Tenants**
(`handlers/signup.py`, `handlers/wizard.py`, `handlers/admin/tenant.py`,
`db/__init__.py:db_refresh_tenant_cache`, `rest/cache.py`): *TenantsServed*: when every
write has been told, a name leads to its tenant and a kept answer is what the database
holds; *InitialisedOnce*: a link of activation initialises no tenant twice. **Routing**
(`rest/api.py:319-345`, `440-536`): *AnsweredByTenant*: through all the redirects, an
address is answered by the tenant it is of and the handler of its path, if it is answered,
but for the one redirect that loses the prefix (section 7). The redirects an administrator
has defined may lead to one another, or around for ever, and are not counted; the
platform's own are never more than two.

### transaction: `MCTransaction`, `Transaction.cfg`

**Transaction** (`orm.py`, with SQLite's rollback journal external): the pool, the lock,
the retries, the explicit commit of a failed login, the object the decorator keeps, stops.
*ImplementsAtomicRequests*: every behaviour is one of **AtomicRequests** under the mapping
in the module. *RunsForCallerOrLater*: the decorator keeps the object its method was last
looked up on for all threads, so a method may run on behalf of a later caller, and never
of an earlier one. *EveryRequestAnswered* under fairness of the threads.

### jobs: `MCJobs`, `Jobs.cfg`

**Attachments** (`handlers/whistleblower/attachment.py`, `handlers/base.py`,
`utils/securetempfile.py`, `jobs/delivery.py`, `jobs/cleaning.py`): chunks repeated and
out of order, expiry of the temporary files, tries that are run again, stops.
*UploadsWhole*: what is delivered and met no harm is whole, and what was acknowledged is
attached; *EventuallyDelivered*, *ErasedFromDisk* under fairness of the jobs. **MailPool**
(`jobs/notification.py`, `state.py:241`): *EveryMailIsSent*: every mail that can leave
does.

### administration: `MCAdministration`, `Administration.cfg`

**Accounts** (`handlers/user/*`, `handlers/admin/user.py`, `handlers/admin/operation.py`,
`handlers/auth/*`): *KeysSound*: a password opens its user's key, the escrow opens the
keys it should and no other, except for who raced (`raced`). **Forms**
(`handlers/admin/field.py`, `questionnaire.py`, `step.py`, `handlers/public.py`,
`db/__init__.py`): a request brings all the columns of a row but the tenant, and the code
writes what it brings: any template, kind (`instance`) and type, on creation and on update.
*FormsSound*: groups nest without a loop and no deeper than allowed, unless transactions
raced, and creations and copies ask for the identity once, in a questionnaire to which no
update has brought that question (section 7); a tenant's rows are linked to its own or to the root's templates; the microphone is allowed
wherever a question answered by voice is shown. *CopyLooksTheSame*: a copy of a
questionnaire shows what the original does, with the same conditions, unless it is tied up
with templates (`SelfContained`).

### Runs that refute a claim

`access_grant_race`, `identity_hidden`, `sessions_tenants`, `tenants_signup` and
`redaction_lost` each check one property that a comment or the documentation states, on the
smallest instance that violates it; section 7 lists them.

## 4. Bounds

Bounds are constants and guards; the configurations give them names that say what they
bound. They are of three kinds.

* *Counters that grow for ever*: `MaxOps`, `MaxRequests`, `MaxChanges`, `MaxEdits` (requests
  begun), `LastDay`, `Days`, `Horizon`, `Hours`, `MaxTime` (time), `MaxStops`, `MaxBusy`,
  `MaxFaults` (failures), `MaxProofs`, `MaxTokens`, `MaxHops`.
* *Sizes*: recipients, files, chunks, frames, rows, names, tenants, threads.
* *Periods of the code*, scaled: days of a retention, lives of certificates, tokens, codes.
  The scale keeps the order of the real ones: the day a certificate is renewed is not later
  than the day its end is announced; a code's entry outlives the code by more than a step;
  the notice is at least a day.

Why they are enough:

* Two threads are enough for what one transaction does to another's reads; where a third
  actor matters (the Delivery job, the intake, the Cleaning job, the reactor) it is one of
  its own beside the threads. The proofs of section 6 are for any number.
* Three recipients are the one who acts, the one acted upon and a bystander. Two custodians
  give two answers to one request; two requests give an answer out of order.
* Two chunks or frames give a first, a last and a cut between them; two files give a list.
* Three days are a certificate loaded, looked at, and ended; a report read, expired and
  swept, with a postponement in between. Of the dates recipients ask for, one is earlier
  than any they may have, one later.
* Two versions to migrate, of two tables, one of which a schema does not have, give every
  order of scripts and stops around the copy and the move.
* Two tenants are the root and another; three identifiers leave one for a sign-up.
* Two keys of each tenant, and three changes, are a key exchanged for another during an
  exchange with the authority. The tenants begin without HTTPS, or one of them with a
  certificate of the authority's that is to be renewed.
* A request of `Forms` differs in one thing, where it adds or updates, from what the client
  would ask for: its place, its template (any row), its kind, its type, its conditions or
  its options.
* The questionnaires of `Answers` are all those of four fields with a checkbox, a group with
  a checkbox inside and a choice; the ones of `Forms` begin with a template, a reference, a
  group and a condition, and take two edits more.

Model values that play the same role are declared symmetric in the runs without liveness;
recipients with different privileges are not. Deadlock is not checked: a deleted report or
user stays deleted, and the bounds stop the requests.

## 5. Fairness

* **Lifecycle** (`MCUpkeep`): Cleaning runs every day whatever its last run did
  (`jobs/job.py:102-117`), hence weak fairness of `SweepBegin`; strong fairness of
  `SweepCommit` says that not every run that found an expired report is rolled back.
  Recipients and their requests get no fairness.
* **Upgrade** (`MCUpkeep`): weak fairness of `Run`: a program that was started goes on,
  and is started again after a stop. Stops are bounded. That a start *fails* for ever is
  found: `ComesUp` speaks of what the code can upgrade, and of no half-created database
  (section 7).
* **Attachments**, **MailPool** (`MCJobs`): weak fairness of each step of the jobs, and of
  the days. Chunks, whistleblowers and failures get none. `EveryMailIsSent` holds as long
  as fewer mails fail than a run takes, and none of an inactive tenant is in front.
* **Transaction**: weak fairness of each request's thread. The retries are counted, the lock
  is waited for thirty seconds at most.

The other specifications have no fairness and no liveness property.

## 6. What is proved

By TLAPS, for every value of the constants that the modules' assumptions allow. The
assumptions are named and say what the code fixes: sets of users are finite or disjoint,
periods are numbers in a certain order, two tenants do not start with the same name. The
theorems of a component that runs inside a sum are about the sum (`MCSpec`), those of a
component that is extended are about its own `Spec`; either names the property the run
checks.

| Theorem | Property | Argument |
|---|---|---|
| `ReportAccess_proofs` | | |
| `TypeCorrect` | `TypeOK` | one step for each action |
| `KeysSealed` | `SealedToHolder` | `KeysInv`: what a submission or a grant in flight is about to seal is sealed to keys that exist; keys, once made, stay; a report in clear never becomes encrypted |
| `Erased` | `ErasedWithReport` | part of `KeysInv`: the schema refuses a row of a deleted report |
| `LastKept` | `LastRecipientKept` | a revocation whose caller still has a row leaves that one |
| `FilesDelivered` | `AudienceSeesFiles` | `FilesInv`: incarnations of a row are numbered upwards, so a row that is still the one the Delivery job read is one it serves |
| `TakeTurns` | `OneAtATime` | `LockInv`: there is one line, that of the lock, and it is empty when the lock is free |
| `DownloadedWhole` | `ServedWhole` | `DownloadsInv`: what a reader has taken is a beginning of what was complete when it was opened; a file that is written only grows |
| `Requests_proofs` | | |
| `TypeCorrect`, `Erased`, `KeysHeld` | (of `IdentityAccess`) | conjuncts of `IInv` |
| `Decided` | `DecidedByAsked` | `IInv`: a reply in flight names a request by its place, and places are never reused |
| `Definitive`, `DisclosureFinal` | `AuthorizationIsDefinitive`, `DisclosureIsFinal` | `SoloInv`: while nothing has overlapped, what is in flight was read from the report as it is |
| `NewsReach` | `NobodyMissesNews` | `NewsInv`: who has not opened the report since the job began is in the database as the job has read him |
| `Filed` | `FiledWhole` | `FilingInv`: what a try has flushed holds the lock, and a schema in use is in the archive of those the cleaning spares |
| `InOrder` | `NumbersInOrder` | `FilingInv`: the counter may be stale, but every number up to the highest was given |
| `RedactionsKept` | `RedactionsAreKept` | `RedactInv`: what a redaction or a masking in flight has read is a row as the database keeps it, and is still there unless the request is stale; sorting, joining and cutting lists of ranges neither lose nor gain a position (`JoinedCovers`, `ByStartCovers`, `MergedCovers`, `LeftCovers`, by induction over the ranges) |
| `Upkeep_proofs` | | |
| `TypeCorrect`, `Retained` | `TypeOK`, `RetentionBounded` | what is about to be written was within a policy on the day it was computed, and days only pass |
| `SubstatusFits` | `SubstatusOfStatus` | while nothing overlapped, what is in flight was read from the report as it is |
| `KeptLongEnough` | `NotSweptEarly` | `Lasting`: every expiration there is, that a transaction is about to write or that the job has found due, was within a policy on the day it was computed (`Ripe`), and days only pass |
| `StartedWhole` | `UpgradedAsAWhole` | `StartInv`: until the move, the file in place is what the copy was made of, and the counts of the copy do not fall below it; the move is one step |
| `CertificatesKept` | `CertificatesServed` | `TlsInv`: each step changes what the map holds of one tenant, under the name it has or gave up, and names are apart; what an exchange in flight has asked for is what is stored, or what the property excepts has happened since (`Pending`, `Meanwhile`); the job has warned of today's ends where it has been, and of yesterday's everywhere |
| `UserSessions_proofs` | | |
| `TypeCorrect` | `TypeOK` | one step for each action |
| `OneSessionPerThread` | `OnePerThread` | `ThreadInv`: a thread about to insert has no session in the store |
| `DeletedIsOut` | `DeletedUserIsOut` | `DeleteInv`: a deletion that has revoked holds the lock that a login needs to be answered |
| `SingleUse` | `RedirectIsSingleUse` | `GrantInv`: a login that has not inserted its session has a number nothing else has |
| `HomeSessions` | `HomeSessionsUpToDate` | while nothing overlapped, a login in flight has read the account as it is |
| `AnsweredForTenant` | `AnsweredByTenant` | `WayInv`: each redirect keeps the tenant of the address among those that may answer, or leads where nobody answers and nobody was meant (`Astray`); after one redirect of the platform at most one more can follow, and those of the paths bring none back; the trie of the handlers resolves a path to the first pattern it matches |
| `Entry_proofs` | | |
| `NotRepeated` | `CodeNotRepeated` | `CodesInv`: the entry of the code accepted last is in the store for as long as the code is good, or was taken by an abandoned timer |
| `ProofsAndTokens` | `ProofsHold` | `JtiInv`, `TokenInv`: every timer is of an entry, every proof accepted and not stale has its entry |
| `Initialised` | `InitialisedOnce` | `TenantsInv`: an activation looks at what it finds once it holds the lock, not at what its caller has read; a new tenant takes an identifier no one had |
| `Served` | `TenantsServed` | `KeptInv`, `RouteInv`: a kept answer that is out of date is one somebody is about to drop; while nothing is amiss refreshes come one at a time, and what the copy says of a tenant is what the database says, or about to be read again |
| `OwnShares` | `OwnShare` | `BucketsInv`: what a bucket holds and what was taken of it are no more than its limit has filled it with; what an address takes of a wider limit it has just taken of its own |
| `Transaction_proofs` | | |
| `Implements` | `ImplementsAtomicRequests` | step refinement: the deletion of the journal is the step that keeps, all others stutter, `Answer` and `Stop` map to theirs |
| `CallerOrLater` | `RunsForCallerOrLater` | the object kept was looked up by a request since |
| `TypeCorrect` | `TypeOK` | |
| `Attachments_proofs` | | |
| `DeliversWhole` | `UploadsWhole` | `IInv`: a temporary file holds a beginning of its file; it is complete before its row is made and out of the dictionary before it is read; what is copied and what is left always make up the file |
| `TypeCorrect` | `TypeOK` | |
| `Administration_proofs` | | |
| `KeysKeptSound` | `KeysSound` | `IInv`: the key of a user who did not race never changes once it is stored, so what transactions, sessions and tokens hold of it is still the key |
| `TypeCorrect` | `TypeOK` | |
| `QuestionnairesStaySound` | `FormsSound` | `LinksInv`: the rows, and the rows a transaction has read, are linked within a tenant or to the root's templates; identifiers are not used twice and a row does not change hands, so that a link checked before the lock is one within the tenant at the commit, or the foreign key fails. `NestInv`: each field has a level, one below its group's, under the limit (`Nests`); what a deletion with its cascades, a move and a copy do to the levels is a lemma each. `VoiceGranted`: by induction over the depth, the walk upwards has met what the serialization shows that far down |

Hardly any of these properties is inductive as a run states it: each says what is in the
database, and what a transaction in flight is about to write is not there yet. The
strengthening is nearly always about what is in flight, and about the one fact no
interleaving can take back: keys exist, incarnations grow, places are not reused, the lock
is held, days pass, files grow, a code stays accepted. Each invariant was model-checked
before it was proved.

What the proofs corrected in the models: the numbers of reports are not the counter's, since
the counter can fall (a stale read and a deletion), so `NumbersInOrder` speaks of the
highest number given; `Tenants` must except a refresh for a wizard that lost its race; the
entry of a two-factor code must be kept three steps of 30 seconds to outlive the code, which
the code's 120 seconds do; an update can bring the identity question to a questionnaire
that asks it already, hence `moved`; the deepest level serialized is one beyond the walk that
grants the microphone, hence the bound in `VoiceIsGranted`; with a notice of no day a certificate could end in the very step
that precedes the job's look, which is why `CertificatesAssumption` asks for a positive one
(the code's is 7 days) and for names that differ at the start.

### What stays model-checked

* Liveness: `ExpiredIsDeleted`, `ComesUp`, `EveryRequestAnswered`, `EventuallyDelivered`,
  `ErasedFromDisk`, `EveryMailIsSent`. The prover does neither fairness nor ENABLED.
* `AnswersAgree`: the model's questionnaires have conditions on earlier questions only, the
  order both traversals go in, which the editor does not enforce. A theorem would be about
  these questionnaires alone; with conditions on later ones the property is false, as the
  second traversal of the same answers may hide more than the first.
* `CopyLooksTheSame`: that two trees of fields, read in the order of their numbers, are the
  same list. Its proof would be an induction over both lists at once. The conditions in
  `SelfContained` are what it needs: without any of them TLC finds, on arbitrary small
  databases, a copy that looks different, and with them none.

The library's induction theorems take an operator as parameter, which the installed
provers cannot instantiate. Induction over numbers is done without them: every set of
naturals has a least member (`Least`, from the library's facts on well-founded relations),
which gives induction over a *set* of numbers (`Induction`, `Upwards`), and with it that a
function defined by recursion over an interval has the values its definition says
(`Recursion`). The passes over ranges, and the walks up and down the groups, are functions
of this kind; `FlattenIn` says as much of the fold that puts lists
one after the other.

One theorem rests on an assumption about data that the code does not check itself.
`RedactionsKept` is about selections sorted by their start: `merge_and_sort_ranges` passes
over the second list as it comes, and the client sorts what it sends.

## 7. Findings

Each of these is a run that TLC refutes; `PROJECT.json` quotes the line the code
contradicts.

1. **A recipient granted access during the Delivery job misses the files for good**
   (`jobs/delivery.py:37`, run `access_grant_race`). The job makes entries for the rows it
   read; the grant copies the entries that exist; the file is no longer new.
2. **An authorized identity stays hidden** (`models/serializers.py:257`, run
   `identity_hidden`). Of two pending requests the older is authorized: the latest decides
   what is shown, and no further request is accepted.
3. **Disabling, changing or deleting a user leaves his session on another tenant**
   (`handlers/admin/user.py:187`, run `sessions_tenants`). The revocation is by the tenant
   of the user, the session carries the tenant it was opened on.
4. **A tenant activated meanwhile is deleted by a second sign-up for its name**
   (`handlers/signup.py:51`, run `tenants_signup`). The pending ones are read before the
   lock is held, and deleted by identifier.
5. **A redaction brings back what another has redacted** (`handlers/recipient/rtip.py:1387`,
   run `redaction_lost`). The answers of a questionnaire are read in one transaction and
   written back, all of them, in another.

### Observations

What was met while modelling, has no run of its own, and is in the models as the code has it
(each is an exception some property makes, or lies outside of what the properties say).

*Reports.* A check that no request is authorized precedes the transaction
(`rtip.py:1117`), so that overlapping requests may hide a disclosed identity. The DELETE
of Cleaning names the reports that were expired when they were read
(`jobs/cleaning.py:31`), whatever was put off since. The manual allows an expiration up to
"twice the default Data retention policy period"
(`documentation/user/recipient/index.rst:149`), the code up to the larger of that and 365
days (`rtip.py:901-905`). The counter of reports can fall below live numbers, after a
stale read and a deletion.

*Submission.* `create_inserted_report` that is run again loses the attachments: the list on
the session is emptied before the commit (`handlers/recipient/insertion.py:152`). Names,
types and sizes of files are sealed again at each try, the second time over the first.
Opening another composition in the same session drops its files. A whistleblower's session
keeps its files, so that a second submission in it fails on their keys.

*Attachments and downloads.* A client that disconnects releases the user's lock while its
thread works on, though "a user runs at most one at a time"
(`handlers/base.py:507-511`). A file cut between two frames is downloaded short without an
error (`utils/crypto.py:261-281`). An archive entry that fails midway stays in the directory
without its end (`utils/zipstream.py:299-317`). A row is committed before its file is
written.

*Redaction.* The second list of `merge_and_sort_ranges` is not sorted, and ranges may get
lost. Redacting a file without a copy of one's own deletes the row and not the file. A
stale unmasking can delete the row of a redaction.

*Notification.* A visit between the job's first and later queries, followed by a comment, is
not told. A comment or file shared by several recipients is flagged by the success of one of
them. The mail of an inactive tenant raises in `State.sendmail` (`state.py:241`) and blocks
what is behind it for up to two weeks; a hundred mails that fail at the head do the same.

*Accounts.* Two first accesses at once make two key pairs. `db_create_user` with the root's
escrow on and the tenant's encryption off uses an unbound name. The link of a reset is
stored and mailed before the key for it is, which may fail.

*Questionnaires.* A duplicate loses the conditions of template-based questions. Conditions
across a questionnaire's own questions and the inside of a template stay with the original,
as do some of a question shown twice (a template that was also moved into the questionnaire,
or a field that raced into a step and a group): `id_map` keeps one new option for each
(`handlers/admin/questionnaire.py:113-146`). The copy
of a reference keeps the template's identifier and cannot be saved; duplication fails when
a field is triggered by a template's option. Only `db_create_field` refuses a second
identity question (`handlers/admin/field.py:302-316`): `db_update_field` moves a copy of it
to a questionnaire that asks for the identity already, and writes the `template_id` of the
request (`handlers/admin/field.py:388-389`, `models/__init__.py:447-451`), so that an
update with `whistleblower_identity` makes an ordinary field the second one. `instance` is
written as it comes, too: a field that says it is a reference and has no template is
serialized without what is inside of it where templates are not expanded
(`handlers/public.py:437`), and its copy has none of it. The serialization shows levels 0 to
`MAX_SERIALIZATION_DEPTH` (`handlers/public.py:437`); `db_get_tenants_using_voice`, "bounded
by the same cap" (`db/__init__.py:208-210`), walks one level less, so that a voice question
on the very last does not get the microphone. Overlapping changes of parents can make loops
or nest too deep, overlapping creations can make two identity fields.

*Tenants.* A client that goes away cancels its handler: the transaction commits, and the
caches are never told (`rest/api.py:604`). A refresh that overlaps another leaves older
data. A renamed tenant's old name stays in the maps. Two wizards at once both initialise
the tenant. An activation's own refresh is passed an object for an identifier and
refreshes nothing.

*Entry.* The abandoned timer of an overwritten code (`utils/tempdict.py:24`) deletes the
newer entry (`state.py:346-367`), so that a code is accepted twice, against RFC 6238 as
cited in `documentation/technical/security/application-security.rst:65`. A proof dated
furthest in the future is forgotten up to a second before it is stale
(`state.py:116-118`). A rate-limited request runs after its delay with the session it had
before. The eviction of a bucket resets its limit. Redirects drop the query, and the one
from HTTP to HTTPS at the root's name drops the prefix of the tenant, so that the root
answers. An administrator's redirects may lead around for ever: nothing checks them
(`handlers/admin/redirect.py`). With HTTPS on, addresses are redirected to the root's name
even if the root is off the web and nobody answers to it (`rest/api.py:476-482`).

*Certificates.* The name and the key are read before the exchange with the authority, which
takes seconds without the lock, and the certificate is stored after it
(`handlers/admin/https.py:64-87`). A key exchanged meanwhile is left with a certificate of
the other; the job then unloads what is served and loads the pair, which the check of the
map refuses: the tenant is not served until HTTPS is enabled again with a pair that
matches. Deleting a certificate while HTTPS is on empties the cached one, and the
daily check raises there and looks at nobody after it
(`tests/jobs/test_certificate_check.py:36-39` expects it to go on); a tenant activated or
deactivated during the check does so too. A certificate issued at an administrator's
request is not loaded before HTTPS is enabled again or the program restarted. Disabling
HTTPS on the root leaves no default
context, while a reset or a restart loads the self-signed one. A deactivated tenant is not
loaded again when it is taken back. A renewal loads what it renewed over what an
administrator has loaded meanwhile.

*Upgrade.* A stop between the creation and the filling of the database leaves one that no
later start accepts (`db/__init__.py`, `get_db_file` before the `try`). A failed migration
stops the reactor with exit status 0, and the service manager does not restart it
(`debian/globaleaks.service:13`). A script that loses one row and adds another passes the
count. A copy of the old database left by a stop stays until the next migration, as the
daily cleaning cannot remove a directory.

## 8. What is left

* Proofs: `CopyLooksTheSame`.
* Compositions: an abstract report, created once and erased once, that `ReportAccess` and
  `ReportLifecycle` both implement.
* Components: the statuses and their substatuses under changes of the administrator (no
  foreign key ties a report to them); two-factor enrolment; the idle timers of sessions.

## 9. Running

    tlc -workers 2 -config Reports.cfg MCReports.tla
    tlapm ReportAccess_proofs.tla

and likewise for the others; `PROJECT.json` lists the module and the configuration of each
run. The largest runs (`access`, `upkeep`, `requests`, `entry`) take two to three minutes
each on two cores. The proofs of `Entry_proofs` and `Administration_proofs` take about a
quarter of an hour each,
`UserSessions_proofs`, `Requests_proofs` and `ReportAccess_proofs` five to eight minutes,
the others less.

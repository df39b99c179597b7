------------------------------- MODULE Upgrade -------------------------------
(***************************************************************************)
(* A start of the program: the database is read, created, or brought to the *)
(* schema of the code one version at a time in a copy, filled with the data *)
(* of the application and put in place.                                     *)
(*                                                                         *)
(* What is kept of a database is its schema, whether the data of the        *)
(* application are the ones of the code, whether one of its languages is no *)
(* longer supported and how many rows its tables have; the tables are those *)
(* of the users, which the data of the application do not touch.  What the  *)
(* script of a version does to a table is one of Effects: it copies the     *)
(* rows, adds one and says so, loses one or raises an exception.  A script  *)
(* that loses a row and adds another is not told from one that copies,      *)
(* neither here nor by the code.  The machine may stop at any step; sqlite  *)
(* rolls back what was half written when the file is opened, and a rename   *)
(* within a file system is atomic.  A release that changes the schema has a *)
(* version of its own.  Left out: a database of the time before             *)
(* globaleaks.db, which is found and refused, and the option to migrate     *)
(* only.                                                                    *)
(***************************************************************************)
EXTENDS Naturals

CONSTANTS Tables,    \* the tables
          First,     \* the oldest schema the code can read
          Target,    \* the schema of the code
          Lifetime,  \* of each table, the schemas it is part of
          Unchecked, \* the <<version, table>> whose count a script may change
          MaxRows,   \* bound: rows of a table before the upgrade
          MaxStops   \* bound: stops of the machine

UpgradeAssumption ==
    /\ First \in Nat \ {0} /\ Target \in Nat /\ First < Target
    /\ MaxRows \in Nat /\ MaxStops \in Nat
    /\ Lifetime \in [Tables -> SUBSET Nat]

Effects == {"copies", "adds", "loses", "raises"}
Versions == First .. Target - 1

VARIABLES
    script,   \* what the code does to each table at each version
    was,      \* the database before the first start
    db,       \* globaleaks.db
    torn,     \* whether a transaction is half written on it
    tmp,      \* the temporary directory and its files
    pc,       \* what the process is doing
    work,     \* the database under migration
    counts,   \* entries_count of the running script
    todo,     \* the tables still to be migrated to the next schema
    stops     \* stops of the machine so far

vars == <<script, was, db, torn, tmp, pc, work, counts, todo, stops>>

NoRows == [t \in Tables |-> 0]

\* schema 0: the tables are there, and nothing in them
Database == [exists : BOOLEAN, schema : Nat, current : BOOLEAN, language : BOOLEAN, rows : [Tables -> Nat]]

NoDatabase == [exists |-> FALSE, schema |-> 0, current |-> FALSE, language |-> FALSE, rows |-> NoRows]

Half(base) == base.exists /\ base.schema = 0

Exists(t, version) == version \in Lifetime[t]

\* the tables on both sides of a migration
Migrated(version) == {t \in Tables : Exists(t, version) /\ Exists(t, version + 1)}

TypeOK ==
    /\ script \in [Versions -> [Tables -> Effects]]
    /\ was \in Database /\ db \in Database /\ work \in Database
    /\ torn \in BOOLEAN
    /\ tmp \subseteq {"dir", "old", "new"}
    /\ pc \in {"down", "prepare", "open", "migrate", "defaults", "move", "cleanup", "abandon",
               "refresh", "create", "initialize", "tidy", "serving"}
    /\ counts \in [Tables -> Nat] /\ todo \subseteq Tables /\ stops \in Nat

Old(schema) ==
    {[exists |-> TRUE, schema |-> schema, current |-> current, language |-> language, rows |-> rows] :
        current \in {c \in BOOLEAN : c => schema = Target}, language \in BOOLEAN,
        rows \in {r \in [Tables -> 0 .. MaxRows] : \A t \in Tables : Exists(t, schema) \/ r[t] = 0}}

Init ==
    /\ script \in [Versions -> [Tables -> Effects]]
    /\ was \in {NoDatabase} \cup UNION {Old(schema) : schema \in (First - 1 .. Target + 1) \ {0}}
    /\ db = was
    /\ torn \in {FALSE, was.exists}
    /\ tmp = {} /\ pc = "down" /\ work = NoDatabase /\ counts = NoRows /\ todo = {} /\ stops = 0

disk == <<db, torn, tmp>>
migration == <<work, counts, todo>>

\* The first query rolls back what a stop has left half written.
Journal == FALSE

\* get_db_file, and what update_db and deferred_start make of what it finds
Start ==
    /\ pc = "down"
    /\ torn' = Journal
    /\ pc' = IF ~db.exists THEN "create"
             ELSE IF Half(db) \/ db.schema < First THEN "down"
             ELSE IF db.schema = Target THEN "refresh" ELSE "prepare"
    /\ UNCHANGED <<script, was, db, tmp, migration, stops>>

\* Mutant: the directory a stop has left is not removed.
MutEmptied(files) == files

\* rmtree of the temporary directory
Emptied(files) == {}

\* what a copy of a file without its journal may hold
Copies(base) == IF torn THEN {[base EXCEPT !.rows = NoRows], base} ELSE {base}

\* perform_migration: the file is copied into a directory made anew.
Prepare ==
    /\ pc = "prepare"
    /\ IF "dir" \in Emptied(tmp)
       THEN pc' = "down" /\ UNCHANGED <<tmp, work>>
       ELSE /\ tmp' = {"dir", "old"}
            /\ work' \in Copies(db)
            /\ pc' = IF db.schema < Target THEN "open" ELSE "defaults"
    /\ UNCHANGED <<script, was, db, torn, counts, todo, stops>>

\* The tables of the next schema are created, in a file if it is the last one,
\* and the entries of the ones to migrate are counted.
Open ==
    /\ pc = "open"
    /\ LET entries == [t \in Tables |-> IF t \in Migrated(work.schema) THEN work.rows[t] ELSE 0]
       IN counts' = entries /\ work' = [work EXCEPT !.rows = entries]
    /\ todo' = Migrated(work.schema)
    /\ tmp' = IF work.schema = Target - 1 THEN tmp \cup {"new"} ELSE tmp
    /\ pc' = "migrate"
    /\ UNCHANGED <<script, was, db, torn, stops>>

\* migrate_model: an empty table is left alone.
MigrateTable ==
    /\ pc = "migrate"
    /\ \E t \in todo :
         LET effect == IF counts[t] = 0 THEN "copies" ELSE script[work.schema][t]
             added == IF effect = "adds" THEN 1 ELSE 0
             lost == IF effect = "loses" THEN 1 ELSE 0
         IN /\ todo' = todo \ {t}
            /\ work' = [work EXCEPT !.rows[t] = @ + added - lost]
            /\ counts' = [counts EXCEPT ![t] = @ + added]
            /\ pc' = IF effect = "raises" THEN "abandon" ELSE "migrate"
    /\ UNCHANGED <<script, was, disk, stops>>

\* Mutant: only rows too many are noticed.
MutMiscounted ==
    {t \in Migrated(work.schema) : work.rows[t] > counts[t] /\ <<work.schema, t>> \notin Unchecked}

\* The tables that do not have the rows accounted for
Miscounted ==
    {t \in Migrated(work.schema) : work.rows[t] # counts[t] /\ <<work.schema, t>> \notin Unchecked}

\* The integrity check
Check ==
    /\ pc = "migrate" /\ todo = {}
    /\ IF Miscounted # {}
       THEN pc' = "abandon" /\ UNCHANGED work
       ELSE /\ work' = [work EXCEPT !.schema = @ + 1]
            /\ pc' = IF work.schema + 1 = Target THEN "defaults" ELSE "open"
    /\ UNCHANGED <<script, was, disk, counts, todo, stops>>

\* perform_data_update of the migrated file; of an empty one, when the
\* database is newer than the code
Defaults ==
    /\ pc = "defaults"
    /\ tmp' = tmp \cup {"new"}
    /\ IF "new" \notin tmp \/ work.language
       THEN pc' = "abandon" /\ UNCHANGED work
       ELSE pc' = "move" /\ work' = [work EXCEPT !.current = TRUE]
    /\ UNCHANGED <<script, was, db, torn, counts, todo, stops>>

\* The new file takes the place of the old one.
Move ==
    /\ pc = "move"
    /\ db' = work
    /\ tmp' = tmp \ {"new"}
    /\ pc' = "cleanup"
    /\ UNCHANGED <<script, was, torn, migration, stops>>

\* The files are removed one by one, then the directory, however it went.
Cleanup ==
    /\ pc \in {"cleanup", "abandon"}
    /\ \/ \E f \in tmp \ {"dir"} : tmp' = tmp \ {f} /\ UNCHANGED pc
       \/ /\ tmp \subseteq {"dir"}
          /\ tmp' = {}
          /\ pc' = IF pc = "cleanup" THEN "tidy" ELSE "down"
    /\ UNCHANGED <<script, was, db, torn, migration, stops>>

\* perform_data_update of a database that has the schema already: one
\* transaction, and a compaction
Refresh ==
    /\ pc = "refresh"
    /\ IF db.language
       THEN pc' = "down" /\ UNCHANGED db
       ELSE pc' = "tidy" /\ db' = [db EXCEPT !.current = TRUE]
    /\ UNCHANGED <<script, was, torn, tmp, migration, stops>>

\* create_db, then initialize_db in a transaction
Create ==
    /\ pc = "create"
    /\ db' = [NoDatabase EXCEPT !.exists = TRUE]
    /\ pc' = "initialize"
    /\ UNCHANGED <<script, was, torn, tmp, migration, stops>>

Initialize ==
    /\ pc = "initialize"
    /\ db' = [db EXCEPT !.schema = Target, !.current = TRUE]
    /\ pc' = "serving"
    /\ UNCHANGED <<script, was, torn, tmp, migration, stops>>

\* The files no row refers to are removed, the caches filled, the jobs started.
Tidy ==
    /\ pc = "tidy"
    /\ pc' = "serving"
    /\ UNCHANGED <<script, was, disk, migration, stops>>

\* The machine stops, perhaps while the database is being written.
Stop ==
    /\ pc # "down" /\ stops < MaxStops
    /\ stops' = stops + 1
    /\ pc' = "down"
    /\ torn' \in {torn, (pc \in {"refresh", "initialize", "tidy", "serving"})}
    /\ work' = NoDatabase /\ counts' = NoRows /\ todo' = {}
    /\ UNCHANGED <<script, was, db, tmp>>

Run == Start \/ Prepare \/ Open \/ MigrateTable \/ Check \/ Defaults \/ Move \/ Cleanup
         \/ Refresh \/ Create \/ Initialize \/ Tidy

Next == Run \/ Stop

Spec == Init /\ [][Next]_vars

\* A started program goes on, and is started again after a stop or a failure.
FairSpec == Spec /\ WF_vars(Run)

-----------------------------------------------------------------------------
\* The tables whose count is checked all the way from the first schema
Watched ==
    {t \in Tables : \A v \in was.schema .. Target - 1 :
        t \in Migrated(v) /\ <<v, t>> \notin Unchecked}

\* The file is the database as it was before, or the whole of the migrated one,
\* with no fewer rows in the tables whose counts are checked; what is served has
\* the schema and the data of the code (perform_migration, update_db).
UpgradedAsAWhole ==
    /\ was.exists /\ db.schema = was.schema => db.exists /\ db.rows = was.rows
    /\ was.exists /\ db.schema # was.schema =>
         /\ db.exists /\ db.schema = Target /\ db.current
         /\ \A t \in Watched : db.rows[t] >= was.rows[t]
    /\ pc = "serving" => db.exists /\ db.schema = Target /\ db.current

\* What the code can upgrade: a known schema, no script that fails or loses rows
\* of a checked table, no language that is gone
Upgradable ==
    /\ was.schema \in {0} \cup (First .. Target) /\ ~was.language
    /\ \A v \in Versions : v >= was.schema => \A t \in Migrated(v) :
         script[v][t] \in {"copies", "adds"} \/ (script[v][t] = "loses" /\ <<v, t>> \in Unchecked)

\* Whatever stops the machine, the program comes up in the end, however often it
\* is started: unless it was stopped while it created the database, which is then
\* found without the version it is looked up by (deferred_start, get_db_file).
ComesUp == Upgradable => []<>(pc = "serving" \/ Half(db))

=============================================================================

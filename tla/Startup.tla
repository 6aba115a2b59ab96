------------------------------ MODULE Startup ------------------------------
(***************************************************************************)
(* Instances that start, serve and stop on one database: cmd/server/main.go *)
(* with the configuration, the connection pool, the migrations and their   *)
(* advisory lock, the accounts taken over from the configuration, and the  *)
(* loops that must be done with the pool before it is closed.              *)
(*                                                                         *)
(* An instance runs one command, serve or migrate up or down, from its     *)
(* configuration file.  It may die at any moment, and be started again.    *)
(***************************************************************************)
EXTENDS Naturals, FiniteSets

CONSTANTS
    Instances,      \* processes of the application
    Loops,          \* worker loops of the scheduler
    Files,          \* configuration files, as written
    Codes,          \* account codes
    Tables,         \* account tables an earlier deployment may have left
    DefaultOpen,    \* max_open_conns when the file has none
    DefaultIdle,    \* max_idle_conns when the file has none
    Latest,         \* number of embedded migrations
    NULL            \* the category of a code that has no row

\* The migrations that concern social_accounts: 1 creates the table, 2 its
\* unique index on the category of active accounts.
AccountsTable == 1
CategoryIndex == 2

ASSUME StartupAssumption ==
    /\ DefaultOpen \in Nat /\ DefaultIdle \in Nat
    /\ Latest \in Nat /\ Latest >= CategoryIndex
    /\ \A f \in Files : f.open \in Nat /\ f.idle \in Nat
    /\ \A f \in Files : \A a \in f.accounts : a.code \in Codes /\ a.category # NULL

VARIABLES
    file,           \* the configuration file of an instance
    schema,         \* the migrations applied to the database
    category,       \* social_accounts: the category by code ...
    active,         \* ... and the codes with is_active
    locker,         \* the instances that hold the advisory lock
    proc            \* what an instance is doing, see Process

vars == <<file, schema, category, active, locker, proc>>
Local == UNCHANGED <<file, schema, category, active>>

Commands == {"serve", "up", "down"}
Starting == {"connect", "lock", "version", "goose", "unlock", "sync",
             "deactivate", "upsert"}
Serving  == {"serving", "draining"}

NoLoops == [l \in Loops |-> "off"]

\* No process: exited with or without an error, killed, or never started.
Off == [pc |-> "off", command |-> "serve", at |-> 0, snap |-> {}, loops |-> NoLoops]

\* An instance has the command it runs, the schema version goose goes by, the
\* account rows its UPDATE saw as active, and its worker loops.
Process ==
    [pc : {"off"} \cup Starting \cup Serving, command : Commands, at : 0 .. Latest,
     snap : SUBSET Codes, loops : [Loops -> {"off", "waiting", "running"}]]

TypeOK ==
    /\ file \in [Instances -> Files]
    /\ schema \in 0 .. Latest
    /\ active \in SUBSET {c \in Codes : category[c] # NULL}
    /\ locker \in SUBSET Instances
    /\ proc \in [Instances -> Process]

OnePer(table, codes) ==
    \A c, d \in codes : table[c] = table[d] => c = d

\* No account has a row, or there is no table.
NoAccounts == \A c \in Codes : category[c] = NULL

\* A database at any version, as earlier deployments left it.
Init ==
    /\ file \in [Instances -> Files]
    /\ schema \in 0 .. Latest
    /\ category \in Tables
    /\ active \in SUBSET {c \in Codes : category[c] # NULL}
    /\ schema < AccountsTable => NoAccounts
    /\ schema >= CategoryIndex => OnePer(category, active)
    /\ locker = {}
    /\ proc = [i \in Instances |-> Off]

At(i, label) == proc[i].pc = label
Goto(i, label) == proc' = [proc EXCEPT ![i].pc = label]
Exit(i) == proc' = [proc EXCEPT ![i] = Off]

-----------------------------------------------------------------------------
(* config.Load, and from the command line to the lock.                     *)

Or(n, default) == IF n = 0 THEN default ELSE n

\* applyDefaults: an unset number is zero.
Open(f) == Or(f.open, DefaultOpen)
Idle(f) == Or(f.idle, DefaultIdle)

PoolFits(f) == Open(f) >= 1 /\ Idle(f) <= Open(f)

\* Codes and categories of accounts are unique, and the categories are pulled.
AccountsFit(f) ==
    /\ f.accounts # {}
    /\ \A a, b \in f.accounts : a.code = b.code \/ a.category = b.category => a = b
    /\ {a.category : a \in f.accounts} \subseteq f.categories

\* validate, as far as anything later depends on it.
Valid(f) == PoolFits(f) /\ AccountsFit(f)

AccountCodes(f) == {a.code : a \in f.accounts}

\* A file that does not load ends the process at once.
Start(i) ==
    /\ At(i, "off")
    /\ Valid(file[i])
    /\ \E c \in Commands :
          proc' = [proc EXCEPT ![i].pc = "connect", ![i].command = c]
    /\ Local /\ UNCHANGED locker

\* Connect, then migrationLock takes a connection of the pool; serve may be
\* configured to leave the migrations alone.
Connect(i) ==
    /\ At(i, "connect")
    /\ \/ Goto(i, "lock")
       \/ proc[i].command = "serve" /\ Goto(i, "sync")
       \/ Exit(i)
    /\ Local /\ UNCHANGED locker

\* A defect: the lock is asked for, but nobody waits for it.
AcquireLockTry(i) ==
    /\ At(i, "lock")
    /\ locker' = locker \cup {i}
    /\ Goto(i, "version")
    /\ Local

\* pg_advisory_lock: held by the session of that one connection.
AcquireLock(i) ==
    /\ At(i, "lock")
    /\ locker = {}
    /\ locker' = {i}
    /\ Goto(i, "version")
    /\ Local

-----------------------------------------------------------------------------
(* goose.Up and goose.Down: their statements take another connection.      *)

\* With the lock's connection in use, is there another one in the pool?
FreeConnection(i) == Open(file[i]) > 1

ReadVersion(i) ==
    /\ At(i, "version")
    /\ FreeConnection(i)
    /\ proc' = [proc EXCEPT ![i].pc = "goose", ![i].at = schema]
    /\ Local /\ UNCHANGED locker

\* Changing social_accounts takes its exclusive lock, which waits for every
\* transaction that has touched the table.
TableFree == \A i \in Instances : proc[i].pc \notin {"deactivate", "upsert"}

\* One active account of every category is kept (the first by id).
Deduplicated ==
    /\ active' \in SUBSET active
    /\ OnePer(category, active')
    /\ {category[c] : c \in active'} = {category[c] : c \in active}

\* What the n-th migration does to the accounts, ...
MigrationUp(n) ==
    /\ UNCHANGED category
    /\ IF n = CategoryIndex THEN TableFree /\ Deduplicated ELSE UNCHANGED active

\* ... and its Down: the table is dropped, or only the index.
MigrationDown(n) ==
    /\ n <= CategoryIndex => TableFree
    /\ IF n = AccountsTable
       THEN category' = [c \in Codes |-> NULL] /\ active' = {}
       ELSE UNCHANGED <<category, active>>

\* A defect: one migration too many.
ApplyMigrationPast(i) ==
    /\ At(i, "goose")
    /\ proc[i].command # "down"
    /\ MigrationUp(proc[i].at + 1)
    /\ schema' = proc[i].at + 1
    /\ proc' = [proc EXCEPT ![i].at = @ + 1]
    /\ UNCHANGED <<file, locker>>

\* One migration, in its own transaction, after the ones known as applied.
ApplyMigration(i) ==
    /\ At(i, "goose")
    /\ proc[i].command # "down"
    /\ proc[i].at < Latest
    /\ MigrationUp(proc[i].at + 1)
    /\ schema' = proc[i].at + 1
    /\ proc' = [proc EXCEPT ![i].at = @ + 1]
    /\ UNCHANGED <<file, locker>>

\* The last one, whoever serves meanwhile.
RollBack(i) ==
    /\ At(i, "goose")
    /\ proc[i].command = "down"
    /\ proc[i].at > 0
    /\ MigrationDown(proc[i].at)
    /\ schema' = proc[i].at - 1
    /\ Goto(i, "unlock")
    /\ UNCHANGED <<file, locker>>

\* Nothing is left to do?
Done(i) ==
    \/ At(i, "unlock")
    \/ At(i, "goose") /\ proc[i].at = IF proc[i].command = "down" THEN 0 ELSE Latest

\* A defect: the lock is given back only when all went well.
MigratedUnlocks(i) ==
    /\ proc[i].pc \in {"goose", "unlock"}
    /\ \/ /\ Done(i)
          /\ locker' = locker \ {i}
          /\ IF proc[i].command = "serve" THEN Goto(i, "sync") ELSE Exit(i)
       \/ Exit(i) /\ UNCHANGED locker
    /\ Local

\* Only serve goes on, after a success; a failed statement ends the process.
\* The lock is given back either way.
Migrated(i) ==
    /\ proc[i].pc \in {"goose", "unlock"}
    /\ \/ Done(i) /\ IF proc[i].command = "serve" THEN Goto(i, "sync") ELSE Exit(i)
       \/ Exit(i)
    /\ locker' = locker \ {i}
    /\ Local

-----------------------------------------------------------------------------
(* SyncFromConfig, one transaction at READ COMMITTED.                      *)

\* The UPDATE takes its snapshot of the active rows, if there is a table.
BeginSync(i) ==
    /\ At(i, "sync")
    /\ schema >= AccountsTable
    /\ proc' = [proc EXCEPT ![i].pc = "deactivate", ![i].snap = active]
    /\ Local /\ UNCHANGED locker

\* Does another transaction hold one of the rows?
Locked(i, rows) ==
    \E j \in Instances \ {i} : At(j, "upsert") /\ proc[j].snap \cap rows # {}

\* It waits for every row another transaction holds, then has it deactivated.
Deactivate(i) ==
    /\ At(i, "deactivate")
    /\ ~Locked(i, proc[i].snap)
    /\ Goto(i, "upsert")
    /\ Local /\ UNCHANGED locker

\* The category by code once the accounts of f are upserted.
Upserted(f) ==
    [c \in Codes |-> IF c \in AccountCodes(f)
                     THEN (CHOOSE a \in f.accounts : a.code = c).category
                     ELSE category[c]]

\* Every loop of the scheduler starts, or none when it is disabled.
Serve(i) ==
    \E s \in {"off", "waiting"} :
       proc' = [proc EXCEPT ![i] =
                   [Off EXCEPT !.pc = "serving", !.loops = [l \in Loops |-> s]]]

\* A defect: the accounts of an older configuration stay active.
CommitSyncAdding(i) ==
    /\ At(i, "upsert")
    /\ ~Locked(i, AccountCodes(file[i]))
    /\ category' = Upserted(file[i])
    /\ active' = active \cup AccountCodes(file[i])
    /\ schema >= CategoryIndex => OnePer(category', active')
    /\ Serve(i)
    /\ UNCHANGED <<file, schema, locker>>

\* The configured accounts are upserted, under the unique index if the schema
\* has it, and the transaction commits; with the rest of the wiring done, the
\* loops and the HTTP server start.
CommitSync(i) ==
    /\ At(i, "upsert")
    /\ ~Locked(i, AccountCodes(file[i]))
    /\ category' = Upserted(file[i])
    /\ active' = (active \ proc[i].snap) \cup AccountCodes(file[i])
    /\ schema >= CategoryIndex => OnePer(category', active')
    /\ Serve(i)
    /\ UNCHANGED <<file, schema, locker>>

\* There is no table, an account another instance activated meanwhile has the
\* same category, two transactions wait for each other, or any other failure:
\* rolled back.
SyncFails(i) ==
    /\ proc[i].pc \in {"sync", "deactivate", "upsert"}
    /\ Exit(i)
    /\ Local /\ UNCHANGED locker

-----------------------------------------------------------------------------
(* The loops, and the end of an instance.                                  *)

SetLoop(i, l, from, to) ==
    /\ proc[i].loops[l] = from
    /\ proc' = [proc EXCEPT ![i].loops[l] = to]
    /\ Local /\ UNCHANGED locker

\* A tick.  After a cancellation the select may still prefer a pending one.
Tick(i, l) == SetLoop(i, l, "waiting", "running")

\* The job returns, or panics and is recovered.
JobReturns(i, l) == SetLoop(i, l, "running", "waiting")

\* A defect: the select of the loop has no case for its context.
LoopEndsDeaf(i, l) == FALSE /\ SetLoop(i, l, "waiting", "off")

LoopEnds(i, l) == At(i, "draining") /\ SetLoop(i, l, "waiting", "off")

\* SIGINT or SIGTERM cancels the context of the loops.
Signal(i) ==
    /\ At(i, "serving")
    /\ Goto(i, "draining")
    /\ Local /\ UNCHANGED locker

\* The HTTP server is down, Wait returned, the deferred Close runs.
Close(i) ==
    /\ At(i, "draining")
    /\ \A l \in Loops : proc[i].loops[l] = "off"
    /\ Exit(i)
    /\ Local /\ UNCHANGED locker

\* The process is gone, with its session, its transaction and its loops:
\* killed, or returning from main after the HTTP server could not listen.
Die(i) ==
    /\ ~At(i, "off")
    /\ Exit(i)
    /\ locker' = locker \ {i}
    /\ Local

MigrateStep(i) == ReadVersion(i) \/ ApplyMigration(i) \/ RollBack(i) \/ Migrated(i)
SyncStep(i)    == BeginSync(i) \/ Deactivate(i) \/ CommitSync(i) \/ SyncFails(i)

Next ==
    \E i \in Instances :
       \/ Start(i) \/ Connect(i) \/ AcquireLock(i)
       \/ MigrateStep(i) \/ SyncStep(i)
       \/ \E l \in Loops : Tick(i, l) \/ JobReturns(i, l) \/ LoopEnds(i, l)
       \/ Signal(i) \/ Close(i) \/ Die(i)

Spec == Init /\ [][Next]_vars

\* Calls return, Postgres grants the lock in the order it was asked for, and
\* a cancelled select does not prefer the ticker for ever.  Nobody owes a
\* start or a signal.
Fairness ==
    \A i \in Instances :
       /\ WF_vars(Connect(i) \/ MigrateStep(i) \/ SyncStep(i) \/ Close(i))
       /\ SF_vars(AcquireLock(i))
       /\ \A l \in Loops : WF_vars(JobReturns(i, l)) /\ SF_vars(LoopEnds(i, l))

FairSpec == Spec /\ Fairness

-----------------------------------------------------------------------------
(* Properties.                                                             *)

\* Instances that start together migrate one after the other: whoever runs
\* goose holds the lock alone, and the version it goes by is still the
\* database's (migrationLock).
OneMigrator ==
    \A i \in Instances : proc[i].pc \in {"version", "goose", "unlock"} =>
        /\ locker = {i}
        /\ At(i, "goose") => proc[i].at = schema

\* With instances of one configuration the active accounts are the configured
\* ones while anybody serves, however their starts overlap, whatever an
\* earlier deployment left, and whatever migrates up or down meanwhile, unless
\* a roll back dropped the table and no instance has started since.  And from
\* the schema of the index on never two are of one category, whatever the
\* configurations (SyncFromConfig: "config remains the source of truth").
InService ==
    /\ schema >= CategoryIndex => OnePer(category, active)
    /\ \A i \in Instances :
          /\ proc[i].pc \in Serving
          /\ \A j \in Instances : file[j].accounts = file[i].accounts
          => active = AccountCodes(file[i]) \/ NoAccounts

\* With two connections in every pool every start ends, in service or with
\* an error.  With one, goose waits for the connection the lock holds, and
\* every later instance for the lock.
StartsUp ==
    (\A i \in Instances : FreeConnection(i)) =>
        \A i \in Instances : proc[i].pc \in Starting ~> proc[i].pc \notin Starting

\* An instance told to stop does: its loops finish their jobs and leave, and
\* only then is the pool closed.
StopsWhenTold == \A i \in Instances : At(i, "draining") ~> ~At(i, "draining")
=============================================================================

---------------------------- MODULE StartupProofs ----------------------------
(***************************************************************************)
(* Instances that start together, for any number of them and of accounts.  *)
(*                                                                         *)
(* The lock is held by who is past AcquireLock and before Migrated         *)
(* (LockHeld), so nobody else moves the schema meanwhile.  With one set of *)
(* accounts, a transaction of SyncFromConfig either still deactivates      *)
(* every active row or finds the configured accounts in place (Covered),   *)
(* and what is in place when somebody serves has one account per category  *)
(* (InPlace), so that the migration which creates the index on it finds    *)
(* nothing to deactivate.  Migrations that change the accounts wait until  *)
(* no such transaction is open.                                            *)
(***************************************************************************)
EXTENDS Startup, TLAPS

USE StartupAssumption

Migrating == {"version", "goose", "unlock"}

LockHeld == \A i \in Instances : i \in locker <=> proc[i].pc \in Migrating

SameAccounts == \A i, j \in Instances : file[i].accounts = file[j].accounts

Covered ==
    \A i \in Instances :
        proc[i].pc \in {"deactivate", "upsert"} =>
            active \subseteq proc[i].snap \/ active = AccountCodes(file[i])

\* Nobody runs on accounts that do not fit together.
Checked == \A i \in Instances : proc[i].pc # "off" => AccountsFit(file[i])

Indexed == schema >= CategoryIndex => OnePer(category, active)

InPlace ==
    \A i \in Instances :
        proc[i].pc \in Serving =>
            \/ active = AccountCodes(file[i]) /\ OnePer(category, active)
            \/ NoAccounts

Inv ==
    /\ TypeOK
    /\ LockHeld /\ OneMigrator
    /\ Checked
    /\ Indexed
    /\ SameAccounts => InPlace /\ Covered

\* Only i moves.
Alone(i) == \A j \in Instances \ {i} : proc'[j] = proc[j]

-----------------------------------------------------------------------------
(* Helpers.                                                                *)

LEMMA OffType == Off \in Process /\ Off.pc = "off"
BY DEF Off, Process, NoLoops, Commands

LEMMA ExitEffect ==
    ASSUME TypeOK, NEW i \in Instances, Exit(i)
    PROVE  proc' \in [Instances -> Process] /\ proc'[i].pc = "off" /\ Alone(i)
BY OffType DEF TypeOK, Exit, Alone

LEMMA GotoEffect ==
    ASSUME TypeOK, NEW i \in Instances, NEW label \in {"off"} \cup Starting \cup Serving,
           Goto(i, label)
    PROVE  /\ proc' \in [Instances -> Process] /\ Alone(i)
           /\ proc'[i].pc = label /\ proc'[i].at = proc[i].at /\ proc'[i].snap = proc[i].snap
BY DEF TypeOK, Goto, Alone, Process

\* A step that does not touch the accounts, the schema or the lock.
LEMMA LocalInv ==
    ASSUME Inv, NEW i \in Instances, Local, UNCHANGED locker, Alone(i),
           proc' \in [Instances -> Process],
           proc'[i].pc # "off" => proc[i].pc # "off" \/ AccountsFit(file[i]),
           proc'[i].pc \in Migrating <=> proc[i].pc \in Migrating,
           proc'[i].pc = "goose" => proc'[i].at = schema,
           proc'[i].pc \in Serving => proc[i].pc \in Serving,
           proc'[i].pc \in {"deactivate", "upsert"} =>
              \/ active \subseteq proc'[i].snap
              \/ proc[i].pc \in {"deactivate", "upsert"} /\ proc'[i].snap = proc[i].snap
    PROVE  Inv'
<1>1. TypeOK'
  BY DEF Inv, TypeOK, Local
<1>2. (LockHeld /\ OneMigrator)'
  BY DEF Inv, LockHeld, OneMigrator, Local, Alone, At, Migrating
<1>3. Indexed'
  BY DEF Inv, Indexed, OnePer, Local
<1>4. Checked'
  BY DEF Inv, Checked, Local, Alone, AccountsFit
<1>5. (SameAccounts => InPlace /\ Covered)'
  <2>1. SUFFICES ASSUME SameAccounts PROVE (InPlace /\ Covered)'
    BY DEF SameAccounts, Local
  <2>2. InPlace'
    BY <2>1 DEF Inv, InPlace, Local, Alone, AccountCodes, OnePer, NoAccounts
  <2>3. Covered'
    BY <2>1 DEF Inv, Covered, Local, Alone, AccountCodes
  <2>4. QED
    BY <2>2, <2>3
<1>6. QED
  BY <1>1, <1>2, <1>3, <1>4, <1>5 DEF Inv

\* A step of the one that holds the lock, or takes it, or leaves: the accounts
\* stay, or are changed by a migration.
LEMMA LockInv ==
    ASSUME Inv, NEW i \in Instances, UNCHANGED file, Alone(i),
           schema' \in 0 .. Latest, proc' \in [Instances -> Process],
           active' \in SUBSET {c \in Codes : category'[c] # NULL},
           Indexed',
           \/ UNCHANGED <<category, active>>
           \/ TableFree /\ UNCHANGED category /\ Deduplicated
           \/ TableFree /\ NoAccounts',
           \/ proc'[i].pc \in Migrating /\ locker' = {i} /\ locker \subseteq {i}
           \/ proc'[i].pc \notin Migrating /\ locker' = locker \ {i},
           schema' # schema => locker = {i},
           proc[i].pc # "off" \/ proc'[i].pc = "off",
           proc'[i].pc = "goose" => proc'[i].at = schema',
           proc'[i].pc \in Serving => proc[i].pc \in Serving,
           proc'[i].pc \notin {"deactivate", "upsert"}
    PROVE  Inv'
<1>1. TypeOK'
  BY DEF Inv, TypeOK
<1>2. LockHeld'
  BY DEF Inv, LockHeld, Alone
<1>3. OneMigrator'
  <2>1. ASSUME NEW j \in Instances, proc'[j].pc \in Migrating
        PROVE  locker' = {j} /\ (proc'[j].pc = "goose" => proc'[j].at = schema')
    <3>1. CASE j = i
      BY <2>1, <3>1
    <3>2. CASE j # i
      <4>1. proc'[j] = proc[j] /\ locker = {j} /\ j \in locker'
        BY <1>2, <2>1, <3>2 DEF Inv, OneMigrator, LockHeld, Alone, Migrating
      <4>2. locker' = {j} /\ schema' = schema
        BY <3>2, <4>1
      <4>3. QED
        BY <2>1, <4>1, <4>2 DEF Inv, OneMigrator, At, Migrating
    <3>3. QED
      BY <3>1, <3>2
  <2>2. QED
    BY <2>1 DEF OneMigrator, At, Migrating
<1>4. Checked'
  BY DEF Inv, Checked, Alone, AccountsFit
<1>5. (SameAccounts => InPlace /\ Covered)'
  <2>1. SUFFICES ASSUME SameAccounts PROVE (InPlace /\ Covered)'
    BY DEF SameAccounts
  <2>2. ASSUME NEW j \in Instances, proc'[j].pc \in Serving
        PROVE  \/ active' = AccountCodes(file'[j]) /\ OnePer(category', active')
               \/ NoAccounts'
    <3>1. proc[j].pc \in Serving
      BY <2>2 DEF Alone
    <3>2. \/ active = AccountCodes(file[j]) /\ OnePer(category, active)
          \/ NoAccounts
      BY <2>1, <3>1 DEF Inv, InPlace
    <3>3. CASE UNCHANGED <<category, active>>
      BY <3>2, <3>3 DEF AccountCodes, OnePer, NoAccounts
    <3>4. CASE UNCHANGED category /\ Deduplicated
      <4>1. CASE NoAccounts
        BY <3>4, <4>1 DEF NoAccounts
      <4>2. CASE active = AccountCodes(file[j]) /\ OnePer(category, active)
        <5>1. ASSUME NEW c \in active PROVE c \in active'
          <6>1. PICK d \in active' : category[d] = category[c]
            BY <3>4 DEF Deduplicated
          <6>2. d = c
            BY <3>4, <4>2, <6>1 DEF Deduplicated, OnePer
          <6>3. QED
            BY <6>1, <6>2
        <5>2. active' = active
          BY <3>4, <5>1 DEF Deduplicated
        <5>3. QED
          BY <3>4, <4>2, <5>2 DEF AccountCodes, OnePer
      <4>3. QED
        BY <3>2, <4>1, <4>2
    <3>5. QED
      BY <3>3, <3>4
  <2>3. InPlace'
    BY <2>2 DEF InPlace
  <2>4. Covered'
    <3>1. CASE UNCHANGED <<category, active>>
      BY <2>1, <3>1 DEF Inv, Covered, Alone, AccountCodes
    <3>2. CASE TableFree
      BY <3>2 DEF Covered, TableFree, Alone
    <3>3. QED
      BY <3>1, <3>2
  <2>5. QED
    BY <2>3, <2>4
<1>6. QED
  BY <1>1, <1>2, <1>3, <1>4, <1>5 DEF Inv

-----------------------------------------------------------------------------
(* The steps.                                                              *)

LEMMA StartInv ==
    ASSUME Inv, NEW i \in Instances, Start(i) \/ Connect(i)
    PROVE  Inv'
<1>0. TypeOK /\ proc[i].pc \in {"off", "connect"} /\ Local /\ UNCHANGED locker
  BY DEF Inv, Start, Connect, At
<1>1. CASE Start(i)
  <2>1. PICK c \in Commands :
           proc' = [proc EXCEPT ![i].pc = "connect", ![i].command = c]
    BY <1>1 DEF Start
  <2>2. proc' \in [Instances -> Process] /\ proc'[i].pc = "connect" /\ Alone(i)
    BY <1>0, <2>1 DEF TypeOK, Process, Alone, Starting
  <2>3. proc[i].pc = "off" /\ AccountsFit(file[i])
    BY <1>1 DEF Start, At, Valid
  <2>4. QED
    BY <1>0, <2>2, <2>3, LocalInv DEF Migrating, Serving
<1>2. ASSUME NEW label \in {"lock", "sync"}, At(i, "connect"), Goto(i, label)
      PROVE  Inv'
  BY <1>0, <1>2, GotoEffect, LocalInv DEF At, Migrating, Starting, Serving
<1>3. CASE Exit(i)
  BY <1>0, <1>3, ExitEffect, LocalInv DEF Migrating, Serving
<1>4. QED
  BY <1>1, <1>2, <1>3 DEF Connect

LEMMA AcquireLockInv ==
    ASSUME Inv, NEW i \in Instances, AcquireLock(i)
    PROVE  Inv'
<1>1. TypeOK /\ Goto(i, "version") /\ locker = {} /\ locker' = {i} /\ Local
  BY DEF Inv, AcquireLock
<1>2. Indexed' /\ proc[i].pc # "off"
  BY <1>1 DEF Inv, Indexed, OnePer, Local, AcquireLock, At
<1>3. QED
  BY <1>1, <1>2, GotoEffect, LockInv DEF Local, TypeOK, Migrating, Starting, Serving

LEMMA MigrateStepInv ==
    ASSUME Inv, NEW i \in Instances, MigrateStep(i)
    PROVE  Inv'
<1>0. /\ TypeOK /\ proc[i].pc \in Migrating /\ locker = {i}
      /\ At(i, "goose") => proc[i].at = schema
  BY DEF Inv, OneMigrator, MigrateStep, ReadVersion, ApplyMigration, RollBack, Migrated, At,
         Migrating
<1>1. CASE ReadVersion(i)
  <2>1. /\ proc' \in [Instances -> Process] /\ Alone(i)
        /\ proc'[i].pc = "goose" /\ proc'[i].at = schema
    BY <1>0, <1>1 DEF ReadVersion, TypeOK, Process, Alone, Starting
  <2>2. Indexed'
    BY <1>1 DEF Inv, Indexed, OnePer, ReadVersion, Local
  <2>3. QED
    BY <1>0, <1>1, <2>1, <2>2, LockInv DEF ReadVersion, Local, TypeOK, Migrating, Serving
<1>2. CASE ApplyMigration(i)
  <2>1. proc[i].at \in 0 .. Latest /\ proc[i].at < Latest /\ schema' = proc[i].at + 1
    BY <1>0, <1>2 DEF ApplyMigration, TypeOK, Process
  <2> DEFINE n == proc[i].at + 1
  <2>2. /\ n \in 0 .. Latest /\ schema' = n /\ schema = n - 1 /\ proc[i].pc = "goose"
        /\ MigrationUp(n) /\ UNCHANGED <<file, locker>>
    BY <1>0, <1>2, <2>1 DEF ApplyMigration, At
  <2>3. proc' = [proc EXCEPT ![i].at = n]
    BY <1>2 DEF ApplyMigration
  <2> HIDE DEF n
  <2>4. /\ proc' \in [Instances -> Process] /\ Alone(i)
        /\ proc'[i].pc = "goose" /\ proc'[i].at = n
    BY <1>0, <2>2, <2>3 DEF TypeOK, Process, Alone
  <2>5. /\ UNCHANGED category /\ active' \in SUBSET active
        /\ UNCHANGED active \/ (TableFree /\ Deduplicated)
    <3>1. CASE n = CategoryIndex
      <4>1. UNCHANGED category /\ TableFree /\ Deduplicated
        BY <2>2, <3>1 DEF MigrationUp
      <4>2. active' \in SUBSET active
        BY <4>1 DEF Deduplicated
      <4>3. QED
        BY <4>1, <4>2
    <3>2. CASE n # CategoryIndex
      <4>1. UNCHANGED <<category, active>>
        BY <2>2, <3>2 DEF MigrationUp
      <4>2. QED
        BY <4>1
    <3>3. QED
      BY <3>1, <3>2
  <2>6. Indexed'
    <3>1. CASE n = CategoryIndex
      BY <2>2, <3>1 DEF Indexed, MigrationUp, Deduplicated, OnePer
    <3>2. CASE n # CategoryIndex
      BY <2>2, <3>2 DEF Inv, Indexed, MigrationUp, OnePer, CategoryIndex
    <3>3. QED
      BY <3>1, <3>2
  <2>7. active' \in SUBSET {c \in Codes : category'[c] # NULL}
    BY <1>0, <2>5 DEF TypeOK
  <2>8. QED
    BY <1>0, <2>2, <2>4, <2>5, <2>6, <2>7, LockInv DEF Migrating, Serving
<1>3. CASE RollBack(i)
  <2> DEFINE n == proc[i].at
  <2>1. /\ n \in 0 .. Latest /\ n > 0 /\ schema = n /\ schema' = n - 1
        /\ MigrationDown(n) /\ UNCHANGED <<file, locker>> /\ Goto(i, "unlock")
    BY <1>0, <1>3 DEF RollBack, TypeOK, Process
  <2> HIDE DEF n
  <2>2. \/ UNCHANGED <<category, active>>
        \/ /\ n = AccountsTable /\ TableFree /\ active' = {}
           /\ category' = [c \in Codes |-> NULL]
    BY <2>1 DEF MigrationDown, AccountsTable, CategoryIndex
  <2>3. active' \in SUBSET {c \in Codes : category'[c] # NULL}
    BY <1>0, <2>2 DEF TypeOK
  <2>4. Indexed'
    BY <2>1, <2>2 DEF Inv, Indexed, OnePer, AccountsTable, CategoryIndex
  <2>5. UNCHANGED <<category, active>> \/ (TableFree /\ NoAccounts')
    <3>1. ASSUME category' = [c \in Codes |-> NULL] PROVE NoAccounts'
      BY <3>1 DEF NoAccounts
    <3>2. QED
      BY <2>2, <3>1
  <2>6. schema' \in 0 .. Latest
    BY <2>1
  <2>7. /\ proc' \in [Instances -> Process] /\ Alone(i) /\ proc'[i].pc = "unlock"
    BY <1>0, <2>1, GotoEffect DEF Starting
  <2>8. QED
    BY <1>0, <2>1, <2>3, <2>4, <2>5, <2>6, <2>7, LockInv DEF Migrating, Serving
<1>4. CASE Migrated(i)
  <2>1. /\ proc' \in [Instances -> Process] /\ Alone(i) /\ proc'[i].pc \in {"sync", "off"}
    BY <1>0, <1>4, GotoEffect, ExitEffect DEF Migrated, Starting
  <2>2. Indexed'
    BY <1>4 DEF Inv, Indexed, OnePer, Migrated, Local
  <2>3. QED
    BY <1>0, <1>4, <2>1, <2>2, LockInv DEF Migrated, Local, TypeOK, Migrating, Serving
<1>5. QED
  BY <1>1, <1>2, <1>3, <1>4 DEF MigrateStep

LEMMA CommitSyncInv ==
    ASSUME Inv, NEW i \in Instances, CommitSync(i)
    PROVE  Inv'
<1> DEFINE A == AccountCodes(file[i])
<1>0. TypeOK /\ LockHeld /\ OneMigrator /\ file[i] \in Files
  BY DEF Inv, TypeOK
<1>1. /\ proc[i].pc = "upsert" /\ UNCHANGED <<file, schema, locker>>
      /\ category' = Upserted(file[i])
      /\ active' = (active \ proc[i].snap) \cup A
      /\ schema >= CategoryIndex => OnePer(category', active')
  BY DEF CommitSync, At
<1>2. proc' \in [Instances -> Process] /\ Alone(i) /\ proc'[i].pc = "serving"
  <2>1. PICK s \in {"off", "waiting"} :
           proc' = [proc EXCEPT ![i] =
                       [Off EXCEPT !.pc = "serving", !.loops = [l \in Loops |-> s]]]
    BY DEF CommitSync, Serve
  <2> DEFINE q == [Off EXCEPT !.pc = "serving", !.loops = [l \in Loops |-> s]]
  <2>2. q \in Process /\ q.pc = "serving"
    <3>1. [l \in Loops |-> s] \in [Loops -> {"off", "waiting", "running"}]
      OBVIOUS
    <3>2. q = [Off EXCEPT !.pc = "serving", !.loops = [l \in Loops |-> s]]
      OBVIOUS
    <3> HIDE DEF q
    <3>3. QED
      BY <3>1, <3>2, OffType DEF Process, Serving
  <2>3. QED
    BY <1>0, <2>1, <2>2 DEF TypeOK, Alone
<1>3. ASSUME NEW c \in A
      PROVE  /\ c \in Codes /\ category'[c] # NULL
             /\ \E a \in file[i].accounts : a.code = c /\ a.category = category'[c]
  <2>1. PICK a \in file[i].accounts : a.code = c
    BY <1>3 DEF AccountCodes
  <2>2. c \in Codes
    BY <1>0, <2>1
  <2> DEFINE x == CHOOSE y \in file[i].accounts : y.code = c
  <2>3. x \in file[i].accounts /\ x.code = c
    BY <2>1
  <2>4. category'[c] = x.category
    BY <1>1, <1>3, <2>2 DEF Upserted
  <2> HIDE DEF x
  <2>5. QED
    BY <1>0, <2>2, <2>3, <2>4
<1>4. active' \in SUBSET {c \in Codes : category'[c] # NULL}
  <2>1. ASSUME NEW c \in active \ A
        PROVE  c \in Codes /\ category'[c] # NULL
    BY <1>0, <1>1, <2>1 DEF TypeOK, Upserted
  <2>2. QED
    BY <1>1, <1>3, <2>1
<1>5. TypeOK'
  BY <1>0, <1>1, <1>2, <1>4 DEF TypeOK
<1>6. (LockHeld /\ OneMigrator)'
  BY <1>0, <1>1, <1>2 DEF LockHeld, OneMigrator, Alone, At, Migrating
<1>7. Indexed'
  BY <1>1 DEF Indexed, OnePer
<1>8. AccountsFit(file[i])
  BY <1>1 DEF Inv, Checked
<1>9. Checked'
  BY <1>1, <1>2, <1>8 DEF Inv, Checked, Alone, AccountsFit
<1>10. OnePer(category', A)
  BY <1>3, <1>8 DEF OnePer, AccountsFit
<1>11. (SameAccounts => InPlace /\ Covered)'
  <2>1. SUFFICES ASSUME SameAccounts
                 PROVE  (InPlace /\ Covered)'
    BY <1>1 DEF SameAccounts
  <2>2. active' = A
    BY <1>1, <2>1 DEF Inv, Covered
  <2>3. \A j \in Instances : active' = AccountCodes(file'[j])
    BY <1>1, <2>1, <2>2 DEF SameAccounts, AccountCodes
  <2>4. OnePer(category, active)'
    BY <1>10, <2>2 DEF OnePer
  <2>5. QED
    BY <2>3, <2>4 DEF InPlace, Covered
<1>12. QED
  BY <1>5, <1>6, <1>7, <1>9, <1>11 DEF Inv

LEMMA SyncStepInv ==
    ASSUME Inv, NEW i \in Instances, SyncStep(i)
    PROVE  Inv'
<1>1. CASE BeginSync(i)
  <2>1. /\ TypeOK /\ proc[i].pc = "sync" /\ Local /\ UNCHANGED locker
        /\ proc' = [proc EXCEPT ![i].pc = "deactivate", ![i].snap = active]
    BY <1>1 DEF BeginSync, Inv, At
  <2>2. /\ proc' \in [Instances -> Process] /\ Alone(i)
        /\ proc'[i].pc = "deactivate" /\ proc'[i].snap = active
    BY <2>1 DEF TypeOK, Process, Alone, Starting
  <2>3. QED
    BY <2>1, <2>2, LocalInv DEF Migrating, Serving
<1>2. CASE Deactivate(i)
  <2>1. TypeOK /\ proc[i].pc = "deactivate" /\ Local /\ UNCHANGED locker /\ Goto(i, "upsert")
    BY <1>2 DEF Deactivate, Inv, At
  <2>2. QED
    BY <2>1, GotoEffect, LocalInv DEF Migrating, Starting, Serving
<1>3. CASE SyncFails(i)
  <2>1. /\ TypeOK /\ proc[i].pc \in {"sync", "deactivate", "upsert"} /\ Local
        /\ UNCHANGED locker /\ Exit(i)
    BY <1>3 DEF SyncFails, Inv
  <2>2. QED
    BY <2>1, ExitEffect, LocalInv DEF Migrating, Serving
<1>4. QED
  BY <1>1, <1>2, <1>3, CommitSyncInv DEF SyncStep

LEMMA LoopInv ==
    ASSUME Inv, NEW i \in Instances, NEW l \in Loops,
           Tick(i, l) \/ JobReturns(i, l) \/ LoopEnds(i, l)
    PROVE  Inv'
<1>1. PICK s \in {"off", "waiting", "running"} :
         /\ proc' = [proc EXCEPT ![i].loops[l] = s]
         /\ Local /\ UNCHANGED locker
  BY DEF Tick, JobReturns, LoopEnds, SetLoop
<1>2. TypeOK
  BY DEF Inv
<1>3. /\ proc' \in [Instances -> Process] /\ Alone(i)
      /\ proc'[i].pc = proc[i].pc /\ proc'[i].at = proc[i].at /\ proc'[i].snap = proc[i].snap
  BY <1>1, <1>2 DEF TypeOK, Process, Alone
<1>4. proc[i].pc = "goose" => proc[i].at = schema
  BY DEF Inv, OneMigrator, At
<1>5. QED
  BY <1>1, <1>3, <1>4, LocalInv

LEMMA EndInv ==
    ASSUME Inv, NEW i \in Instances, Signal(i) \/ Close(i) \/ Die(i)
    PROVE  Inv'
<1>0. TypeOK
  BY DEF Inv
<1>1. CASE Signal(i)
  <2>1. proc[i].pc = "serving" /\ Goto(i, "draining") /\ Local /\ UNCHANGED locker
    BY <1>1 DEF Signal, At
  <2>2. QED
    BY <1>0, <2>1, GotoEffect, LocalInv DEF Migrating, Serving
<1>2. CASE Close(i)
  <2>1. proc[i].pc = "draining" /\ Exit(i) /\ Local /\ UNCHANGED locker
    BY <1>2 DEF Close, At
  <2>2. QED
    BY <1>0, <2>1, ExitEffect, LocalInv DEF Migrating, Serving
<1>3. CASE Die(i)
  <2>1. Exit(i) /\ Local /\ locker' = locker \ {i}
    BY <1>3 DEF Die
  <2>2. Indexed'
    BY <2>1 DEF Inv, Indexed, OnePer, Local
  <2>3. QED
    BY <1>0, <2>1, <2>2, ExitEffect, LockInv DEF Local, TypeOK, Migrating, Serving
<1>4. QED
  BY <1>1, <1>2, <1>3

-----------------------------------------------------------------------------
(* The theorems.                                                           *)

LEMMA InitInv == Init => Inv
<1> SUFFICES ASSUME Init PROVE Inv
  OBVIOUS
<1>1. proc \in [Instances -> Process] /\ \A i \in Instances : proc[i].pc = "off"
  BY OffType DEF Init
<1>2. TypeOK
  BY <1>1 DEF Init, TypeOK
<1>3. LockHeld /\ OneMigrator /\ Checked /\ Indexed /\ InPlace /\ Covered
  BY <1>1 DEF Init, LockHeld, OneMigrator, Checked, Indexed, InPlace, Covered, Migrating,
              Serving
<1>4. QED
  BY <1>2, <1>3 DEF Inv

LEMMA NextInv == Inv /\ [Next]_vars => Inv'
<1> SUFFICES ASSUME Inv, [Next]_vars PROVE Inv'
  OBVIOUS
<1>1. CASE UNCHANGED vars
  <2>1. TypeOK' /\ LockHeld' /\ OneMigrator' /\ Checked' /\ Indexed'
    BY <1>1 DEF vars, Inv, TypeOK, LockHeld, OneMigrator, Checked, AccountsFit, Indexed,
                OnePer, At
  <2>2. (SameAccounts => InPlace /\ Covered)'
    BY <1>1 DEF vars, Inv, SameAccounts, InPlace, Covered, NoAccounts, OnePer, AccountCodes
  <2>3. QED
    BY <2>1, <2>2 DEF Inv
<1>2. QED
  BY <1>1, StartInv, AcquireLockInv, MigrateStepInv, SyncStepInv, LoopInv, EndInv DEF Next

LEMMA InvHolds == Spec => []Inv
BY InitInv, NextInv, PTL DEF Spec

\* Every variable keeps its type: no schema past the last migration, and no
\* active account without a row.
THEOREM StartupTypeOK == Spec => []TypeOK
<1>1. Inv => TypeOK
  BY DEF Inv
<1>2. QED
  BY <1>1, InvHolds, PTL

\* Of any number of instances that start together one migrates at a time, by
\* a version nobody changes under it (migrationLock).
THEOREM StartupOneMigrator == Spec => []OneMigrator
<1>1. Inv => OneMigrator
  BY DEF Inv
<1>2. QED
  BY <1>1, InvHolds, PTL

\* Instances of one set of accounts serve exactly these, in any number, however
\* their starts overlap and whoever migrates up or down meanwhile, unless the
\* table itself was dropped; and with the index no two active accounts share a
\* category (SyncFromConfig, migrations 1 and 2).
THEOREM StartupInService == Spec => []InService
<1>1. Inv => InService
  <2>1. SUFFICES ASSUME Inv, NEW i \in Instances, proc[i].pc \in Serving,
                        \A j \in Instances : file[j].accounts = file[i].accounts
                 PROVE  active = AccountCodes(file[i]) \/ NoAccounts
    BY DEF Inv, Indexed, InService
  <2>2. SameAccounts
    BY <2>1 DEF SameAccounts
  <2>3. QED
    BY <2>1, <2>2 DEF Inv, InPlace
<1>2. QED
  BY <1>1, InvHolds, PTL

-----------------------------------------------------------------------------
(* One migration after the other, and a pool too small for them.           *)

\* The schema moves by one migration at a time, up or down as the command of
\* the one instance that holds the lock says.
OneMigrationAtATime ==
    schema' # schema =>
        \E i \in Instances :
           /\ locker = {i}
           /\ schema' = IF proc[i].command = "down" THEN schema - 1 ELSE schema + 1

\* An instance with one connection that got the lock holds it until it dies.
OneConnectionBlocks ==
    \A i \in Instances :
        At(i, "version") /\ ~FreeConnection(i) =>
            \/ locker' = {i} /\ proc'[i].pc = "version"
            \/ proc'[i].pc = "off"

\* However many instances start, migrate up and roll back together, no
\* migration is skipped and none is applied to a schema that has it
\* (migrationLock, goose.Up, goose.Down).
THEOREM MigrationsInOrder == Spec => [][OneMigrationAtATime]_vars
<1>1. Inv /\ [Next]_vars => [OneMigrationAtATime]_vars
  <2>1. SUFFICES ASSUME Inv, Next, schema' # schema
                 PROVE  OneMigrationAtATime
    BY DEF OneMigrationAtATime, vars
  <2>2. PICK i \in Instances : ApplyMigration(i) \/ RollBack(i)
    BY <2>1 DEF Next, Start, Connect, AcquireLock, MigrateStep, ReadVersion, Migrated,
                SyncStep, BeginSync, Deactivate, CommitSync, SyncFails, Tick, JobReturns,
                LoopEnds, SetLoop, Signal, Close, Die, Local
  <2>3. locker = {i} /\ proc[i].at = schema
    BY <2>1, <2>2 DEF Inv, OneMigrator, ApplyMigration, RollBack, At
  <2>4. QED
    BY <2>2, <2>3 DEF ApplyMigration, RollBack, OneMigrationAtATime
<1>2. QED
  BY <1>1, InvHolds, PTL DEF Spec

\* The premise of StartsUp is needed: with max_open_conns 1 an instance that
\* got the lock waits for ever for the connection of goose, and nobody else
\* gets the lock before it dies (migrationLock takes its connection of the
\* same pool).
THEOREM OneConnectionNeverMigrates == Spec => [][OneConnectionBlocks]_vars
<1>1. Inv /\ [Next]_vars => [OneConnectionBlocks]_vars
  <2>1. SUFFICES ASSUME Inv, Next, NEW i \in Instances, At(i, "version"),
                        ~FreeConnection(i)
                 PROVE  \/ locker' = {i} /\ proc'[i].pc = "version"
                        \/ proc'[i].pc = "off"
    BY DEF OneConnectionBlocks
  <2>2. TypeOK /\ locker = {i}
    BY <2>1 DEF Inv, OneMigrator, At
  <2>3. PICK j \in Instances :
           \/ Start(j) \/ Connect(j) \/ AcquireLock(j)
           \/ MigrateStep(j) \/ SyncStep(j)
           \/ \E l \in Loops : Tick(j, l) \/ JobReturns(j, l) \/ LoopEnds(j, l)
           \/ Signal(j) \/ Close(j) \/ Die(j)
    BY <2>1 DEF Next
  <2>4. CASE j = i
    <3>1. CASE \E l \in Loops : Tick(i, l) \/ JobReturns(i, l) \/ LoopEnds(i, l)
      BY <2>1, <2>2, <3>1 DEF Tick, JobReturns, LoopEnds, SetLoop, TypeOK, At, Process
    <3>2. CASE Die(i)
      BY <2>2, <3>2, ExitEffect DEF Die
    <3>3. QED
      BY <2>1, <2>3, <2>4, <3>1, <3>2
         DEF Start, Connect, AcquireLock, MigrateStep, ReadVersion, ApplyMigration,
             RollBack, Migrated, SyncStep, BeginSync, Deactivate, CommitSync, SyncFails,
             Signal, Close, At
  <2>5. CASE j # i
    <3>1. proc[j].pc \notin Migrating
      BY <2>1, <2>2, <2>5 DEF Inv, LockHeld
    <3>2. proc'[i] = proc[i]
      BY <2>2, <2>3, <2>5
         DEF Start, Connect, AcquireLock, MigrateStep, ReadVersion, ApplyMigration,
             RollBack, Migrated, SyncStep, BeginSync, Deactivate, CommitSync, SyncFails,
             Signal, Close, Die, Tick, JobReturns, LoopEnds, SetLoop, Serve, Goto, Exit,
             TypeOK
    <3>3. locker' = {i}
      <4>1. CASE Die(j)
        BY <2>2, <2>5, <4>1 DEF Die
      <4>2. CASE MigrateStep(j)
        BY <3>1, <4>2 DEF MigrateStep, ReadVersion, ApplyMigration, RollBack, Migrated,
                          Migrating, At
      <4>3. CASE AcquireLock(j)
        BY <2>2, <4>3 DEF AcquireLock
      <4>4. QED
        BY <2>2, <2>3, <4>1, <4>2, <4>3
           DEF Start, Connect, SyncStep, BeginSync, Deactivate, CommitSync, SyncFails,
               Tick, JobReturns, LoopEnds, SetLoop, Signal, Close
    <3>4. QED
      BY <2>1, <3>2, <3>3 DEF At
  <2>6. QED
    BY <2>4, <2>5
<1>2. QED
  BY <1>1, InvHolds, PTL DEF Spec
=============================================================================

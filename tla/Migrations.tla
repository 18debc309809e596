----------------------------- MODULE Migrations -----------------------------
(***************************************************************************)
(* The upgrade of the database when a collector opens it                   *)
(* (applyMigrations of src/storage/migrations.ts, called by the repository *)
(* of src/storage/repository.ts).  Nothing keeps two processes, possibly   *)
(* of different builds, from opening it together: each looks at the        *)
(* version, copies the file aside, takes the write lock, looks again,      *)
(* applies what is pending in one transaction, and removes older copies.   *)
(*                                                                         *)
(* Abstracted: what a migration does is that its tables exist; a copy is   *)
(* the version it holds and whether it is whole; the database file holds   *)
(* what the last checkpoint folded into it, the rest is in the WAL.        *)
(***************************************************************************)
EXTENDS Integers, FiniteSets

CONSTANTS
    Openers,          \* processes that open the database
    Targets,          \* TARGET_SCHEMA_VERSION of the builds there are
    MaxOpenings,      \* bound: starts
    MaxUpgradeFaults  \* bound: stops, failing migrations, waits given up

NoOpener == "none"

ASSUME UpgradeAssumption ==
    /\ IsFiniteSet(Openers) /\ NoOpener \notin Openers /\ Targets \subseteq Nat \ {0}
    /\ {MaxOpenings, MaxUpgradeFaults} \subseteq Nat

VARIABLES
    db,         \* what is committed: [version, tables]
    inFile,     \* the version the database file holds
    backup,     \* [Targets -> copy or NoCopy]: <path>.pre-v<target>.bak
    writer,     \* who holds the write lock, or NoOpener
    opener,     \* what each process is at
    spoilt,     \* history: targets whose copy was cut, or raced, or removed by another
    openings, upgradeFaults   \* how many happened, for the bounds

upgradeVars == <<db, inFile, backup, writer, opener, spoilt, openings, upgradeFaults>>

NoCopy   == [version |-> -1, whole |-> FALSE]
Closed   == [at |-> "closed", build |-> 0, seen |-> 0, from |-> 0, keep |-> 0, copied |-> -1]

\* The database of a build, one from before there were versions, or a new file.
MigrationsInit ==
    /\ db \in {[version |-> 0, tables |-> {}], [version |-> 0, tables |-> {1}]}
              \cup {[version |-> t, tables |-> 1..t] : t \in Targets}
    /\ inFile = db.version
    /\ backup = [t \in Targets |-> NoCopy] /\ writer = NoOpener /\ spoilt = {}
    /\ opener = [p \in Openers |-> Closed] /\ openings = 0 /\ upgradeFaults = 0

-----------------------------------------------------------------------------
At(p, step) == opener[p].at = step
Goes(p, step) == opener' = [opener EXCEPT ![p].at = step]

PendingFrom(version, build) == {m \in 1..build : m > version}

\* The plausible slip: the version seen before the lock is used.
FromMutant(p) == opener[p].seen

\* The version to apply migrations from is read again under the lock.
From(p) == db.version

\* The plausible slip: a newer database is taken for one with nothing pending.
IsNewerMutant(version, build) == FALSE

\* A database of a newer build is refused (assertNotNewer).
IsNewer(version, build) == version > build

\* A migration creates its tables, the first one only those that are missing.
Clashes(ms) == \E m \in ms : m > 1 /\ m \in db.tables

HasContent == db.tables # {}
Exists(target) == backup[target] # NoCopy
Copying(target) == {p \in Openers : At(p, "copying") /\ opener[p].build = target}

Open(p) ==
    /\ At(p, "closed") /\ openings < MaxOpenings /\ openings' = openings + 1
    /\ \E build \in Targets :
          LET step == IF IsNewer(db.version, build) THEN "refused"
                      ELSE IF PendingFrom(db.version, build) = {} THEN "open"
                      ELSE "pending"
          IN  opener' = [opener EXCEPT ![p] = [Closed EXCEPT !.at = step, !.build = build,
                                                             !.seen = db.version]]
    /\ UNCHANGED <<db, inFile, backup, writer, spoilt, upgradeFaults>>

\* The plausible slip: a copy that is here is overwritten.
KeepsMutant(target) == FALSE

\* Whatever copy is here already is kept.
Keeps(target) == Exists(target)

LooksForBackup(p) ==
    /\ At(p, "pending")
    /\ LET target == opener[p].build
           step   == IF HasContent /\ ~Keeps(target) THEN "copies" ELSE "ready"
       IN  /\ opener' = [opener EXCEPT ![p].at = step,
                                       ![p].keep = IF HasContent THEN target ELSE 0,
                                       ![p].copied = backup[target].version]
           /\ spoilt' = spoilt \cup {t \in {target} : Copying(t) # {}}
    /\ UNCHANGED <<db, inFile, backup, writer, openings, upgradeFaults>>

\* The checkpoint folds the WAL into the file, unless a writer is at work; then
\* the file is copied.
BeginsCopy(p) ==
    /\ At(p, "copies")
    /\ inFile' = IF writer = NoOpener THEN db.version ELSE inFile
    /\ LET target == opener[p].build
       IN  /\ spoilt' = spoilt \cup {t \in {target} : backup[t].version # opener[p].copied}
           /\ backup' = [backup EXCEPT ![target] = [version |-> inFile', whole |-> FALSE]]
    /\ opener' = [opener EXCEPT ![p].at = "copying", ![p].copied = inFile']
    /\ UNCHANGED <<db, writer, openings, upgradeFaults>>

EndsCopy(p) ==
    /\ At(p, "copying") /\ Goes(p, "ready")
    /\ LET target == opener[p].build
           torn   == inFile # opener[p].copied
       IN  /\ backup' = IF ~Exists(target) THEN backup
                        ELSE [backup EXCEPT ![target].whole = ~torn /\ Copying(target) = {p}]
           /\ spoilt' = IF torn THEN spoilt \cup {target} ELSE spoilt
    /\ UNCHANGED <<db, inFile, writer, openings, upgradeFaults>>

\* BEGIN IMMEDIATE, and the second look.
Locks(p) ==
    /\ At(p, "ready") /\ writer = NoOpener
    /\ IF IsNewer(From(p), opener[p].build)
       THEN Goes(p, "refused") /\ UNCHANGED writer
       ELSE /\ opener' = [opener EXCEPT ![p].at = "upgrading", ![p].from = From(p)]
            /\ writer' = p
    /\ UNCHANGED <<db, inFile, backup, spoilt, openings, upgradeFaults>>

\* The commit may fold the WAL by itself.
Upgrades(p) ==
    /\ At(p, "upgrading") /\ writer' = NoOpener
    /\ LET ms == PendingFrom(opener[p].from, opener[p].build)
       IN  IF Clashes(ms)
           THEN Goes(p, "clashed") /\ UNCHANGED <<db, inFile>>
           ELSE /\ db' = [version |-> opener[p].build, tables |-> db.tables \cup ms]
                /\ inFile' \in {inFile, db'.version}
                /\ Goes(p, "committed")
    /\ UNCHANGED <<backup, spoilt, openings, upgradeFaults>>

\* Removes the copies but the one just made or kept.
PrunesBackups(p) ==
    /\ At(p, "committed") /\ Goes(p, "open")
    /\ backup' = [t \in Targets |-> IF t = opener[p].keep THEN backup[t] ELSE NoCopy]
    /\ spoilt' = spoilt \cup ({opener[q].keep : q \in Openers \ {p}} \ {0, opener[p].keep})
    /\ UNCHANGED <<db, inFile, writer, openings, upgradeFaults>>

\* A stop ends the process and undoes its transaction; a copy it was writing is cut.
CloseDatabase(p) ==
    /\ ~At(p, "closed") /\ opener' = [opener EXCEPT ![p] = Closed]
    /\ upgradeFaults' = IF opener[p].at \in {"open", "refused", "broken", "clashed"}
                        THEN upgradeFaults ELSE upgradeFaults + 1
    /\ upgradeFaults' <= MaxUpgradeFaults
    /\ writer' = IF writer = p THEN NoOpener ELSE writer
    /\ spoilt' = spoilt \cup {t \in {opener[p].build} : At(p, "copying")}
    /\ UNCHANGED <<db, inFile, backup, openings>>

\* A migration fails and is rolled back, or the lock does not come in time.
UpgradeFails(p) ==
    /\ At(p, "upgrading") \/ (At(p, "ready") /\ writer # NoOpener)
    /\ Goes(p, "broken") /\ writer' = IF writer = p THEN NoOpener ELSE writer
    /\ upgradeFaults < MaxUpgradeFaults /\ upgradeFaults' = upgradeFaults + 1
    /\ UNCHANGED <<db, inFile, backup, spoilt, openings>>

MigrationsNext ==
    \E p \in Openers :
        \/ Open(p) \/ LooksForBackup(p) \/ BeginsCopy(p) \/ EndsCopy(p) \/ Locks(p)
        \/ Upgrades(p) \/ PrunesBackups(p) \/ CloseDatabase(p) \/ UpgradeFails(p)

MigrationsSpec == MigrationsInit /\ [][MigrationsNext]_upgradeVars

-----------------------------------------------------------------------------
MigrationsTypeOK ==
    /\ db.version \in {0} \cup Targets /\ inFile \in {0} \cup Targets
    /\ \A t \in Targets : \/ backup[t] = NoCopy
                          \/ backup[t].version \in {0} \cup Targets /\ backup[t].whole \in BOOLEAN
    /\ \A p \in Openers :
          /\ opener[p].at \in {"closed", "pending", "copies", "copying", "ready", "upgrading",
                               "committed", "open", "refused", "broken", "clashed"}
          /\ opener[p].build \in {0} \cup Targets /\ opener[p].keep \in {0, opener[p].build}
    /\ writer \in Openers \cup {NoOpener} /\ spoilt \subseteq Targets

(* Two starts at once do not trip over each other: none applies a migration   *)
(* whose tables another has created since it looked, and none takes the       *)
(* database of a newer build back to its own version: the version always says *)
(* which tables exist (applyMigrations: the second look; assertNotNewer).     *)
StartsDoNotClash ==
    /\ \A p \in Openers : ~At(p, "clashed")
    /\ db.version > 0 => db.tables = 1..db.version

(* An upgrade can be gone back on: once it is committed, the copy named after *)
(* it is whole and from before it, unless two copies raced, a stop cut one,   *)
(* or a process of another build removed it (backupBeforeMigration,           *)
(* pruneOldBackups).                                                          *)
UpgradeIsReversible ==
    \A p \in Openers :
        LET target == opener[p].keep
        IN  /\ At(p, "committed") /\ opener[p].from < opener[p].build
            /\ target \notin spoilt \cup {0}
            => backup[target].whole /\ backup[target].version < target

(* Upgrades: starts that overlap do not clash, what was upgraded can be gone  *)
(* back on, and no build takes the database of a newer one back               *)
(* (applyMigrations).                                                         *)
UpgradesAreSafe == StartsDoNotClash /\ UpgradeIsReversible
=============================================================================

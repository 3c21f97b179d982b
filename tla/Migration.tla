------------------------------ MODULE Migration ------------------------------
(* Replicas of the gateway that boot against one database: persistence.Open *)
(* and MigrateUp (internal/persistence/db.go), as cmd/trino-goway/main.go   *)
(* calls them from run and from the -migrate-only job.  A replica connects, *)
(* waits for the advisory lock, lets goose apply what is not yet recorded,  *)
(* and drops the lock.  Processes die at any step and are started again.    *)
(* The session that holds the lock is taken to live as long as its process: *)
(* goose uses other connections, and would go on if only that one failed.   *)
EXTENDS Naturals

CONSTANTS
    Replicas,      \* processes of the gateway
    AutoMigrate,   \* those with db.autoMigrate, and the -migrate-only job
    Versions,      \* the embedded migrations, by number
    Repeatable,    \* those whose DDL may run twice (CREATE TABLE IF NOT EXISTS)
    MaxFaults,     \* crashes and database errors in a behaviour
    NoSession,     \* no session holds the lock
    Orphan         \* the session of a process that has died

ASSUME MigrationConstants ==
    /\ AutoMigrate \subseteq Replicas
    /\ Versions \subseteq Nat
    /\ Repeatable \subseteq Versions
    /\ MaxFaults \in Nat
    /\ NoSession \notin Replicas
    /\ Orphan \notin Replicas
    /\ NoSession # Orphan

VARIABLES
    driver,        \* "postgres" or "mysql" (DBConfig.Driver)
    bootPc,        \* where each replica is
    lockHolder,    \* whose session holds the advisory lock
    effects,       \* migrations whose DDL has taken effect
    records,       \* rows of goose's version table, per version
    pending,       \* per replica: what its provider.Up found unapplied
    faults         \* crashes and database errors so far

migrationVars ==
    <<driver, bootPc, lockHolder, effects, records, pending, faults>>

BootPcs ==
    {"down", "waiting", "locked", "applying", "recording", "giveup", "done",
     "up", "failed"}

(* Between acquireMigrateLock and release.                                  *)
Critical == {"locked", "applying", "recording", "giveup", "done"}

Unrecorded == {v \in Versions : records[v] = 0}

MigrationInit ==
    /\ driver \in {"postgres", "mysql"}
    /\ bootPc = [r \in Replicas |-> "down"]
    /\ lockHolder = NoSession
    /\ effects = {}
    /\ records = [v \in Versions |-> 0]
    /\ pending = [r \in Replicas |-> {}]
    /\ faults = 0

Fault ==
    /\ faults < MaxFaults
    /\ faults' = faults + 1

(* Open connects; without AutoMigrate that is all.                          *)
Open(r) ==
    /\ bootPc[r] = "down"
    /\ bootPc' = [bootPc EXCEPT ![r] =
           IF r \in AutoMigrate THEN "waiting" ELSE "up"]
    /\ UNCHANGED <<driver, lockHolder, effects, records, pending, faults>>

OpenFails(r) ==
    /\ bootPc[r] \in {"down", "waiting"}
    /\ Fault
    /\ bootPc' = [bootPc EXCEPT ![r] = "failed"]
    /\ UNCHANGED <<driver, lockHolder, effects, records, pending>>

(* A lock call that answers without waiting for the holder.                 *)
AcquireLockAtOnce(r) ==
    /\ bootPc[r] = "waiting"
    /\ lockHolder' = r
    /\ bootPc' = [bootPc EXCEPT ![r] = "locked"]
    /\ UNCHANGED <<driver, effects, records, pending, faults>>

(* pg_advisory_lock and GET_LOCK return once the lock is the caller's.      *)
AcquireLock(r) ==
    /\ bootPc[r] = "waiting"
    /\ lockHolder = NoSession
    /\ lockHolder' = r
    /\ bootPc' = [bootPc EXCEPT ![r] = "locked"]
    /\ UNCHANGED <<driver, effects, records, pending, faults>>

(* migrateLockTimeout has passed while another session holds the lock.      *)
LockTimeout(r) ==
    /\ bootPc[r] = "waiting"
    /\ lockHolder # NoSession
    /\ bootPc' = [bootPc EXCEPT ![r] = "failed"]
    /\ UNCHANGED <<driver, lockHolder, effects, records, pending, faults>>

(* A provider that lists every embedded migration.                          *)
ListAll(r) ==
    /\ bootPc[r] = "locked"
    /\ pending' = [pending EXCEPT ![r] = Versions]
    /\ bootPc' = [bootPc EXCEPT ![r] = "applying"]
    /\ UNCHANGED <<driver, lockHolder, effects, records, faults>>

(* provider.Up reads the version table once, under the lock.                *)
ListPending(r) ==
    /\ bootPc[r] = "locked"
    /\ pending' = [pending EXCEPT ![r] = Unrecorded]
    /\ bootPc' = [bootPc EXCEPT ![r] = "applying"]
    /\ UNCHANGED <<driver, lockHolder, effects, records, faults>>

Lowest(v, S) == v \in S /\ \A w \in S : v <= w

(* goose runs the lowest pending migration.  On Postgres its DDL and its    *)
(* version row are one transaction; MySQL commits the DDL by itself.  DDL   *)
(* that took effect before fails unless it may run twice.                   *)
Apply(r, v) ==
    /\ bootPc[r] = "applying"
    /\ Lowest(v, pending[r])
    /\ IF v \in effects \ Repeatable
         THEN /\ bootPc' = [bootPc EXCEPT ![r] = "giveup"]
              /\ UNCHANGED <<effects, records, pending>>
         ELSE /\ effects' = effects \cup {v}
              /\ IF driver = "postgres"
                   THEN /\ records' = [records EXCEPT ![v] = @ + 1]
                        /\ pending' = [pending EXCEPT ![r] = @ \ {v}]
                        /\ UNCHANGED bootPc
                   ELSE /\ bootPc' = [bootPc EXCEPT ![r] = "recording"]
                        /\ UNCHANGED <<records, pending>>
    /\ UNCHANGED <<driver, lockHolder, faults>>

Record(r, v) ==
    /\ bootPc[r] = "recording"
    /\ Lowest(v, pending[r])
    /\ records' = [records EXCEPT ![v] = @ + 1]
    /\ pending' = [pending EXCEPT ![r] = @ \ {v}]
    /\ bootPc' = [bootPc EXCEPT ![r] = "applying"]
    /\ UNCHANGED <<driver, lockHolder, effects, faults>>

Applied(r) ==
    /\ bootPc[r] = "applying"
    /\ pending[r] = {}
    /\ bootPc' = [bootPc EXCEPT ![r] = "done"]
    /\ UNCHANGED <<driver, lockHolder, effects, records, pending, faults>>

(* A database error in NewProvider or Up.                                   *)
UpFails(r) ==
    /\ bootPc[r] \in {"locked", "applying", "recording"}
    /\ Fault
    /\ bootPc' = [bootPc EXCEPT ![r] = "giveup"]
    /\ UNCHANGED <<driver, lockHolder, effects, records, pending>>

(* An error of Up that Open does not return.                                *)
ReleaseDropsError(r) ==
    /\ bootPc[r] \in {"giveup", "done"}
    /\ lockHolder' = NoSession
    /\ bootPc' = [bootPc EXCEPT ![r] = "up"]
    /\ UNCHANGED <<driver, effects, records, pending, faults>>

(* The deferred release, and conn.Close after it: the lock is dropped even  *)
(* when the unlock statement fails.  Open closes the pool on an error.      *)
Release(r) ==
    /\ bootPc[r] \in {"giveup", "done"}
    /\ lockHolder' = NoSession
    /\ bootPc' = [bootPc EXCEPT ![r] = IF @ = "done" THEN "up" ELSE "failed"]
    /\ UNCHANGED <<driver, effects, records, pending, faults>>

(* The process dies.  Its session outlives it until the server notices.     *)
Crash(r) ==
    /\ bootPc[r] \notin {"down", "failed"}
    /\ Fault
    /\ bootPc' = [bootPc EXCEPT ![r] = "failed"]
    /\ lockHolder' = IF lockHolder = r THEN Orphan ELSE lockHolder
    /\ UNCHANGED <<driver, effects, records, pending>>

(* A server that keeps the locks of sessions whose client is gone.          *)
SessionStays ==
    /\ lockHolder = Orphan
    /\ UNCHANGED migrationVars

SessionEnds ==
    /\ lockHolder = Orphan
    /\ lockHolder' = NoSession
    /\ UNCHANGED <<driver, bootPc, effects, records, pending, faults>>

(* The supervisor starts a process that has exited again.                   *)
Restart(r) ==
    /\ bootPc[r] = "failed"
    /\ bootPc' = [bootPc EXCEPT ![r] = "down"]
    /\ UNCHANGED <<driver, lockHolder, effects, records, pending, faults>>

BootStep(r) ==
    \/ Open(r)
    \/ AcquireLock(r)
    \/ ListPending(r)
    \/ \E v \in Versions : Apply(r, v) \/ Record(r, v)
    \/ Applied(r)
    \/ Release(r)
    \/ Restart(r)

MigrationNext ==
    \/ \E r \in Replicas :
           BootStep(r) \/ LockTimeout(r) \/ OpenFails(r) \/ UpFails(r) \/ Crash(r)
    \/ SessionEnds

MigrationSpec == MigrationInit /\ [][MigrationNext]_migrationVars

(* The database frees the lock of a dead session and grants a free lock to  *)
(* one that keeps asking; processes run on and are started again.           *)
MigrationFair ==
    /\ WF_migrationVars(SessionEnds)
    /\ \A r \in Replicas :
           /\ WF_migrationVars(BootStep(r))
           /\ SF_migrationVars(AcquireLock(r))

MigrationFairSpec == MigrationSpec /\ MigrationFair

-----------------------------------------------------------------------------

(* Every variable stays in its type.                                        *)
MigrationTypeOK ==
    /\ driver \in {"postgres", "mysql"}
    /\ bootPc \in [Replicas -> BootPcs]
    /\ lockHolder \in Replicas \cup {NoSession, Orphan}
    /\ effects \subseteq Versions
    /\ records \in [Versions -> Nat]
    /\ pending \in [Replicas -> SUBSET Versions]
    /\ faults \in 0 .. MaxFaults

(* However many replicas boot together, die and start again, goose records  *)
(* no migration twice (internal/persistence/migrate_test.go, "Applied       *)
(* exactly once").                                                          *)
AppliedOnce == \A v \in Versions : records[v] <= 1

(* A replica that was to migrate and that Open let through serves on the    *)
(* whole schema, whoever applied it: an error of another replica's Up, or   *)
(* its death in the middle, never passes for an upgrade.                    *)
ServesWholeSchema ==
    \A r \in AutoMigrate : bootPc[r] = "up" => Unrecorded = {}

(* The lock of MigrateUp makes the replicas' provider.Up calls one upgrade: *)
(* version after version, under one replica at a time.                      *)
Schema == INSTANCE SchemaUpgrade WITH
    upgraded <- Versions \ Unrecorded,
    upgrader <- IF lockHolder = Orphan THEN NoSession ELSE lockHolder

UpgradesInOrder == Schema!UpgradeSpec

(* On Postgres no crash and no lock timeout keeps a replica out for good:   *)
(* once the faults are over every replica comes up (Open, MigrateUp).  On   *)
(* MySQL a death between the DDL and its version row does: ALTER TABLE ADD  *)
(* COLUMN cannot run twice.                                                 *)
ReplicasComeUp ==
    driver = "postgres" => <>[](\A r \in Replicas : bootPc[r] = "up")
=============================================================================

-------------------------- MODULE MigrationRunner --------------------------
(***************************************************************************)
(* The database migrations (server/src/db/migrationRunner.ts).  A run      *)
(* reads which versions are recorded, takes a global lease that expires    *)
(* and is never renewed, and executes the files of its plan one by one,    *)
(* recording each version under a unique index.  Deployments may run it    *)
(* concurrently, in both directions, and may die at any point.  The        *)
(* checkpoints of a run are written and never read, and left out.          *)
(***************************************************************************)
EXTENDS Integers, Sequences

CONSTANTS
    Files,     \* versions of the migration files, in the order they are sorted
    Runners,   \* processes that run migrations
    LeaseTerm, \* DEFAULT_LEASE_MS in clock units
    MaxMoment  \* bound on the clock

File == DOMAIN Files

ASSUME MigrationAssumption ==
    /\ Files \in Seq(Nat)
    /\ \A f, g \in File : f <= g => Files[f] <= Files[g]

VARIABLES
    applied, \* versions recorded in the migrations collection
    done,    \* files whose up has run, and whose down has not run since
    lease,   \* the document of migration_leases
    runner,  \* what each process is doing
    moment,  \* wall clock
    bothWays \* runs of both directions have been under way at once

migrationVars == <<applied, done, lease, runner, moment, bothWays>>

FreeLease == [holder |-> "nobody", expires |-> 0]
NotRunning == [pc |-> "idle"]

MigrationInit ==
    /\ applied = {} /\ done = {}
    /\ lease = FreeLease
    /\ runner = [r \in Runners |-> NotRunning]
    /\ moment = 0
    /\ bothWays = FALSE

\* selectMigrationPlan.  No target is a target above or below every version.
Plan(direction, target) ==
    IF direction = "up"
    THEN {f \in File : Files[f] \notin applied /\ Files[f] <= target}
    ELSE {f \in File : Files[f] \in applied /\ Files[f] > target}

\* Mutant: a rollback keeps the order of the files.
IsFirst(r, f) == f \in runner[r].plan /\ \A g \in runner[r].plan : f <= g

\* Forward in the order of the files, rollbacks in reverse.
IsNext(r, f) ==
    /\ f \in runner[r].plan
    /\ \A g \in runner[r].plan :
          IF runner[r].direction = "up" THEN f <= g ELSE f >= g

\* runMigrations reads the recorded versions before it takes the lease.
StartRun(r, direction, target) ==
    /\ runner[r] = NotRunning
    /\ runner' = [runner EXCEPT ![r] =
                    [pc |-> "lease", direction |-> direction, target |-> target,
                     plan |-> Plan(direction, target), ok |-> TRUE]]
    /\ bothWays' = (bothWays \/ \E q \in Runners :
                      runner[q] # NotRunning /\ runner[q].direction # direction)
    /\ UNCHANGED <<applied, done, lease, moment>>

\* The plan goes on with its next file, or the run ends.
GoOn(r, plan) ==
    runner' = [runner EXCEPT ![r].plan = plan,
                             ![r].pc = IF plan = {} THEN "release" ELSE "run"]

Fail(r) == runner' = [runner EXCEPT ![r].pc = "release", ![r].ok = FALSE]

\* acquireMigrationLease: the upsert meets the unique index while the lease of
\* another run has not expired, and the run is over.
AcquireLease(r) ==
    /\ runner[r].pc = "lease"
    /\ IF lease = FreeLease \/ lease.expires <= moment
       THEN /\ lease' = [holder |-> r, expires |-> moment + LeaseTerm]
            /\ GoOn(r, runner[r].plan)
       ELSE /\ runner' = [runner EXCEPT ![r] = NotRunning]
            /\ UNCHANGED lease
    /\ UNCHANGED <<applied, done, moment, bothWays>>

\* The up or the down function of the next file, which may throw.
RunFile(r, f) ==
    /\ runner[r].pc = "run"
    /\ IsNext(r, f)
    /\ \/ /\ done' = IF runner[r].direction = "up" THEN done \cup {f} ELSE done \ {f}
          /\ runner' = [runner EXCEPT ![r].pc = "record"]
       \/ Fail(r) /\ UNCHANGED done
    /\ UNCHANGED <<applied, lease, moment, bothWays>>

\* insertOne, under the unique index on the version, or deleteOne.
RecordVersion(r, f) ==
    /\ runner[r].pc = "record"
    /\ IsNext(r, f)
    /\ IF runner[r].direction = "up"
       THEN IF Files[f] \in applied
            THEN Fail(r) /\ UNCHANGED applied
            ELSE applied' = applied \cup {Files[f]} /\ GoOn(r, runner[r].plan \ {f})
       ELSE applied' = applied \ {Files[f]} /\ GoOn(r, runner[r].plan \ {f})
    /\ UNCHANGED <<done, lease, moment, bothWays>>

\* releaseMigrationLease deletes the lease if it is still this run's.
ReleaseLease(r) ==
    /\ runner[r].pc = "release"
    /\ lease' = IF lease.holder = r THEN FreeLease ELSE lease
    /\ runner' = [runner EXCEPT ![r] = NotRunning]
    /\ UNCHANGED <<applied, done, moment, bothWays>>

\* The process dies; its lease stays.
RunnerDies(r) ==
    /\ runner[r] # NotRunning
    /\ runner' = [runner EXCEPT ![r] = NotRunning]
    /\ UNCHANGED <<applied, done, lease, moment, bothWays>>

MomentPasses ==
    /\ moment < MaxMoment
    /\ moment' = moment + 1
    /\ UNCHANGED <<applied, done, lease, runner, bothWays>>

Goals == {0} \cup {Files[f] : f \in File}

MigrationNext ==
    \/ \E r \in Runners :
          \/ \E direction \in {"up", "down"}, target \in Goals :
                StartRun(r, direction, target)
          \/ AcquireLease(r)
          \/ \E f \in File : RunFile(r, f) \/ RecordVersion(r, f)
          \/ ReleaseLease(r)
          \/ RunnerDies(r)
    \/ MomentPasses

MigrationSpec == MigrationInit /\ [][MigrationNext]_migrationVars

-----------------------------------------------------------------------------
\* "Apply all pending migrations in order" (tests/migrations.test.ts:93) and
\* "roll back migrations in reverse order" (:151): whatever runs from outdated
\* plans, outlives its lease or dies, no version is recorded without all the
\* earlier ones, unless a run up and a run down have overlapped.
AppliedInOrder ==
    ~bothWays => \A v \in applied : \A f \in File :
                   Files[f] < v => Files[f] \in applied

\* A run up to the last version that ends well has brought every migration
\* file to the database ("should apply all pending migrations",
\* tests/migrations.test.ts:93).  It does not where two files share a version.
AllFilesRun ==
    \A r \in Runners :
        (/\ runner[r].pc = "release" /\ runner[r].ok
         /\ runner[r].direction = "up"
         /\ \A f \in File : Files[f] <= runner[r].target
         /\ ~bothWays)
        => done = File
=============================================================================
